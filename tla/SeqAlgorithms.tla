--------------------------- MODULE SeqAlgorithms ---------------------------
(***************************************************************************)
(* algorithm/seq_op.h: the loops over a range, from what they read to what *)
(* they return or leave in the range.                                      *)
(*                                                                         *)
(* A range is a sequence, a result that is an iterator a position in it.   *)
(* A predicate is the set P of the values it holds of, a comparison the    *)
(* set of pairs, a generator the sequence of its results; the forms of an  *)
(* algorithm that compare with one value are those for a set of one, and   *)
(* the forms for [first, last) and for n elements are one operator unless  *)
(* their loops differ.  copy, move and fill inside a range are in Storage. *)
(* Moving out of an element leaves Moved there, or the element itself if   *)
(* its type has nothing to move; moving onto itself changes nothing.       *)
(* rotate is left out, whose body is not written (seq_op.h:598), and       *)
(* replace_copy_if_n, which ends without a return: what a call of it gives *)
(* is undefined (seq_op.h:543).                                            *)
(***************************************************************************)
EXTENDS Sequence

CONSTANTS Values,   \* elements
          MaxLen,   \* bound: elements of a range
          Moved     \* an element that was moved from

VARIABLE range

\* A caller's range, element by element.
Init == range = <<>>
Extend == \E x \in Values : Len(range) < MaxLen /\ range' = Append(range, x)
Next == Extend
Spec == Init /\ [][Next]_range

-----------------------------------------------------------------------------
(* Nothing is changed.                                                     *)

find_if(s, P) ==
    LET from[i \in Nat] == IF i = Len(s) THEN i ELSE IF s[i + 1] \in P THEN i ELSE from[i + 1]
    IN  from[0]
find_if_not(s, P) ==
    LET from[i \in Nat] == IF i = Len(s) THEN i ELSE IF s[i + 1] \notin P THEN i ELSE from[i + 1]
    IN  from[0]

all_of(s, P) == find_if_not(s, P) = Len(s)
any_of(s, P) == find_if(s, P) /= Len(s)
none_of(s, P) == find_if(s, P) = Len(s)

\* The forms for n elements stop at the first that decides.
StopsAt(s, n, P) == LET from[i \in Nat] == i < n /\ (s[i + 1] \in P \/ from[i + 1]) IN from[0]
all_of_n(s, n, P) == ~StopsAt(s, n, {x \in ToSet(s) : x \notin P})
any_of_n(s, n, P) == StopsAt(s, n, P)
none_of_n(s, n, P) == ~StopsAt(s, n, P)

count_if(s, P) == FoldLeft(LAMBDA ret, x : IF x \in P THEN ret + 1 ELSE ret, 0, s)

adjacent_find(s, same) ==
    LET from[i \in Nat] == IF i + 1 = Len(s) THEN i + 1
                           ELSE IF <<s[i + 1], s[i + 2]>> \in same THEN i ELSE from[i + 1]
    IN  IF s = <<>> THEN 0 ELSE from[0]

missmatch(s, t, same) ==
    LET from[i \in Nat] == IF i < Len(s) /\ i < Len(t) /\ <<s[i + 1], t[i + 1]>> \in same THEN from[i + 1] ELSE i
    IN  from[0]

-----------------------------------------------------------------------------
(* To another range.                                                       *)

copy_if(s, P) == FoldLeft(LAMBDA out, x : IF x \in P THEN Append(out, x) ELSE out, <<>>, s)
remove_copy_if(s, P) == FoldLeft(LAMBDA out, x : IF x \notin P THEN Append(out, x) ELSE out, <<>>, s)
replace_copy_if(s, P, v) == FoldLeft(LAMBDA out, x : Append(out, IF x \in P THEN v ELSE x), <<>>, s)
transform(s, op) == FoldLeft(LAMBDA out, x : Append(out, op[x]), <<>>, s)
transform2(s, t, op) == FoldLeft(LAMBDA out, i : Append(out, op[s[i], t[i]]), <<>>, [i \in DOMAIN s |-> i])
reverse_copy(s) == FoldLeft(LAMBDA out, i : Append(out, s[Len(s) + 1 - i]), <<>>, [i \in DOMAIN s |-> i])
rotate_copy(s, n) == SubSeq(s, n + 1, Len(s)) \o SubSeq(s, 1, n)
SlipUniqueCopy(s, same) ==
    FoldLeft(LAMBDA out, i : IF i > 1 /\ <<s[i], s[1]>> \in same THEN out ELSE Append(out, s[i]),
             <<>>, [i \in DOMAIN s |-> i])
unique_copy(s, same) ==
    FoldLeft(LAMBDA out, i : IF i > 1 /\ <<s[i], s[i - 1]>> \in same THEN out ELSE Append(out, s[i]),
             <<>>, [i \in DOMAIN s |-> i])

\* The form with a predicate assigns the first element to the iterator, not through it
\* (d_first = *first).  An iterator that inserts what it is assigned writes it as well;
\* any other has the element for its new value, if that can be converted, and
\* nothing more gets to where it pointed.
unique_copy_if(s, same, inserts) == IF inserts THEN unique_copy(s, same) ELSE <<>>

-----------------------------------------------------------------------------
(* In place.  movable says whether moving leaves Moved behind.             *)

replace_if(s, P, v) == FoldLeft(LAMBDA t, i : IF t[i] \in P THEN [t EXCEPT ![i] = v] ELSE t, s, [i \in DOMAIN s |-> i])
generate(s, results) == FoldLeft(LAMBDA t, i : [t EXCEPT ![i] = results[i]], s, [i \in DOMAIN s |-> i])

\* The element at it becomes the one at first, which goes on.
MoveDown(a, it, movable) ==
    [s |-> IF a.first = it THEN a.s
           ELSE [a.s EXCEPT ![a.first + 1] = a.s[it + 1], ![it + 1] = IF movable THEN Moved ELSE @],
     first |-> a.first + 1]

\* Of [0, n), those not in P, from the position start on.
RemoveFrom(s, start, n, P, movable) ==
    FoldLeft(LAMBDA a, i : IF a.s[start + i] \in P THEN a ELSE MoveDown(a, start + i - 1, movable),
             [s |-> s, first |-> start], [i \in 1 .. n - start |-> i])
remove_if(s, P, movable) == RemoveFrom(s, find_if(s, P), Len(s), P, movable)
remove_if_n(s, n, P, movable) == RemoveFrom(s, 0, n, P, movable)

\* prev is the element before it, even when that was moved down.
unique(s, same, movable) ==
    IF s = <<>> THEN [s |-> s, first |-> 0]
    ELSE FoldLeft(LAMBDA a, it : IF <<a.s[it + 1], a.s[it]>> \in same THEN a ELSE MoveDown(a, it, movable),
                  [s |-> s, first |-> 1], [it \in 1 .. Len(s) - 1 |-> it])

iter_swap(s, i, j) == [s EXCEPT ![i + 1] = s[j + 1], ![j + 1] = s[i + 1]]
swap_ranges(s, t) ==
    FoldLeft(LAMBDA a, i : [s |-> [a.s EXCEPT ![i] = a.t[i]], t |-> [a.t EXCEPT ![i] = a.s[i]]],
             [s |-> s, t |-> t], [i \in DOMAIN s |-> i])

\* The two iterators of an even number of elements pass each other: they are
\* never equal, and the loop runs off the range.
ReverseRunsOff(s) == Len(s) > 0 /\ Len(s) % 2 = 0
reverse(s) ==
    LET from[first \in Nat, last \in Nat, t \in Seq(ToSet(s))] ==
            IF first = last THEN t ELSE from[first + 1, last - 1, iter_swap(t, first, last)]
    IN  IF s = <<>> THEN s ELSE from[0, Len(s) - 1, s]

-----------------------------------------------------------------------------
(* What holds.                                                             *)

Predicates == SUBSET Values
Alike(P) == {xy \in Values \X Values : xy[1] \in P <=> xy[2] \in P}
Equivalences == {{<<x, x>> : x \in Values}} \cup {Alike(P) : P \in Predicates}
Least(S) == CHOOSE i \in S : \A j \in S : i <= j
Shortened(a) == SubSeq(a.s, 1, a.first)

\* The elements that are the same as the one before them.
Runs(s, same) == {i \in DOMAIN s : i > 1 /\ <<s[i - 1], s[i]>> \in same}
Distinct(s, same) ==
    LET at == SelectSeq([i \in DOMAIN s |-> i], LAMBDA i : i \notin Runs(s, same))
    IN  [i \in DOMAIN at |-> s[at[i]]]

\* Once a repeated element has left a gap, each element that is kept is moved down,
\* and the one after it is compared with what was moved from.
UniqueSeesMoved(s, same) ==
    \E i \in Runs(s, same), j \in DOMAIN s : i < j - 1 /\ j - 1 \notin Runs(s, same)

\* Every search gives the position the standard says, for all short ranges and
\* predicates and at the ends of the range too.
Searches ==
    LET s == range IN
    /\ \A P \in Predicates : LET in == {i \in DOMAIN s : s[i] \in P} IN
          /\ find_if(s, P) = Least({i - 1 : i \in in} \cup {Len(s)})
          /\ find_if_not(s, P) = Least({i - 1 : i \in DOMAIN s \ in} \cup {Len(s)})
          /\ (all_of(s, P) <=> ToSet(s) \subseteq P) /\ (none_of(s, P) <=> in = {})
          /\ (any_of(s, P) <=> in /= {}) /\ count_if(s, P) = Cardinality(in)
          /\ \A n \in Positions(s) : LET t == SubSeq(s, 1, n)
                                     IN  /\ all_of_n(s, n, P) = all_of(t, P) /\ any_of_n(s, n, P) = any_of(t, P)
                                         /\ none_of_n(s, n, P) = none_of(t, P)
    /\ \A same \in Equivalences :
          /\ adjacent_find(s, same) = Least({i - 2 : i \in Runs(s, same)} \cup {Len(s)})
          /\ \A n \in Positions(s) : \A t \in {rotate_copy(s, n), SubSeq(s, n + 1, Len(s))} :
                missmatch(s, t, same) =
                   Least({i - 1 : i \in {j \in DOMAIN t : <<s[j], t[j]>> \notin same}} \cup {Len(t)})

\* Every other loop leaves the elements the standard says, with these exceptions:
\* reverse of an even number of elements (seq_op.h:584), unique where it compares
\* an element it has moved from (seq_op.h:613), unique_copy with a predicate to an
\* iterator that does not insert (seq_op.h:642).
Rewrites ==
    LET s == range
        turned == [i \in DOMAIN s |-> s[Len(s) + 1 - i]]
        once == [x \in Values |-> <<x>>]
    IN
    /\ \A P \in Predicates, movable \in BOOLEAN : LET rest == SelectSeq(s, LAMBDA x : x \notin P) IN
          /\ Shortened(remove_if(s, P, movable)) = rest /\ Shortened(remove_if_n(s, Len(s), P, movable)) = rest
          /\ remove_copy_if(s, P) = rest /\ copy_if(s, Values \ P) = rest
    /\ \A P \in Predicates, v \in Values : LET replaced == [i \in DOMAIN s |-> IF s[i] \in P THEN v ELSE s[i]] IN
          replace_if(s, P, v) = replaced /\ replace_copy_if(s, P, v) = replaced
    /\ \A same \in Equivalences :
          /\ \A movable \in BOOLEAN :
                (movable /\ UniqueSeesMoved(s, same)) \/ Shortened(unique(s, same, movable)) = Distinct(s, same)
          /\ unique_copy(s, same) = Distinct(s, same)
          /\ \A inserts \in BOOLEAN :
                (~inserts /\ s /= <<>>) \/ unique_copy_if(s, same, inserts) = Distinct(s, same)
    /\ transform(s, once) = [i \in DOMAIN s |-> <<s[i]>>]
    /\ transform2(s, turned, [x, y \in Values |-> <<x, y>>]) = [i \in DOMAIN s |-> <<s[i], turned[i]>>]
    /\ generate(s, turned) = turned
    /\ reverse_copy(s) = turned /\ (ReverseRunsOff(s) \/ reverse(s) = turned)
    /\ \A n \in Positions(s) :
          rotate_copy(s, n) = [i \in DOMAIN s |-> s[IF i + n <= Len(s) THEN i + n ELSE i + n - Len(s)]]
    /\ swap_ranges(s, turned) = [s |-> turned, t |-> s]

AlgorithmsRight == Searches /\ Rewrites

=============================================================================
