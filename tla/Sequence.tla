------------------------------ MODULE Sequence ------------------------------
(***************************************************************************)
(* What every sequence container of the library promises: the sequence of  *)
(* elements a call leaves behind, whatever holds them.  A position is the  *)
(* number of elements before it, as in begin() + pos.  And the arithmetic  *)
(* of util/common.h that the containers share.                             *)
(***************************************************************************)
EXTENDS Integers, Sequences, FiniteSets, SequencesExt

\* The elements at [first, last) are replaced by those of t.
Splice(s, first, last, t) == SubSeq(s, 1, first) \o t \o SubSeq(s, last + 1, Len(s))

Times(n, x) == [i \in 1 .. n |-> x]

\* resize(n, x)
Resized(s, n, x) == IF n < Len(s) THEN SubSeq(s, 1, n) ELSE s \o Times(n - Len(s), x)

Positions(s) == 0 .. Len(s)

\* All the ranges [first, last) of a sequence of n elements.
Ranges(n) == {r \in (0 .. n) \X (0 .. n) : r[1] <= r[2]}

\* The least power of two that is not below n.
next2power(n) ==
    LET power[k \in 0 .. n] == IF k = 0 THEN 1 ELSE 2 * power[k - 1]
    IN  power[CHOOSE k \in 0 .. n : n <= power[k] /\ (k = 0 \/ power[k - 1] < n)]

\* x after the turns 1 to n of a loop.
Loop(Turn(_, _), x, n) ==
    LET after[i \in 0 .. n] == IF i = 0 THEN x ELSE Turn(after[i - 1], i)
    IN  after[n]

SeqsUpTo(S, n) == UNION {[1 .. k -> S] : k \in 0 .. n}

\* The elements of s ordered by key, equal ones as they were; "greater" is
\* the order a caller may ask for instead of std::less.
Orders == {"less", "greater"}
Before(order, x, y) == IF order = "less" THEN x < y ELSE x > y
Sorted(s, order, Key(_)) ==
    LET Earlier(i, j) == \/ Before(order, Key(s[i]), Key(s[j]))
                         \/ Key(s[i]) = Key(s[j]) /\ i < j
        index == SetToSortSeq(DOMAIN s, Earlier)
    IN  [k \in DOMAIN s |-> s[index[k]]]

=============================================================================
