----------------------------- MODULE HashTables -----------------------------
(***************************************************************************)
(* Hash tables that are changed, copied, moved and swapped: the operations *)
(* of HashTable in every order.                                            *)
(***************************************************************************)
EXTENDS HashTable

CONSTANTS Tables,          \* the tables, and the addresses of their heads
          MaxNodes,        \* bound: nodes in all the tables together
          MaxRoom,         \* bound: elements asked for by reserve
          MaxBuckets       \* bound: buckets of a table

ASSUME TablesAssumption ==
    /\ IsFiniteSet(Tables) /\ Tables \cap (Nodes \cup {Null}) = {}
    /\ MaxNodes \in Nat /\ MaxNodes <= Cardinality(Nodes)
    /\ MaxRoom \in Nat /\ MaxBuckets \in Nat

VARIABLE m

TablesInit == m = [next |-> [t \in Tables |-> Null], key |-> <<>>, size |-> [t \in Tables |-> 0],
             buckets |-> [t \in Tables |-> alloc_buckets(min_bucket_size_)]]

\* A table whose first bucket still begins behind the head of another: a swap
\* or a move left it there.  Only calls that look at no bucket are of use.
FirstBucket(t) == m.buckets[t][bucket(m, t, m.key[m.next[t]])]
Stale(t) == m.size[t] > 0 /\ FirstBucket(t).before \in Tables \ {t}

Room(n) == Cardinality(DOMAIN m.key) + n <= MaxNodes
InTable(t) == ToSet(NodesOf(m, t))

Insert(t) ==
    /\ ~Stale(t) /\ Room(1)
    /\ \E k \in Keys, unique \in BOOLEAN, hint \in InTable(t) \cup {Null} : m' = insert(m, t, unique, hint, k)
InsertRange(t) ==
    /\ ~Stale(t) /\ Room(2)
    /\ \E s \in [1 .. 2 -> Keys], unique \in BOOLEAN : m' = insert_range(m, t, unique, s)
ErasePos(t) == ~Stale(t) /\ \E n \in InTable(t) : m' = erase_pos(m, t, n)
EraseRange(t) ==
    /\ ~Stale(t)
    /\ \E r \in Ranges(m.size[t]) :
          LET places == Append(NodesOf(m, t), Null) IN m' = erase_range(m, t, places[r[1] + 1], places[r[2] + 1])
EraseKey(t) == ~Stale(t) /\ \E k \in Keys : m' = erase_key(m, t, k)
Reserve(t) == ~Stale(t) /\ \E n \in 0 .. MaxRoom : m' = rehash(m, t, n)
Clear(t) == m' = release(m, t)
Swap(t, o) == m' = swap(m, t, o)
MoveConstruct(t, o) == t /= o /\ m' = move_from(m, t, o)
CopyConstruct(t, o) == t /= o /\ Room(m.size[o]) /\ m' = copy_construct(m, t, o)
Assign(t, o) == Room(m.size[o]) /\ m' = assign(m, t, o)
AssignList(t) == Room(2) /\ \E s \in SeqsUpTo(Keys, 2), unique \in BOOLEAN : m' = assign_list(m, t, unique, s)

TablesNext ==
    /\ \E t \in Tables :
          \/ Insert(t) \/ InsertRange(t) \/ ErasePos(t) \/ EraseRange(t) \/ EraseKey(t) \/ Reserve(t)
          \/ Clear(t) \/ AssignList(t)
          \/ \E o \in Tables : Swap(t, o) \/ MoveConstruct(t, o) \/ CopyConstruct(t, o) \/ Assign(t, o)
    /\ \A t \in Tables : bucket_count(m', t) <= MaxBuckets

TablesSpec == TablesInit /\ [][TablesNext]_m

-----------------------------------------------------------------------------
(* What holds.                                                             *)

\* Every node is in one table, size_ counts them, nodes of one key are
\* neighbours, and a bucket that has nodes is the node before its first and
\* its last, one that has none is empty: so find looks at all the nodes it
\* must and at no others, whatever was inserted, erased and rehashed around
\* them.  A swap or a move leaves the first bucket of a table behind the head
\* of another, and nothing worse: it is behind a head, whichever calls follow.
BucketsExact ==
    /\ \A t \in Tables :
          LET nodes == NodesOf(m, t)
              chain == <<t>> \o nodes
          IN  /\ m.size[t] = Len(nodes)
              /\ \A b \in DOMAIN m.buckets[t] :
                    LET in == {i \in DOMAIN nodes : bucket(m, t, m.key[nodes[i]]) = b}
                        bk == m.buckets[t][b]
                    IN  IF in = {} THEN bk = NoBucket
                        ELSE \E i, j \in in : /\ in = i .. j /\ bk.finish = nodes[j]
                                              /\ bk.before \in IF i = 1 THEN Tables ELSE {chain[i]}
              /\ \A i, j \in DOMAIN nodes : m.key[nodes[i]] = m.key[nodes[j]] =>
                    \A h \in i .. j : m.key[nodes[h]] = m.key[nodes[i]]
    /\ DOMAIN m.key = UNION {InTable(t) : t \in Tables}
    /\ \A t \in Tables : Cardinality(InTable(t)) = m.size[t] /\ \A o \in Tables \ {t} : InTable(t) \cap InTable(o) = {}

Amount(s, k) == Cardinality({i \in DOMAIN s : s[i] = k})
Amounts(s) == [k \in Keys |-> Amount(s, k)]

\* mem is the memory after a call that may only change what t contains: as
\* many of each key as amounts says, found by their key, and among them the
\* nodes kept, so that iterators stay valid; the load is at most 3/4.
Leaves(mem, t, kept, amounts) ==
    /\ Amounts(KeysOf(mem, t)) = amounts
    /\ \A k \in Keys : Len(find_range(mem, t, k)) = amounts[k]
    /\ \A n \in kept : n \in ToSet(NodesOf(mem, t)) /\ mem.key[n] = m.key[n]
    /\ \A o \in Tables \ {t} : NodesOf(mem, o) = NodesOf(m, o)
    /\ 4 * mem.size[t] <= 3 * bucket_count(mem, t)

\* From every state that is not stale: insertion with and without a hint
\* adds one element or, for unique keys, none that is there; erasure of a
\* position, a range or a key takes away as many as it must, and only from
\* the key, the range or, of several equal ones, the first; a rehash and a
\* copy lose nothing; operator== is equality of contents.
TableContents ==
    \A t \in Tables : ~Stale(t) =>
       LET nodes == NodesOf(m, t)
           now == Amounts(KeysOf(m, t))
       IN
       /\ Room(1) => \A k \in Keys, unique \in BOOLEAN, hint \in ToSet(nodes) \cup {Null} :
             Leaves(insert(m, t, unique, hint, k), t, ToSet(nodes),
                    IF unique /\ now[k] > 0 THEN now ELSE [now EXCEPT ![k] = @ + 1])
       /\ \A n \in ToSet(nodes) :
             Leaves(erase_pos(m, t, n), t, {o \in ToSet(nodes) : m.key[o] /= m.key[n]}, [now EXCEPT ![m.key[n]] = @ - 1])
       /\ \A r \in Ranges(Len(nodes)) :
             LET places == Append(nodes, Null)
                 kept == Splice(nodes, r[1], r[2], <<>>)
             IN  Leaves(erase_range(m, t, places[r[1] + 1], places[r[2] + 1]), t, ToSet(kept),
                        Amounts([i \in DOMAIN kept |-> m.key[kept[i]]]))
       /\ \A k \in Keys :
             Leaves(erase_key(m, t, k), t, {o \in ToSet(nodes) : m.key[o] /= k}, [now EXCEPT ![k] = 0])
       /\ \A n \in 0 .. MaxRoom : /\ Leaves(rehash(m, t, n), t, ToSet(nodes), now)
                                 /\ 4 * n <= 3 * bucket_count(rehash(m, t, n), t)
       /\ \A o \in Tables \ {t} :
             LET theirs == Amounts(KeysOf(m, o)) IN
             /\ Room(m.size[o]) => /\ Leaves(copy_construct(m, t, o), t, {}, theirs)
                                   /\ Leaves(assign(m, t, o), t, {}, theirs)
             /\ ~Stale(o) => (equals(m, t, o) <=> now = theirs)

=============================================================================
