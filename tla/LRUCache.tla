------------------------------ MODULE LRUCache ------------------------------
(***************************************************************************)
(* gtl::LRUCache (container/lru_cache.h): the entries in a ring of nodes,  *)
(* the one used last first, and a HashTable from keys to nodes.  Neither   *)
(* is abstracted: lru_ is the memory of the ring, ht_ that of the table,   *)
(* on which the operators of Links and HashTable work, and second is what  *)
(* each node of the table points to.                                       *)
(***************************************************************************)
EXTENDS HashTable

CONSTANTS Values,
          Dummy,            \* the address of the ring's head
          Table,            \* the address of the table
          MaxCapacity       \* bound: capacities

ASSUME CacheAssumption ==
    /\ {Dummy, Table} \cap (Nodes \cup {Null}) = {}
    /\ MaxCapacity \in Nat /\ MaxCapacity < Cardinality(Nodes)

VARIABLES lru_, ht_, second, capacity_,
          used    \* history: the keys ever used, the one used last first

vars == <<lru_, ht_, second, capacity_, used>>

CacheInit ==
    /\ lru_ = [next |-> [d \in {Dummy} |-> Dummy], prev |-> [d \in {Dummy} |-> Dummy], value |-> <<>>]
    /\ ht_ = [next |-> [t \in {Table} |-> Null], key |-> <<>>, size |-> [t \in {Table} |-> 0],
              buckets |-> [t \in {Table} |-> alloc_buckets(min_bucket_size_)]]
    /\ second = <<>>
    /\ capacity_ \in 0 .. MaxCapacity
    /\ used = <<>>

Entries(ring) == Span(ring, ring.next[Dummy], Dummy)
KeysIn(ring) == LET s == Entries(ring) IN [i \in DOMAIN s |-> ring.value[s[i]].key]

FindListNode(k) ==
    LET n == find_node(ht_, Table, k).node IN IF n = Null THEN Null ELSE second[n]

SlipDestroyNode(c, n) ==
    LET ring == RemoveNode(c.lru, n)
    IN  [c EXCEPT !.lru = [f \in DOMAIN ring |-> Forget(ring[f], {n})]]

\* The cache without the entry of node n.
DestroyNode(c, n) ==
    LET ring == RemoveNode(c.lru, n)
        table == erase_key(c.ht, Table, c.lru.value[n].key)
    IN  [lru |-> [f \in DOMAIN ring |-> Forget(ring[f], {n})],
         ht |-> table,
         second |-> Restrict(c.second, DOMAIN table.key)]

Use(k) == used' = <<k>> \o RemoveFirst(used, k)

SlipFind(n) == lru_
\* A node that is found comes first.
Find(n) == AddToHead(RemoveNode(lru_, n), Dummy, n)

Get(k) ==
    LET n == FindListNode(k)
    IN  n /= Null /\ lru_' = Find(n) /\ Use(k) /\ UNCHANGED <<ht_, second, capacity_>>

Update(k, v) ==
    LET n == FindListNode(k)
    IN  /\ n /= Null /\ Use(k)
        /\ lru_' = [Find(n) EXCEPT !.value[n] = [key |-> k, val |-> v]]
        /\ UNCHANGED <<ht_, second, capacity_>>

Add(k, v) ==
    LET n == Fresh(lru_, Nodes)
        new == [next |-> With(lru_.next, n, Null), prev |-> With(lru_.prev, n, Null),
                value |-> With(lru_.value, n, [key |-> k, val |-> v])]
        added == [lru |-> AddToHead(new, Dummy, n),
                  ht |-> insert(ht_, Table, FALSE, Null, k),
                  second |-> With(second, Fresh(ht_, Nodes), n)]
        after == IF added.ht.size[Table] > capacity_ THEN DestroyNode(added, added.lru.prev[Dummy]) ELSE added
    IN  /\ FindListNode(k) = Null /\ Use(k)
        /\ lru_' = after.lru /\ ht_' = after.ht /\ second' = after.second
        /\ UNCHANGED capacity_

\* From the last entry to the first; a new cache takes this one's place.
Destroyed ==
    LET nodes == Entries(lru_)
        Drop(c, i) == DestroyNode(c, nodes[Len(nodes) + 1 - i])
    IN  Loop(Drop, [lru |-> lru_, ht |-> ht_, second |-> second], Len(nodes))
Destroy ==
    /\ lru_' = Destroyed.lru /\ ht_' = Destroyed.ht /\ second' = Destroyed.second
    /\ used' = <<>> /\ UNCHANGED capacity_

CacheNext == Destroy \/ \E k \in Keys : Get(k) \/ \E v \in Values : Update(k, v) \/ Add(k, v)

CacheSpec == CacheInit /\ [][CacheNext]_vars

-----------------------------------------------------------------------------
(* What holds.                                                             *)

\* The ring and the table are about the same entries: what the table says of
\* a key is the one node of the ring with that key, prev runs the ring
\* backwards, there are at most capacity_ entries, and destruction frees all
\* the nodes of both; through every eviction, and every rehash on the way.
ListAndTableAgree ==
    LET nodes == Entries(lru_) IN
    /\ \A n \in ToSet(nodes) \cup {Dummy} : lru_.next[n] /= Null /\ lru_.prev[lru_.next[n]] = n
    /\ ToSet(nodes) = DOMAIN lru_.value /\ DOMAIN lru_.next = DOMAIN lru_.value \cup {Dummy}
    /\ DOMAIN second = DOMAIN ht_.key
    /\ \A k \in Keys : LET at == {n \in ToSet(nodes) : lru_.value[n].key = k} IN
                       at = IF FindListNode(k) = Null THEN {} ELSE {FindListNode(k)}
    /\ ht_.size[Table] = Len(nodes) /\ Len(nodes) <= capacity_
    /\ Destroyed.lru.value = <<>> /\ Destroyed.ht.key = <<>>

Recorded(k) == LET n == CHOOSE n \in DOMAIN lru_.value : lru_.value[n].key = k IN lru_.value[n].val

\* The cache holds the entries used last, as many as it has room for, in the
\* order of their use: through every update, eviction and rehash it forgets
\* what was used least recently (docs/lru.md) and nothing else.
Order == INSTANCE Recency WITH
            cached <- KeysIn(lru_),
            value <- [k \in ToSet(KeysIn(lru_)) |-> Recorded(k)],
            capacity <- capacity_
ImplementsRecency == Order!Spec

=============================================================================
