--------------------------- MODULE LRUCacheProofs ---------------------------
(***************************************************************************)
(* That the ring and the table of LRUCache agree, whatever the calls, and  *)
(* that the cache implements Recency: for every capacity and any number    *)
(* of keys, values and calls.  HashTableProofs has the lemmas about the    *)
(* operations of a table; it also brings the constants and the variable of *)
(* HashTables, which no definition of the cache mentions.                  *)
(***************************************************************************)
EXTENDS LRUCache, HashTableProofs

-----------------------------------------------------------------------------
(* The ring.                                                               *)

\* Any memory of a ring, whatever its links.
RingMemories ==
    [next : UNION {[D \cup {Dummy} -> Nodes \cup {Dummy, Null}] : D \in SUBSET Nodes},
     prev : UNION {[D \cup {Dummy} -> Nodes \cup {Dummy, Null}] : D \in SUBSET Nodes},
     value : UNION {[D -> [key : Keys, val : Values]] : D \in SUBSET Nodes}]

\* Node i of the ring r, which begins and ends with its head.
Near(r, i) == IF i \in 1 .. Len(r) THEN r[i] ELSE Dummy

\* The ring is r; there may be other nodes.
Ring(mem, r) ==
    /\ r \in Seq(Nodes) /\ Distinct(r)
    /\ DOMAIN mem.prev = DOMAIN mem.next
    /\ \A i \in 0 .. Len(r) + 1 : Near(r, i) \in DOMAIN mem.next
    /\ \A i \in 0 .. Len(r) : mem.next[Near(r, i)] = Near(r, i + 1) /\ mem.prev[Near(r, i + 1)] = Near(r, i)

\* The ring without its node i, and with n first.
Without(r, i) == [j \in 1 .. Len(r) - 1 |-> IF j < i THEN r[j] ELSE r[j + 1]]
Pushed(n, r) == [j \in 1 .. Len(r) + 1 |-> IF j = 1 THEN n ELSE r[j - 1]]

LEMMA RingMemoryHas ==
    ASSUME NEW mem \in RingMemories
    PROVE  /\ mem.next \in [DOMAIN mem.next -> Nodes \cup {Dummy, Null}] /\ DOMAIN mem.next \subseteq Nodes \cup {Dummy}
           /\ mem.prev \in [DOMAIN mem.prev -> Nodes \cup {Dummy, Null}]
           /\ mem.value \in [DOMAIN mem.value -> [key : Keys, val : Values]] /\ DOMAIN mem.value \subseteq Nodes
           /\ Dummy \in DOMAIN mem.next /\ Dummy \in DOMAIN mem.prev
           /\ IsFiniteSet(DOMAIN mem.next) /\ IsFiniteSet(DOMAIN mem.value)
<1>1. PICK D \in SUBSET Nodes : mem.next \in [D \cup {Dummy} -> Nodes \cup {Dummy, Null}]
  BY DEF RingMemories
<1>2. PICK E \in SUBSET Nodes : mem.prev \in [E \cup {Dummy} -> Nodes \cup {Dummy, Null}]
  BY DEF RingMemories
<1>3. PICK V \in SUBSET Nodes : mem.value \in [V -> [key : Keys, val : Values]]
  BY DEF RingMemories
<1>4. IsFiniteSet(D) /\ IsFiniteSet(V)
  BY TableAssumption, FS_Subset
<1>5. IsFiniteSet(D \cup {Dummy})
  BY <1>4, FS_AddElement
<1>. QED
  BY <1>1, <1>2, <1>3, <1>4, <1>5

\* What the fields make a memory.
LEMMA RingMemoryIs ==
    ASSUME NEW r, r = [next |-> r.next, prev |-> r.prev, value |-> r.value],
           NEW D \in SUBSET Nodes, r.next \in [D \cup {Dummy} -> Nodes \cup {Dummy, Null}],
           r.prev \in [D \cup {Dummy} -> Nodes \cup {Dummy, Null}],
           NEW V \in SUBSET Nodes, r.value \in [V -> [key : Keys, val : Values]]
    PROVE  r \in RingMemories
<1>1. r.next \in UNION {[A \cup {Dummy} -> Nodes \cup {Dummy, Null}] : A \in SUBSET Nodes}
  OBVIOUS
<1>2. r.prev \in UNION {[A \cup {Dummy} -> Nodes \cup {Dummy, Null}] : A \in SUBSET Nodes}
  OBVIOUS
<1>3. r.value \in UNION {[A -> [key : Keys, val : Values]] : A \in SUBSET Nodes}
  OBVIOUS
<1>. QED
  BY <1>1, <1>2, <1>3 DEF RingMemories

\* The places of a ring are its nodes and its head, at both ends.
LEMMA NearIs ==
    ASSUME NEW mem, NEW r, Ring(mem, r)
    PROVE  /\ Len(r) \in Nat /\ r \in [1 .. Len(r) -> Nodes]
           /\ Near(r, 0) = Dummy /\ Near(r, Len(r) + 1) = Dummy
           /\ \A i \in 1 .. Len(r) : Near(r, i) = r[i] /\ r[i] \in Nodes /\ r[i] # Dummy /\ r[i] # Null
                                     /\ r[i] \in DOMAIN mem.next
           /\ \A i, j \in 0 .. Len(r) : Near(r, i) = Near(r, j) => i = j
           /\ \A i, j \in 1 .. Len(r) + 1 : Near(r, i) = Near(r, j) => i = j
<1>1. r \in Seq(Nodes) /\ Distinct(r)
  BY DEF Ring
<1>2. Len(r) \in Nat
  BY <1>1
<1>3. r \in [1 .. Len(r) -> Nodes]
  BY <1>1
<1>4. \A i \in 1 .. Len(r) : r[i] \in Nodes /\ r[i] # Dummy /\ r[i] # Null
  BY <1>3, CacheAssumption, TableAssumption
<1>5. Near(r, 0) = Dummy /\ Near(r, Len(r) + 1) = Dummy /\ \A i \in 1 .. Len(r) : Near(r, i) = r[i]
  BY <1>2 DEF Near
<1>6. \A i \in 1 .. Len(r) : Near(r, i) \in DOMAIN mem.next
  BY <1>2 DEF Ring
<1>7. \A i, j \in 1 .. Len(r) : r[i] = r[j] => i = j
  BY <1>1 DEF Distinct
<1>8. \A i, j \in 0 .. Len(r) : Near(r, i) = Near(r, j) => i = j
  <2>. SUFFICES ASSUME NEW i \in 0 .. Len(r), NEW j \in 0 .. Len(r), Near(r, i) = Near(r, j) PROVE i = j
    OBVIOUS
  <2>1. CASE i = 0 /\ j = 0
    BY <2>1
  <2>2. CASE i = 0 /\ j # 0
    BY <2>2, <1>2, <1>4, <1>5
  <2>3. CASE i # 0 /\ j = 0
    BY <2>3, <1>2, <1>4, <1>5
  <2>4. CASE i # 0 /\ j # 0
    BY <2>4, <1>2, <1>5, <1>7
  <2>. QED
    BY <2>1, <2>2, <2>3, <2>4
<1>9. \A i, j \in 1 .. Len(r) + 1 : Near(r, i) = Near(r, j) => i = j
  <2>. SUFFICES ASSUME NEW i \in 1 .. Len(r) + 1, NEW j \in 1 .. Len(r) + 1, Near(r, i) = Near(r, j) PROVE i = j
    OBVIOUS
  <2>. DEFINE l == Len(r) + 1
  <2>1. CASE i = l /\ j = l
    BY <2>1
  <2>2. CASE i = l /\ j # l
    BY <2>2, <1>2, <1>4, <1>5
  <2>3. CASE i # l /\ j = l
    BY <2>3, <1>2, <1>4, <1>5
  <2>4. CASE i # l /\ j # l
    BY <2>4, <1>2, <1>5, <1>7
  <2>. QED
    BY <2>1, <2>2, <2>3, <2>4
<1>. QED
  BY <1>2, <1>3, <1>4, <1>5, <1>6, <1>8, <1>9

\* A memory is its three fields.
LEMMA RingFields ==
    ASSUME NEW mem \in RingMemories
    PROVE  /\ mem = [next |-> mem.next, prev |-> mem.prev, value |-> mem.value]
           /\ DOMAIN mem = {"next", "prev", "value"}
BY DEF RingMemories

\* w has the nodes and the values of mem.
SameNodes(mem, w) ==
    /\ w \in RingMemories /\ w.value = mem.value
    /\ DOMAIN w.next = DOMAIN mem.next

\* w is mem with other links.
WithLinks(mem, w, next, prev) == w = [mem EXCEPT !.next = next, !.prev = prev]

\* What other links make of a memory.
LEMMA Relinked ==
    ASSUME NEW mem \in RingMemories, NEW next, next \in [DOMAIN mem.next -> Nodes \cup {Dummy, Null}],
           NEW prev, prev \in [DOMAIN mem.next -> Nodes \cup {Dummy, Null}],
           NEW w, WithLinks(mem, w, next, prev)
    PROVE  SameNodes(mem, w) /\ w.next = next /\ w.prev = prev
<1>1. DOMAIN mem = {"next", "prev", "value"}
  BY RingFields
<1>2. w.next = next /\ w.prev = prev /\ w.value = mem.value /\ DOMAIN w = {"next", "prev", "value"}
  BY <1>1 DEF WithLinks
<1>3. w = [next |-> w.next, prev |-> w.prev, value |-> w.value]
  BY <1>2, <1>1 DEF WithLinks
<1>4. PICK D \in SUBSET Nodes : mem.next \in [D \cup {Dummy} -> Nodes \cup {Dummy, Null}]
  BY DEF RingMemories
<1>5. PICK V \in SUBSET Nodes : mem.value \in [V -> [key : Keys, val : Values]]
  BY DEF RingMemories
<1>6. DOMAIN mem.next = D \cup {Dummy}
  BY <1>4
<1>7. w.next \in [D \cup {Dummy} -> Nodes \cup {Dummy, Null}] /\ w.prev \in [D \cup {Dummy} -> Nodes \cup {Dummy, Null}]
  BY <1>2, <1>6
<1>8. w \in RingMemories
  BY <1>2, <1>3, <1>5, <1>7, RingMemoryIs
<1>. QED
  BY <1>2, <1>8 DEF SameNodes

LEMMA WithoutIs ==
    ASSUME NEW S, NEW r \in Seq(S), NEW i \in 1 .. Len(r)
    PROVE  /\ Without(r, i) \in Seq(S) /\ Len(Without(r, i)) = Len(r) - 1
           /\ \A j \in 1 .. Len(r) - 1 : Without(r, i)[j] = IF j < i THEN r[j] ELSE r[j + 1]
           /\ Distinct(r) => /\ Distinct(Without(r, i))
                             /\ ToSet(Without(r, i)) = ToSet(r) \ {r[i]}
<1>. DEFINE q == Without(r, i)
<1>1. Len(r) \in Nat /\ r \in [1 .. Len(r) -> S] /\ Len(r) - 1 \in Nat
  OBVIOUS
<1>2. q \in [1 .. Len(r) - 1 -> S] /\ \A j \in 1 .. Len(r) - 1 : q[j] = IF j < i THEN r[j] ELSE r[j + 1]
  BY <1>1 DEF Without
<1>. HIDE DEF q
<1>3. q \in Seq(S) /\ Len(q) = Len(r) - 1
  <2>. DEFINE k == Len(r) - 1
  <2>1. k \in Nat /\ q \in [1 .. k -> S]
    BY <1>1, <1>2
  <2>. HIDE DEF k
  <2>2. q \in Seq(S) /\ Len(q) = k
    BY <2>1
  <2>. QED
    BY <2>2 DEF k
<1>4. ASSUME Distinct(r) PROVE Distinct(q) /\ ToSet(q) = ToSet(r) \ {r[i]}
  <2>1. Distinct(q)
    BY <1>1, <1>2, <1>3, <1>4 DEF Distinct
  <2>2. ToSet(q) = {q[j] : j \in 1 .. Len(r) - 1} /\ ToSet(r) = {r[j] : j \in 1 .. Len(r)}
    BY <1>3, ElementsOf
  <2>3. \A j \in 1 .. Len(r) - 1 : q[j] \in ToSet(r) \ {r[i]}
    BY <1>1, <1>2, <1>4, <2>2 DEF Distinct
  <2>4. ASSUME NEW j \in 1 .. Len(r), r[j] # r[i] PROVE \E h \in 1 .. Len(r) - 1 : q[h] = r[j]
    <3>1. CASE j < i
      BY <3>1, <1>1, <1>2
    <3>2. CASE j > i
      <4>1. j - 1 \in 1 .. Len(r) - 1 /\ ~(j - 1 < i) /\ (j - 1) + 1 = j
        BY <3>2, <1>1
      <4>. QED
        BY <4>1, <1>2
    <3>. QED
      BY <3>1, <3>2, <2>4, <1>1
  <2>5. ToSet(q) \subseteq ToSet(r) \ {r[i]}
    BY <2>2, <2>3
  <2>6. ASSUME NEW x \in ToSet(r) \ {r[i]} PROVE x \in ToSet(q)
    <3>1. PICK j \in 1 .. Len(r) : r[j] = x
      BY <2>2
    <3>2. PICK h \in 1 .. Len(r) - 1 : q[h] = x
      BY <2>4, <3>1
    <3>. QED
      BY <2>2, <3>2
  <2>. QED
    BY <2>1, <2>5, <2>6
<1>. QED
  BY <1>2, <1>3, <1>4 DEF q

LEMMA PushedIs ==
    ASSUME NEW S, NEW r \in Seq(S), NEW n \in S
    PROVE  /\ Pushed(n, r) \in Seq(S) /\ Len(Pushed(n, r)) = Len(r) + 1
           /\ Pushed(n, r)[1] = n /\ \A j \in 2 .. Len(r) + 1 : Pushed(n, r)[j] = r[j - 1]
           /\ ToSet(Pushed(n, r)) = ToSet(r) \cup {n}
           /\ Distinct(r) /\ n \notin ToSet(r) => Distinct(Pushed(n, r))
<1>. DEFINE q == Pushed(n, r)
<1>1. Len(r) \in Nat /\ r \in [1 .. Len(r) -> S] /\ Len(r) + 1 \in Nat
  OBVIOUS
<1>2. q \in [1 .. Len(r) + 1 -> S] /\ q[1] = n /\ \A j \in 2 .. Len(r) + 1 : q[j] = r[j - 1]
  BY <1>1 DEF Pushed
<1>3. q \in Seq(S) /\ Len(q) = Len(r) + 1
  BY <1>1, <1>2
<1>. HIDE DEF q
<1>4. ToSet(q) = {q[j] : j \in 1 .. Len(r) + 1} /\ ToSet(r) = {r[j] : j \in 1 .. Len(r)}
  BY <1>3, ElementsOf
<1>5. ASSUME NEW j \in 1 .. Len(r) PROVE r[j] \in ToSet(q)
  <2>1. j + 1 \in 2 .. Len(r) + 1 /\ (j + 1) - 1 = j
    BY <1>1
  <2>. QED
    BY <2>1, <1>2, <1>4
<1>6. \A j \in 1 .. Len(r) + 1 : q[j] \in ToSet(r) \cup {n}
  BY <1>1, <1>2, <1>4
<1>7. n \in ToSet(q)
  BY <1>1, <1>2, <1>4
<1>8. ToSet(q) = ToSet(r) \cup {n}
  BY <1>4, <1>5, <1>6, <1>7
<1>9. ASSUME Distinct(r), n \notin ToSet(r) PROVE Distinct(q)
  <2>1. \A j \in 1 .. Len(r) : r[j] # n
    BY <1>4, <1>9
  <2>. SUFFICES ASSUME NEW i \in 1 .. Len(r) + 1, NEW j \in 1 .. Len(r) + 1, q[i] = q[j] PROVE i = j
    BY <1>3 DEF Distinct
  <2>2. CASE i = 1 /\ j = 1
    BY <2>2
  <2>3. CASE i = 1 /\ j # 1
    BY <2>1, <2>3, <1>1, <1>2
  <2>4. CASE i # 1 /\ j = 1
    BY <2>1, <2>4, <1>1, <1>2
  <2>5. CASE i # 1 /\ j # 1
    <3>1. i - 1 \in 1 .. Len(r) /\ j - 1 \in 1 .. Len(r) /\ r[i - 1] = r[j - 1]
      BY <2>5, <1>1, <1>2
    <3>2. i - 1 = j - 1
      BY <3>1, <1>9 DEF Distinct
    <3>. QED
      BY <3>2
  <2>. QED
    BY <2>2, <2>3, <2>4, <2>5
<1>. QED
  BY <1>2, <1>3, <1>8, <1>9 DEF q

\* What RemoveNode makes of a ring.
LEMMA RemovedIs ==
    ASSUME NEW mem \in RingMemories, NEW r, Ring(mem, r), NEW i \in 1 .. Len(r),
           NEW w, w = RemoveNode(mem, r[i])
    PROVE  SameNodes(mem, w) /\ Ring(w, Without(r, i))
<1>. DEFINE n == r[i]
            x == Near(r, i - 1)
            y == Near(r, i + 1)
            l == Len(r)
<1>1. l \in Nat /\ i - 1 \in 0 .. l /\ i + 1 \in 1 .. l + 1 /\ i \in 0 .. l /\ i + 1 \in 0 .. l + 1 /\ i - 1 \in 0 .. l + 1
  BY NearIs
<1>2. n = Near(r, i) /\ n \in DOMAIN mem.next
  BY NearIs
<1>3. mem.next[x] = n /\ mem.next[n] = y /\ mem.prev[n] = x /\ mem.prev[y] = n
  BY <1>1, <1>2 DEF Ring
<1>4. x \in DOMAIN mem.next /\ y \in DOMAIN mem.next /\ DOMAIN mem.prev = DOMAIN mem.next
  BY <1>1 DEF Ring
<1>5. n # x
  BY <1>1, <1>2, NearIs
<1>6. n # y
  BY <1>1, <1>2, NearIs
<1>7. mem.next \in [DOMAIN mem.next -> Nodes \cup {Dummy, Null}] /\ DOMAIN mem.next \subseteq Nodes \cup {Dummy}
      /\ mem.prev \in [DOMAIN mem.next -> Nodes \cup {Dummy, Null}]
  BY <1>4, RingMemoryHas
<1>. DEFINE next == [mem.next EXCEPT ![x] = y, ![n] = Null]
            prev == [mem.prev EXCEPT ![y] = x, ![n] = Null]
<1>8. next \in [DOMAIN mem.next -> Nodes \cup {Dummy, Null}] /\ prev \in [DOMAIN mem.next -> Nodes \cup {Dummy, Null}]
  BY <1>4, <1>7
<1>9. WithLinks(mem, w, next, prev)
  BY <1>3 DEF RemoveNode, WithLinks
<1>10. /\ next[x] = y /\ \A z \in DOMAIN mem.next : z # x /\ z # n => next[z] = mem.next[z]
       /\ prev[y] = x /\ \A z \in DOMAIN mem.next : z # y /\ z # n => prev[z] = mem.prev[z]
  BY <1>4, <1>5, <1>6, <1>7
<1>. HIDE DEF next, prev
<1>11. SameNodes(mem, w) /\ w.next = next /\ w.prev = prev
  BY <1>8, <1>9, Relinked
<1>. DEFINE q == Without(r, i)
<1>12. q \in Seq(Nodes) /\ Len(q) = l - 1 /\ Distinct(q) /\ \A j \in 1 .. l - 1 : q[j] = IF j < i THEN r[j] ELSE r[j + 1]
  BY WithoutIs DEF Ring
<1>. HIDE DEF q
<1>13. \A j \in 0 .. l : Near(q, j) = IF j < i THEN Near(r, j) ELSE Near(r, j + 1)
  BY <1>1, <1>12 DEF Near
<1>14. \A j \in 0 .. l + 1 : Near(r, j) \in DOMAIN mem.next
  BY DEF Ring
<1>. DEFINE At(j) == IF j < i THEN j ELSE j + 1
<1>15. ASSUME NEW j \in 0 .. l - 1
       PROVE  next[Near(q, j)] = Near(q, j + 1) /\ prev[Near(q, j + 1)] = Near(q, j)
  <2>1. j \in 0 .. l /\ j + 1 \in 0 .. l
    BY <1>1
  <2>2. CASE j + 1 < i
    <3>1. Near(q, j) = Near(r, j) /\ Near(q, j + 1) = Near(r, j + 1)
      BY <1>13, <2>1, <2>2, <1>1
    <3>2. mem.next[Near(r, j)] = Near(r, j + 1) /\ mem.prev[Near(r, j + 1)] = Near(r, j)
      BY <2>1 DEF Ring
    <3>3. Near(r, j) # x /\ Near(r, j) # n
      <4>1. j # i - 1 /\ j # i
        BY <2>2, <1>1
      <4>. QED
        BY <4>1, <1>1, <1>2, <2>1, NearIs
    <3>4. Near(r, j + 1) # y /\ Near(r, j + 1) # n
      <4>1. j + 1 # i + 1 /\ j + 1 # i /\ j + 1 \in 1 .. l + 1 /\ i \in 1 .. l + 1
        BY <2>2, <1>1
      <4>. QED
        BY <4>1, <1>1, <1>2, NearIs
    <3>5. Near(r, j) \in DOMAIN mem.next /\ Near(r, j + 1) \in DOMAIN mem.next
      BY <1>14, <1>1
    <3>. QED
      BY <3>1, <3>2, <3>3, <3>4, <3>5, <1>10
  <2>3. CASE j + 1 = i
    <3>1. Near(q, j) = x /\ Near(q, j + 1) = y
      <4>1. j = i - 1 /\ j < i /\ ~(j + 1 < i) /\ (j + 1) + 1 = i + 1
        BY <2>3, <1>1
      <4>2. Near(q, j) = Near(r, j)
        BY <1>13, <2>1, <4>1
      <4>3. Near(q, j + 1) = Near(r, (j + 1) + 1)
        BY <1>13, <2>1, <4>1
      <4>. QED
        BY <4>1, <4>2, <4>3
    <3>. QED
      BY <3>1, <1>10
  <2>4. CASE j + 1 > i
    <3>. DEFINE k == j + 1
    <3>1. k \in 0 .. l /\ k + 1 \in 0 .. l + 1 /\ ~(j < i) /\ ~(k < i) /\ k # i - 1 /\ k # i
          /\ k + 1 # i + 1 /\ k + 1 # i /\ k + 1 \in 1 .. l + 1 /\ i \in 1 .. l + 1 /\ k \in 0 .. l + 1
      BY <2>4, <1>1
    <3>2. Near(q, j) = Near(r, k) /\ Near(q, k) = Near(r, k + 1)
      BY <1>13, <2>1, <3>1
    <3>. HIDE DEF k
    <3>3. mem.next[Near(r, k)] = Near(r, k + 1) /\ mem.prev[Near(r, k + 1)] = Near(r, k)
      BY <3>1 DEF Ring
    <3>4. Near(r, k) # x /\ Near(r, k) # n
      BY SMTT(30), <3>1, <1>1, <1>2, NearIs
    <3>5. Near(r, k + 1) # y /\ Near(r, k + 1) # n
      BY SMTT(30), <3>1, <1>1, <1>2, NearIs
    <3>6. Near(r, k) \in DOMAIN mem.next /\ Near(r, k + 1) \in DOMAIN mem.next
      BY <1>14, <3>1
    <3>7. next[Near(r, k)] = Near(r, k + 1) /\ prev[Near(r, k + 1)] = Near(r, k)
      BY <3>3, <3>4, <3>5, <3>6, <1>10
    <3>. QED
      BY <3>2, <3>7 DEF k
  <2>. QED
    BY <2>2, <2>3, <2>4, <1>1
<1>16. ASSUME NEW j \in 0 .. l PROVE Near(q, j) \in DOMAIN mem.next
  <2>1. j \in 0 .. l + 1 /\ j + 1 \in 0 .. l + 1
    BY <1>1
  <2>. QED
    BY <2>1, <1>13, <1>14
<1>17. DOMAIN w.next = DOMAIN mem.next /\ DOMAIN w.prev = DOMAIN mem.next
  BY <1>8, <1>11
<1>18. Len(q) + 1 = l /\ 0 .. Len(q) + 1 = 0 .. l
  BY <1>1, <1>12
<1>19. Ring(w, q)
  BY <1>11, <1>12, <1>15, <1>16, <1>17, <1>18 DEF Ring
<1>. QED
  BY <1>11, <1>19 DEF q

\* What AddToHead makes of a ring.
LEMMA AddedIs ==
    ASSUME NEW mem \in RingMemories, NEW r, Ring(mem, r), NEW n \in Nodes, n \in DOMAIN mem.next, n \notin ToSet(r),
           NEW w, w = AddToHead(mem, Dummy, n)
    PROVE  SameNodes(mem, w) /\ Ring(w, Pushed(n, r))
<1>. DEFINE y == Near(r, 1)
            l == Len(r)
            q == Pushed(n, r)
<1>1. l \in Nat /\ Near(r, 0) = Dummy /\ Near(r, l + 1) = Dummy /\ r \in Seq(Nodes) /\ Distinct(r)
  BY NearIs DEF Ring
<1>2. mem.next[Dummy] = y /\ mem.prev[y] = Dummy
  BY <1>1 DEF Ring
<1>3. \A j \in 0 .. l + 1 : Near(r, j) \in DOMAIN mem.next /\ Near(r, j) # n
  <2>1. \A j \in 1 .. l : r[j] # n
    BY <1>1, ElementsOf
  <2>2. n # Dummy
    BY CacheAssumption
  <2>3. \A j \in 0 .. l + 1 : Near(r, j) \in DOMAIN mem.next
    BY DEF Ring
  <2>. QED
    BY <2>1, <2>2, <2>3 DEF Near
<1>4. y \in DOMAIN mem.next /\ y # n /\ Dummy \in DOMAIN mem.next /\ Dummy # n /\ DOMAIN mem.prev = DOMAIN mem.next
  BY <1>1, <1>3 DEF Ring
<1>5. mem.next \in [DOMAIN mem.next -> Nodes \cup {Dummy, Null}] /\ DOMAIN mem.next \subseteq Nodes \cup {Dummy}
      /\ mem.prev \in [DOMAIN mem.next -> Nodes \cup {Dummy, Null}]
  BY <1>4, RingMemoryHas
<1>. DEFINE next == [mem.next EXCEPT ![n] = y, ![Dummy] = n]
            prev == [mem.prev EXCEPT ![n] = Dummy, ![y] = n]
<1>6. next \in [DOMAIN mem.next -> Nodes \cup {Dummy, Null}] /\ prev \in [DOMAIN mem.next -> Nodes \cup {Dummy, Null}]
  BY <1>4, <1>5
<1>7. WithLinks(mem, w, next, prev)
  BY <1>2 DEF AddToHead, InsertBefore, WithLinks
<1>8. /\ next[n] = y /\ next[Dummy] = n /\ \A z \in DOMAIN mem.next : z # n /\ z # Dummy => next[z] = mem.next[z]
      /\ prev[n] = Dummy /\ prev[y] = n /\ \A z \in DOMAIN mem.next : z # n /\ z # y => prev[z] = mem.prev[z]
  BY <1>4, <1>5
<1>. HIDE DEF next, prev
<1>9. SameNodes(mem, w) /\ w.next = next /\ w.prev = prev
  BY <1>6, <1>7, Relinked
<1>10. q \in Seq(Nodes) /\ Len(q) = l + 1 /\ Distinct(q) /\ q[1] = n /\ \A j \in 2 .. l + 1 : q[j] = r[j - 1]
  BY <1>1, PushedIs
<1>. HIDE DEF q
<1>11. Near(q, 0) = Dummy /\ Near(q, 1) = n
  BY <1>1, <1>10 DEF Near
<1>12. \A j \in 1 .. l + 1 : Near(q, j + 1) = Near(r, j)
  <2>. SUFFICES ASSUME NEW j \in 1 .. l + 1 PROVE Near(q, j + 1) = Near(r, j)
    OBVIOUS
  <2>1. CASE j = l + 1
    BY <1>1, <1>10, <2>1 DEF Near
  <2>2. CASE j # l + 1
    <3>1. j \in 1 .. l /\ j + 1 \in 2 .. l + 1 /\ (j + 1) - 1 = j /\ j + 1 \in 1 .. l + 1
      BY <2>2, <1>1
    <3>. QED
      BY <3>1, <1>10 DEF Near
  <2>. QED
    BY <2>1, <2>2
<1>13. ASSUME NEW j \in 0 .. l + 1
       PROVE  next[Near(q, j)] = Near(q, j + 1) /\ prev[Near(q, j + 1)] = Near(q, j)
  <2>1. CASE j = 0
    BY <2>1, <1>8, <1>11
  <2>2. CASE j = 1
    <3>1. Near(q, 1 + 1) = y
      BY <1>12, <1>1
    <3>. QED
      BY <2>2, <3>1, <1>8, <1>11
  <2>3. CASE j > 1
    <3>. DEFINE k == j - 1
    <3>1. k \in 1 .. l /\ k + 1 \in 1 .. l + 1 /\ k \in 1 .. l + 1 /\ k \in 0 .. l /\ j = k + 1 /\ k + 1 # 1 /\ k # 0
          /\ 1 \in 1 .. l + 1 /\ 0 \in 0 .. l /\ k \in 0 .. l + 1 /\ k + 1 \in 0 .. l + 1
      BY <2>3, <1>1
    <3>. HIDE DEF k
    <3>2. Near(q, k + 1) = Near(r, k) /\ Near(q, (k + 1) + 1) = Near(r, k + 1)
      BY <1>12, <3>1
    <3>3. mem.next[Near(r, k)] = Near(r, k + 1) /\ mem.prev[Near(r, k + 1)] = Near(r, k)
      BY <3>1 DEF Ring
    <3>4. Near(r, k) # Dummy
      BY <3>1, <1>1, NearIs
    <3>5. Near(r, k + 1) # y
      BY <3>1, NearIs
    <3>6. next[Near(r, k)] = Near(r, k + 1) /\ prev[Near(r, k + 1)] = Near(r, k)
      BY <3>1, <3>3, <3>4, <3>5, <1>3, <1>8
    <3>. QED
      BY <3>1, <3>2, <3>6
  <2>. QED
    BY <2>1, <2>2, <2>3
<1>14. ASSUME NEW j \in 0 .. l + 2 PROVE Near(q, j) \in DOMAIN mem.next
  <2>1. CASE j = 0
    BY <2>1, <1>4, <1>11
  <2>2. CASE j = 1
    BY <2>2, <1>11
  <2>3. CASE j > 1
    <3>1. j - 1 \in 1 .. l + 1 /\ (j - 1) + 1 = j /\ j - 1 \in 0 .. l + 1
      BY <2>3, <1>1
    <3>. QED
      BY <3>1, <1>3, <1>12
  <2>. QED
    BY <2>1, <2>2, <2>3
<1>15. DOMAIN w.next = DOMAIN mem.next /\ DOMAIN w.prev = DOMAIN mem.next
  BY <1>6, <1>9
<1>16. Len(q) = l + 1 /\ Len(q) + 1 = l + 2
  BY <1>1, <1>10
<1>17. Ring(w, q)
  BY <1>9, <1>10, <1>13, <1>14, <1>15, <1>16 DEF Ring
<1>. QED
  BY <1>9, <1>17 DEF q

\* The entries of a ring are its nodes, from the first to the last.
LEMMA EntriesIs ==
    ASSUME NEW mem \in RingMemories, NEW r, Ring(mem, r)
    PROVE  Entries(mem) = r
<1>. DEFINE first == mem.next[Dummy]
<1>1. Len(r) \in Nat /\ Near(r, 0) = Dummy /\ Near(r, Len(r) + 1) = Dummy
      /\ \A i \in 1 .. Len(r) : Near(r, i) = r[i] /\ r[i] # Dummy /\ r[i] # Null /\ r[i] \in DOMAIN mem.next
  BY NearIs
<1>2. IsFiniteSet(DOMAIN mem.next)
  BY RingMemoryHas
<1>3. r \in Seq(DOMAIN mem.next)
  <2>1. r \in Seq(Nodes)
    BY DEF Ring
  <2>2. r = [i \in 1 .. Len(r) |-> r[i]]
    BY <2>1
  <2>3. r \in [1 .. Len(r) -> DOMAIN mem.next]
    BY <1>1, <2>2
  <2>. QED
    BY <1>1, <2>3
<1>4. first = (IF Len(r) = 0 THEN Dummy ELSE r[1])
  <2>1. first = Near(r, 0 + 1)
    BY <1>1 DEF Ring
  <2>. QED
    BY <1>1, <2>1
<1>5. \A i \in 1 .. Len(r) : mem.next[r[i]] = IF i = Len(r) THEN Dummy ELSE r[i + 1]
  <2>. SUFFICES ASSUME NEW i \in 1 .. Len(r) PROVE mem.next[r[i]] = IF i = Len(r) THEN Dummy ELSE r[i + 1]
    OBVIOUS
  <2>1. mem.next[Near(r, i)] = Near(r, i + 1)
    BY <1>1 DEF Ring
  <2>. QED
    BY <2>1, <1>1
<1>6. Linked(mem.next, first, r, Dummy)
  BY <1>4, <1>5 DEF Linked, Ring, Distinct
<1>7. \A i \in 1 .. Len(r) : r[i] \notin {Dummy, Null}
  BY <1>1
<1>. HIDE DEF first
<1>8. Span(mem, first, Dummy) = r
  BY <1>2, <1>3, <1>6, <1>7, SpanIs
<1>. QED
  BY <1>8 DEF Entries, first

\* The ring r with its node i first.
Moved(r, i) == Pushed(r[i], Without(r, i))

\* What Find makes of a ring.
LEMMA MovedIs ==
    ASSUME NEW mem \in RingMemories, NEW r, Ring(mem, r), NEW i \in 1 .. Len(r),
           NEW w, w = AddToHead(RemoveNode(mem, r[i]), Dummy, r[i])
    PROVE  SameNodes(mem, w) /\ Ring(w, Moved(r, i)) /\ ToSet(Moved(r, i)) = ToSet(r) /\ Len(Moved(r, i)) = Len(r)
<1>. DEFINE u == RemoveNode(mem, r[i])
            q == Without(r, i)
            n == r[i]
<1>1. SameNodes(mem, u) /\ Ring(u, q)
  BY RemovedIs
<1>2. r \in Seq(Nodes) /\ Distinct(r) /\ n \in Nodes /\ n \in DOMAIN mem.next /\ Len(r) \in Nat
  BY NearIs DEF Ring
<1>3. q \in Seq(Nodes) /\ Len(q) = Len(r) - 1 /\ ToSet(q) = ToSet(r) \ {n} /\ Distinct(q)
  BY <1>2, WithoutIs
<1>4. n \in ToSet(r)
  BY <1>2, ElementsOf
<1>. HIDE DEF u, q, n
<1>5. u \in RingMemories /\ n \in DOMAIN u.next /\ n \notin ToSet(q)
  BY <1>1, <1>2, <1>3 DEF SameNodes
<1>6. w = AddToHead(u, Dummy, n)
  BY DEF u, n
<1>7. SameNodes(u, w) /\ Ring(w, Pushed(n, q))
  BY <1>1, <1>2, <1>5, <1>6, AddedIs
<1>8. SameNodes(mem, w)
  BY <1>1, <1>7 DEF SameNodes
<1>9. ToSet(Pushed(n, q)) = ToSet(q) \cup {n} /\ Len(Pushed(n, q)) = Len(q) + 1
  <2>1. q \in Seq(Nodes) /\ n \in Nodes
    BY <1>2, <1>3
  <2>. QED
    BY <2>1, PushedIs
<1>10. ToSet(Pushed(n, q)) = ToSet(r) /\ Len(Pushed(n, q)) = Len(r)
  BY <1>2, <1>3, <1>4, <1>9
<1>. QED
  BY <1>7, <1>8, <1>10 DEF Moved, n, q

-----------------------------------------------------------------------------
(* The ring and the table.                                                 *)

LEMMA TableIsHead == Heads({Table})
BY CacheAssumption, FS_Singleton DEF Heads

Pointers == UNION {[D -> Nodes] : D \in SUBSET Nodes}

\* The nodes of the table point to those of the ring, one to one: each to the
\* one that has its key.
Mapped(value, key, second_) ==
    /\ DOMAIN second_ = DOMAIN key
    /\ \A n \in DOMAIN key : second_[n] \in DOMAIN value /\ value[second_[n]].key = key[n]
    /\ \A x \in DOMAIN value : \E n \in DOMAIN key : key[n] = value[x].key
    /\ \A x, y \in DOMAIN value : value[x].key = value[y].key => x = y
    /\ \A n, o \in DOMAIN key : key[n] = key[o] => n = o

\* The table has the nodes that are in its chain.
TableHeld(mem) == \E s : Held(mem, Table, s, FALSE) /\ DOMAIN mem.key = ToSet(s)

\* A cache whose entries are the ring r.
Holds(lru, ht, second_, r) ==
    /\ lru \in RingMemories /\ Ring(lru, r)
    /\ DOMAIN lru.value = ToSet(r) /\ DOMAIN lru.next = ToSet(r) \cup {Dummy}
    /\ ht \in Memories({Table}) /\ TableHeld(ht) /\ Cardinality(DOMAIN ht.key) = Len(r)
    /\ second_ \in Pointers /\ Mapped(lru.value, ht.key, second_)

\* mem without node n.
WithoutNode(mem, n) == [f \in DOMAIN mem |-> Forget(mem[f], {n})]

LEMMA WithoutNodeIs ==
    ASSUME NEW mem \in RingMemories, NEW r, Ring(mem, r), NEW n \in Nodes, n \notin ToSet(r),
           NEW w, w = WithoutNode(mem, n)
    PROVE  /\ w \in RingMemories /\ Ring(w, r)
           /\ DOMAIN w.next = DOMAIN mem.next \ {n}
           /\ w.value = [x \in DOMAIN mem.value \ {n} |-> mem.value[x]]
<1>1. DOMAIN mem = {"next", "prev", "value"}
  BY RingFields
<1>2. w = [f \in {"next", "prev", "value"} |-> Forget(mem[f], {n})]
  BY <1>1 DEF WithoutNode
<1>3. w.next = Forget(mem.next, {n}) /\ w.prev = Forget(mem.prev, {n}) /\ w.value = Forget(mem.value, {n})
  BY <1>2
<1>4. w = [next |-> w.next, prev |-> w.prev, value |-> w.value]
  BY <1>2
<1>5. PICK D \in SUBSET Nodes : mem.next \in [D \cup {Dummy} -> Nodes \cup {Dummy, Null}]
  BY DEF RingMemories
<1>6. PICK V \in SUBSET Nodes : mem.value \in [V -> [key : Keys, val : Values]]
  BY DEF RingMemories
<1>7. DOMAIN mem.prev = DOMAIN mem.next /\ mem.prev \in [DOMAIN mem.prev -> Nodes \cup {Dummy, Null}]
  BY RingMemoryHas DEF Ring
<1>8. n # Dummy
  BY CacheAssumption
<1>9. w.next = [x \in (D \ {n}) \cup {Dummy} |-> mem.next[x]]
  BY <1>3, <1>5, <1>8 DEF Forget, Restrict
<1>10. w.prev = [x \in (D \ {n}) \cup {Dummy} |-> mem.prev[x]]
  BY <1>3, <1>5, <1>7, <1>8 DEF Forget, Restrict
<1>11. w.value = [x \in DOMAIN mem.value \ {n} |-> mem.value[x]] /\ w.value = [x \in V \ {n} |-> mem.value[x]]
  BY <1>3, <1>6 DEF Forget, Restrict
<1>12. w \in RingMemories
  <2>1. w.next \in [(D \ {n}) \cup {Dummy} -> Nodes \cup {Dummy, Null}]
    BY <1>5, <1>9
  <2>2. w.prev \in [(D \ {n}) \cup {Dummy} -> Nodes \cup {Dummy, Null}]
    BY <1>5, <1>7, <1>10
  <2>3. w.value \in [V \ {n} -> [key : Keys, val : Values]]
    BY <1>6, <1>11
  <2>4. D \ {n} \in SUBSET Nodes /\ V \ {n} \in SUBSET Nodes
    OBVIOUS
  <2>. QED
    BY <1>4, <2>1, <2>2, <2>3, <2>4, RingMemoryIs
<1>13. DOMAIN w.next = DOMAIN mem.next \ {n} /\ DOMAIN w.prev = DOMAIN w.next
  BY <1>5, <1>8, <1>9, <1>10
<1>14. \A x \in DOMAIN w.next : w.next[x] = mem.next[x] /\ w.prev[x] = mem.prev[x]
  BY <1>9, <1>10
<1>15. r \in Seq(Nodes) /\ Distinct(r) /\ Len(r) \in Nat /\ \A i \in 1 .. Len(r) : r[i] # n
  <2>1. r \in Seq(Nodes) /\ Distinct(r)
    BY DEF Ring
  <2>. QED
    BY <2>1, ElementsOf
<1>16. \A i \in 0 .. Len(r) + 1 : Near(r, i) \in DOMAIN w.next
  <2>1. \A i \in 0 .. Len(r) + 1 : Near(r, i) \in DOMAIN mem.next
    BY DEF Ring
  <2>. QED
    BY <2>1, <1>8, <1>13, <1>15 DEF Near
<1>17. ASSUME NEW i \in 0 .. Len(r) PROVE w.next[Near(r, i)] = Near(r, i + 1) /\ w.prev[Near(r, i + 1)] = Near(r, i)
  <2>1. i \in 0 .. Len(r) + 1 /\ i + 1 \in 0 .. Len(r) + 1
    BY <1>15
  <2>2. mem.next[Near(r, i)] = Near(r, i + 1) /\ mem.prev[Near(r, i + 1)] = Near(r, i)
    BY DEF Ring
  <2>. QED
    BY <2>1, <2>2, <1>14, <1>16
<1>18. Ring(w, r)
  BY <1>13, <1>15, <1>16, <1>17 DEF Ring
<1>. QED
  BY <1>11, <1>12, <1>13, <1>18

\* The keys of a table without k, which one node has.
LEMMA OneErased ==
    ASSUME NEW mem \in Memories({Table}), TableHeld(mem), NEW k \in Keys,
           NEW o \in DOMAIN mem.key, mem.key[o] = k, \A n \in DOMAIN mem.key : mem.key[n] = k => n = o,
           NEW w, w = erase_key(mem, Table, k)
    PROVE  /\ w \in Memories({Table}) /\ TableHeld(w)
           /\ DOMAIN w.key = DOMAIN mem.key \ {o} /\ \A n \in DOMAIN w.key : w.key[n] = mem.key[n]
           /\ Cardinality(DOMAIN w.key) = Cardinality(DOMAIN mem.key) - 1
<1>1. PICK s : Held(mem, Table, s, FALSE) /\ DOMAIN mem.key = ToSet(s)
  BY DEF TableHeld
<1>2. Heads({Table}) /\ Table \in {Table}
  BY TableIsHead
<1>3. KeyErased(mem, w, {Table}, Table, s, k)
  BY <1>1, <1>2, EraseKeyIs
<1>4. PICK q : Erased(mem, w, {Table}, Table, s, q) /\ ToSet(q) = {x \in ToSet(s) : mem.key[x] # k}
  BY <1>3 DEF KeyErased
<1>5. /\ w \in Memories({Table}) /\ Held(w, Table, q, FALSE)
      /\ DOMAIN w.key = (DOMAIN mem.key \ ToSet(s)) \cup ToSet(q)
      /\ \A n \in DOMAIN w.key : w.key[n] = mem.key[n]
  BY <1>4 DEF Erased, KeysStay, Becomes, Apart
<1>6. DOMAIN w.key = ToSet(q)
  BY <1>1, <1>5
<1>7. {x \in ToSet(s) : mem.key[x] # k} = ToSet(s) \ {o}
  BY <1>1
<1>8. DOMAIN w.key = DOMAIN mem.key \ {o} /\ \A n \in DOMAIN w.key : w.key[n] = mem.key[n]
  BY <1>1, <1>4, <1>5, <1>6, <1>7
<1>9. IsFiniteSet(DOMAIN mem.key)
  BY <1>2, MemoryHas
<1>10. Cardinality(DOMAIN w.key) = Cardinality(DOMAIN mem.key) - 1
  BY <1>8, <1>9, FS_RemoveElement
<1>. QED
  BY <1>5, <1>6, <1>8, <1>10 DEF TableHeld

\* v is value without node n, and k key without node o.
ValuesBut(value, v, n) == v = [x \in DOMAIN value \ {n} |-> value[x]]
KeysBut(key, k, o) == DOMAIN k = DOMAIN key \ {o} /\ \A x \in DOMAIN k : k[x] = key[x]

\* The map between ring and table without one entry.
LEMMA MappedWithout ==
    ASSUME NEW value, NEW key, NEW second_, Mapped(value, key, second_), NEW n \in DOMAIN value, NEW o \in DOMAIN key,
           key[o] = value[n].key,
           NEW v, ValuesBut(value, v, n), NEW k, KeysBut(key, k, o),
           NEW s, s = Restrict(second_, DOMAIN k)
    PROVE  Mapped(v, k, s)
<1>1. DOMAIN s = DOMAIN k /\ \A x \in DOMAIN k : s[x] = second_[x]
  BY DEF Restrict
<1>2. DOMAIN v = DOMAIN value \ {n} /\ \A x \in DOMAIN v : v[x] = value[x]
  BY DEF ValuesBut
<1>. USE DEF KeysBut
<1>3. ASSUME NEW x \in DOMAIN k PROVE s[x] \in DOMAIN v /\ v[s[x]].key = k[x]
  <2>1. x \in DOMAIN key /\ x # o /\ second_[x] \in DOMAIN value /\ value[second_[x]].key = key[x]
    BY DEF Mapped
  <2>2. second_[x] # n
    BY <2>1 DEF Mapped
  <2>. QED
    BY <1>1, <1>2, <2>1, <2>2
<1>4. ASSUME NEW x \in DOMAIN v PROVE \E z \in DOMAIN k : k[z] = v[x].key
  <2>1. PICK z \in DOMAIN key : key[z] = value[x].key
    BY <1>2 DEF Mapped
  <2>2. z # o
    BY <1>2, <2>1 DEF Mapped
  <2>. QED
    BY <1>2, <2>1, <2>2
<1>5. \A x, y \in DOMAIN v : v[x].key = v[y].key => x = y
  BY <1>2 DEF Mapped
<1>6. \A x, y \in DOMAIN k : k[x] = k[y] => x = y
  BY DEF Mapped
<1>. QED
  BY <1>1, <1>3, <1>4, <1>5, <1>6 DEF Mapped

Caches == [lru : RingMemories, ht : Memories({Table}), second : Pointers]

\* What DestroyNode makes of a cache.
LEMMA DestroyNodeIs ==
    ASSUME NEW c \in Caches, NEW r, Holds(c.lru, c.ht, c.second, r), NEW i \in 1 .. Len(r),
           NEW d, d = DestroyNode(c, r[i])
    PROVE  /\ d \in Caches /\ Holds(d.lru, d.ht, d.second, Without(r, i))
           /\ ValuesBut(c.lru.value, d.lru.value, r[i])
<1>. DEFINE n == r[i]
            u == RemoveNode(c.lru, n)
            w == WithoutNode(u, n)
            k == c.lru.value[n].key
            h == erase_key(c.ht, Table, k)
            q == Without(r, i)
            s == Restrict(c.second, DOMAIN h.key)
<1>1. d = [lru |-> w, ht |-> h, second |-> s]
  BY DEF DestroyNode, WithoutNode
<1>2. /\ c.lru \in RingMemories /\ Ring(c.lru, r) /\ DOMAIN c.lru.value = ToSet(r) /\ DOMAIN c.lru.next = ToSet(r) \cup {Dummy}
      /\ c.ht \in Memories({Table}) /\ TableHeld(c.ht) /\ Cardinality(DOMAIN c.ht.key) = Len(r)
      /\ c.second \in Pointers /\ Mapped(c.lru.value, c.ht.key, c.second)
  BY DEF Holds
<1>3. r \in Seq(Nodes) /\ Distinct(r) /\ n \in Nodes /\ n \in ToSet(r) /\ Len(r) \in Nat
  <2>1. r \in Seq(Nodes) /\ Distinct(r)
    BY <1>2 DEF Ring
  <2>. QED
    BY <2>1, ElementsOf
<1>4. q \in Seq(Nodes) /\ Len(q) = Len(r) - 1 /\ ToSet(q) = ToSet(r) \ {n}
  BY <1>3, WithoutIs
<1>5. SameNodes(c.lru, u) /\ Ring(u, q)
  BY <1>2, RemovedIs
<1>6. u \in RingMemories /\ u.value = c.lru.value /\ DOMAIN u.next = ToSet(r) \cup {Dummy} /\ n \notin ToSet(q)
  BY <1>2, <1>4, <1>5 DEF SameNodes
<1>7. n # Dummy
  BY <1>3, CacheAssumption
<1>8. k \in Keys
  <2>1. c.lru.value \in [DOMAIN c.lru.value -> [key : Keys, val : Values]]
    BY <1>2, RingMemoryHas
  <2>. QED
    BY <2>1, <1>2, <1>3
<1>9. PICK o \in DOMAIN c.ht.key : c.ht.key[o] = k
  BY <1>2, <1>3 DEF Mapped
<1>10. \A x \in DOMAIN c.ht.key : c.ht.key[x] = k => x = o
  BY <1>2, <1>9 DEF Mapped
<1>. HIDE DEF n, u, w, k, h, q, s
<1>11. /\ w \in RingMemories /\ Ring(w, q) /\ DOMAIN w.next = DOMAIN u.next \ {n}
       /\ w.value = [x \in DOMAIN u.value \ {n} |-> u.value[x]]
  BY <1>3, <1>5, <1>6, WithoutNodeIs DEF w
<1>12. /\ h \in Memories({Table}) /\ TableHeld(h)
       /\ DOMAIN h.key = DOMAIN c.ht.key \ {o} /\ \A x \in DOMAIN h.key : h.key[x] = c.ht.key[x]
       /\ Cardinality(DOMAIN h.key) = Cardinality(DOMAIN c.ht.key) - 1
  BY <1>2, <1>8, <1>9, <1>10, OneErased DEF h
<1>13. Mapped(w.value, h.key, s)
  <2>. DEFINE value == c.lru.value
              key == c.ht.key
  <2>1. Mapped(value, key, c.second) /\ n \in DOMAIN value /\ o \in DOMAIN key /\ key[o] = value[n].key
    BY <1>2, <1>3, <1>9 DEF k
  <2>2. ValuesBut(value, w.value, n)
    BY <1>6, <1>11 DEF ValuesBut
  <2>3. KeysBut(key, h.key, o)
    BY <1>12 DEF KeysBut
  <2>4. s = Restrict(c.second, DOMAIN h.key)
    BY DEF s
  <2>. HIDE DEF value, key
  <2>. QED
    BY <2>1, <2>2, <2>3, <2>4, MappedWithout
<1>14. s \in Pointers
  <2>1. PICK D \in SUBSET Nodes : c.second \in [D -> Nodes]
    BY <1>2 DEF Pointers
  <2>2. DOMAIN c.second = DOMAIN c.ht.key
    BY <1>2 DEF Mapped
  <2>3. DOMAIN h.key \subseteq D
    BY <2>1, <2>2, <1>12
  <2>4. s \in [DOMAIN h.key -> Nodes]
    BY <2>1, <2>3 DEF s, Restrict
  <2>. QED
    BY <2>1, <2>3, <2>4 DEF Pointers
<1>15. d.lru = w /\ d.ht = h /\ d.second = s /\ d \in Caches
  BY <1>1, <1>11, <1>12, <1>14 DEF Caches
<1>16. DOMAIN w.value = ToSet(q) /\ DOMAIN w.next = ToSet(q) \cup {Dummy} /\ Cardinality(DOMAIN h.key) = Len(q)
  BY <1>2, <1>4, <1>6, <1>7, <1>11, <1>12
<1>17. Holds(d.lru, d.ht, d.second, q)
  BY <1>11, <1>12, <1>13, <1>14, <1>15, <1>16 DEF Holds
<1>18. ValuesBut(c.lru.value, d.lru.value, n)
  BY <1>6, <1>11, <1>15 DEF ValuesBut
<1>. QED
  BY <1>15, <1>17, <1>18 DEF n, q

\* What FindListNode finds.
LEMMA FindListNodeIs ==
    ASSUME NEW r, Holds(lru_, ht_, second, r), NEW k \in Keys
    PROVE  \/ FindListNode(k) = Null /\ \A x \in ToSet(r) : lru_.value[x].key # k
           \/ \E i \in 1 .. Len(r) : FindListNode(k) = r[i] /\ lru_.value[r[i]].key = k
<1>. DEFINE n == find_node(ht_, Table, k).node
<1>1. FindListNode(k) = IF n = Null THEN Null ELSE second[n]
  BY DEF FindListNode
<1>2. /\ Ring(lru_, r) /\ DOMAIN lru_.value = ToSet(r) /\ Mapped(lru_.value, ht_.key, second)
      /\ ht_ \in Memories({Table})
  BY DEF Holds
<1>3. PICK s : Held(ht_, Table, s, FALSE) /\ DOMAIN ht_.key = ToSet(s)
  BY DEF Holds, TableHeld
<1>4. Filed(ht_, Table, s, FALSE) /\ s \in Seq(DOMAIN ht_.key)
  BY <1>3 DEF Held, Filed, ChainIs
<1>5. PICK p \in 0 .. Len(s) : Found(ht_, Table, s, k, find_node(ht_, Table, k), p)
  <2>1. Heads({Table}) /\ Table \in {Table}
    BY TableIsHead
  <2>. QED
    BY <2>1, <1>2, <1>4, FindNodeIs
<1>. HIDE DEF n
<1>6. (Missing(ht_, s, k) /\ n = Null) \/ (FirstWith(ht_, s, k, p + 1) /\ n = s[p + 1])
  BY <1>5 DEF Found, n
<1>7. ToSet(s) = {s[i] : i \in 1 .. Len(s)} /\ ToSet(r) = {r[i] : i \in 1 .. Len(r)}
  BY <1>2, <1>4, ElementsOf DEF Ring
<1>8. CASE Missing(ht_, s, k) /\ n = Null
  <2>1. \A x \in DOMAIN ht_.key : ht_.key[x] # k
    BY <1>3, <1>7, <1>8 DEF Missing
  <2>2. \A x \in ToSet(r) : lru_.value[x].key # k
    BY <1>2, <2>1 DEF Mapped
  <2>. QED
    BY <1>1, <1>8, <2>2
<1>9. CASE FirstWith(ht_, s, k, p + 1) /\ n = s[p + 1]
  <2>. DEFINE h == p + 1
  <2>1. h \in 1 .. Len(s) /\ ht_.key[s[h]] = k /\ n = s[h]
    BY <1>9 DEF FirstWith
  <2>. HIDE DEF h
  <2>2. n \in DOMAIN ht_.key /\ ht_.key[n] = k
    BY <1>3, <1>7, <2>1
  <2>3. n # Null
    <3>1. DOMAIN ht_.key \subseteq Nodes
      BY <1>2, TableIsHead, MemoryHas
    <3>. QED
      BY <2>2, <3>1, TableAssumption
  <2>4. second[n] \in ToSet(r) /\ lru_.value[second[n]].key = k
    BY <1>2, <2>2 DEF Mapped
  <2>5. PICK i \in 1 .. Len(r) : second[n] = r[i]
    BY <1>7, <2>4
  <2>. QED
    BY <1>1, <2>3, <2>4, <2>5
<1>. QED
  BY <1>6, <1>8, <1>9

\* The ring without the table: node n is new in it.
Entry(mem, n, e) ==
    [next |-> With(mem.next, n, Null), prev |-> With(mem.prev, n, Null), value |-> With(mem.value, n, e)]

LEMMA EntryIs ==
    ASSUME NEW mem \in RingMemories, NEW r, Ring(mem, r), NEW n \in Nodes, n \notin DOMAIN mem.next,
           NEW e \in [key : Keys, val : Values], NEW w, w = Entry(mem, n, e)
    PROVE  /\ w \in RingMemories /\ Ring(w, r) /\ w.value = With(mem.value, n, e)
           /\ DOMAIN w.next = DOMAIN mem.next \cup {n}
<1>1. w.next = With(mem.next, n, Null) /\ w.prev = With(mem.prev, n, Null) /\ w.value = With(mem.value, n, e)
      /\ w = [next |-> w.next, prev |-> w.prev, value |-> w.value]
  BY DEF Entry
<1>2. PICK D \in SUBSET Nodes : mem.next \in [D \cup {Dummy} -> Nodes \cup {Dummy, Null}]
  BY DEF RingMemories
<1>3. PICK V \in SUBSET Nodes : mem.value \in [V -> [key : Keys, val : Values]]
  BY DEF RingMemories
<1>4. DOMAIN mem.prev = DOMAIN mem.next /\ mem.prev \in [DOMAIN mem.prev -> Nodes \cup {Dummy, Null}]
  BY RingMemoryHas DEF Ring
<1>5. w.next = [x \in (D \cup {n}) \cup {Dummy} |-> IF x = n THEN Null ELSE mem.next[x]]
  BY <1>1, <1>2 DEF With
<1>6. w.prev = [x \in (D \cup {n}) \cup {Dummy} |-> IF x = n THEN Null ELSE mem.prev[x]]
  BY <1>1, <1>2, <1>4 DEF With
<1>7. w.value = [x \in V \cup {n} |-> IF x = n THEN e ELSE mem.value[x]]
  BY <1>1, <1>3 DEF With
<1>8. w \in RingMemories
  <2>1. w.next \in [(D \cup {n}) \cup {Dummy} -> Nodes \cup {Dummy, Null}]
    BY <1>2, <1>5
  <2>2. w.prev \in [(D \cup {n}) \cup {Dummy} -> Nodes \cup {Dummy, Null}]
    BY <1>2, <1>4, <1>6
  <2>3. w.value \in [V \cup {n} -> [key : Keys, val : Values]]
    BY <1>3, <1>7
  <2>4. D \cup {n} \in SUBSET Nodes /\ V \cup {n} \in SUBSET Nodes
    OBVIOUS
  <2>. QED
    BY <1>1, <2>1, <2>2, <2>3, <2>4, RingMemoryIs
<1>9. /\ DOMAIN w.next = DOMAIN mem.next \cup {n} /\ DOMAIN w.prev = DOMAIN w.next
      /\ \A x \in DOMAIN mem.next : w.next[x] = mem.next[x] /\ w.prev[x] = mem.prev[x]
  BY <1>2, <1>5, <1>6
<1>10. Ring(w, r)
  <2>1. r \in Seq(Nodes) /\ Distinct(r) /\ Len(r) \in Nat
    BY DEF Ring
  <2>2. \A i \in 0 .. Len(r) + 1 : Near(r, i) \in DOMAIN mem.next
    BY DEF Ring
  <2>3. ASSUME NEW i \in 0 .. Len(r) PROVE w.next[Near(r, i)] = Near(r, i + 1) /\ w.prev[Near(r, i + 1)] = Near(r, i)
    <3>1. i \in 0 .. Len(r) + 1 /\ i + 1 \in 0 .. Len(r) + 1
      BY <2>1
    <3>2. mem.next[Near(r, i)] = Near(r, i + 1) /\ mem.prev[Near(r, i + 1)] = Near(r, i)
      BY DEF Ring
    <3>. QED
      BY <3>1, <3>2, <2>2, <1>9
  <2>. QED
    BY <1>9, <2>1, <2>2, <2>3 DEF Ring
<1>. QED
  BY <1>1, <1>8, <1>9, <1>10

\* A node more in the table.
LEMMA OneInserted ==
    ASSUME NEW mem \in Memories({Table}), TableHeld(mem), Roomy(mem), NEW k \in Keys,
           NEW w, w = insert(mem, Table, FALSE, Null, k)
    PROVE  /\ w \in Memories({Table}) /\ TableHeld(w)
           /\ Fresh(mem, Nodes) \in Nodes \ DOMAIN mem.key /\ KeysWith(mem, w, Fresh(mem, Nodes), k)
           /\ Cardinality(DOMAIN w.key) = Cardinality(DOMAIN mem.key) + 1
<1>. DEFINE o == Fresh(mem, Nodes)
<1>1. PICK s : Held(mem, Table, s, FALSE) /\ DOMAIN mem.key = ToSet(s)
  BY DEF TableHeld
<1>2. Heads({Table}) /\ Table \in {Table}
  BY TableIsHead
<1>3. AddsKey(mem, w, {Table}, Table, s, k)
  <2>1. Null \in ToSet(s) \cup {Null} /\ FALSE \in BOOLEAN
    OBVIOUS
  <2>2. \/ FALSE /\ ~Missing(mem, s, k) /\ insert(mem, Table, FALSE, Null, k) = mem
        \/ /\ FALSE => Missing(mem, s, k)
           /\ AddsKey(mem, insert(mem, Table, FALSE, Null, k), {Table}, Table, s, k)
    BY <1>1, <1>2, <2>1, InsertIs
  <2>. QED
    BY <2>2
<1>4. o \in Nodes \ DOMAIN mem.key /\ KeysWith(mem, w, o, k)
  BY <1>3 DEF AddsKey
<1>5. PICK q : Becomes(mem, w, {Table}, Table, s, q)
  BY <1>3 DEF AddsKey
<1>6. w \in Memories({Table}) /\ Held(w, Table, q, FALSE) /\ DOMAIN w.key = (DOMAIN mem.key \ ToSet(s)) \cup ToSet(q)
  BY <1>5 DEF Becomes, Apart
<1>7. DOMAIN w.key = ToSet(q)
  BY <1>1, <1>6
<1>8. IsFiniteSet(DOMAIN mem.key)
  BY <1>2, MemoryHas
<1>. HIDE DEF o
<1>9. Cardinality(DOMAIN w.key) = Cardinality(DOMAIN mem.key) + 1
  <2>1. DOMAIN w.key = DOMAIN mem.key \cup {o} /\ o \notin DOMAIN mem.key
    BY <1>4 DEF KeysWith
  <2>. QED
    BY <2>1, <1>8, FS_AddElement
<1>. QED
  BY <1>4, <1>6, <1>7, <1>9 DEF TableHeld, o

\* The map between ring and table with one entry more.
LEMMA MappedWith ==
    ASSUME NEW value, NEW ht, NEW second_, Mapped(value, ht.key, second_), NEW n, n \notin DOMAIN value,
           NEW k, \A x \in DOMAIN value : value[x].key # k,
           NEW e, e.key = k, NEW v, v = With(value, n, e),
           NEW new, NEW o, o \notin DOMAIN ht.key, KeysWith(ht, new, o, k),
           NEW s, s = With(second_, o, n)
    PROVE  Mapped(v, new.key, s)
<1>. DEFINE key == ht.key
            keys == new.key
<1>1. Mapped(value, key, second_)
  OBVIOUS
<1>2. DOMAIN v = DOMAIN value \cup {n} /\ v[n].key = k /\ \A x \in DOMAIN value : v[x] = value[x] /\ x # n
  BY DEF With
<1>3. DOMAIN keys = DOMAIN key \cup {o} /\ keys[o] = k /\ \A x \in DOMAIN key : keys[x] = key[x] /\ x # o
  BY DEF KeysWith
<1>4. DOMAIN s = DOMAIN keys /\ s[o] = n /\ \A x \in DOMAIN key : s[x] = second_[x]
  BY <1>1, <1>3 DEF With, Mapped
<1>. HIDE DEF key, keys
<1>5. ASSUME NEW x \in DOMAIN keys PROVE s[x] \in DOMAIN v /\ v[s[x]].key = keys[x]
  <2>1. CASE x = o
    BY <2>1, <1>2, <1>3, <1>4
  <2>2. CASE x # o
    <3>1. x \in DOMAIN key /\ second_[x] \in DOMAIN value /\ value[second_[x]].key = key[x]
      BY <2>2, <1>1, <1>3 DEF Mapped
    <3>. QED
      BY <3>1, <1>2, <1>3, <1>4
  <2>. QED
    BY <2>1, <2>2
<1>6. ASSUME NEW x \in DOMAIN v PROVE \E z \in DOMAIN keys : keys[z] = v[x].key
  <2>1. CASE x = n
    BY <2>1, <1>2, <1>3
  <2>2. CASE x # n
    <3>1. x \in DOMAIN value /\ v[x] = value[x]
      BY <2>2, <1>2
    <3>2. PICK z \in DOMAIN key : key[z] = value[x].key
      BY <3>1, <1>1 DEF Mapped
    <3>. QED
      BY <3>1, <3>2, <1>3
  <2>. QED
    BY <2>1, <2>2
<1>7. ASSUME NEW x \in DOMAIN v, NEW y \in DOMAIN v, v[x].key = v[y].key PROVE x = y
  <2>1. CASE x = n \/ y = n
    BY <2>1, <1>2, <1>7
  <2>2. CASE x # n /\ y # n
    <3>1. x \in DOMAIN value /\ y \in DOMAIN value /\ value[x].key = value[y].key
      BY <2>2, <1>2, <1>7
    <3>. QED
      BY <3>1, <1>1 DEF Mapped
  <2>. QED
    BY <2>1, <2>2
<1>8. \A x \in DOMAIN key : key[x] # k
  BY <1>1 DEF Mapped
<1>9. ASSUME NEW x \in DOMAIN keys, NEW y \in DOMAIN keys, keys[x] = keys[y] PROVE x = y
  <2>1. CASE x = o \/ y = o
    BY <2>1, <1>3, <1>8, <1>9
  <2>2. CASE x # o /\ y # o
    <3>1. x \in DOMAIN key /\ y \in DOMAIN key /\ key[x] = key[y]
      BY <2>2, <1>3, <1>9
    <3>. QED
      BY <3>1, <1>1 DEF Mapped
  <2>. QED
    BY <2>1, <2>2
<1>10. Mapped(v, keys, s)
  BY <1>4, <1>5, <1>6, <1>7, <1>9 DEF Mapped
<1>. QED
  BY <1>10 DEF keys

\* There is an address that no node of the ring has.
LEMMA FreshEntry ==
    ASSUME NEW mem \in RingMemories, NEW r, Ring(mem, r), DOMAIN mem.next = ToSet(r) \cup {Dummy},
           Len(r) < Cardinality(Nodes)
    PROVE  Fresh(mem, Nodes) \in Nodes \ DOMAIN mem.next
<1>. DEFINE S == Nodes \ DOMAIN mem.next
<1>1. r \in Seq(Nodes) /\ Distinct(r) /\ ToSet(r) \subseteq Nodes
  <2>1. r \in Seq(Nodes) /\ Distinct(r)
    BY DEF Ring
  <2>. QED
    BY <2>1, ElementsOf
<1>2. Cardinality(ToSet(r)) = Len(r)
  BY <1>1, DistinctCount
<1>3. S # {}
  <2>. SUFFICES ASSUME S = {} PROVE FALSE
    OBVIOUS
  <2>1. ToSet(r) = Nodes
    BY <1>1, CacheAssumption
  <2>2. Cardinality(Nodes) \in Nat
    BY TableAssumption, FS_CardinalityType
  <2>. QED
    BY <1>2, <2>1, <2>2
<1>4. S \in SUBSET Nat
  BY TableAssumption
<1>5. \E x \in S : \A y \in S : x <= y
  BY <1>3, <1>4, LeastNat
<1>6. Fresh(mem, Nodes) \in S
  BY <1>5 DEF Fresh, Least
<1>. QED
  BY <1>6

\* The cache with an entry more, before one is dropped.
AddedEntry(k, v) ==
    LET n == Fresh(lru_, Nodes)
    IN  [lru |-> AddToHead(Entry(lru_, n, [key |-> k, val |-> v]), Dummy, n),
         ht |-> insert(ht_, Table, FALSE, Null, k),
         second |-> With(second, Fresh(ht_, Nodes), n)]

\* What Add makes of the cache before it drops an entry.
LEMMA AddedEntryIs ==
    ASSUME NEW r, Holds(lru_, ht_, second, r), Len(r) < Cardinality(Nodes), NEW k \in Keys, NEW v \in Values,
           \A x \in ToSet(r) : lru_.value[x].key # k,
           NEW c, c = AddedEntry(k, v)
    PROVE  /\ c \in Caches /\ Fresh(lru_, Nodes) \in Nodes \ ToSet(r)
           /\ Holds(c.lru, c.ht, c.second, Pushed(Fresh(lru_, Nodes), r))
           /\ c.lru.value = With(lru_.value, Fresh(lru_, Nodes), [key |-> k, val |-> v])
<1>. DEFINE n == Fresh(lru_, Nodes)
            e == [key |-> k, val |-> v]
            u == Entry(lru_, n, e)
            w == AddToHead(u, Dummy, n)
            h == insert(ht_, Table, FALSE, Null, k)
            o == Fresh(ht_, Nodes)
            s == With(second, o, n)
            q == Pushed(n, r)
<1>1. c = [lru |-> w, ht |-> h, second |-> s]
  BY DEF AddedEntry
<1>2. /\ lru_ \in RingMemories /\ Ring(lru_, r) /\ DOMAIN lru_.value = ToSet(r) /\ DOMAIN lru_.next = ToSet(r) \cup {Dummy}
      /\ ht_ \in Memories({Table}) /\ TableHeld(ht_) /\ Cardinality(DOMAIN ht_.key) = Len(r)
      /\ second \in Pointers /\ Mapped(lru_.value, ht_.key, second)
  BY DEF Holds
<1>3. n \in Nodes \ DOMAIN lru_.next
  BY <1>2, FreshEntry
<1>4. n \in Nodes \ ToSet(r) /\ r \in Seq(Nodes) /\ e \in [key : Keys, val : Values] /\ e.key = k
  BY <1>2, <1>3 DEF Ring
<1>5. Len(q) = Len(r) + 1 /\ ToSet(q) = ToSet(r) \cup {n}
  BY <1>4, PushedIs
<1>. HIDE DEF n, e, u, w, h, o, s, q
<1>6. u \in RingMemories /\ Ring(u, r) /\ u.value = With(lru_.value, n, e) /\ DOMAIN u.next = DOMAIN lru_.next \cup {n}
  BY <1>2, <1>3, <1>4, EntryIs DEF u
<1>7. SameNodes(u, w) /\ Ring(w, q)
  BY <1>4, <1>6, AddedIs DEF w, q
<1>8. w \in RingMemories /\ w.value = With(lru_.value, n, e) /\ DOMAIN w.next = DOMAIN lru_.next \cup {n}
  BY <1>6, <1>7 DEF SameNodes
<1>9. /\ h \in Memories({Table}) /\ TableHeld(h)
      /\ o \in Nodes \ DOMAIN ht_.key /\ KeysWith(ht_, h, o, k)
      /\ Cardinality(DOMAIN h.key) = Cardinality(DOMAIN ht_.key) + 1
  BY <1>2, OneInserted DEF Roomy, h, o
<1>10. DOMAIN w.value = ToSet(r) \cup {n}
  BY <1>2, <1>8 DEF With
<1>11. Mapped(w.value, h.key, s)
  <2>. DEFINE value == lru_.value
              wv == w.value
  <2>1. Mapped(value, ht_.key, second) /\ n \notin DOMAIN value /\ (\A x \in DOMAIN value : value[x].key # k)
        /\ e.key = k /\ wv = With(value, n, e)
    BY <1>2, <1>4, <1>8
  <2>2. o \notin DOMAIN ht_.key /\ KeysWith(ht_, h, o, k) /\ s = With(second, o, n)
    BY <1>9 DEF s
  <2>. HIDE DEF value, wv
  <2>3. Mapped(wv, h.key, s)
    BY <2>1, <2>2, MappedWith
  <2>. QED
    BY <2>3 DEF wv
<1>12. s \in Pointers
  <2>1. PICK D \in SUBSET Nodes : second \in [D -> Nodes]
    BY <1>2 DEF Pointers
  <2>2. s \in [D \cup {o} -> Nodes]
    BY <2>1, <1>4 DEF s, With
  <2>3. D \cup {o} \in SUBSET Nodes
    BY <2>1, <1>9
  <2>. QED
    BY <2>2, <2>3 DEF Pointers
<1>13. c.lru = w /\ c.ht = h /\ c.second = s /\ c \in Caches
  BY <1>1, <1>8, <1>9, <1>12 DEF Caches
<1>14. DOMAIN w.value = ToSet(q) /\ DOMAIN w.next = ToSet(q) \cup {Dummy} /\ Cardinality(DOMAIN h.key) = Len(q)
  BY <1>2, <1>5, <1>8, <1>9, <1>10
<1>15. Holds(c.lru, c.ht, c.second, q)
  BY <1>7, <1>8, <1>9, <1>11, <1>12, <1>13, <1>14 DEF Holds
<1>16. c.lru.value = With(lru_.value, n, e)
  BY <1>8, <1>13
<1>. QED
  BY <1>4, <1>13, <1>15, <1>16 DEF n, e, q

\* The ring without its last i nodes.
Left(r, i) == [j \in 1 .. Len(r) - i |-> r[j]]

LEMMA LeftIs ==
    ASSUME NEW S, NEW r \in Seq(S), NEW i \in 0 .. Len(r)
    PROVE  /\ Left(r, i) \in Seq(S) /\ Len(Left(r, i)) = Len(r) - i
           /\ \A j \in 1 .. Len(r) - i : Left(r, i)[j] = r[j]
<1>. DEFINE k == Len(r) - i
            q == Left(r, i)
<1>1. Len(r) \in Nat /\ r \in [1 .. Len(r) -> S] /\ k \in Nat /\ k <= Len(r)
  OBVIOUS
<1>2. q = [j \in 1 .. k |-> r[j]]
  BY DEF Left
<1>. HIDE DEF k, q
<1>3. q \in [1 .. k -> S]
  BY <1>1, <1>2
<1>4. q \in Seq(S) /\ Len(q) = k
  BY <1>1, <1>3
<1>. QED
  BY <1>2, <1>4 DEF k, q

LEMMA LeftWithout ==
    ASSUME NEW S, NEW r \in Seq(S), NEW i \in 1 .. Len(r)
    PROVE  /\ Len(r) + 1 - i \in 1 .. Len(Left(r, i - 1)) /\ Left(r, i - 1)[Len(r) + 1 - i] = r[Len(r) + 1 - i]
           /\ Without(Left(r, i - 1), Len(r) + 1 - i) = Left(r, i)
<1>. DEFINE q == Left(r, i - 1)
            p == Left(r, i)
            a == Len(r) + 1 - i
<1>1. Len(r) \in Nat /\ i - 1 \in 0 .. Len(r) /\ i \in 0 .. Len(r) /\ a \in Nat /\ a >= 1
  OBVIOUS
<1>2. q \in Seq(S) /\ Len(q) = Len(r) - (i - 1) /\ \A j \in 1 .. Len(r) - (i - 1) : q[j] = r[j]
  BY <1>1, LeftIs
<1>3. p \in Seq(S) /\ Len(p) = Len(r) - i /\ \A j \in 1 .. Len(r) - i : p[j] = r[j]
  BY <1>1, LeftIs
<1>4. Len(r) - (i - 1) = a /\ Len(r) - i = a - 1
  BY <1>1
<1>. HIDE DEF q, p, a
<1>5. q \in Seq(S) /\ Len(q) = a /\ a \in 1 .. a /\ \A j \in 1 .. a : q[j] = r[j]
  BY <1>1, <1>2, <1>4
<1>6. p \in Seq(S) /\ Len(p) = a - 1 /\ \A j \in 1 .. a - 1 : p[j] = r[j]
  BY <1>3, <1>4
<1>. DEFINE w == Without(q, a)
<1>7. w \in Seq(S) /\ Len(w) = a - 1 /\ \A j \in 1 .. a - 1 : w[j] = IF j < a THEN q[j] ELSE q[j + 1]
  BY <1>5, WithoutIs
<1>. HIDE DEF w
<1>8. ASSUME NEW j \in 1 .. a - 1 PROVE w[j] = p[j]
  <2>1. j \in 1 .. a /\ j < a
    BY <1>1
  <2>. QED
    BY <2>1, <1>5, <1>6, <1>7
<1>9. w = p
  <2>1. w = [j \in 1 .. a - 1 |-> w[j]] /\ p = [j \in 1 .. a - 1 |-> p[j]]
    BY <1>6, <1>7
  <2>. QED
    BY <1>8, <2>1
<1>. QED
  BY <1>5, <1>9 DEF q, p, a, w

\* A cache the first of whose entries are left.
LeftOf(c, r, i) == Holds(c.lru, c.ht, c.second, Left(r, i))

LEMMA DropTurn ==
    ASSUME NEW r \in Seq(Nodes), NEW i \in 1 .. Len(r), NEW c \in Caches, LeftOf(c, r, i - 1),
           NEW d, d = DestroyNode(c, r[Len(r) + 1 - i])
    PROVE  d \in Caches /\ LeftOf(d, r, i)
<1>. DEFINE a == Len(r) + 1 - i
            q == Left(r, i - 1)
<1>1. a \in 1 .. Len(q) /\ q[a] = r[a] /\ Without(q, a) = Left(r, i)
  BY LeftWithout
<1>2. Holds(c.lru, c.ht, c.second, q) /\ d = DestroyNode(c, r[a])
  BY DEF LeftOf
<1>. HIDE DEF a, q
<1>3. d = DestroyNode(c, q[a])
  BY <1>1, <1>2
<1>4. d \in Caches /\ Holds(d.lru, d.ht, d.second, Without(q, a))
  BY <1>1, <1>2, <1>3, DestroyNodeIs
<1>. QED
  BY <1>1, <1>4 DEF LeftOf

\* Destruction leaves no entry.
LEMMA DestroyedIs ==
    ASSUME NEW r, Holds(lru_, ht_, second, r)
    PROVE  Holds(Destroyed.lru, Destroyed.ht, Destroyed.second, <<>>)
<1>. DEFINE n == Len(r)
            c0 == [lru |-> lru_, ht |-> ht_, second |-> second]
            X == [i \in 0 .. n |-> {c \in Caches : LeftOf(c, r, i)}]
            G == [i \in 1 .. n |-> [c \in X[i - 1] |-> DestroyNode(c, r[n + 1 - i])]]
            after == CHOOSE f : f = [i \in 0 .. n |-> IF i = 0 THEN c0 ELSE DestroyNode(f[i - 1], r[n + 1 - i])]
<1>1. lru_ \in RingMemories /\ Ring(lru_, r) /\ ht_ \in Memories({Table}) /\ second \in Pointers
  BY DEF Holds
<1>2. r \in Seq(Nodes) /\ n \in Nat
  BY <1>1 DEF Ring
<1>3. Entries(lru_) = r
  BY <1>1, EntriesIs
<1>4. Destroyed = after[n]
  BY <1>3 DEF Destroyed, Loop
<1>5. c0 \in Caches /\ LeftOf(c0, r, 0)
  <2>1. Left(r, 0) = r
    <3>1. Left(r, 0) \in Seq(Nodes) /\ Len(Left(r, 0)) = n /\ \A j \in 1 .. n : Left(r, 0)[j] = r[j]
      BY <1>2, LeftIs
    <3>2. r = [j \in 1 .. n |-> r[j]] /\ Left(r, 0) = [j \in 1 .. n |-> Left(r, 0)[j]]
      BY <1>2, <3>1
    <3>. QED
      BY <3>1, <3>2
  <2>. QED
    BY <1>1, <2>1 DEF Caches, LeftOf
<1>. HIDE DEF n, c0
<1>6. c0 \in X[0]
  <2>1. 0 \in 0 .. n
    BY <1>2
  <2>. QED
    BY <1>5, <2>1
<1>7. ASSUME NEW i \in 1 .. n, NEW c \in X[i - 1] PROVE DestroyNode(c, r[n + 1 - i]) \in X[i]
  <2>1. i \in 0 .. n /\ i - 1 \in 0 .. n /\ i \in 1 .. Len(r)
    BY <1>2 DEF n
  <2>2. c \in Caches /\ LeftOf(c, r, i - 1)
    BY <1>7, <2>1
  <2>. DEFINE d == DestroyNode(c, r[n + 1 - i])
  <2>3. d = DestroyNode(c, r[Len(r) + 1 - i])
    BY DEF n
  <2>. HIDE DEF d
  <2>4. d \in Caches /\ LeftOf(d, r, i)
    BY <1>2, <2>1, <2>2, <2>3, DropTurn
  <2>5. d \in X[i]
    BY <2>1, <2>4
  <2>. QED
    BY <2>5 DEF d
<1>8. \A i \in 1 .. n : \A c \in X[i - 1] : G[i][c] = DestroyNode(c, r[n + 1 - i])
  OBVIOUS
<1>. HIDE DEF X, G
<1>9. PICK f : /\ f = [i \in 0 .. n |-> IF i = 0 THEN c0 ELSE G[i][f[i - 1]]]
               /\ \A i \in 0 .. n : f[i] \in X[i]
  <2>1. \A i \in 1 .. n : \A c \in X[i - 1] : G[i][c] \in X[i]
    BY <1>7, <1>8
  <2>2. PICK f : RunsInside(f, n, X, G, c0)
    BY <1>2, <1>6, <2>1, LoopInside
  <2>. QED
    BY <2>2 DEF RunsInside
<1>10. f = [i \in 0 .. n |-> IF i = 0 THEN c0 ELSE DestroyNode(f[i - 1], r[n + 1 - i])]
  <2>1. ASSUME NEW i \in 0 .. n, i # 0 PROVE f[i] = DestroyNode(f[i - 1], r[n + 1 - i])
    <3>1. i \in 1 .. n /\ i - 1 \in 0 .. n
      BY <1>2, <2>1
    <3>2. f[i] = G[i][f[i - 1]] /\ f[i - 1] \in X[i - 1]
      BY <1>9, <2>1, <3>1
    <3>. QED
      BY <1>8, <3>1, <3>2
  <2>2. \A i \in 0 .. n : f[i] = IF i = 0 THEN c0 ELSE DestroyNode(f[i - 1], r[n + 1 - i])
    BY <1>9, <2>1
  <2>3. f = [i \in 0 .. n |-> f[i]]
    BY <1>9
  <2>. QED
    BY <2>2, <2>3
<1>11. after = [i \in 0 .. n |-> IF i = 0 THEN c0 ELSE DestroyNode(after[i - 1], r[n + 1 - i])]
  BY <1>10
<1>. HIDE DEF after
<1>12. \A i \in 0 .. n : after[i] \in X[i]
  <2>1. after[0] = c0
    BY <1>2, <1>11
  <2>2. ASSUME NEW i \in 1 .. n, after[i - 1] \in X[i - 1] PROVE after[i] \in X[i]
    <3>1. i \in 0 .. n /\ i # 0
      BY <1>2
    <3>2. after[i] = DestroyNode(after[i - 1], r[n + 1 - i])
      BY <1>11, <3>1
    <3>. QED
      BY <1>7, <2>2, <3>2
  <2>. QED
    BY <1>2, <1>6, <2>1, <2>2, LoopStays
<1>13. LeftOf(after[n], r, n)
  <2>1. n \in 0 .. n
    BY <1>2
  <2>. QED
    BY <1>12, <2>1 DEF X
<1>14. Left(r, n) = <<>>
  <2>1. n \in 0 .. Len(r) /\ Len(r) - n = 0
    BY <1>2 DEF n
  <2>2. Left(r, n) \in Seq(Nodes) /\ Len(Left(r, n)) = 0
    BY <1>2, <2>1, LeftIs
  <2>. QED
    BY <2>2
<1>. QED
  BY <1>4, <1>13, <1>14 DEF LeftOf

-----------------------------------------------------------------------------
(* The history.                                                            *)

LEMMA RemoveAtIs ==
    ASSUME NEW S, NEW s \in Seq(S), NEW i \in 1 .. Len(s)
    PROVE  RemoveAt(s, i) = Without(s, i)
<1>. DEFINE a == SubSeq(s, 1, i - 1)
            c == SubSeq(s, i + 1, Len(s))
            d == a \o c
            w == Without(s, i)
            n == Len(s) - 1
<1>1. Len(s) \in Nat /\ i \in Nat /\ i >= 1 /\ i <= Len(s) /\ n \in Nat /\ \A j \in 1 .. Len(s) : s[j] \in S
  OBVIOUS
<1>2. a \in Seq(S) /\ Len(a) = i - 1 /\ \A j \in 1 .. i - 1 : a[j] = s[j]
  BY <1>1, SubSeqProperties
<1>3. c \in Seq(S) /\ Len(c) = Len(s) - i /\ \A j \in 1 .. Len(c) : c[j] = s[i + j]
  BY <1>1, SubSeqProperties
<1>4. RemoveAt(s, i) = d
  BY DEF RemoveAt
<1>5. w \in Seq(S) /\ Len(w) = n /\ \A j \in 1 .. n : w[j] = IF j < i THEN s[j] ELSE s[j + 1]
  BY WithoutIs
<1>. HIDE DEF a, c, w
<1>6. /\ d \in Seq(S) /\ Len(d) = Len(a) + Len(c)
      /\ \A j \in 1 .. Len(a) + Len(c) : d[j] = IF j <= Len(a) THEN a[j] ELSE c[j - Len(a)]
  BY <1>2, <1>3, ConcatProperties
<1>7. Len(a) + Len(c) = n
  BY <1>1, <1>2, <1>3
<1>. HIDE DEF d
<1>8. Len(d) = n /\ \A j \in 1 .. n : d[j] = IF j <= Len(a) THEN a[j] ELSE c[j - Len(a)]
  BY <1>6, <1>7
<1>9. ASSUME NEW j \in 1 .. n PROVE d[j] = w[j]
  <2>1. CASE j < i
    <3>1. j \in 1 .. i - 1 /\ j <= Len(a)
      BY <2>1, <1>1, <1>2
    <3>. QED
      BY <2>1, <3>1, <1>2, <1>5, <1>8
  <2>2. CASE ~(j < i)
    <3>1. ~(j <= Len(a)) /\ j - Len(a) \in 1 .. Len(c) /\ i + (j - Len(a)) = j + 1
      BY <2>2, <1>1, <1>2, <1>3
    <3>2. c[j - Len(a)] = s[j + 1]
      BY <3>1, <1>3
    <3>. QED
      BY <2>2, <3>1, <3>2, <1>5, <1>8
  <2>. QED
    BY <2>1, <2>2
<1>10. d = w
  BY <1>5, <1>6, <1>8, <1>9, SeqSame
<1>. QED
  BY <1>4, <1>10 DEF w

\* The history after a use of k: k has come first, from its place or new.
Touched(used_, k, new) ==
    \/ k \notin ToSet(used_) /\ new = Pushed(k, used_)
    \/ \E i \in 1 .. Len(used_) : used_[i] = k /\ new = Moved(used_, i)

LEMMA PushedConcat ==
    ASSUME NEW S, NEW s \in Seq(S), NEW k \in S
    PROVE  <<k>> \o s = Pushed(k, s)
<1>. DEFINE f == <<k>>
            q == Pushed(k, s)
            d == f \o s
            n == Len(s) + 1
<1>1. f \in Seq(S) /\ Len(f) = 1 /\ f[1] = k
  OBVIOUS
<1>2. Len(s) \in Nat /\ n \in Nat
  OBVIOUS
<1>3. q \in Seq(S) /\ Len(q) = n /\ q[1] = k /\ \A j \in 2 .. n : q[j] = s[j - 1]
  BY PushedIs
<1>. HIDE DEF f, q
<1>4. /\ d \in Seq(S) /\ Len(d) = 1 + Len(s)
      /\ \A j \in 1 .. 1 + Len(s) : d[j] = IF j <= 1 THEN f[j] ELSE s[j - 1]
  <2>1. /\ d \in Seq(S) /\ Len(d) = Len(f) + Len(s)
        /\ \A j \in 1 .. Len(f) + Len(s) : d[j] = IF j <= Len(f) THEN f[j] ELSE s[j - Len(f)]
    BY <1>1, ConcatProperties
  <2>. QED
    BY <1>1, <2>1
<1>5. ASSUME NEW j \in 1 .. n PROVE d[j] = q[j]
  <2>1. CASE j = 1
    BY <2>1, <1>1, <1>2, <1>3, <1>4
  <2>2. CASE j # 1
    BY <2>2, <1>2, <1>3, <1>4
  <2>. QED
    BY <2>1, <2>2
<1>6. Len(d) = n
  BY <1>2, <1>4
<1>. HIDE DEF d, n
<1>7. d = q
  BY <1>3, <1>4, <1>5, <1>6, SeqSame
<1>. QED
  BY <1>7 DEF d, f, q

LEMMA UseIs ==
    ASSUME NEW used_ \in Seq(Keys), Distinct(used_), NEW k \in Keys
    PROVE  Touched(used_, k, <<k>> \o RemoveFirst(used_, k))
<1>. DEFINE I == {j \in 1 .. Len(used_) : used_[j] = k}
            rest == RemoveFirst(used_, k)
<1>1. ToSet(used_) = {used_[j] : j \in 1 .. Len(used_)}
  BY ElementsOf
<1>2. CASE I = {}
  <2>1. rest = used_
    BY <1>2 DEF RemoveFirst
  <2>2. <<k>> \o used_ = Pushed(k, used_)
    BY PushedConcat
  <2>. QED
    BY <1>1, <1>2, <2>1, <2>2 DEF Touched
<1>3. CASE I # {}
  <2>1. PICK i \in 1 .. Len(used_) : used_[i] = k
    BY <1>3
  <2>2. I = {i} /\ i \in Nat
    BY <2>1 DEF Distinct
  <2>3. Min(I) = i
    BY <2>2 DEF Min
  <2>4. rest = RemoveAt(used_, i)
    BY <1>3, <2>3 DEF RemoveFirst, SelectInSeq
  <2>5. rest = Without(used_, i)
    BY <2>4, RemoveAtIs
  <2>6. Without(used_, i) \in Seq(Keys)
    BY WithoutIs
  <2>. HIDE DEF rest
  <2>7. <<k>> \o rest = Pushed(k, rest)
    BY <2>5, <2>6, PushedConcat
  <2>8. <<k>> \o rest = Moved(used_, i)
    BY <2>1, <2>5, <2>7 DEF Moved
  <2>. QED
    BY <2>1, <2>8 DEF Touched, rest
<1>. QED
  BY <1>2, <1>3

\* Where the elements of s are once its element i is first.
LEMMA MovedPlaces ==
    ASSUME NEW S, NEW s \in Seq(S), NEW i \in 1 .. Len(s)
    PROVE  /\ Moved(s, i) \in Seq(S) /\ Len(Moved(s, i)) = Len(s) /\ Moved(s, i)[1] = s[i]
           /\ \A j \in 2 .. Len(s) : Moved(s, i)[j] = IF j - 1 < i THEN s[j - 1] ELSE s[j]
           /\ Distinct(s) => Distinct(Moved(s, i)) /\ ToSet(Moved(s, i)) = ToSet(s)
<1>. DEFINE q == Without(s, i)
            e == s[i]
            p == Pushed(e, q)
<1>1. Len(s) \in Nat /\ e \in S /\ i \in Nat
  OBVIOUS
<1>2. q \in Seq(S) /\ Len(q) = Len(s) - 1 /\ \A j \in 1 .. Len(s) - 1 : q[j] = IF j < i THEN s[j] ELSE s[j + 1]
  BY WithoutIs
<1>3. Distinct(s) => Distinct(q) /\ ToSet(q) = ToSet(s) \ {e}
  BY WithoutIs
<1>4. e \in ToSet(s)
  BY ElementsOf
<1>. HIDE DEF q, e
<1>5. /\ p \in Seq(S) /\ Len(p) = Len(q) + 1 /\ p[1] = e /\ \A j \in 2 .. Len(q) + 1 : p[j] = q[j - 1]
      /\ ToSet(p) = ToSet(q) \cup {e} /\ (Distinct(q) /\ e \notin ToSet(q) => Distinct(p))
  <2>1. q \in Seq(S)
    BY <1>2
  <2>2. e \in S
    BY <1>1
  <2>3. p \in Seq(S) /\ Len(p) = Len(q) + 1 /\ p[1] = e /\ \A j \in 2 .. Len(q) + 1 : p[j] = q[j - 1]
    BY <2>1, <2>2, PushedIs
  <2>4. ToSet(p) = ToSet(q) \cup {e}
    BY <2>1, <2>2, PushedIs
  <2>5. Distinct(q) /\ e \notin ToSet(q) => Distinct(p)
    BY <2>1, <2>2, PushedIs
  <2>. QED
    BY <2>1, <2>2, <2>3, <2>4, <2>5
<1>. HIDE DEF p
<1>6. Len(p) = Len(s)
  BY <1>1, <1>2, <1>5
<1>7. ASSUME NEW j \in 2 .. Len(s) PROVE p[j] = IF j - 1 < i THEN s[j - 1] ELSE s[j]
  <2>1. j - 1 \in 1 .. Len(s) - 1 /\ (j - 1) + 1 = j /\ j \in 2 .. Len(q) + 1
    BY <1>1, <1>2
  <2>. DEFINE h == j - 1
  <2>2. p[j] = q[h] /\ h \in 1 .. Len(s) - 1 /\ h + 1 = j
    BY <2>1, <1>5
  <2>. HIDE DEF h
  <2>3. p[j] = IF h < i THEN s[h] ELSE s[j]
    BY <2>2, <1>2
  <2>. QED
    BY <2>3 DEF h
<1>8. Distinct(s) => Distinct(p) /\ ToSet(p) = ToSet(s)
  BY <1>3, <1>4, <1>5
<1>. QED
  BY <1>5, <1>6, <1>7, <1>8 DEF Moved, p, q, e

\* A history that has been touched is one: no key is in it twice.
LEMMA TouchedIs ==
    ASSUME NEW used_ \in Seq(Keys), Distinct(used_), NEW k \in Keys, NEW new, Touched(used_, k, new)
    PROVE  new \in Seq(Keys) /\ Distinct(new) /\ ToSet(new) = ToSet(used_) \cup {k} /\ Len(new) >= Len(used_)
<1>1. ASSUME k \notin ToSet(used_), new = Pushed(k, used_)
      PROVE  new \in Seq(Keys) /\ Distinct(new) /\ ToSet(new) = ToSet(used_) \cup {k} /\ Len(new) >= Len(used_)
  <2>0. new \in Seq(Keys)
    BY <1>1, PushedIs
  <2>1. Len(new) = Len(used_) + 1
    BY <1>1, PushedIs
  <2>2. ToSet(Pushed(k, used_)) = ToSet(used_) \cup {k}
    <3>1. used_ \in Seq(Keys) /\ k \in Keys
      OBVIOUS
    <3>. QED
      BY <3>1, PushedIs
  <2>3. Distinct(new)
    BY <1>1, PushedIs
  <2>. QED
    BY <1>1, <2>0, <2>1, <2>2, <2>3
<1>2. ASSUME NEW i \in 1 .. Len(used_), used_[i] = k, new = Moved(used_, i)
      PROVE  new \in Seq(Keys) /\ Distinct(new) /\ ToSet(new) = ToSet(used_) \cup {k} /\ Len(new) >= Len(used_)
  <2>1. k \in ToSet(used_)
    BY <1>2, ElementsOf
  <2>2. new \in Seq(Keys) /\ Len(new) = Len(used_) /\ Distinct(new) /\ ToSet(new) = ToSet(used_)
    BY <1>2, MovedPlaces
  <2>. QED
    BY <2>1, <2>2
<1>. QED
  BY <1>1, <1>2 DEF Touched

Kept(used_, capacity) == IF Len(used_) < capacity THEN Len(used_) ELSE capacity

\* The entries are those of the keys used last, in their order.
Recent(value, used_, capacity, r) ==
    /\ used_ \in Seq(Keys) /\ Distinct(used_)
    /\ Len(r) = Kept(used_, capacity)
    /\ \A i \in 1 .. Len(r) : value[r[i]].key = used_[i]

SameKeys(value, v, r) == \A x \in ToSet(r) : v[x].key = value[x].key

\* A key that is found comes first.
LEMMA HitRecent ==
    ASSUME NEW value, NEW used_, NEW capacity \in Nat, NEW r \in Seq(Nodes), Recent(value, used_, capacity, r),
           NEW i \in 1 .. Len(r), NEW k \in Keys, value[r[i]].key = k, NEW v, SameKeys(value, v, r),
           NEW new, Touched(used_, k, new)
    PROVE  Recent(v, new, capacity, Moved(r, i)) /\ new = Moved(used_, i)
<1>. DEFINE q == Moved(r, i)
            u == Moved(used_, i)
<1>1. used_ \in Seq(Keys) /\ Distinct(used_) /\ Len(r) \in Nat /\ Len(used_) \in Nat
      /\ \A j \in 1 .. Len(r) : value[r[j]].key = used_[j]
  BY DEF Recent
<1>2. Len(r) <= Len(used_) /\ Len(r) = Kept(used_, capacity)
  BY <1>1 DEF Recent, Kept
<1>3. i \in 1 .. Len(used_) /\ used_[i] = k
  BY <1>1, <1>2
<1>4. k \in ToSet(used_)
  BY <1>1, <1>3, ElementsOf
<1>5. new = u
  <2>1. PICK h \in 1 .. Len(used_) : used_[h] = k /\ new = Moved(used_, h)
    BY <1>4 DEF Touched
  <2>2. h = i
    BY <1>1, <1>3, <2>1 DEF Distinct
  <2>. QED
    BY <2>1, <2>2
<1>6. new \in Seq(Keys) /\ Distinct(new)
  BY <1>1, TouchedIs
<1>7. q \in Seq(Nodes) /\ Len(q) = Len(r) /\ q[1] = r[i] /\ \A j \in 2 .. Len(r) : q[j] = IF j - 1 < i THEN r[j - 1] ELSE r[j]
  BY MovedPlaces
<1>8. /\ Len(u) = Len(used_) /\ u[1] = used_[i]
      /\ \A j \in 2 .. Len(used_) : u[j] = IF j - 1 < i THEN used_[j - 1] ELSE used_[j]
  BY <1>1, <1>3, MovedPlaces
<1>9. \A j \in 1 .. Len(r) : v[r[j]].key = used_[j]
  <2>1. \A j \in 1 .. Len(r) : r[j] \in ToSet(r)
    BY ElementsOf
  <2>. QED
    BY <1>1, <2>1 DEF SameKeys
<1>. HIDE DEF q, u
<1>10. ASSUME NEW j \in 1 .. Len(r) PROVE v[q[j]].key = u[j]
  <2>1. CASE j = 1
    BY <2>1, <1>7, <1>8, <1>9
  <2>2. CASE j # 1
    <3>. DEFINE h == j - 1
    <3>1. j \in 2 .. Len(r) /\ j \in 2 .. Len(used_) /\ h \in 1 .. Len(r)
      BY <2>2, <1>1, <1>2
    <3>2. /\ q[j] = IF h < i THEN r[h] ELSE r[j]
          /\ u[j] = IF h < i THEN used_[h] ELSE used_[j]
      BY <3>1, <1>7, <1>8
    <3>. HIDE DEF h
    <3>. QED
      BY <3>1, <3>2, <1>9
  <2>. QED
    BY <2>1, <2>2
<1>11. Kept(u, capacity) = Kept(used_, capacity)
  BY <1>8 DEF Kept
<1>12. Recent(v, new, capacity, q)
  BY <1>2, <1>5, <1>6, <1>7, <1>10, <1>11 DEF Recent
<1>. QED
  BY <1>5, <1>12 DEF q, u

\* The nodes r have the first keys of used_.
InOrder(value, used_, r) == Len(r) <= Len(used_) /\ \A i \in 1 .. Len(r) : value[r[i]].key = used_[i]

\* A key that is not found among the first n comes before them.
LEMMA TouchedPlaces ==
    ASSUME NEW used_ \in Seq(Keys), Distinct(used_), NEW k \in Keys, NEW new, Touched(used_, k, new),
           NEW n \in 0 .. Len(used_), \A j \in 1 .. n : used_[j] # k
    PROVE  /\ Len(new) \in Nat /\ n + 1 <= Len(new) /\ new[1] = k /\ \A j \in 2 .. n + 1 : new[j] = used_[j - 1]
           /\ Len(new) = Len(used_) + 1 \/ (Len(new) = Len(used_) /\ n < Len(used_))
<1>0. Len(used_) \in Nat /\ used_ \in Seq(Keys)
  OBVIOUS
<1>1. ASSUME k \notin ToSet(used_), new = Pushed(k, used_)
      PROVE  /\ Len(new) = Len(used_) + 1 /\ new[1] = k
             /\ \A j \in 2 .. Len(used_) + 1 : new[j] = used_[j - 1]
  <2>. DEFINE p == Pushed(k, used_)
  <2>1. Len(p) = Len(used_) + 1
    BY <1>0, PushedIs
  <2>2. p[1] = k
    BY <1>0, PushedIs
  <2>3. \A j \in 2 .. Len(used_) + 1 : p[j] = used_[j - 1]
    BY <1>0, PushedIs
  <2>. QED
    BY <1>1, <2>1, <2>2, <2>3
<1>2. ASSUME NEW i \in 1 .. Len(used_), used_[i] = k, new = Moved(used_, i)
      PROVE  /\ Len(new) = Len(used_) /\ n < Len(used_) /\ new[1] = k
             /\ \A j \in 2 .. n + 1 : new[j] = used_[j - 1]
  <2>1. n < i
    BY <1>2
  <2>2. /\ Len(new) = Len(used_) /\ new[1] = k
        /\ \A j \in 2 .. Len(used_) : new[j] = IF j - 1 < i THEN used_[j - 1] ELSE used_[j]
    BY <1>2, <1>0, MovedPlaces
  <2>3. \A j \in 2 .. n + 1 : j \in 2 .. Len(used_) /\ j - 1 < i
    BY <2>1, <1>0
  <2>. QED
    BY <2>1, <2>2, <2>3, <1>0
<1>3. CASE k \notin ToSet(used_) /\ new = Pushed(k, used_)
  BY <1>0, <1>1, <1>3
<1>4. CASE \E i \in 1 .. Len(used_) : used_[i] = k /\ new = Moved(used_, i)
  <2>1. PICK i \in 1 .. Len(used_) : used_[i] = k /\ new = Moved(used_, i)
    BY <1>4
  <2>2. Len(new) = Len(used_) /\ n < Len(used_) /\ new[1] = k /\ \A j \in 2 .. n + 1 : new[j] = used_[j - 1]
    BY <1>2, <2>1
  <2>. QED
    BY <1>0, <2>2
<1>. QED
  BY <1>3, <1>4 DEF Touched

NoEntry(value, r, k) == \A x \in ToSet(r) : value[x].key # k
Grown(r, capacity) == IF Len(r) < capacity THEN Len(r) + 1 ELSE capacity

\* A key that is not found comes first, in a node of its own.
LEMMA MissInOrder ==
    ASSUME NEW value, NEW used_, NEW capacity \in Nat, NEW r \in Seq(Nodes), Recent(value, used_, capacity, r),
           ToSet(r) \subseteq DOMAIN value, NEW k \in Keys, NoEntry(value, r, k),
           NEW n \in Nodes, n \notin ToSet(r), NEW e, e.key = k, NEW v, v = With(value, n, e),
           NEW new, Touched(used_, k, new)
    PROVE  /\ InOrder(v, new, Pushed(n, r)) /\ new \in Seq(Keys) /\ Distinct(new)
           /\ Kept(new, capacity) = Grown(r, capacity) /\ Len(r) <= capacity
<1>. DEFINE p == Pushed(n, r)
<1>1. used_ \in Seq(Keys) /\ Distinct(used_) /\ Len(r) \in Nat /\ Len(used_) \in Nat
      /\ \A j \in 1 .. Len(r) : value[r[j]].key = used_[j]
  BY DEF Recent
<1>2. Len(r) = Kept(used_, capacity) /\ Len(r) \in 0 .. Len(used_) /\ Len(r) <= capacity
  BY <1>1 DEF Recent, Kept
<1>3. \A j \in 1 .. Len(r) : r[j] \in ToSet(r) /\ r[j] # n
  BY ElementsOf
<1>4. \A j \in 1 .. Len(r) : used_[j] # k
  BY <1>1, <1>3 DEF NoEntry
<1>5. /\ Len(new) \in Nat /\ Len(r) + 1 <= Len(new) /\ new[1] = k /\ \A j \in 2 .. Len(r) + 1 : new[j] = used_[j - 1]
      /\ Len(new) = Len(used_) + 1 \/ (Len(new) = Len(used_) /\ Len(r) < Len(used_))
  BY <1>1, <1>2, <1>4, TouchedPlaces
<1>6. new \in Seq(Keys) /\ Distinct(new)
  BY <1>1, TouchedIs
<1>7. v[n].key = k /\ \A j \in 1 .. Len(r) : v[r[j]].key = used_[j]
  BY <1>1, <1>3 DEF With
<1>8. Len(p) = Len(r) + 1 /\ p[1] = n /\ \A j \in 2 .. Len(r) + 1 : p[j] = r[j - 1]
  BY PushedIs
<1>. HIDE DEF p
<1>9. ASSUME NEW j \in 1 .. Len(p) PROVE v[p[j]].key = new[j]
  <2>1. CASE j = 1
    BY <2>1, <1>5, <1>7, <1>8
  <2>2. CASE j # 1
    <3>. DEFINE h == j - 1
    <3>1. j \in 2 .. Len(r) + 1 /\ h \in 1 .. Len(r)
      BY <2>2, <1>1, <1>8
    <3>2. p[j] = r[h] /\ new[j] = used_[h]
      BY <3>1, <1>5, <1>8
    <3>. HIDE DEF h
    <3>. QED
      BY <3>1, <3>2, <1>7
  <2>. QED
    BY <2>1, <2>2
<1>10. InOrder(v, new, p)
  BY <1>5, <1>8, <1>9 DEF InOrder
<1>11. Kept(new, capacity) = Grown(r, capacity)
  <2>1. CASE Len(r) < capacity
    BY <2>1, <1>1, <1>2, <1>5 DEF Kept, Grown
  <2>2. CASE ~(Len(r) < capacity)
    BY <2>2, <1>1, <1>2, <1>5 DEF Kept, Grown
  <2>. QED
    BY <2>1, <2>2
<1>. QED
  BY <1>2, <1>6, <1>10, <1>11 DEF p

-----------------------------------------------------------------------------
(* The invariant and the steps.                                            *)

\* There is a ring such that the cache holds its nodes, in the table too, and
\* these are the nodes of the keys used last, in their order.
CacheInv ==
    /\ capacity_ \in 0 .. MaxCapacity
    /\ \E r : Holds(lru_, ht_, second, r) /\ Recent(lru_.value, used, capacity_, r)

\* The value of k is v now, and no other has changed.
Wrote(value, new, k, v) ==
    \E n \in DOMAIN new :
       /\ new[n] = [key |-> k, val |-> v]
       /\ \A x \in DOMAIN new \ {n} : x \in DOMAIN value /\ new[x] = value[x]

Written(w, u, n, e) == u = [w EXCEPT !.value[n] = e]

\* What a new value makes of a ring.
LEMMA WrittenIs ==
    ASSUME NEW w \in RingMemories, NEW r, Ring(w, r), NEW n \in DOMAIN w.value, NEW e \in [key : Keys, val : Values],
           NEW u, Written(w, u, n, e)
    PROVE  /\ u \in RingMemories /\ Ring(u, r) /\ u.next = w.next
           /\ DOMAIN u.value = DOMAIN w.value /\ u.value[n] = e
           /\ \A x \in DOMAIN w.value : x # n => u.value[x] = w.value[x]
<1>1. DOMAIN w = {"next", "prev", "value"} /\ w = [next |-> w.next, prev |-> w.prev, value |-> w.value]
  BY RingFields
<1>2. /\ u.next = w.next /\ u.prev = w.prev /\ u.value = [w.value EXCEPT ![n] = e]
      /\ DOMAIN u = {"next", "prev", "value"}
  BY <1>1 DEF Written
<1>3. u = [next |-> u.next, prev |-> u.prev, value |-> u.value]
  BY <1>1, <1>2 DEF Written
<1>4. PICK D \in SUBSET Nodes : w.next \in [D \cup {Dummy} -> Nodes \cup {Dummy, Null}]
  BY DEF RingMemories
<1>5. PICK V \in SUBSET Nodes : w.value \in [V -> [key : Keys, val : Values]]
  BY DEF RingMemories
<1>6. w.prev \in [D \cup {Dummy} -> Nodes \cup {Dummy, Null}]
  BY <1>4, RingMemoryHas DEF Ring
<1>7. u.value \in [V -> [key : Keys, val : Values]]
  BY <1>2, <1>5
<1>8. u \in RingMemories
  BY <1>2, <1>3, <1>4, <1>5, <1>6, <1>7, RingMemoryIs
<1>9. Ring(u, r)
  BY <1>2 DEF Ring
<1>10. /\ DOMAIN u.value = DOMAIN w.value /\ u.value[n] = e
       /\ \A x \in DOMAIN w.value : x # n => u.value[x] = w.value[x]
  BY <1>2, <1>5
<1>. QED
  BY <1>2, <1>8, <1>9, <1>10

\* Mapped is about keys alone.
LEMMA MappedSame ==
    ASSUME NEW value, NEW key, NEW second_, Mapped(value, key, second_), NEW v, DOMAIN v = DOMAIN value,
           \A x \in DOMAIN value : v[x].key = value[x].key
    PROVE  Mapped(v, key, second_)
BY DEF Mapped

LEMMA KeyEntry ==
    ASSUME NEW lru \in RingMemories, NEW x \in DOMAIN lru.value
    PROVE  lru.value[x] \in [key : Keys, val : Values] /\ lru.value[x].key \in Keys /\ lru.value[x].val \in Values
           /\ lru.value[x] = [key |-> lru.value[x].key, val |-> lru.value[x].val]
<1>1. lru.value[x] \in [key : Keys, val : Values]
  BY RingMemoryHas
<1>. QED
  BY <1>1

\* An entry that is found comes first.
LEMMA HitIs ==
    ASSUME NEW r, Holds(lru_, ht_, second, r), Recent(lru_.value, used, capacity_, r), capacity_ \in Nat,
           NEW k \in Keys, FindListNode(k) # Null, Use(k),
           NEW w, w = Find(FindListNode(k))
    PROVE  \E i \in 1 .. Len(r) :
              /\ FindListNode(k) = r[i] /\ lru_.value[r[i]].key = k
              /\ SameNodes(lru_, w) /\ Holds(w, ht_, second, Moved(r, i))
              /\ Recent(lru_.value, used', capacity_, Moved(r, i))
<1>1. PICK i \in 1 .. Len(r) : FindListNode(k) = r[i] /\ lru_.value[r[i]].key = k
  BY FindListNodeIs
<1>2. /\ lru_ \in RingMemories /\ Ring(lru_, r) /\ DOMAIN lru_.value = ToSet(r) /\ DOMAIN lru_.next = ToSet(r) \cup {Dummy}
      /\ ht_ \in Memories({Table}) /\ TableHeld(ht_) /\ Cardinality(DOMAIN ht_.key) = Len(r)
      /\ second \in Pointers /\ Mapped(lru_.value, ht_.key, second)
  BY DEF Holds
<1>3. w = AddToHead(RemoveNode(lru_, r[i]), Dummy, r[i])
  BY <1>1 DEF Find
<1>. DEFINE q == Moved(r, i)
<1>4. SameNodes(lru_, w) /\ Ring(w, q) /\ ToSet(q) = ToSet(r) /\ Len(q) = Len(r)
  BY <1>2, <1>3, MovedIs
<1>. HIDE DEF q
<1>5. w \in RingMemories /\ w.value = lru_.value /\ DOMAIN w.next = DOMAIN lru_.next
  BY <1>4 DEF SameNodes
<1>6. Holds(w, ht_, second, q)
  BY <1>2, <1>4, <1>5 DEF Holds
<1>7. Touched(used, k, used')
  <2>1. used \in Seq(Keys) /\ Distinct(used)
    BY DEF Recent
  <2>2. Touched(used, k, <<k>> \o RemoveFirst(used, k))
    BY <2>1, UseIs
  <2>. QED
    BY <2>2 DEF Use
<1>8. Recent(lru_.value, used', capacity_, q)
  <2>. DEFINE value == lru_.value
  <2>1. SameKeys(value, value, r) /\ Recent(value, used, capacity_, r) /\ value[r[i]].key = k /\ r \in Seq(Nodes)
    BY <1>1, <1>2 DEF SameKeys, Ring
  <2>. HIDE DEF value
  <2>2. Recent(value, used', capacity_, q)
    BY <1>7, <2>1, HitRecent DEF q
  <2>. QED
    BY <2>2 DEF value
<1>. QED
  BY <1>1, <1>4, <1>6, <1>8 DEF q

HasKey(value, k) == \E x \in DOMAIN value : value[x].key = k

LEMMA GetStep ==
    ASSUME CacheInv, NEW k \in Keys, Get(k)
    PROVE  CacheInv' /\ Use(k) /\ UNCHANGED capacity_ /\ lru_'.value = lru_.value /\ HasKey(lru_.value, k)
<1>1. PICK r : Holds(lru_, ht_, second, r) /\ Recent(lru_.value, used, capacity_, r)
  BY DEF CacheInv
<1>2. capacity_ \in 0 .. MaxCapacity /\ capacity_ \in Nat
  BY CacheAssumption DEF CacheInv
<1>3. /\ FindListNode(k) # Null /\ Use(k) /\ lru_' = Find(FindListNode(k))
      /\ ht_' = ht_ /\ second' = second /\ capacity_' = capacity_
  BY DEF Get
<1>4. PICK i \in 1 .. Len(r) :
              /\ FindListNode(k) = r[i] /\ lru_.value[r[i]].key = k
              /\ SameNodes(lru_, lru_') /\ Holds(lru_', ht_, second, Moved(r, i))
              /\ Recent(lru_.value, used', capacity_, Moved(r, i))
  BY <1>1, <1>2, <1>3, HitIs
<1>5. lru_'.value = lru_.value
  BY <1>4 DEF SameNodes
<1>6. CacheInv'
  BY <1>2, <1>3, <1>4, <1>5 DEF CacheInv
<1>7. r[i] \in DOMAIN lru_.value
  <2>1. r \in Seq(Nodes) /\ DOMAIN lru_.value = ToSet(r)
    BY <1>1 DEF Holds, Ring
  <2>. QED
    BY <2>1, ElementsOf
<1>. QED
  BY <1>3, <1>4, <1>5, <1>6, <1>7 DEF HasKey

LEMMA UpdateStep ==
    ASSUME CacheInv, NEW k \in Keys, NEW v \in Values, Update(k, v)
    PROVE  CacheInv' /\ Use(k) /\ UNCHANGED capacity_ /\ Wrote(lru_.value, lru_'.value, k, v)
<1>. DEFINE w == Find(FindListNode(k))
            e == [key |-> k, val |-> v]
<1>1. PICK r : Holds(lru_, ht_, second, r) /\ Recent(lru_.value, used, capacity_, r)
  BY DEF CacheInv
<1>2. capacity_ \in 0 .. MaxCapacity /\ capacity_ \in Nat
  BY CacheAssumption DEF CacheInv
<1>3. /\ FindListNode(k) # Null /\ Use(k)
      /\ lru_' = [w EXCEPT !.value[FindListNode(k)] = e]
      /\ ht_' = ht_ /\ second' = second /\ capacity_' = capacity_
  BY DEF Update
<1>4. e \in [key : Keys, val : Values] /\ e.key = k
  OBVIOUS
<1>5. w = Find(FindListNode(k))
  OBVIOUS
<1>. HIDE DEF w, e
<1>6. PICK i \in 1 .. Len(r) :
              /\ FindListNode(k) = r[i] /\ lru_.value[r[i]].key = k
              /\ SameNodes(lru_, w) /\ Holds(w, ht_, second, Moved(r, i))
              /\ Recent(lru_.value, used', capacity_, Moved(r, i))
  BY <1>1, <1>2, <1>3, <1>5, HitIs
<1>. DEFINE n == r[i]
            q == Moved(r, i)
<1>7. n \in ToSet(r) /\ DOMAIN lru_.value = ToSet(r)
  <2>1. r \in Seq(Nodes) /\ DOMAIN lru_.value = ToSet(r)
    BY <1>1 DEF Holds, Ring
  <2>. QED
    BY <2>1, ElementsOf
<1>8. w.value = lru_.value
  BY <1>6 DEF SameNodes
<1>9. /\ w \in RingMemories /\ Ring(w, q) /\ DOMAIN w.value = ToSet(q) /\ DOMAIN w.next = ToSet(q) \cup {Dummy}
      /\ ht_ \in Memories({Table}) /\ TableHeld(ht_) /\ Cardinality(DOMAIN ht_.key) = Len(q)
      /\ second \in Pointers /\ Mapped(w.value, ht_.key, second)
  BY <1>6 DEF Holds
<1>. HIDE DEF n, q
<1>10. n \in DOMAIN w.value /\ Written(w, lru_', n, e) /\ w.value[n].key = k
  BY <1>3, <1>6, <1>7, <1>8 DEF Written, n
<1>11. /\ lru_' \in RingMemories /\ Ring(lru_', q) /\ lru_'.next = w.next
       /\ DOMAIN lru_'.value = DOMAIN w.value /\ lru_'.value[n] = e
       /\ \A x \in DOMAIN w.value : x # n => lru_'.value[x] = w.value[x]
  BY <1>4, <1>9, <1>10, WrittenIs
<1>12. \A x \in DOMAIN w.value : lru_'.value[x].key = w.value[x].key
  BY <1>4, <1>10, <1>11
<1>13. Mapped(lru_'.value, ht_.key, second)
  <2>. DEFINE value == w.value
              new == lru_'.value
  <2>1. Mapped(value, ht_.key, second) /\ DOMAIN new = DOMAIN value /\ \A x \in DOMAIN value : new[x].key = value[x].key
    BY <1>9, <1>11, <1>12
  <2>. HIDE DEF value, new
  <2>2. Mapped(new, ht_.key, second)
    BY <2>1, MappedSame
  <2>. QED
    BY <2>2 DEF new
<1>14. Holds(lru_', ht_', second', q)
  BY <1>3, <1>9, <1>11, <1>13 DEF Holds
<1>15. Recent(lru_'.value, used', capacity_', q)
  <2>1. Recent(lru_.value, used', capacity_, q)
    BY <1>6 DEF q
  <2>2. \A j \in 1 .. Len(q) : q[j] \in ToSet(q)
    <3>1. q \in Seq(Nodes)
      BY <1>9 DEF Ring
    <3>. QED
      BY <3>1, ElementsOf
  <2>3. \A j \in 1 .. Len(q) : lru_'.value[q[j]].key = lru_.value[q[j]].key
    BY <1>8, <1>9, <1>12, <2>2
  <2>. QED
    BY <1>3, <2>1, <2>3 DEF Recent
<1>16. CacheInv'
  BY <1>2, <1>3, <1>14, <1>15 DEF CacheInv
<1>17. Wrote(lru_.value, lru_'.value, k, v)
  BY <1>8, <1>10, <1>11 DEF Wrote, e
<1>. QED
  BY <1>3, <1>16, <1>17

LEMMA TableSize ==
    ASSUME NEW lru, NEW ht, NEW second_, NEW r, Holds(lru, ht, second_, r)
    PROVE  ht.size[Table] = Len(r)
<1>1. ht \in Memories({Table}) /\ Cardinality(DOMAIN ht.key) = Len(r)
  BY DEF Holds
<1>2. PICK s : Held(ht, Table, s, FALSE) /\ DOMAIN ht.key = ToSet(s)
  BY DEF Holds, TableHeld
<1>3. s \in Seq(DOMAIN ht.key) /\ Distinct(s) /\ ht.size[Table] = Len(s)
  BY <1>2 DEF Held, Filed, ChainIs
<1>4. Cardinality(ToSet(s)) = Len(s)
  BY <1>3, DistinctCount
<1>. QED
  BY <1>1, <1>2, <1>3, <1>4

LEMMA LastOf ==
    ASSUME NEW mem, NEW r, Ring(mem, r), Len(r) # 0
    PROVE  Len(r) \in 1 .. Len(r) /\ mem.prev[Dummy] = r[Len(r)]
<1>1. Len(r) \in Nat /\ Near(r, Len(r) + 1) = Dummy /\ Len(r) \in 0 .. Len(r) /\ Len(r) \in 1 .. Len(r)
  BY NearIs
<1>2. Near(r, Len(r)) = r[Len(r)]
  BY <1>1 DEF Near
<1>3. mem.prev[Near(r, Len(r) + 1)] = Near(r, Len(r))
  BY <1>1 DEF Ring
<1>. QED
  BY <1>1, <1>2, <1>3

LEMMA AddStep ==
    ASSUME CacheInv, NEW k \in Keys, NEW v \in Values, Add(k, v)
    PROVE  CacheInv' /\ Use(k) /\ UNCHANGED capacity_ /\ (capacity_ > 0 => Wrote(lru_.value, lru_'.value, k, v))
<1>. DEFINE c == AddedEntry(k, v)
            n == Fresh(lru_, Nodes)
            e == [key |-> k, val |-> v]
            d == DestroyNode(c, c.lru.prev[Dummy])
            after == IF c.ht.size[Table] > capacity_ THEN d ELSE c
<1>1. PICK r : Holds(lru_, ht_, second, r) /\ Recent(lru_.value, used, capacity_, r)
  BY DEF CacheInv
<1>2. capacity_ \in 0 .. MaxCapacity /\ capacity_ \in Nat /\ capacity_ < Cardinality(Nodes)
  <2>1. Cardinality(Nodes) \in Nat
    BY TableAssumption, FS_CardinalityType
  <2>. QED
    BY <2>1, CacheAssumption DEF CacheInv
<1>3. /\ FindListNode(k) = Null /\ Use(k) /\ lru_' = after.lru /\ ht_' = after.ht /\ second' = after.second
      /\ capacity_' = capacity_
  BY DEF Add, AddedEntry, Entry
<1>. HIDE DEF c, n, e, d, after
<1>4. r \in Seq(Nodes) /\ ToSet(r) = DOMAIN lru_.value /\ Ring(lru_, r)
  BY <1>1 DEF Holds, Ring
<1>5. \A x \in ToSet(r) : lru_.value[x].key # k
  <2>1. \A i \in 1 .. Len(r) : r[i] # Null
    BY <1>4, NearIs
  <2>. QED
    BY <1>1, <1>3, <2>1, FindListNodeIs
<1>6. Touched(used, k, used')
  <2>1. used \in Seq(Keys) /\ Distinct(used)
    BY <1>1 DEF Recent
  <2>2. Touched(used, k, <<k>> \o RemoveFirst(used, k))
    BY <2>1, UseIs
  <2>. QED
    BY <1>3, <2>2 DEF Use
<1>7. Len(r) \in Nat /\ Len(r) <= capacity_
  <2>1. used \in Seq(Keys) /\ Len(r) = Kept(used, capacity_)
    BY <1>1 DEF Recent
  <2>. QED
    BY <1>2, <1>4, <2>1 DEF Kept
<1>8. /\ c \in Caches /\ n \in Nodes \ ToSet(r)
      /\ Holds(c.lru, c.ht, c.second, Pushed(n, r)) /\ c.lru.value = With(lru_.value, n, e)
  <2>1. Len(r) < Cardinality(Nodes)
    <3>1. Cardinality(Nodes) \in Nat
      BY TableAssumption, FS_CardinalityType
    <3>. QED
      BY <1>2, <1>7, <3>1
  <2>2. c = AddedEntry(k, v)
    BY DEF c
  <2>. QED
    BY <1>1, <1>5, <2>1, <2>2, AddedEntryIs DEF n, e
<1>9. e.key = k
  BY DEF e
<1>10. /\ InOrder(c.lru.value, used', Pushed(n, r)) /\ used' \in Seq(Keys) /\ Distinct(used')
       /\ Kept(used', capacity_) = Grown(r, capacity_)
  <2>. DEFINE value == lru_.value
              new == c.lru.value
  <2>1. /\ Recent(value, used, capacity_, r) /\ ToSet(r) \subseteq DOMAIN value /\ NoEntry(value, r, k)
        /\ n \in Nodes /\ n \notin ToSet(r) /\ new = With(value, n, e) /\ r \in Seq(Nodes) /\ k \in Keys /\ capacity_ \in Nat
    BY <1>1, <1>2, <1>4, <1>5, <1>8 DEF NoEntry
  <2>. HIDE DEF value, new
  <2>2. /\ InOrder(new, used', Pushed(n, r)) /\ used' \in Seq(Keys) /\ Distinct(used')
        /\ Kept(used', capacity_) = Grown(r, capacity_)
    BY <1>6, <1>9, <2>1, MissInOrder
  <2>. QED
    BY <2>2 DEF new
<1>. USE DEF Grown
<1>. DEFINE p == Pushed(n, r)
<1>11. p \in Seq(Nodes) /\ Len(p) = Len(r) + 1 /\ p[1] = n
  <2>1. n \in Nodes
    BY <1>8
  <2>. QED
    BY <1>4, <2>1, PushedIs
<1>. HIDE DEF p
<1>12. /\ Holds(c.lru, c.ht, c.second, p) /\ InOrder(c.lru.value, used', p) /\ c.ht.size[Table] = Len(p)
       /\ Ring(c.lru, p) /\ DOMAIN c.lru.value = ToSet(p)
  <2>1. Holds(c.lru, c.ht, c.second, p)
    BY <1>8 DEF p
  <2>2. c.ht.size[Table] = Len(p)
    BY <2>1, TableSize
  <2>. QED
    BY <1>10, <2>1, <2>2 DEF p, Holds
<1>13. /\ n \in DOMAIN c.lru.value /\ c.lru.value[n] = e
       /\ \A x \in DOMAIN c.lru.value \ {n} : x \in DOMAIN lru_.value /\ c.lru.value[x] = lru_.value[x]
  BY <1>8 DEF With
<1>14. CASE Len(r) < capacity_
  <2>1. after = c
    BY <1>2, <1>7, <1>11, <1>12, <1>14 DEF after
  <2>2. Recent(c.lru.value, used', capacity_, p)
    <3>1. Len(p) = Kept(used', capacity_)
      BY <1>10, <1>11, <1>14
    <3>. QED
      BY <3>1, <1>10, <1>12 DEF Recent, InOrder
  <2>3. CacheInv'
    BY <1>2, <1>3, <1>12, <2>1, <2>2 DEF CacheInv
  <2>4. Wrote(lru_.value, lru_'.value, k, v)
    BY <1>3, <1>13, <2>1 DEF Wrote, e
  <2>. QED
    BY <1>3, <2>3, <2>4
<1>15. CASE ~(Len(r) < capacity_)
  <2>. DEFINE l == Len(p)
              q == Without(p, l)
              z == p[l]
  <2>1. l \in 1 .. l /\ c.lru.prev[Dummy] = z /\ l \in Nat
    BY <1>7, <1>11, <1>12, LastOf
  <2>2. after = d
    BY <1>2, <1>7, <1>11, <1>12, <1>15 DEF after
  <2>3. d = DestroyNode(c, z)
    BY <2>1 DEF d
  <2>4. /\ d \in Caches /\ Holds(d.lru, d.ht, d.second, q)
        /\ ValuesBut(c.lru.value, d.lru.value, z)
    BY <1>8, <1>12, <2>1, <2>3, DestroyNodeIs
  <2>5. q \in Seq(Nodes) /\ Len(q) = l - 1 /\ \A j \in 1 .. l - 1 : q[j] = IF j < l THEN p[j] ELSE p[j + 1]
    BY <1>11, <2>1, WithoutIs
  <2>6. \A j \in 1 .. Len(q) : q[j] = p[j]
    BY <2>1, <2>5
  <2>7. Len(q) = capacity_ /\ Len(q) <= Len(p) /\ Len(r) = capacity_
    BY <1>2, <1>7, <1>11, <1>15, <2>5
  <2>8. DOMAIN d.lru.value = ToSet(q) /\ \A x \in ToSet(q) : d.lru.value[x] = c.lru.value[x]
    <3>1. DOMAIN d.lru.value = ToSet(q)
      BY <2>4 DEF Holds
    <3>. QED
      BY <3>1, <2>4 DEF ValuesBut
  <2>. HIDE DEF q, z
  <2>9. Recent(d.lru.value, used', capacity_, q)
    <3>1. \A j \in 1 .. Len(q) : q[j] \in ToSet(q)
      BY <2>5, ElementsOf
    <3>2. Len(q) = Kept(used', capacity_)
      BY <1>10, <1>15, <2>7
    <3>3. \A j \in 1 .. Len(q) : j \in 1 .. Len(p)
      BY <2>1, <2>5
    <3>. QED
      BY <1>10, <1>12, <2>6, <2>8, <3>1, <3>2, <3>3 DEF Recent, InOrder
  <2>10. CacheInv'
    BY <1>2, <1>3, <2>2, <2>4, <2>9 DEF CacheInv
  <2>11. ASSUME capacity_ > 0 PROVE Wrote(lru_.value, lru_'.value, k, v)
    <3>1. n \in DOMAIN d.lru.value
      <4>1. 1 \in 1 .. Len(q)
        BY <1>2, <2>7, <2>11
      <4>2. q[1] = n
        BY <1>11, <2>6, <4>1
      <4>3. q[1] \in ToSet(q)
        BY <2>5, <4>1, ElementsOf
      <4>. QED
        BY <2>8, <4>2, <4>3
    <3>2. \A x \in DOMAIN d.lru.value : x \in DOMAIN c.lru.value /\ d.lru.value[x] = c.lru.value[x]
      BY <2>4 DEF ValuesBut
    <3>3. lru_' = d.lru
      BY <1>3, <2>2
    <3>. QED
      BY <1>13, <3>1, <3>2, <3>3 DEF Wrote, e
  <2>. QED
    BY <1>3, <2>10, <2>11
<1>. QED
  BY <1>14, <1>15

\* Nothing used, nothing held.
LEMMA NothingRecent ==
    ASSUME NEW value, NEW capacity \in Nat
    PROVE  Recent(value, <<>>, capacity, <<>>)
<1>1. Len(<<>>) = 0 /\ 1 .. 0 = {} /\ <<>> \in Seq(Keys)
  OBVIOUS
<1>. QED
  BY <1>1 DEF Recent, Kept, Distinct

LEMMA DestroyStep ==
    ASSUME CacheInv, Destroy
    PROVE  CacheInv' /\ UNCHANGED capacity_ /\ used' = <<>>
<1>1. PICK r : Holds(lru_, ht_, second, r)
  BY DEF CacheInv
<1>2. capacity_ \in 0 .. MaxCapacity /\ capacity_ \in Nat
  BY CacheAssumption DEF CacheInv
<1>3. lru_' = Destroyed.lru /\ ht_' = Destroyed.ht /\ second' = Destroyed.second /\ used' = <<>> /\ capacity_' = capacity_
  BY DEF Destroy
<1>4. Holds(Destroyed.lru, Destroyed.ht, Destroyed.second, <<>>)
  BY <1>1, DestroyedIs
<1>5. Recent(lru_'.value, <<>>, capacity_, <<>>)
  BY <1>2, NothingRecent
<1>6. CacheInv'
  BY <1>2, <1>3, <1>4, <1>5 DEF CacheInv
<1>. QED
  BY <1>3, <1>6

LEMMA CacheInitHeld == CacheInit => CacheInv
<1>. SUFFICES ASSUME CacheInit PROVE CacheInv
  OBVIOUS
<1>. DEFINE ring == [d \in {Dummy} |-> Dummy]
            next == [t \in {Table} |-> Null]
            size == [t \in {Table} |-> 0]
            buckets == [t \in {Table} |-> alloc_buckets(min_bucket_size_)]
            none == <<>>
<1>1. /\ lru_ = [next |-> ring, prev |-> ring, value |-> <<>>]
      /\ ht_ = [next |-> next, key |-> <<>>, size |-> size, buckets |-> buckets]
      /\ second = <<>> /\ used = <<>> /\ capacity_ \in 0 .. MaxCapacity
  BY DEF CacheInit
<1>2. AllEmpty({Table}, alloc_buckets(min_bucket_size_))
  BY TableAssumption, AllocBucketsIs
<1>3. Len(none) = 0 /\ 1 .. 0 = {} /\ 0 .. 0 = {0} /\ none \in Seq(Nodes) /\ DOMAIN none = {} /\ ToSet(none) = {}
  BY DEF ToSet
<1>. HIDE DEF ring, next, size, buckets, none
<1>4. lru_.next = ring /\ lru_.prev = ring /\ lru_.value = <<>>
      /\ lru_ = [next |-> lru_.next, prev |-> lru_.prev, value |-> lru_.value]
  BY <1>1
<1>5. lru_ \in RingMemories
  <2>1. lru_.next \in [{} \cup {Dummy} -> Nodes \cup {Dummy, Null}] /\ lru_.prev \in [{} \cup {Dummy} -> Nodes \cup {Dummy, Null}]
    BY <1>4 DEF ring
  <2>2. lru_.value \in [{} -> [key : Keys, val : Values]]
    BY <1>4
  <2>3. {} \in SUBSET Nodes
    OBVIOUS
  <2>. QED
    BY <1>4, <2>1, <2>2, <2>3, RingMemoryIs
<1>6. Ring(lru_, none)
  <2>1. \A i \in 0 .. Len(none) + 1 : Near(none, i) = Dummy
    BY <1>3 DEF Near
  <2>2. DOMAIN lru_.next = {Dummy} /\ DOMAIN lru_.prev = {Dummy} /\ lru_.next[Dummy] = Dummy /\ lru_.prev[Dummy] = Dummy
    BY <1>4 DEF ring
  <2>3. Distinct(none)
    BY <1>3 DEF Distinct
  <2>. QED
    BY <1>3, <2>1, <2>2, <2>3 DEF Ring
<1>7. /\ ht_.next = next /\ ht_.key = <<>> /\ ht_.size = size /\ ht_.buckets = buckets
      /\ ht_ = [next |-> ht_.next, key |-> ht_.key, size |-> ht_.size, buckets |-> ht_.buckets]
  BY <1>1
<1>8. DOMAIN ht_.key = {} /\ ht_.key \in [DOMAIN ht_.key -> Keys] /\ DOMAIN ht_.key \subseteq Nodes
  BY <1>7
<1>9. ht_ \in Memories({Table})
  <2>1. ht_.size \in [{Table} -> Nat]
    BY <1>7 DEF size
  <2>2. ht_.buckets \in [{Table} -> Arrays({Table})]
    BY <1>2, <1>7 DEF buckets, AllEmpty
  <2>3. ht_.next \in [{Table} \cup DOMAIN ht_.key -> Nodes \cup {Null}]
    BY <1>7, <1>8 DEF next
  <2>. QED
    BY <1>7, <1>8, <2>1, <2>2, <2>3, MemoryIs
<1>10. TableHeld(ht_)
  <2>1. ht_.size[Table] = 0 /\ ht_.next[Table] = Null /\ ht_.buckets[Table] = alloc_buckets(min_bucket_size_)
    BY <1>7 DEF size, next, buckets
  <2>2. Held(ht_, Table, <<>>, FALSE)
    BY <1>2, <2>1, EmptyHeld
  <2>. QED
    BY <1>3, <1>8, <2>2 DEF TableHeld, none
<1>11. second \in Pointers /\ DOMAIN second = {}
  <2>1. second \in [{} -> Nodes] /\ {} \in SUBSET Nodes
    BY <1>1
  <2>. QED
    BY <2>1 DEF Pointers
<1>12. DOMAIN lru_.value = {}
  BY <1>4
<1>13. Mapped(lru_.value, ht_.key, second)
  BY <1>8, <1>11, <1>12 DEF Mapped
<1>14. Cardinality(DOMAIN ht_.key) = Len(none)
  BY <1>3, <1>8, FS_EmptySet
<1>15. DOMAIN lru_.next = ToSet(none) \cup {Dummy}
  BY <1>3, <1>4 DEF ring
<1>16. Holds(lru_, ht_, second, none)
  BY <1>3, <1>5, <1>6, <1>9, <1>10, <1>11, <1>12, <1>13, <1>14, <1>15 DEF Holds
<1>17. Recent(lru_.value, used, capacity_, none)
  <2>1. capacity_ \in Nat
    BY <1>1, CacheAssumption
  <2>. QED
    BY <1>1, <2>1, NothingRecent DEF none
<1>. QED
  BY <1>1, <1>16, <1>17 DEF CacheInv

LEMMA CacheStep == CacheInv /\ [CacheNext]_vars => CacheInv'
<1>. SUFFICES ASSUME CacheInv, [CacheNext]_vars PROVE CacheInv'
  OBVIOUS
<1>1. CASE Destroy
  BY <1>1, DestroyStep
<1>2. ASSUME NEW k \in Keys, Get(k) PROVE CacheInv'
  BY <1>2, GetStep
<1>3. ASSUME NEW k \in Keys, NEW v \in Values, Update(k, v) PROVE CacheInv'
  BY <1>3, UpdateStep
<1>4. ASSUME NEW k \in Keys, NEW v \in Values, Add(k, v) PROVE CacheInv'
  BY <1>4, AddStep
<1>5. CASE UNCHANGED vars
  BY <1>5 DEF vars, CacheInv
<1>. QED
  BY <1>1, <1>2, <1>3, <1>4, <1>5 DEF CacheNext

-----------------------------------------------------------------------------
(* What the invariant says.                                                *)

LEMMA NoKeys ==
    ASSUME NEW S, NEW D, D = {}, NEW f \in [D -> S]
    PROVE  f = <<>>
<1>1. f \in [{} -> S] /\ <<>> \in [{} -> S]
  OBVIOUS
<1>2. f = [x \in {} |-> f[x]]
  BY <1>1
<1>3. <<>> = [x \in {} |-> f[x]]
  OBVIOUS
<1>. QED
  BY <1>2, <1>3

LEMMA HeldAgree == CacheInv => ListAndTableAgree
<1>. SUFFICES ASSUME CacheInv PROVE ListAndTableAgree
  OBVIOUS
<1>1. PICK r : Holds(lru_, ht_, second, r) /\ Recent(lru_.value, used, capacity_, r)
  BY DEF CacheInv
<1>2. capacity_ \in Nat
  BY CacheAssumption DEF CacheInv
<1>3. /\ lru_ \in RingMemories /\ Ring(lru_, r) /\ DOMAIN lru_.value = ToSet(r) /\ DOMAIN lru_.next = ToSet(r) \cup {Dummy}
      /\ DOMAIN second = DOMAIN ht_.key
      /\ \A x, y \in ToSet(r) : lru_.value[x].key = lru_.value[y].key => x = y
  BY <1>1 DEF Holds, Mapped
<1>4. Entries(lru_) = r
  BY <1>3, EntriesIs
<1>5. r \in Seq(Nodes) /\ Len(r) \in Nat /\ ToSet(r) = {r[j] : j \in 1 .. Len(r)}
  <2>1. r \in Seq(Nodes)
    BY <1>3 DEF Ring
  <2>. QED
    BY <2>1, ElementsOf
<1>6. ASSUME NEW n \in ToSet(r) \cup {Dummy} PROVE lru_.next[n] # Null /\ lru_.prev[lru_.next[n]] = n
  <2>1. PICK j \in 0 .. Len(r) : n = Near(r, j)
    <3>1. CASE n = Dummy
      <4>1. 0 \in 0 .. Len(r) /\ Near(r, 0) = Dummy
        BY <1>3, <1>5, NearIs
      <4>. QED
        BY <3>1, <4>1
    <3>2. CASE n # Dummy
      <4>1. PICK j \in 1 .. Len(r) : n = r[j]
        BY <1>5, <3>2
      <4>2. Near(r, j) = n /\ j \in 0 .. Len(r)
        BY <1>3, <1>5, <4>1, NearIs
      <4>. QED
        BY <4>2
    <3>. QED
      BY <3>1, <3>2
  <2>2. lru_.next[n] = Near(r, j + 1) /\ lru_.prev[Near(r, j + 1)] = n
    BY <1>3, <2>1 DEF Ring
  <2>3. Near(r, j + 1) \in DOMAIN lru_.next
    <3>1. j + 1 \in 0 .. Len(r) + 1
      BY <1>5, <2>1
    <3>. QED
      BY <1>3, <3>1 DEF Ring
  <2>4. Null \notin DOMAIN lru_.next
    <3>1. DOMAIN lru_.next \subseteq Nodes \cup {Dummy}
      BY <1>3, RingMemoryHas
    <3>. QED
      BY <3>1, CacheAssumption, TableAssumption
  <2>. QED
    BY <2>2, <2>3, <2>4
<1>7. ASSUME NEW k \in Keys
      PROVE  {n \in ToSet(r) : lru_.value[n].key = k} = IF FindListNode(k) = Null THEN {} ELSE {FindListNode(k)}
  <2>. DEFINE at == {n \in ToSet(r) : lru_.value[n].key = k}
              f == FindListNode(k)
  <2>1. CASE f = Null /\ \A x \in ToSet(r) : lru_.value[x].key # k
    BY <2>1
  <2>2. ASSUME NEW i \in 1 .. Len(r), f = r[i], lru_.value[r[i]].key = k PROVE f # Null /\ at = {f}
    <3>1. f \in ToSet(r) /\ f # Null
      BY <1>3, <1>5, <2>2, NearIs
    <3>2. \A x \in ToSet(r) : lru_.value[x].key = k => x = f
      BY <1>3, <2>2, <3>1
    <3>. QED
      BY <2>2, <3>1, <3>2
  <2>3. \/ f = Null /\ \A x \in ToSet(r) : lru_.value[x].key # k
        \/ \E i \in 1 .. Len(r) : f = r[i] /\ lru_.value[r[i]].key = k
    BY <1>1, FindListNodeIs
  <2>. HIDE DEF at, f
  <2>4. CASE \E i \in 1 .. Len(r) : f = r[i] /\ lru_.value[r[i]].key = k
    <3>1. f # Null /\ at = {f}
      BY <2>2, <2>4
    <3>. QED
      BY <3>1 DEF at, f
  <2>. QED
    BY <2>1, <2>3, <2>4
<1>8. ht_.size[Table] = Len(r)
  BY <1>1, TableSize
<1>9. Len(r) <= capacity_
  <2>1. used \in Seq(Keys) /\ Len(r) = Kept(used, capacity_)
    BY <1>1 DEF Recent
  <2>. QED
    BY <1>2, <2>1 DEF Kept
<1>10. Destroyed.lru.value = <<>> /\ Destroyed.ht.key = <<>>
  <2>. DEFINE d == Destroyed
  <2>1. Holds(d.lru, d.ht, d.second, <<>>)
    BY <1>1, DestroyedIs
  <2>. HIDE DEF d
  <2>2. ToSet(<<>>) = {} /\ Len(<<>>) = 0
    BY DEF ToSet
  <2>3. /\ d.lru \in RingMemories /\ DOMAIN d.lru.value = {}
        /\ d.ht \in Memories({Table}) /\ Cardinality(DOMAIN d.ht.key) = 0
    BY <2>1, <2>2 DEF Holds
  <2>4. d.lru.value \in [DOMAIN d.lru.value -> [key : Keys, val : Values]]
    BY <2>3, RingMemoryHas
  <2>5. d.ht.key \in [DOMAIN d.ht.key -> Keys] /\ IsFiniteSet(DOMAIN d.ht.key)
    BY <2>3, TableIsHead, MemoryHas
  <2>6. DOMAIN d.ht.key = {}
    BY <2>3, <2>5, FS_EmptySet
  <2>7. d.lru.value = <<>> /\ d.ht.key = <<>>
    BY <2>3, <2>4, <2>5, <2>6, NoKeys
  <2>. QED
    BY <2>7 DEF d
<1>11. /\ \A n \in ToSet(r) \cup {Dummy} : lru_.next[n] /= Null /\ lru_.prev[lru_.next[n]] = n
       /\ \A k \in Keys : {n \in ToSet(r) : lru_.value[n].key = k} = IF FindListNode(k) = Null THEN {} ELSE {FindListNode(k)}
  BY <1>6, <1>7
<1>. QED
  BY <1>3, <1>4, <1>8, <1>9, <1>10, <1>11 DEF ListAndTableAgree

-----------------------------------------------------------------------------
(* The cache implements Recency.                                           *)

KeysHeld(value) == {value[x].key : x \in DOMAIN value}
Record(value, k) == value[CHOOSE n \in DOMAIN value : value[n].key = k].val
ValuesIn(lru) == [k \in ToSet(KeysIn(lru)) |-> Record(lru.value, k)]
FirstOf(used_, capacity) == SubSeq(used_, 1, Kept(used_, capacity))

\* What the cache holds are the keys used last.
LEMMA CachedIs ==
    ASSUME NEW lru, NEW ht, NEW second_, NEW r, Holds(lru, ht, second_, r), NEW used_, NEW capacity \in Nat,
           Recent(lru.value, used_, capacity, r)
    PROVE  /\ KeysIn(lru) = FirstOf(used_, capacity) /\ KeysIn(lru) \in Seq(Keys)
           /\ Len(KeysIn(lru)) = Len(r) /\ ToSet(KeysIn(lru)) = KeysHeld(lru.value)
<1>1. lru \in RingMemories /\ Ring(lru, r) /\ DOMAIN lru.value = ToSet(r)
  BY DEF Holds
<1>2. Entries(lru) = r
  BY <1>1, EntriesIs
<1>3. r \in Seq(Nodes) /\ Len(r) \in Nat /\ DOMAIN r = 1 .. Len(r) /\ ToSet(r) = {r[j] : j \in 1 .. Len(r)}
  <2>1. r \in Seq(Nodes)
    BY <1>1 DEF Ring
  <2>2. Len(r) \in Nat
    BY <2>1
  <2>3. DOMAIN r = 1 .. Len(r)
    BY <2>1
  <2>. QED
    BY <2>1, <2>2, <2>3, ElementsOf
<1>. DEFINE q == KeysIn(lru)
<1>4. q = [i \in 1 .. Len(r) |-> lru.value[r[i]].key]
  BY <1>2, <1>3 DEF KeysIn
<1>5. used_ \in Seq(Keys) /\ Len(r) = Kept(used_, capacity) /\ \A i \in 1 .. Len(r) : lru.value[r[i]].key = used_[i]
  BY DEF Recent
<1>6. Len(r) \in 0 .. Len(used_) /\ Len(used_) \in Nat
  BY <1>3, <1>5 DEF Kept
<1>7. \A i \in 1 .. Len(r) : used_[i] \in Keys
  BY <1>5, <1>6
<1>. HIDE DEF q
<1>8. q \in [1 .. Len(r) -> Keys] /\ \A i \in 1 .. Len(r) : q[i] = used_[i]
  BY <1>4, <1>5, <1>7
<1>9. q \in Seq(Keys) /\ Len(q) = Len(r)
  BY <1>3, <1>8
<1>10. q = FirstOf(used_, capacity)
  <2>. DEFINE f == SubSeq(used_, 1, Len(r))
  <2>1. f \in Seq(Keys) /\ Len(f) = Len(r) /\ \A i \in 1 .. Len(r) : f[i] = used_[i]
    <3>1. \A i \in 1 .. Len(r) : used_[i] \in Keys
      BY <1>7
    <3>. QED
      BY <3>1, <1>3, <1>5, <1>6, SubSeqProperties
  <2>. HIDE DEF f
  <2>2. q = f
    BY <1>8, <1>9, <2>1, SeqSame
  <2>. QED
    BY <1>5, <2>2 DEF f, FirstOf
<1>11. ToSet(q) = KeysHeld(lru.value)
  <2>1. ToSet(q) = {q[i] : i \in 1 .. Len(r)}
    BY <1>9, ElementsOf
  <2>2. \A i \in 1 .. Len(r) : q[i] = lru.value[r[i]].key
    BY <1>4
  <2>. QED
    BY <1>1, <1>3, <2>1, <2>2 DEF KeysHeld
<1>. QED
  BY <1>9, <1>10, <1>11 DEF q

\* A key has the value of its one node.
LEMMA RecordIs ==
    ASSUME NEW lru, NEW ht, NEW second_, NEW r, Holds(lru, ht, second_, r), NEW x \in DOMAIN lru.value
    PROVE  Record(lru.value, lru.value[x].key) = lru.value[x].val
<1>1. \A y \in DOMAIN lru.value : lru.value[y].key = lru.value[x].key => y = x
  BY DEF Holds, Mapped
<1>2. (CHOOSE n \in DOMAIN lru.value : lru.value[n].key = lru.value[x].key) = x
  BY <1>1
<1>. QED
  BY <1>2 DEF Record

\* The value of k, which the cache may have forgotten at once, has been set.
ValueSet(lru, new, k, v) ==
    ValuesIn(new) = [j \in ToSet(KeysIn(new)) |-> IF j = k THEN v ELSE ValuesIn(lru)[j]]

LEMMA ValueSetIs ==
    ASSUME NEW lru, NEW ht, NEW second_, NEW r, Holds(lru, ht, second_, r), ToSet(KeysIn(lru)) = KeysHeld(lru.value),
           NEW new, NEW h, NEW s, NEW q, Holds(new, h, s, q), ToSet(KeysIn(new)) = KeysHeld(new.value),
           NEW k, NEW v, Wrote(lru.value, new.value, k, v) \/ DOMAIN new.value = {}
    PROVE  ValueSet(lru, new, k, v)
<1>. SUFFICES ASSUME NEW j \in ToSet(KeysIn(new)) PROVE Record(new.value, j) = IF j = k THEN v ELSE ValuesIn(lru)[j]
  BY DEF ValueSet, ValuesIn
<1>1. PICK x \in DOMAIN new.value : new.value[x].key = j
  BY DEF KeysHeld
<1>2. Record(new.value, j) = new.value[x].val
  BY <1>1, RecordIs
<1>3. PICK n \in DOMAIN new.value :
              /\ new.value[n] = [key |-> k, val |-> v]
              /\ \A y \in DOMAIN new.value \ {n} : y \in DOMAIN lru.value /\ new.value[y] = lru.value[y]
  BY <1>1 DEF Wrote
<1>4. new.value[n].key = k /\ new.value[n].val = v
  BY <1>3
<1>5. CASE x = n
  BY <1>1, <1>2, <1>4, <1>5
<1>6. CASE x # n
  <2>1. x \in DOMAIN lru.value /\ new.value[x] = lru.value[x]
    BY <1>3, <1>6
  <2>2. j # k
    BY <1>1, <1>4, <1>6 DEF Holds, Mapped
  <2>3. Record(lru.value, j) = lru.value[x].val
    <3>1. lru.value[x].key = j
      BY <1>1, <2>1
    <3>. QED
      BY <2>1, <3>1, RecordIs
  <2>4. j \in ToSet(KeysIn(lru))
    BY <1>1, <2>1 DEF KeysHeld
  <2>5. ValuesIn(lru)[j] = lru.value[x].val
    BY <2>3, <2>4 DEF ValuesIn
  <2>. QED
    BY <1>2, <2>1, <2>2, <2>5
<1>. QED
  BY <1>5, <1>6

HeldBy(lru, ht, second_, used_, capacity) ==
    /\ capacity \in Nat
    /\ \E r : Holds(lru, ht, second_, r) /\ Recent(lru.value, used_, capacity, r)

LEMMA HeldCached ==
    ASSUME NEW lru, NEW ht, NEW second_, NEW used_, NEW capacity, HeldBy(lru, ht, second_, used_, capacity)
    PROVE  KeysIn(lru) = FirstOf(used_, capacity) /\ ToSet(KeysIn(lru)) = KeysHeld(lru.value)
BY CachedIs DEF HeldBy

\* An empty cache, and one without room, has no keys.
LEMMA NoneCached ==
    ASSUME NEW lru, NEW ht, NEW second_, NEW used_, NEW capacity, HeldBy(lru, ht, second_, used_, capacity),
           capacity = 0 \/ used_ = <<>>
    PROVE  KeysIn(lru) = <<>> /\ ValuesIn(lru) = <<>> /\ DOMAIN lru.value = {}
<1>1. PICK r : Holds(lru, ht, second_, r) /\ Recent(lru.value, used_, capacity, r)
  BY DEF HeldBy
<1>2. capacity \in Nat /\ used_ \in Seq(Keys) /\ Len(r) = Kept(used_, capacity)
  BY <1>1 DEF HeldBy, Recent
<1>3. Len(r) = 0
  BY <1>2 DEF Kept
<1>4. KeysIn(lru) \in Seq(Keys) /\ Len(KeysIn(lru)) = Len(r) /\ ToSet(KeysIn(lru)) = KeysHeld(lru.value)
  BY <1>1, <1>2, CachedIs
<1>5. KeysIn(lru) = <<>>
  BY <1>3, <1>4
<1>6. ToSet(KeysIn(lru)) = {}
  BY <1>5 DEF ToSet
<1>7. DOMAIN lru.value = {}
  BY <1>4, <1>6 DEF KeysHeld
<1>8. ValuesIn(lru) = <<>>
  <2>1. ValuesIn(lru) = [x \in {} |-> Record(lru.value, x)]
    BY <1>6 DEF ValuesIn
  <2>. QED
    BY <2>1
<1>. QED
  BY <1>5, <1>7, <1>8

\* Recency has its own names for the operators on sequences.
LEMMA SameOperators ==
    /\ \A s : Order!ToSet(s) = ToSet(s)
    /\ \A s, k : Order!RemoveFirst(s, k) = RemoveFirst(s, k)
<1>1. \A s, i : Order!RemoveAt(s, i) = RemoveAt(s, i)
  BY DEF Order!RemoveAt, RemoveAt
<1>2. \A s, k : Order!RemoveFirst(s, k) = RemoveFirst(s, k)
  BY <1>1 DEF Order!RemoveFirst, RemoveFirst, Order!SelectInSeq, SelectInSeq, Order!Min, Min
<1>3. \A s : Order!ToSet(s) = ToSet(s)
  BY DEF Order!ToSet, ToSet
<1>. QED
  BY <1>2, <1>3

\* What Recency sees of the cache.
LEMMA Seen ==
    /\ [k \in ToSet(KeysIn(lru_)) |-> Recorded(k)] = ValuesIn(lru_)
    /\ [k \in ToSet(KeysIn(lru_)) |-> Recorded(k)]' = ValuesIn(lru_')
BY DEF Recorded, Record, ValuesIn

LEMMA RecencyStep ==
    ASSUME CacheInv, CacheInv', [CacheNext]_vars
    PROVE  [Order!Next]_(Order!vars)
<1>. DEFINE cached == KeysIn(lru_)
            cached2 == KeysIn(lru_')
            map == ValuesIn(lru_)
            map2 == ValuesIn(lru_')
<1>1. HeldBy(lru_, ht_, second, used, capacity_)
  BY CacheAssumption DEF CacheInv, HeldBy
<1>2. HeldBy(lru_', ht_', second', used', capacity_')
  BY CacheAssumption DEF CacheInv, HeldBy
<1>3. ToSet(cached) = KeysHeld(lru_.value)
  BY <1>1, HeldCached
<1>4. cached2 = FirstOf(used', capacity_') /\ ToSet(cached2) = KeysHeld(lru_'.value)
  BY <1>2, HeldCached
<1>5. PICK r : Holds(lru_, ht_, second, r)
  BY <1>1 DEF HeldBy
<1>6. PICK q : Holds(lru_', ht_', second', q)
  BY <1>2 DEF HeldBy
<1>7. ASSUME NEW k \in Keys, Get(k) PROVE Order!Next
  <2>1. Use(k) /\ capacity_' = capacity_ /\ lru_'.value = lru_.value /\ HasKey(lru_.value, k)
    BY <1>7, GetStep
  <2>2. k \in ToSet(cached)
    BY <1>3, <2>1 DEF HasKey, KeysHeld
  <2>3. map2 = map
    BY <1>3, <1>4, <2>1 DEF ValuesIn
  <2>4. Order!Use(k)
    BY <1>4, <2>1, SameOperators DEF Order!Use, Use, FirstOf, Kept
  <2>5. Order!Get(k)
    BY <2>2, <2>3, Seen, SameOperators DEF Order!Get
  <2>. QED
    BY <2>1, <2>4, <2>5 DEF Order!Next
<1>8. ASSUME NEW k \in Keys, NEW v \in Values, Use(k), capacity_' = capacity_,
             Wrote(lru_.value, lru_'.value, k, v) \/ DOMAIN lru_'.value = {}
      PROVE  Order!Next
  <2>1. ValueSet(lru_, lru_', k, v)
    <3>. DEFINE lru == lru_
                new == lru_'
    <3>1. /\ Holds(lru, ht_, second, r) /\ ToSet(KeysIn(lru)) = KeysHeld(lru.value)
          /\ Holds(new, ht_', second', q) /\ ToSet(KeysIn(new)) = KeysHeld(new.value)
          /\ Wrote(lru.value, new.value, k, v) \/ DOMAIN new.value = {}
      BY <1>3, <1>4, <1>5, <1>6, <1>8
    <3>. HIDE DEF lru, new
    <3>2. ValueSet(lru, new, k, v)
      BY <3>1, ValueSetIs
    <3>. QED
      BY <3>2 DEF lru, new
  <2>2. map2 = [j \in ToSet(cached2) |-> IF j = k THEN v ELSE map[j]]
    BY <2>1 DEF ValueSet
  <2>3. Order!Use(k)
    BY <1>4, <1>8, SameOperators DEF Order!Use, Use, FirstOf, Kept
  <2>4. Order!Set(k)
    BY <2>2, Seen, SameOperators DEF Order!Set
  <2>. QED
    BY <1>8, <2>3, <2>4 DEF Order!Next
<1>9. ASSUME NEW k \in Keys, NEW v \in Values, Update(k, v) PROVE Order!Next
  BY <1>8, <1>9, UpdateStep
<1>10. ASSUME NEW k \in Keys, NEW v \in Values, Add(k, v) PROVE Order!Next
  <2>1. Use(k) /\ capacity_' = capacity_ /\ (capacity_ > 0 => Wrote(lru_.value, lru_'.value, k, v))
    BY <1>10, AddStep
  <2>2. CASE capacity_ > 0
    BY <1>8, <2>1, <2>2
  <2>3. CASE capacity_ = 0
    <3>1. DOMAIN lru_'.value = {}
      BY <1>2, <2>1, <2>3, NoneCached
    <3>. QED
      BY <1>8, <2>1, <3>1
  <2>4. capacity_ \in Nat
    BY <1>1 DEF HeldBy
  <2>. QED
    BY <2>2, <2>3, <2>4
<1>11. ASSUME Destroy PROVE Order!Next
  <2>1. capacity_' = capacity_ /\ used' = <<>>
    BY <1>11, DestroyStep
  <2>2. cached2 = <<>> /\ map2 = <<>>
    BY <1>2, <2>1, NoneCached
  <2>3. Order!Clear
    BY <2>1, <2>2, Seen DEF Order!Clear
  <2>. QED
    BY <2>1, <2>3 DEF Order!Next
<1>12. ASSUME UNCHANGED vars PROVE UNCHANGED Order!vars
  <2>1. lru_' = lru_ /\ used' = used /\ capacity_' = capacity_
    BY <1>12 DEF vars
  <2>2. map2 = map /\ cached2 = cached
    BY <2>1
  <2>. QED
    BY <2>1, <2>2, Seen DEF Order!vars
<1>. QED
  BY <1>7, <1>9, <1>10, <1>11, <1>12 DEF CacheNext

LEMMA RecencyInit == CacheInit => Order!Init
<1>. SUFFICES ASSUME CacheInit PROVE Order!Init
  OBVIOUS
<1>1. CacheInv /\ used = <<>> /\ capacity_ \in Nat
  BY CacheInitHeld, CacheAssumption DEF CacheInit
<1>2. HeldBy(lru_, ht_, second, used, capacity_)
  BY <1>1 DEF CacheInv, HeldBy
<1>3. KeysIn(lru_) = <<>> /\ ValuesIn(lru_) = <<>>
  BY <1>1, <1>2, NoneCached
<1>. QED
  BY <1>1, <1>3, Seen DEF Order!Init

-----------------------------------------------------------------------------
(* The theorems.                                                           *)

\* Whatever was read, set and destroyed, there is a ring such that the cache
\* holds its nodes, in the table too, and they are those of the keys used
\* last (lru_cache.h).
THEOREM CacheInvariant == CacheSpec => []CacheInv
<1>. QED
  BY CacheInitHeld, CacheStep, PTL DEF CacheSpec

\* The ring and the table are about the same entries, at most capacity_ of
\* them, and destruction frees all the nodes of both: for any capacity, keys
\* and values, after any number of evictions and rehashes (lru_cache.h).
THEOREM CacheAgrees == CacheSpec => []ListAndTableAgree
<1>. QED
  BY HeldAgree, CacheInvariant, PTL

\* The cache holds the entries used last, as many as it has room for, in the
\* order of their use, with the values they were set to last (lru_cache.h,
\* docs/lru.md): it implements Recency.
THEOREM CacheRecency == CacheSpec => ImplementsRecency
<1>1. CacheInv /\ CacheInv' /\ [CacheNext]_vars => [Order!Next]_(Order!vars)
  BY RecencyStep
<1>. QED
  BY <1>1, RecencyInit, CacheInvariant, PTL DEF CacheSpec, ImplementsRecency, Order!Spec

=============================================================================
