-------------------------- MODULE HashTableProofs --------------------------
(***************************************************************************)
(* What each operation of HashTable makes of the chain and the buckets of  *)
(* the table it is called for, and that it leaves the others alone, for    *)
(* every number and size of the tables.  BucketsExact and TableContents    *)
(* follow.                                                                 *)
(***************************************************************************)
EXTENDS HashTables, FiniteSetTheorems, SequenceTheorems, WellFoundedInduction, TLAPS

-----------------------------------------------------------------------------
(* Numbers and loops.                                                      *)

\* A non-empty set of naturals has a least element.
LEMMA LeastNat ==
    ASSUME NEW S \in SUBSET Nat, S # {}
    PROVE  \E n \in S : \A k \in S : n <= k
<1>. DEFINE T == {0 .. k : k \in S}
<1>1. IsWellFoundedOn(StrictSubsetOrdering(Nat), FiniteSubsetsOf(Nat))
  BY FS_StrictSubsetOrderingWellFounded
<1>2. T \subseteq FiniteSubsetsOf(Nat)
  <2>1. \A k \in Nat : IsFiniteSet(0 .. k)
    BY FS_Interval
  <2>2. \A k \in Nat : 0 .. k \in SUBSET Nat
    OBVIOUS
  <2>3. \A k \in Nat : 0 .. k \in FiniteSubsetsOf(Nat)
    BY <2>1, <2>2 DEF FiniteSubsetsOf
  <2>. QED
    BY <2>3
<1>3. T # {}
  OBVIOUS
<1>4. PICK x \in T : \A y \in T : ~(<<y, x>> \in StrictSubsetOrdering(Nat))
  BY <1>1, <1>2, <1>3, WFMin
<1>5. PICK n \in S : x = 0 .. n
  OBVIOUS
<1>6. \A k \in S : n <= k
  <2>. SUFFICES ASSUME NEW k \in S, k < n PROVE FALSE
    OBVIOUS
  <2>1. 0 .. k \subseteq 0 .. n /\ n \in 0 .. n /\ n \notin 0 .. k
    OBVIOUS
  <2>2. <<0 .. k, 0 .. n>> \in StrictSubsetOrdering(Nat)
    BY <2>1 DEF StrictSubsetOrdering
  <2>. QED
    BY <2>2, <1>4, <1>5
<1>. QED
  BY <1>6

\* What holds of f before the loop and is kept by each turn holds after it.
LEMMA LoopStays ==
    ASSUME NEW n \in Nat, NEW X, NEW f, f[0] \in X[0],
           \A i \in 1 .. n : f[i - 1] \in X[i - 1] => f[i] \in X[i]
    PROVE  \A i \in 0 .. n : f[i] \in X[i]
<1>. DEFINE W == {i \in 0 .. n : f[i] \notin X[i]}
<1>. SUFFICES ASSUME W # {} PROVE FALSE
  OBVIOUS
<1>0. W \in SUBSET Nat
  OBVIOUS
<1>1. PICK k \in W : \A j \in W : k <= j
  BY <1>0, LeastNat
<1>2. k # 0 /\ k - 1 \in 0 .. n /\ k \in 1 .. n /\ k - 1 < k
  BY <1>1
<1>3. k - 1 \notin W
  BY <1>1, <1>2
<1>. QED
  BY <1>1, <1>2, <1>3

\* f is n turns of a loop from x0, the i-th of which is G[i].
Turns(f, n, G, x0) == f = [i \in 0 .. n |-> IF i = 0 THEN x0 ELSE G[i][f[i - 1]]]

\* A loop has a run.
LEMMA LoopRuns ==
    ASSUME NEW n \in Nat, NEW G, NEW x0
    PROVE  \E f : Turns(f, n, G, x0)
<1>. DEFINE W == {k \in Nat : ~\E f : Turns(f, k, G, x0)}
<1>. SUFFICES ASSUME W # {} PROVE FALSE
  OBVIOUS
<1>1. PICK k \in W : \A j \in W : k <= j
  BY LeastNat
<1>2. k # 0
  <2>. DEFINE g == [i \in 0 .. 0 |-> x0]
  <2>1. Turns(g, 0, G, x0)
    BY DEF Turns
  <2>. HIDE DEF g
  <2>. QED
    BY <1>1, <2>1
<1>3. k - 1 \in Nat /\ k - 1 \notin W
  <2>1. k - 1 \in Nat /\ ~(k <= k - 1)
    BY <1>2
  <2>. HIDE DEF W
  <2>. QED
    BY <1>1, <2>1
<1>4. PICK f : Turns(f, k - 1, G, x0)
  BY <1>3
<1>. DEFINE g == [i \in 0 .. k |-> IF i = k THEN G[k][f[k - 1]] ELSE f[i]]
<1>5. \A i \in 0 .. k : g[i] = IF i = 0 THEN x0 ELSE G[i][g[i - 1]]
  <2>. SUFFICES ASSUME NEW i \in 0 .. k PROVE g[i] = IF i = 0 THEN x0 ELSE G[i][g[i - 1]]
    OBVIOUS
  <2>1. f = [j \in 0 .. k - 1 |-> IF j = 0 THEN x0 ELSE G[j][f[j - 1]]]
    BY <1>4 DEF Turns
  <2>2. CASE i = 0
    <3>1. 0 \in 0 .. k - 1 /\ 0 \in 0 .. k /\ k # 0
      BY <1>2, <1>3
    <3>2. f[0] = x0
      BY <2>1, <3>1
    <3>3. g[0] = f[0]
      BY <3>1
    <3>. QED
      BY <2>2, <3>2, <3>3
  <2>3. CASE i = k
    BY <1>2, <2>3
  <2>4. CASE i # 0 /\ i # k
    <3>1. i \in 0 .. k - 1 /\ i - 1 \in 0 .. k /\ i - 1 # k
      BY <2>4
    <3>2. g[i] = f[i] /\ g[i - 1] = f[i - 1]
      BY <2>4, <3>1
    <3>3. f[i] = G[i][f[i - 1]]
      BY <2>1, <2>4, <3>1
    <3>. QED
      BY <2>4, <3>2, <3>3
  <2>. QED
    BY <2>2, <2>3, <2>4
<1>6. Turns(g, k, G, x0)
  <2>1. g = [i \in 0 .. k |-> g[i]]
    OBVIOUS
  <2>. HIDE DEF g
  <2>. QED
    BY <1>5, <2>1 DEF Turns
<1>. HIDE DEF g
<1>. QED
  BY <1>1, <1>6

RunsInside(f, n, X, G, x0) ==
    /\ f = [i \in 0 .. n |-> IF i = 0 THEN x0 ELSE G[i][f[i - 1]]]
    /\ \A i \in 0 .. n : f[i] \in X[i]

\* A loop that keeps to X has a run that does.
LEMMA LoopInside ==
    ASSUME NEW n \in Nat, NEW X, NEW x0 \in X[0], NEW G,
           \A i \in 1 .. n : \A x \in X[i - 1] : G[i][x] \in X[i]
    PROVE  \E f : RunsInside(f, n, X, G, x0)
<1>1. PICK f : Turns(f, n, G, x0)
  BY LoopRuns
<1>2. f = [i \in 0 .. n |-> IF i = 0 THEN x0 ELSE G[i][f[i - 1]]]
  BY <1>1 DEF Turns
<1>3. f[0] \in X[0]
  BY <1>2
<1>4. \A i \in 1 .. n : f[i] = G[i][f[i - 1]]
  <2>1. \A i \in 1 .. n : i \in 0 .. n /\ i # 0
    OBVIOUS
  <2>. QED
    BY <1>2, <2>1
<1>5. \A i \in 0 .. n : f[i] \in X[i]
  BY <1>3, <1>4, LoopStays
<1>. QED
  BY <1>2, <1>5 DEF RunsInside

\* next2power is a number and not below its argument.
LEMMA NextPowerIs ==
    ASSUME NEW n \in Nat
    PROVE  next2power(n) \in Nat /\ n <= next2power(n)
<1>. DEFINE power == CHOOSE g : g = [k \in 0 .. n |-> IF k = 0 THEN 1 ELSE 2 * g[k - 1]]
            Enough(k) == n <= power[k] /\ (k = 0 \/ power[k - 1] < n)
<1>1. power = [k \in 0 .. n |-> IF k = 0 THEN 1 ELSE 2 * power[k - 1]]
  <2>. DEFINE G == [i \in 1 .. n |-> [x \in Nat |-> 2 * x]]
              X == [i \in 0 .. n |-> Nat]
  <2>1. PICK f : Turns(f, n, G, 1)
    BY LoopRuns
  <2>2. f = [i \in 0 .. n |-> IF i = 0 THEN 1 ELSE G[i][f[i - 1]]]
    BY <2>1 DEF Turns
  <2>3. f[0] \in X[0]
    BY <2>2
  <2>4. \A i \in 1 .. n : i \in 0 .. n /\ i - 1 \in 0 .. n /\ i # 0
    OBVIOUS
  <2>5. \A i \in 1 .. n : f[i] = G[i][f[i - 1]]
    BY <2>2, <2>4
  <2>6. ASSUME NEW i \in 1 .. n, f[i - 1] \in X[i - 1] PROVE f[i] \in X[i] /\ f[i] = 2 * f[i - 1]
    <3>1. X[i] = Nat /\ X[i - 1] = Nat /\ G[i] = [x \in Nat |-> 2 * x]
      BY <2>4
    <3>. HIDE DEF X, G
    <3>2. f[i] = 2 * f[i - 1] /\ f[i - 1] \in Nat
      BY <2>5, <2>6, <3>1
    <3>. QED
      BY <3>1, <3>2
  <2>7. \A i \in 0 .. n : f[i] \in X[i]
    <3>. HIDE DEF X, G
    <3>. QED
      BY <2>3, <2>6, LoopStays
  <2>8. \A i \in 1 .. n : f[i] = 2 * f[i - 1]
    <3>1. \A i \in 1 .. n : i - 1 \in 0 .. n
      OBVIOUS
    <3>. HIDE DEF X, G
    <3>. QED
      BY <2>6, <2>7, <3>1
  <2>9. f = [i \in 0 .. n |-> IF i = 0 THEN 1 ELSE 2 * f[i - 1]]
    <3>1. \A i \in 0 .. n : i # 0 => i \in 1 .. n
      OBVIOUS
    <3>2. \A i \in 0 .. n : f[i] = IF i = 0 THEN 1 ELSE 2 * f[i - 1]
      BY <2>2, <2>8, <3>1
    <3>3. f = [i \in 0 .. n |-> f[i]]
      BY <2>2
    <3>. HIDE DEF G
    <3>. QED
      BY <3>2, <3>3
  <2>. QED
    BY <2>9
<1>. HIDE DEF power
<1>2. \A k \in 0 .. n : power[k] \in Nat /\ k < power[k]
  <2>. DEFINE W == {k \in 0 .. n : ~(power[k] \in Nat /\ k < power[k])}
  <2>. SUFFICES ASSUME W # {} PROVE FALSE
    OBVIOUS
  <2>1. PICK k \in W : \A j \in W : k <= j
    <3>1. W \in SUBSET Nat
      OBVIOUS
    <3>. HIDE DEF W
    <3>. QED
      BY <3>1, LeastNat
  <2>2. power[0] = 1
    BY <1>1
  <2>3. k # 0 /\ k - 1 \in 0 .. n /\ k - 1 < k /\ k \in 0 .. n
    BY <2>1, <2>2
  <2>4. k - 1 \notin W
    BY <2>1, <2>3
  <2>5. power[k] = 2 * power[k - 1]
    BY <1>1, <2>3
  <2>. QED
    BY <2>1, <2>3, <2>4, <2>5
<1>3. \E k \in 0 .. n : Enough(k)
  <2>. DEFINE W == {k \in 0 .. n : n <= power[k]}
  <2>1. n \in W
    BY <1>2
  <2>2. PICK k \in W : \A j \in W : k <= j
    <3>1. W \in SUBSET Nat
      OBVIOUS
    <3>. HIDE DEF W
    <3>. QED
      BY <2>1, <3>1, LeastNat
  <2>3. k \in 0 .. n /\ n <= power[k]
    OBVIOUS
  <2>4. k = 0 \/ power[k - 1] < n
    <3>. SUFFICES ASSUME k # 0, ~(power[k - 1] < n) PROVE FALSE
      OBVIOUS
    <3>1. k - 1 \in 0 .. n /\ ~(k <= k - 1)
      BY <2>3
    <3>2. k - 1 \in W
      BY <1>2, <3>1
    <3>. HIDE DEF W
    <3>. QED
      BY <2>2, <3>1, <3>2
  <2>. QED
    BY <2>3, <2>4
<1>. DEFINE c == CHOOSE k \in 0 .. n : Enough(k)
<1>4. c \in 0 .. n /\ Enough(c)
  BY <1>3
<1>5. next2power(n) = power[c]
  BY DEF next2power, power
<1>. HIDE DEF c
<1>. QED
  BY <1>2, <1>4, <1>5

\* A sequence of distinct nodes is no longer than there are nodes.
LEMMA NoLonger ==
    ASSUME NEW S, IsFiniteSet(S), NEW n \in Nat, NEW s \in [1 .. n -> S],
           \A i, j \in 1 .. n : s[i] = s[j] => i = j
    PROVE  n <= Cardinality(S)
<1>1. IsFiniteSet(1 .. n) /\ Cardinality(1 .. n) = n
  <2>1. IsFiniteSet(1 .. n) /\ Cardinality(1 .. n) = IF 1 > n THEN 0 ELSE n - 1 + 1
    BY FS_Interval
  <2>. QED
    BY <2>1
<1>2. s \in Injection(1 .. n, S)
  BY DEF Injection, IsInjective
<1>. QED
  BY <1>1, <1>2, FS_Injection

-----------------------------------------------------------------------------
(* Chains.                                                                 *)

\* The nodes s are linked in this order, from first on, and end is behind them.
Linked(next, first, s, end) ==
    /\ \A i, j \in 1 .. Len(s) : s[i] = s[j] => i = j
    /\ first = (IF Len(s) = 0 THEN end ELSE s[1])
    /\ \A i \in 1 .. Len(s) : next[s[i]] = IF i = Len(s) THEN end ELSE s[i + 1]

\* A walk over linked nodes passes them all, in this order.
LEMMA SpanIs ==
    ASSUME NEW mem, IsFiniteSet(DOMAIN mem.next), NEW last, NEW s \in Seq(DOMAIN mem.next),
           NEW end \in {last, Null}, NEW first, Linked(mem.next, first, s, end),
           \A i \in 1 .. Len(s) : s[i] \notin {last, Null}
    PROVE  Span(mem, first, last) = s
<1>. DEFINE n == Cardinality(DOMAIN mem.next)
            l == Len(s)
            Body(f) == [i \in 0 .. n |->
                          IF i = 0 THEN first
                          ELSE LET node == f[i - 1] IN IF node \in {last, Null} THEN node ELSE mem.next[node]]
            at == CHOOSE f : f = Body(f)
            passed == {i \in 1 .. n : at[i - 1] \notin {last, Null}}
            g == [i \in 0 .. n |-> IF i < l THEN s[i + 1] ELSE end]
<1>1. n \in Nat /\ l \in Nat /\ l <= n
  <2>1. l \in Nat /\ s \in [1 .. l -> DOMAIN mem.next]
    OBVIOUS
  <2>2. n \in Nat
    BY FS_CardinalityType
  <2>. HIDE DEF l
  <2>3. \A i, j \in 1 .. l : s[i] = s[j] => i = j
    BY DEF Linked, l
  <2>4. l <= n
    BY <2>1, <2>3, NoLonger
  <2>. QED
    BY <2>1, <2>2, <2>4
<1>2. g = Body(g)
  <2>. SUFFICES ASSUME NEW i \in 0 .. n PROVE g[i] = Body(g)[i]
    OBVIOUS
  <2>1. CASE i = 0
    BY <1>1, <2>1 DEF Linked
  <2>2. CASE i # 0 /\ i - 1 < l
    <3>1. i - 1 \in 0 .. n /\ i \in 1 .. l
      BY <1>1, <2>2
    <3>2. g[i - 1] = s[i] /\ s[i] \notin {last, Null}
      BY <2>2, <3>1
    <3>3. mem.next[s[i]] = g[i]
      BY <1>1, <3>1 DEF Linked
    <3>. QED
      BY <2>2, <3>2, <3>3
  <2>3. CASE i # 0 /\ ~(i - 1 < l)
    <3>1. i - 1 \in 0 .. n /\ ~(i < l)
      BY <1>1, <2>3
    <3>2. g[i - 1] = end /\ g[i] = end
      BY <2>3, <3>1
    <3>. QED
      BY <2>3, <3>2
  <2>. QED
    BY <2>1, <2>2, <2>3
<1>. HIDE DEF g
<1>3. at = Body(at)
  BY <1>2
<1>. HIDE DEF at
<1>4. \A i \in 0 .. n : at[i] \in {g[i]}
  <2>. DEFINE X == [i \in 0 .. n |-> {g[i]}]
  <2>1. at[0] \in X[0]
    BY <1>1, <1>2, <1>3
  <2>2. \A i \in 1 .. n : at[i - 1] \in X[i - 1] => at[i] \in X[i]
    <3>. SUFFICES ASSUME NEW i \in 1 .. n, at[i - 1] = g[i - 1] PROVE at[i] = g[i]
      <4>. SUFFICES ASSUME NEW i \in 1 .. n, at[i - 1] \in X[i - 1] PROVE at[i] \in X[i]
        OBVIOUS
      <4>1. i \in 0 .. n /\ i - 1 \in 0 .. n
        BY <1>1
      <4>. QED
        BY <4>1
    <3>1. i \in 0 .. n /\ i # 0
      BY <1>1
    <3>2. at[i] = IF at[i - 1] \in {last, Null} THEN at[i - 1] ELSE mem.next[at[i - 1]]
      BY <1>3, <3>1
    <3>3. g[i] = IF g[i - 1] \in {last, Null} THEN g[i - 1] ELSE mem.next[g[i - 1]]
      BY <1>2, <3>1
    <3>. QED
      BY <3>2, <3>3
  <2>3. \A i \in 0 .. n : at[i] \in X[i]
    <3>. HIDE DEF X
    <3>. QED
      BY <1>1, <2>1, <2>2, LoopStays
  <2>. QED
    BY <2>3
<1>5. \A i \in 1 .. n : at[i - 1] = IF i <= l THEN s[i] ELSE end
  BY <1>1, <1>4 DEF g
<1>6. passed = 1 .. l
  BY <1>1, <1>5
<1>7. Span(mem, first, last) = [i \in passed |-> at[i - 1]]
  BY DEF Span, at
<1>. HIDE DEF passed
<1>8. [i \in passed |-> at[i - 1]] = [i \in 1 .. l |-> s[i]]
  BY <1>1, <1>5, <1>6
<1>. QED
  BY <1>7, <1>8

-----------------------------------------------------------------------------
(* The memory of tables.                                                   *)

\* T may be the tables: they are no nodes, and finitely many.
Heads(T) == IsFiniteSet(T) /\ T \cap (Nodes \cup {Null}) = {}

BucketRecords(T) == [before : T \cup Nodes \cup {Null}, finish : Nodes \cup {Null}]
Arrays(T) == UNION {[0 .. n - 1 -> BucketRecords(T)] : n \in Nat \ {0}}

\* Any memory of the tables T, whatever its links.
Memories(T) ==
    {mem \in [next : UNION {[T \cup D -> Nodes \cup {Null}] : D \in SUBSET Nodes},
              key : UNION {[D -> Keys] : D \in SUBSET Nodes},
              size : [T -> Nat], buckets : [T -> Arrays(T)]] :
        DOMAIN mem.next = T \cup DOMAIN mem.key}

\* What is at place i of the chain s of t, and what is behind it.
Place(t, s, i) == IF i = 0 THEN t ELSE s[i]
Behind(s, i) == IF i < Len(s) THEN s[i + 1] ELSE Null

\* The nodes of s in bucket b: none, or those from lo to hi.
In(mem, t, s, b, i) == bucket(mem, t, mem.key[s[i]]) = b
Vacant(mem, t, s, b) == \A i \in 1 .. Len(s) : ~In(mem, t, s, b, i)
Block(mem, t, s, b, lo, hi) ==
    /\ lo \in 1 .. Len(s) /\ hi \in lo .. Len(s)
    /\ \A i \in 1 .. Len(s) : In(mem, t, s, b, i) <=> lo <= i /\ i <= hi

\* Bucket b of t is right; what that of the first node is behind is left open
\* if stale, see BehindHead.
BucketRight(mem, t, s, b, stale) ==
    LET bk == mem.buckets[t][b]
    IN  \/ Vacant(mem, t, s, b) /\ bk = NoBucket
        \/ \E lo, hi \in 1 .. Len(s) :
              /\ Block(mem, t, s, b, lo, hi) /\ bk.finish = s[hi]
              /\ bk.before = Place(t, s, lo - 1) \/ (stale /\ lo = 1)

BucketsRight(mem, t, s, stale) == \A b \in DOMAIN mem.buckets[t] : BucketRight(mem, t, s, b, stale)
SameBuckets(mem, r, t) == DOMAIN r.buckets[t] = DOMAIN mem.buckets[t]

Distinct(s) == \A i, j \in 1 .. Len(s) : s[i] = s[j] => i = j
Together(mem, s) ==
    \A i, j, h \in 1 .. Len(s) :
       i <= h /\ h <= j /\ mem.key[s[i]] = mem.key[s[j]] => mem.key[s[h]] = mem.key[s[i]]

\* Table t is the chain s.
ChainIs(mem, t, s) ==
    /\ s \in Seq(DOMAIN mem.key) /\ Distinct(s)
    /\ \A i \in 0 .. Len(s) : mem.next[Place(t, s, i)] = Behind(s, i)
Filed(mem, t, s, stale) ==
    /\ ChainIs(mem, t, s) /\ mem.size[t] = Len(s)
    /\ BucketsRight(mem, t, s, stale)
Held(mem, t, s, stale) == Filed(mem, t, s, stale) /\ Together(mem, s)

LEMMA MemoryHas ==
    ASSUME NEW T, Heads(T), NEW mem \in Memories(T)
    PROVE  /\ DOMAIN mem.key \subseteq Nodes /\ mem.key \in [DOMAIN mem.key -> Keys]
           /\ IsFiniteSet(DOMAIN mem.key)
           /\ mem.next \in [T \cup DOMAIN mem.key -> Nodes \cup {Null}]
           /\ IsFiniteSet(DOMAIN mem.next)
           /\ mem.size \in [T -> Nat] /\ mem.buckets \in [T -> Arrays(T)]
<1>1. /\ DOMAIN mem.key \subseteq Nodes /\ mem.key \in [DOMAIN mem.key -> Keys]
      /\ mem.size \in [T -> Nat] /\ mem.buckets \in [T -> Arrays(T)]
  BY DEF Memories
<1>2. mem.next \in [T \cup DOMAIN mem.key -> Nodes \cup {Null}]
  <2>1. PICK D \in SUBSET Nodes : mem.next \in [T \cup D -> Nodes \cup {Null}]
    BY DEF Memories
  <2>2. DOMAIN mem.next = T \cup DOMAIN mem.key
    BY DEF Memories
  <2>. QED
    BY <2>1, <2>2
<1>3. IsFiniteSet(DOMAIN mem.key) /\ IsFiniteSet(DOMAIN mem.next)
  <2>1. IsFiniteSet(DOMAIN mem.key)
    BY <1>1, FS_Subset, TableAssumption
  <2>2. IsFiniteSet(T)
    BY DEF Heads
  <2>3. IsFiniteSet(T \cup DOMAIN mem.key)
    BY <2>1, <2>2, FS_Union
  <2>. QED
    BY <1>2, <2>1, <2>3
<1>. QED
  BY <1>1, <1>2, <1>3

LEMMA MemoryIs ==
    ASSUME NEW T, NEW r, r = [next |-> r.next, key |-> r.key, size |-> r.size, buckets |-> r.buckets],
           r.size \in [T -> Nat], r.buckets \in [T -> Arrays(T)],
           DOMAIN r.key \subseteq Nodes, r.key \in [DOMAIN r.key -> Keys],
           r.next \in [T \cup DOMAIN r.key -> Nodes \cup {Null}]
    PROVE  r \in Memories(T)
<1>. DEFINE NN == UNION {[T \cup D -> Nodes \cup {Null}] : D \in SUBSET Nodes}
            KK == UNION {[D -> Keys] : D \in SUBSET Nodes}
<1>1. r.next \in NN /\ r.key \in KK
  OBVIOUS
<1>2. DOMAIN r.next = T \cup DOMAIN r.key
  OBVIOUS
<1>. HIDE DEF NN, KK
<1>3. r \in [next : NN, key : KK, size : [T -> Nat], buckets : [T -> Arrays(T)]]
  BY <1>1
<1>. QED
  BY <1>2, <1>3 DEF Memories, NN, KK

\* A memory is its four fields.
LEMMA FieldsOf ==
    ASSUME NEW T, NEW mem \in Memories(T)
    PROVE  mem = [next |-> mem.next, key |-> mem.key, size |-> mem.size, buckets |-> mem.buckets]
BY DEF Memories

\* A key belongs to one of the buckets, which are numbered from 0.
LEMMA BucketIn ==
    ASSUME NEW T, Heads(T), NEW mem \in Memories(T), NEW t \in T
    PROVE  /\ bucket_count(mem, t) \in Nat \ {0}
           /\ mem.buckets[t] \in [0 .. bucket_count(mem, t) - 1 -> BucketRecords(T)]
           /\ \A k \in Keys : bucket(mem, t, k) \in DOMAIN mem.buckets[t]
<1>1. mem.buckets[t] \in Arrays(T)
  <2>1. mem.buckets \in [T -> Arrays(T)]
    BY MemoryHas
  <2>. QED
    BY <2>1
<1>2. PICK n \in Nat \ {0} : mem.buckets[t] \in [0 .. n - 1 -> BucketRecords(T)]
  BY <1>1 DEF Arrays
<1>3. bucket_count(mem, t) = n
  <2>1. Cardinality(0 .. n - 1) = IF 0 > n - 1 THEN 0 ELSE n - 1 - 0 + 1
    BY FS_Interval
  <2>. QED
    BY <1>2, <2>1 DEF bucket_count
<1>4. \A k \in Keys : k % n \in 0 .. n - 1
  <2>1. \A k \in Nat : k % n \in 0 .. n - 1
    BY <1>2
  <2>. QED
    BY <2>1, TableAssumption
<1>. QED
  BY <1>2, <1>3, <1>4 DEF bucket

-----------------------------------------------------------------------------
(* Nodes put into a chain.                                                 *)

\* s with the nodes g behind its first p.
Spliced(s, p, g) ==
    [i \in 1 .. Len(s) + Len(g) |-> IF i <= p THEN s[i] ELSE IF i <= p + Len(g) THEN g[i - p] ELSE s[i - Len(g)]]

LEMMA SplicedIs ==
    ASSUME NEW S, NEW s \in Seq(S), NEW g \in Seq(S), NEW p \in 0 .. Len(s)
    PROVE  /\ Spliced(s, p, g) \in Seq(S) /\ Len(Spliced(s, p, g)) = Len(s) + Len(g)
           /\ \A i \in 1 .. p : Spliced(s, p, g)[i] = s[i]
           /\ \A i \in 1 .. Len(g) : Spliced(s, p, g)[p + i] = g[i]
           /\ \A i \in p + 1 .. Len(s) : Spliced(s, p, g)[i + Len(g)] = s[i]
<1>. DEFINE r == Spliced(s, p, g)
<1>1. Len(s) \in Nat /\ Len(g) \in Nat /\ s \in [1 .. Len(s) -> S] /\ g \in [1 .. Len(g) -> S]
  OBVIOUS
<1>2. r \in [1 .. Len(s) + Len(g) -> S]
  BY <1>1 DEF Spliced
<1>3. r \in Seq(S) /\ Len(r) = Len(s) + Len(g)
  <2>. HIDE DEF r
  <2>. QED
    BY SMTT(30), <1>1, <1>2
<1>. QED
  BY <1>1, <1>3 DEF Spliced

\* Where nodes of bucket b may be put into s: anywhere in their bucket or at its
\* edges, or at the front.
Mayput(mem, t, s, b, p) ==
    \/ p = 0 /\ Vacant(mem, t, s, b)
    \/ \E lo, hi \in 1 .. Len(s) : Block(mem, t, s, b, lo, hi) /\ lo - 1 <= p /\ p <= hi

\* g are nodes of bucket b outside the chain s, linked to each other.
Group(mem, t, s, b, g) ==
    /\ g \in Seq(DOMAIN mem.key) /\ Len(g) > 0 /\ Distinct(g)
    /\ \A i \in 1 .. Len(g), j \in 1 .. Len(s) : g[i] # s[j]
    /\ \A i \in 1 .. Len(g) : i < Len(g) => mem.next[g[i]] = g[i + 1]
    /\ \A i \in 1 .. Len(g) : In(mem, t, g, b, i)

\* The buckets of t after nodes up to last were put behind before into b.
BucketsWith(mem, t, b, before, last) ==
    LET bks == [mem.buckets[t] EXCEPT ![b] = BucketWith(@, before, last)]
    IN  IF last = bks[b].finish /\ mem.next[before] # Null
        THEN [bks EXCEPT ![bucket(mem, t, mem.key[mem.next[before]])].before = last] ELSE bks

\* What insert_nodes changes.
NodesInserted(mem, t, b, before, g) ==
    [next |-> [mem.next EXCEPT ![g[Len(g)]] = mem.next[before], ![before] = g[1]],
     key |-> mem.key,
     size |-> [mem.size EXCEPT ![t] = @ + Len(g)],
     buckets |-> [mem.buckets EXCEPT ![t] = BucketsWith(mem, t, b, before, g[Len(g)])]]

LEMMA InsertNodesFields ==
    ASSUME NEW T, Heads(T), NEW mem \in Memories(T), NEW t \in T, NEW b \in DOMAIN mem.buckets[t],
           NEW before \in DOMAIN mem.next, NEW g \in Seq(DOMAIN mem.key), Len(g) > 0,
           before # g[Len(g)]
    PROVE  insert_nodes(mem, t, b, before, g) = NodesInserted(mem, t, b, before, g)
<1>. DEFINE last == g[Len(g)]
            next == [mem.next EXCEPT ![last] = mem.next[before], ![before] = g[1]]
            size == [mem.size EXCEPT ![t] = @ + Len(g)]
            bks == [mem.buckets[t] EXCEPT ![b] = BucketWith(@, before, last)]
            new == [mem EXCEPT !.next = [@ EXCEPT ![last] = mem.next[before], ![before] = g[1]],
                               !.buckets[t][b] = BucketWith(@, before, last), !.size[t] = @ + Len(g)]
<1>1. /\ mem.key \in [DOMAIN mem.key -> Keys] /\ mem.buckets \in [T -> Arrays(T)]
      /\ mem.next \in [T \cup DOMAIN mem.key -> Nodes \cup {Null}] /\ mem.size \in [T -> Nat]
  BY MemoryHas
<1>2. last \in DOMAIN mem.key /\ last \in DOMAIN mem.next
  <2>1. last \in DOMAIN mem.key
    OBVIOUS
  <2>. QED
    BY <1>1, <2>1
<1>3. new = [next |-> next, key |-> mem.key, size |-> size, buckets |-> [mem.buckets EXCEPT ![t] = bks]]
  <2>1. mem = [next |-> mem.next, key |-> mem.key, size |-> mem.size, buckets |-> mem.buckets]
    BY FieldsOf
  <2>2. new.next = next /\ new.key = mem.key /\ new.size = size
    BY <2>1
  <2>3. new.buckets = [mem.buckets EXCEPT ![t] = bks]
    BY <2>1
  <2>4. new \in [next : {new.next}, key : {new.key}, size : {new.size}, buckets : {new.buckets}]
    BY <2>1
  <2>. HIDE DEF new, next, size, bks
  <2>. QED
    BY <2>2, <2>3, <2>4
<1>4. next[last] = mem.next[before]
  BY <1>1, <1>2
<1>5. new.buckets[t] = bks /\ new.next = next /\ new.key = mem.key /\ DOMAIN bks = DOMAIN mem.buckets[t]
  <2>1. t \in DOMAIN mem.buckets
    BY <1>1
  <2>. QED
    BY <1>3, <2>1
<1>6. \A k : bucket(new, t, k) = bucket(mem, t, k)
  <2>. HIDE DEF new, bks
  <2>. QED
    BY <1>5 DEF bucket, bucket_count
<1>7. insert_nodes(mem, t, b, before, g) = IF last = new.buckets[t][b].finish THEN NextBucket(new, t, last, last) ELSE new
  BY DEF insert_nodes, Last
<1>. HIDE DEF new
<1>8. CASE last = bks[b].finish /\ mem.next[before] # Null
  <2>. DEFINE c == bucket(mem, t, mem.key[mem.next[before]])
              bks2 == [bks EXCEPT ![c].before = last]
  <2>1. NextBucket(new, t, last, last) = [new EXCEPT !.buckets[t][c].before = last]
    BY <1>4, <1>5, <1>6, <1>8 DEF NextBucket
  <2>2. t \in DOMAIN mem.buckets
    BY <1>1
  <2>. HIDE DEF next, bks, size, last, c
  <2>3. [new EXCEPT !.buckets[t][c].before = last] =
           [next |-> next, key |-> mem.key, size |-> size, buckets |-> [mem.buckets EXCEPT ![t] = bks2]]
    BY <1>3, <2>2
  <2>4. BucketsWith(mem, t, b, before, last) = bks2
    BY <1>8 DEF BucketsWith, bks, c
  <2>. QED
    BY <1>7, <1>5, <1>8, <2>1, <2>3, <2>4 DEF next, size, last, NodesInserted
<1>9. CASE ~(last = bks[b].finish /\ mem.next[before] # Null)
  <2>1. insert_nodes(mem, t, b, before, g) = new
    BY <1>4, <1>5, <1>7, <1>9 DEF NextBucket
  <2>2. BucketsWith(mem, t, b, before, last) = bks
    BY <1>9 DEF BucketsWith
  <2>. HIDE DEF next, bks, size, last
  <2>. QED
    BY <1>3, <2>1, <2>2 DEF next, size, last, NodesInserted
<1>. QED
  BY <1>8, <1>9

\* No insertion of nodes changes the number of buckets.
LEMMA InsertNodesCount ==
    ASSUME NEW T, Heads(T), NEW mem \in Memories(T), NEW t \in T, NEW b, NEW before, NEW g
    PROVE  bucket_count(insert_nodes(mem, t, b, before, g), t) = bucket_count(mem, t)
<1>. DEFINE last == Last(g)
            new == [mem EXCEPT !.next = [@ EXCEPT ![last] = mem.next[before], ![before] = g[1]],
                               !.buckets[t][b] = BucketWith(@, before, last), !.size[t] = @ + Len(g)]
            c == bucket(new, t, new.key[new.next[last]])
            r == insert_nodes(mem, t, b, before, g)
            bks == [mem.buckets[t] EXCEPT ![b] = BucketWith(@, before, last)]
<1>1. mem = [next |-> mem.next, key |-> mem.key, size |-> mem.size, buckets |-> mem.buckets]
  BY FieldsOf
<1>2. new.buckets = [mem.buckets EXCEPT ![t] = bks] /\ DOMAIN bks = DOMAIN mem.buckets[t]
  BY <1>1
<1>3. DOMAIN new = {"next", "key", "size", "buckets"}
  BY <1>1
<1>4. \/ r = new
      \/ r = [new EXCEPT !.buckets[t][c].before = last]
  BY DEF insert_nodes, NextBucket
<1>. HIDE DEF new, c, r, bks, last
<1>5. new.buckets[t] = bks /\ t \in DOMAIN new.buckets
  <2>1. mem.buckets \in [T -> Arrays(T)]
    BY MemoryHas
  <2>. QED
    BY <1>2, <2>1
<1>6. r.buckets[t] = bks \/ r.buckets[t] = [bks EXCEPT ![c].before = last]
  BY <1>3, <1>4, <1>5
<1>7. DOMAIN r.buckets[t] = DOMAIN mem.buckets[t]
  BY <1>2, <1>6
<1>. QED
  BY <1>7 DEF bucket_count, r

\* Where the nodes of another bucket are after b has got l nodes behind place p:
\* the only block that may begin there is behind the end of b.
LEMMA PlaceOfOthers ==
    ASSUME NEW mem, NEW t, NEW s, NEW b, NEW p \in 0 .. Len(s), Mayput(mem, t, s, b, p), NEW c, c # b,
           NEW lo \in 1 .. Len(s), NEW hi \in 1 .. Len(s), Block(mem, t, s, c, lo, hi), Len(s) \in Nat
    PROVE  /\ hi <= p \/ p < lo
           /\ lo = p + 1 => Vacant(mem, t, s, b) \/ (p > 0 /\ In(mem, t, s, b, p))
<1>1. CASE p = 0
  <2>1. CASE Vacant(mem, t, s, b)
    BY <1>1, <2>1
  <2>2. CASE ~Vacant(mem, t, s, b)
    <3>1. PICK l, h \in 1 .. Len(s) : Block(mem, t, s, b, l, h) /\ l - 1 <= p /\ p <= h
      BY <2>2 DEF Mayput
    <3>2. l = 1
      BY <1>1, <3>1
    <3>3. In(mem, t, s, b, 1)
      BY <3>1, <3>2 DEF Block
    <3>4. lo # 1
      <4>. SUFFICES ASSUME lo = 1 PROVE FALSE
        OBVIOUS
      <4>1. In(mem, t, s, c, 1)
        BY DEF Block
      <4>. QED
        BY <3>3, <4>1 DEF In
    <3>. QED
      BY <1>1, <3>4
  <2>. QED
    BY <2>1, <2>2
<1>2. CASE p # 0
  <2>1. PICK l, h \in 1 .. Len(s) : Block(mem, t, s, b, l, h) /\ l - 1 <= p /\ p <= h
    BY <1>2 DEF Mayput
  <2>2. \A i \in 1 .. Len(s) : ~(In(mem, t, s, b, i) /\ In(mem, t, s, c, i))
    BY DEF In
  <2>3. \A i \in 1 .. Len(s) : ~(l <= i /\ i <= h /\ lo <= i /\ i <= hi)
    BY <2>1, <2>2 DEF Block
  <2>4. hi <= p \/ p < lo
    BY <2>1, <2>3 DEF Block
  <2>5. lo = p + 1 => l <= p
    BY <2>1, <2>3 DEF Block
  <2>6. l <= p => In(mem, t, s, b, p)
    BY <1>2, <2>1 DEF Block
  <2>. QED
    BY <1>2, <2>4, <2>5, <2>6
<1>. QED
  BY <1>1, <1>2

\* A place of a chain is an address, and places are distinct.
LEMMA PlaceIs ==
    ASSUME NEW T, Heads(T), NEW mem \in Memories(T), NEW t \in T, NEW s, ChainIs(mem, t, s)
    PROVE  /\ Len(s) \in Nat /\ s \in [1 .. Len(s) -> DOMAIN mem.key]
           /\ \A i \in 0 .. Len(s) : /\ Place(t, s, i) \in DOMAIN mem.next
                                     /\ Place(t, s, i) \in T \cup Nodes /\ Place(t, s, i) # Null
           /\ \A i, j \in 0 .. Len(s) : Place(t, s, i) = Place(t, s, j) => i = j
           /\ \A i \in 1 .. Len(s) : s[i] \in Nodes /\ s[i] \in DOMAIN mem.next /\ s[i] # Null /\ s[i] \notin T
<1>1. s \in Seq(DOMAIN mem.key) /\ Distinct(s)
  BY DEF ChainIs
<1>2. Len(s) \in Nat /\ s \in [1 .. Len(s) -> DOMAIN mem.key]
  BY <1>1
<1>3. DOMAIN mem.key \subseteq Nodes /\ DOMAIN mem.next = T \cup DOMAIN mem.key
  BY MemoryHas
<1>4. \A i \in 1 .. Len(s) : s[i] \in DOMAIN mem.key
  BY <1>2
<1>5. \A i \in 1 .. Len(s) : s[i] \in Nodes /\ s[i] \in DOMAIN mem.next /\ s[i] # Null /\ s[i] \notin T
  BY <1>3, <1>4, TableAssumption DEF Heads
<1>6. t # Null /\ t \notin Nodes /\ t \in DOMAIN mem.next
  BY <1>3 DEF Heads
<1>7. \A i \in 0 .. Len(s) : i # 0 => i \in 1 .. Len(s)
  BY <1>2
<1>8. \A i \in 0 .. Len(s) : Place(t, s, i) \in DOMAIN mem.next /\ Place(t, s, i) \in T \cup Nodes /\ Place(t, s, i) # Null
  BY <1>5, <1>6, <1>7 DEF Place
<1>9. \A i, j \in 0 .. Len(s) : Place(t, s, i) = Place(t, s, j) => i = j
  BY <1>1, <1>5, <1>6, <1>7 DEF Place, Distinct
<1>. QED
  BY <1>2, <1>5, <1>8, <1>9

\* The chain after an insertion, link by link.
LEMMA SplicedChain ==
    ASSUME NEW T, Heads(T), NEW mem \in Memories(T), NEW t \in T, NEW s, ChainIs(mem, t, s),
           NEW b, NEW g, Group(mem, t, s, b, g), NEW p \in 0 .. Len(s),
           NEW r, r.key = mem.key,
           r.next = [mem.next EXCEPT ![g[Len(g)]] = Behind(s, p), ![Place(t, s, p)] = g[1]]
    PROVE  ChainIs(r, t, Spliced(s, p, g))
<1>. DEFINE n == Len(s)
            l == Len(g)
            q == Spliced(s, p, g)
<1>1. /\ n \in Nat /\ s \in [1 .. n -> DOMAIN mem.key]
      /\ \A i \in 0 .. n : Place(t, s, i) \in DOMAIN mem.next
      /\ \A i, j \in 0 .. n : Place(t, s, i) = Place(t, s, j) => i = j
      /\ \A i \in 0 .. n : mem.next[Place(t, s, i)] = Behind(s, i)
  BY PlaceIs DEF ChainIs
<1>2. /\ l \in Nat /\ l > 0 /\ g \in [1 .. l -> DOMAIN mem.key] /\ Distinct(g)
      /\ \A i \in 1 .. l : i < l => mem.next[g[i]] = g[i + 1]
      /\ \A i \in 1 .. l, j \in 1 .. n : g[i] # s[j]
  BY DEF Group
<1>3. DOMAIN mem.key \subseteq Nodes /\ DOMAIN mem.next = T \cup DOMAIN mem.key
  BY MemoryHas
<1>4. \A i \in 1 .. l : g[i] \in DOMAIN mem.next /\ g[i] \notin T
  BY <1>2, <1>3 DEF Heads
<1>5. \A i \in 1 .. l, j \in 0 .. n : g[i] # Place(t, s, j)
  BY <1>1, <1>2, <1>4 DEF Place
<1>6. /\ q \in Seq(DOMAIN mem.key) /\ Len(q) = n + l
      /\ \A i \in 1 .. p : q[i] = s[i]
      /\ \A i \in 1 .. l : q[p + i] = g[i]
      /\ \A i \in p + 1 .. n : q[i + l] = s[i]
  <2>. DEFINE S == DOMAIN mem.key
  <2>1. s \in Seq(S) /\ g \in Seq(S)
    BY DEF ChainIs, Group
  <2>. HIDE DEF S, n, l, q
  <2>2. Spliced(s, p, g) \in Seq(S) /\ Len(Spliced(s, p, g)) = Len(s) + Len(g)
    BY <2>1, SplicedIs
  <2>3. \A i \in 1 .. p : Spliced(s, p, g)[i] = s[i]
    BY <2>1, SplicedIs
  <2>4. \A i \in 1 .. Len(g) : Spliced(s, p, g)[p + i] = g[i]
    BY <2>1, SplicedIs
  <2>5. \A i \in p + 1 .. Len(s) : Spliced(s, p, g)[i + Len(g)] = s[i]
    BY <2>1, SplicedIs
  <2>. QED
    BY <2>2, <2>3, <2>4, <2>5 DEF S, n, l, q
<1>. HIDE DEF q, n, l
<1>7. p \in Nat /\ p <= n /\ p \in 0 .. n
  BY <1>1 DEF n
<1>8. Distinct(q)
  <2>. SUFFICES ASSUME NEW i \in 1 .. n + l, NEW j \in 1 .. n + l, q[i] = q[j] PROVE i = j
    BY <1>6 DEF Distinct
  <2>1. \A k \in 1 .. n + l : \/ k \in 1 .. n /\ k <= p /\ q[k] = s[k]
                              \/ k - p \in 1 .. l /\ q[k] = g[k - p]
                              \/ k - l \in 1 .. n /\ k - l > p /\ q[k] = s[k - l]
    <3>. TAKE k \in 1 .. n + l
    <3>1. CASE k <= p
      BY <1>1, <1>6, <1>7, <3>1
    <3>2. CASE p < k /\ k <= p + l
      <4>1. k - p \in 1 .. l /\ p + (k - p) = k
        BY <1>1, <1>2, <1>7, <3>2
      <4>. QED
        BY <1>6, <4>1
    <3>3. CASE p + l < k
      <4>1. k - l \in p + 1 .. n /\ (k - l) + l = k /\ k - l \in 1 .. n /\ k - l > p
        BY <1>1, <1>2, <1>7, <3>3
      <4>. QED
        BY <1>6, <4>1
    <3>. QED
      BY <1>1, <1>2, <1>7, <3>1, <3>2, <3>3
  <2>2. \A x, y \in 1 .. n : s[x] = s[y] => x = y
    BY DEF ChainIs, Distinct, n
  <2>3. \A x, y \in 1 .. l : g[x] = g[y] => x = y
    BY <1>2 DEF Distinct, l
  <2>4. i \in Int /\ j \in Int /\ p \in Int /\ l \in Int
    BY <1>1, <1>2, <1>7
  <2>5. CASE i \in 1 .. n /\ i <= p /\ q[i] = s[i]
    <3>1. \A x \in 1 .. l : g[x] # s[i]
      BY <1>2, <2>5
    <3>2. \A x \in 1 .. n : s[x] = s[i] => x = i
      BY <2>2, <2>5
    <3>3. ~(j - p \in 1 .. l /\ q[j] = g[j - p])
      BY <2>5, <3>1
    <3>4. ~(j - l \in 1 .. n /\ j - l > p /\ q[j] = s[j - l])
      BY <2>4, <2>5, <3>2
    <3>. QED
      BY <2>1, <2>5, <3>2, <3>3, <3>4
  <2>6. CASE i - p \in 1 .. l /\ q[i] = g[i - p]
    <3>0. \A x \in 1 .. n : s[x] # q[j]
      BY <1>2, <2>6
    <3>1. j - p \in 1 .. l /\ q[j] = g[j - p]
      <4>1. ~(j \in 1 .. n /\ j <= p /\ q[j] = s[j])
        BY <3>0
      <4>2. ~(j - l \in 1 .. n /\ j - l > p /\ q[j] = s[j - l])
        BY <3>0
      <4>. QED
        BY <2>1, <4>1, <4>2
    <3>2. i - p = j - p
      BY <2>3, <2>6, <3>1
    <3>. QED
      BY <2>4, <3>2
  <2>7. CASE i - l \in 1 .. n /\ i - l > p /\ q[i] = s[i - l]
    <3>1. j - l \in 1 .. n /\ q[j] = s[j - l]
      <4>1. \A x \in 1 .. l : g[x] # s[i - l]
        BY <1>2, <2>7
      <4>2. ~(j - p \in 1 .. l /\ q[j] = g[j - p])
        BY <2>7, <4>1
      <4>3. ~(j \in 1 .. n /\ j <= p /\ q[j] = s[j])
        <5>. SUFFICES ASSUME j \in 1 .. n, j <= p, q[j] = s[j] PROVE FALSE
          OBVIOUS
        <5>1. j = i - l
          BY <2>2, <2>7
        <5>. QED
          BY <2>4, <2>7, <5>1
      <4>. QED
        BY <2>1, <4>2, <4>3
    <3>2. i - l = j - l
      BY <2>2, <2>7, <3>1
    <3>. QED
      BY <2>4, <3>2
  <2>. QED
    BY <2>1, <2>5, <2>6, <2>7
<1>9. \A i \in 0 .. n + l : r.next[Place(t, q, i)] = Behind(q, i)
  <2>. TAKE i \in 0 .. n + l
  <2>1. CASE i < p
    <3>1. i \in 0 .. n /\ i < n /\ i + 1 \in 1 .. p /\ i < n + l
      BY <1>1, <1>2, <1>7, <2>1
    <3>2. Place(t, q, i) = Place(t, s, i)
      BY <1>1, <1>6, <1>7, <2>1 DEF Place
    <3>3. Place(t, s, i) # Place(t, s, p) /\ Place(t, s, i) # g[l]
      BY <1>1, <1>2, <1>5, <1>7, <2>1, <3>1
    <3>4. r.next[Place(t, s, i)] = Behind(s, i)
      BY <1>1, <3>1, <3>3 DEF l
    <3>. QED
      BY <1>6, <3>1, <3>2, <3>4 DEF Behind, n
  <2>2. CASE i = p
    <3>1. Place(t, q, p) = Place(t, s, p)
      BY <1>6, <1>7 DEF Place
    <3>2. r.next[Place(t, s, p)] = g[1]
      BY <1>1, <1>7
    <3>3. 1 \in 1 .. l /\ p < n + l
      BY <1>1, <1>2, <1>7
    <3>. QED
      BY <1>6, <2>2, <3>1, <3>2, <3>3 DEF Behind
  <2>3. CASE p < i /\ i < p + l
    <3>1. i - p \in 1 .. l /\ i - p < l /\ i - p + 1 \in 1 .. l /\ p + (i - p) = i /\ p + (i - p + 1) = i + 1 /\ i < n + l
      BY <1>1, <1>2, <1>7, <2>3
    <3>2. Place(t, q, i) = g[i - p]
      BY <1>6, <1>7, <2>3, <3>1 DEF Place
    <3>3. l \in 1 .. l
      BY <1>2
    <3>4. g[i - p] # g[l] /\ g[i - p] # Place(t, s, p)
      BY <1>2, <1>5, <1>7, <3>1, <3>3 DEF Distinct, l
    <3>5. r.next[g[i - p]] = g[i - p + 1]
      BY <1>2, <1>4, <3>1, <3>4 DEF l
    <3>6. q[i + 1] = g[i - p + 1]
      BY SMTT(30), <1>6, <3>1
    <3>. QED
      BY <1>6, <3>1, <3>2, <3>5, <3>6 DEF Behind
  <2>4. CASE i = p + l
    <3>1. l \in 1 .. l /\ i # 0
      BY <1>2, <1>7, <2>4
    <3>2. Place(t, q, i) = g[l]
      BY <1>6, <2>4, <3>1 DEF Place
    <3>3. r.next[g[l]] = Behind(s, p)
      BY <1>4, <1>5, <1>7, <3>1 DEF l
    <3>4. Behind(s, p) = Behind(q, i)
      <4>1. CASE p < n
        <5>1. p + 1 \in p + 1 .. n /\ i < n + l /\ p + 1 + l = i + 1
          BY <1>1, <1>2, <1>7, <2>4, <4>1
        <5>. QED
          BY <1>6, <4>1, <5>1 DEF Behind, n
      <4>2. CASE ~(p < n)
        BY <1>1, <1>2, <1>6, <1>7, <2>4, <4>2 DEF Behind, n
      <4>. QED
        BY <4>1, <4>2
    <3>. QED
      BY <3>2, <3>3, <3>4
  <2>5. CASE i > p + l
    <3>1. i - l \in p + 1 .. n /\ i - l \in 0 .. n /\ i - l # p /\ (i - l) + l = i /\ i # 0 /\ i - l # 0
      BY <1>1, <1>2, <1>7, <2>5
    <3>2. Place(t, q, i) = Place(t, s, i - l)
      <4>1. q[i] = s[i - l]
        BY <1>6, <3>1
      <4>. QED
        BY <3>1, <4>1 DEF Place
    <3>3. l \in 1 .. l
      BY <1>2
    <3>4. Place(t, s, i - l) # Place(t, s, p) /\ Place(t, s, i - l) # g[l]
      BY <1>1, <1>5, <1>7, <3>1, <3>3
    <3>5. r.next[Place(t, s, i - l)] = Behind(s, i - l)
      BY <1>1, <3>1, <3>4 DEF l
    <3>6. Behind(s, i - l) = Behind(q, i)
      <4>1. CASE i < n + l
        <5>1. i - l < n /\ i - l + 1 \in p + 1 .. n /\ i - l + 1 + l = i + 1
          BY <1>1, <1>2, <1>7, <3>1, <4>1
        <5>2. q[(i - l + 1) + l] = s[i - l + 1]
          BY <1>6, <5>1
        <5>3. q[i + 1] = s[i - l + 1]
          BY <5>1, <5>2
        <5>. QED
          BY <1>6, <4>1, <5>1, <5>3 DEF Behind, n
      <4>2. CASE ~(i < n + l)
        <5>1. ~(i - l < n)
          BY <1>1, <1>2, <4>2
        <5>. QED
          BY <1>6, <4>2, <5>1 DEF Behind, n
      <4>. QED
        BY <4>1, <4>2
    <3>. QED
      BY <3>2, <3>5, <3>6
  <2>. QED
    BY <1>1, <1>2, <1>7, <2>1, <2>2, <2>3, <2>4, <2>5
<1>. QED
  BY <1>6, <1>8, <1>9 DEF ChainIs, q

\* Every place of a spliced chain is one of its three parts.
LEMMA SplicedPlaces ==
    ASSUME NEW n \in Nat, NEW l \in Nat, NEW p \in 0 .. n, NEW k \in 1 .. n + l
    PROVE  \/ k \in 1 .. p /\ k \in 1 .. n
           \/ k - p \in 1 .. l /\ k = p + (k - p)
           \/ k - l \in p + 1 .. n /\ k - l \in 1 .. n /\ k = (k - l) + l
OBVIOUS

\* The buckets of a spliced chain are those of its parts.
LEMMA SplicedIn ==
    ASSUME NEW mem, NEW r, NEW t, NEW S, NEW s \in Seq(S), NEW g \in Seq(S), NEW p \in 0 .. Len(s), NEW c,
           bucket_count(r, t) = bucket_count(mem, t), \A i \in 1 .. Len(s) : r.key[s[i]] = mem.key[s[i]]
    PROVE  LET q == Spliced(s, p, g) IN
           /\ \A i \in 1 .. p : In(r, t, q, c, i) <=> In(mem, t, s, c, i)
           /\ \A i \in 1 .. Len(g) : In(r, t, q, c, p + i) <=> In(r, t, g, c, i)
           /\ \A i \in p + 1 .. Len(s) : In(r, t, q, c, i + Len(g)) <=> In(mem, t, s, c, i)
<1>. DEFINE q == Spliced(s, p, g)
<1>1. \A k : bucket(r, t, k) = bucket(mem, t, k)
  BY DEF bucket
<1>2. \A i \in 1 .. p : q[i] = s[i]
  BY SMTT(30), SplicedIs
<1>3. \A i \in 1 .. Len(g) : q[p + i] = g[i]
  BY SplicedIs
<1>4. \A i \in p + 1 .. Len(s) : q[i + Len(g)] = s[i]
  BY SplicedIs
<1>5. \A i \in 1 .. p : i \in 1 .. Len(s)
  OBVIOUS
<1>6. \A i \in p + 1 .. Len(s) : i \in 1 .. Len(s)
  OBVIOUS
<1>. HIDE DEF q
<1>7. \A i \in 1 .. p : In(r, t, q, c, i) <=> In(mem, t, s, c, i)
  BY <1>1, <1>2, <1>5 DEF In
<1>8. \A i \in 1 .. Len(g) : In(r, t, q, c, p + i) <=> In(r, t, g, c, i)
  BY <1>3 DEF In
<1>9. \A i \in p + 1 .. Len(s) : In(r, t, q, c, i + Len(g)) <=> In(mem, t, s, c, i)
  BY <1>1, <1>4, <1>6 DEF In
<1>. QED
  BY <1>7, <1>8, <1>9 DEF q

\* The buckets the group g of bucket b goes past keep their nodes.
LEMMA SplicedOthers ==
    ASSUME NEW mem, NEW r, NEW t, NEW S, NEW s \in Seq(S), NEW g \in Seq(S), NEW p \in 0 .. Len(s), NEW c,
           bucket_count(r, t) = bucket_count(mem, t), \A i \in 1 .. Len(s) : r.key[s[i]] = mem.key[s[i]],
           \A i \in 1 .. Len(g) : ~In(r, t, g, c, i)
    PROVE  LET q == Spliced(s, p, g) IN
           /\ Vacant(mem, t, s, c) <=> Vacant(r, t, q, c)
           /\ \A lo, hi \in 1 .. Len(s) : Block(mem, t, s, c, lo, hi) /\ hi <= p => Block(r, t, q, c, lo, hi)
           /\ \A lo, hi \in 1 .. Len(s) : Block(mem, t, s, c, lo, hi) /\ p < lo =>
                 Block(r, t, q, c, lo + Len(g), hi + Len(g))
<1>. DEFINE q == Spliced(s, p, g)
            n == Len(s)
            l == Len(g)
<1>1. n \in Nat /\ l \in Nat /\ Len(q) = n + l /\ p \in Nat /\ p <= n
  <2>1. Len(q) = n + l
    BY SplicedIs
  <2>. HIDE DEF q
  <2>. QED
    BY <2>1
<1>2. /\ \A i \in 1 .. p : In(r, t, q, c, i) <=> In(mem, t, s, c, i)
      /\ \A i \in 1 .. l : ~In(r, t, q, c, p + i)
      /\ \A i \in p + 1 .. n : In(r, t, q, c, i + l) <=> In(mem, t, s, c, i)
  BY SplicedIn
<1>3. \A k \in 1 .. n + l : \/ k \in 1 .. p /\ k \in 1 .. n
                            \/ k - p \in 1 .. l /\ k = p + (k - p)
                            \/ k - l \in p + 1 .. n /\ k - l \in 1 .. n /\ k = (k - l) + l
  BY <1>1, SplicedPlaces
<1>. HIDE DEF q, n, l
<1>4. ASSUME Vacant(mem, t, s, c) PROVE Vacant(r, t, q, c)
  <2>. SUFFICES ASSUME NEW k \in 1 .. n + l PROVE ~In(r, t, q, c, k)
    BY <1>1 DEF Vacant
  <2>1. \A i \in 1 .. n : ~In(mem, t, s, c, i)
    BY <1>4 DEF Vacant, n
  <2>. QED
    BY <1>2, <1>3, <2>1
<1>5. ASSUME Vacant(r, t, q, c) PROVE Vacant(mem, t, s, c)
  <2>. SUFFICES ASSUME NEW i \in 1 .. n PROVE ~In(mem, t, s, c, i)
    BY <1>1 DEF Vacant, n
  <2>1. \A k \in 1 .. n + l : ~In(r, t, q, c, k)
    BY <1>1, <1>5 DEF Vacant
  <2>2. CASE i <= p
    <3>1. i \in 1 .. p /\ i \in 1 .. n + l
      BY <1>1, <2>2
    <3>. QED
      BY <1>2, <2>1, <3>1
  <2>3. CASE ~(i <= p)
    <3>1. i \in p + 1 .. n /\ i + l \in 1 .. n + l
      BY <1>1, <2>3
    <3>. QED
      BY <1>2, <2>1, <3>1
  <2>. QED
    BY <2>2, <2>3
<1>6. ASSUME NEW lo \in 1 .. n, NEW hi \in 1 .. n, Block(mem, t, s, c, lo, hi), hi <= p
      PROVE Block(r, t, q, c, lo, hi)
  <2>1. lo <= hi /\ \A i \in 1 .. n : In(mem, t, s, c, i) <=> lo <= i /\ i <= hi
    BY <1>6 DEF Block, n
  <2>2. \A k \in 1 .. n + l : In(r, t, q, c, k) <=> lo <= k /\ k <= hi
    <3>. TAKE k \in 1 .. n + l
    <3>1. CASE k \in 1 .. p /\ k \in 1 .. n
      BY <1>2, <2>1, <3>1
    <3>2. CASE k - p \in 1 .. l /\ k = p + (k - p)
      <4>1. ~(k <= hi)
        BY <1>1, <1>6, <3>2
      <4>. QED
        BY <1>2, <3>2, <4>1
    <3>3. CASE k - l \in p + 1 .. n /\ k - l \in 1 .. n /\ k = (k - l) + l
      <4>1. ~(k <= hi) /\ ~(k - l <= hi)
        BY <1>1, <1>6, <3>3
      <4>. QED
        BY <1>2, <2>1, <3>3, <4>1
    <3>. QED
      BY <1>3, <3>1, <3>2, <3>3
  <2>. QED
    BY <1>1, <2>1, <2>2 DEF Block
<1>7. ASSUME NEW lo \in 1 .. n, NEW hi \in 1 .. n, Block(mem, t, s, c, lo, hi), p < lo
      PROVE Block(r, t, q, c, lo + l, hi + l)
  <2>1. lo <= hi /\ \A i \in 1 .. n : In(mem, t, s, c, i) <=> lo <= i /\ i <= hi
    BY <1>7 DEF Block, n
  <2>2. \A k \in 1 .. n + l : In(r, t, q, c, k) <=> lo + l <= k /\ k <= hi + l
    <3>. TAKE k \in 1 .. n + l
    <3>1. CASE k \in 1 .. p /\ k \in 1 .. n
      <4>1. ~(lo <= k) /\ ~(lo + l <= k)
        BY <1>1, <1>7, <3>1
      <4>. QED
        BY <1>2, <2>1, <3>1, <4>1
    <3>2. CASE k - p \in 1 .. l /\ k = p + (k - p)
      <4>1. ~(lo + l <= k)
        BY <1>1, <1>7, <3>2
      <4>. QED
        BY <1>2, <3>2, <4>1
    <3>3. CASE k - l \in p + 1 .. n /\ k - l \in 1 .. n /\ k = (k - l) + l
      <4>1. (lo <= k - l <=> lo + l <= k) /\ (k - l <= hi <=> k <= hi + l)
        BY <1>1, <3>3
      <4>. QED
        BY <1>2, <2>1, <3>3, <4>1
    <3>. QED
      BY <1>3, <3>1, <3>2, <3>3
  <2>3. lo + l \in 1 .. n + l /\ hi + l \in lo + l .. n + l
    BY <1>1, <2>1
  <2>. QED
    BY <1>1, <2>2, <2>3 DEF Block
<1>. QED
  BY <1>4, <1>5, <1>6, <1>7 DEF q, n, l

\* The bucket the group goes to gets it.
LEMMA SplicedOwn ==
    ASSUME NEW mem, NEW r, NEW t, NEW S, NEW s \in Seq(S), NEW g \in Seq(S), NEW p \in 0 .. Len(s), NEW b,
           bucket_count(r, t) = bucket_count(mem, t), \A i \in 1 .. Len(s) : r.key[s[i]] = mem.key[s[i]],
           Len(g) > 0, \A i \in 1 .. Len(g) : In(r, t, g, b, i)
    PROVE  LET q == Spliced(s, p, g) IN
           /\ Vacant(mem, t, s, b) => Block(r, t, q, b, p + 1, p + Len(g))
           /\ \A lo, hi \in 1 .. Len(s) : Block(mem, t, s, b, lo, hi) /\ lo - 1 <= p /\ p <= hi =>
                 Block(r, t, q, b, lo, hi + Len(g))
<1>. DEFINE q == Spliced(s, p, g)
            n == Len(s)
            l == Len(g)
<1>1. n \in Nat /\ l \in Nat /\ l > 0 /\ Len(q) = n + l /\ p \in Nat /\ p <= n
  <2>1. Len(q) = n + l
    BY SplicedIs
  <2>. HIDE DEF q
  <2>. QED
    BY <2>1
<1>2. /\ \A i \in 1 .. p : In(r, t, q, b, i) <=> In(mem, t, s, b, i)
      /\ \A i \in 1 .. l : In(r, t, q, b, p + i)
      /\ \A i \in p + 1 .. n : In(r, t, q, b, i + l) <=> In(mem, t, s, b, i)
  BY SplicedIn
<1>3. \A k \in 1 .. n + l : \/ k \in 1 .. p /\ k \in 1 .. n
                            \/ k - p \in 1 .. l /\ k = p + (k - p)
                            \/ k - l \in p + 1 .. n /\ k - l \in 1 .. n /\ k = (k - l) + l
  BY <1>1, SplicedPlaces
<1>. HIDE DEF q, n, l
<1>4. ASSUME Vacant(mem, t, s, b) PROVE Block(r, t, q, b, p + 1, p + l)
  <2>1. \A i \in 1 .. n : ~In(mem, t, s, b, i)
    BY <1>4 DEF Vacant, n
  <2>2. \A k \in 1 .. n + l : In(r, t, q, b, k) <=> p + 1 <= k /\ k <= p + l
    <3>. TAKE k \in 1 .. n + l
    <3>1. CASE k \in 1 .. p /\ k \in 1 .. n
      BY <1>1, <1>2, <2>1, <3>1
    <3>2. CASE k - p \in 1 .. l /\ k = p + (k - p)
      <4>1. p + 1 <= k /\ k <= p + l
        BY <1>1, <3>2
      <4>. QED
        BY <1>2, <3>2, <4>1
    <3>3. CASE k - l \in p + 1 .. n /\ k - l \in 1 .. n /\ k = (k - l) + l
      <4>1. ~(k <= p + l)
        BY <1>1, <3>3
      <4>. QED
        BY <1>2, <2>1, <3>3, <4>1
    <3>. QED
      BY <1>3, <3>1, <3>2, <3>3
  <2>3. p + 1 \in 1 .. n + l /\ p + l \in p + 1 .. n + l
    BY <1>1
  <2>. QED
    BY <1>1, <2>2, <2>3 DEF Block
<1>5. ASSUME NEW lo \in 1 .. n, NEW hi \in 1 .. n, Block(mem, t, s, b, lo, hi), lo - 1 <= p, p <= hi
      PROVE Block(r, t, q, b, lo, hi + l)
  <2>1. lo <= hi /\ \A i \in 1 .. n : In(mem, t, s, b, i) <=> lo <= i /\ i <= hi
    BY <1>5 DEF Block, n
  <2>2. \A k \in 1 .. n + l : In(r, t, q, b, k) <=> lo <= k /\ k <= hi + l
    <3>. TAKE k \in 1 .. n + l
    <3>1. CASE k \in 1 .. p /\ k \in 1 .. n
      <4>1. k <= hi /\ k <= hi + l
        BY <1>1, <1>5, <3>1
      <4>. QED
        BY <1>2, <2>1, <3>1, <4>1
    <3>2. CASE k - p \in 1 .. l /\ k = p + (k - p)
      <4>1. lo <= k /\ k <= hi + l
        BY <1>1, <1>5, <3>2
      <4>. QED
        BY <1>2, <3>2, <4>1
    <3>3. CASE k - l \in p + 1 .. n /\ k - l \in 1 .. n /\ k = (k - l) + l
      <4>1. lo <= k - l /\ lo <= k /\ (k - l <= hi <=> k <= hi + l)
        BY SMTT(30), <1>1, <1>5, <3>3
      <4>. QED
        BY <1>2, <2>1, <3>3, <4>1
    <3>. QED
      BY <1>3, <3>1, <3>2, <3>3
  <2>3. lo \in 1 .. n + l /\ hi + l \in lo .. n + l
    BY <1>1, <2>1
  <2>. QED
    BY <1>1, <2>2, <2>3 DEF Block
<1>. QED
  BY <1>4, <1>5 DEF q, n, l

\* Bucket b of t begins behind the node x, or ends with it.
Begins(mem, t, b, x) == mem.buckets[t][b].before = x
Ends(mem, t, b, x) == mem.buckets[t][b].finish = x
Unused(mem, t, b) == mem.buckets[t][b] = NoBucket

\* The bucket that is not vacant is named by its ends.
LEMMA RightBlock ==
    ASSUME NEW T, Heads(T), NEW mem \in Memories(T), NEW t \in T, NEW s, Filed(mem, t, s, FALSE),
           NEW b \in DOMAIN mem.buckets[t], NEW lo, NEW hi, Block(mem, t, s, b, lo, hi)
    PROVE  Begins(mem, t, b, Place(t, s, lo - 1)) /\ Ends(mem, t, b, s[hi])
<1>. DEFINE bk == mem.buckets[t][b]
<1>0. ChainIs(mem, t, s) /\ BucketRight(mem, t, s, b, FALSE)
  BY DEF Filed, BucketsRight
<1>1. /\ lo \in 1 .. Len(s) /\ hi \in lo .. Len(s)
      /\ \A i \in 1 .. Len(s) : In(mem, t, s, b, i) <=> lo <= i /\ i <= hi
  BY DEF Block
<1>2. Len(s) \in Nat
  BY <1>0, PlaceIs
<1>3. ~Vacant(mem, t, s, b)
  BY <1>1 DEF Vacant
<1>4. PICK l, h \in 1 .. Len(s) : /\ Block(mem, t, s, b, l, h) /\ bk.finish = s[h]
                                  /\ bk.before = Place(t, s, l - 1)
  BY <1>0, <1>3 DEF BucketRight
<1>5. /\ h \in l .. Len(s)
      /\ \A i \in 1 .. Len(s) : In(mem, t, s, b, i) <=> l <= i /\ i <= h
  BY <1>4 DEF Block
<1>6. \A i \in 1 .. Len(s) : lo <= i /\ i <= hi <=> l <= i /\ i <= h
  BY <1>1, <1>5
<1>7. l = lo /\ h = hi
  <2>1. lo <= l /\ l <= hi /\ lo <= h /\ h <= hi
    BY <1>2, <1>4, <1>5, <1>6
  <2>2. l <= lo /\ lo <= h /\ l <= hi /\ hi <= h
    <3>1. lo \in 1 .. Len(s) /\ hi \in 1 .. Len(s) /\ lo <= hi
      BY <1>1, <1>2
    <3>. QED
      BY <1>6, <3>1
  <2>. QED
    BY <1>1, <1>2, <1>4, <1>5, <2>1, <2>2
<1>. QED
  BY <1>4, <1>7 DEF Begins, Ends

LEMMA RightVacant ==
    ASSUME NEW mem, NEW t, NEW s, Filed(mem, t, s, FALSE),
           NEW b \in DOMAIN mem.buckets[t], Vacant(mem, t, s, b)
    PROVE  Unused(mem, t, b)
BY DEF Unused, Filed, BucketsRight, BucketRight, Block, Vacant

\* A bucket is vacant or a block.
LEMMA VacantOrBlock ==
    ASSUME NEW mem, NEW t, NEW s, NEW stale, Filed(mem, t, s, stale), NEW b \in DOMAIN mem.buckets[t]
    PROVE  Vacant(mem, t, s, b) \/ \E lo, hi \in 1 .. Len(s) : Block(mem, t, s, b, lo, hi)
BY DEF Filed, BucketsRight, BucketRight

\* What makes a bucket right.
LEMMA BlockRight ==
    ASSUME NEW mem, NEW t, NEW s, NEW b, NEW lo, NEW hi, Len(s) \in Nat, Block(mem, t, s, b, lo, hi),
           mem.buckets[t][b].finish = s[hi], NEW i, i = lo - 1, mem.buckets[t][b].before = Place(t, s, i)
    PROVE  BucketRight(mem, t, s, b, FALSE)
<1>1. lo \in 1 .. Len(s) /\ hi \in 1 .. Len(s)
  BY DEF Block
<1>. QED
  BY <1>1 DEF BucketRight

\* The places of a spliced chain.
LEMMA SplicedPlace ==
    ASSUME NEW S, NEW s \in Seq(S), NEW g \in Seq(S), NEW p \in 0 .. Len(s), NEW T, NEW t \in T
    PROVE  /\ \A i \in 0 .. p : Place(t, Spliced(s, p, g), i) = Place(t, s, i)
           /\ \A i \in p + 1 .. Len(s) : Place(t, Spliced(s, p, g), i + Len(g)) = Place(t, s, i)
           /\ Len(g) > 0 => Place(t, Spliced(s, p, g), p + Len(g)) = g[Len(g)]
<1>0. s \in Seq(S) /\ g \in Seq(S) /\ p \in 0 .. Len(s)
  OBVIOUS
<1>1. Len(s) \in Nat /\ Len(g) \in Nat /\ p \in Nat
  OBVIOUS
<1>2. \A i \in 0 .. p : Place(t, Spliced(s, p, g), i) = Place(t, s, i)
  <2>1. \A i \in 1 .. p : Spliced(s, p, g)[i] = s[i]
    BY <1>0, SplicedIs
  <2>. QED
    BY <1>1, <2>1 DEF Place
<1>3. \A i \in p + 1 .. Len(s) : Place(t, Spliced(s, p, g), i + Len(g)) = Place(t, s, i)
  <2>1. \A i \in p + 1 .. Len(s) : Spliced(s, p, g)[i + Len(g)] = s[i]
    BY <1>0, SplicedIs
  <2>2. \A i \in p + 1 .. Len(s) : i # 0 /\ i + Len(g) # 0
    BY <1>1
  <2>. QED
    BY <2>1, <2>2 DEF Place
<1>4. Len(g) > 0 => Place(t, Spliced(s, p, g), p + Len(g)) = g[Len(g)]
  <2>1. ASSUME NEW i \in 1 .. Len(g) PROVE Spliced(s, p, g)[p + i] = g[i]
    BY <1>0, SplicedIs
  <2>2. Len(g) > 0 => Len(g) \in 1 .. Len(g) /\ p + Len(g) # 0
    BY <1>1
  <2>. QED
    BY <2>1, <2>2 DEF Place
<1>. QED
  BY <1>2, <1>3, <1>4

\* The buckets after an insertion.
LEMMA SplicedBuckets ==
    ASSUME NEW T, Heads(T), NEW mem \in Memories(T), NEW t \in T, NEW s, Filed(mem, t, s, FALSE),
           NEW b \in DOMAIN mem.buckets[t], NEW g, Group(mem, t, s, b, g), NEW p \in 0 .. Len(s),
           Mayput(mem, t, s, b, p),
           NEW r, r.key = mem.key, r.buckets[t] = BucketsWith(mem, t, b, Place(t, s, p), g[Len(g)])
    PROVE  SameBuckets(mem, r, t) /\ BucketsRight(r, t, Spliced(s, p, g), FALSE)
<1>. DEFINE n == Len(s)
            l == Len(g)
            q == Spliced(s, p, g)
            last == g[l]
            before == Place(t, s, p)
            old == mem.buckets[t]
            bks == [old EXCEPT ![b] = BucketWith(@, before, last)]
            nextin == bucket(mem, t, mem.key[s[p + 1]])
            S == DOMAIN mem.key
<1>1. ChainIs(mem, t, s) /\ s \in Seq(S) /\ g \in Seq(S)
  BY DEF Filed, ChainIs, Group
<1>2. /\ n \in Nat /\ s \in [1 .. n -> S] /\ before # Null
      /\ \A i, j \in 0 .. n : Place(t, s, i) = Place(t, s, j) => i = j
      /\ \A i \in 1 .. n : s[i] # Null
  BY <1>1, PlaceIs
<1>3. p \in Nat /\ p <= n /\ l \in Nat /\ l > 0 /\ l \in 1 .. l
  BY <1>2 DEF Group
<1>4. Len(q) = n + l
  BY <1>1, SplicedIs
<1>5. \A i \in 1 .. n : last # s[i]
  BY <1>3 DEF Group
<1>6. mem.next[before] = Behind(s, p)
  BY <1>1 DEF ChainIs
<1>7. mem.next[before] # Null <=> p < n
  BY <1>2, <1>3, <1>6 DEF Behind
<1>8. p < n => mem.next[before] = s[p + 1] /\ p + 1 \in 1 .. n /\ In(mem, t, s, nextin, p + 1)
  BY <1>2, <1>3, <1>6 DEF Behind, In
<1>9. DOMAIN r.buckets[t] = DOMAIN old /\ bucket_count(r, t) = bucket_count(mem, t)
  BY DEF BucketsWith, bucket_count
<1>10. \A c \in DOMAIN old :
          r.buckets[t][c] = IF last = bks[b].finish /\ p < n /\ c = nextin
                            THEN [bks[c] EXCEPT !.before = last] ELSE bks[c]
  <2>. DEFINE reaches == last = bks[b].finish /\ mem.next[before] # Null
              found == bucket(mem, t, mem.key[mem.next[before]])
  <2>1. r.buckets[t] = IF reaches THEN [bks EXCEPT ![found].before = last] ELSE bks
    <3>1. BucketsWith(mem, t, b, before, last) = IF reaches THEN [bks EXCEPT ![found].before = last] ELSE bks
      BY Zenon DEF BucketsWith
    <3>2. r.buckets[t] = BucketsWith(mem, t, b, before, last)
      OBVIOUS
    <3>. QED
      BY <3>1, <3>2
  <2>2. DOMAIN bks = DOMAIN old
    OBVIOUS
  <2>3. reaches <=> last = bks[b].finish /\ p < n
    BY <1>7
  <2>4. reaches => found = nextin
    BY <1>8, <2>3
  <2>. HIDE DEF reaches, found, bks, nextin
  <2>. QED
    BY <2>1, <2>2, <2>3, <2>4
<1>11. \A c \in DOMAIN old : bks[c] = IF c = b THEN BucketWith(old[b], before, last) ELSE old[c]
  OBVIOUS
<1>12. old[b] \in BucketRecords(T)
  <2>1. old \in [0 .. bucket_count(mem, t) - 1 -> BucketRecords(T)]
    BY BucketIn
  <2>. QED
    BY <2>1
<1>13. \A i \in 1 .. Len(s) : r.key[s[i]] = mem.key[s[i]]
  OBVIOUS
<1>14. \A i \in 1 .. l : In(r, t, g, b, i)
  BY <1>9 DEF Group, In, bucket
<1>15. /\ \A i \in 0 .. p : Place(t, q, i) = Place(t, s, i)
       /\ \A i \in p + 1 .. n : Place(t, q, i + l) = Place(t, s, i)
       /\ Place(t, q, p + l) = last
  <2>. HIDE DEF n, l, q, last, S
  <2>1. \A i \in 0 .. p : Place(t, Spliced(s, p, g), i) = Place(t, s, i)
    BY <1>1, SplicedPlace
  <2>2. \A i \in p + 1 .. Len(s) : Place(t, Spliced(s, p, g), i + Len(g)) = Place(t, s, i)
    BY <1>1, SplicedPlace
  <2>3. Len(g) > 0 => Place(t, Spliced(s, p, g), p + Len(g)) = g[Len(g)]
    BY <1>1, SplicedPlace
  <2>. QED
    BY <1>3, <2>1, <2>2, <2>3 DEF n, l, q, last
<1>16. \A i \in 1 .. n : (i <= p => q[i] = s[i]) /\ (i > p => q[i + l] = s[i])
  <2>1. \A i \in 1 .. p : q[i] = s[i]
    BY <1>1, SplicedIs
  <2>2. \A i \in p + 1 .. n : q[i + l] = s[i]
    BY <1>1, SplicedIs
  <2>3. \A i \in 1 .. n : (i <= p => i \in 1 .. p) /\ (i > p => i \in p + 1 .. n)
    BY <1>2, <1>3
  <2>. QED
    BY <2>1, <2>2, <2>3
<1>17. q[p + l] = last
  BY <1>3, <1>15 DEF Place
<1>18. \A c \in DOMAIN old : \A lo, hi \in 1 .. n :
          Block(mem, t, s, c, lo, hi) => old[c].before = Place(t, s, lo - 1) /\ old[c].finish = s[hi]
  <2>. SUFFICES ASSUME NEW c \in DOMAIN mem.buckets[t], NEW lo, NEW hi, Block(mem, t, s, c, lo, hi)
                PROVE  mem.buckets[t][c].before = Place(t, s, lo - 1) /\ mem.buckets[t][c].finish = s[hi]
    OBVIOUS
  <2>. HIDE DEF n, l, q, last, before, old, bks, nextin, S
  <2>1. Begins(mem, t, c, Place(t, s, lo - 1)) /\ Ends(mem, t, c, s[hi])
    BY RightBlock
  <2>. QED
    BY <2>1 DEF Begins, Ends
<1>19. \A c \in DOMAIN old : Vacant(mem, t, s, c) => old[c] = NoBucket
  <2>1. \A c \in DOMAIN mem.buckets[t] : Vacant(mem, t, s, c) => Unused(mem, t, c)
    BY RightVacant
  <2>. QED
    BY <2>1 DEF Unused
<1>. HIDE DEF n, l, q, last, before, old, bks, nextin, S
<1>20. b \in DOMAIN old
  BY DEF old
<1>21. BucketRight(r, t, q, b, FALSE)
  <2>1. CASE Vacant(mem, t, s, b)
    <3>1. p = 0
      BY <2>1 DEF Mayput, Block, Vacant
    <3>2. old[b] = NoBucket
      BY <1>19, <1>20, <2>1
    <3>3. bks[b] = [before |-> before, finish |-> last]
      BY <1>11, <3>2 DEF BucketWith, NoBucket, old
    <3>4. ~(p < n /\ b = nextin)
      BY <1>8, <2>1 DEF Vacant, n
    <3>5. r.buckets[t][b] = [before |-> before, finish |-> last]
      BY <1>10, <3>3, <3>4 DEF old
    <3>6. Block(r, t, q, b, 1, l)
      <4>1. Block(r, t, q, b, p + 1, p + l)
        BY <1>1, <1>3, <1>9, <1>13, <1>14, <2>1, SplicedOwn DEF q, l
      <4>2. p + 1 = 1 /\ p + l = l
        BY <1>3, <3>1
      <4>. QED
        BY <4>1, <4>2
    <3>7. last = q[l] /\ before = Place(t, q, 0)
      BY <1>3, <1>15, <1>17, <3>1 DEF before
    <3>8. Len(q) \in Nat
      BY <1>2, <1>3, <1>4
    <3>9. 1 \in 1 .. Len(q) /\ l \in 1 .. Len(q)
      BY <3>6, <3>8 DEF Block
    <3>. QED
      BY <3>5, <3>6, <3>7, <3>9 DEF BucketRight
  <2>2. CASE ~Vacant(mem, t, s, b)
    <3>1. PICK lo, hi \in 1 .. n : Block(mem, t, s, b, lo, hi) /\ lo - 1 <= p /\ p <= hi
      BY <2>2 DEF Mayput, n
    <3>2. lo <= hi /\ \A i \in 1 .. n : In(mem, t, s, b, i) <=> lo <= i /\ i <= hi
      BY <3>1 DEF Block, n
    <3>3. old[b].before = Place(t, s, lo - 1) /\ old[b].finish = s[hi]
      BY <1>18, <1>20, <3>1
    <3>4. Place(t, s, lo - 1) # Null
      <4>1. lo - 1 \in 0 .. n
        BY <1>2, <3>1
      <4>2. \A i \in 0 .. Len(s) : Place(t, s, i) # Null
        BY <1>1, PlaceIs
      <4>. QED
        BY <4>1, <4>2 DEF n
    <3>5. before = s[hi] <=> p = hi
      <4>1. Place(t, s, hi) = s[hi] /\ hi \in 0 .. n /\ p \in 0 .. n
        BY <1>2, <1>3, <3>1 DEF Place
      <4>. QED
        BY <1>2, <4>1 DEF before
    <3>6. bks[b] = IF p = hi THEN [old[b] EXCEPT !.finish = last] ELSE old[b]
      BY <1>11, <3>3, <3>4, <3>5 DEF BucketWith, old
    <3>7. bks[b].before = Place(t, s, lo - 1) /\ bks[b].finish = (IF p = hi THEN last ELSE s[hi])
      <4>1. old[b] = [before |-> old[b].before, finish |-> old[b].finish]
        BY <1>12 DEF BucketRecords
      <4>. QED
        BY <3>3, <3>6, <4>1
    <3>8. ~(last = bks[b].finish /\ p < n /\ b = nextin)
      <4>. SUFFICES ASSUME last = bks[b].finish, p < n, b = nextin PROVE FALSE
        OBVIOUS
      <4>1. p = hi
        BY <1>5, <3>1, <3>7 DEF n
      <4>2. p + 1 <= hi
        BY <1>8, <3>2
      <4>. QED
        BY <1>3, <4>1, <4>2
    <3>9. r.buckets[t][b] = bks[b]
      BY <1>10, <3>8 DEF old
    <3>10. Block(r, t, q, b, lo, hi + l)
      BY <1>1, <1>3, <1>9, <1>13, <1>14, <3>1, SplicedOwn DEF q, l, n
    <3>11. Place(t, q, lo - 1) = Place(t, s, lo - 1)
      <4>1. lo - 1 \in 0 .. p
        BY <1>2, <1>3, <3>1
      <4>. QED
        BY <1>15, <4>1
    <3>12. bks[b].finish = q[hi + l]
      <4>1. CASE p = hi
        BY <1>17, <3>7, <4>1
      <4>2. CASE p # hi
        <5>1. hi > p
          BY <1>3, <3>1, <4>2
        <5>. QED
          BY <1>16, <3>1, <3>7, <4>2, <5>1
      <4>. QED
        BY <4>1, <4>2
    <3>13. Len(q) \in Nat
      BY <1>2, <1>3, <1>4
    <3>. QED
      BY <3>7, <3>9, <3>10, <3>11, <3>12, <3>13, BlockRight
  <2>. QED
    BY <2>1, <2>2
<1>22. ASSUME NEW c \in DOMAIN old, c # b PROVE BucketRight(r, t, q, c, FALSE)
  <2>0. bks[c] = old[c] /\ Len(q) \in Nat
    BY <1>2, <1>3, <1>4, <1>11, <1>22
  <2>1. \A i \in 1 .. Len(g) : ~In(r, t, g, c, i)
    BY <1>14, <1>22 DEF In, l
  <2>2. CASE Vacant(mem, t, s, c)
    <3>1. ~(p < n /\ c = nextin)
      BY <1>8, <2>2 DEF Vacant, n
    <3>2. r.buckets[t][c] = NoBucket
      BY <1>10, <1>22, <1>19, <2>0, <2>2, <3>1
    <3>3. Vacant(r, t, q, c)
      BY <1>1, <1>9, <1>13, <2>1, <2>2, SplicedOthers DEF q
    <3>. QED
      BY <3>2, <3>3 DEF BucketRight
  <2>3. CASE ~Vacant(mem, t, s, c)
    <3>1. PICK lo, hi \in 1 .. n : Block(mem, t, s, c, lo, hi)
      BY <1>22, <2>3, VacantOrBlock DEF old, n
    <3>2. lo <= hi /\ \A i \in 1 .. n : In(mem, t, s, c, i) <=> lo <= i /\ i <= hi
      BY <3>1 DEF Block, n
    <3>3. old[c].before = Place(t, s, lo - 1) /\ old[c].finish = s[hi]
      BY <1>22, <1>18, <3>1
    <3>4. hi <= p \/ p < lo
      BY <1>2, <1>22, <3>1, PlaceOfOthers DEF n
    <3>5. lo = p + 1 => Vacant(mem, t, s, b) \/ (p > 0 /\ In(mem, t, s, b, p))
      BY <1>2, <1>22, <3>1, PlaceOfOthers DEF n
    <3>6. p < n => (c = nextin <=> lo <= p + 1 /\ p + 1 <= hi)
      <4>. SUFFICES ASSUME p < n PROVE c = nextin <=> In(mem, t, s, c, p + 1)
        BY <1>8, <3>2
      <4>. QED
        BY <1>8 DEF In
    <3>7. CASE hi <= p
      <4>1. ~(p < n /\ c = nextin)
        BY <1>3, <3>1, <3>6, <3>7
      <4>2. r.buckets[t][c] = old[c]
        BY <1>10, <1>22, <2>0, <4>1
      <4>3. Block(r, t, q, c, lo, hi)
        BY <1>1, <1>9, <1>13, <2>1, <3>1, <3>7, SplicedOthers DEF q, n
      <4>4. q[hi] = s[hi] /\ Place(t, q, lo - 1) = Place(t, s, lo - 1)
        <5>1. lo - 1 \in 0 .. p
          BY <1>3, <3>1, <3>2, <3>7
        <5>. QED
          BY <1>15, <1>16, <3>1, <3>7, <5>1
      <4>. QED
        BY <2>0, <3>3, <4>2, <4>3, <4>4, BlockRight
    <3>8. CASE p < lo
      <4>1. Block(r, t, q, c, lo + l, hi + l)
        BY <1>1, <1>9, <1>13, <2>1, <3>1, <3>8, SplicedOthers DEF q, n, l
      <4>2. q[hi + l] = s[hi]
        <5>1. hi > p
          BY <1>3, <3>1, <3>2, <3>8
        <5>. QED
          BY <1>16, <3>1, <5>1
      <4>3. CASE lo = p + 1
        <5>1. p < n /\ c = nextin
          <6>1. p < n
            BY <1>2, <1>3, <3>1, <4>3
          <6>. QED
            BY <3>1, <3>2, <3>6, <4>3, <6>1
        <5>2. last = bks[b].finish
          <6>1. CASE Vacant(mem, t, s, b)
            <7>1. old[b] = NoBucket
              BY <1>19, <1>20, <6>1
            <7>. QED
              BY <1>11, <7>1 DEF BucketWith, NoBucket, old
          <6>2. CASE p > 0 /\ In(mem, t, s, b, p)
            <7>0. ~Vacant(mem, t, s, b)
              BY <1>3, <6>2 DEF Vacant, n
            <7>1. PICK x, y \in 1 .. n : Block(mem, t, s, b, x, y)
              BY <7>0, VacantOrBlock DEF n
            <7>2. \A i \in 1 .. n : In(mem, t, s, b, i) <=> x <= i /\ i <= y
              BY <7>1 DEF Block, n
            <7>3. ~In(mem, t, s, b, p + 1)
              BY <1>8, <1>22, <5>1 DEF In
            <7>4. y = p
              <8>1. x <= p /\ p <= y
                BY <1>3, <6>2, <7>2
              <8>2. ~(x <= p + 1 /\ p + 1 <= y)
                BY <1>8, <5>1, <7>2, <7>3
              <8>. QED
                BY <1>3, <7>1, <8>1, <8>2
            <7>5. old[b].finish = s[p]
              BY <1>18, <1>20, <7>1, <7>4
            <7>6. before = s[p] /\ old[b].before # Null
              <8>1. before = s[p]
                BY <6>2 DEF before, Place
              <8>2. old[b].before = Place(t, s, x - 1)
                BY <1>18, <1>20, <7>1
              <8>3. x - 1 \in 0 .. n
                BY <1>2, <7>1
              <8>4. \A i \in 0 .. Len(s) : Place(t, s, i) # Null
                BY <1>1, PlaceIs
              <8>. QED
                BY <8>1, <8>2, <8>3, <8>4 DEF n
            <7>7. bks[b] = [old[b] EXCEPT !.finish = last]
              BY <1>11, <7>5, <7>6 DEF BucketWith, old
            <7>8. old[b] = [before |-> old[b].before, finish |-> old[b].finish]
              BY <1>12 DEF BucketRecords
            <7>. QED
              BY <7>7, <7>8
          <6>. QED
            BY <3>5, <4>3, <6>1, <6>2
        <5>3. r.buckets[t][c] = [old[c] EXCEPT !.before = last]
          BY <1>10, <1>22, <2>0, <5>1, <5>2
        <5>4. old[c] = [before |-> old[c].before, finish |-> old[c].finish]
          <6>1. old \in [0 .. bucket_count(mem, t) - 1 -> BucketRecords(T)]
            BY BucketIn DEF old
          <6>2. old[c] \in BucketRecords(T)
            BY <1>22, <6>1
          <6>. QED
            BY <6>2 DEF BucketRecords
        <5>5. r.buckets[t][c].before = last /\ r.buckets[t][c].finish = s[hi]
          BY <3>3, <5>3, <5>4
        <5>6. (lo + l) - 1 = p + l
          BY <1>3, <4>3
        <5>. QED
          BY <1>15, <2>0, <4>1, <4>2, <5>5, <5>6, BlockRight
      <4>4. CASE lo # p + 1
        <5>1. ~(p < n /\ c = nextin)
          BY <1>3, <3>1, <3>6, <3>8, <4>4
        <5>2. r.buckets[t][c] = old[c]
          BY <1>10, <1>22, <2>0, <5>1
        <5>3. lo - 1 \in p + 1 .. n /\ (lo + l) - 1 = (lo - 1) + l
          BY <1>2, <1>3, <3>1, <3>8, <4>4
        <5>4. Place(t, q, (lo + l) - 1) = Place(t, s, lo - 1)
          BY <1>15, <5>3
        <5>. QED
          BY <2>0, <3>3, <4>1, <4>2, <5>2, <5>4, BlockRight
      <4>. QED
        BY <4>3, <4>4
    <3>. QED
      BY <3>4, <3>7, <3>8
  <2>. QED
    BY <2>2, <2>3
<1>. QED
  BY <1>9, <1>21, <1>22 DEF q, old, SameBuckets, BucketsRight

\* r is mem but for the chain, the size and the buckets of t.
Elsewhere(mem, r, T, t) ==
    /\ \A o \in T \ {t} : r.size[o] = mem.size[o] /\ r.buckets[o] = mem.buckets[o]
    /\ SameBuckets(mem, r, t)

\* No link has changed but those of x and z.
LinksButTwo(mem, r, x, z) == \A y \in DOMAIN mem.next : y # x /\ y # z => r.next[y] = mem.next[y]

\* The nodes g are in table t, behind the first p of s.
Inserted(mem, r, T, t, s, p, g) ==
    /\ r \in Memories(T) /\ Filed(r, t, Spliced(s, p, g), FALSE) /\ r.key = mem.key
    /\ Elsewhere(mem, r, T, t)
    /\ LinksButTwo(mem, r, Place(t, s, p), g[Len(g)])

\* What insert_nodes makes of a table.
LEMMA InsertNodesIs ==
    ASSUME NEW T, Heads(T), NEW mem \in Memories(T), NEW t \in T, NEW s, Filed(mem, t, s, FALSE),
           NEW b \in DOMAIN mem.buckets[t], NEW g, Group(mem, t, s, b, g), NEW p \in 0 .. Len(s),
           Mayput(mem, t, s, b, p), NEW r, r = insert_nodes(mem, t, b, Place(t, s, p), g)
    PROVE  Inserted(mem, r, T, t, s, p, g)
<1>. DEFINE l == Len(g)
            last == g[l]
            before == Place(t, s, p)
            next == [mem.next EXCEPT ![last] = mem.next[before], ![before] = g[1]]
            size == [mem.size EXCEPT ![t] = @ + l]
            nb == BucketsWith(mem, t, b, before, last)
            buckets == [mem.buckets EXCEPT ![t] = nb]
<1>1. ChainIs(mem, t, s) /\ s \in Seq(DOMAIN mem.key) /\ g \in Seq(DOMAIN mem.key) /\ l > 0 /\ mem.size[t] = Len(s)
  BY DEF Filed, ChainIs, Group
<1>2. before \in DOMAIN mem.next /\ before \in T \cup Nodes /\ Len(s) \in Nat
  BY <1>1, PlaceIs
<1>3. l \in Nat /\ l \in 1 .. l /\ 1 \in 1 .. l
  BY <1>1
<1>4. last \in DOMAIN mem.key /\ g[1] \in DOMAIN mem.key
  <2>1. g \in [1 .. l -> DOMAIN mem.key]
    BY <1>1
  <2>. HIDE DEF l
  <2>. QED
    BY <1>3, <2>1
<1>5. /\ DOMAIN mem.key \subseteq Nodes /\ mem.key \in [DOMAIN mem.key -> Keys]
      /\ mem.next \in [T \cup DOMAIN mem.key -> Nodes \cup {Null}]
      /\ mem.size \in [T -> Nat] /\ mem.buckets \in [T -> Arrays(T)]
  BY MemoryHas
<1>6. before # last
  <2>1. \A j \in 1 .. Len(s) : last # s[j]
    BY <1>3 DEF Group
  <2>2. last # t
    BY <1>4, <1>5 DEF Heads
  <2>. QED
    BY <1>2, <2>1, <2>2 DEF Place
<1>7. r = [next |-> next, key |-> mem.key, size |-> size, buckets |-> buckets]
  <2>1. insert_nodes(mem, t, b, before, g) = NodesInserted(mem, t, b, before, g)
    <3>. HIDE DEF before
    <3>. QED
      BY <1>1, <1>2, <1>6, InsertNodesFields
  <2>. QED
    BY <2>1 DEF NodesInserted
<1>8. last \in DOMAIN mem.next /\ mem.next[before] \in Nodes \cup {Null}
  BY <1>2, <1>4, <1>5
<1>. HIDE DEF before, last, l, nb
<1>9. nb \in Arrays(T)
  <2>1. mem.buckets[t] \in Arrays(T)
    BY <1>5
  <2>2. PICK n \in Nat \ {0} : mem.buckets[t] \in [0 .. n - 1 -> BucketRecords(T)]
    BY <2>1 DEF Arrays
  <2>. DEFINE bks == [mem.buckets[t] EXCEPT ![b] = BucketWith(@, before, last)]
              c == bucket(mem, t, mem.key[mem.next[before]])
  <2>3. mem.buckets[t][b] \in BucketRecords(T)
    BY <2>2
  <2>4. BucketWith(mem.buckets[t][b], before, last) \in BucketRecords(T)
    <3>. DEFINE bk == mem.buckets[t][b]
    <3>1. bk = [before |-> bk.before, finish |-> bk.finish] /\ bk.before \in T \cup Nodes \cup {Null}
      BY <2>3 DEF BucketRecords
    <3>2. last \in Nodes
      BY <1>4, <1>5
    <3>. HIDE DEF bk
    <3>3. [before |-> before, finish |-> last] \in BucketRecords(T)
      BY <1>2, <3>2 DEF BucketRecords
    <3>4. [bk EXCEPT !.finish = last] \in BucketRecords(T)
      <4>1. [bk EXCEPT !.finish = last] = [before |-> bk.before, finish |-> last]
        BY <3>1
      <4>. QED
        BY <3>1, <3>2, <4>1 DEF BucketRecords
    <3>5. bk \in BucketRecords(T)
      BY <2>3 DEF bk
    <3>6. BucketWith(bk, before, last) \in BucketRecords(T)
      BY <3>3, <3>4, <3>5 DEF BucketWith
    <3>. QED
      BY <3>6 DEF bk
  <2>5. bks \in [0 .. n - 1 -> BucketRecords(T)]
    BY <2>2, <2>4
  <2>6. ASSUME mem.next[before] # Null PROVE [bks[c] EXCEPT !.before = last] \in BucketRecords(T)
    <3>1. mem.next[before] \in DOMAIN mem.key
      <4>1. Behind(s, p) # Null => p + 1 \in 1 .. Len(s)
        BY <1>2 DEF Behind
      <4>2. mem.next[before] = Behind(s, p)
        BY <1>1 DEF ChainIs, before
      <4>3. s \in [1 .. Len(s) -> DOMAIN mem.key]
        BY <1>1
      <4>. QED
        BY <2>6, <4>1, <4>2, <4>3 DEF Behind
    <3>2. c \in DOMAIN mem.buckets[t]
      <4>1. mem.key[mem.next[before]] \in Keys
        BY <1>5, <3>1
      <4>. QED
        BY <4>1, BucketIn
    <3>. HIDE DEF c
    <3>3. bks[c] \in BucketRecords(T)
      BY <2>2, <2>5, <3>2
    <3>. HIDE DEF bks
    <3>4. [bks[c] EXCEPT !.before = last] = [before |-> last, finish |-> bks[c].finish]
      BY <3>3 DEF BucketRecords
    <3>. QED
      BY <1>4, <1>5, <3>3, <3>4 DEF BucketRecords
  <2>7. nb \in [0 .. n - 1 -> BucketRecords(T)]
    <3>. HIDE DEF c
    <3>1. nb = IF last = bks[b].finish /\ mem.next[before] # Null THEN [bks EXCEPT ![c].before = last] ELSE bks
      BY DEF nb, BucketsWith, c
    <3>. HIDE DEF bks
    <3>. QED
      BY <2>5, <2>6, <3>1
  <2>. QED
    BY <2>7 DEF Arrays
<1>10. r \in Memories(T)
  <2>0. r.key = mem.key /\ r.next = next /\ r.size = size /\ r.buckets = buckets
    BY <1>7
  <2>1. next \in [T \cup DOMAIN mem.key -> Nodes \cup {Null}]
    BY <1>2, <1>4, <1>5, <1>8
  <2>2. size \in [T -> Nat]
    BY <1>3, <1>5
  <2>3. buckets \in [T -> Arrays(T)]
    BY <1>5, <1>9
  <2>. HIDE DEF next, size, buckets
  <2>4. r = [next |-> r.next, key |-> r.key, size |-> r.size, buckets |-> r.buckets]
    BY <1>7, <2>0
  <2>. QED
    BY <1>5, <2>0, <2>1, <2>2, <2>3, <2>4, MemoryIs
<1>11. r.key = mem.key /\ r.next = next /\ r.size = size /\ r.buckets = buckets
  BY <1>7
<1>12. r.buckets[t] = nb
  BY <1>5, <1>11
<1>13. SameBuckets(mem, r, t) /\ BucketsRight(r, t, Spliced(s, p, g), FALSE)
  <2>1. r.buckets[t] = BucketsWith(mem, t, b, Place(t, s, p), g[Len(g)]) /\ r.key = mem.key
    BY <1>11, <1>12 DEF nb, before, last, l
  <2>. QED
    BY <2>1, SplicedBuckets
<1>14. ChainIs(r, t, Spliced(s, p, g))
  <2>1. r.next = [mem.next EXCEPT ![g[Len(g)]] = Behind(s, p), ![Place(t, s, p)] = g[1]]
    BY <1>1, <1>11 DEF before, last, l, ChainIs
  <2>. QED
    BY <1>1, <1>11, <2>1, SplicedChain
<1>15. r.size[t] = Len(Spliced(s, p, g))
  <2>1. Len(Spliced(s, p, g)) = Len(s) + Len(g)
    BY <1>1, SplicedIs
  <2>. QED
    BY <1>1, <1>5, <1>11, <2>1 DEF l
<1>16. Elsewhere(mem, r, T, t)
  BY <1>5, <1>11, <1>13 DEF Elsewhere
<1>17. LinksButTwo(mem, r, Place(t, s, p), g[Len(g)])
  BY <1>11 DEF LinksButTwo, before, last, l
<1>. QED
  BY <1>10, <1>11, <1>13, <1>14, <1>15, <1>16, <1>17 DEF Filed, Inserted

-----------------------------------------------------------------------------
(* Nodes taken out of a chain: Spliced(s, p, g) becomes s.                 *)

\* The buckets the group leaves alone keep their nodes.
LEMMA CutOthers ==
    ASSUME NEW mem, NEW r, NEW t, NEW S, NEW s \in Seq(S), NEW g \in Seq(S), NEW p \in 0 .. Len(s), NEW c,
           bucket_count(mem, t) = bucket_count(r, t), \A i \in 1 .. Len(s) : mem.key[s[i]] = r.key[s[i]],
           Len(g) > 0, \A i \in 1 .. Len(g) : ~In(mem, t, g, c, i),
           NEW lo, NEW hi, Block(mem, t, Spliced(s, p, g), c, lo, hi)
    PROVE  \/ hi <= p /\ Block(r, t, s, c, lo, hi)
           \/ p + Len(g) < lo /\ Block(r, t, s, c, lo - Len(g), hi - Len(g))
<1>. DEFINE q == Spliced(s, p, g)
            n == Len(s)
            l == Len(g)
<1>0. Len(q) = n + l
  BY SplicedIs
<1>2. /\ \A i \in 1 .. p : In(mem, t, q, c, i) <=> In(r, t, s, c, i)
      /\ \A i \in 1 .. l : ~In(mem, t, q, c, p + i)
      /\ \A i \in p + 1 .. n : In(mem, t, q, c, i + l) <=> In(r, t, s, c, i)
  BY SplicedIn
<1>. HIDE DEF q
<1>1. n \in Nat /\ l \in Nat /\ l > 0 /\ p \in Nat /\ p <= n
  OBVIOUS
<1>3. /\ lo \in 1 .. n + l /\ hi \in lo .. n + l
      /\ \A i \in 1 .. n + l : In(mem, t, q, c, i) <=> lo <= i /\ i <= hi
  BY <1>0 DEF Block, q
<1>. HIDE DEF n, l
<1>4. ~(lo <= p + 1 /\ p + 1 <= hi) /\ ~(lo <= p + l /\ p + l <= hi)
  <2>1. 1 \in 1 .. l /\ l \in 1 .. l /\ p + 1 \in 1 .. n + l /\ p + l \in 1 .. n + l
    BY <1>1
  <2>. QED
    BY <1>2, <1>3, <2>1
<1>5. hi <= p \/ p + l < lo
  <2>. SUFFICES ASSUME p + 1 <= hi, lo <= p + l PROVE FALSE
    BY <1>1, <1>3
  <2>1. p + 2 <= lo /\ hi <= p + l - 1
    BY <1>1, <1>3, <1>4
  <2>2. lo - p \in 1 .. l /\ p + (lo - p) = lo
    BY <1>1, <1>3, <2>1
  <2>3. ~In(mem, t, q, c, lo)
    BY <1>2, <2>2
  <2>. QED
    BY <1>1, <1>3, <2>3
<1>6. CASE hi <= p
  <2>1. \A i \in 1 .. n : In(r, t, s, c, i) <=> lo <= i /\ i <= hi
    <3>. TAKE i \in 1 .. n
    <3>1. CASE i <= p
      <4>1. i \in 1 .. p /\ i \in 1 .. n + l
        BY <1>1, <3>1
      <4>. QED
        BY <1>2, <1>3, <4>1
    <3>2. CASE i > p
      <4>1. i \in p + 1 .. n /\ i + l \in 1 .. n + l /\ ~(i <= hi) /\ ~(i + l <= hi)
        BY <1>1, <1>3, <1>6, <3>2
      <4>. QED
        BY <1>2, <1>3, <4>1
    <3>. QED
      BY <1>1, <3>1, <3>2
  <2>2. lo \in 1 .. n /\ hi \in lo .. n
    BY <1>1, <1>3, <1>6
  <2>. QED
    BY <1>6, <2>1, <2>2 DEF Block, n
<1>7. CASE p + l < lo
  <2>1. \A i \in 1 .. n : In(r, t, s, c, i) <=> lo - l <= i /\ i <= hi - l
    <3>. TAKE i \in 1 .. n
    <3>1. CASE i <= p
      <4>1. i \in 1 .. p /\ i \in 1 .. n + l /\ ~(lo <= i) /\ ~(lo - l <= i)
        BY <1>1, <1>3, <1>7, <3>1
      <4>. QED
        BY <1>2, <1>3, <4>1
    <3>2. CASE i > p
      <4>1. i \in p + 1 .. n /\ i + l \in 1 .. n + l /\ (i + l <= hi <=> i <= hi - l) /\ (lo <= i + l <=> lo - l <= i)
        BY SMTT(30), <1>1, <1>3, <3>2
      <4>. QED
        BY <1>2, <1>3, <4>1
    <3>. QED
      BY <1>1, <3>1, <3>2
  <2>2. lo - l \in 1 .. n /\ hi - l \in lo - l .. n
    BY <1>1, <1>3, <1>7
  <2>. QED
    BY <1>7, <2>1, <2>2 DEF Block, n, l
<1>. QED
  BY <1>5, <1>6, <1>7

\* The bucket the group leaves keeps the rest.
LEMMA CutOwn ==
    ASSUME NEW mem, NEW r, NEW t, NEW S, NEW s \in Seq(S), NEW g \in Seq(S), NEW p \in 0 .. Len(s), NEW b,
           bucket_count(mem, t) = bucket_count(r, t), \A i \in 1 .. Len(s) : mem.key[s[i]] = r.key[s[i]],
           Len(g) > 0, \A i \in 1 .. Len(g) : In(mem, t, g, b, i),
           NEW lo, NEW hi, Block(mem, t, Spliced(s, p, g), b, lo, hi)
    PROVE  /\ lo <= p + 1 /\ p + Len(g) <= hi
           /\ lo = p + 1 /\ hi = p + Len(g) => Vacant(r, t, s, b)
           /\ ~(lo = p + 1 /\ hi = p + Len(g)) => Block(r, t, s, b, lo, hi - Len(g))
<1>. DEFINE q == Spliced(s, p, g)
            n == Len(s)
            l == Len(g)
<1>0. Len(q) = n + l
  BY SplicedIs
<1>2. /\ \A i \in 1 .. p : In(mem, t, q, b, i) <=> In(r, t, s, b, i)
      /\ \A i \in 1 .. l : In(mem, t, q, b, p + i)
      /\ \A i \in p + 1 .. n : In(mem, t, q, b, i + l) <=> In(r, t, s, b, i)
  BY SplicedIn
<1>. HIDE DEF q
<1>1. n \in Nat /\ l \in Nat /\ l > 0 /\ p \in Nat /\ p <= n
  OBVIOUS
<1>3. /\ lo \in 1 .. n + l /\ hi \in lo .. n + l
      /\ \A i \in 1 .. n + l : In(mem, t, q, b, i) <=> lo <= i /\ i <= hi
  BY <1>0 DEF Block, q
<1>. HIDE DEF n, l
<1>4. lo <= p + 1 /\ p + l <= hi
  <2>1. 1 \in 1 .. l /\ l \in 1 .. l /\ p + 1 \in 1 .. n + l /\ p + l \in 1 .. n + l
    BY <1>1
  <2>. QED
    BY <1>2, <1>3, <2>1
<1>5. \A i \in 1 .. n : In(r, t, s, b, i) <=> lo <= i /\ i <= hi - l
  <2>. TAKE i \in 1 .. n
  <2>1. CASE i <= p
    <3>1. i \in 1 .. p /\ i \in 1 .. n + l /\ i <= hi - l /\ i <= hi
      BY <1>1, <1>3, <1>4, <2>1
    <3>. QED
      BY <1>2, <1>3, <3>1
  <2>2. CASE i > p
    <3>1. i \in p + 1 .. n /\ i + l \in 1 .. n + l /\ (i + l <= hi <=> i <= hi - l) /\ lo <= i /\ lo <= i + l
      BY SMTT(30), <1>1, <1>3, <1>4, <2>2
    <3>. QED
      BY <1>2, <1>3, <3>1
  <2>. QED
    BY <1>1, <2>1, <2>2
<1>6. lo = p + 1 /\ hi = p + l => Vacant(r, t, s, b)
  <2>. SUFFICES ASSUME lo = p + 1, hi = p + l, NEW i \in 1 .. n PROVE ~In(r, t, s, b, i)
    BY DEF Vacant, n
  <2>1. ~(lo <= i /\ i <= hi - l)
    BY <1>1
  <2>. QED
    BY <1>5, <2>1
<1>7. ~(lo = p + 1 /\ hi = p + l) => Block(r, t, s, b, lo, hi - l)
  <2>. SUFFICES ASSUME ~(lo = p + 1 /\ hi = p + l) PROVE Block(r, t, s, b, lo, hi - l)
    OBVIOUS
  <2>1. lo \in 1 .. n /\ hi - l \in lo .. n
    BY <1>1, <1>3, <1>4
  <2>. QED
    BY <1>5, <2>1 DEF Block, n
<1>. QED
  BY <1>4, <1>6, <1>7 DEF n, l

LEMMA CutVacant ==
    ASSUME NEW mem, NEW r, NEW t, NEW S, NEW s \in Seq(S), NEW g \in Seq(S), NEW p \in 0 .. Len(s), NEW c,
           bucket_count(mem, t) = bucket_count(r, t), \A i \in 1 .. Len(s) : mem.key[s[i]] = r.key[s[i]],
           \A i \in 1 .. Len(g) : ~In(mem, t, g, c, i), Vacant(mem, t, Spliced(s, p, g), c)
    PROVE  Vacant(r, t, s, c)
BY SplicedOthers

\* The chain without the group.
LEMMA CutChain ==
    ASSUME NEW T, Heads(T), NEW mem \in Memories(T), NEW t \in T,
           NEW s \in Seq(DOMAIN mem.key), NEW g \in Seq(DOMAIN mem.key), Len(g) > 0, NEW p \in 0 .. Len(s),
           ChainIs(mem, t, Spliced(s, p, g)),
           NEW r, DOMAIN r.key = DOMAIN mem.key \ ToSet(g),
           \A x \in T \cup DOMAIN r.key :
              r.next[x] = IF x = Place(t, s, p) THEN mem.next[g[Len(g)]] ELSE mem.next[x]
    PROVE  ChainIs(r, t, s)
<1>. DEFINE n == Len(s)
            l == Len(g)
            q == Spliced(s, p, g)
            S == DOMAIN mem.key
<1>0. s \in Seq(S) /\ g \in Seq(S)
  OBVIOUS
<1>. HIDE DEF S
<1>1. q \in Seq(S) /\ Len(q) = n + l
  BY <1>0, SplicedIs
<1>2. \A i \in 1 .. p : q[i] = s[i]
  BY <1>0, SplicedIs
<1>3. \A i \in 1 .. l : q[p + i] = g[i]
  BY <1>0, SplicedIs
<1>4. \A i \in p + 1 .. n : q[i + l] = s[i]
  BY <1>0, SplicedIs
<1>5. /\ \A i \in 0 .. p : Place(t, q, i) = Place(t, s, i)
      /\ \A i \in p + 1 .. n : Place(t, q, i + l) = Place(t, s, i)
      /\ Place(t, q, p + l) = g[l]
  <2>1. \A i \in 0 .. p : Place(t, q, i) = Place(t, s, i)
    BY <1>0, SplicedPlace
  <2>2. \A i \in p + 1 .. n : Place(t, q, i + l) = Place(t, s, i)
    BY <1>0, SplicedPlace
  <2>3. l > 0 => Place(t, q, p + l) = g[l]
    BY <1>0, SplicedPlace
  <2>. QED
    BY <2>1, <2>2, <2>3
<1>6. /\ \A i, j \in 0 .. n + l : Place(t, q, i) = Place(t, q, j) => i = j
      /\ \A i \in 0 .. n + l : mem.next[Place(t, q, i)] = Behind(q, i)
      /\ \A i, j \in 1 .. n + l : q[i] = q[j] => i = j
  <2>1. ChainIs(mem, t, q)
    OBVIOUS
  <2>. HIDE DEF q
  <2>2. \A i, j \in 0 .. Len(q) : Place(t, q, i) = Place(t, q, j) => i = j
    BY <2>1, PlaceIs
  <2>3. /\ \A i \in 0 .. Len(q) : mem.next[Place(t, q, i)] = Behind(q, i)
        /\ \A i, j \in 1 .. Len(q) : q[i] = q[j] => i = j
    BY <2>1 DEF ChainIs, Distinct
  <2>. QED
    BY <1>1, <2>2, <2>3
<1>7. n \in Nat /\ l \in Nat /\ l > 0 /\ p \in Nat /\ p <= n /\ s \in [1 .. n -> S] /\ g \in [1 .. l -> S]
  BY <1>0
<1>8. DOMAIN g = 1 .. l
  BY <1>0
<1>. HIDE DEF q, n, l
<1>9. \A i \in 1 .. n : s[i] \notin ToSet(g)
  <2>. SUFFICES ASSUME NEW i \in 1 .. n, NEW j \in 1 .. l, s[i] = g[j] PROVE FALSE
    BY <1>8 DEF ToSet
  <2>1. q[p + j] = g[j] /\ p + j \in 1 .. n + l
    BY <1>3, <1>7
  <2>2. \A x, y \in 1 .. n + l : q[x] = q[y] => x = y
    BY <1>6
  <2>3. CASE i <= p
    <3>1. i \in 1 .. p /\ i \in 1 .. n + l /\ i # p + j
      BY <1>7, <2>3
    <3>2. q[i] = s[i]
      BY <1>2, <3>1
    <3>. QED
      BY <2>1, <2>2, <3>1, <3>2
  <2>4. CASE i > p
    <3>1. i \in p + 1 .. n /\ i + l \in 1 .. n + l /\ i + l # p + j
      BY <1>7, <2>4
    <3>2. q[i + l] = s[i]
      BY <1>4, <3>1
    <3>. QED
      BY <2>1, <2>2, <3>1, <3>2
  <2>. QED
    BY <1>7, <2>3, <2>4
<1>10. s \in Seq(DOMAIN r.key)
  <2>1. \A i \in 1 .. n : s[i] \in DOMAIN r.key
    BY <1>7, <1>9 DEF S
  <2>. QED
    BY <1>7, <2>1 DEF n
<1>11. Distinct(s)
  <2>. SUFFICES ASSUME NEW i \in 1 .. n, NEW j \in 1 .. n, s[i] = s[j] PROVE i = j
    BY DEF Distinct, n
  <2>. DEFINE e(k) == IF k <= p THEN k ELSE k + l
  <2>1. \A k \in 1 .. n : e(k) \in 1 .. n + l /\ q[e(k)] = s[k]
    <3>. TAKE k \in 1 .. n
    <3>1. CASE k <= p
      <4>1. k \in 1 .. p /\ k \in 1 .. n + l
        BY <1>7, <3>1
      <4>. QED
        BY <1>2, <3>1, <4>1
    <3>2. CASE k > p
      <4>1. k \in p + 1 .. n /\ k + l \in 1 .. n + l
        BY <1>7, <3>2
      <4>. QED
        BY <1>4, <1>7, <3>2, <4>1
    <3>. QED
      BY <1>7, <3>1, <3>2
  <2>2. e(i) = e(j)
    <3>. HIDE DEF e
    <3>. QED
      BY <1>6, <2>1
  <2>. QED
    BY <1>7, <2>2
<1>12. ASSUME NEW i \in 0 .. n PROVE r.next[Place(t, s, i)] = Behind(s, i)
  <2>1. Place(t, s, i) \in T \cup DOMAIN r.key
    <3>1. i # 0 => i \in 1 .. n
      BY <1>7
    <3>2. \A k \in 1 .. n : s[k] \in DOMAIN r.key
      BY <1>7, <1>9 DEF S
    <3>. QED
      BY <3>1, <3>2 DEF Place
  <2>2. CASE i < p
    <3>1. i \in 0 .. p /\ p \in 0 .. p /\ i \in 0 .. n + l /\ p \in 0 .. n + l
      BY <1>7, <2>2
    <3>2. Place(t, s, i) # Place(t, s, p)
      BY <1>5, <1>6, <1>7, <2>2, <3>1
    <3>3. r.next[Place(t, s, i)] = Behind(q, i)
      BY <1>5, <1>6, <2>1, <3>1, <3>2
    <3>4. i + 1 \in 1 .. p /\ i < n /\ i < n + l
      BY <1>7, <2>2
    <3>. QED
      BY <1>1, <1>2, <3>3, <3>4 DEF Behind, n
  <2>3. CASE i = p
    <3>1. p + l \in 0 .. n + l
      BY <1>7
    <3>2. r.next[Place(t, s, i)] = Behind(q, p + l)
      BY <1>5, <1>6, <2>1, <2>3, <3>1 DEF l
    <3>3. CASE p < n
      <4>1. p + 1 \in p + 1 .. n /\ p + l < n + l /\ p + 1 + l = p + l + 1
        BY <1>7, <3>3
      <4>. QED
        BY <1>1, <1>4, <2>3, <3>2, <3>3, <4>1 DEF Behind, n
    <3>4. CASE ~(p < n)
      <4>1. ~(p + l < n + l)
        BY <1>7, <3>4
      <4>. QED
        BY <1>1, <2>3, <3>2, <3>4, <4>1 DEF Behind, n
    <3>. QED
      BY <3>3, <3>4
  <2>4. CASE i > p
    <3>1. i \in p + 1 .. n /\ p \in 0 .. p /\ i + l \in 0 .. n + l /\ p \in 0 .. n + l /\ i + l # p
      BY <1>7, <2>4
    <3>2. Place(t, s, i) # Place(t, s, p)
      BY <1>5, <1>6, <3>1
    <3>3. r.next[Place(t, s, i)] = Behind(q, i + l)
      BY <1>5, <1>6, <2>1, <3>1, <3>2
    <3>4. CASE i < n
      <4>1. i + 1 \in p + 1 .. n /\ i + l < n + l /\ i + 1 + l = i + l + 1
        BY <1>7, <2>4, <3>4
      <4>. QED
        BY <1>1, <1>4, <3>3, <3>4, <4>1 DEF Behind, n
    <3>5. CASE ~(i < n)
      <4>1. ~(i + l < n + l)
        BY <1>7, <3>5
      <4>. QED
        BY <1>1, <3>3, <3>5, <4>1 DEF Behind, n
    <3>. QED
      BY <3>4, <3>5
  <2>. QED
    BY <1>7, <2>2, <2>3, <2>4
<1>. QED
  BY <1>10, <1>11, <1>12 DEF ChainIs, n

\* The buckets of t after the nodes behind before up to last left b.
BucketsWithout(mem, t, b, before, last) ==
    LET bks == IF last = mem.buckets[t][b].finish /\ mem.next[last] # Null
               THEN [mem.buckets[t] EXCEPT ![bucket(mem, t, mem.key[mem.next[last]])].before = before]
               ELSE mem.buckets[t]
    IN  [bks EXCEPT ![b] = BucketWithout(@, before, last)]

\* What erase_nodes changes.
NodesErased(mem, t, b, before, g) ==
    [next |-> Forget([mem.next EXCEPT ![before] = mem.next[g[Len(g)]]], ToSet(g)),
     key |-> Forget(mem.key, ToSet(g)),
     size |-> [mem.size EXCEPT ![t] = @ - Len(g)],
     buckets |-> [mem.buckets EXCEPT ![t] = BucketsWithout(mem, t, b, before, g[Len(g)])]]

LEMMA EraseNodesFields ==
    ASSUME NEW T, Heads(T), NEW mem \in Memories(T), NEW t \in T, NEW b, NEW before, NEW g
    PROVE  erase_nodes(mem, t, b, before, g) = NodesErased(mem, t, b, before, g)
<1>. DEFINE last == g[Len(g)]
            c == bucket(mem, t, mem.key[mem.next[last]])
            bks == IF last = mem.buckets[t][b].finish /\ mem.next[last] # Null
                   THEN [mem.buckets[t] EXCEPT ![c].before = before]
                   ELSE mem.buckets[t]
            updated == IF last = mem.buckets[t][b].finish THEN NextBucket(mem, t, last, before) ELSE mem
            next == [mem.next EXCEPT ![before] = mem.next[last]]
            size == [mem.size EXCEPT ![t] = @ - Len(g)]
            nb == [bks EXCEPT ![b] = BucketWithout(@, before, last)]
            cut == [updated EXCEPT !.buckets[t][b] = BucketWithout(@, before, last), !.next[before] = mem.next[last],
                                   !.size[t] = @ - Len(g)]
            gone == ToSet(g)
<1>1. t \in DOMAIN mem.buckets /\ t \in DOMAIN mem.size
  <2>1. mem.buckets \in [T -> Arrays(T)] /\ mem.size \in [T -> Nat]
    BY MemoryHas
  <2>. QED
    BY <2>1
<1>2. mem = [next |-> mem.next, key |-> mem.key, size |-> mem.size, buckets |-> mem.buckets]
  BY FieldsOf
<1>3. updated = [next |-> mem.next, key |-> mem.key, size |-> mem.size, buckets |-> [mem.buckets EXCEPT ![t] = bks]]
  <2>1. CASE last = mem.buckets[t][b].finish /\ mem.next[last] # Null
    <3>1. updated = [mem EXCEPT !.buckets[t][c].before = before]
      BY <2>1 DEF NextBucket
    <3>. DEFINE bks2 == [mem.buckets[t] EXCEPT ![c].before = before]
    <3>2. bks = bks2
      BY <2>1
    <3>. HIDE DEF c, last
    <3>3. [mem EXCEPT !.buckets[t][c].before = before] =
             [next |-> mem.next, key |-> mem.key, size |-> mem.size, buckets |-> [mem.buckets EXCEPT ![t] = bks2]]
      BY <1>1, <1>2
    <3>. QED
      BY <3>1, <3>2, <3>3
  <2>2. CASE ~(last = mem.buckets[t][b].finish /\ mem.next[last] # Null)
    <3>1. updated = mem
      BY <2>2 DEF NextBucket
    <3>2. bks = mem.buckets[t]
      BY <2>2
    <3>3. [mem.buckets EXCEPT ![t] = mem.buckets[t]] = mem.buckets
      <4>1. mem.buckets \in [T -> Arrays(T)]
        BY MemoryHas
      <4>. QED
        BY <4>1
    <3>. HIDE DEF updated, bks
    <3>. QED
      BY <1>2, <3>1, <3>2, <3>3
  <2>. QED
    BY <2>1, <2>2
<1>4. erase_nodes(mem, t, b, before, g) =
         [cut EXCEPT !.next = Forget(@, gone), !.key = Forget(@, gone)]
  BY DEF erase_nodes, Last
<1>. HIDE DEF updated, gone
<1>5. cut = [next |-> next, key |-> mem.key, size |-> size, buckets |-> [mem.buckets EXCEPT ![t] = nb]]
  <2>. HIDE DEF bks, last
  <2>1. cut.next = next /\ cut.key = mem.key /\ cut.size = size
    BY <1>1, <1>3
  <2>2. cut.buckets = [mem.buckets EXCEPT ![t] = nb]
    BY <1>1, <1>3
  <2>3. cut \in [next : {cut.next}, key : {cut.key}, size : {cut.size}, buckets : {cut.buckets}]
    BY <1>3
  <2>. HIDE DEF cut, next, size, nb
  <2>. QED
    BY <2>1, <2>2, <2>3
<1>. HIDE DEF cut, nb
<1>6. [cut EXCEPT !.next = Forget(@, gone), !.key = Forget(@, gone)] =
         [next |-> Forget(next, gone), key |-> Forget(mem.key, gone), size |-> size,
          buckets |-> [mem.buckets EXCEPT ![t] = nb]]
  <2>. HIDE DEF next, size
  <2>. DEFINE nx == Forget(next, gone)
              ky == Forget(mem.key, gone)
              bs == [mem.buckets EXCEPT ![t] = nb]
              r == [cut EXCEPT !.next = nx, !.key = ky]
  <2>1. cut.next = next /\ cut.key = mem.key
    BY <1>5
  <2>2. [cut EXCEPT !.next = Forget(@, gone), !.key = Forget(@, gone)] = r
    BY <2>1
  <2>. HIDE DEF nx, ky, bs
  <2>3. r = [next |-> nx, key |-> ky, size |-> size, buckets |-> bs]
    <3>1. cut = [next |-> next, key |-> mem.key, size |-> size, buckets |-> bs]
      BY <1>5 DEF bs
    <3>2. r \in [next : {nx}, key : {ky}, size : {size}, buckets : {bs}]
      BY <3>1
    <3>. HIDE DEF r
    <3>. QED
      BY <3>2
  <2>. QED
    BY <2>2, <2>3 DEF nx, ky, bs
<1>7. nb = BucketsWithout(mem, t, b, before, last)
  BY DEF nb, BucketsWithout
<1>. QED
  BY <1>4, <1>6, <1>7 DEF NodesErased, gone

LEMMA EraseNodesCount ==
    ASSUME NEW T, Heads(T), NEW mem \in Memories(T), NEW t \in T, NEW b, NEW before, NEW g
    PROVE  bucket_count(erase_nodes(mem, t, b, before, g), t) = bucket_count(mem, t)
<1>. DEFINE bks == BucketsWithout(mem, t, b, before, g[Len(g)])
<1>1. DOMAIN bks = DOMAIN mem.buckets[t]
  BY DEF BucketsWithout
<1>2. erase_nodes(mem, t, b, before, g).buckets = [mem.buckets EXCEPT ![t] = bks]
  <2>1. erase_nodes(mem, t, b, before, g) = NodesErased(mem, t, b, before, g)
    BY EraseNodesFields
  <2>. QED
    BY <2>1 DEF NodesErased
<1>3. t \in DOMAIN mem.buckets
  BY MemoryHas
<1>. HIDE DEF bks
<1>. QED
  BY <1>1, <1>2, <1>3 DEF bucket_count

\* The buckets after the group left.
LEMMA CutBuckets ==
    ASSUME NEW T, Heads(T), NEW mem \in Memories(T), NEW t \in T,
           NEW s \in Seq(DOMAIN mem.key), NEW g \in Seq(DOMAIN mem.key), Len(g) > 0, NEW p \in 0 .. Len(s),
           Filed(mem, t, Spliced(s, p, g), FALSE),
           NEW b \in DOMAIN mem.buckets[t], \A i \in 1 .. Len(g) : In(mem, t, g, b, i),
           NEW r, \A i \in 1 .. Len(s) : r.key[s[i]] = mem.key[s[i]],
           r.buckets[t] = BucketsWithout(mem, t, b, Place(t, s, p), g[Len(g)])
    PROVE  SameBuckets(mem, r, t) /\ BucketsRight(r, t, s, FALSE)
<1>. DEFINE n == Len(s)
            l == Len(g)
            q == Spliced(s, p, g)
            last == g[l]
            before == Place(t, s, p)
            old == mem.buckets[t]
            nextin == bucket(mem, t, mem.key[q[p + l + 1]])
            touched == last = old[b].finish /\ p < n
            S == DOMAIN mem.key
<1>0. s \in Seq(S) /\ g \in Seq(S)
  OBVIOUS
<1>. HIDE DEF S
<1>1. q \in Seq(S) /\ Len(q) = n + l
  BY <1>0, SplicedIs
<1>2. \A i \in 1 .. p : q[i] = s[i]
  BY <1>0, SplicedIs
<1>3. \A i \in 1 .. l : q[p + i] = g[i]
  BY <1>0, SplicedIs
<1>4. \A i \in p + 1 .. n : q[i + l] = s[i]
  BY <1>0, SplicedIs
<1>5. /\ \A i \in 0 .. p : Place(t, q, i) = Place(t, s, i)
      /\ \A i \in p + 1 .. n : Place(t, q, i + l) = Place(t, s, i)
      /\ Place(t, q, p + l) = last
  <2>1. \A i \in 0 .. p : Place(t, q, i) = Place(t, s, i)
    BY <1>0, SplicedPlace
  <2>2. \A i \in p + 1 .. n : Place(t, q, i + l) = Place(t, s, i)
    BY <1>0, SplicedPlace
  <2>3. l > 0 => Place(t, q, p + l) = last
    BY <1>0, SplicedPlace
  <2>. QED
    BY <2>1, <2>2, <2>3
<1>6. n \in Nat /\ l \in Nat /\ l > 0 /\ p \in Nat /\ p <= n
  BY <1>0
<1>7. Filed(mem, t, q, FALSE) /\ ChainIs(mem, t, q)
  BY DEF Filed
<1>8. \A c \in DOMAIN old : \A lo, hi \in 1 .. n + l :
          Block(mem, t, q, c, lo, hi) => old[c].before = Place(t, q, lo - 1) /\ old[c].finish = q[hi]
  <2>. SUFFICES ASSUME NEW c \in DOMAIN mem.buckets[t], NEW lo, NEW hi, Block(mem, t, q, c, lo, hi)
                PROVE  mem.buckets[t][c].before = Place(t, q, lo - 1) /\ mem.buckets[t][c].finish = q[hi]
    OBVIOUS
  <2>. HIDE DEF n, l, q, last, before, old, nextin, touched, S
  <2>1. Begins(mem, t, c, Place(t, q, lo - 1)) /\ Ends(mem, t, c, q[hi])
    BY <1>7, RightBlock
  <2>. QED
    BY <2>1 DEF Begins, Ends
<1>9. \A c \in DOMAIN old : Vacant(mem, t, q, c) => old[c] = NoBucket
  <2>. HIDE DEF q, n, l, last, before, nextin, touched
  <2>1. \A c \in DOMAIN mem.buckets[t] : Vacant(mem, t, q, c) => Unused(mem, t, c)
    BY <1>7, RightVacant
  <2>. QED
    BY <2>1 DEF Unused
<1>10. \A c \in DOMAIN old : Vacant(mem, t, q, c) \/ \E lo, hi \in 1 .. n + l : Block(mem, t, q, c, lo, hi)
  <2>. HIDE DEF q
  <2>. QED
    BY <1>1, <1>7, VacantOrBlock
<1>11. \A i, j \in 0 .. n + l : Place(t, q, i) = Place(t, q, j) => i = j
  <2>. HIDE DEF q
  <2>1. \A i, j \in 0 .. Len(q) : Place(t, q, i) = Place(t, q, j) => i = j
    BY <1>7, PlaceIs
  <2>. QED
    BY <1>1, <2>1
<1>12. mem.next[last] = Behind(q, p + l) /\ (mem.next[last] # Null <=> p < n) /\ (p < n => mem.next[last] = q[p + l + 1])
  <2>. HIDE DEF q, n, l, last
  <2>1. \A i \in 0 .. n + l : mem.next[Place(t, q, i)] = Behind(q, i)
    BY <1>1, <1>7 DEF ChainIs
  <2>2. p + l \in 0 .. n + l
    BY <1>6
  <2>3. mem.next[last] = Behind(q, p + l)
    BY <1>5, <2>1, <2>2
  <2>4. \A i \in 1 .. Len(q) : q[i] # Null
    BY <1>7, PlaceIs
  <2>5. p < n <=> p + l < n + l
    BY <1>6
  <2>6. p < n => p + l + 1 \in 1 .. n + l
    BY <1>6
  <2>. QED
    BY <1>1, <2>3, <2>4, <2>5, <2>6 DEF Behind
<1>13. p < n => p + l + 1 \in 1 .. n + l /\ In(mem, t, q, nextin, p + l + 1)
  BY <1>6 DEF In
<1>14. DOMAIN r.buckets[t] = DOMAIN old /\ bucket_count(mem, t) = bucket_count(r, t)
  BY DEF BucketsWithout, bucket_count
<1>15. \A c \in DOMAIN old :
          LET bk == IF touched /\ c = nextin THEN [old[c] EXCEPT !.before = before] ELSE old[c]
          IN  r.buckets[t][c] = IF c = b THEN BucketWithout(bk, before, last) ELSE bk
  <2>. HIDE DEF q, n, l, last, before
  <2>1. CASE touched
    <3>1. last = mem.buckets[t][b].finish /\ mem.next[last] # Null /\ mem.next[last] = q[p + l + 1]
      BY <1>12, <2>1
    <3>2. r.buckets[t] = [[old EXCEPT ![nextin].before = before] EXCEPT ![b] = BucketWithout(@, before, last)]
      BY <3>1 DEF BucketsWithout, before, last, l
    <3>. HIDE DEF old, nextin
    <3>. QED
      BY <2>1, <3>2
  <2>2. CASE ~touched
    <3>1. ~(last = mem.buckets[t][b].finish /\ mem.next[last] # Null)
      BY <1>12, <2>2
    <3>2. r.buckets[t] = [old EXCEPT ![b] = BucketWithout(@, before, last)]
      BY <3>1 DEF BucketsWithout, before, last, l
    <3>. QED
      BY <2>2, <3>2
  <2>. QED
    BY <2>1, <2>2
<1>16. \A c \in DOMAIN old : old[c] = [before |-> old[c].before, finish |-> old[c].finish]
  <2>1. old \in [0 .. bucket_count(mem, t) - 1 -> BucketRecords(T)]
    BY BucketIn
  <2>2. \A c \in DOMAIN old : old[c] \in BucketRecords(T)
    BY <2>1
  <2>. QED
    BY <2>2 DEF BucketRecords
<1>17. \A i \in 1 .. Len(s) : mem.key[s[i]] = r.key[s[i]]
  OBVIOUS
<1>18. b \in DOMAIN old /\ \A i \in 1 .. Len(g) : In(mem, t, g, b, i)
  OBVIOUS
<1>19. Place(t, s, p) = before /\ Place(t, q, p) = before
  BY <1>5, <1>6
<1>20. q[p + l] = last
  BY <1>3, <1>6
<1>. HIDE DEF n, l, q, last, before, old, nextin, touched
<1>21. BucketRight(r, t, s, b, FALSE)
  <2>0. ~Vacant(mem, t, q, b)
    <3>1. In(mem, t, q, b, p + l) /\ p + l \in 1 .. n + l
      <4>1. In(mem, t, g, b, l) /\ l \in 1 .. l
        BY <1>6, <1>18 DEF l
      <4>2. mem.key[q[p + l]] = mem.key[g[l]]
        BY <1>20 DEF last
      <4>. QED
        BY <1>6, <4>1, <4>2 DEF In
    <3>. QED
      BY <1>1, <3>1 DEF Vacant
  <2>1. PICK lo, hi \in 1 .. n + l : Block(mem, t, q, b, lo, hi)
    BY <1>10, <1>18, <2>0
  <2>2. lo <= hi /\ \A i \in 1 .. n + l : In(mem, t, q, b, i) <=> lo <= i /\ i <= hi
    BY <1>1, <2>1 DEF Block
  <2>3. old[b].before = Place(t, q, lo - 1) /\ old[b].finish = q[hi]
    BY <1>8, <1>18, <2>1
  <2>4. /\ lo <= p + 1 /\ p + l <= hi
        /\ lo = p + 1 /\ hi = p + l => Vacant(r, t, s, b)
        /\ ~(lo = p + 1 /\ hi = p + l) => Block(r, t, s, b, lo, hi - l)
    BY <1>0, <1>6, <1>14, <1>17, <1>18, <2>1, CutOwn DEF q, l
  <2>5. last = old[b].finish <=> hi = p + l
    <3>1. Place(t, q, hi) = q[hi] /\ hi \in 0 .. n + l /\ p + l \in 0 .. n + l
      BY <1>6, <2>1 DEF Place
    <3>. QED
      BY <1>5, <1>11, <1>20, <2>3, <3>1
  <2>6. ~(touched /\ b = nextin)
    <3>. SUFFICES ASSUME touched, b = nextin PROVE FALSE
      OBVIOUS
    <3>1. hi = p + l /\ p < n
      BY <2>5 DEF touched
    <3>2. p + l + 1 <= hi
      BY <1>13, <2>2, <3>1
    <3>. QED
      BY <1>6, <3>1, <3>2
  <2>7. r.buckets[t][b] = BucketWithout(old[b], before, last)
    BY <1>15, <1>18, <2>6
  <2>8. before = old[b].before <=> lo = p + 1
    <3>1. lo - 1 \in 0 .. n + l /\ p \in 0 .. n + l
      BY <1>6, <2>1
    <3>2. lo - 1 = p <=> lo = p + 1
      BY <1>6, <2>1
    <3>. QED
      BY <1>11, <1>19, <2>3, <3>1, <3>2
  <2>9. old[b].finish # old[b].before
    <3>1. Place(t, q, hi) = q[hi] /\ hi \in 0 .. n + l /\ lo - 1 \in 0 .. n + l /\ lo - 1 # hi
      BY <1>6, <2>1, <2>2 DEF Place
    <3>. QED
      BY <1>11, <2>3, <3>1
  <2>10. CASE lo = p + 1 /\ hi = p + l
    <3>1. r.buckets[t][b] = NoBucket
      BY <2>5, <2>7, <2>8, <2>10 DEF BucketWithout
    <3>. QED
      BY <2>4, <2>10, <3>1 DEF BucketRight
  <2>11. CASE ~(lo = p + 1 /\ hi = p + l)
    <3>1. Block(r, t, s, b, lo, hi - l)
      BY <2>4, <2>11
    <3>2. Place(t, s, lo - 1) = old[b].before
      <4>1. lo - 1 \in 0 .. p
        BY <1>6, <2>1, <2>4
      <4>. QED
        BY <1>5, <2>3, <4>1
    <3>3. CASE hi = p + l
      <4>1. lo # p + 1 /\ before # old[b].before
        BY <2>8, <2>11, <3>3
      <4>2. r.buckets[t][b] = [old[b] EXCEPT !.finish = before]
        BY <2>5, <2>7, <3>3, <4>1 DEF BucketWithout
      <4>3. r.buckets[t][b].before = old[b].before /\ r.buckets[t][b].finish = before
        BY <1>16, <1>18, <4>2
      <4>4. hi - l = p /\ p # 0
        BY <1>6, <2>1, <2>4, <3>3, <4>1
      <4>5. before = s[hi - l]
        BY <4>4 DEF before, Place
      <4>6. Len(s) \in Nat
        BY <1>6 DEF n
      <4>. QED
        BY <3>1, <3>2, <4>3, <4>5, <4>6, BlockRight
    <3>4. CASE hi # p + l
      <4>1. r.buckets[t][b] = [old[b] EXCEPT !.finish = old[b].finish]
        BY <2>5, <2>7, <2>9, <3>4 DEF BucketWithout
      <4>2. r.buckets[t][b].before = old[b].before /\ r.buckets[t][b].finish = q[hi]
        BY <1>16, <1>18, <2>3, <4>1
      <4>3. hi - l \in p + 1 .. n /\ (hi - l) + l = hi
        BY <1>6, <2>1, <2>4, <3>4
      <4>4. q[hi] = s[hi - l]
        BY <1>4, <4>3
      <4>6. Len(s) \in Nat
        BY <1>6 DEF n
      <4>. QED
        BY <3>1, <3>2, <4>2, <4>4, <4>6, BlockRight
    <3>. QED
      BY <3>3, <3>4
  <2>. QED
    BY <2>10, <2>11
<1>22. ASSUME NEW c \in DOMAIN old, c # b PROVE BucketRight(r, t, s, c, FALSE)
  <2>1. \A i \in 1 .. Len(g) : ~In(mem, t, g, c, i)
    BY <1>18, <1>22 DEF In
  <2>2. CASE Vacant(mem, t, q, c)
    <3>1. ~(touched /\ c = nextin)
      BY <1>1, <1>13, <2>2 DEF Vacant, touched
    <3>2. r.buckets[t][c] = NoBucket
      BY <1>9, <1>15, <1>22, <2>2, <3>1
    <3>3. Vacant(r, t, s, c)
      BY <1>0, <1>14, <1>17, <2>1, <2>2, CutVacant DEF q
    <3>. QED
      BY <3>2, <3>3 DEF BucketRight
  <2>3. CASE ~Vacant(mem, t, q, c)
    <3>1. PICK lo, hi \in 1 .. n + l : Block(mem, t, q, c, lo, hi)
      BY <1>10, <1>22, <2>3
    <3>2. lo <= hi /\ \A i \in 1 .. n + l : In(mem, t, q, c, i) <=> lo <= i /\ i <= hi
      BY <1>1, <3>1 DEF Block
    <3>3. old[c].before = Place(t, q, lo - 1) /\ old[c].finish = q[hi]
      BY <1>8, <1>22, <3>1
    <3>4. \/ hi <= p /\ Block(r, t, s, c, lo, hi)
          \/ p + l < lo /\ Block(r, t, s, c, lo - l, hi - l)
      BY <1>0, <1>6, <1>14, <1>17, <2>1, <3>1, CutOthers DEF q, l
    <3>5. Len(s) \in Nat
      BY <1>6 DEF n
    <3>6. p < n => (c = nextin <=> lo <= p + l + 1 /\ p + l + 1 <= hi)
      <4>. SUFFICES ASSUME p < n PROVE c = nextin <=> In(mem, t, q, c, p + l + 1)
        BY <1>13, <3>2
      <4>. QED
        BY <1>13 DEF In
    <3>7. CASE hi <= p /\ Block(r, t, s, c, lo, hi)
      <4>1. ~(touched /\ c = nextin)
        BY <1>6, <3>1, <3>6, <3>7 DEF touched
      <4>2. r.buckets[t][c] = old[c]
        BY <1>15, <1>22, <4>1
      <4>3. q[hi] = s[hi] /\ Place(t, q, lo - 1) = Place(t, s, lo - 1)
        <5>1. lo - 1 \in 0 .. p /\ hi \in 1 .. p
          BY <1>6, <3>1, <3>2, <3>7
        <5>. QED
          BY <1>2, <1>5, <5>1
      <4>. QED
        BY <3>3, <3>5, <3>7, <4>2, <4>3, BlockRight
    <3>8. CASE p + l < lo /\ Block(r, t, s, c, lo - l, hi - l)
      <4>1. q[hi] = s[hi - l]
        <5>1. hi - l \in p + 1 .. n /\ (hi - l) + l = hi
          BY <1>6, <3>1, <3>2, <3>8
        <5>. QED
          BY <1>4, <5>1
      <4>2. CASE lo = p + l + 1
        <5>1. p < n
          BY <1>6, <3>1, <4>2
        <5>2. c = nextin
          BY <3>1, <3>2, <3>6, <4>2, <5>1
        <5>3. last = old[b].finish
          <6>0. In(mem, t, q, b, p + l) /\ p + l \in 1 .. n + l
            <7>1. In(mem, t, g, b, l) /\ l \in 1 .. l
              BY <1>6, <1>18 DEF l
            <7>2. mem.key[q[p + l]] = mem.key[g[l]]
              BY <1>20 DEF last
            <7>. QED
              BY <1>6, <7>1, <7>2 DEF In
          <6>1. ~Vacant(mem, t, q, b)
            BY <1>1, <6>0 DEF Vacant
          <6>2. PICK x, y \in 1 .. n + l : Block(mem, t, q, b, x, y)
            BY <1>10, <1>18, <6>1
          <6>3. x <= y /\ \A i \in 1 .. n + l : In(mem, t, q, b, i) <=> x <= i /\ i <= y
            BY <1>1, <6>2 DEF Block
          <6>4. ~In(mem, t, q, b, p + l + 1)
            BY <1>13, <1>22, <5>1, <5>2 DEF In
          <6>5. x <= p + l /\ p + l <= y /\ ~(x <= p + l + 1 /\ p + l + 1 <= y)
            BY <1>13, <5>1, <6>0, <6>3, <6>4
          <6>6. y = p + l
            <7>1. x <= p + l + 1
              BY <1>6, <6>2, <6>5
            <7>2. ~(p + l + 1 <= y)
              BY <6>5, <7>1
            <7>3. p + l \in Nat /\ y \in Nat
              BY <1>6, <6>2
            <7>. QED
              BY <6>5, <7>2, <7>3
          <6>. QED
            BY <1>8, <1>18, <1>20, <6>2, <6>6
        <5>4. touched
          BY <5>1, <5>3 DEF touched
        <5>5. r.buckets[t][c] = [old[c] EXCEPT !.before = before]
          BY <1>15, <1>22, <5>2, <5>4
        <5>6. r.buckets[t][c].before = before /\ r.buckets[t][c].finish = q[hi]
          BY <1>16, <1>22, <3>3, <5>5
        <5>7. (lo - l) - 1 = p
          BY <1>6, <4>2
        <5>. QED
          BY <1>19, <3>5, <3>8, <4>1, <5>6, <5>7, BlockRight
      <4>3. CASE lo # p + l + 1
        <5>1. ~(touched /\ c = nextin)
          BY <1>6, <3>1, <3>6, <3>8, <4>3 DEF touched
        <5>2. r.buckets[t][c] = old[c]
          BY <1>15, <1>22, <5>1
        <5>3. (lo - l) - 1 \in p + 1 .. n /\ ((lo - l) - 1) + l = lo - 1
          <6>1. lo \in Int /\ lo <= n + l /\ p + l \in Int
            BY <1>6, <3>1
          <6>2. lo > p + l + 1
            BY <3>8, <4>3, <6>1
          <6>. QED
            BY <1>6, <6>1, <6>2
        <5>4. Place(t, q, lo - 1) = Place(t, s, (lo - l) - 1)
          BY <1>5, <5>3
        <5>. QED
          BY <3>3, <3>5, <3>8, <4>1, <5>2, <5>4, BlockRight
      <4>. QED
        BY <4>2, <4>3
    <3>. QED
      BY <3>4, <3>7, <3>8
  <2>. QED
    BY <2>2, <2>3
<1>. QED
  BY <1>14, <1>21, <1>22 DEF old, SameBuckets, BucketsRight

\* The nodes g and their keys are gone.
KeysWithout(mem, r, g) == r.key = [x \in DOMAIN mem.key \ ToSet(g) |-> mem.key[x]]

\* All the nodes g are of bucket b.
AllIn(mem, t, g, b) == \A i \in 1 .. Len(g) : In(mem, t, g, b, i)

\* No link has changed but the one of place x.
LinksBut(mem, r, x) == \A y \in DOMAIN r.next : y # x => r.next[y] = mem.next[y]

\* What erase_nodes makes of a table.
LEMMA EraseNodesIs ==
    ASSUME NEW T, Heads(T), NEW mem \in Memories(T), NEW t \in T,
           NEW s \in Seq(DOMAIN mem.key), NEW g \in Seq(DOMAIN mem.key), Len(g) > 0, NEW p \in 0 .. Len(s),
           Filed(mem, t, Spliced(s, p, g), FALSE),
           NEW b \in DOMAIN mem.buckets[t], AllIn(mem, t, g, b),
           NEW r, r = erase_nodes(mem, t, b, Place(t, s, p), g)
    PROVE  /\ r \in Memories(T) /\ Filed(r, t, s, FALSE)
           /\ KeysWithout(mem, r, g)
           /\ Elsewhere(mem, r, T, t)
           /\ LinksBut(mem, r, Place(t, s, p))
<1>. \A i \in 1 .. Len(g) : In(mem, t, g, b, i)
  BY DEF AllIn
<1>. DEFINE n == Len(s)
            l == Len(g)
            q == Spliced(s, p, g)
            last == g[l]
            before == Place(t, s, p)
            gone == ToSet(g)
            next == Forget([mem.next EXCEPT ![before] = mem.next[last]], gone)
            key == Forget(mem.key, gone)
            size == [mem.size EXCEPT ![t] = @ - l]
            nb == BucketsWithout(mem, t, b, before, last)
            buckets == [mem.buckets EXCEPT ![t] = nb]
            D == DOMAIN mem.key \ gone
<1>1. r = [next |-> next, key |-> key, size |-> size, buckets |-> buckets]
  <2>1. erase_nodes(mem, t, b, before, g) = NodesErased(mem, t, b, before, g)
    BY EraseNodesFields
  <2>. QED
    BY <2>1 DEF NodesErased
<1>2. /\ DOMAIN mem.key \subseteq Nodes /\ mem.key \in [DOMAIN mem.key -> Keys]
      /\ mem.next \in [T \cup DOMAIN mem.key -> Nodes \cup {Null}]
      /\ mem.size \in [T -> Nat] /\ mem.buckets \in [T -> Arrays(T)]
  BY MemoryHas
<1>3. Filed(mem, t, q, FALSE) /\ ChainIs(mem, t, q) /\ mem.size[t] = Len(q)
  BY DEF Filed
<1>4. n \in Nat /\ l \in Nat /\ l > 0 /\ p \in Nat /\ p <= n /\ g \in [1 .. l -> DOMAIN mem.key] /\ DOMAIN g = 1 .. l
  OBVIOUS
<1>5. Len(q) = n + l
  BY SplicedIs
<1>6. gone \subseteq DOMAIN mem.key /\ T \cap gone = {}
  <2>. HIDE DEF l
  <2>1. gone \subseteq DOMAIN mem.key
    BY <1>4 DEF ToSet
  <2>. QED
    BY <1>2, <2>1 DEF Heads
<1>7. key \in [D -> Keys] /\ D \subseteq Nodes /\ key = [x \in D |-> mem.key[x]] /\ DOMAIN key = D
  BY <1>2 DEF Forget, Restrict
<1>8. last \in DOMAIN mem.key
  BY <1>4
<1>9. mem.next[last] \in Nodes \cup {Null}
  BY <1>2, <1>8
<1>. HIDE DEF gone, last, before, q, n, l
<1>10. DOMAIN next = T \cup D /\ (T \cup DOMAIN mem.key) \ gone = T \cup D
  BY <1>2, <1>6 DEF Forget, Restrict
<1>11. \A x \in T \cup D : next[x] = IF x = before THEN mem.next[last] ELSE mem.next[x]
  BY <1>2, <1>10 DEF Forget, Restrict
<1>12. next \in [T \cup D -> Nodes \cup {Null}]
  <2>1. \A x \in T \cup D : next[x] \in Nodes \cup {Null}
    BY <1>2, <1>9, <1>11
  <2>2. next = [x \in T \cup D |-> next[x]]
    BY <1>10 DEF Forget, Restrict
  <2>. HIDE DEF next
  <2>. QED
    BY <2>1, <2>2
<1>13. r.key = key /\ r.next = next /\ r.size = size /\ r.buckets = buckets
  BY <1>1
<1>14. r = [next |-> r.next, key |-> r.key, size |-> r.size, buckets |-> r.buckets]
  BY <1>1, <1>13
<1>. HIDE DEF next, key, D
<1>15. r.buckets[t] = nb
  BY <1>2, <1>13
<1>16. ChainIs(r, t, s)
  <2>1. DOMAIN r.key = DOMAIN mem.key \ ToSet(g)
    BY <1>7, <1>13 DEF D, gone
  <2>2. \A x \in T \cup DOMAIN r.key :
           r.next[x] = IF x = Place(t, s, p) THEN mem.next[g[Len(g)]] ELSE mem.next[x]
    BY <1>7, <1>11, <1>13 DEF before, last, l
  <2>. QED
    BY <1>3, <2>1, <2>2, CutChain DEF q
<1>17. \A i \in 1 .. Len(s) : r.key[s[i]] = mem.key[s[i]] /\ s[i] \in D
  <2>1. s \in Seq(D)
    BY <1>7, <1>13, <1>16 DEF ChainIs
  <2>. QED
    BY <1>7, <1>13, <2>1
<1>18. SameBuckets(mem, r, t) /\ BucketsRight(r, t, s, FALSE)
  <2>1. r.buckets[t] = BucketsWithout(mem, t, b, Place(t, s, p), g[Len(g)])
    BY <1>15 DEF before, last, l
  <2>2. \A i \in 1 .. Len(s) : r.key[s[i]] = mem.key[s[i]]
    BY <1>17
  <2>. QED
    BY <1>3, <2>1, <2>2, CutBuckets DEF q
<1>19. r.size[t] = n
  BY <1>2, <1>3, <1>4, <1>5, <1>13
<1>20. nb \in Arrays(T)
  <2>1. mem.buckets[t] \in Arrays(T)
    BY <1>2
  <2>2. PICK x \in Nat \ {0} : mem.buckets[t] \in [0 .. x - 1 -> BucketRecords(T)]
    BY <2>1 DEF Arrays
  <2>. DEFINE Loose == [before : T \cup Nodes \cup {Null}, finish : T \cup Nodes \cup {Null}]
              c == bucket(mem, t, mem.key[mem.next[last]])
              bks == IF last = mem.buckets[t][b].finish /\ mem.next[last] # Null
                     THEN [mem.buckets[t] EXCEPT ![c].before = before] ELSE mem.buckets[t]
  <2>3. before \in T \cup Nodes
    <3>1. \A i \in 0 .. Len(s) : Place(t, s, i) \in T \cup Nodes
      <4>1. \A i \in 0 .. Len(s) : i # 0 => i \in 1 .. Len(s)
        BY <1>4 DEF n
      <4>. QED
        BY <1>7, <1>17, <4>1 DEF Place
    <3>. QED
      BY <3>1 DEF before
  <2>4. \A i \in DOMAIN mem.buckets[t] : mem.buckets[t][i] \in Loose
    BY <2>2 DEF BucketRecords
  <2>. HIDE DEF c
  <2>5. DOMAIN bks = 0 .. x - 1 /\ \A i \in 0 .. x - 1 : bks[i] \in Loose
    BY <2>2, <2>3, <2>4
  <2>6. nb = [bks EXCEPT ![b] = BucketWithout(@, before, last)]
    BY DEF nb, BucketsWithout, c
  <2>7. bks[b] \in Loose
    BY <2>2, <2>5
  <2>. HIDE DEF bks, nb
  <2>8. BucketWithout(bks[b], before, last) \in Loose
    <3>1. NoBucket \in Loose
      BY DEF NoBucket
    <3>2. \A f \in T \cup Nodes \cup {Null} : [bks[b] EXCEPT !.finish = f] \in Loose
      BY <2>7
    <3>3. bks[b].finish \in T \cup Nodes \cup {Null}
      BY <2>7
    <3>. QED
      BY <2>3, <3>1, <3>2, <3>3 DEF BucketWithout
  <2>9. DOMAIN nb = 0 .. x - 1 /\ nb = [i \in 0 .. x - 1 |-> nb[i]]
    BY <2>5, <2>6
  <2>10. \A i \in 0 .. x - 1 : nb[i] \in Loose
    BY <2>5, <2>6, <2>8
  <2>11. \A i \in 0 .. x - 1 : nb[i].finish \in Nodes \cup {Null}
    <3>. TAKE i \in 0 .. x - 1
    <3>1. BucketRight(r, t, s, i, FALSE)
      BY <1>15, <1>18, <2>9 DEF BucketsRight
    <3>2. \A j \in 1 .. Len(s) : s[j] \in Nodes
      BY <1>7, <1>17
    <3>. QED
      BY <1>15, <3>1, <3>2 DEF BucketRight, NoBucket
  <2>12. \A i \in 0 .. x - 1 : nb[i] \in BucketRecords(T)
    BY <2>10, <2>11 DEF BucketRecords
  <2>. HIDE DEF Loose
  <2>. QED
    BY <2>9, <2>12 DEF Arrays
<1>21. r \in Memories(T)
  <2>1. size \in [T -> Nat]
    <3>1. mem.size[t] - l \in Nat
      BY <1>3, <1>4, <1>5
    <3>. QED
      BY <1>2, <3>1
  <2>2. buckets \in [T -> Arrays(T)]
    BY <1>2, <1>20
  <2>. HIDE DEF size, buckets
  <2>3. r.size \in [T -> Nat] /\ r.buckets \in [T -> Arrays(T)]
    BY <1>13, <2>1, <2>2
  <2>4. DOMAIN r.key \subseteq Nodes /\ r.key \in [DOMAIN r.key -> Keys]
    BY <1>7, <1>13
  <2>5. r.next \in [T \cup DOMAIN r.key -> Nodes \cup {Null}]
    BY <1>7, <1>12, <1>13
  <2>. QED
    BY <1>14, <2>3, <2>4, <2>5, MemoryIs
<1>22. Elsewhere(mem, r, T, t)
  BY <1>2, <1>13, <1>18 DEF Elsewhere
<1>23. LinksBut(mem, r, Place(t, s, p))
  BY <1>10, <1>11, <1>13 DEF LinksBut, before
<1>24. KeysWithout(mem, r, g)
  BY <1>7, <1>13 DEF KeysWithout, D, gone
<1>. QED
  BY <1>16, <1>18, <1>19, <1>21, <1>22, <1>23, <1>24 DEF Filed, n

-----------------------------------------------------------------------------
(* Nodes of one key are neighbours.                                        *)

\* Nodes of key k may be put behind the first p of s.
Beside(mem, s, k, p) ==
    /\ (\E i \in 1 .. Len(s) : mem.key[s[i]] = k) =>
          \/ p > 0 /\ mem.key[s[p]] = k
          \/ p < Len(s) /\ mem.key[s[p + 1]] = k
    /\ p > 0 /\ p < Len(s) /\ mem.key[s[p]] = mem.key[s[p + 1]] => mem.key[s[p]] = k

\* Their neighbours stay neighbours.
LEMMA TogetherSpliced ==
    ASSUME NEW mem, NEW r, NEW S, NEW s \in Seq(S), NEW g \in Seq(S), NEW p \in 0 .. Len(s), NEW k,
           Together(mem, s), \A i \in 1 .. Len(s) : r.key[s[i]] = mem.key[s[i]],
           \A i \in 1 .. Len(g) : r.key[g[i]] = k, Beside(mem, s, k, p)
    PROVE  Together(r, Spliced(s, p, g))
<1>. DEFINE n == Len(s)
            l == Len(g)
            q == Spliced(s, p, g)
<1>1. n \in Nat /\ l \in Nat /\ p \in Nat /\ p <= n
  OBVIOUS
<1>2. Len(q) = n + l
  BY SplicedIs
<1>3. \A i \in 1 .. p : q[i] = s[i]
  BY SplicedIs
<1>4. \A i \in 1 .. l : q[p + i] = g[i]
  BY SplicedIs
<1>5. \A i \in p + 1 .. n : q[i + l] = s[i]
  BY SplicedIs
<1>6. \A i \in 1 .. n + l : \/ i \in 1 .. p /\ i \in 1 .. n
                            \/ i - p \in 1 .. l /\ i = p + (i - p)
                            \/ i - l \in p + 1 .. n /\ i - l \in 1 .. n /\ i = (i - l) + l
  BY <1>1, SplicedPlaces
<1>7. \A i, j, h \in 1 .. n : i <= h /\ h <= j /\ mem.key[s[i]] = mem.key[s[j]] => mem.key[s[h]] = mem.key[s[i]]
  BY DEF Together
<1>8. \A i \in 1 .. n : r.key[s[i]] = mem.key[s[i]]
  OBVIOUS
<1>9. \A i \in 1 .. l : r.key[g[i]] = k
  OBVIOUS
<1>10. /\ (\E i \in 1 .. n : mem.key[s[i]] = k) =>
             \/ p > 0 /\ mem.key[s[p]] = k
             \/ p < n /\ mem.key[s[p + 1]] = k
       /\ p > 0 /\ p < n /\ mem.key[s[p]] = mem.key[s[p + 1]] => mem.key[s[p]] = k
  BY DEF Beside
<1>. HIDE DEF q, n, l
<1>11. \A i \in 1 .. n + l :
          \/ i \in 1 .. n /\ i <= p /\ r.key[q[i]] = mem.key[s[i]]
          \/ p < i /\ i <= p + l /\ r.key[q[i]] = k
          \/ i - l \in 1 .. n /\ p < i - l /\ r.key[q[i]] = mem.key[s[i - l]]
  <2>. TAKE i \in 1 .. n + l
  <2>1. CASE i \in 1 .. p /\ i \in 1 .. n
    BY <1>3, <1>8, <2>1
  <2>2. CASE i - p \in 1 .. l /\ i = p + (i - p)
    <3>1. p < i /\ i <= p + l
      BY <1>1, <2>2
    <3>2. q[i] = g[i - p]
      BY <1>4, <2>2
    <3>. QED
      BY <1>9, <2>2, <3>1, <3>2
  <2>3. CASE i - l \in p + 1 .. n /\ i - l \in 1 .. n /\ i = (i - l) + l
    <3>1. q[i] = s[i - l] /\ p < i - l
      BY <1>1, <1>5, <2>3
    <3>. QED
      BY <1>8, <2>3, <3>1
  <2>. QED
    BY <1>6, <2>1, <2>2, <2>3
<1>. SUFFICES ASSUME NEW i \in 1 .. n + l, NEW j \in 1 .. n + l, NEW h \in 1 .. n + l,
                     i <= h, h <= j, r.key[q[i]] = r.key[q[j]]
              PROVE  r.key[q[h]] = r.key[q[i]]
  BY <1>2 DEF Together, q
<1>12. i \in Int /\ j \in Int /\ h \in Int
  OBVIOUS
<1>. DEFINE Low(x) == x \in 1 .. n /\ x <= p /\ r.key[q[x]] = mem.key[s[x]]
            Mid(x) == p < x /\ x <= p + l /\ r.key[q[x]] = k
            High(x) == x - l \in 1 .. n /\ p < x - l /\ r.key[q[x]] = mem.key[s[x - l]]
<1>13. /\ Low(i) \/ Mid(i) \/ High(i)
       /\ Low(j) \/ Mid(j) \/ High(j)
       /\ Low(h) \/ Mid(h) \/ High(h)
  BY <1>11
<1>14. CASE Low(h)
  <2>1. Low(i)
    BY SMTT(30), <1>1, <1>12, <1>13, <1>14
  <2>2. CASE Low(j)
    <3>1. mem.key[s[i]] = mem.key[s[j]]
      BY <2>1, <2>2
    <3>2. mem.key[s[h]] = mem.key[s[i]]
      BY <1>7, <1>14, <2>1, <2>2, <3>1
    <3>. QED
      BY <1>14, <2>1, <3>2
  <2>3. CASE Mid(j)
    <3>1. mem.key[s[i]] = k
      BY <2>1, <2>3
    <3>2. p \in 1 .. n /\ (p < n => p + 1 \in 1 .. n)
      BY <1>1, <1>14
    <3>3. CASE mem.key[s[p]] = k
      BY <1>7, <1>14, <2>1, <3>1, <3>2, <3>3
    <3>4. CASE p < n /\ mem.key[s[p + 1]] = k
      <4>1. h <= p + 1
        BY <1>1, <1>12, <1>14
      <4>. QED
        BY <1>7, <1>14, <2>1, <3>1, <3>2, <3>4, <4>1
    <3>. QED
      BY <1>10, <2>1, <3>1, <3>3, <3>4
  <2>4. CASE High(j)
    <3>1. h <= j - l
      BY <1>1, <1>12, <1>14, <2>4
    <3>2. mem.key[s[i]] = mem.key[s[j - l]]
      BY <2>1, <2>4
    <3>3. mem.key[s[h]] = mem.key[s[i]]
      BY <1>7, <1>14, <2>1, <2>4, <3>1, <3>2
    <3>. QED
      BY <1>14, <2>1, <3>3
  <2>. QED
    BY <1>13, <2>2, <2>3, <2>4
<1>15. CASE Mid(h)
  <2>1. CASE Mid(i) \/ Mid(j)
    BY <1>15, <2>1
  <2>2. CASE ~(Mid(i) \/ Mid(j))
    <3>1. Low(i) /\ High(j)
      BY <1>1, <1>12, <1>13, <1>15, <2>2
    <3>2. p \in 1 .. n /\ p + 1 \in 1 .. n /\ p + 1 <= j - l /\ i <= p + 1 /\ p <= j - l /\ p < n /\ p > 0
      BY SMTT(30), <1>1, <1>12, <3>1
    <3>3. mem.key[s[i]] = mem.key[s[j - l]]
      BY <3>1
    <3>4. mem.key[s[p]] = mem.key[s[i]] /\ mem.key[s[p + 1]] = mem.key[s[i]]
      BY SMTT(30), <1>7, <3>1, <3>2, <3>3
    <3>5. mem.key[s[i]] = k
      BY <1>10, <3>2, <3>4
    <3>. QED
      BY <1>15, <3>1, <3>5
  <2>. QED
    BY <2>1, <2>2
<1>16. CASE High(h)
  <2>1. High(j)
    BY <1>1, <1>12, <1>13, <1>16
  <2>2. CASE High(i)
    <3>1. i - l <= h - l /\ h - l <= j - l
      BY <1>1, <1>12
    <3>. QED
      BY SMTT(30), <1>7, <1>16, <2>1, <2>2, <3>1
  <2>3. CASE Mid(i)
    <3>1. mem.key[s[j - l]] = k
      BY <2>1, <2>3
    <3>2. p < n /\ p + 1 \in 1 .. n /\ h - l <= j - l /\ p + 1 <= h - l /\ (p > 0 => p \in 1 .. n) /\ p <= h - l
      BY <1>1, <1>12, <1>16
    <3>3. CASE p > 0 /\ mem.key[s[p]] = k
      BY SMTT(30), <1>7, <1>16, <2>1, <2>3, <3>1, <3>2, <3>3
    <3>4. CASE mem.key[s[p + 1]] = k
      BY SMTT(30), <1>7, <1>16, <2>1, <2>3, <3>1, <3>2, <3>4
    <3>. QED
      BY <1>10, <2>1, <3>1, <3>3, <3>4
  <2>4. CASE Low(i)
    <3>1. i <= h - l /\ h - l <= j - l
      BY <1>1, <1>12, <1>16, <2>4
    <3>. QED
      BY <1>7, <1>16, <2>1, <2>4, <3>1
  <2>. QED
    BY <1>13, <2>2, <2>3, <2>4
<1>. QED
  BY <1>13, <1>14, <1>15, <1>16

\* Without some, the others stay neighbours.
LEMMA TogetherCut ==
    ASSUME NEW mem, NEW r, NEW S, NEW s \in Seq(S), NEW g \in Seq(S), NEW p \in 0 .. Len(s),
           Together(mem, Spliced(s, p, g)), \A i \in 1 .. Len(s) : r.key[s[i]] = mem.key[s[i]]
    PROVE  Together(r, s)
<1>. DEFINE n == Len(s)
            l == Len(g)
            q == Spliced(s, p, g)
            e(x) == IF x <= p THEN x ELSE x + l
<1>0. s \in Seq(S) /\ g \in Seq(S) /\ p \in 0 .. Len(s)
  OBVIOUS
<1>1. n \in Nat /\ l \in Nat /\ p \in Nat /\ p <= n
  OBVIOUS
<1>2. Len(q) = n + l
  BY ONLY <1>0, SplicedIs
<1>3. \A i \in 1 .. p : q[i] = s[i]
  BY ONLY <1>0, SplicedIs
<1>5. \A i \in p + 1 .. n : q[i + l] = s[i]
  BY ONLY <1>0, SplicedIs
<1>7. \A i, j, h \in 1 .. Len(q) : i <= h /\ h <= j /\ mem.key[q[i]] = mem.key[q[j]] => mem.key[q[h]] = mem.key[q[i]]
  BY DEF Together
<1>8. \A i \in 1 .. n : r.key[s[i]] = mem.key[s[i]]
  OBVIOUS
<1>. HIDE DEF q, n, l
<1>9. \A x \in 1 .. n : e(x) \in 1 .. n + l /\ mem.key[q[e(x)]] = r.key[s[x]]
  <2>. TAKE x \in 1 .. n
  <2>1. CASE x <= p
    <3>1. x \in 1 .. p /\ x \in 1 .. n + l
      BY <1>1, <2>1
    <3>. QED
      BY <1>3, <1>8, <2>1, <3>1
  <2>2. CASE x > p
    <3>1. x \in p + 1 .. n /\ x + l \in 1 .. n + l /\ ~(x <= p)
      BY <1>1, <2>2
    <3>. QED
      BY <1>5, <1>8, <3>1
  <2>. QED
    BY <1>1, <2>1, <2>2
<1>10. \A x, y \in 1 .. n : x <= y => e(x) <= e(y)
  BY <1>1
<1>. HIDE DEF e
<1>11. ASSUME NEW i \in 1 .. n, NEW j \in 1 .. n, NEW h \in 1 .. n, i <= h, h <= j, r.key[s[i]] = r.key[s[j]]
       PROVE  r.key[s[h]] = r.key[s[i]]
  <2>1. e(i) \in 1 .. Len(q) /\ e(j) \in 1 .. Len(q) /\ e(h) \in 1 .. Len(q)
    BY <1>2, <1>9
  <2>2. e(i) <= e(h) /\ e(h) <= e(j)
    BY <1>10, <1>11
  <2>3. mem.key[q[e(i)]] = r.key[s[i]] /\ mem.key[q[e(j)]] = r.key[s[j]] /\ mem.key[q[e(h)]] = r.key[s[h]]
    BY <1>9
  <2>4. mem.key[q[e(h)]] = mem.key[q[e(i)]]
    BY SMTT(30), <1>7, <1>11, <2>1, <2>2, <2>3
  <2>. QED
    BY <2>3, <2>4
<1>. QED
  BY <1>11 DEF Together, n

-----------------------------------------------------------------------------
(* What walks over a chain find.                                           *)

\* A piece of a chain.
LEMMA PieceIs ==
    ASSUME NEW S, NEW s \in Seq(S), NEW i \in 0 .. Len(s), NEW j \in i .. Len(s)
    PROVE  /\ SubSeq(s, i + 1, j) \in Seq(S) /\ Len(SubSeq(s, i + 1, j)) = j - i
           /\ \A k \in 1 .. j - i : SubSeq(s, i + 1, j)[k] = s[i + k] /\ i + k \in 1 .. Len(s)
<1>1. i \in Nat /\ j \in Nat /\ i <= j /\ j <= Len(s) /\ Len(s) \in Nat
  OBVIOUS
<1>2. \A k \in i + 1 .. j : s[k] \in S
  BY <1>1
<1>. DEFINE w == SubSeq(s, i + 1, j)
            a == i + 1
<1>3. /\ w \in Seq(S) /\ Len(w) = (IF a <= j THEN j - a + 1 ELSE 0)
      /\ \A k \in 1 .. j - a + 1 : w[k] = s[a + k - 1]
  <2>1. a \in Int /\ j \in Int /\ \A k \in a .. j : s[k] \in S
    BY <1>1, <1>2
  <2>2. w = SubSeq(s, a, j)
    OBVIOUS
  <2>. HIDE DEF a, w
  <2>. QED
    BY <2>1, <2>2, SubSeqProperties
<1>. HIDE DEF w
<1>4. Len(w) = j - i
  BY <1>1, <1>3
<1>5. \A k \in 1 .. j - i : k \in 1 .. j - a + 1 /\ a + k - 1 = i + k /\ i + k \in 1 .. Len(s)
  BY <1>1
<1>6. \A k \in 1 .. j - i : w[k] = s[i + k] /\ i + k \in 1 .. Len(s)
  BY <1>3, <1>5
<1>. QED
  BY <1>3, <1>4, <1>6 DEF w

\* From behind a place of a chain up to what is behind another one.
LEMMA SpanPiece ==
    ASSUME NEW T, Heads(T), NEW mem \in Memories(T), NEW t \in T, NEW s, ChainIs(mem, t, s),
           NEW i \in 0 .. Len(s), NEW j \in i .. Len(s)
    PROVE  Span(mem, mem.next[Place(t, s, i)], Behind(s, j)) = SubSeq(s, i + 1, j)
<1>. DEFINE n == Len(s)
            w == SubSeq(s, i + 1, j)
            last == Behind(s, j)
            first == mem.next[Place(t, s, i)]
            S == DOMAIN mem.key
<1>1. s \in Seq(S) /\ Distinct(s) /\ \A k \in 0 .. n : mem.next[Place(t, s, k)] = Behind(s, k)
  BY DEF ChainIs
<1>2. n \in Nat /\ i \in Nat /\ j \in Nat /\ i <= j /\ j <= n
  BY <1>1
<1>3. w \in Seq(S) /\ Len(w) = j - i
  BY <1>1, PieceIs
<1>4. \A k \in 1 .. j - i : w[k] = s[i + k] /\ i + k \in 1 .. n
  BY <1>1, PieceIs
<1>5. S \subseteq DOMAIN mem.next /\ IsFiniteSet(DOMAIN mem.next)
  <2>1. DOMAIN mem.next = T \cup DOMAIN mem.key
    BY MemoryHas
  <2>2. IsFiniteSet(DOMAIN mem.next)
    BY MemoryHas
  <2>. QED
    BY <2>1, <2>2
<1>6. w \in Seq(DOMAIN mem.next)
  <2>. HIDE DEF w, S
  <2>1. \A k \in 1 .. Len(w) : w[k] \in DOMAIN mem.next
    BY <1>3, <1>5
  <2>. QED
    BY <1>3, <2>1
<1>7. \A k \in 1 .. n : s[k] # Null
  BY PlaceIs
<1>. HIDE DEF w, S
<1>8. \A k \in 1 .. Len(w) : w[k] \notin {last, Null}
  <2>. SUFFICES ASSUME NEW k \in 1 .. j - i PROVE w[k] # last /\ w[k] # Null
    BY <1>3
  <2>1. w[k] = s[i + k] /\ i + k \in 1 .. n /\ i + k # j + 1
    BY <1>2, <1>4
  <2>2. last = Null \/ (j + 1 \in 1 .. n /\ last = s[j + 1])
    BY <1>2 DEF Behind
  <2>. QED
    BY <1>1, <1>7, <2>1, <2>2 DEF Distinct
<1>9. Linked(mem.next, first, w, last)
  <2>1. \A x, y \in 1 .. Len(w) : w[x] = w[y] => x = y
    <3>. SUFFICES ASSUME NEW x \in 1 .. j - i, NEW y \in 1 .. j - i, w[x] = w[y] PROVE x = y
      BY <1>3
    <3>1. i + x = i + y
      BY <1>1, <1>4 DEF Distinct
    <3>. QED
      BY <1>2, <3>1
  <2>2. first = IF Len(w) = 0 THEN last ELSE w[1]
    <3>1. first = Behind(s, i)
      BY <1>1, <1>2
    <3>2. CASE i = j
      BY <1>2, <1>3, <3>1, <3>2
    <3>3. CASE i # j
      <4>1. i < n /\ 1 \in 1 .. j - i /\ Len(w) # 0
        BY <1>2, <1>3, <3>3
      <4>. QED
        BY <1>4, <3>1, <4>1 DEF Behind
    <3>. QED
      BY <3>2, <3>3
  <2>3. \A k \in 1 .. Len(w) : mem.next[w[k]] = IF k = Len(w) THEN last ELSE w[k + 1]
    <3>. SUFFICES ASSUME NEW k \in 1 .. j - i
                  PROVE  mem.next[w[k]] = IF k = j - i THEN last ELSE w[k + 1]
      BY <1>3
    <3>1. w[k] = s[i + k] /\ i + k \in 0 .. n /\ i + k # 0
      BY <1>2, <1>4
    <3>2. mem.next[w[k]] = Behind(s, i + k)
      BY <1>1, <3>1 DEF Place
    <3>3. CASE k = j - i
      <4>1. i + k = j
        BY <1>2, <3>3
      <4>. QED
        BY <3>2, <3>3, <4>1
    <3>4. CASE k # j - i
      <4>1. k + 1 \in 1 .. j - i /\ i + k < n /\ i + k + 1 = i + (k + 1)
        BY <1>2, <3>4
      <4>. QED
        BY <1>4, <3>2, <3>4, <4>1 DEF Behind
    <3>. QED
      BY <3>3, <3>4
  <2>. QED
    BY <2>1, <2>2, <2>3 DEF Linked
<1>. HIDE DEF first, last
<1>10. last \in {last, Null}
  OBVIOUS
<1>. QED
  BY <1>5, <1>6, <1>8, <1>9, <1>10, SpanIs DEF w, first, last

\* The nodes of a table are its chain.
LEMMA NodesOfIs ==
    ASSUME NEW T, Heads(T), NEW mem \in Memories(T), NEW t \in T, NEW s, ChainIs(mem, t, s)
    PROVE  NodesOf(mem, t) = s
<1>1. s \in Seq(DOMAIN mem.key) /\ Len(s) \in Nat
  BY DEF ChainIs
<1>2. 0 \in 0 .. Len(s) /\ Len(s) \in 0 .. Len(s)
  BY <1>1
<1>3. Span(mem, mem.next[Place(t, s, 0)], Behind(s, Len(s))) = SubSeq(s, 0 + 1, Len(s))
  BY <1>2, SpanPiece
<1>4. Place(t, s, 0) = t /\ Behind(s, Len(s)) = Null
  BY <1>1 DEF Place, Behind
<1>5. SubSeq(s, 1, Len(s)) = s
  BY <1>1, SubSeqFull
<1>. QED
  BY <1>3, <1>4, <1>5 DEF NodesOf

\* The front of bucket b: behind the first p nodes.
BucketFront(mem, t, s, b, p) ==
    \/ p = 0 /\ Vacant(mem, t, s, b)
    \/ p \in 0 .. Len(s) /\ \E hi \in 1 .. Len(s) : Block(mem, t, s, b, p + 1, hi)

\* The buckets of t name the front of b.
FrontNamed(mem, t, s, b, p) ==
    /\ BucketFront(mem, t, s, b, p) /\ Mayput(mem, t, s, b, p)
    /\ mem.buckets[t][b].before = Null <=> Vacant(mem, t, s, b)
    /\ Place(t, s, p) = IF mem.buckets[t][b].before = Null THEN t ELSE mem.buckets[t][b].before

LEMMA FrontOf ==
    ASSUME NEW T, Heads(T), NEW mem \in Memories(T), NEW t \in T, NEW s, Filed(mem, t, s, FALSE),
           NEW b \in DOMAIN mem.buckets[t]
    PROVE  \E p \in 0 .. Len(s) : FrontNamed(mem, t, s, b, p)
<1>1. ChainIs(mem, t, s)
  BY DEF Filed
<1>2. Len(s) \in Nat /\ \A i \in 0 .. Len(s) : Place(t, s, i) # Null
  BY <1>1, PlaceIs
<1>3. CASE Vacant(mem, t, s, b)
  <2>1. Unused(mem, t, b)
    BY <1>3, RightVacant
  <2>2. mem.buckets[t][b].before = Null
    BY <2>1 DEF Unused, NoBucket
  <2>3. BucketFront(mem, t, s, b, 0) /\ Mayput(mem, t, s, b, 0) /\ Place(t, s, 0) = t /\ 0 \in 0 .. Len(s)
    BY <1>2, <1>3 DEF BucketFront, Mayput, Place
  <2>. QED
    BY <1>3, <2>2, <2>3 DEF FrontNamed
<1>4. CASE ~Vacant(mem, t, s, b)
  <2>1. PICK lo, hi \in 1 .. Len(s) : Block(mem, t, s, b, lo, hi)
    BY <1>4, VacantOrBlock
  <2>2. Begins(mem, t, b, Place(t, s, lo - 1))
    BY <2>1, RightBlock
  <2>3. lo - 1 \in 0 .. Len(s) /\ (lo - 1) + 1 = lo /\ hi \in lo .. Len(s) /\ lo - 1 <= hi
    BY <1>2, <2>1 DEF Block
  <2>4. BucketFront(mem, t, s, b, lo - 1)
    BY <2>1, <2>3 DEF BucketFront
  <2>5. Mayput(mem, t, s, b, lo - 1)
    BY <2>1, <2>3 DEF Mayput
  <2>. QED
    BY <1>2, <1>4, <2>2, <2>3, <2>4, <2>5 DEF Begins, FrontNamed
<1>. QED
  BY <1>3, <1>4

Missing(mem, s, k) == \A i \in 1 .. Len(s) : mem.key[s[i]] # k
FirstWith(mem, s, k, i) ==
    /\ i \in 1 .. Len(s) /\ mem.key[s[i]] = k
    /\ \A j \in 1 .. Len(s) : mem.key[s[j]] = k => i <= j

\* Nodes with a new key belong to the front of its bucket.
LEMMA FrontBeside ==
    ASSUME NEW mem, NEW t, NEW s, Len(s) \in Nat, NEW k, NEW p \in 0 .. Len(s),
           BucketFront(mem, t, s, bucket(mem, t, k), p), Missing(mem, s, k)
    PROVE  Beside(mem, s, k, p)
<1>1. CASE p = 0
  BY <1>1 DEF Beside, Missing
<1>2. CASE p # 0
  <2>. DEFINE b == bucket(mem, t, k)
  <2>1. PICK hi \in 1 .. Len(s) : Block(mem, t, s, b, p + 1, hi)
    BY <1>2 DEF BucketFront
  <2>2. p + 1 \in 1 .. Len(s) /\ In(mem, t, s, b, p + 1) /\ (p \in 1 .. Len(s) => ~In(mem, t, s, b, p))
    BY <2>1 DEF Block
  <2>3. p \in 1 .. Len(s)
    BY <1>2
  <2>4. mem.key[s[p]] # mem.key[s[p + 1]]
    BY <2>2, <2>3 DEF In
  <2>. QED
    BY <2>4 DEF Beside, Missing
<1>. QED
  BY <1>1, <1>2

\* Behind the first p nodes of s, find_node finds the first one with the key or
\* where to put one.
Found(mem, t, s, k, found, p) ==
    /\ p \in 0 .. Len(s) /\ found.before = Place(t, s, p)
    /\ Mayput(mem, t, s, bucket(mem, t, k), p) /\ Beside(mem, s, k, p)
    /\ \/ Missing(mem, s, k) /\ found.node = Null
       \/ FirstWith(mem, s, k, p + 1) /\ found.node = s[p + 1]

LEMMA FindNodeIs ==
    ASSUME NEW T, Heads(T), NEW mem \in Memories(T), NEW t \in T, NEW s, Filed(mem, t, s, FALSE), NEW k \in Keys
    PROVE  \E p \in 0 .. Len(s) : Found(mem, t, s, k, find_node(mem, t, k), p)
<1>. DEFINE n == Len(s)
            c == bucket(mem, t, k)
            b == mem.buckets[t][c]
            nodes == Span(mem, mem.next[b.before], mem.next[b.finish])
            hits == {i \in DOMAIN nodes : mem.key[nodes[i]] = k}
            hit == CHOOSE i \in hits : \A j \in hits : i <= j
            found == find_node(mem, t, k)
<1>1. c \in DOMAIN mem.buckets[t]
  BY BucketIn
<1>2. ChainIs(mem, t, s) /\ s \in Seq(DOMAIN mem.key)
  BY DEF Filed, ChainIs
<1>3. n \in Nat
  BY <1>2
<1>4. found = IF b.before = Null THEN [before |-> t, node |-> Null]
              ELSE IF hits = {} THEN [before |-> b.before, node |-> Null]
              ELSE [before |-> (<<b.before>> \o nodes)[hit], node |-> nodes[hit]]
  BY DEF find_node
<1>5. \A i \in 1 .. n : mem.key[s[i]] = k => In(mem, t, s, c, i)
  BY DEF In
<1>6. PICK p \in 0 .. n : /\ BucketFront(mem, t, s, c, p) /\ Mayput(mem, t, s, c, p)
                          /\ b.before = Null <=> Vacant(mem, t, s, c)
                          /\ Place(t, s, p) = IF b.before = Null THEN t ELSE b.before
  <2>. HIDE DEF c
  <2>1. PICK p \in 0 .. Len(s) : FrontNamed(mem, t, s, c, p)
    BY <1>1, FrontOf
  <2>. QED
    BY <2>1 DEF FrontNamed
<1>. HIDE DEF c, found, nodes, hits, hit
<1>7. CASE Vacant(mem, t, s, c)
  <2>1. Missing(mem, s, k)
    BY <1>5, <1>7 DEF Vacant, Missing
  <2>2. Beside(mem, s, k, p)
    BY <1>3, <1>6, <2>1, FrontBeside DEF c
  <2>3. found.before = Place(t, s, p) /\ found.node = Null
    BY <1>4, <1>6, <1>7
  <2>4. Found(mem, t, s, k, found, p)
    BY <1>6, <2>1, <2>2, <2>3 DEF Found, c
  <2>. QED
    BY <2>4 DEF found
<1>8. CASE ~Vacant(mem, t, s, c)
  <2>1. b.before # Null
    BY <1>6, <1>8
  <2>2. PICK lo, hi \in 1 .. n : Block(mem, t, s, c, lo, hi)
    BY <1>1, <1>8, VacantOrBlock
  <2>3. lo <= hi /\ \A i \in 1 .. n : In(mem, t, s, c, i) <=> lo <= i /\ i <= hi
    BY <2>2 DEF Block
  <2>. DEFINE a == lo - 1
  <2>13. a \in 0 .. n /\ a \in Nat /\ lo = a + 1
    BY <1>3, <2>2
  <2>. HIDE DEF a
  <2>4. b.before = Place(t, s, a) /\ b.finish = Place(t, s, hi)
    <3>1. Begins(mem, t, c, Place(t, s, lo - 1)) /\ Ends(mem, t, c, s[hi])
      BY <1>1, <2>2, RightBlock
    <3>2. Place(t, s, hi) = s[hi]
      BY <2>2 DEF Place
    <3>. QED
      BY <3>1, <3>2 DEF Begins, Ends, a
  <2>5. a \in 0 .. n /\ hi \in a .. n /\ hi \in 0 .. n
    BY <1>3, <2>13, <2>2, <2>3
  <2>6. nodes = SubSeq(s, a + 1, hi)
    <3>1. mem.next[Place(t, s, hi)] = Behind(s, hi)
      BY <1>2, <2>5 DEF ChainIs
    <3>2. Span(mem, mem.next[Place(t, s, a)], Behind(s, hi)) = SubSeq(s, a + 1, hi)
      BY <1>2, <2>5, SpanPiece
    <3>. QED
      BY <2>4, <3>1, <3>2 DEF nodes
  <2>. DEFINE x == hi - a
  <2>7. nodes \in Seq(DOMAIN mem.key) /\ Len(nodes) = x
    <3>1. SubSeq(s, a + 1, hi) \in Seq(DOMAIN mem.key) /\ Len(SubSeq(s, a + 1, hi)) = hi - a
      BY <1>2, <2>5, PieceIs
    <3>. QED
      BY <2>6, <3>1
  <2>8. \A i \in 1 .. x : nodes[i] = s[a + i] /\ a + i \in 1 .. n
    <3>1. \A i \in 1 .. hi - a : SubSeq(s, a + 1, hi)[i] = s[a + i] /\ a + i \in 1 .. n
      BY <1>2, <2>5, PieceIs
    <3>. QED
      BY <2>6, <3>1
  <2>9. DOMAIN nodes = 1 .. x
    BY <2>7
  <2>10. hits = {i \in 1 .. x : mem.key[s[a + i]] = k}
    BY <2>8, <2>9 DEF hits
  <2>11. CASE Missing(mem, s, k)
    <3>1. hits = {}
      BY <2>8, <2>10, <2>11 DEF Missing
    <3>2. found.before = Place(t, s, p) /\ found.node = Null
      BY <1>4, <1>6, <2>1, <3>1
    <3>3. Beside(mem, s, k, p)
      BY <1>3, <1>6, <2>11, FrontBeside DEF c
    <3>4. Found(mem, t, s, k, found, p)
      BY <1>6, <2>11, <3>2, <3>3 DEF Found, c
    <3>. QED
      BY <3>4 DEF found
  <2>12. CASE ~Missing(mem, s, k)
    <3>1. PICK y \in 1 .. n : mem.key[s[y]] = k
      BY <2>12 DEF Missing
    <3>2. y - a \in 1 .. x /\ a + (y - a) = y
      BY <2>13, <1>3, <1>5, <2>2, <2>3, <3>1
    <3>3. hits # {} /\ hits \in SUBSET Nat
      BY <2>10, <3>1, <3>2
    <3>4. \E h \in hits : \A j \in hits : h <= j
      BY <3>3, LeastNat
    <3>5. hit \in hits /\ \A j \in hits : hit <= j
      BY <3>4 DEF hit
    <3>. DEFINE f == a + hit
    <3>6. hit \in 1 .. x /\ f \in 1 .. n /\ mem.key[s[f]] = k
      BY <2>8, <2>10, <3>5
    <3>7. FirstWith(mem, s, k, f)
      <4>. SUFFICES ASSUME NEW j \in 1 .. n, mem.key[s[j]] = k PROVE f <= j
        BY <3>6 DEF FirstWith
      <4>1. j - a \in 1 .. x /\ a + (j - a) = j
        BY <2>13, <1>3, <1>5, <2>2, <2>3
      <4>2. hit <= j - a
        BY <2>10, <3>5, <4>1
      <4>. QED
        BY <2>13, <1>3, <2>2, <3>6, <4>2
    <3>8. f - 1 \in 0 .. n /\ (f - 1) + 1 = f
      BY <1>3, <3>6
    <3>9. found = [before |-> (<<b.before>> \o nodes)[hit], node |-> nodes[hit]]
      BY <1>4, <2>1, <3>3
    <3>10. found.node = s[f]
      BY <2>8, <3>6, <3>9
    <3>11. (<<b.before>> \o nodes)[hit] = Place(t, s, f - 1)
      <4>1. CASE hit = 1
        <5>1. (<<b.before>> \o nodes)[1] = b.before
          BY <2>7
        <5>2. f - 1 = a
          BY <2>13, <1>3, <2>2, <4>1
        <5>. QED
          BY <2>4, <4>1, <5>1, <5>2
      <4>2. CASE hit # 1
        <5>1. hit - 1 \in 1 .. x /\ hit \in 1 .. x + 1
          BY <2>13, <1>3, <2>2, <3>6, <4>2
        <5>2. (<<b.before>> \o nodes)[hit] = nodes[hit - 1]
          BY <2>7, <4>2, <5>1
        <5>3. nodes[hit - 1] = s[a + (hit - 1)]
          BY <2>8, <5>1
        <5>4. a + (hit - 1) = f - 1 /\ f - 1 # 0
          BY <2>13, <1>3, <2>2, <5>1
        <5>. QED
          BY <5>2, <5>3, <5>4 DEF Place
      <4>. QED
        BY <4>1, <4>2
    <3>12. Mayput(mem, t, s, c, f - 1)
      <4>1. lo <= f /\ f <= hi
        BY <1>5, <2>3, <3>6
      <4>2. a <= f - 1 /\ f - 1 <= hi
        BY <2>13, <1>3, <2>2, <3>6, <4>1
      <4>. QED
        BY <2>2, <4>2 DEF Mayput, a
    <3>. HIDE DEF f
    <3>13. Beside(mem, s, k, f - 1)
      <4>1. f - 1 < Len(s) /\ mem.key[s[(f - 1) + 1]] = k
        BY <1>3, <3>6, <3>8
      <4>2. mem.key[s[f - 1]] = mem.key[s[(f - 1) + 1]] => mem.key[s[f - 1]] = k
        BY <4>1
      <4>. QED
        BY <4>1, <4>2 DEF Beside
    <3>14. found.before = Place(t, s, f - 1)
      BY <3>9, <3>11
    <3>15. Found(mem, t, s, k, found, f - 1)
      BY <3>7, <3>8, <3>10, <3>12, <3>13, <3>14 DEF Found, c
    <3>. QED
      BY <3>8, <3>15 DEF found
  <2>. QED
    BY <2>11, <2>12
<1>. QED
  BY <1>7, <1>8

\* A chain from its first node with a key on begins with all of them.
LEMMA RunIs ==
    ASSUME NEW mem, NEW S, NEW w \in Seq(S), Len(w) > 0
    PROVE  \E x \in 1 .. Len(w) :
              /\ Run(mem, w) = SubSeq(w, 1, x)
              /\ \A i \in 1 .. x : mem.key[w[i]] = mem.key[w[1]]
              /\ x < Len(w) => mem.key[w[x + 1]] # mem.key[w[1]]
<1>. DEFINE n == Len(w)
            Good(x) == /\ \A i \in 1 .. x : mem.key[w[i]] = mem.key[w[1]]
                       /\ x < n => mem.key[w[x + 1]] # mem.key[w[1]]
            W == {x \in 1 .. n : x < n => mem.key[w[x + 1]] # mem.key[w[1]]}
            c == CHOOSE x \in 0 .. n : Good(x)
<1>1. n \in Nat /\ n > 0
  OBVIOUS
<1>2. n \in W /\ W \in SUBSET Nat
  BY <1>1
<1>. HIDE DEF n
<1>3. PICK x \in W : \A y \in W : x <= y
  <2>. HIDE DEF W
  <2>. QED
    BY <1>2, LeastNat
<1>4. \A i \in 1 .. x : mem.key[w[i]] = mem.key[w[1]]
  <2>. TAKE i \in 1 .. x
  <2>1. CASE i = 1
    BY <2>1
  <2>2. CASE i # 1
    <3>1. i - 1 \in 1 .. n /\ i - 1 < n /\ i - 1 < x /\ (i - 1) + 1 = i
      BY <1>1, <1>3, <2>2
    <3>2. i - 1 \notin W
      BY <1>3, <3>1
    <3>. QED
      BY <3>1, <3>2
  <2>. QED
    BY <2>1, <2>2
<1>5. Good(x) /\ x \in 1 .. n /\ x \in 0 .. n
  BY <1>1, <1>3, <1>4
<1>6. ~Good(0)
  BY <1>1
<1>7. Good(c) /\ c \in 0 .. n
  BY <1>5
<1>8. c # 0
  BY <1>6, <1>7
<1>9. c \in 1 .. n
  <2>1. c \in 0 .. n
    BY <1>7
  <2>. HIDE DEF c
  <2>. QED
    BY <1>1, <1>8, <2>1
<1>10. Run(mem, w) = SubSeq(w, 1, c)
  BY DEF Run, n
<1>. HIDE DEF c
<1>. QED
  BY <1>7, <1>9, <1>10 DEF n

\* Sequences are equal that are element by element.
LEMMA SeqSame ==
    ASSUME NEW S, NEW u \in Seq(S), NEW v \in Seq(S), Len(u) = Len(v), \A i \in 1 .. Len(u) : u[i] = v[i]
    PROVE  u = v
OBVIOUS

\* The nodes of s behind the first a and up to the first j leave.
Cut(s, a, j) == [i \in 1 .. Len(s) - (j - a) |-> IF i <= a THEN s[i] ELSE s[i + (j - a)]]

LEMMA CutIs ==
    ASSUME NEW S, NEW s \in Seq(S), NEW a \in 0 .. Len(s), NEW j \in a .. Len(s)
    PROVE  /\ Cut(s, a, j) \in Seq(S) /\ Len(Cut(s, a, j)) = Len(s) - (j - a) /\ a \in 0 .. Len(Cut(s, a, j))
           /\ s = Spliced(Cut(s, a, j), a, SubSeq(s, a + 1, j))
<1>. DEFINE n == Len(s)
            l == j - a
            q == Cut(s, a, j)
            g == SubSeq(s, a + 1, j)
            r == Spliced(q, a, g)
<1>1. n \in Nat /\ a \in Nat /\ j \in Nat /\ l \in Nat /\ a <= j /\ j <= n /\ s \in [1 .. n -> S]
  OBVIOUS
<1>2. q \in [1 .. n - l -> S]
  BY <1>1 DEF Cut
<1>3. q \in Seq(S) /\ Len(q) = n - l /\ a \in 0 .. Len(q)
  <2>1. n - l \in Nat /\ a <= n - l
    BY <1>1
  <2>. HIDE DEF q, n, l
  <2>. QED
    BY <1>1, <1>2, <2>1
<1>4. g \in Seq(S) /\ Len(g) = l
  BY PieceIs
<1>5. \A k \in 1 .. l : g[k] = s[a + k]
  BY PieceIs
<1>6. \A i \in 1 .. n - l : q[i] = IF i <= a THEN s[i] ELSE s[i + l]
  BY DEF Cut
<1>. HIDE DEF q, g
<1>7. r \in Seq(S) /\ Len(r) = n
  <2>1. r \in Seq(S) /\ Len(r) = Len(q) + Len(g)
    BY <1>3, <1>4, SplicedIs
  <2>. HIDE DEF r, n, l
  <2>. QED
    BY <1>1, <1>3, <1>4, <2>1
<1>8. \A i \in 1 .. n : r[i] = s[i]
  <2>. TAKE i \in 1 .. n
  <2>1. r[i] = IF i <= a THEN q[i] ELSE IF i <= a + l THEN g[i - a] ELSE q[i - l]
    <3>1. i \in 1 .. Len(q) + Len(g)
      BY <1>1, <1>3, <1>4
    <3>. HIDE DEF l, n
    <3>. QED
      BY <1>4, <3>1 DEF Spliced
  <2>. HIDE DEF r, l, n
  <2>2. CASE i <= a
    <3>1. i \in 1 .. n - l
      BY <1>1, <2>2 DEF l
    <3>. QED
      BY <1>6, <2>1, <2>2, <3>1
  <2>3. CASE a < i /\ i <= a + l
    <3>1. i - a \in 1 .. l /\ a + (i - a) = i /\ ~(i <= a)
      BY <1>1, <2>3
    <3>. QED
      BY <1>5, <2>1, <2>3, <3>1
  <2>4. CASE a + l < i
    <3>1. i - l \in 1 .. n - l /\ ~(i - l <= a) /\ ~(i <= a) /\ ~(i <= a + l) /\ (i - l) + l = i
      BY <1>1, <2>4
    <3>. QED
      BY <1>6, <2>1, <3>1
  <2>. QED
    BY <1>1, <2>2, <2>3, <2>4
<1>9. r = s
  <2>. HIDE DEF r, n, l
  <2>. QED
    BY <1>7, <1>8, SeqSame DEF n
<1>. QED
  BY <1>3, <1>9 DEF q, g

\* The nodes of s with the key of the one behind its first a are those up to the first j.
RunUpTo(mem, s, a, j) ==
    /\ Run(mem, SubSeq(s, a + 1, Len(s))) = SubSeq(s, a + 1, j)
    /\ \A h \in 1 .. Len(s) : mem.key[s[h]] = mem.key[s[a + 1]] <=> a < h /\ h <= j

\* The run at the first node with a key has all the nodes with the key.
LEMMA RunOf ==
    ASSUME NEW mem, NEW S, NEW s \in Seq(S), Together(mem, s), NEW a \in 0 .. Len(s), a < Len(s),
           a > 0 => mem.key[s[a]] # mem.key[s[a + 1]]
    PROVE  \E j \in a + 1 .. Len(s) : RunUpTo(mem, s, a, j)
<1>. DEFINE n == Len(s)
            w == SubSeq(s, a + 1, n)
<1>1. n \in Nat /\ a \in Nat /\ a < n /\ n \in a .. n /\ a + 1 \in 1 .. n
  OBVIOUS
<1>2. w \in Seq(S) /\ Len(w) = n - a
  BY <1>1, PieceIs
<1>3. \A k \in 1 .. n - a : w[k] = s[a + k] /\ a + k \in 1 .. n
  BY <1>1, PieceIs
<1>. HIDE DEF w
<1>4. PICK x \in 1 .. Len(w) :
         /\ Run(mem, w) = SubSeq(w, 1, x)
         /\ \A i \in 1 .. x : mem.key[w[i]] = mem.key[w[1]]
         /\ x < Len(w) => mem.key[w[x + 1]] # mem.key[w[1]]
  <2>1. Len(w) > 0
    BY <1>1, <1>2
  <2>. QED
    BY <1>2, <2>1, RunIs
<1>. DEFINE j == a + x
<1>5. j \in a + 1 .. n /\ j \in a .. n /\ x \in 1 .. n - a /\ j - a = x
  BY <1>1, <1>2, <1>4
<1>. HIDE DEF n
<1>6. SubSeq(w, 1, x) = SubSeq(s, a + 1, j)
  <2>1. 0 \in 0 .. Len(w) /\ x \in 0 .. Len(w)
    BY <1>1, <1>2, <1>4
  <2>2. SubSeq(w, 0 + 1, x) \in Seq(S) /\ Len(SubSeq(w, 0 + 1, x)) = x - 0
    BY <1>2, <2>1, PieceIs
  <2>3. \A k \in 1 .. x - 0 : SubSeq(w, 0 + 1, x)[k] = w[0 + k]
    BY <1>2, <2>1, PieceIs
  <2>. HIDE DEF j
  <2>4. SubSeq(s, a + 1, j) \in Seq(S) /\ Len(SubSeq(s, a + 1, j)) = j - a
    BY <1>5, PieceIs DEF n
  <2>5. \A k \in 1 .. j - a : SubSeq(s, a + 1, j)[k] = s[a + k]
    BY <1>5, PieceIs DEF n
  <2>6. 0 + 1 = 1 /\ x - 0 = x /\ \A k \in 1 .. x : 0 + k = k /\ k \in 1 .. n - a
    BY <1>1, <1>5
  <2>7. Len(SubSeq(w, 1, x)) = Len(SubSeq(s, a + 1, j))
    BY <1>5, <2>2, <2>4, <2>6
  <2>8. \A k \in 1 .. Len(SubSeq(w, 1, x)) : SubSeq(w, 1, x)[k] = SubSeq(s, a + 1, j)[k]
    BY <1>3, <1>5, <2>2, <2>3, <2>5, <2>6
  <2>9. SubSeq(w, 1, x) \in Seq(S)
    BY <2>2, <2>6
  <2>. QED
    BY <2>4, <2>7, <2>8, <2>9, SeqSame
<1>7. mem.key[w[1]] = mem.key[s[a + 1]]
  <2>1. 1 \in 1 .. n - a
    BY <1>1, <1>5
  <2>2. w[1] = s[a + 1]
    BY <1>3, <2>1
  <2>. QED
    BY <2>2
<1>8. ASSUME NEW h \in 1 .. n PROVE mem.key[s[h]] = mem.key[s[a + 1]] <=> a < h /\ h <= j
  <2>0. \A f, i, e \in 1 .. n : f <= i /\ i <= e /\ mem.key[s[f]] = mem.key[s[e]] => mem.key[s[i]] = mem.key[s[f]]
    BY SMTT(30) DEF Together, n
  <2>1. CASE a < h /\ h <= j
    <3>. HIDE DEF j, w
    <3>1. /\ a \in Nat /\ n \in Nat /\ h \in Nat /\ j \in Nat /\ x \in Nat
          /\ j - a = x /\ j <= n /\ a < h /\ h <= j
      BY SMTT(30), <1>1, <1>5, <2>1
    <3>2. h - a \in 1 .. x /\ h - a \in 1 .. n - a /\ a + (h - a) = h
      BY ONLY <3>1
    <3>. QED
      BY <1>3, <1>4, <1>7, <2>1, <3>2
  <2>2. CASE h <= a
    <3>1. a \in 1 .. n /\ a > 0 /\ a <= a + 1
      BY <1>1, <2>2
    <3>2. mem.key[s[h]] # mem.key[s[a + 1]]
      <4>. SUFFICES ASSUME mem.key[s[h]] = mem.key[s[a + 1]] PROVE FALSE
        OBVIOUS
      <4>1. mem.key[s[a]] = mem.key[s[h]]
        BY <1>1, <2>0, <2>2, <3>1
      <4>. QED
        BY <3>1, <4>1
    <3>. QED
      BY <1>1, <2>2, <3>2
  <2>3. CASE j < h
    <3>1. x + 1 \in 1 .. n - a /\ x < n - a /\ a + (x + 1) = j + 1 /\ j + 1 \in 1 .. n /\ a + 1 <= j + 1 /\ j + 1 <= h
      BY <1>1, <1>5, <2>3
    <3>2. mem.key[s[j + 1]] # mem.key[s[a + 1]]
      BY <1>2, <1>3, <1>4, <1>7, <3>1
    <3>3. mem.key[s[h]] # mem.key[s[a + 1]]
      <4>. SUFFICES ASSUME mem.key[s[h]] = mem.key[s[a + 1]] PROVE FALSE
        OBVIOUS
      <4>1. mem.key[s[j + 1]] = mem.key[s[a + 1]]
        BY <1>1, <2>0, <3>1
      <4>. QED
        BY <3>2, <4>1
    <3>. QED
      BY <1>1, <1>5, <2>3, <3>3
  <2>. QED
    BY <1>1, <1>5, <2>1, <2>2, <2>3
<1>. QED
  BY <1>4, <1>5, <1>6, <1>8 DEF n, w, RunUpTo

-----------------------------------------------------------------------------
(* What a call makes of the memory.                                        *)

\* r is mem but for table t, which had the nodes A and has the nodes B.
Apart(mem, r, T, t, A, B) ==
    /\ r \in Memories(T)
    /\ \A o \in T \ {t} : r.size[o] = mem.size[o] /\ r.buckets[o] = mem.buckets[o] /\ r.next[o] = mem.next[o]
    /\ A \subseteq DOMAIN mem.key /\ DOMAIN r.key = (DOMAIN mem.key \ A) \cup B
    /\ B \cap DOMAIN mem.key \subseteq A
    /\ \A x \in DOMAIN mem.key \ A : r.key[x] = mem.key[x] /\ r.next[x] = mem.next[x]

\* Table t was s, and is q.
Becomes(mem, r, T, t, s, q) == Apart(mem, r, T, t, ToSet(s), ToSet(q)) /\ Held(r, t, q, FALSE)

LEMMA ApartTwice ==
    ASSUME NEW mem, NEW r, NEW u, NEW T, NEW t, NEW A, NEW B, NEW C,
           Apart(mem, r, T, t, A, B), Apart(r, u, T, t, B, C)
    PROVE  Apart(mem, u, T, t, A, C)
<1>1. \A o \in T \ {t} : u.size[o] = mem.size[o] /\ u.buckets[o] = mem.buckets[o] /\ u.next[o] = mem.next[o]
  BY DEF Apart
<1>2. /\ u \in Memories(T) /\ A \subseteq DOMAIN mem.key
      /\ DOMAIN u.key = (DOMAIN mem.key \ A) \cup C /\ C \cap DOMAIN mem.key \subseteq A
  BY DEF Apart
<1>3. ASSUME NEW x \in DOMAIN mem.key \ A PROVE u.key[x] = mem.key[x] /\ u.next[x] = mem.next[x]
  <2>1. x \in DOMAIN r.key \ B /\ r.key[x] = mem.key[x] /\ r.next[x] = mem.next[x]
    BY DEF Apart
  <2>. QED
    BY <2>1 DEF Apart
<1>. QED
  BY <1>1, <1>2, <1>3 DEF Apart

LEMMA BecomesTwice ==
    ASSUME NEW mem, NEW r, NEW u, NEW T, NEW t, NEW s, NEW q, NEW w,
           Becomes(mem, r, T, t, s, q), Becomes(r, u, T, t, q, w)
    PROVE  Becomes(mem, u, T, t, s, w)
  BY ApartTwice DEF Becomes

\* A sequence of nodes has its elements.
LEMMA ElementsOf ==
    ASSUME NEW S, NEW s \in Seq(S)
    PROVE  ToSet(s) = {s[i] : i \in 1 .. Len(s)} /\ ToSet(s) \subseteq S /\ \A i \in 1 .. Len(s) : s[i] \in ToSet(s)
  BY DEF ToSet

\* Nothing of table o, which is s, has changed.
SameTable(mem, r, o, s) ==
    /\ r.size[o] = mem.size[o] /\ r.buckets[o] = mem.buckets[o] /\ r.next[o] = mem.next[o]
    /\ \A x \in ToSet(s) : x \in DOMAIN r.key /\ r.key[x] = mem.key[x] /\ r.next[x] = mem.next[x]

LEMMA HeldSame ==
    ASSUME NEW mem, NEW r, NEW o, NEW so, NEW stale, Held(mem, o, so, stale), SameTable(mem, r, o, so)
    PROVE  Held(r, o, so, stale)
<1>. DEFINE n == Len(so)
<1>1. /\ ChainIs(mem, o, so) /\ mem.size[o] = n /\ BucketsRight(mem, o, so, stale) /\ Together(mem, so)
  BY DEF Held, Filed
<1>2. so \in Seq(DOMAIN mem.key) /\ n \in Nat /\ \A i \in 1 .. n : so[i] \in ToSet(so)
  <2>1. so \in Seq(DOMAIN mem.key)
    BY <1>1 DEF ChainIs
  <2>. QED
    BY <2>1, ElementsOf
<1>3. \A i \in 1 .. n : so[i] \in DOMAIN r.key /\ r.key[so[i]] = mem.key[so[i]] /\ r.next[so[i]] = mem.next[so[i]]
  BY <1>2 DEF SameTable
<1>4. r.size[o] = mem.size[o] /\ r.buckets[o] = mem.buckets[o] /\ r.next[o] = mem.next[o]
  BY DEF SameTable
<1>5. ChainIs(r, o, so)
  <2>1. so \in Seq(DOMAIN r.key)
    <3>1. so \in [1 .. n -> DOMAIN mem.key]
      BY <1>2
    <3>2. so \in [1 .. n -> DOMAIN r.key]
      BY <1>3, <3>1
    <3>. QED
      BY <1>2, <3>2
  <2>2. ASSUME NEW i \in 0 .. n PROVE r.next[Place(o, so, i)] = Behind(so, i)
    <3>1. mem.next[Place(o, so, i)] = Behind(so, i)
      BY <1>1 DEF ChainIs
    <3>2. CASE i = 0
      BY <1>4, <3>1, <3>2 DEF Place
    <3>3. CASE i # 0
      <4>1. i \in 1 .. n
        BY <1>2, <3>3
      <4>. QED
        BY <1>3, <3>1, <3>3, <4>1 DEF Place
    <3>. QED
      BY <3>2, <3>3
  <2>. QED
    BY <1>1, <2>1, <2>2 DEF ChainIs
<1>6. \A b : \A i \in 1 .. n : In(r, o, so, b, i) <=> In(mem, o, so, b, i)
  BY <1>3, <1>4 DEF In, bucket, bucket_count
<1>7. Together(r, so)
  BY <1>1, <1>3 DEF Together
<1>8. ASSUME NEW b \in DOMAIN r.buckets[o] PROVE BucketRight(r, o, so, b, stale)
  <2>1. BucketRight(mem, o, so, b, stale)
    BY <1>1, <1>4 DEF BucketsRight
  <2>2. Vacant(mem, o, so, b) => Vacant(r, o, so, b)
    BY <1>6 DEF Vacant
  <2>3. \A lo, hi \in 1 .. n : Block(mem, o, so, b, lo, hi) => Block(r, o, so, b, lo, hi)
    BY <1>6 DEF Block
  <2>. QED
    BY <1>4, <2>1, <2>2, <2>3 DEF BucketRight
<1>. QED
  BY <1>1, <1>4, <1>5, <1>7, <1>8 DEF Held, Filed, BucketsRight

\* The other tables are what they were.
LEMMA KeptElsewhere ==
    ASSUME NEW mem, NEW r, NEW T, NEW t, NEW A, NEW B, Apart(mem, r, T, t, A, B),
           NEW o \in T \ {t}, NEW so, NEW stale, Held(mem, o, so, stale), ToSet(so) \cap A = {}
    PROVE  Held(r, o, so, stale)
<1>1. so \in Seq(DOMAIN mem.key)
  BY DEF Held, Filed, ChainIs
<1>2. ToSet(so) \subseteq DOMAIN mem.key \ A
  BY <1>1, ElementsOf
<1>3. SameTable(mem, r, o, so)
  BY <1>2 DEF Apart, SameTable
<1>. QED
  BY <1>3, HeldSame

\* A spliced chain has the elements of both.
LEMMA SplicedElements ==
    ASSUME NEW S, NEW s \in Seq(S), NEW g \in Seq(S), NEW p \in 0 .. Len(s)
    PROVE  /\ ToSet(Spliced(s, p, g)) = ToSet(s) \cup ToSet(g)
           /\ Distinct(Spliced(s, p, g)) => ToSet(s) \cap ToSet(g) = {}
<1>. DEFINE n == Len(s)
            l == Len(g)
            q == Spliced(s, p, g)
<1>1. n \in Nat /\ l \in Nat /\ p \in Nat /\ p <= n
  OBVIOUS
<1>2. /\ q \in Seq(S) /\ Len(q) = n + l
      /\ \A i \in 1 .. p : q[i] = s[i]
      /\ \A i \in 1 .. l : q[p + i] = g[i]
      /\ \A i \in p + 1 .. n : q[i + l] = s[i]
  BY SplicedIs
<1>3. /\ ToSet(s) = {s[i] : i \in 1 .. n} /\ ToSet(g) = {g[i] : i \in 1 .. l}
      /\ ToSet(q) = {q[i] : i \in 1 .. n + l}
  BY <1>2, ElementsOf
<1>. HIDE DEF n, l, q
<1>4. ASSUME NEW i \in 1 .. n
      PROVE  \E k \in 1 .. n + l : (k <= p \/ k > p + l) /\ q[k] = s[i]
  <2>1. CASE i <= p
    <3>1. i \in 1 .. p /\ i \in 1 .. n + l
      BY <1>1, <2>1
    <3>. QED
      BY <1>2, <2>1, <3>1
  <2>2. CASE i > p
    <3>1. i \in p + 1 .. n /\ i + l \in 1 .. n + l /\ i + l > p + l
      BY <1>1, <2>2
    <3>. QED
      BY <1>2, <3>1
  <2>. QED
    BY <1>1, <2>1, <2>2
<1>5. ASSUME NEW i \in 1 .. l
      PROVE  p + i \in 1 .. n + l /\ p + i > p /\ p + i <= p + l /\ q[p + i] = g[i]
  BY <1>1, <1>2
<1>6. ToSet(q) \subseteq ToSet(s) \cup ToSet(g)
  <2>1. ASSUME NEW k \in 1 .. n + l PROVE q[k] \in ToSet(s) \cup ToSet(g)
    <3>1. CASE k \in 1 .. p /\ k \in 1 .. n
      BY <1>2, <1>3, <3>1
    <3>2. CASE k - p \in 1 .. l /\ k = p + (k - p)
      <4>1. q[k] = g[k - p]
        BY <1>2, <3>2
      <4>. QED
        BY <1>3, <3>2, <4>1
    <3>3. CASE k - l \in p + 1 .. n /\ k - l \in 1 .. n /\ k = (k - l) + l
      <4>1. q[k] = s[k - l]
        BY <1>2, <3>3
      <4>. QED
        BY <1>3, <3>3, <4>1
    <3>. QED
      BY <1>1, <3>1, <3>2, <3>3, SplicedPlaces
  <2>. QED
    BY <1>3, <2>1
<1>7. ToSet(s) \cup ToSet(g) \subseteq ToSet(q)
  BY <1>3, <1>4, <1>5
<1>8. ASSUME Distinct(q), NEW x \in ToSet(s), x \in ToSet(g) PROVE FALSE
  <2>1. PICK i \in 1 .. n : x = s[i]
    BY <1>3
  <2>2. PICK h \in 1 .. l : x = g[h]
    BY <1>3, <1>8
  <2>3. PICK k \in 1 .. n + l : (k <= p \/ k > p + l) /\ q[k] = s[i]
    BY <1>4
  <2>4. p + h \in 1 .. n + l /\ p + h > p /\ p + h <= p + l /\ q[p + h] = g[h]
    BY <1>5
  <2>5. k = p + h
    BY <1>2, <1>8, <2>1, <2>2, <2>3, <2>4 DEF Distinct
  <2>. QED
    BY <1>1, <2>3, <2>4, <2>5
<1>9. ToSet(q) = ToSet(s) \cup ToSet(g)
  BY <1>6, <1>7
<1>10. Distinct(q) => ToSet(s) \cap ToSet(g) = {}
  BY <1>8
<1>. QED
  BY <1>9, <1>10 DEF q

\* Nodes of t have left, and q is left; the others keep their keys.
KeysStay(mem, r) == DOMAIN r.key \subseteq DOMAIN mem.key /\ \A x \in DOMAIN r.key : r.key[x] = mem.key[x]
Erased(mem, r, T, t, s, q) ==
    /\ Becomes(mem, r, T, t, s, q) /\ KeysStay(mem, r)
    /\ bucket_count(r, t) = bucket_count(mem, t)

CutFrom(mem, r, T, t, s, a, j) ==
    /\ Erased(mem, r, T, t, s, Cut(s, a, j))
    /\ ToSet(Cut(s, a, j)) = ToSet(s) \ ToSet(SubSeq(s, a + 1, j))

\* What erase_nodes makes of the nodes behind the first a up to the first j, all of one bucket.
LEMMA EraseAt ==
    ASSUME NEW T, Heads(T), NEW mem \in Memories(T), NEW t \in T, NEW s, Held(mem, t, s, FALSE),
           NEW a \in 0 .. Len(s), NEW j \in a .. Len(s), a < j,
           NEW b \in DOMAIN mem.buckets[t], \A i \in a + 1 .. j : In(mem, t, s, b, i),
           NEW r, r = erase_nodes(mem, t, b, Place(t, s, a), SubSeq(s, a + 1, j))
    PROVE  CutFrom(mem, r, T, t, s, a, j)
<1>. DEFINE n == Len(s)
            q == Cut(s, a, j)
            g == SubSeq(s, a + 1, j)
            D == DOMAIN mem.key
<1>1. ChainIs(mem, t, s) /\ Filed(mem, t, s, FALSE) /\ Together(mem, s) /\ Distinct(s) /\ s \in Seq(D)
  BY DEF Held, Filed, ChainIs
<1>2. n \in Nat /\ a \in Nat /\ j \in Nat /\ j <= n /\ a <= n
  BY <1>1
<1>3. q \in Seq(D) /\ Len(q) = n - (j - a) /\ a \in 0 .. Len(q) /\ s = Spliced(q, a, g)
  BY <1>1, CutIs
<1>4. g \in Seq(D) /\ Len(g) = j - a /\ \A k \in 1 .. j - a : g[k] = s[a + k]
  BY <1>1, PieceIs
<1>5. Place(t, q, a) = Place(t, s, a)
  <2>1. CASE a = 0
    BY <2>1 DEF Place
  <2>2. CASE a # 0
    <3>. HIDE DEF n
    <3>1. a \in 1 .. n - (j - a)
      BY <1>2, <1>3, <2>2
    <3>2. q[a] = s[a]
      BY <1>2, <3>1 DEF Cut, n
    <3>. QED
      BY <2>2, <3>2 DEF Place
  <2>. QED
    BY <2>1, <2>2
<1>6. AllIn(mem, t, g, b)
  <2>. HIDE DEF g, n
  <2>1. ASSUME NEW k \in 1 .. j - a PROVE In(mem, t, g, b, k)
    <3>1. a + k \in a + 1 .. j
      BY <1>2
    <3>. QED
      BY <1>4, <3>1 DEF In
  <2>. QED
    BY <1>4, <2>1 DEF AllIn
<1>. HIDE DEF q, g
<1>7. Len(g) > 0
  BY <1>2, <1>4
<1>8. Filed(mem, t, Spliced(q, a, g), FALSE) /\ r = erase_nodes(mem, t, b, Place(t, q, a), g)
  BY <1>1, <1>3, <1>5 DEF g
<1>9. /\ r \in Memories(T) /\ Filed(r, t, q, FALSE)
      /\ KeysWithout(mem, r, g)
      /\ Elsewhere(mem, r, T, t)
      /\ LinksBut(mem, r, Place(t, q, a))
  <2>1. q \in Seq(DOMAIN mem.key) /\ g \in Seq(DOMAIN mem.key) /\ a \in 0 .. Len(q)
    BY <1>3, <1>4
  <2>. HIDE DEF D
  <2>2. /\ r \in Memories(T) /\ Filed(r, t, q, FALSE)
        /\ KeysWithout(mem, r, g)
        /\ Elsewhere(mem, r, T, t)
        /\ LinksBut(mem, r, Place(t, q, a))
    BY <2>1, <1>6, <1>7, <1>8, EraseNodesIs
  <2>. QED
    BY <2>2 DEF D
<1>10. ToSet(s) = ToSet(q) \cup ToSet(g) /\ ToSet(q) \cap ToSet(g) = {}
  BY <1>1, <1>3, <1>4, SplicedElements
<1>11. ToSet(s) \subseteq D /\ ToSet(q) \subseteq D /\ \A i \in 1 .. Len(q) : q[i] \in ToSet(q)
  BY <1>1, <1>3, ElementsOf
<1>12. Together(r, q)
  <2>1. \A i \in 1 .. Len(q) : r.key[q[i]] = mem.key[q[i]]
    BY <1>9, <1>10, <1>11 DEF KeysWithout
  <2>. QED
    BY <1>1, <1>3, <1>4, <2>1, TogetherCut
<1>13. DOMAIN r.next = T \cup DOMAIN r.key /\ DOMAIN r.key \subseteq Nodes
  <2>1. r.next \in [T \cup DOMAIN r.key -> Nodes \cup {Null}]
    BY <1>9, MemoryHas
  <2>2. DOMAIN r.key \subseteq Nodes
    BY <1>9, MemoryHas
  <2>. QED
    BY <2>1, <2>2
<1>14. Place(t, q, a) = t \/ Place(t, q, a) \in ToSet(q)
  <2>1. CASE a = 0
    BY <2>1 DEF Place
  <2>2. CASE a # 0
    <3>1. a \in 1 .. Len(q)
      BY <1>2, <1>3, <2>2
    <3>. QED
      BY <1>11, <2>2, <3>1 DEF Place
  <2>. QED
    BY <2>1, <2>2
<1>15. ToSet(q) \subseteq Nodes /\ T \cap Nodes = {}
  <2>1. D \subseteq Nodes
    BY MemoryHas
  <2>. QED
    BY <1>11, <2>1 DEF Heads
<1>16. Apart(mem, r, T, t, ToSet(s), ToSet(q))
  <2>1. \A o \in T \ {t} : r.size[o] = mem.size[o] /\ r.buckets[o] = mem.buckets[o]
    BY <1>9 DEF Elsewhere
  <2>2. \A o \in T \ {t} : r.next[o] = mem.next[o]
    BY <1>9, <1>13, <1>14, <1>15 DEF LinksBut
  <2>3. DOMAIN r.key = D \ ToSet(g)
    BY <1>9 DEF KeysWithout
  <2>4. DOMAIN r.key = (D \ ToSet(s)) \cup ToSet(q)
    BY <1>10, <1>11, <2>3
  <2>5. \A x \in D \ ToSet(s) : r.key[x] = mem.key[x]
    BY <1>9, <1>10 DEF KeysWithout
  <2>6. ASSUME NEW x \in D \ ToSet(s) PROVE r.next[x] = mem.next[x]
    <3>1. x \in DOMAIN r.next /\ x \notin ToSet(q) /\ x # t
      <4>1. D \subseteq Nodes
        BY MemoryHas
      <4>. QED
        BY <1>10, <1>13, <1>15, <2>4, <4>1
    <3>. QED
      BY <1>9, <1>14, <3>1 DEF LinksBut
  <2>. QED
    BY <1>9, <1>10, <1>11, <2>1, <2>2, <2>4, <2>5, <2>6 DEF Apart
<1>17. bucket_count(r, t) = bucket_count(mem, t)
  BY EraseNodesCount
<1>18. KeysStay(mem, r)
  BY <1>9 DEF KeysStay, KeysWithout
<1>19. ToSet(q) = ToSet(s) \ ToSet(g)
  BY <1>10
<1>20. Erased(mem, r, T, t, s, q)
  BY <1>9, <1>12, <1>16, <1>17, <1>18 DEF Erased, Becomes, Held
<1>. QED
  BY <1>19, <1>20 DEF q, g, CutFrom

\* r has one node more, n of key k, and all the keys of mem.
KeysWith(mem, r, n, k) ==
    /\ DOMAIN r.key = DOMAIN mem.key \cup {n} /\ r.key[n] = k
    /\ \A x \in DOMAIN mem.key : r.key[x] = mem.key[x]

\* mem with a node n of key k that is in no table.
Allocated(mem, n, k) == [mem EXCEPT !.next = With(@, n, Null), !.key = With(@, n, k)]

LEMMA AllocatedIs ==
    ASSUME NEW T, Heads(T), NEW mem \in Memories(T), NEW n \in Nodes \ DOMAIN mem.key, NEW k \in Keys,
           NEW r, r = Allocated(mem, n, k)
    PROVE  /\ r \in Memories(T) /\ KeysWith(mem, r, n, k) /\ r.size = mem.size /\ r.buckets = mem.buckets
           /\ \A x \in DOMAIN mem.next : x # n /\ r.next[x] = mem.next[x]
<1>. DEFINE D == DOMAIN mem.key
            next == With(mem.next, n, Null)
            key == With(mem.key, n, k)
<1>1. /\ D \subseteq Nodes /\ mem.key \in [D -> Keys]
      /\ mem.next \in [T \cup D -> Nodes \cup {Null}] /\ DOMAIN mem.next = T \cup D
      /\ mem.size \in [T -> Nat] /\ mem.buckets \in [T -> Arrays(T)]
  BY MemoryHas
<1>2. n \notin T /\ n \in Nodes /\ n \notin D /\ n \notin DOMAIN mem.next
  BY <1>1 DEF Heads
<1>3. DOMAIN key = D \cup {n} /\ key[n] = k /\ \A x \in D : key[x] = mem.key[x]
  BY <1>2 DEF With
<1>4. DOMAIN next = T \cup (D \cup {n}) /\ next[n] = Null /\ \A x \in T \cup D : next[x] = mem.next[x]
  BY <1>1, <1>2 DEF With
<1>5. key \in [D \cup {n} -> Keys]
  <2>1. key = [x \in D \cup {n} |-> key[x]]
    BY <1>3 DEF With
  <2>2. \A x \in D \cup {n} : key[x] \in Keys
    BY <1>1, <1>3
  <2>. HIDE DEF key
  <2>. QED
    BY <2>1, <2>2
<1>6. next \in [T \cup (D \cup {n}) -> Nodes \cup {Null}]
  <2>1. next = [x \in T \cup (D \cup {n}) |-> next[x]]
    BY <1>1, <1>4 DEF With
  <2>2. \A x \in T \cup (D \cup {n}) : next[x] \in Nodes \cup {Null}
    BY <1>1, <1>4
  <2>. HIDE DEF next
  <2>. QED
    BY <2>1, <2>2
<1>7. r = [next |-> next, key |-> key, size |-> mem.size, buckets |-> mem.buckets]
  <2>1. mem = [next |-> mem.next, key |-> mem.key, size |-> mem.size, buckets |-> mem.buckets]
    BY FieldsOf
  <2>. HIDE DEF next, key
  <2>. DEFINE put == [mem EXCEPT !.next = next, !.key = key]
  <2>2. put \in [next : {next}, key : {key}, size : {mem.size}, buckets : {mem.buckets}]
    BY <2>1
  <2>3. r = put
    BY DEF Allocated, next, key
  <2>. HIDE DEF put
  <2>. QED
    BY <2>2, <2>3
<1>. HIDE DEF next, key
<1>8. r.next = next /\ r.key = key /\ r.size = mem.size /\ r.buckets = mem.buckets
  BY <1>7
<1>9. r = [next |-> r.next, key |-> r.key, size |-> r.size, buckets |-> r.buckets]
  BY <1>7, <1>8
<1>10. r \in Memories(T)
  <2>1. r.size \in [T -> Nat] /\ r.buckets \in [T -> Arrays(T)]
    BY <1>1, <1>8
  <2>2. DOMAIN r.key = D \cup {n} /\ D \cup {n} \subseteq Nodes
    BY <1>1, <1>2, <1>3, <1>8
  <2>3. r.key \in [DOMAIN r.key -> Keys]
    BY <1>5, <1>8, <2>2
  <2>4. r.next \in [T \cup DOMAIN r.key -> Nodes \cup {Null}]
    BY <1>6, <1>8, <2>2
  <2>. QED
    BY <1>9, <2>1, <2>2, <2>3, <2>4, MemoryIs
<1>11. KeysWith(mem, r, n, k)
  BY <1>3, <1>8 DEF KeysWith
<1>12. \A x \in DOMAIN mem.next : x # n /\ r.next[x] = mem.next[x]
  BY <1>1, <1>2, <1>4, <1>8
<1>. QED
  BY <1>8, <1>10, <1>11, <1>12

\* A new node is put where its key may be.
LEMMA InsertNodeIs ==
    ASSUME NEW T, Heads(T), NEW mem \in Memories(T), NEW t \in T, NEW s, Held(mem, t, s, FALSE),
           NEW n \in Nodes \ DOMAIN mem.key, NEW k \in Keys, NEW p \in 0 .. Len(s),
           Mayput(mem, t, s, bucket(mem, t, k), p), Beside(mem, s, k, p),
           NEW r, r = insert_nodes(Allocated(mem, n, k), t, bucket(mem, t, k), Place(t, s, p), <<n>>)
    PROVE  Becomes(mem, r, T, t, s, Spliced(s, p, <<n>>)) /\ KeysWith(mem, r, n, k)
<1>. DEFINE D == DOMAIN mem.key
            new == Allocated(mem, n, k)
            g == <<n>>
            b == bucket(mem, t, k)
            q == Spliced(s, p, g)
<1>1. /\ new \in Memories(T) /\ KeysWith(mem, new, n, k) /\ new.size = mem.size /\ new.buckets = mem.buckets
      /\ \A x \in DOMAIN mem.next : x # n /\ new.next[x] = mem.next[x]
  BY AllocatedIs
<1>. HIDE DEF new
<1>2. /\ DOMAIN new.key = D \cup {n} /\ new.key[n] = k /\ \A x \in D : new.key[x] = mem.key[x]
  BY <1>1 DEF KeysWith
<1>3. ChainIs(mem, t, s) /\ Together(mem, s) /\ s \in Seq(D) /\ Len(s) \in Nat
  BY DEF Held, Filed, ChainIs
<1>4. ToSet(s) \subseteq D /\ \A i \in 1 .. Len(s) : s[i] \in ToSet(s)
  BY <1>3, ElementsOf
<1>5. D \subseteq Nodes /\ DOMAIN mem.next = T \cup D
  <2>1. mem.next \in [T \cup D -> Nodes \cup {Null}] /\ D \subseteq Nodes
    BY MemoryHas
  <2>. QED
    BY <2>1
<1>6. Held(new, t, s, FALSE)
  <2>1. SameTable(mem, new, t, s)
    BY <1>1, <1>2, <1>4, <1>5 DEF SameTable
  <2>. QED
    BY <2>1, HeldSame
<1>7. g \in Seq({n}) /\ Len(g) = 1 /\ g[1] = n /\ g \in Seq(DOMAIN new.key) /\ 1 .. Len(g) = {1}
  BY <1>2
<1>. HIDE DEF g
<1>8. b = bucket(new, t, k) /\ b \in DOMAIN new.buckets[t]
  <2>1. b \in DOMAIN mem.buckets[t]
    BY BucketIn
  <2>. QED
    BY <1>1, <2>1 DEF bucket, bucket_count
<1>9. Mayput(new, t, s, b, p)
  <2>1. \A i \in 1 .. Len(s) : In(new, t, s, b, i) <=> In(mem, t, s, b, i)
    BY <1>1, <1>2, <1>4 DEF In, bucket, bucket_count
  <2>. QED
    BY <2>1 DEF Mayput, Vacant, Block
<1>10. Group(new, t, s, b, g)
  <2>1. \A i \in 1 .. Len(g) : In(new, t, g, b, i)
    BY <1>2, <1>7, <1>8 DEF In
  <2>2. \A i \in 1 .. Len(g), j \in 1 .. Len(s) : g[i] # s[j]
    BY <1>3, <1>4, <1>7
  <2>3. Distinct(g)
    BY <1>7 DEF Distinct
  <2>. QED
    BY <1>7, <2>1, <2>2, <2>3 DEF Group
<1>11. r = insert_nodes(new, t, b, Place(t, s, p), g)
  BY DEF g, new
<1>12. Filed(new, t, s, FALSE)
  BY <1>6 DEF Held
<1>13. /\ r \in Memories(T) /\ Filed(r, t, q, FALSE) /\ r.key = new.key
       /\ Elsewhere(new, r, T, t)
       /\ LinksButTwo(new, r, Place(t, s, p), g[Len(g)])
  <2>1. Inserted(new, r, T, t, s, p, g)
    BY <1>1, <1>8, <1>9, <1>10, <1>11, <1>12, InsertNodesIs
  <2>. QED
    BY <2>1 DEF Inserted
<1>14. KeysWith(mem, r, n, k)
  BY <1>1, <1>13 DEF KeysWith
<1>15. Together(r, q)
  <2>1. \A i \in 1 .. Len(s) : r.key[s[i]] = mem.key[s[i]] /\ s[i] \in D \cup {n}
    BY <1>2, <1>4, <1>13
  <2>2. \A i \in 1 .. Len(g) : r.key[g[i]] = k
    BY <1>2, <1>7, <1>13
  <2>3. s \in Seq(D \cup {n}) /\ g \in Seq(D \cup {n})
    BY <1>2, <1>3, <1>7
  <2>. QED
    BY <1>3, <2>1, <2>2, <2>3, TogetherSpliced
<1>16. ToSet(q) = ToSet(s) \cup {n}
  <2>1. s \in Seq(D \cup {n}) /\ g \in Seq(D \cup {n})
    BY <1>2, <1>3, <1>7
  <2>2. ToSet(q) = ToSet(s) \cup ToSet(g)
    BY <2>1, SplicedElements
  <2>3. ToSet(g) = {n}
    BY DEF g, ToSet
  <2>. QED
    BY <2>2, <2>3
<1>17. Place(t, s, p) = t \/ Place(t, s, p) \in ToSet(s)
  <2>1. CASE p = 0
    BY <2>1 DEF Place
  <2>2. CASE p # 0
    <3>1. p \in 1 .. Len(s)
      BY <1>3, <2>2
    <3>. QED
      BY <1>4, <2>2, <3>1 DEF Place
  <2>. QED
    BY <2>1, <2>2
<1>18. T \cap Nodes = {}
  BY DEF Heads
<1>19. DOMAIN new.next = T \cup (D \cup {n})
  <2>1. new.next \in [T \cup DOMAIN new.key -> Nodes \cup {Null}]
    BY <1>1, MemoryHas
  <2>. QED
    BY <1>2, <2>1
<1>20. Apart(mem, r, T, t, ToSet(s), ToSet(q))
  <2>1. \A o \in T \ {t} : r.size[o] = mem.size[o] /\ r.buckets[o] = mem.buckets[o]
    BY <1>1, <1>13 DEF Elsewhere
  <2>2. ASSUME NEW o \in T \ {t} PROVE r.next[o] = mem.next[o]
    <3>1. o # Place(t, s, p) /\ o # n /\ o \in DOMAIN new.next
      BY <1>4, <1>5, <1>17, <1>18, <1>19
    <3>2. r.next[o] = new.next[o]
      BY <1>7, <1>13, <3>1 DEF LinksButTwo
    <3>. QED
      BY <1>1, <1>5, <3>2
  <2>3. ASSUME NEW x \in D \ ToSet(s) PROVE r.key[x] = mem.key[x] /\ r.next[x] = mem.next[x]
    <3>1. x # Place(t, s, p) /\ x # n /\ x \in DOMAIN new.next
      BY <1>4, <1>5, <1>17, <1>18, <1>19
    <3>2. r.next[x] = new.next[x]
      BY <1>7, <1>13, <3>1 DEF LinksButTwo
    <3>. QED
      BY <1>1, <1>2, <1>5, <1>13, <3>2
  <2>4. DOMAIN r.key = (D \ ToSet(s)) \cup ToSet(q) /\ ToSet(q) \cap D \subseteq ToSet(s)
    BY <1>2, <1>4, <1>13, <1>16
  <2>. QED
    BY <1>4, <1>13, <2>1, <2>2, <2>3, <2>4 DEF Apart
<1>. HIDE DEF q
<1>21. Becomes(mem, r, T, t, s, q)
  BY <1>13, <1>15, <1>20 DEF Becomes, Held
<1>. QED
  BY <1>14, <1>21 DEF q, g

-----------------------------------------------------------------------------
(* A rehash.                                                               *)

\* All the buckets of bks are empty ones.
AllEmpty(T, bks) == bks \in Arrays(T) /\ \A b \in DOMAIN bks : bks[b] = NoBucket

LEMMA AllocBucketsIs ==
    ASSUME NEW T, NEW n \in Nat
    PROVE  AllEmpty(T, alloc_buckets(n)) /\ Cardinality(DOMAIN alloc_buckets(n)) >= n
<1>. DEFINE size == next2power(n)
            x == IF size > min_bucket_size_ THEN size ELSE min_bucket_size_
<1>1. size \in Nat /\ n <= size
  BY NextPowerIs
<1>2. min_bucket_size_ \in Nat \ {0}
  BY TableAssumption
<1>3. alloc_buckets(n) = [b \in 0 .. x - 1 |-> NoBucket]
  BY DEF alloc_buckets
<1>. HIDE DEF size
<1>4. x \in Nat \ {0} /\ n <= x
  BY <1>1, <1>2
<1>5. NoBucket \in BucketRecords(T)
  BY DEF NoBucket, BucketRecords
<1>. HIDE DEF x
<1>6. alloc_buckets(n) \in [0 .. x - 1 -> BucketRecords(T)] /\ \A b \in 0 .. x - 1 : alloc_buckets(n)[b] = NoBucket
  BY <1>3, <1>5
<1>7. Cardinality(0 .. x - 1) = x
  <2>1. 0 \in Int /\ x - 1 \in Int
    BY <1>4
  <2>2. Cardinality(0 .. x - 1) = IF 0 > x - 1 THEN 0 ELSE x - 1 - 0 + 1
    BY <2>1, FS_Interval
  <2>. QED
    BY <1>4, <2>2
<1>8. AllEmpty(T, alloc_buckets(n))
  BY <1>4, <1>6 DEF AllEmpty, Arrays
<1>9. DOMAIN alloc_buckets(n) = 0 .. x - 1
  BY <1>6
<1>. QED
  BY <1>4, <1>7, <1>8, <1>9

LEMMA EmptyHeld ==
    ASSUME NEW T, NEW r, NEW t, r.size[t] = 0, r.next[t] = Null, AllEmpty(T, r.buckets[t])
    PROVE  Held(r, t, <<>>, FALSE)
<1>1. Len(<<>>) = 0 /\ 1 .. 0 = {} /\ 0 .. 0 = {0} /\ <<>> \in Seq(DOMAIN r.key)
  OBVIOUS
<1>2. ChainIs(r, t, <<>>)
  BY <1>1 DEF ChainIs, Distinct, Place, Behind
<1>3. BucketsRight(r, t, <<>>, FALSE)
  <2>1. \A b \in DOMAIN r.buckets[t] : Vacant(r, t, <<>>, b)
    BY <1>1 DEF Vacant
  <2>. QED
    BY <2>1 DEF BucketsRight, BucketRight, AllEmpty
<1>4. Together(r, <<>>)
  BY <1>1 DEF Together
<1>. QED
  BY <1>1, <1>2, <1>3, <1>4 DEF Held, Filed

\* Table t has got the buckets bks and no nodes.
Emptied(mem, t, bks) == [mem EXCEPT !.buckets[t] = bks, !.next[t] = Null, !.size[t] = 0]

EmptiedIs(mem, r, T, t) ==
    /\ r.key = mem.key /\ \A x \in DOMAIN mem.next : x # t => r.next[x] = mem.next[x]
    /\ \A o \in T \ {t} : r.size[o] = mem.size[o] /\ r.buckets[o] = mem.buckets[o]

LEMMA EmptiedTable ==
    ASSUME NEW T, Heads(T), NEW mem \in Memories(T), NEW t \in T, NEW bks, AllEmpty(T, bks)
    PROVE  /\ Emptied(mem, t, bks) \in Memories(T) /\ EmptiedIs(mem, Emptied(mem, t, bks), T, t)
           /\ Held(Emptied(mem, t, bks), t, <<>>, FALSE) /\ Emptied(mem, t, bks).buckets[t] = bks
<1>. DEFINE r == Emptied(mem, t, bks)
            next == [mem.next EXCEPT ![t] = Null]
            size == [mem.size EXCEPT ![t] = 0]
            buckets == [mem.buckets EXCEPT ![t] = bks]
<1>1. mem = [next |-> mem.next, key |-> mem.key, size |-> mem.size, buckets |-> mem.buckets]
  BY FieldsOf
<1>2. /\ DOMAIN mem.key \subseteq Nodes /\ mem.key \in [DOMAIN mem.key -> Keys]
      /\ mem.next \in [T \cup DOMAIN mem.key -> Nodes \cup {Null}]
      /\ mem.size \in [T -> Nat] /\ mem.buckets \in [T -> Arrays(T)]
  BY MemoryHas
<1>3. r \in [next : {next}, key : {mem.key}, size : {size}, buckets : {buckets}]
  BY <1>1 DEF Emptied
<1>. HIDE DEF r
<1>4. r = [next |-> next, key |-> mem.key, size |-> size, buckets |-> buckets]
  <2>. HIDE DEF next, size, buckets
  <2>. QED
    BY <1>3
<1>5. r.next = next /\ r.key = mem.key /\ r.size = size /\ r.buckets = buckets
  BY <1>4
<1>6. r = [next |-> r.next, key |-> r.key, size |-> r.size, buckets |-> r.buckets]
  BY <1>4, <1>5
<1>7. r \in Memories(T)
  <2>1. r.size \in [T -> Nat] /\ r.buckets \in [T -> Arrays(T)]
    BY <1>2, <1>5 DEF AllEmpty
  <2>2. r.next \in [T \cup DOMAIN mem.key -> Nodes \cup {Null}]
    BY <1>2, <1>5
  <2>. QED
    BY <1>2, <1>5, <1>6, <2>1, <2>2, MemoryIs
<1>8. r.size[t] = 0 /\ r.next[t] = Null /\ r.buckets[t] = bks
  BY <1>2, <1>5
<1>9. Held(r, t, <<>>, FALSE)
  BY <1>8, EmptyHeld
<1>10. EmptiedIs(mem, r, T, t)
  BY <1>2, <1>5 DEF EmptiedIs
<1>. QED
  BY <1>7, <1>8, <1>9, <1>10 DEF r

\* The first e nodes of s are table t again, as the chain q; the others are as they were.
MovedTo(mem, acc, T, t, s, e, q) ==
    /\ acc \in Memories(T) /\ acc.key = mem.key
    /\ \A o \in T \ {t} : acc.size[o] = mem.size[o] /\ acc.buckets[o] = mem.buckets[o] /\ acc.next[o] = mem.next[o]
    /\ \A x \in DOMAIN mem.key : (\A j \in 1 .. e : x # s[j]) => acc.next[x] = mem.next[x]
    /\ Held(acc, t, q, FALSE) /\ Len(q) = e /\ ToSet(q) = {s[j] : j \in 1 .. e}

\* The first e nodes of s are whole groups, and so are the first i but for the end of the
\* last of them.
GroupsEnd(mem, s, i, e) ==
    /\ e \in i .. Len(s)
    /\ e > 0 /\ e < Len(s) => mem.key[s[e]] # mem.key[s[e + 1]]
    /\ \A j \in i + 1 .. e : j > 1 /\ mem.key[s[j - 1]] = mem.key[s[j]]

\* The groups that begin among the first i nodes of s are in table t again.
Rehashing(mem, acc, T, t, s, i) ==
    \E e \in i .. Len(s) : \E q : MovedTo(mem, acc, T, t, s, e, q) /\ GroupsEnd(mem, s, i, e)

\* One turn of do_rehash that moves a group.
GroupMoved(mem, acc, t, s, i) ==
    LET group == Run(mem, SubSeq(s, i, Len(s)))
        b == bucket(acc, t, mem.key[s[i]])
        first == acc.buckets[t][b].before
    IN  insert_nodes(acc, t, b, IF first = Null THEN t ELSE first, group)

LEMMA GroupMovedIs ==
    ASSUME NEW T, Heads(T), NEW mem \in Memories(T), NEW t \in T, NEW s, Held(mem, t, s, FALSE),
           NEW e \in 0 .. Len(s), e < Len(s), GroupsEnd(mem, s, e, e),
           NEW acc, NEW q, MovedTo(mem, acc, T, t, s, e, q)
    PROVE  Rehashing(mem, GroupMoved(mem, acc, t, s, e + 1), T, t, s, e + 1)
<1>. DEFINE n == Len(s)
            D == DOMAIN mem.key
            k == mem.key[s[e + 1]]
            b == bucket(acc, t, k)
            r == GroupMoved(mem, acc, t, s, e + 1)
<1>1. ChainIs(mem, t, s) /\ Together(mem, s) /\ Distinct(s) /\ s \in Seq(D)
  BY DEF Held, Filed, ChainIs
<1>2. n \in Nat /\ e \in Nat /\ e < n /\ e + 1 \in 1 .. n /\ s \in [1 .. n -> D]
  BY <1>1
<1>3. acc \in Memories(T) /\ acc.key = mem.key /\ Held(acc, t, q, FALSE) /\ Len(q) = e /\ ToSet(q) = {s[j] : j \in 1 .. e}
  BY DEF MovedTo
<1>4. Filed(acc, t, q, FALSE) /\ Together(acc, q) /\ ChainIs(acc, t, q) /\ q \in Seq(D)
  BY <1>3 DEF Held, Filed, ChainIs
<1>5. mem.key \in [D -> Keys] /\ D \subseteq Nodes
  BY MemoryHas
<1>6. s[e + 1] \in D /\ k \in Keys
  BY <1>2, <1>5
<1>7. PICK j \in e + 1 .. n :
         /\ Run(mem, SubSeq(s, e + 1, n)) = SubSeq(s, e + 1, j)
         /\ \A h \in 1 .. n : mem.key[s[h]] = mem.key[s[e + 1]] <=> e < h /\ h <= j
  <2>1. e > 0 => mem.key[s[e]] # mem.key[s[e + 1]]
    BY DEF GroupsEnd
  <2>2. PICK j \in e + 1 .. n : RunUpTo(mem, s, e, j)
    BY <1>1, <2>1, RunOf
  <2>. QED
    BY <2>2 DEF RunUpTo
<1>. DEFINE g == SubSeq(s, e + 1, j)
<1>8. j \in Nat /\ j \in e .. n /\ j <= n /\ e < j /\ j - e \in Nat /\ j - e > 0 /\ j \in 1 .. n
  BY <1>2
<1>9. g \in Seq(D) /\ Len(g) = j - e /\ \A i \in 1 .. j - e : g[i] = s[e + i] /\ e + i \in 1 .. n
  BY <1>1, <1>8, PieceIs
<1>10. \A i \in 1 .. j - e : e + i \in e + 1 .. j /\ mem.key[g[i]] = k
  <2>. HIDE DEF g
  <2>1. \A i \in 1 .. j - e : e < e + i /\ e + i <= j /\ e + i \in e + 1 .. j
    BY <1>2, <1>8
  <2>. HIDE DEF n
  <2>2. \A i \in 1 .. j - e : mem.key[s[e + i]] = k
    BY <1>7, <1>9, <2>1 DEF n
  <2>. QED
    BY <1>9, <2>1, <2>2
<1>11. \A i \in 1 .. e : i \in 1 .. n /\ ~(e < i)
  BY <1>2
<1>. HIDE DEF n, g
<1>12. \A i \in 1 .. e : \E h \in 1 .. e : q[i] = s[h]
  <2>1. \A i \in 1 .. Len(q) : q[i] \in ToSet(q)
    BY <1>4, ElementsOf
  <2>. QED
    BY <1>3, <2>1
<1>13. Group(acc, t, q, b, g)
  <2>1. \A i \in 1 .. Len(g), h \in 1 .. Len(q) : g[i] # q[h]
    <3>. SUFFICES ASSUME NEW i \in 1 .. j - e, NEW h \in 1 .. e, g[i] = q[h] PROVE FALSE
      BY <1>3, <1>9
    <3>1. PICK x \in 1 .. e : q[h] = s[x]
      BY <1>12
    <3>2. e + i = x
      BY <1>1, <1>9, <1>11, <3>1 DEF Distinct, n
    <3>. QED
      BY <1>2, <3>2
  <2>2. Distinct(g)
    <3>. SUFFICES ASSUME NEW i \in 1 .. j - e, NEW h \in 1 .. j - e, g[i] = g[h] PROVE i = h
      BY <1>9 DEF Distinct
    <3>1. e + i = e + h
      BY <1>1, <1>9 DEF Distinct, n
    <3>. QED
      BY <1>2, <3>1
  <2>3. ASSUME NEW i \in 1 .. Len(g), i < Len(g) PROVE acc.next[g[i]] = g[i + 1]
    <3>1. i \in 1 .. j - e /\ i + 1 \in 1 .. j - e /\ e + i \in 0 .. n /\ e + i < n /\ e + i # 0 /\ e + i \in D \cup Int
      BY <1>2, <1>8, <1>9, <2>3
    <3>2. g[i] = s[e + i] /\ g[i + 1] = s[e + (i + 1)] /\ e + (i + 1) = (e + i) + 1
      BY <1>2, <1>9, <3>1
    <3>3. mem.next[Place(t, s, e + i)] = Behind(s, e + i)
      BY <1>1, <3>1 DEF ChainIs, n
    <3>4. mem.next[s[e + i]] = s[(e + i) + 1]
      BY <3>1, <3>3 DEF Place, Behind, n
    <3>5. \A h \in 1 .. e : s[e + i] # s[h]
      <4>. SUFFICES ASSUME NEW h \in 1 .. e, s[e + i] = s[h] PROVE FALSE
        OBVIOUS
      <4>1. e + i = h
        BY <1>1, <1>9, <1>11, <3>1 DEF Distinct, n
      <4>. QED
        BY <1>2, <4>1
    <3>6. s[e + i] \in D
      BY <1>2, <1>9, <3>1
    <3>7. acc.next[s[e + i]] = mem.next[s[e + i]]
      BY <3>5, <3>6 DEF MovedTo
    <3>. QED
      BY <3>2, <3>4, <3>7
  <2>4. \A i \in 1 .. Len(g) : In(acc, t, g, b, i)
    BY <1>3, <1>9, <1>10 DEF In
  <2>. QED
    BY <1>3, <1>8, <1>9, <2>1, <2>2, <2>3, <2>4 DEF Group
<1>14. b \in DOMAIN acc.buckets[t]
  BY <1>3, <1>6, BucketIn
<1>15. PICK p \in 0 .. Len(q) : FrontNamed(acc, t, q, b, p)
  BY <1>3, <1>4, <1>14, FrontOf
<1>16. /\ BucketFront(acc, t, q, b, p) /\ Mayput(acc, t, q, b, p)
       /\ Place(t, q, p) = IF acc.buckets[t][b].before = Null THEN t ELSE acc.buckets[t][b].before
  BY <1>15 DEF FrontNamed
<1>. DEFINE w == Spliced(q, p, g)
<1>17. r = insert_nodes(acc, t, b, Place(t, q, p), g)
  BY <1>7, <1>16 DEF GroupMoved, g, n
<1>. HIDE DEF r
<1>18. /\ r \in Memories(T) /\ Filed(r, t, w, FALSE) /\ r.key = acc.key
       /\ Elsewhere(acc, r, T, t)
       /\ LinksButTwo(acc, r, Place(t, q, p), g[Len(g)])
  <2>1. acc \in Memories(T) /\ Filed(acc, t, q, FALSE) /\ Mayput(acc, t, q, b, p) /\ p \in 0 .. Len(q)
    BY <1>3, <1>4, <1>15, <1>16
  <2>. HIDE DEF b
  <2>2. Inserted(acc, r, T, t, q, p, g)
    BY <1>13, <1>14, <1>17, <2>1, InsertNodesIs
  <2>. QED
    BY <2>2 DEF Inserted
<1>19. Together(r, w)
  <2>1. Missing(acc, q, k)
    <3>1. ASSUME NEW i \in 1 .. e PROVE acc.key[q[i]] # k
      <4>1. PICK h \in 1 .. e : q[i] = s[h]
        BY <1>12
      <4>2. h \in 1 .. n /\ ~(e < h)
        BY <1>11
      <4>3. mem.key[s[h]] # mem.key[s[e + 1]]
        BY <1>7, <4>2 DEF n
      <4>. QED
        BY <1>3, <4>1, <4>3
    <3>. QED
      BY <1>3, <3>1 DEF Missing
  <2>2. Beside(acc, q, k, p)
    BY <1>2, <1>3, <1>16, <2>1, FrontBeside
  <2>3. \A i \in 1 .. Len(q) : r.key[q[i]] = acc.key[q[i]]
    BY <1>18
  <2>4. \A i \in 1 .. Len(g) : r.key[g[i]] = k
    BY <1>3, <1>9, <1>10, <1>18
  <2>. QED
    BY <1>4, <1>9, <2>2, <2>3, <2>4, TogetherSpliced
<1>20. Len(w) = j /\ ToSet(w) = {s[i] : i \in 1 .. j}
  <2>1. Len(w) = Len(q) + Len(g)
    BY <1>4, <1>9, SplicedIs
  <2>2. ToSet(w) = ToSet(q) \cup ToSet(g)
    BY <1>4, <1>9, SplicedElements
  <2>3. ToSet(g) = {g[i] : i \in 1 .. j - e}
    BY <1>9, ElementsOf
  <2>4. \A i \in 1 .. j - e : g[i] \in {s[h] : h \in 1 .. j}
    <3>1. \A i \in 1 .. j - e : e + i \in 1 .. j
      BY <1>2, <1>8
    <3>. QED
      BY <1>9, <3>1
  <2>5. ASSUME NEW h \in 1 .. j PROVE s[h] \in ToSet(q) \cup ToSet(g)
    <3>1. CASE h <= e
      <4>1. h \in 1 .. e
        BY <1>2, <3>1
      <4>. QED
        BY <1>3, <4>1
    <3>2. CASE e < h
      <4>1. h - e \in 1 .. j - e /\ e + (h - e) = h
        BY <1>2, <1>8, <3>2
      <4>2. g[h - e] = s[h]
        BY <1>9, <4>1
      <4>. QED
        BY <2>3, <4>1, <4>2
    <3>. QED
      BY <1>2, <3>1, <3>2
  <2>6. \A i \in 1 .. e : i \in 1 .. j
    BY <1>2, <1>8
  <2>7. ToSet(w) = {s[i] : i \in 1 .. j}
    <3>1. ToSet(q) \subseteq {s[i] : i \in 1 .. j}
      BY <1>3, <2>6
    <3>2. ToSet(g) \subseteq {s[i] : i \in 1 .. j}
      BY <2>3, <2>4
    <3>. QED
      BY <2>2, <2>5, <3>1, <3>2
  <2>8. Len(w) = j
    BY <1>2, <1>3, <1>8, <1>9, <2>1
  <2>. QED
    BY <2>7, <2>8
<1>. HIDE DEF w
<1>21. g[Len(g)] = s[j] /\ g[Len(g)] \in D
  <2>1. j - e \in 1 .. j - e /\ e + (j - e) = j
    BY <1>2, <1>8
  <2>2. s[j] \in D
    BY <1>2, <1>8
  <2>. QED
    BY <1>9, <2>1, <2>2
<1>22. Place(t, q, p) = t \/ Place(t, q, p) \in {s[i] : i \in 1 .. e}
  <2>1. CASE p = 0
    BY <2>1 DEF Place
  <2>2. CASE p # 0
    <3>1. p \in 1 .. e
      BY <1>2, <1>3, <2>2
    <3>. QED
      BY <1>12, <2>2, <3>1 DEF Place
  <2>. QED
    BY <2>1, <2>2
<1>23. T \cap Nodes = {} /\ DOMAIN acc.next = T \cup D
  <2>1. acc.next \in [T \cup D -> Nodes \cup {Null}]
    <3>1. acc.next \in [T \cup DOMAIN acc.key -> Nodes \cup {Null}]
      BY <1>3, MemoryHas
    <3>. QED
      BY <1>3, <3>1
  <2>. QED
    BY <2>1 DEF Heads
<1>24. ASSUME NEW o \in T \ {t}
       PROVE  r.size[o] = mem.size[o] /\ r.buckets[o] = mem.buckets[o] /\ r.next[o] = mem.next[o]
  <2>1. acc.size[o] = mem.size[o] /\ acc.buckets[o] = mem.buckets[o] /\ acc.next[o] = mem.next[o]
    BY DEF MovedTo
  <2>2. o # Place(t, q, p) /\ o # g[Len(g)] /\ o \in DOMAIN acc.next
    <3>1. \A i \in 1 .. e : s[i] \in Nodes
      BY <1>2, <1>5, <1>11
    <3>. QED
      BY <1>5, <1>21, <1>22, <1>23, <3>1
  <2>3. r.next[o] = acc.next[o]
    BY <1>18, <2>2 DEF LinksButTwo
  <2>. QED
    BY <1>18, <2>1, <2>3 DEF Elsewhere
<1>25. ASSUME NEW x \in D, \A i \in 1 .. j : x # s[i] PROVE r.next[x] = mem.next[x]
  <2>1. \A i \in 1 .. e : i \in 1 .. j
    BY <1>2, <1>8
  <2>2. \A i \in 1 .. e : x # s[i]
    BY <1>25, <2>1
  <2>3. acc.next[x] = mem.next[x]
    BY <2>2 DEF MovedTo
  <2>4. j \in 1 .. j
    BY <1>8
  <2>5. x # Place(t, q, p) /\ x # g[Len(g)] /\ x \in DOMAIN acc.next
    BY <1>5, <1>21, <1>22, <1>23, <1>25, <2>2, <2>4
  <2>6. r.next[x] = acc.next[x]
    BY <1>18, <2>5 DEF LinksButTwo
  <2>. QED
    BY <2>3, <2>6
<1>26. MovedTo(mem, r, T, t, s, j, w)
  BY <1>3, <1>18, <1>19, <1>20, <1>24, <1>25 DEF MovedTo, Held
<1>27. GroupsEnd(mem, s, e + 1, j)
  <2>1. j > 0 /\ j < n => mem.key[s[j]] # mem.key[s[j + 1]]
    <3>. SUFFICES ASSUME j < n PROVE mem.key[s[j]] # mem.key[s[j + 1]]
      OBVIOUS
    <3>1. j + 1 \in 1 .. n /\ ~(j + 1 <= j) /\ e < j /\ j <= j
      BY <1>2, <1>8
    <3>. QED
      BY <1>7, <1>8, <3>1 DEF n
  <2>2. ASSUME NEW h \in (e + 1) + 1 .. j PROVE h > 1 /\ mem.key[s[h - 1]] = mem.key[s[h]]
    <3>1. h > 1 /\ h \in 1 .. n /\ h - 1 \in 1 .. n /\ e < h /\ h <= j /\ e < h - 1 /\ h - 1 <= j
      BY <1>2, <1>8
    <3>. QED
      BY <1>7, <3>1 DEF n
  <2>. QED
    BY <2>1, <2>2 DEF GroupsEnd, n
<1>. QED
  BY <1>26, <1>27 DEF r, n, Rehashing

LEMMA RehashTurn ==
    ASSUME NEW T, Heads(T), NEW mem \in Memories(T), NEW t \in T, NEW s, Held(mem, t, s, FALSE),
           NEW i \in 1 .. Len(s), NEW acc, Rehashing(mem, acc, T, t, s, i - 1),
           NEW r, r = IF i > 1 /\ mem.key[s[i - 1]] = mem.key[s[i]] THEN acc ELSE GroupMoved(mem, acc, t, s, i)
    PROVE  Rehashing(mem, r, T, t, s, i)
<1>. DEFINE n == Len(s)
<1>1. n \in Nat /\ i \in Nat /\ i <= n /\ i > 0
  BY DEF Held, Filed, ChainIs
<1>e. PICK e \in i - 1 .. n : \E q : MovedTo(mem, acc, T, t, s, e, q) /\ GroupsEnd(mem, s, i - 1, e)
  BY DEF Rehashing
<1>2. PICK q : e \in i - 1 .. n /\ MovedTo(mem, acc, T, t, s, e, q) /\ GroupsEnd(mem, s, i - 1, e)
  BY <1>e
<1>. HIDE DEF n
<1>3. CASE e >= i
  <2>1. i \in (i - 1) + 1 .. e /\ e \in i .. n
    BY <1>1, <1>3
  <2>2. i > 1 /\ mem.key[s[i - 1]] = mem.key[s[i]]
    BY <1>2, <2>1 DEF GroupsEnd
  <2>3. \A j \in i + 1 .. e : j \in (i - 1) + 1 .. e
    BY <1>1
  <2>4. GroupsEnd(mem, s, i, e)
    BY <1>2, <2>1, <2>3 DEF GroupsEnd, n
  <2>5. r = acc
    BY <2>2
  <2>. QED
    BY <1>2, <2>1, <2>4, <2>5 DEF Rehashing, n
<1>4. CASE e < i
  <2>1. e = i - 1 /\ e \in 0 .. n /\ e < n /\ i = e + 1
    BY <1>1, <1>4
  <2>2. ~(i > 1 /\ mem.key[s[i - 1]] = mem.key[s[i]])
    <3>. SUFFICES ASSUME i > 1 PROVE mem.key[s[i - 1]] # mem.key[s[i]]
      OBVIOUS
    <3>. QED
      BY <1>1, <1>2, <2>1 DEF GroupsEnd, n
  <2>3. r = GroupMoved(mem, acc, t, s, e + 1)
    BY <2>1, <2>2
  <2>4. GroupsEnd(mem, s, e, e)
    <3>1. \A j \in e + 1 .. e : FALSE
      BY <1>1, <2>1
    <3>2. e \in e .. Len(s)
      BY <1>1, <2>1 DEF n
    <3>. QED
      BY <1>2, <3>1, <3>2 DEF GroupsEnd
  <2>5. e \in 0 .. Len(s) /\ e < Len(s)
    BY <2>1 DEF n
  <2>6. Rehashing(mem, GroupMoved(mem, acc, t, s, e + 1), T, t, s, e + 1)
    BY <1>2, <2>4, <2>5, GroupMovedIs
  <2>. QED
    BY <2>1, <2>3, <2>6
<1>. QED
  BY <1>1, <1>3, <1>4

\* Buckets enough for count elements, and no fewer than before.
Widened(mem, r, t, count) ==
    4 * count <= 3 * bucket_count(r, t) /\ bucket_count(r, t) >= bucket_count(mem, t)

\* A permutation of the nodes of s, in new buckets.
Rehashed(mem, r, T, t, s, q) ==
    Becomes(mem, r, T, t, s, q) /\ r.key = mem.key /\ ToSet(q) = ToSet(s) /\ Len(q) = Len(s)

LEMMA DoRehashIs ==
    ASSUME NEW T, Heads(T), NEW mem \in Memories(T), NEW t \in T, NEW s, Held(mem, t, s, FALSE), NEW count \in Nat
    PROVE  /\ \E q : Rehashed(mem, do_rehash(mem, t, count), T, t, s, q)
           /\ bucket_count(do_rehash(mem, t, count), t) >= count
<1>. DEFINE n == Len(s)
            x0 == Emptied(mem, t, alloc_buckets(count))
            Enter(acc, i) == IF i > 1 /\ mem.key[s[i - 1]] = mem.key[s[i]] THEN acc ELSE GroupMoved(mem, acc, t, s, i)
            X == [i \in 0 .. n |-> {acc \in Memories(T) : Rehashing(mem, acc, T, t, s, i) /\ bucket_count(acc, t) >= count}]
            G == [i \in 1 .. n |-> [acc \in X[i - 1] |-> Enter(acc, i)]]
            after == CHOOSE f : f = [i \in 0 .. n |-> IF i = 0 THEN x0 ELSE Enter(f[i - 1], i)]
<1>1. ChainIs(mem, t, s) /\ s \in Seq(DOMAIN mem.key) /\ n \in Nat
  BY DEF Held, Filed, ChainIs
<1>2. NodesOf(mem, t) = s
  BY <1>1, NodesOfIs
<1>3. do_rehash(mem, t, count) = after[n]
  BY <1>2 DEF do_rehash, Loop, Emptied, GroupMoved
<1>4. /\ x0 \in Memories(T) /\ EmptiedIs(mem, x0, T, t) /\ Held(x0, t, <<>>, FALSE)
      /\ bucket_count(x0, t) >= count
  <2>1. AllEmpty(T, alloc_buckets(count)) /\ Cardinality(DOMAIN alloc_buckets(count)) >= count
    BY AllocBucketsIs
  <2>2. x0.buckets[t] = alloc_buckets(count)
    <3>1. mem.buckets \in [T -> Arrays(T)]
      BY MemoryHas
    <3>2. mem = [next |-> mem.next, key |-> mem.key, size |-> mem.size, buckets |-> mem.buckets]
      BY FieldsOf
    <3>. QED
      BY <3>1, <3>2 DEF Emptied
  <2>3. bucket_count(x0, t) >= count
    BY <2>1, <2>2 DEF bucket_count
  <2>. QED
    BY <2>1, <2>3, EmptiedTable
<1>5. /\ DOMAIN mem.next = T \cup DOMAIN mem.key /\ DOMAIN mem.key \subseteq Nodes /\ T \cap Nodes = {}
  <2>1. mem.next \in [T \cup DOMAIN mem.key -> Nodes \cup {Null}] /\ DOMAIN mem.key \subseteq Nodes
    BY MemoryHas
  <2>. QED
    BY <2>1 DEF Heads
<1>. HIDE DEF x0
<1>6. Rehashing(mem, x0, T, t, s, 0)
  <2>1. MovedTo(mem, x0, T, t, s, 0, <<>>)
    <3>1. Len(<<>>) = 0 /\ 1 .. 0 = {} /\ ToSet(<<>>) = {}
      BY DEF ToSet
    <3>2. ToSet(<<>>) = {s[j] : j \in 1 .. 0}
      BY <3>1
    <3>3. \A x \in DOMAIN mem.key : x0.next[x] = mem.next[x]
      BY <1>4, <1>5 DEF EmptiedIs
    <3>4. \A o \in T \ {t} : x0.size[o] = mem.size[o] /\ x0.buckets[o] = mem.buckets[o] /\ x0.next[o] = mem.next[o]
      BY <1>4, <1>5 DEF EmptiedIs
    <3>5. x0.key = mem.key
      BY <1>4 DEF EmptiedIs
    <3>. QED
      BY <1>4, <3>1, <3>2, <3>3, <3>4, <3>5 DEF MovedTo
  <2>2. GroupsEnd(mem, s, 0, 0)
    <3>1. 0 \in 0 .. n /\ (0 + 1) .. 0 = {}
      BY <1>1
    <3>. QED
      BY <3>1 DEF GroupsEnd
  <2>3. 0 \in 0 .. Len(s)
    BY <1>1
  <2>. QED
    BY <2>1, <2>2, <2>3 DEF Rehashing
<1>7. ASSUME NEW i \in 1 .. n, NEW acc \in X[i - 1] PROVE Enter(acc, i) \in X[i]
  <2>1. i \in 0 .. n /\ i - 1 \in 0 .. n
    BY <1>1
  <2>2. acc \in Memories(T) /\ Rehashing(mem, acc, T, t, s, i - 1) /\ bucket_count(acc, t) >= count
    BY <1>7, <2>1
  <2>. DEFINE r == Enter(acc, i)
  <2>3. Rehashing(mem, r, T, t, s, i)
    BY <2>2, RehashTurn
  <2>4. bucket_count(r, t) = bucket_count(acc, t)
    <3>1. ASSUME NEW b, NEW before, NEW g PROVE bucket_count(insert_nodes(acc, t, b, before, g), t) = bucket_count(acc, t)
      BY <2>2, InsertNodesCount
    <3>2. bucket_count(GroupMoved(mem, acc, t, s, i), t) = bucket_count(acc, t)
      BY Zenon, <3>1 DEF GroupMoved
    <3>3. r = acc \/ r = GroupMoved(mem, acc, t, s, i)
      OBVIOUS
    <3>. HIDE DEF r
    <3>. QED
      BY <3>2, <3>3
  <2>5. r \in Memories(T)
    BY <2>3 DEF Rehashing, MovedTo
  <2>6. r \in X[i]
    BY <2>1, <2>2, <2>3, <2>4, <2>5
  <2>. QED
    BY <2>6 DEF r
<1>8. x0 \in X[0]
  BY <1>1, <1>4, <1>6
<1>9. \A i \in 1 .. n : \A acc \in X[i - 1] : G[i][acc] = Enter(acc, i)
  OBVIOUS
<1>. HIDE DEF X, G, Enter
<1>10. PICK f : /\ f = [i \in 0 .. n |-> IF i = 0 THEN x0 ELSE G[i][f[i - 1]]]
                /\ \A i \in 0 .. n : f[i] \in X[i]
  <2>1. \A i \in 1 .. n : \A acc \in X[i - 1] : G[i][acc] \in X[i]
    BY <1>7, <1>9
  <2>. HIDE DEF n
  <2>2. PICK f : RunsInside(f, n, X, G, x0)
    BY <1>1, <1>8, <2>1, LoopInside
  <2>. QED
    BY <2>2 DEF RunsInside
<1>11. f = [i \in 0 .. n |-> IF i = 0 THEN x0 ELSE Enter(f[i - 1], i)]
  <2>1. ASSUME NEW i \in 0 .. n, i # 0 PROVE f[i] = Enter(f[i - 1], i)
    <3>1. i \in 1 .. n /\ i - 1 \in 0 .. n
      BY <1>1, <2>1
    <3>2. f[i] = G[i][f[i - 1]] /\ f[i - 1] \in X[i - 1]
      BY <1>10, <2>1, <3>1
    <3>. QED
      BY <1>9, <3>1, <3>2
  <2>2. \A i \in 0 .. n : f[i] = IF i = 0 THEN x0 ELSE Enter(f[i - 1], i)
    BY <1>10, <2>1
  <2>3. f = [i \in 0 .. n |-> f[i]]
    BY <1>10
  <2>. QED
    BY <2>2, <2>3
<1>12. after = [i \in 0 .. n |-> IF i = 0 THEN x0 ELSE Enter(after[i - 1], i)]
  BY <1>11
<1>. HIDE DEF after
<1>13. \A i \in 0 .. n : after[i] \in X[i]
  <2>1. after[0] = x0
    BY <1>1, <1>12
  <2>2. ASSUME NEW i \in 1 .. n, after[i - 1] \in X[i - 1] PROVE after[i] \in X[i]
    <3>1. i \in 0 .. n /\ i # 0
      BY <1>1
    <3>2. after[i] = Enter(after[i - 1], i)
      BY <1>12, <3>1
    <3>. QED
      BY <1>7, <2>2, <3>2
  <2>. QED
    BY <1>1, <1>8, <2>1, <2>2, LoopStays
<1>. DEFINE r == after[n]
<1>14. Rehashing(mem, r, T, t, s, n) /\ bucket_count(r, t) >= count
  <2>1. n \in 0 .. n
    BY <1>1
  <2>. QED
    BY <1>13, <2>1 DEF X
<1>15. PICK q : MovedTo(mem, r, T, t, s, n, q)
  <2>1. PICK e \in n .. Len(s) : \E q : MovedTo(mem, r, T, t, s, e, q)
    BY <1>14 DEF Rehashing
  <2>2. e = n
    BY <1>1, <2>1
  <2>. QED
    BY <2>1, <2>2
<1>. HIDE DEF r
<1>16. ToSet(q) = ToSet(s) /\ ToSet(s) \subseteq DOMAIN mem.key
  <2>1. ToSet(s) = {s[j] : j \in 1 .. n} /\ ToSet(s) \subseteq DOMAIN mem.key
    BY <1>1, ElementsOf
  <2>. QED
    BY <1>15, <2>1 DEF MovedTo
<1>17. Apart(mem, r, T, t, ToSet(s), ToSet(q))
  <2>1. \A x \in DOMAIN mem.key \ ToSet(s) : r.next[x] = mem.next[x]
    <3>1. \A j \in 1 .. n : s[j] \in ToSet(s)
      BY <1>1, ElementsOf
    <3>. QED
      BY <1>15, <3>1 DEF MovedTo
  <2>2. r \in Memories(T) /\ r.key = mem.key
    BY <1>15 DEF MovedTo
  <2>3. \A o \in T \ {t} : r.size[o] = mem.size[o] /\ r.buckets[o] = mem.buckets[o] /\ r.next[o] = mem.next[o]
    BY <1>15 DEF MovedTo
  <2>. QED
    BY <1>16, <2>1, <2>2, <2>3 DEF Apart
<1>18. Rehashed(mem, r, T, t, s, q)
  BY <1>15, <1>16, <1>17 DEF Rehashed, Becomes, MovedTo
<1>. QED
  BY <1>3, <1>14, <1>18 DEF r

-----------------------------------------------------------------------------
(* The operations.                                                         *)

LEMMA BecomesSame ==
    ASSUME NEW T, NEW mem \in Memories(T), NEW t \in T, NEW s, Held(mem, t, s, FALSE)
    PROVE  Becomes(mem, mem, T, t, s, s)
<1>1. s \in Seq(DOMAIN mem.key)
  BY DEF Held, Filed, ChainIs
<1>2. ToSet(s) \subseteq DOMAIN mem.key
  BY <1>1, ElementsOf
<1>. QED
  BY <1>2 DEF Becomes, Apart

LEMMA RehashIs ==
    ASSUME NEW T, Heads(T), NEW mem \in Memories(T), NEW t \in T, NEW s, Held(mem, t, s, FALSE), NEW count \in Nat
    PROVE  /\ \E q : Rehashed(mem, rehash(mem, t, count), T, t, s, q)
           /\ Widened(mem, rehash(mem, t, count), t, count)
<1>. DEFINE c == BucketsFor(count)
<1>1. c \in Nat /\ \A n \in Nat : n >= c => 4 * count <= 3 * n
  <2>1. c = (4 * count + 2) \div 3
    BY DEF BucketsFor
  <2>. QED
    BY <2>1
<1>2. bucket_count(mem, t) \in Nat
  BY BucketIn
<1>. HIDE DEF c
<1>3. CASE bucket_count(mem, t) >= c
  <2>1. Rehashed(mem, mem, T, t, s, s)
    BY BecomesSame DEF Rehashed
  <2>2. rehash(mem, t, count) = mem
    BY <1>3 DEF rehash, c
  <2>3. Widened(mem, mem, t, count)
    BY <1>1, <1>2, <1>3 DEF Widened
  <2>. QED
    BY <2>1, <2>2, <2>3
<1>4. CASE ~(bucket_count(mem, t) >= c)
  <2>. DEFINE r == do_rehash(mem, t, c)
  <2>1. rehash(mem, t, count) = r
    BY <1>4 DEF rehash, c
  <2>2. (\E q : Rehashed(mem, r, T, t, s, q)) /\ bucket_count(r, t) >= c
    BY <1>1, DoRehashIs
  <2>. HIDE DEF r
  <2>3. r \in Memories(T)
    BY <2>2 DEF Rehashed, Becomes, Apart
  <2>4. bucket_count(r, t) \in Nat
    BY <2>3, BucketIn
  <2>5. Widened(mem, r, t, count)
    BY <1>1, <1>2, <1>4, <2>2, <2>4 DEF Widened
  <2>. QED
    BY <2>1, <2>2, <2>5
<1>. QED
  BY <1>3, <1>4

\* There is room for a node more.
Roomy(mem) == Cardinality(DOMAIN mem.key) < Cardinality(Nodes)

LEMMA FreshIs ==
    ASSUME NEW T, Heads(T), NEW mem \in Memories(T), Roomy(mem)
    PROVE  Fresh(mem, Nodes) \in Nodes \ DOMAIN mem.key
<1>. DEFINE S == Nodes \ DOMAIN mem.next
<1>1. DOMAIN mem.key \subseteq Nodes /\ DOMAIN mem.next = T \cup DOMAIN mem.key
  <2>1. mem.next \in [T \cup DOMAIN mem.key -> Nodes \cup {Null}] /\ DOMAIN mem.key \subseteq Nodes
    BY MemoryHas
  <2>. QED
    BY <2>1
<1>2. S = Nodes \ DOMAIN mem.key
  BY <1>1 DEF Heads
<1>3. S # {}
  <2>. SUFFICES ASSUME S = {} PROVE FALSE
    OBVIOUS
  <2>1. DOMAIN mem.key = Nodes
    BY <1>1, <1>2
  <2>2. Cardinality(Nodes) \in Nat
    BY TableAssumption, FS_CardinalityType
  <2>. QED
    BY <2>1, <2>2 DEF Roomy
<1>4. S \in SUBSET Nat
  BY TableAssumption
<1>5. \E x \in S : \A y \in S : x <= y
  BY <1>3, <1>4, LeastNat
<1>6. Fresh(mem, Nodes) \in S
  BY <1>5 DEF Fresh, Least
<1>. QED
  BY <1>2, <1>6

\* The load of a table is at most 3/4.
Light(mem, t) == 4 * mem.size[t] <= 3 * bucket_count(mem, t)

\* r has a node more, with key k.
AddsKey(mem, r, T, t, s, k) ==
    /\ Fresh(mem, Nodes) \in Nodes \ DOMAIN mem.key /\ KeysWith(mem, r, Fresh(mem, Nodes), k)
    /\ \E q : Becomes(mem, r, T, t, s, q)
    /\ Light(r, t)

\* A hint is a place where its key, or that of the node behind it, may be put.
LEMMA HintIs ==
    ASSUME NEW T, Heads(T), NEW mem \in Memories(T), NEW t \in T, NEW s, Held(mem, t, s, FALSE), NEW k \in Keys,
           NEW i \in 1 .. Len(s),
           mem.key[s[i]] = k \/ (mem.next[s[i]] # Null /\ mem.key[mem.next[s[i]]] = k)
    PROVE  Mayput(mem, t, s, bucket(mem, t, k), i) /\ Beside(mem, s, k, i)
<1>. DEFINE n == Len(s)
            b == bucket(mem, t, k)
<1>1. ChainIs(mem, t, s) /\ s \in Seq(DOMAIN mem.key) /\ n \in Nat /\ Filed(mem, t, s, FALSE)
  <2>1. Filed(mem, t, s, FALSE)
    BY DEF Held
  <2>2. ChainIs(mem, t, s)
    BY <2>1 DEF Filed
  <2>3. s \in Seq(DOMAIN mem.key)
    BY <2>2 DEF ChainIs
  <2>4. n \in Nat
    BY <2>3
  <2>. QED
    BY <2>1, <2>2, <2>3, <2>4
<1>2. i \in Nat /\ i > 0 /\ i <= n /\ i \in 0 .. n /\ i # 0
  BY <1>1
<1>3. mem.next[s[i]] = Behind(s, i)
  BY <1>1, <1>2 DEF ChainIs, Place
<1>4. PICK j \in 1 .. n : (j = i \/ j = i + 1) /\ mem.key[s[j]] = k
  <2>1. CASE mem.key[s[i]] = k
    BY <2>1
  <2>2. CASE mem.next[s[i]] # Null /\ mem.key[mem.next[s[i]]] = k
    <3>1. i < n /\ mem.next[s[i]] = s[i + 1]
      BY <1>3, <2>2 DEF Behind
    <3>2. i + 1 \in 1 .. n
      BY <1>1, <1>2, <3>1
    <3>. QED
      BY <2>2, <3>1, <3>2
  <2>. QED
    BY <2>1, <2>2
<1>5. In(mem, t, s, b, j)
  BY <1>4 DEF In
<1>6. b \in DOMAIN mem.buckets[t]
  BY BucketIn
<1>7. PICK lo, hi \in 1 .. n : Block(mem, t, s, b, lo, hi)
  <2>1. ~Vacant(mem, t, s, b)
    BY <1>4, <1>5 DEF Vacant
  <2>. QED
    BY <1>1, <1>6, <2>1, VacantOrBlock
<1>8. lo <= j /\ j <= hi
  BY <1>4, <1>5, <1>7 DEF Block
<1>. HIDE DEF b, n
<1>9. lo - 1 <= i /\ i <= hi
  BY <1>1, <1>2, <1>4, <1>7, <1>8
<1>10. Mayput(mem, t, s, b, i)
  BY <1>7, <1>9 DEF Mayput, n
<1>11. Beside(mem, s, k, i)
  <2>1. (i < n /\ j = i + 1) \/ j = i
    BY <1>1, <1>2, <1>4
  <2>. QED
    BY <1>2, <1>4, <2>1 DEF Beside, n
<1>. QED
  BY <1>10, <1>11 DEF b

LEMMA InsertIs ==
    ASSUME NEW T, Heads(T), NEW mem \in Memories(T), NEW t \in T, NEW s, Held(mem, t, s, FALSE), Roomy(mem),
           NEW k \in Keys, NEW unique \in BOOLEAN, NEW hint \in ToSet(s) \cup {Null}
    PROVE  \/ unique /\ ~Missing(mem, s, k) /\ insert(mem, t, unique, hint, k) = mem
           \/ (unique => Missing(mem, s, k)) /\ AddsKey(mem, insert(mem, t, unique, hint, k), T, t, s, k)
<1>. DEFINE found == find_node(mem, t, k)
            hinted == /\ hint # Null
                      /\ \/ mem.key[hint] = k
                         \/ mem.next[hint] # Null /\ mem.key[mem.next[hint]] = k
            n == Fresh(mem, Nodes)
            before == IF hinted THEN hint ELSE found.before
            inserted == insert_nodes(Allocated(mem, n, k), t, bucket(mem, t, k), before, <<n>>)
            u == insert(mem, t, unique, hint, k)
<1>1. s \in Seq(DOMAIN mem.key) /\ Len(s) \in Nat /\ Filed(mem, t, s, FALSE) /\ ToSet(s) = {s[i] : i \in 1 .. Len(s)}
  <2>1. s \in Seq(DOMAIN mem.key) /\ Filed(mem, t, s, FALSE)
    BY DEF Held, Filed, ChainIs
  <2>2. Len(s) \in Nat /\ DOMAIN s = 1 .. Len(s)
    BY <2>1
  <2>3. ToSet(s) = {s[i] : i \in 1 .. Len(s)}
    BY <2>2 DEF ToSet
  <2>. QED
    BY <2>1, <2>2, <2>3
<1>2. n \in Nodes \ DOMAIN mem.key
  BY FreshIs
<1>3. u = IF unique /\ (hinted \/ found.node # Null) THEN mem ELSE rehash(inserted, t, inserted.size[t])
  BY DEF insert, Allocated
<1>4. PICK p \in 0 .. Len(s) :
         before = Place(t, s, p) /\ Mayput(mem, t, s, bucket(mem, t, k), p) /\ Beside(mem, s, k, p)
  <2>1. CASE hinted
    <3>1. PICK i \in 1 .. Len(s) : hint = s[i]
      BY <1>1, <2>1
    <3>2. Mayput(mem, t, s, bucket(mem, t, k), i) /\ Beside(mem, s, k, i)
      BY <2>1, <3>1, HintIs
    <3>3. i \in 0 .. Len(s) /\ i # 0
      BY <1>1, <3>1
    <3>4. before = Place(t, s, i)
      BY <2>1, <3>1, <3>3 DEF Place
    <3>. QED
      BY <3>2, <3>3, <3>4
  <2>2. CASE ~hinted
    <3>1. PICK p \in 0 .. Len(s) : Found(mem, t, s, k, found, p)
      BY <1>1, FindNodeIs
    <3>2. before = found.before
      BY <2>2
    <3>. HIDE DEF found, before
    <3>. QED
      BY <3>1, <3>2 DEF Found
  <2>. QED
    BY <2>1, <2>2
<1>5. (hinted \/ found.node # Null) <=> ~Missing(mem, s, k)
  <2>1. ChainIs(mem, t, s) /\ Null \notin DOMAIN mem.key
    <3>1. DOMAIN mem.key \subseteq Nodes
      BY MemoryHas
    <3>. QED
      BY <3>1, TableAssumption DEF Held, Filed
  <2>2. hinted => ~Missing(mem, s, k)
    <3>. SUFFICES ASSUME hinted PROVE ~Missing(mem, s, k)
      OBVIOUS
    <3>1. PICK i \in 1 .. Len(s) : hint = s[i]
      BY <1>1
    <3>2. i \in 0 .. Len(s) /\ i # 0
      BY <1>1
    <3>3. mem.next[s[i]] = Behind(s, i)
      BY <2>1, <3>2 DEF ChainIs, Place
    <3>4. CASE mem.key[hint] = k
      BY <3>1, <3>4 DEF Missing
    <3>5. CASE mem.key[hint] # k
      <4>1. mem.next[s[i]] # Null /\ mem.key[mem.next[s[i]]] = k
        BY <3>1, <3>5
      <4>2. i + 1 \in 1 .. Len(s) /\ mem.next[s[i]] = s[i + 1]
        BY <1>1, <3>2, <3>3, <4>1 DEF Behind
      <4>. QED
        BY <4>1, <4>2 DEF Missing
    <3>. QED
      BY <3>4, <3>5
  <2>. HIDE DEF hinted, found
  <2>3. PICK x \in 0 .. Len(s) : Found(mem, t, s, k, found, x)
    BY <1>1, FindNodeIs DEF found
  <2>4. CASE Missing(mem, s, k)
    <3>1. found.node = Null
      BY <2>3, <2>4 DEF Found, FirstWith, Missing
    <3>. QED
      BY <2>2, <2>4, <3>1
  <2>5. CASE ~Missing(mem, s, k)
    <3>1. x + 1 \in 1 .. Len(s) /\ found.node = s[x + 1]
      BY <2>3, <2>5 DEF Found, FirstWith
    <3>2. found.node # Null
      BY <1>1, <2>1, <3>1, ElementOfSeq
    <3>. QED
      BY <2>5, <3>2
  <2>. QED
    BY <2>4, <2>5
<1>. HIDE DEF before, n, found, hinted, u
<1>6. CASE unique /\ (hinted \/ found.node # Null)
  BY <1>3, <1>5, <1>6 DEF u
<1>7. CASE ~(unique /\ (hinted \/ found.node # Null))
  <2>. DEFINE w == Spliced(s, p, <<n>>)
  <2>1. inserted = insert_nodes(Allocated(mem, n, k), t, bucket(mem, t, k), Place(t, s, p), <<n>>)
    BY <1>4
  <2>. HIDE DEF inserted
  <2>2. Becomes(mem, inserted, T, t, s, w) /\ KeysWith(mem, inserted, n, k)
    BY <1>2, <1>4, <2>1, InsertNodeIs
  <2>. HIDE DEF w
  <2>3. inserted \in Memories(T) /\ Held(inserted, t, w, FALSE)
    BY <2>2 DEF Becomes, Apart
  <2>4. inserted.size[t] \in Nat
    <3>1. inserted.size \in [T -> Nat]
      BY <2>3, MemoryHas
    <3>. QED
      BY <3>1
  <2>. DEFINE c == inserted.size[t]
              v == rehash(inserted, t, c)
  <2>5. (\E q : Rehashed(inserted, v, T, t, w, q)) /\ Widened(inserted, v, t, c)
    BY <2>3, <2>4, RehashIs
  <2>. HIDE DEF v
  <2>6. PICK q : Rehashed(inserted, v, T, t, w, q)
    BY <2>5
  <2>7. v.size[t] = c
    <3>1. Held(v, t, q, FALSE) /\ Len(q) = Len(w)
      BY <2>6 DEF Rehashed, Becomes
    <3>. QED
      BY <2>3, <3>1 DEF Held, Filed
  <2>8. Light(v, t)
    BY <2>5, <2>7 DEF Widened, Light
  <2>. HIDE DEF c
  <2>9. u = v
    BY <1>3, <1>7 DEF v, c
  <2>10. Becomes(inserted, u, T, t, w, q) /\ u.key = inserted.key
    BY <2>6, <2>9 DEF Rehashed
  <2>11. Becomes(mem, u, T, t, s, q)
    BY <2>2, <2>10, BecomesTwice
  <2>12. KeysWith(mem, u, n, k)
    BY <2>2, <2>10 DEF KeysWith
  <2>13. AddsKey(mem, u, T, t, s, k)
    BY <1>2, <2>9, <2>11, <2>12, <2>8 DEF AddsKey, n
  <2>. QED
    BY <1>5, <1>7, <2>13 DEF u
<1>. QED
  BY <1>6, <1>7

\* The nodes with key k are those of s behind the first p up to the first j.
RangeAt(mem, t, s, k, p, j) ==
    /\ p \in 0 .. Len(s) /\ j \in p + 1 .. Len(s)
    /\ find_node(mem, t, k).before = Place(t, s, p)
    /\ find_range(mem, t, k) = SubSeq(s, p + 1, j)
    /\ \A h \in 1 .. Len(s) : mem.key[s[h]] = k <=> p < h /\ h <= j

LEMMA FindRangeIs ==
    ASSUME NEW T, Heads(T), NEW mem \in Memories(T), NEW t \in T, NEW s, Held(mem, t, s, FALSE), NEW k \in Keys
    PROVE  \/ Missing(mem, s, k) /\ find_range(mem, t, k) = <<>> /\ find_node(mem, t, k).node = Null
           \/ \E p, j \in 0 .. Len(s) : RangeAt(mem, t, s, k, p, j)
<1>. DEFINE n == Len(s)
            found == find_node(mem, t, k)
<1>1. Filed(mem, t, s, FALSE) /\ ChainIs(mem, t, s) /\ Together(mem, s) /\ s \in Seq(DOMAIN mem.key)
  BY DEF Held, Filed, ChainIs
<1>2. n \in Nat
  BY <1>1
<1>3. PICK p \in 0 .. n : Found(mem, t, s, k, found, p)
  BY <1>1, FindNodeIs
<1>4. found.before = Place(t, s, p)
  <2>. HIDE DEF found
  <2>. QED
    BY <1>3 DEF Found
<1>5. find_range(mem, t, k) = IF found.node = Null THEN <<>> ELSE Run(mem, Span(mem, found.node, Null))
  BY DEF find_range
<1>. HIDE DEF found
<1>6. CASE Missing(mem, s, k) /\ found.node = Null
  BY <1>5, <1>6 DEF found
<1>7. CASE FirstWith(mem, s, k, p + 1) /\ found.node = s[p + 1]
  <2>1. p + 1 \in 1 .. n /\ mem.key[s[p + 1]] = k /\ \A j \in 1 .. n : mem.key[s[j]] = k => p + 1 <= j
    BY <1>7 DEF FirstWith
  <2>. HIDE DEF n
  <2>2. p \in Nat /\ p < n /\ p <= n /\ n \in p .. n /\ n <= n /\ ~(n < n) /\ p # n
    BY <1>2, <2>1
  <2>3. s[p + 1] # Null
    <3>1. \A i \in 1 .. n : s[i] # Null
      BY <1>1, PlaceIs DEF n
    <3>. QED
      BY <2>1, <3>1
  <2>4. Span(mem, s[p + 1], Null) = SubSeq(s, p + 1, n)
    <3>1. Span(mem, mem.next[Place(t, s, p)], Behind(s, n)) = SubSeq(s, p + 1, n)
      <4>1. p \in 0 .. Len(s) /\ Len(s) \in p .. Len(s)
        BY <1>3, <2>2 DEF n
      <4>2. Span(mem, mem.next[Place(t, s, p)], Behind(s, Len(s))) = SubSeq(s, p + 1, Len(s))
        BY <1>1, <4>1, SpanPiece
      <4>. QED
        BY <4>2 DEF n
    <3>2. Behind(s, n) = Null
      BY <2>2 DEF Behind, n
    <3>3. mem.next[Place(t, s, p)] = s[p + 1]
      <4>1. mem.next[Place(t, s, p)] = Behind(s, p)
        BY <1>1, <1>3 DEF ChainIs, n
      <4>. QED
        BY <2>2, <4>1 DEF Behind, n
    <3>. QED
      BY <3>1, <3>2, <3>3
  <2>5. p > 0 => mem.key[s[p]] # mem.key[s[p + 1]]
    <3>. SUFFICES ASSUME p > 0 PROVE mem.key[s[p]] # k
      BY <2>1
    <3>1. p \in 1 .. n /\ ~(p + 1 <= p)
      BY <2>2
    <3>. QED
      BY <2>1, <3>1
  <2>6. PICK j \in p + 1 .. n : RunUpTo(mem, s, p, j)
    BY <1>1, <1>3, <2>2, <2>5, RunOf DEF n
  <2>7. find_range(mem, t, k) = SubSeq(s, p + 1, j)
    BY <1>5, <1>7, <2>3, <2>4, <2>6 DEF RunUpTo, n
  <2>8. \A h \in 1 .. n : mem.key[s[h]] = k <=> p < h /\ h <= j
    BY <2>1, <2>6 DEF RunUpTo, n
  <2>9. RangeAt(mem, t, s, k, p, j)
    BY <1>3, <1>4, <2>6, <2>7, <2>8 DEF RangeAt, n, found
  <2>10. j \in 0 .. n
    BY <2>2, <2>6
  <2>. QED
    BY <1>3, <2>9, <2>10 DEF n
<1>. QED
  BY <1>3, <1>6, <1>7 DEF Found

\* The nodes with key k have left s.
KeyErased(mem, r, T, t, s, k) ==
    \E q : Erased(mem, r, T, t, s, q) /\ ToSet(q) = {x \in ToSet(s) : mem.key[x] # k}

LEMMA EraseKeyIs ==
    ASSUME NEW T, Heads(T), NEW mem \in Memories(T), NEW t \in T, NEW s, Held(mem, t, s, FALSE), NEW k \in Keys
    PROVE  KeyErased(mem, erase_key(mem, t, k), T, t, s, k)
<1>. DEFINE r == erase_key(mem, t, k)
            b == bucket(mem, t, k)
            gone == {x \in ToSet(s) : mem.key[x] = k}
<1>1. s \in Seq(DOMAIN mem.key)
  BY DEF Held, Filed, ChainIs
<1>2. Len(s) \in Nat /\ DOMAIN s = 1 .. Len(s)
  BY <1>1
<1>3. ToSet(s) = {s[i] : i \in 1 .. Len(s)}
  BY <1>2 DEF ToSet
<1>4. CASE Missing(mem, s, k) /\ find_range(mem, t, k) = <<>>
  <2>1. r = mem
    BY <1>4 DEF erase_key
  <2>2. {x \in ToSet(s) : mem.key[x] # k} = ToSet(s)
    BY <1>3, <1>4 DEF Missing
  <2>. HIDE DEF r
  <2>3. Erased(mem, r, T, t, s, s)
    BY <2>1, BecomesSame DEF Erased, KeysStay
  <2>. QED
    BY <2>2, <2>3 DEF KeyErased, r
<1>5. ASSUME NEW p \in 0 .. Len(s), NEW j \in 0 .. Len(s), RangeAt(mem, t, s, k, p, j)
      PROVE  KeyErased(mem, r, T, t, s, k)
  <2>1. /\ j \in p + 1 .. Len(s) /\ find_node(mem, t, k).before = Place(t, s, p)
        /\ find_range(mem, t, k) = SubSeq(s, p + 1, j)
        /\ \A h \in 1 .. Len(s) : mem.key[s[h]] = k <=> p < h /\ h <= j
    BY <1>5 DEF RangeAt
  <2>2. p \in Nat /\ p < j /\ j \in p .. Len(s) /\ j \in Nat /\ j <= Len(s)
    BY <1>2, <2>1
  <2>. DEFINE g == SubSeq(s, p + 1, j)
  <2>3. g \in Seq(DOMAIN mem.key) /\ Len(g) = j - p /\ \A i \in 1 .. j - p : g[i] = s[p + i] /\ p + i \in 1 .. Len(s)
    BY <1>1, <2>2, PieceIs
  <2>. HIDE DEF g
  <2>4. g # <<>>
    BY <2>2, <2>3
  <2>5. r = erase_nodes(mem, t, b, Place(t, s, p), g)
    BY <2>1, <2>4 DEF erase_key, g
  <2>6. b \in DOMAIN mem.buckets[t]
    BY BucketIn
  <2>7. \A i \in p + 1 .. j : In(mem, t, s, b, i)
    <3>1. \A i \in p + 1 .. j : i \in 1 .. Len(s) /\ p < i /\ i <= j
      BY <1>2, <2>2
    <3>. QED
      BY <2>1, <3>1 DEF In
  <2>. HIDE DEF r, b
  <2>8. r = erase_nodes(mem, t, b, Place(t, s, p), SubSeq(s, p + 1, j))
    BY <2>5 DEF g
  <2>c. CutFrom(mem, r, T, t, s, p, j)
    BY <2>2, <2>6, <2>7, <2>8, EraseAt
  <2>9. Erased(mem, r, T, t, s, Cut(s, p, j)) /\ ToSet(Cut(s, p, j)) = ToSet(s) \ ToSet(SubSeq(s, p + 1, j))
    BY <2>c DEF CutFrom
  <2>10. ToSet(g) = gone
    <3>1. DOMAIN g = 1 .. j - p
      BY <2>3
    <3>2. ToSet(g) = {g[i] : i \in 1 .. j - p}
      BY <3>1 DEF ToSet
    <3>3. \A i \in 1 .. j - p : p < p + i /\ p + i <= j
      BY <2>2
    <3>4. ASSUME NEW i \in 1 .. j - p PROVE g[i] \in gone
      <4>1. g[i] = s[p + i] /\ p + i \in 1 .. Len(s)
        BY <2>3
      <4>2. mem.key[s[p + i]] = k
        BY <2>1, <3>3, <4>1
      <4>. QED
        BY <1>3, <4>1, <4>2
    <3>5. ASSUME NEW x \in gone PROVE x \in ToSet(g)
      <4>1. PICK h \in 1 .. Len(s) : x = s[h]
        BY <1>3
      <4>2. p < h /\ h <= j
        BY <2>1, <3>5, <4>1
      <4>3. h - p \in 1 .. j - p /\ p + (h - p) = h
        BY <2>2, <4>2
      <4>4. g[h - p] = s[h]
        BY <2>3, <4>3
      <4>. QED
        BY <3>2, <4>1, <4>3, <4>4
    <3>. QED
      BY <3>2, <3>4, <3>5
  <2>11. ToSet(Cut(s, p, j)) = {x \in ToSet(s) : mem.key[x] # k}
    <3>1. ToSet(Cut(s, p, j)) = ToSet(s) \ gone
      BY <2>9, <2>10 DEF g
    <3>. QED
      BY <3>1
  <2>. QED
    BY <2>9, <2>11 DEF KeyErased, r
<1>. QED
  BY <1>4, <1>5, FindRangeIs

LEMMA OneOf ==
    ASSUME NEW A, NEW s \in Seq(A), NEW p \in Nat, NEW j, j = p + 1, j \in 1 .. Len(s)
    PROVE  SubSeq(s, p + 1, j) = <<s[j]>>
<1>. DEFINE u == SubSeq(s, p + 1, j)
            x == s[j]
            v == <<x>>
<1>1. j \in Nat /\ j <= Len(s) /\ j \in p .. Len(s) /\ j - p = 1
  BY LenProperties
<1>2. p + 1 = j /\ p + 1 >= 1
  OBVIOUS
<1>3. u \in Seq(A) /\ Len(u) = 1
  BY <1>1, PieceIs
<1>4. u[1] = s[p + 1]
  BY <1>1, PieceIs
<1>5. x \in A
  BY ElementOfSeq
<1>. HIDE DEF x
<1>6. v \in Seq(A) /\ Len(v) = 1 /\ v[1] = x
  BY <1>5
<1>7. u[1] = x
  BY <1>2, <1>4 DEF x
<1>. HIDE DEF u, v
<1>8. \A i \in 1 .. Len(u) : u[i] = v[i]
  BY <1>3, <1>6, <1>7
<1>9. u = v
  BY <1>3, <1>6, <1>8, SeqSame
<1>. QED
  BY <1>9 DEF u, v, x

\* A node with key k has left s.
FirstErased(mem, r, T, t, s, k) ==
    \E q : /\ Erased(mem, r, T, t, s, q)
           /\ \E x \in ToSet(s) : mem.key[x] = k /\ ToSet(q) = ToSet(s) \ {x}

LEMMA ErasePosIs ==
    ASSUME NEW T, Heads(T), NEW mem \in Memories(T), NEW t \in T, NEW s, Held(mem, t, s, FALSE), NEW n \in ToSet(s)
    PROVE  FirstErased(mem, erase_pos(mem, t, n), T, t, s, mem.key[n])
<1>. DEFINE k == mem.key[n]
            b == bucket(mem, t, k)
            found == find_node(mem, t, k)
            r == erase_pos(mem, t, n)
<1>1. s \in Seq(DOMAIN mem.key) /\ Filed(mem, t, s, FALSE)
  BY DEF Held, Filed, ChainIs
<1>2. Len(s) \in Nat /\ DOMAIN s = 1 .. Len(s)
  BY <1>1
<1>3. PICK i \in 1 .. Len(s) : n = s[i]
  BY <1>2 DEF ToSet
<1>4. k \in Keys
  <2>1. mem.key \in [DOMAIN mem.key -> Keys]
    BY MemoryHas
  <2>2. n \in DOMAIN mem.key
    BY <1>1, ElementsOf
  <2>. QED
    BY <2>1, <2>2
<1>5. r = erase_nodes(mem, t, b, found.before, <<found.node>>)
  BY DEF erase_pos
<1>. HIDE DEF k, found, r
<1>6. PICK p \in 0 .. Len(s) : Found(mem, t, s, k, found, p)
  BY <1>1, <1>4, FindNodeIs DEF found
<1>7. found.before = Place(t, s, p) /\ FirstWith(mem, s, k, p + 1) /\ found.node = s[p + 1]
  BY <1>3, <1>6 DEF Found, Missing, k
<1>8. p + 1 \in 1 .. Len(s) /\ mem.key[s[p + 1]] = k
  BY <1>7 DEF FirstWith
<1>. DEFINE j == p + 1
<1>9. p \in Nat /\ j \in p .. Len(s) /\ p < j /\ p + 1 .. j = {j}
  BY <1>2, <1>8
<1>10. SubSeq(s, p + 1, j) = <<found.node>>
  <2>1. s[j] = found.node /\ j \in 1 .. Len(s)
    BY <1>7, <1>8
  <2>. HIDE DEF j
  <2>2. j = p + 1
    BY DEF j
  <2>3. SubSeq(s, p + 1, j) = <<s[j]>>
    BY <1>1, <1>9, <2>1, <2>2, OneOf
  <2>. QED
    BY <2>1, <2>3
<1>11. b \in DOMAIN mem.buckets[t]
  BY <1>4, BucketIn
<1>12. \A x \in p + 1 .. j : In(mem, t, s, b, x)
  BY <1>8, <1>9 DEF In
<1>13. r = erase_nodes(mem, t, b, Place(t, s, p), SubSeq(s, p + 1, j))
  BY <1>5, <1>7, <1>10
<1>. HIDE DEF j, b
<1>c. CutFrom(mem, r, T, t, s, p, j)
  BY <1>6, <1>9, <1>11, <1>12, <1>13, EraseAt
<1>14. Erased(mem, r, T, t, s, Cut(s, p, j)) /\ ToSet(Cut(s, p, j)) = ToSet(s) \ ToSet(SubSeq(s, p + 1, j))
  BY <1>c DEF CutFrom
<1>15. ToSet(SubSeq(s, p + 1, j)) = {found.node}
  <2>. DEFINE x == found.node
  <2>1. ToSet(<<x>>) = {x}
    BY DEF ToSet
  <2>. QED
    BY <1>10, <2>1
<1>16. found.node \in ToSet(s) /\ mem.key[found.node] = k
  BY <1>1, <1>7, <1>8, ElementsOf
<1>17. FirstErased(mem, r, T, t, s, k)
  BY <1>14, <1>15, <1>16 DEF FirstErased
<1>. QED
  BY <1>17 DEF r, k

\* Cutting leaves what is before the cut and what is behind it.
LEMMA CutPlaces ==
    ASSUME NEW S, NEW s \in Seq(S), NEW a \in 0 .. Len(s), NEW x \in a .. Len(s), NEW y \in x .. Len(s), NEW t
    PROVE  /\ a \in 0 .. Len(Cut(s, a, x)) /\ y - (x - a) \in a .. Len(Cut(s, a, x))
           /\ Place(t, Cut(s, a, x), a) = Place(t, s, a)
           /\ Behind(Cut(s, a, x), y - (x - a)) = Behind(s, y)
<1>. DEFINE n == Len(s)
            q == Cut(s, a, x)
            l == x - a
            z == y - l
<1>1. n \in Nat /\ a \in Nat /\ x \in Nat /\ y \in Nat /\ l \in Nat /\ a <= x /\ x <= y /\ y <= n
  OBVIOUS
<1>2. Len(q) = n - l /\ a \in 0 .. Len(q)
  BY CutIs
<1>3. \A i \in 1 .. n - l : q[i] = IF i <= a THEN s[i] ELSE s[i + l]
  BY DEF Cut
<1>4. z \in Nat /\ a <= z /\ z <= n - l /\ (z < n - l <=> y < n) /\ z + 1 + l = y + 1 /\ ~(z + 1 <= a)
  BY <1>1
<1>. HIDE DEF q, l
<1>5. z \in a .. Len(q)
  BY <1>1, <1>2, <1>4
<1>6. Place(t, q, a) = Place(t, s, a)
  <2>1. CASE a = 0
    BY <2>1 DEF Place
  <2>2. CASE a # 0
    <3>1. a \in 1 .. n - l
      BY <1>1, <1>2, <2>2
    <3>2. q[a] = s[a]
      BY <1>1, <1>3, <3>1
    <3>. QED
      BY <2>2, <3>2 DEF Place
  <2>. QED
    BY <2>1, <2>2
<1>. HIDE DEF z, n
<1>7. Behind(q, z) = Behind(s, y)
  <2>1. CASE y < n
    <3>1. z + 1 \in 1 .. n - l
      BY <1>1, <1>4, <2>1
    <3>2. q[z + 1] = s[y + 1]
      BY <1>3, <1>4, <3>1
    <3>. QED
      BY <1>2, <1>4, <2>1, <3>2 DEF Behind, n
  <2>2. CASE ~(y < n)
    BY <1>2, <1>4, <2>2 DEF Behind, n
  <2>. QED
    BY <2>1, <2>2
<1>. QED
  BY <1>2, <1>5, <1>6, <1>7 DEF q, z, l

LEMMA CutTwice ==
    ASSUME NEW S, NEW s \in Seq(S), NEW a \in 0 .. Len(s), NEW x \in a .. Len(s),
           NEW z \in Nat, a <= z, z <= Len(s) - (x - a)
    PROVE  x + (z - a) \in a .. Len(s) /\ Cut(Cut(s, a, x), a, z) = Cut(s, a, x + (z - a))
<1>. DEFINE q == Cut(s, a, x)
            y == x + (z - a)
            u == Cut(q, a, z)
            v == Cut(s, a, y)
            l == Len(s)
<1>1. /\ l \in Nat /\ a \in Nat /\ x \in Nat /\ y \in Nat /\ a <= x /\ x <= l /\ a <= y /\ y <= l /\ a <= l
      /\ y \in a .. l /\ z \in a .. l - (x - a) /\ y - a = (x - a) + (z - a)
  OBVIOUS
<1>2. q \in Seq(S) /\ Len(q) = l - (x - a) /\ a \in 0 .. Len(q)
  BY CutIs
<1>3. \A i \in 1 .. l - (x - a) : q[i] = IF i <= a THEN s[i] ELSE s[i + (x - a)]
  BY DEF Cut
<1>4. v \in Seq(S) /\ Len(v) = l - (y - a)
  <2>. HIDE DEF y
  <2>. QED
    BY <1>1, CutIs
<1>5. \A i \in 1 .. l - (y - a) : v[i] = IF i <= a THEN s[i] ELSE s[i + (y - a)]
  BY DEF Cut
<1>. HIDE DEF q, v, l
<1>6. z \in a .. Len(q)
  BY <1>1, <1>2
<1>7. u \in Seq(S) /\ Len(u) = Len(q) - (z - a)
  BY <1>2, <1>6, CutIs
<1>8. \A i \in 1 .. Len(q) - (z - a) : u[i] = IF i <= a THEN q[i] ELSE q[i + (z - a)]
  BY DEF Cut
<1>9. Len(q) - (z - a) = l - (y - a)
  BY <1>1, <1>2
<1>. HIDE DEF u, y
<1>10. ASSUME NEW i \in 1 .. Len(u) PROVE u[i] = v[i]
  <2>1. i \in 1 .. l - (y - a) /\ i \in Nat /\ i > 0 /\ i <= l - (y - a)
    BY <1>1, <1>7, <1>9
  <2>2. CASE i <= a
    <3>1. i \in 1 .. l - (x - a)
      BY <1>1, <2>1, <2>2
    <3>. QED
      BY <1>3, <1>5, <1>8, <1>9, <2>1, <2>2, <3>1
  <2>3. CASE ~(i <= a)
    <3>. DEFINE h == i + (z - a)
    <3>1. h \in 1 .. l - (x - a) /\ ~(h <= a) /\ h + (x - a) = i + (y - a)
      BY <1>1, <2>1, <2>3
    <3>2. u[i] = q[h]
      BY <1>8, <1>9, <2>1, <2>3
    <3>. HIDE DEF h
    <3>3. q[h] = s[h + (x - a)]
      BY <1>3, <3>1
    <3>4. v[i] = s[i + (y - a)]
      BY <1>5, <2>1, <2>3
    <3>. QED
      BY <3>1, <3>2, <3>3, <3>4
  <2>. QED
    BY <2>2, <2>3
<1>11. u = v
  BY <1>4, <1>7, <1>9, <1>10, SeqSame
<1>. QED
  BY <1>1, <1>11 DEF u, v, q, y, l

LEMMA CutNothing ==
    ASSUME NEW S, NEW s \in Seq(S), NEW a \in 0 .. Len(s)
    PROVE  Cut(s, a, a) = s
<1>. DEFINE u == Cut(s, a, a)
<1>1. a \in a .. Len(s) /\ a - a = 0 /\ Len(s) - 0 = Len(s) /\ \A i \in 1 .. Len(s) : i + 0 = i
  OBVIOUS
<1>2. u \in Seq(S) /\ Len(u) = Len(s)
  BY <1>1, CutIs
<1>3. \A i \in 1 .. Len(s) : u[i] = s[i]
  BY <1>1 DEF Cut
<1>. HIDE DEF u
<1>4. u = s
  BY <1>2, <1>3, SeqSame
<1>. QED
  BY <1>4 DEF u

\* No two places of a chain are before the same.
LEMMA BehindWhere ==
    ASSUME NEW D, NEW s \in Seq(D), Null \notin D, Distinct(s), NEW x \in 0 .. Len(s), NEW y \in 0 .. Len(s),
           Behind(s, x) = Behind(s, y)
    PROVE  x = y
<1>1. Len(s) \in Nat /\ \A i \in 1 .. Len(s) : s[i] # Null
  BY ElementOfSeq
<1>2. CASE x < Len(s) /\ y < Len(s)
  <2>1. x + 1 \in 1 .. Len(s) /\ y + 1 \in 1 .. Len(s) /\ s[x + 1] = s[y + 1]
    BY <1>1, <1>2 DEF Behind
  <2>2. x + 1 = y + 1
    BY <2>1 DEF Distinct
  <2>. QED
    BY <1>1, <2>2
<1>3. CASE x < Len(s) /\ ~(y < Len(s))
  <2>1. x + 1 \in 1 .. Len(s) /\ s[x + 1] = Null
    BY <1>1, <1>3 DEF Behind
  <2>. QED
    BY <1>1, <2>1
<1>4. CASE ~(x < Len(s)) /\ y < Len(s)
  <2>1. y + 1 \in 1 .. Len(s) /\ s[y + 1] = Null
    BY <1>1, <1>4 DEF Behind
  <2>. QED
    BY <1>1, <2>1
<1>5. CASE ~(x < Len(s)) /\ ~(y < Len(s))
  BY <1>1, <1>5
<1>. QED
  BY <1>2, <1>3, <1>4, <1>5

LEMMA ErasedTwice ==
    ASSUME NEW mem, NEW r, NEW u, NEW T, NEW t, NEW s, NEW q, NEW w,
           Erased(mem, r, T, t, s, q), Erased(r, u, T, t, q, w)
    PROVE  Erased(mem, u, T, t, s, w)
<1>1. Becomes(mem, u, T, t, s, w)
  BY BecomesTwice DEF Erased
<1>2. KeysStay(mem, u)
  BY DEF Erased, KeysStay
<1>. QED
  BY <1>1, <1>2 DEF Erased

LEMMA ErasedSame ==
    ASSUME NEW T, NEW mem \in Memories(T), NEW t \in T, NEW s, Held(mem, t, s, FALSE)
    PROVE  Erased(mem, mem, T, t, s, s)
  BY BecomesSame DEF Erased, KeysStay

\* Of the nodes of s behind the first a up to the first e at least i, or all, have left.
Erasing(mem, acc, T, t, s, a, e, i) ==
    \E x \in a .. e : (i <= x - a \/ x = e) /\ Erased(mem, acc, T, t, s, Cut(s, a, x))

\* One turn of erase_range.
PartErased(acc, t, before, last) ==
    LET next == acc.next[before]
        b == bucket(acc, t, acc.key[next])
        behind == acc.next[acc.buckets[t][b].finish]
        part == Span(acc, next, last)
    IN  IF next = last THEN acc
        ELSE erase_nodes(acc, t, b, before, IF behind \in ToSet(part) THEN Span(acc, next, behind) ELSE part)

\* r is acc without the nodes of q behind the first a up to the first x, all of one bucket.
ErasedTo(acc, r, t, q, a, x) ==
    LET b == bucket(acc, t, acc.key[q[a + 1]])
    IN  a < x /\ (\A i \in a + 1 .. x : In(acc, t, q, b, i))
        /\ r = erase_nodes(acc, t, b, Place(t, q, a), SubSeq(q, a + 1, x))

\* The nodes a turn erases are the next of the range up to the end of the bucket.
LEMMA PartIs ==
    ASSUME NEW T, Heads(T), NEW acc \in Memories(T), NEW t \in T, NEW q, Held(acc, t, q, FALSE),
           NEW a \in 0 .. Len(q), NEW y \in a .. Len(q), acc.next[Place(t, q, a)] # Behind(q, y)
    PROVE  \E x \in a .. y : ErasedTo(acc, PartErased(acc, t, Place(t, q, a), Behind(q, y)), t, q, a, x)
<1>. DEFINE n == Len(q)
            before == Place(t, q, a)
            last == Behind(q, y)
            next == acc.next[before]
            b == bucket(acc, t, acc.key[next])
            behind == acc.next[acc.buckets[t][b].finish]
            part == Span(acc, next, last)
<1>1. Filed(acc, t, q, FALSE) /\ ChainIs(acc, t, q) /\ Distinct(q) /\ q \in Seq(DOMAIN acc.key)
  BY DEF Held, Filed, ChainIs
<1>2. n \in Nat
  BY <1>1
<1>3. \A i \in 0 .. n : acc.next[Place(t, q, i)] = Behind(q, i)
  BY <1>1 DEF ChainIs
<1>4. next = Behind(q, a)
  BY <1>3
<1>5. a \in Nat /\ y \in Nat /\ a < y /\ a < n /\ y <= n /\ a + 1 \in 1 .. n
  <2>1. a # y
    BY <1>4
  <2>. QED
    BY <1>2, <2>1
<1>6. next = q[a + 1]
  BY <1>4, <1>5 DEF Behind
<1>7. acc.key[next] \in Keys
  <2>1. acc.key \in [DOMAIN acc.key -> Keys]
    BY MemoryHas
  <2>2. q[a + 1] \in DOMAIN acc.key
    BY <1>1, <1>5, ElementOfSeq
  <2>. QED
    BY <1>6, <2>1, <2>2
<1>8. b \in DOMAIN acc.buckets[t]
  BY <1>7, BucketIn
<1>9. In(acc, t, q, b, a + 1)
  BY <1>6 DEF In
<1>10. PICK lo, hi \in 1 .. n : Block(acc, t, q, b, lo, hi)
  <2>1. ~Vacant(acc, t, q, b)
    BY <1>5, <1>9 DEF Vacant
  <2>. QED
    BY <1>1, <1>8, <2>1, VacantOrBlock
<1>11. lo <= a + 1 /\ a + 1 <= hi /\ \A i \in 1 .. n : lo <= i /\ i <= hi => In(acc, t, q, b, i)
  BY <1>5, <1>9, <1>10 DEF Block
<1>12. acc.buckets[t][b].finish = q[hi]
  <2>. HIDE DEF b, next
  <2>1. Ends(acc, t, b, q[hi])
    BY <1>1, <1>8, <1>10, RightBlock
  <2>. QED
    BY <2>1 DEF Ends
<1>13. behind = Behind(q, hi)
  <2>1. hi \in 0 .. n /\ hi # 0
    BY <1>2, <1>10
  <2>. QED
    BY <1>3, <1>12, <2>1 DEF Place
<1>14. part = SubSeq(q, a + 1, y)
  BY <1>1, SpanPiece
<1>15. PartErased(acc, t, before, last) = erase_nodes(acc, t, b, before, IF behind \in ToSet(part) THEN Span(acc, next, behind) ELSE part)
  BY DEF PartErased
<1>16. ToSet(part) = {q[h] : h \in a + 1 .. y}
  <2>. HIDE DEF part
  <2>1. /\ part \in Seq(DOMAIN acc.key) /\ Len(part) = y - a
        /\ \A k \in 1 .. y - a : part[k] = q[a + k] /\ a + k \in 1 .. n
    <3>1. q \in Seq(DOMAIN acc.key) /\ a \in 0 .. Len(q) /\ y \in a .. Len(q)
      BY <1>1
    <3>2. /\ SubSeq(q, a + 1, y) \in Seq(DOMAIN acc.key) /\ Len(SubSeq(q, a + 1, y)) = y - a
          /\ \A k \in 1 .. y - a : SubSeq(q, a + 1, y)[k] = q[a + k] /\ a + k \in 1 .. n
      BY ONLY <3>1, PieceIs
    <3>. QED
      BY <1>14, <3>2
  <2>2. ToSet(part) = {part[k] : k \in 1 .. y - a}
    BY <2>1, ElementsOf
  <2>3. \A k \in 1 .. y - a : a + k \in a + 1 .. y
    BY <1>5
  <2>4. \A h \in a + 1 .. y : h - a \in 1 .. y - a /\ a + (h - a) = h
    BY <1>5
  <2>5. \A h \in a + 1 .. y : part[h - a] = q[h]
    BY <2>1, <2>4
  <2>6. \A k \in 1 .. y - a : part[k] \in {q[h] : h \in a + 1 .. y}
    BY <2>1, <2>3
  <2>7. \A h \in a + 1 .. y : q[h] \in ToSet(part)
    BY <2>2, <2>4, <2>5
  <2>. QED
    BY <2>2, <2>6, <2>7
<1>. HIDE DEF b, behind, part, n
<1>17. \A i \in 1 .. n : q[i] # Null
  BY <1>1, PlaceIs DEF n
<1>18. CASE behind \in ToSet(part)
  <2>1. PICK h \in a + 1 .. y : behind = q[h]
    BY <1>16, <1>18
  <2>2. h \in 1 .. n
    BY <1>2, <1>5, <2>1
  <2>3. hi < n /\ behind = q[hi + 1]
    BY <1>13, <1>17, <2>1, <2>2 DEF Behind, n
  <2>4. hi \in Nat /\ hi + 1 \in 1 .. n
    BY <1>2, <1>10, <2>3
  <2>5. hi + 1 = h
    BY <1>1, <2>1, <2>2, <2>3, <2>4 DEF Distinct, n
  <2>6. hi \in a .. y /\ hi \in a .. n /\ a < hi
    BY <1>2, <1>5, <1>11, <2>1, <2>4, <2>5
  <2>7. Span(acc, next, behind) = SubSeq(q, a + 1, hi)
    <3>1. hi \in a .. Len(q)
      BY <2>6 DEF n
    <3>2. Span(acc, acc.next[Place(t, q, a)], Behind(q, hi)) = SubSeq(q, a + 1, hi)
      BY <1>1, <3>1, SpanPiece
    <3>. QED
      BY <1>13, <3>2
  <2>8. \A i \in a + 1 .. hi : In(acc, t, q, b, i)
    <3>1. \A i \in a + 1 .. hi : i \in 1 .. n /\ lo <= i /\ i <= hi
      BY <1>2, <1>5, <1>10, <1>11, <2>6
    <3>. QED
      BY <1>11, <3>1
  <2>9. PartErased(acc, t, before, last) = erase_nodes(acc, t, b, before, SubSeq(q, a + 1, hi))
    BY <1>15, <1>18, <2>7
  <2>10. b = bucket(acc, t, acc.key[q[a + 1]])
    BY <1>6 DEF b
  <2>. QED
    BY <2>6, <2>8, <2>9, <2>10 DEF ErasedTo
<1>19. CASE behind \notin ToSet(part)
  <2>1. y <= hi
    <3>. SUFFICES ASSUME hi < y PROVE FALSE
      BY <1>2, <1>5, <1>10
    <3>1. hi < n /\ hi + 1 \in a + 1 .. y
      BY <1>2, <1>5, <1>10, <1>11
    <3>2. behind = q[hi + 1]
      BY <1>13, <3>1 DEF Behind, n
    <3>. QED
      BY <1>16, <1>19, <3>1, <3>2
  <2>2. y \in a .. y /\ a < y
    BY <1>5
  <2>3. \A i \in a + 1 .. y : In(acc, t, q, b, i)
    <3>1. \A i \in a + 1 .. y : i \in 1 .. n /\ lo <= i /\ i <= hi
      BY <1>2, <1>5, <1>10, <1>11, <2>1
    <3>. QED
      BY <1>11, <3>1
  <2>4. PartErased(acc, t, before, last) = erase_nodes(acc, t, b, before, SubSeq(q, a + 1, y))
    BY <1>14, <1>15, <1>19
  <2>5. b = bucket(acc, t, acc.key[q[a + 1]])
    BY <1>6 DEF b
  <2>. QED
    BY <2>2, <2>3, <2>4, <2>5 DEF ErasedTo
<1>. QED
  BY <1>18, <1>19

LEMMA EraseTurn ==
    ASSUME NEW T, Heads(T), NEW mem \in Memories(T), NEW t \in T, NEW s, Held(mem, t, s, FALSE),
           NEW a \in 0 .. Len(s), NEW e \in a .. Len(s), NEW i \in Nat \ {0},
           NEW acc, Erasing(mem, acc, T, t, s, a, e, i - 1)
    PROVE  Erasing(mem, PartErased(acc, t, Place(t, s, a), Behind(s, e)), T, t, s, a, e, i)
<1>. DEFINE before == Place(t, s, a)
            last == Behind(s, e)
            r == PartErased(acc, t, before, last)
            D == DOMAIN mem.key
<1>1. PICK x \in a .. e : (i - 1 <= x - a \/ x = e) /\ Erased(mem, acc, T, t, s, Cut(s, a, x))
  BY DEF Erasing
<1>. DEFINE q == Cut(s, a, x)
            y == e - (x - a)
<1>2. s \in Seq(D) /\ Distinct(s) /\ Len(s) \in Nat /\ Null \notin D
  <2>1. s \in Seq(D) /\ Distinct(s)
    BY DEF Held, Filed, ChainIs
  <2>2. D \subseteq Nodes
    BY MemoryHas
  <2>. QED
    BY <2>1, <2>2, TableAssumption
<1>3. /\ a \in Nat /\ x \in Nat /\ e \in Nat /\ a <= x /\ x <= e /\ e <= Len(s)
      /\ x \in a .. Len(s) /\ e \in x .. Len(s) /\ x \in 0 .. Len(s) /\ e \in 0 .. Len(s) /\ x \in x .. Len(s)
      /\ x - (x - a) = a
  BY <1>2
<1>. HIDE DEF D
<1>4. acc \in Memories(T) /\ Held(acc, t, q, FALSE) /\ Erased(mem, acc, T, t, s, q)
  BY <1>1 DEF Erased, Becomes, Apart
<1>5. a \in 0 .. Len(q) /\ y \in a .. Len(q) /\ Place(t, q, a) = before /\ Behind(q, y) = last
  <2>1. s \in Seq(D) /\ a \in 0 .. Len(s) /\ x \in a .. Len(s) /\ e \in x .. Len(s)
    BY <1>2, <1>3
  <2>2. a \in 0 .. Len(q) /\ y \in a .. Len(q)
    BY ONLY <2>1, CutPlaces
  <2>3. Place(t, q, a) = Place(t, s, a) /\ Behind(q, y) = Behind(s, e)
    BY ONLY <2>1, CutPlaces
  <2>. QED
    BY <2>2, <2>3
<1>6. Behind(q, a) = Behind(s, x)
  <2>1. Behind(Cut(s, a, x), x - (x - a)) = Behind(s, x)
    BY <1>2, <1>3, CutPlaces
  <2>. QED
    BY <1>3, <2>1
<1>7. q \in Seq(D) /\ Len(q) = Len(s) - (x - a)
  BY <1>2, <1>3, CutIs
<1>8. acc.next[before] = Behind(s, x)
  <2>. HIDE DEF q, before
  <2>1. acc.next[Place(t, q, a)] = Behind(q, a)
    BY <1>4, <1>5 DEF Held, Filed, ChainIs
  <2>. QED
    BY <1>5, <1>6, <2>1
<1>9. CASE acc.next[before] = last
  <2>1. r = acc
    BY <1>9 DEF PartErased
  <2>2. Behind(s, x) = Behind(s, e)
    BY <1>8, <1>9
  <2>3. x = e
    BY <1>2, <1>3, <2>2, BehindWhere
  <2>. HIDE DEF r, q
  <2>4. Erasing(mem, r, T, t, s, a, e, i)
    BY <1>4, <2>1, <2>3 DEF Erasing, q
  <2>. QED
    BY <2>4 DEF r
<1>10. CASE acc.next[before] # last
  <2>. HIDE DEF q, y, before, last, r
  <2>1. acc.next[Place(t, q, a)] # Behind(q, y)
    BY <1>5, <1>10
  <2>2. \E z \in a .. y : ErasedTo(acc, PartErased(acc, t, Place(t, q, a), Behind(q, y)), t, q, a, z)
    BY <1>4, <1>5, <2>1, PartIs
  <2>3. PICK z \in a .. y : ErasedTo(acc, r, t, q, a, z)
    BY <1>5, <2>2 DEF r
  <2>. DEFINE b == bucket(acc, t, acc.key[q[a + 1]])
  <2>4. a < z /\ (\A h \in a + 1 .. z : In(acc, t, q, b, h)) /\ r = erase_nodes(acc, t, b, Place(t, q, a), SubSeq(q, a + 1, z))
    BY <2>3 DEF ErasedTo
  <2>5. z \in Nat /\ z <= Len(q) /\ z \in a .. Len(q) /\ a + 1 \in 1 .. Len(q) /\ z <= y /\ y \in Nat
    BY <1>2, <1>3, <1>5, <1>7, <2>4
  <2>6. b \in DOMAIN acc.buckets[t]
    <3>1. acc.key \in [DOMAIN acc.key -> Keys]
      BY <1>4, MemoryHas
    <3>2. q \in Seq(DOMAIN acc.key)
      BY <1>4 DEF Held, Filed, ChainIs
    <3>3. q[a + 1] \in DOMAIN acc.key
      BY <2>5, <3>2, ElementOfSeq
    <3>4. acc.key[q[a + 1]] \in Keys
      BY <3>1, <3>3
    <3>. QED
      BY <1>4, <3>4, BucketIn
  <2>. HIDE DEF b
  <2>7. CutFrom(acc, r, T, t, q, a, z)
    <3>1. \A h \in a + 1 .. z : In(acc, t, q, b, h)
      BY <2>4
    <3>2. r = erase_nodes(acc, t, b, Place(t, q, a), SubSeq(q, a + 1, z)) /\ a < z
      BY <2>4
    <3>. QED
      BY <1>4, <1>5, <2>5, <2>6, <3>1, <3>2, EraseAt
  <2>8. Erased(acc, r, T, t, q, Cut(q, a, z))
    BY <2>7 DEF CutFrom
  <2>9. Erased(mem, r, T, t, s, Cut(q, a, z))
    BY <1>4, <2>8, ErasedTwice
  <2>. DEFINE w == x + (z - a)
  <2>10. Cut(q, a, z) = Cut(s, a, w)
    <3>1. a <= z /\ z <= Len(s) - (x - a)
      BY <1>7, <2>4, <2>5
    <3>. QED
      BY <1>2, <1>3, <2>5, <3>1, CutTwice DEF q
  <2>11. w \in a .. e /\ (i <= w - a \/ w = e)
    BY <1>1, <1>3, <2>4, <2>5 DEF y
  <2>. HIDE DEF w
  <2>12. Erasing(mem, r, T, t, s, a, e, i)
    BY <2>9, <2>10, <2>11 DEF Erasing
  <2>. QED
    BY <2>12 DEF r, before, last
<1>. QED
  BY <1>9, <1>10

\* The node before first, looked for from head.
NodeBefore(mem, head, first) == Last(<<head>> \o Span(mem, mem.next[head], first))

\* What the bucket of the node behind the first a of s begins behind.
FrontBehind(mem, t, s, a) == mem.buckets[t][bucket(mem, t, mem.key[s[a + 1]])].before

\* From head the place behind the first a of s is found.
FoundFrom(mem, t, s, a, head) == NodeBefore(mem, head, s[a + 1]) = Place(t, s, a)

\* The node before the range is found from the front of its bucket.
LEMMA RangeFront ==
    ASSUME NEW T, Heads(T), NEW mem \in Memories(T), NEW t \in T, NEW s, Held(mem, t, s, FALSE),
           NEW a \in 0 .. Len(s), a < Len(s),
           NEW head, head = FrontBehind(mem, t, s, a)
    PROVE  FoundFrom(mem, t, s, a, head)
<1>. DEFINE n == Len(s)
            b == bucket(mem, t, mem.key[s[a + 1]])
<1>1. Filed(mem, t, s, FALSE) /\ ChainIs(mem, t, s) /\ s \in Seq(DOMAIN mem.key)
  BY DEF Held, Filed, ChainIs
<1>2. n \in Nat /\ a \in Nat /\ a + 1 \in 1 .. n
  BY <1>1
<1>3. b \in DOMAIN mem.buckets[t]
  <2>1. mem.key \in [DOMAIN mem.key -> Keys]
    BY MemoryHas
  <2>2. s[a + 1] \in DOMAIN mem.key
    BY <1>1, <1>2, ElementOfSeq
  <2>3. mem.key[s[a + 1]] \in Keys
    BY <2>1, <2>2
  <2>. QED
    BY <2>3, BucketIn
<1>4. In(mem, t, s, b, a + 1)
  BY DEF In
<1>5. head = mem.buckets[t][b].before
  BY DEF FrontBehind
<1>. HIDE DEF b
<1>6. PICK lo, hi \in 1 .. n : Block(mem, t, s, b, lo, hi)
  <2>1. ~Vacant(mem, t, s, b)
    BY <1>2, <1>4 DEF Vacant
  <2>. QED
    BY <1>1, <1>3, <2>1, VacantOrBlock
<1>. DEFINE c == lo - 1
<1>7. lo <= a + 1
  BY <1>2, <1>4, <1>6 DEF Block
<1>8. Begins(mem, t, b, Place(t, s, c))
  BY <1>1, <1>3, <1>6, RightBlock
<1>9. c \in 0 .. n /\ a \in c .. n /\ c \in Nat /\ c <= a
  BY <1>2, <1>6, <1>7
<1>. HIDE DEF c
<1>10. head = Place(t, s, c)
  BY <1>5, <1>8 DEF Begins
<1>11. Behind(s, a) = s[a + 1]
  BY DEF Behind
<1>. DEFINE w == SubSeq(s, c + 1, a)
            l == a - c
<1>12. Span(mem, mem.next[head], s[a + 1]) = w
  <2>. HIDE DEF w, l
  <2>1. c \in 0 .. Len(s) /\ a \in c .. Len(s)
    BY <1>9
  <2>. HIDE DEF n
  <2>2. Span(mem, mem.next[Place(t, s, c)], Behind(s, a)) = SubSeq(s, c + 1, a)
    BY ONLY <1>1, <2>1, SpanPiece, Heads(T), mem \in Memories(T), t \in T
  <2>. QED
    BY <1>10, <1>11, <2>2 DEF w
<1>13. w \in Seq(DOMAIN mem.key) /\ Len(w) = l /\ \A k \in 1 .. l : w[k] = s[c + k]
  BY <1>1, <1>9, PieceIs
<1>14. l \in Nat /\ (l = 0 <=> a = c) /\ c + l = a /\ (l # 0 => l \in 1 .. l /\ a # 0)
  BY <1>9
<1>. HIDE DEF w, l
<1>. DEFINE S == DOMAIN mem.key \cup {head}
            u == <<head>>
            v == u \o w
<1>15. u \in Seq(S) /\ Len(u) = 1 /\ u[1] = head
  OBVIOUS
<1>16. w \in Seq(S)
  BY <1>13, SeqMonotonic
<1>. HIDE DEF u, S
<1>17. v \in Seq(S) /\ Len(v) = 1 + l /\ \A i \in 1 .. 1 + l : v[i] = IF i <= 1 THEN u[i] ELSE w[i - 1]
  <2>1. v \in Seq(S) /\ Len(v) = Len(u) + Len(w)
    BY <1>15, <1>16, ConcatProperties
  <2>2. \A i \in 1 .. Len(u) + Len(w) : v[i] = IF i <= Len(u) THEN u[i] ELSE w[i - Len(u)]
    BY <1>15, <1>16, ConcatProperties
  <2>. HIDE DEF v
  <2>. QED
    BY <1>13, <1>15, <2>1, <2>2
<1>. HIDE DEF v
<1>18. Last(v) = v[1 + l]
  BY <1>17 DEF Last
<1>19. v[1 + l] = Place(t, s, a)
  <2>1. CASE l = 0
    BY <1>10, <1>14, <1>15, <1>17, <2>1
  <2>2. CASE l # 0
    <3>1. 1 + l \in 1 .. 1 + l /\ ~(1 + l <= 1) /\ (1 + l) - 1 = l
      BY <1>14, <2>2
    <3>2. v[1 + l] = w[l]
      BY <1>17, <3>1
    <3>3. w[l] = s[a]
      BY <1>13, <1>14, <2>2
    <3>. QED
      BY <1>14, <2>2, <3>2, <3>3 DEF Place
  <2>. QED
    BY <2>1, <2>2
<1>. QED
  BY <1>12, <1>18, <1>19 DEF v, u, NodeBefore, FoundFrom

LEMMA EraseRangeIs ==
    ASSUME NEW T, Heads(T), NEW mem \in Memories(T), NEW t \in T, NEW s, Held(mem, t, s, FALSE),
           NEW a \in 0 .. Len(s), NEW e \in a .. Len(s)
    PROVE  Erased(mem, erase_range(mem, t, Behind(s, a), Behind(s, e)), T, t, s, Cut(s, a, e))
<1>. DEFINE n == mem.size[t]
            first == Behind(s, a)
            last == Behind(s, e)
            head == mem.buckets[t][bucket(mem, t, mem.key[first])].before
            before == Last(<<head>> \o Span(mem, mem.next[head], first))
            r == erase_range(mem, t, first, last)
            X == [i \in 0 .. n |-> {acc \in Memories(T) : Erasing(mem, acc, T, t, s, a, e, i)}]
            G == [i \in 1 .. n |-> [acc \in X[i - 1] |-> PartErased(acc, t, before, last)]]
            after == CHOOSE f : f = [i \in 0 .. n |-> IF i = 0 THEN mem ELSE PartErased(f[i - 1], t, before, last)]
<1>1. /\ s \in Seq(DOMAIN mem.key) /\ Len(s) \in Nat /\ a \in Nat /\ e \in Nat /\ n \in Nat
      /\ a <= e /\ e <= Len(s)
  BY DEF Held, Filed, ChainIs
<1>2. r = IF first = last THEN mem ELSE after[n]
  BY DEF erase_range, Loop, PartErased
<1>d. Distinct(s) /\ Null \notin DOMAIN mem.key
  <2>1. Distinct(s)
    BY DEF Held, Filed, ChainIs
  <2>2. DOMAIN mem.key \subseteq Nodes
    BY MemoryHas
  <2>. QED
    BY <2>1, <2>2, TableAssumption
<1>3. CASE first = last
  <2>1. a \in 0 .. Len(s) /\ e \in 0 .. Len(s)
    BY <1>1
  <2>2. a = e
    BY <1>1, <1>d, <1>3, <2>1, BehindWhere
  <2>3. Cut(s, a, e) = s
    BY <1>1, <2>2, CutNothing
  <2>4. r = mem
    BY <1>2, <1>3
  <2>5. Erased(mem, mem, T, t, s, s)
    BY ErasedSame
  <2>. HIDE DEF r
  <2>6. Erased(mem, r, T, t, s, Cut(s, a, e))
    BY <2>3, <2>4, <2>5
  <2>. QED
    BY <2>6 DEF r
<1>4. CASE first # last
  <2>1. a < Len(s)
    <3>. SUFFICES ASSUME ~(a < Len(s)) PROVE FALSE
      OBVIOUS
    <3>1. ~(e < Len(s))
      BY <1>1
    <3>. QED
      BY <1>4, <3>1 DEF Behind
  <2>2. first = s[a + 1]
    BY <2>1 DEF Behind
  <2>3. before = Place(t, s, a)
    <3>1. head = FrontBehind(mem, t, s, a)
      BY <2>2 DEF FrontBehind
    <3>2. FoundFrom(mem, t, s, a, head)
      <4>. HIDE DEF head, first, before, last, r, X, G, after, n
      <4>. QED
        BY <2>1, <3>1, RangeFront
    <3>. HIDE DEF head, first
    <3>. QED
      BY <2>2, <3>2 DEF NodeBefore, FoundFrom
  <2>. HIDE DEF before, r, last
  <2>4. Erasing(mem, mem, T, t, s, a, e, 0)
    <3>1. Erased(mem, mem, T, t, s, s)
      BY ErasedSame
    <3>2. Cut(s, a, a) = s /\ a \in a .. e /\ 0 <= a - a
      BY <1>1, CutNothing
    <3>. QED
      BY <3>1, <3>2 DEF Erasing
  <2>. HIDE DEF n
  <2>5. mem \in X[0]
    <3>1. 0 \in 0 .. n
      BY <1>1
    <3>. QED
      BY <2>4, <3>1
  <2>6. ASSUME NEW i \in 1 .. n, NEW acc \in X[i - 1] PROVE PartErased(acc, t, before, last) \in X[i]
    <3>1. i \in 0 .. n /\ i - 1 \in 0 .. n /\ i \in Nat \ {0}
      BY <1>1
    <3>2. Erasing(mem, acc, T, t, s, a, e, i - 1)
      BY <2>6, <3>1
    <3>. DEFINE u == PartErased(acc, t, before, last)
    <3>3. Erasing(mem, u, T, t, s, a, e, i)
      BY <2>3, <3>1, <3>2, EraseTurn DEF last
    <3>. HIDE DEF u
    <3>4. u \in Memories(T)
      BY <3>3 DEF Erasing, Erased, Becomes, Apart
    <3>5. u \in X[i]
      BY <3>1, <3>3, <3>4
    <3>. QED
      BY <3>5 DEF u
  <2>7. \A i \in 1 .. n : \A acc \in X[i - 1] : G[i][acc] = PartErased(acc, t, before, last)
    OBVIOUS
  <2>. HIDE DEF X, G
  <2>8. PICK f : /\ f = [i \in 0 .. n |-> IF i = 0 THEN mem ELSE G[i][f[i - 1]]]
                 /\ \A i \in 0 .. n : f[i] \in X[i]
    <3>1. \A i \in 1 .. n : \A acc \in X[i - 1] : G[i][acc] \in X[i]
      BY <2>6, <2>7
    <3>2. PICK f : RunsInside(f, n, X, G, mem)
      BY <1>1, <2>5, <3>1, LoopInside
    <3>. QED
      BY <3>2 DEF RunsInside
  <2>9. f = [i \in 0 .. n |-> IF i = 0 THEN mem ELSE PartErased(f[i - 1], t, before, last)]
    <3>1. ASSUME NEW i \in 0 .. n, i # 0 PROVE f[i] = PartErased(f[i - 1], t, before, last)
      <4>1. i \in 1 .. n /\ i - 1 \in 0 .. n
        BY <1>1, <3>1
      <4>2. f[i] = G[i][f[i - 1]] /\ f[i - 1] \in X[i - 1]
        BY <2>8, <3>1, <4>1
      <4>. QED
        BY <2>7, <4>1, <4>2
    <3>2. \A i \in 0 .. n : f[i] = IF i = 0 THEN mem ELSE PartErased(f[i - 1], t, before, last)
      BY <2>8, <3>1
    <3>3. f = [i \in 0 .. n |-> f[i]]
      BY <2>8
    <3>. QED
      BY <3>2, <3>3
  <2>10. after = [i \in 0 .. n |-> IF i = 0 THEN mem ELSE PartErased(after[i - 1], t, before, last)]
    BY <2>9
  <2>. HIDE DEF after
  <2>11. \A i \in 0 .. n : after[i] \in X[i]
    <3>1. after[0] = mem
      BY <1>1, <2>10
    <3>2. ASSUME NEW i \in 1 .. n, after[i - 1] \in X[i - 1] PROVE after[i] \in X[i]
      <4>1. i \in 0 .. n /\ i # 0
        BY <1>1
      <4>2. after[i] = PartErased(after[i - 1], t, before, last)
        BY <2>10, <4>1
      <4>. QED
        BY <2>6, <3>2, <4>2
    <3>. QED
      BY <1>1, <2>5, <3>1, <3>2, LoopStays
  <2>12. Erasing(mem, after[n], T, t, s, a, e, n)
    <3>1. n \in 0 .. n
      BY <1>1
    <3>. QED
      BY <2>11, <3>1 DEF X
  <2>13. r = after[n]
    BY <1>2, <1>4
  <2>14. PICK x \in a .. e : (n <= x - a \/ x = e) /\ Erased(mem, r, T, t, s, Cut(s, a, x))
    BY <2>12, <2>13 DEF Erasing
  <2>15. n = Len(s)
    BY DEF n, Held, Filed
  <2>16. x = e
    BY <1>1, <2>14, <2>15
  <2>17. Erased(mem, r, T, t, s, Cut(s, a, e))
    BY <2>14, <2>16
  <2>. QED
    BY <2>17 DEF r, last
<1>. QED
  BY <1>3, <1>4

\* The nodes of s with key k, and how many they are.
Bearing(mem, s, k) == {x \in ToSet(s) : mem.key[x] = k}
Bears(mem, s, k) == Cardinality(Bearing(mem, s, k))

\* The places with k among the first i of v.
Firsts(v, i, k) == {j \in 1 .. i : v[j] = k}

LEMMA BearsNat ==
    ASSUME NEW T, Heads(T), NEW mem \in Memories(T), NEW s, ToSet(s) \subseteq DOMAIN mem.key, NEW k
    PROVE  Bears(mem, s, k) \in Nat /\ IsFiniteSet(Bearing(mem, s, k))
<1>1. IsFiniteSet(DOMAIN mem.key) /\ Bearing(mem, s, k) \subseteq DOMAIN mem.key
  BY MemoryHas DEF Bearing
<1>. QED
  BY <1>1, FS_Subset, FS_CardinalityType DEF Bears

LEMMA FirstsNat ==
    ASSUME NEW v, NEW i \in Nat, NEW k
    PROVE  Cardinality(Firsts(v, i, k)) \in Nat /\ IsFiniteSet(Firsts(v, i, k))
<1>1. IsFiniteSet(1 .. i) /\ Firsts(v, i, k) \subseteq 1 .. i
  BY FS_Interval DEF Firsts
<1>. QED
  BY <1>1, FS_Subset, FS_CardinalityType

LEMMA FirstsMore ==
    ASSUME NEW v, NEW i \in Nat \ {0}, NEW k
    PROVE  Cardinality(Firsts(v, i, k)) = Cardinality(Firsts(v, i - 1, k)) + IF v[i] = k THEN 1 ELSE 0
<1>. DEFINE A == Firsts(v, i - 1, k)
            B == Firsts(v, i, k)
<1>1. i - 1 \in Nat /\ 1 .. i = (1 .. i - 1) \cup {i} /\ i \notin 1 .. i - 1
  OBVIOUS
<1>2. IsFiniteSet(A) /\ Cardinality(A) \in Nat /\ i \notin A
  <2>1. i \notin A
    BY <1>1 DEF Firsts
  <2>. QED
    BY <1>1, <2>1, FirstsNat
<1>3. CASE v[i] = k
  <2>1. B = A \cup {i}
    BY <1>1, <1>3 DEF Firsts
  <2>. HIDE DEF A, B
  <2>2. Cardinality(B) = Cardinality(A) + 1
    BY <1>2, <2>1, FS_AddElement
  <2>. QED
    BY <1>3, <2>2 DEF A, B
<1>4. CASE v[i] # k
  <2>1. B = A
    BY <1>1, <1>4 DEF Firsts
  <2>. HIDE DEF A, B
  <2>2. Cardinality(B) = Cardinality(A) + 0
    BY <1>2, <2>1
  <2>. QED
    BY <1>4, <2>2 DEF A, B
<1>. QED
  BY <1>3, <1>4

\* As many of each key, but one more of k.
OneMore(mem, r, s, q, k) == \A x \in Keys : Bears(r, q, x) = Bears(mem, s, x) + IF x = k THEN 1 ELSE 0

\* What is in a table behind which the memory has as many, or one more, nodes.
NodesWith(mem, r, s, q, n) == ToSet(q) = ToSet(s) \cup {n} /\ \A x \in ToSet(s) : r.key[x] = mem.key[x]

LEMMA KeyAdded ==
    ASSUME NEW T, Heads(T), NEW mem \in Memories(T), NEW t \in T, NEW s, NEW k, NEW r, NEW n, n \notin DOMAIN mem.key,
           KeysWith(mem, r, n, k), NEW q, Becomes(mem, r, T, t, s, q)
    PROVE  NodesWith(mem, r, s, q, n) /\ OneMore(mem, r, s, q, k)
<1>. DEFINE A == ToSet(s)
            B == ToSet(q)
            D == DOMAIN mem.key
<1>1. /\ A \subseteq D /\ DOMAIN r.key = (D \ A) \cup B /\ B \cap D \subseteq A
      /\ DOMAIN r.key = D \cup {n} /\ r.key[n] = k /\ \A x \in D : r.key[x] = mem.key[x]
  BY DEF Becomes, Apart, KeysWith
<1>. HIDE DEF A, B, D
<1>2. B = A \cup {n} /\ n \notin A
  BY <1>1 DEF D
<1>3. ASSUME NEW x \in Keys PROVE Bears(r, q, x) = Bears(mem, s, x) + IF x = k THEN 1 ELSE 0
  <2>. DEFINE F == Bearing(mem, s, x)
              G == Bearing(r, q, x)
  <2>1. IsFiniteSet(F) /\ Cardinality(F) \in Nat
    <3>1. ToSet(s) \subseteq DOMAIN mem.key
      BY <1>1 DEF A, D
    <3>. QED
      BY <3>1, BearsNat DEF Bears
  <2>2. F = {y \in A : mem.key[y] = x} /\ G = {y \in B : r.key[y] = x}
    BY DEF Bearing, A, B
  <2>. HIDE DEF F, G
  <2>3. n \notin F
    BY <1>2, <2>2
  <2>4. CASE x = k
    <3>1. G = F \cup {n}
      BY <1>1, <1>2, <2>2, <2>4
    <3>2. Cardinality(G) = Cardinality(F) + 1
      BY <2>1, <2>3, <3>1, FS_AddElement
    <3>. QED
      BY <2>4, <3>2 DEF Bears, F, G
  <2>5. CASE x # k
    <3>1. G = F
      BY <1>1, <1>2, <2>2, <2>5
    <3>2. Cardinality(G) = Cardinality(F) + 0
      BY <2>1, <3>1
    <3>. QED
      BY <2>5, <3>2 DEF Bears, F, G
  <2>. QED
    BY <2>4, <2>5
<1>4. NodesWith(mem, r, s, q, n)
  BY <1>1, <1>2 DEF NodesWith, A, B
<1>5. OneMore(mem, r, s, q, k)
  BY <1>3 DEF OneMore
<1>. QED
  BY <1>4, <1>5

\* Of each key as many more as the first i of v say.
Filled(mem, acc, s, q, v, i) ==
    \A k \in Keys : Bears(acc, q, k) = Bears(mem, s, k) + Cardinality(Firsts(v, i, k))

\* The first i of v are inserted: at most i nodes more, all of them in table t.
Growing(mem, acc, T, t, s, v, i, unique) ==
    /\ \E q : Becomes(mem, acc, T, t, s, q) /\ (unique \/ Filled(mem, acc, s, q, v, i))
    /\ Cardinality(DOMAIN acc.key) \in 0 .. Cardinality(DOMAIN mem.key) + i
    /\ Light(acc, t)

LEMMA FilledMore ==
    ASSUME NEW T, Heads(T), NEW mem \in Memories(T), NEW acc, NEW r, NEW s, NEW q, NEW w, NEW v, NEW i \in Nat \ {0},
           ToSet(s) \subseteq DOMAIN mem.key, Filled(mem, acc, s, q, v, i - 1), OneMore(acc, r, q, w, v[i])
    PROVE  Filled(mem, r, s, w, v, i)
<1>. SUFFICES ASSUME NEW k \in Keys PROVE Bears(r, w, k) = Bears(mem, s, k) + Cardinality(Firsts(v, i, k))
  BY DEF Filled
<1>. DEFINE a == Bears(mem, s, k)
            b == Cardinality(Firsts(v, i - 1, k))
            c == Cardinality(Firsts(v, i, k))
            one == IF v[i] = k THEN 1 ELSE 0
<1>1. a \in Nat
  BY BearsNat
<1>2. b \in Nat /\ i - 1 \in Nat
  BY FirstsNat
<1>3. Bears(acc, q, k) = a + b
  BY DEF Filled
<1>4. Bears(r, w, k) = Bears(acc, q, k) + one
  BY DEF OneMore
<1>5. c = b + one
  BY FirstsMore
<1>. HIDE DEF a, b, c
<1>6. Bears(r, w, k) = a + c
  BY <1>1, <1>2, <1>3, <1>4, <1>5
<1>. QED
  BY <1>6 DEF a, c

LEMMA InsertTurn ==
    ASSUME NEW T, Heads(T), NEW mem \in Memories(T), NEW t \in T, NEW s, ToSet(s) \subseteq DOMAIN mem.key,
           NEW i \in Nat \ {0}, NEW v, v[i] \in Keys, NEW unique \in BOOLEAN,
           NEW acc, Growing(mem, acc, T, t, s, v, i - 1, unique),
           Cardinality(DOMAIN mem.key) + i <= Cardinality(Nodes)
    PROVE  Growing(mem, insert(acc, t, unique, Null, v[i]), T, t, s, v, i, unique)
<1>. DEFINE k == v[i]
            r == insert(acc, t, unique, Null, k)
            c == Cardinality(DOMAIN mem.key)
            d == Cardinality(DOMAIN acc.key)
<1>1. PICK q : Becomes(mem, acc, T, t, s, q) /\ (unique \/ Filled(mem, acc, s, q, v, i - 1))
  BY DEF Growing
<1>2. acc \in Memories(T) /\ Held(acc, t, q, FALSE)
  BY <1>1 DEF Becomes, Apart
<1>3. c \in Nat /\ Cardinality(Nodes) \in Nat /\ IsFiniteSet(DOMAIN acc.key)
  <2>1. IsFiniteSet(DOMAIN mem.key)
    BY MemoryHas
  <2>2. IsFiniteSet(DOMAIN acc.key)
    BY <1>2, MemoryHas
  <2>. QED
    BY <2>1, <2>2, FS_CardinalityType, TableAssumption
<1>4. d \in 0 .. c + (i - 1)
  BY DEF Growing
<1>5. Roomy(acc)
  <2>. HIDE DEF c, d
  <2>1. d < Cardinality(Nodes)
    BY <1>3, <1>4 DEF c
  <2>. QED
    BY <2>1 DEF Roomy, d
<1>6. (unique /\ r = acc) \/ AddsKey(acc, r, T, t, q, k)
  <2>1. \/ unique /\ ~Missing(acc, q, k) /\ insert(acc, t, unique, Null, k) = acc
        \/ (unique => Missing(acc, q, k)) /\ AddsKey(acc, insert(acc, t, unique, Null, k), T, t, q, k)
    <3>1. k \in Keys
      OBVIOUS
    <3>. HIDE DEF k
    <3>. QED
      BY <1>2, <1>5, <3>1, InsertIs
  <2>. QED
    BY <2>1
<1>. HIDE DEF r
<1>7. CASE unique /\ r = acc
  <2>1. d \in 0 .. c + i
    BY <1>3, <1>4
  <2>2. Light(r, t)
    BY <1>7 DEF Growing
  <2>3. Becomes(mem, r, T, t, s, q) /\ unique
    BY <1>1, <1>7
  <2>4. Cardinality(DOMAIN r.key) \in 0 .. c + i
    BY <1>7, <2>1
  <2>. QED
    BY <2>2, <2>3, <2>4 DEF Growing, r
<1>8. CASE AddsKey(acc, r, T, t, q, k)
  <2>. DEFINE n == Fresh(acc, Nodes)
  <2>1. n \notin DOMAIN acc.key /\ KeysWith(acc, r, n, k) /\ (\E w : Becomes(acc, r, T, t, q, w)) /\ Light(r, t)
    BY <1>8 DEF AddsKey
  <2>. HIDE DEF n
  <2>2. PICK w : Becomes(acc, r, T, t, q, w)
    BY <2>1
  <2>3. Becomes(mem, r, T, t, s, w)
    BY <1>1, <2>2, BecomesTwice
  <2>4. DOMAIN r.key = DOMAIN acc.key \cup {n}
    BY <2>1 DEF KeysWith
  <2>5. Cardinality(DOMAIN r.key) = d + 1
    BY <1>3, <2>1, <2>4, FS_AddElement
  <2>6. Cardinality(DOMAIN r.key) \in 0 .. c + i
    BY <1>3, <1>4, <2>5
  <2>7. OneMore(acc, r, q, w, k)
    BY <1>2, <2>1, <2>2, KeyAdded
  <2>8. unique \/ Filled(mem, r, s, w, v, i)
    BY <1>1, <2>7, FilledMore
  <2>. QED
    BY <2>1, <2>3, <2>6, <2>8 DEF Growing, r
<1>. QED
  BY <1>6, <1>7, <1>8

\* What insert_range makes of table t: the elements of v more.
RangeAdded(mem, r, T, t, s, v, unique) ==
    \E q : Becomes(mem, r, T, t, s, q) /\ (unique \/ Filled(mem, r, s, q, v, Len(v))) /\ Light(r, t)

LEMMA InsertRangeIs ==
    ASSUME NEW T, Heads(T), NEW mem \in Memories(T), NEW t \in T, NEW s, Held(mem, t, s, FALSE),
           NEW v \in Seq(Keys), Cardinality(DOMAIN mem.key) + Len(v) <= Cardinality(Nodes), NEW unique \in BOOLEAN
    PROVE  RangeAdded(mem, insert_range(mem, t, unique, v), T, t, s, v, unique)
<1>. DEFINE n == Len(v)
            x0 == rehash(mem, t, mem.size[t] + n)
            r == insert_range(mem, t, unique, v)
            Enter(acc, i) == insert(acc, t, unique, Null, v[i])
            X == [i \in 0 .. n |-> {acc \in Memories(T) : Growing(mem, acc, T, t, s, v, i, unique)}]
            G == [i \in 1 .. n |-> [acc \in X[i - 1] |-> Enter(acc, i)]]
            after == CHOOSE f : f = [i \in 0 .. n |-> IF i = 0 THEN x0 ELSE Enter(f[i - 1], i)]
<1>1. n \in Nat /\ mem.size[t] \in Nat /\ \A i \in 1 .. n : v[i] \in Keys
  BY DEF Held, Filed, ChainIs
<1>s. ToSet(s) \subseteq DOMAIN mem.key
  <2>1. s \in Seq(DOMAIN mem.key)
    BY DEF Held, Filed, ChainIs
  <2>. QED
    BY <2>1, ElementsOf
<1>2. r = after[n]
  BY DEF insert_range, Loop
<1>. HIDE DEF r
<1>3. Growing(mem, x0, T, t, s, v, 0, unique)
  <2>1. mem.size[t] + n \in Nat
    BY <1>1
  <2>2. (\E q : Rehashed(mem, x0, T, t, s, q)) /\ Widened(mem, x0, t, mem.size[t] + n)
    BY <2>1, RehashIs
  <2>. HIDE DEF x0
  <2>3. PICK q : Rehashed(mem, x0, T, t, s, q)
    BY <2>2
  <2>4. Cardinality(DOMAIN mem.key) \in Nat
    BY MemoryHas, FS_CardinalityType
  <2>5. Cardinality(DOMAIN x0.key) \in 0 .. Cardinality(DOMAIN mem.key) + 0
    BY <2>3, <2>4 DEF Rehashed
  <2>6. Becomes(mem, x0, T, t, s, q) /\ x0.key = mem.key /\ ToSet(q) = ToSet(s) /\ Len(q) = Len(s)
    BY <2>3 DEF Rehashed
  <2>7. x0 \in Memories(T) /\ x0.size[t] = Len(q) /\ mem.size[t] = Len(s)
    BY <2>6 DEF Becomes, Apart, Held, Filed
  <2>8. Light(x0, t)
    <3>1. bucket_count(x0, t) \in Nat
      BY <2>7, BucketIn
    <3>2. 4 * (mem.size[t] + n) <= 3 * bucket_count(x0, t)
      BY <2>2 DEF Widened
    <3>3. x0.size[t] = mem.size[t]
      BY <2>6, <2>7
    <3>. HIDE DEF n
    <3>4. n \in Nat
      BY <1>1 DEF n
    <3>. QED
      BY <1>1, <3>1, <3>2, <3>3, <3>4 DEF Light
  <2>9. Filled(mem, x0, s, q, v, 0)
    <3>1. ASSUME NEW k \in Keys PROVE Bears(x0, q, k) = Bears(mem, s, k) + Cardinality(Firsts(v, 0, k))
      <4>1. Bears(x0, q, k) = Bears(mem, s, k)
        BY <2>6 DEF Bears, Bearing
      <4>2. Bears(mem, s, k) \in Nat
        BY <1>s, BearsNat
      <4>3. Firsts(v, 0, k) = {}
        BY DEF Firsts
      <4>4. Cardinality(Firsts(v, 0, k)) = 0
        BY <4>3, FS_EmptySet
      <4>. QED
        BY <4>1, <4>2, <4>4
    <3>. QED
      BY <3>1 DEF Filled
  <2>. QED
    BY <2>5, <2>6, <2>8, <2>9 DEF Growing
<1>4. x0 \in Memories(T)
  <2>. HIDE DEF x0
  <2>. QED
    BY <1>3 DEF Growing, Becomes, Apart
<1>. HIDE DEF x0
<1>5. x0 \in X[0]
  <2>1. 0 \in 0 .. n
    BY <1>1
  <2>. QED
    BY <1>3, <1>4, <2>1
<1>6. ASSUME NEW i \in 1 .. n, NEW acc \in X[i - 1] PROVE Enter(acc, i) \in X[i]
  <2>1. i \in 0 .. n /\ i - 1 \in 0 .. n /\ i \in Nat \ {0} /\ i <= n
    BY <1>1
  <2>2. Growing(mem, acc, T, t, s, v, i - 1, unique)
    BY <1>6, <2>1
  <2>3. Cardinality(DOMAIN mem.key) \in Nat /\ Cardinality(Nodes) \in Nat
    BY MemoryHas, FS_CardinalityType, TableAssumption
  <2>4. Cardinality(DOMAIN mem.key) + i <= Cardinality(Nodes)
    BY <1>1, <2>1, <2>3
  <2>5. v[i] \in Keys
    BY <1>1
  <2>. DEFINE u == Enter(acc, i)
  <2>6. Growing(mem, u, T, t, s, v, i, unique)
    BY <1>s, <2>1, <2>2, <2>4, <2>5, InsertTurn
  <2>. HIDE DEF u
  <2>7. u \in Memories(T)
    BY <2>6 DEF Growing, Becomes, Apart
  <2>8. u \in X[i]
    BY <2>1, <2>6, <2>7
  <2>. QED
    BY <2>8 DEF u
<1>7. \A i \in 1 .. n : \A acc \in X[i - 1] : G[i][acc] = Enter(acc, i)
  OBVIOUS
<1>. HIDE DEF X, G, Enter
<1>8. PICK f : /\ f = [i \in 0 .. n |-> IF i = 0 THEN x0 ELSE G[i][f[i - 1]]]
               /\ \A i \in 0 .. n : f[i] \in X[i]
  <2>1. \A i \in 1 .. n : \A acc \in X[i - 1] : G[i][acc] \in X[i]
    BY <1>6, <1>7
  <2>. HIDE DEF n
  <2>2. PICK f : RunsInside(f, n, X, G, x0)
    BY <1>1, <1>5, <2>1, LoopInside
  <2>. QED
    BY <2>2 DEF RunsInside
<1>9. f = [i \in 0 .. n |-> IF i = 0 THEN x0 ELSE Enter(f[i - 1], i)]
  <2>1. ASSUME NEW i \in 0 .. n, i # 0 PROVE f[i] = Enter(f[i - 1], i)
    <3>1. i \in 1 .. n /\ i - 1 \in 0 .. n
      BY <1>1, <2>1
    <3>2. f[i] = G[i][f[i - 1]] /\ f[i - 1] \in X[i - 1]
      BY <1>8, <2>1, <3>1
    <3>. QED
      BY <1>7, <3>1, <3>2
  <2>2. \A i \in 0 .. n : f[i] = IF i = 0 THEN x0 ELSE Enter(f[i - 1], i)
    BY <1>8, <2>1
  <2>3. f = [i \in 0 .. n |-> f[i]]
    BY <1>8
  <2>. QED
    BY <2>2, <2>3
<1>10. after = [i \in 0 .. n |-> IF i = 0 THEN x0 ELSE Enter(after[i - 1], i)]
  BY <1>9
<1>. HIDE DEF after
<1>11. \A i \in 0 .. n : after[i] \in X[i]
  <2>1. after[0] = x0
    BY <1>1, <1>10
  <2>2. ASSUME NEW i \in 1 .. n, after[i - 1] \in X[i - 1] PROVE after[i] \in X[i]
    <3>1. i \in 0 .. n /\ i # 0
      BY <1>1
    <3>2. after[i] = Enter(after[i - 1], i)
      BY <1>10, <3>1
    <3>. QED
      BY <1>6, <2>2, <3>2
  <2>. QED
    BY <1>1, <1>5, <2>1, <2>2, LoopStays
<1>12. Growing(mem, after[n], T, t, s, v, n, unique)
  <2>1. n \in 0 .. n
    BY <1>1
  <2>. QED
    BY <1>11, <2>1 DEF X
<1>13. RangeAdded(mem, r, T, t, s, v, unique)
  BY <1>2, <1>12 DEF Growing, RangeAdded
<1>. QED
  BY <1>13 DEF r

\* Table t is empty again: all its nodes are deleted, its buckets stay.
LEMMA ReleaseIs ==
    ASSUME NEW T, Heads(T), NEW mem \in Memories(T), NEW t \in T, NEW s, NEW stale, Held(mem, t, s, stale)
    PROVE  /\ Becomes(mem, release(mem, t), T, t, s, <<>>)
           /\ DOMAIN release(mem, t).key = DOMAIN mem.key \ ToSet(s)
<1>. DEFINE r == release(mem, t)
            gone == ToSet(s)
            next == [x \in DOMAIN mem.next \ gone |-> IF x = t THEN Null ELSE mem.next[x]]
            key == [x \in DOMAIN mem.key \ gone |-> mem.key[x]]
            bks == [b \in DOMAIN mem.buckets[t] |-> NoBucket]
            buckets == [mem.buckets EXCEPT ![t] = bks]
            size == [mem.size EXCEPT ![t] = 0]
<1>1. ChainIs(mem, t, s) /\ s \in Seq(DOMAIN mem.key)
  BY DEF Held, Filed, ChainIs
<1>2. gone \subseteq DOMAIN mem.key
  BY <1>1, ElementsOf
<1>3. /\ DOMAIN mem.key \subseteq Nodes /\ mem.key \in [DOMAIN mem.key -> Keys]
      /\ mem.next \in [T \cup DOMAIN mem.key -> Nodes \cup {Null}]
      /\ mem.size \in [T -> Nat] /\ mem.buckets \in [T -> Arrays(T)]
  BY MemoryHas
<1>4. T \cap Nodes = {}
  BY DEF Heads
<1>5. NodesOf(mem, t) = s
  BY <1>1, NodesOfIs
<1>6. Forget(mem.key, gone) = key
  <2>. HIDE DEF gone
  <2>1. DOMAIN mem.key \ (DOMAIN mem.key \cap gone) = DOMAIN mem.key \ gone
    OBVIOUS
  <2>. QED
    BY <2>1 DEF Forget, Restrict
<1>7. mem = [next |-> mem.next, key |-> mem.key, size |-> mem.size, buckets |-> mem.buckets]
  BY FieldsOf
<1>8. r \in [next : {next}, key : {key}, size : {size}, buckets : {buckets}]
  <2>1. r = [mem EXCEPT !.next = next, !.key = Forget(@, gone), !.buckets[t] = bks, !.size[t] = 0]
    BY <1>5 DEF release
  <2>2. r = [mem EXCEPT !.next = next, !.key = key, !.buckets[t] = bks, !.size[t] = 0]
    BY <1>6, <2>1
  <2>. HIDE DEF r, next, key, bks
  <2>. QED
    BY <1>7, <2>2
<1>. HIDE DEF r
<1>9. r = [next |-> next, key |-> key, size |-> size, buckets |-> buckets]
  <2>. HIDE DEF next, key, size, buckets
  <2>. QED
    BY <1>8
<1>10. r.next = next /\ r.key = key /\ r.size = size /\ r.buckets = buckets
  BY <1>9
<1>11. r = [next |-> r.next, key |-> r.key, size |-> r.size, buckets |-> r.buckets]
  BY <1>9, <1>10
<1>12. AllEmpty(T, bks)
  <2>1. mem.buckets[t] \in Arrays(T)
    BY <1>3
  <2>2. PICK n \in Nat \ {0} : mem.buckets[t] \in [0 .. n - 1 -> BucketRecords(T)]
    BY <2>1 DEF Arrays
  <2>3. NoBucket \in BucketRecords(T)
    BY DEF NoBucket, BucketRecords
  <2>4. bks \in [0 .. n - 1 -> BucketRecords(T)]
    BY <2>2, <2>3
  <2>5. bks \in Arrays(T)
    BY <2>4 DEF Arrays
  <2>. QED
    BY <2>5 DEF AllEmpty
<1>13. r \in Memories(T)
  <2>1. r.size \in [T -> Nat] /\ r.buckets \in [T -> Arrays(T)]
    BY <1>3, <1>10, <1>12 DEF AllEmpty
  <2>2. DOMAIN r.key = DOMAIN mem.key \ gone /\ r.key \in [DOMAIN r.key -> Keys] /\ DOMAIN r.key \subseteq Nodes
    BY <1>3, <1>10
  <2>3. r.next \in [T \cup DOMAIN r.key -> Nodes \cup {Null}]
    <3>1. DOMAIN mem.next \ gone = T \cup DOMAIN r.key
      BY <1>2, <1>3, <1>4, <2>2
    <3>. HIDE DEF gone
    <3>. QED
      BY <1>3, <1>10, <3>1
  <2>. QED
    BY <1>11, <2>1, <2>2, <2>3, MemoryIs
<1>14. Held(r, t, <<>>, FALSE)
  <2>1. r.size[t] = 0 /\ r.buckets[t] = bks
    BY <1>3, <1>10
  <2>2. r.next[t] = Null
    <3>1. t \in DOMAIN mem.next \ gone
      BY <1>2, <1>3, <1>4
    <3>. QED
      BY <1>10, <3>1
  <2>. HIDE DEF bks
  <2>. QED
    BY <1>12, <2>1, <2>2, EmptyHeld
<1>15. DOMAIN r.key = DOMAIN mem.key \ gone
  BY <1>10
<1>16. Apart(mem, r, T, t, gone, {})
  <2>1. ASSUME NEW o \in T \ {t} PROVE r.size[o] = mem.size[o] /\ r.buckets[o] = mem.buckets[o] /\ r.next[o] = mem.next[o]
    <3>1. o \in DOMAIN mem.next \ gone /\ o # t
      BY <1>2, <1>3, <1>4
    <3>2. r.next[o] = mem.next[o]
      BY <1>10, <3>1
    <3>. QED
      BY <1>3, <1>10, <3>1, <3>2
  <2>2. ASSUME NEW x \in DOMAIN mem.key \ gone PROVE r.key[x] = mem.key[x] /\ r.next[x] = mem.next[x]
    <3>1. x \in DOMAIN mem.next \ gone /\ x # t
      BY <1>3, <1>4
    <3>. QED
      BY <1>10, <3>1
  <2>. HIDE DEF gone
  <2>. QED
    BY <1>2, <1>13, <1>15, <2>1, <2>2 DEF Apart
<1>17. ToSet(<<>>) = {}
  BY DEF ToSet
<1>. HIDE DEF gone
<1>18. Becomes(mem, r, T, t, s, <<>>)
  BY <1>14, <1>16, <1>17 DEF Becomes, gone
<1>. QED
  BY <1>15, <1>18 DEF r, gone

\* An empty table gets other buckets.
LEMMA EmptiedBecomes ==
    ASSUME NEW T, Heads(T), NEW mem \in Memories(T), NEW t \in T, Held(mem, t, <<>>, FALSE),
           NEW bks, AllEmpty(T, bks)
    PROVE  Becomes(mem, Emptied(mem, t, bks), T, t, <<>>, <<>>)
<1>. DEFINE r == Emptied(mem, t, bks)
<1>1. r \in Memories(T) /\ EmptiedIs(mem, r, T, t) /\ Held(r, t, <<>>, FALSE)
  BY EmptiedTable
<1>2. mem.next \in [T \cup DOMAIN mem.key -> Nodes \cup {Null}] /\ DOMAIN mem.key \subseteq Nodes /\ T \cap Nodes = {}
  BY MemoryHas DEF Heads
<1>. HIDE DEF r
<1>3. ToSet(<<>>) = {}
  BY DEF ToSet
<1>4. \A x \in T \cup DOMAIN mem.key : x # t => r.next[x] = mem.next[x]
  BY <1>1, <1>2 DEF EmptiedIs
<1>5. Apart(mem, r, T, t, {}, {})
  BY <1>1, <1>2, <1>4 DEF Apart, EmptiedIs
<1>. QED
  BY <1>1, <1>3, <1>5 DEF Becomes, r

\* The keys of a table, in the order of its nodes.
LEMMA KeysOfIs ==
    ASSUME NEW T, Heads(T), NEW mem \in Memories(T), NEW o \in T, NEW so, NEW stale, Held(mem, o, so, stale)
    PROVE  KeysOf(mem, o) \in Seq(Keys) /\ Len(KeysOf(mem, o)) = mem.size[o] /\ mem.size[o] = Len(so) /\ Len(so) \in Nat
<1>1. ChainIs(mem, o, so) /\ so \in Seq(DOMAIN mem.key) /\ mem.size[o] = Len(so)
  BY DEF Held, Filed, ChainIs
<1>2. Len(so) \in Nat /\ DOMAIN so = 1 .. Len(so) /\ \A i \in 1 .. Len(so) : so[i] \in DOMAIN mem.key
  BY <1>1
<1>3. NodesOf(mem, o) = so
  BY <1>1, NodesOfIs
<1>4. mem.key \in [DOMAIN mem.key -> Keys]
  BY MemoryHas
<1>. DEFINE n == Len(so)
<1>5. KeysOf(mem, o) = [i \in 1 .. n |-> mem.key[so[i]]]
  BY <1>2, <1>3 DEF KeysOf
<1>6. \A i \in 1 .. n : mem.key[so[i]] \in Keys
  BY <1>2, <1>4
<1>. HIDE DEF n
<1>7. n \in Nat
  BY <1>2 DEF n
<1>8. KeysOf(mem, o) \in [1 .. n -> Keys]
  BY <1>5, <1>6
<1>9. KeysOf(mem, o) \in Seq(Keys) /\ Len(KeysOf(mem, o)) = n
  <2>. DEFINE w == KeysOf(mem, o)
  <2>1. w \in [1 .. n -> Keys]
    BY <1>8
  <2>. HIDE DEF w
  <2>2. w \in Seq(Keys) /\ Len(w) = n
    BY <1>7, <2>1
  <2>. QED
    BY <2>2 DEF w
<1>. QED
  BY <1>1, <1>2, <1>9 DEF n

\* Deleting nodes leaves no more than there were.
LEMMA FewerNodes ==
    ASSUME NEW T, Heads(T), NEW mem \in Memories(T), NEW r, NEW S, DOMAIN r.key = DOMAIN mem.key \ S
    PROVE  Cardinality(DOMAIN r.key) \in 0 .. Cardinality(DOMAIN mem.key)
<1>1. IsFiniteSet(DOMAIN mem.key)
  BY MemoryHas
<1>2. DOMAIN r.key \subseteq DOMAIN mem.key
  OBVIOUS
<1>3. IsFiniteSet(DOMAIN r.key) /\ Cardinality(DOMAIN r.key) <= Cardinality(DOMAIN mem.key)
  BY <1>1, <1>2, FS_Subset
<1>4. Cardinality(DOMAIN r.key) \in Nat /\ Cardinality(DOMAIN mem.key) \in Nat
  BY <1>1, <1>3, FS_CardinalityType
<1>. QED
  BY <1>3, <1>4

\* An empty table is light.
LEMMA EmptyLight ==
    ASSUME NEW T, Heads(T), NEW r \in Memories(T), NEW t \in T, NEW stale, Held(r, t, <<>>, stale)
    PROVE  Light(r, t)
<1>1. r.size[t] = 0
  BY DEF Held, Filed
<1>2. bucket_count(r, t) \in Nat
  BY BucketIn
<1>. QED
  BY <1>1, <1>2 DEF Light

\* Table t was s, and has the elements of v.
Refilled(mem, r, T, t, s, v, unique) ==
    \E w : Becomes(mem, r, T, t, s, w) /\ (unique \/ \A k \in Keys : Bears(r, w, k) = Amount(v, k)) /\ Light(r, t)

\* What assign and assign_list do: the table is emptied, given its buckets, and filled.
LEMMA RefillIs ==
    ASSUME NEW T, Heads(T), NEW mem \in Memories(T), NEW t \in T, NEW s, NEW stale, Held(mem, t, s, stale),
           NEW v \in Seq(Keys), Cardinality(DOMAIN mem.key) + Len(v) <= Cardinality(Nodes), NEW unique \in BOOLEAN,
           NEW x, NEW q, Becomes(release(mem, t), x, T, t, <<>>, q), x.key = release(mem, t).key
    PROVE  Refilled(mem, insert_range(x, t, unique, v), T, t, s, v, unique)
<1>. DEFINE u == release(mem, t)
<1>1. Becomes(mem, u, T, t, s, <<>>) /\ DOMAIN u.key = DOMAIN mem.key \ ToSet(s)
  BY ReleaseIs
<1>2. Cardinality(DOMAIN u.key) \in 0 .. Cardinality(DOMAIN mem.key)
  BY <1>1, FewerNodes
<1>3. Becomes(mem, x, T, t, s, q)
  BY <1>1, BecomesTwice
<1>4. x \in Memories(T) /\ Held(x, t, q, FALSE)
  BY <1>3 DEF Becomes, Apart
<1>5. Cardinality(DOMAIN x.key) + Len(v) <= Cardinality(Nodes)
  <2>1. x.key = u.key
    OBVIOUS
  <2>2. IsFiniteSet(DOMAIN mem.key)
    BY MemoryHas
  <2>3. Cardinality(DOMAIN mem.key) \in Nat /\ Cardinality(Nodes) \in Nat /\ Len(v) \in Nat
    BY <2>2, FS_CardinalityType, TableAssumption
  <2>. HIDE DEF u
  <2>4. Cardinality(DOMAIN x.key) \in 0 .. Cardinality(DOMAIN mem.key)
    BY <1>2, <2>1
  <2>. QED
    BY <2>3, <2>4
<1>6. RangeAdded(x, insert_range(x, t, unique, v), T, t, q, v, unique)
  BY <1>4, <1>5, InsertRangeIs
<1>. DEFINE r == insert_range(x, t, unique, v)
<1>. HIDE DEF r, u
<1>7. PICK w : Becomes(x, r, T, t, q, w) /\ (unique \/ Filled(x, r, q, w, v, Len(v))) /\ Light(r, t)
  BY <1>6 DEF RangeAdded, r
<1>8. Becomes(mem, r, T, t, s, w)
  BY <1>3, <1>7, BecomesTwice
<1>9. ToSet(q) = {}
  <2>1. ToSet(<<>>) = {}
    BY DEF ToSet
  <2>2. x.key = u.key /\ Becomes(u, x, T, t, <<>>, q)
    BY DEF u
  <2>. QED
    BY <2>1, <2>2 DEF Becomes, Apart
<1>10. ASSUME NEW k \in Keys, ~unique PROVE Bears(r, w, k) = Amount(v, k)
  <2>1. Bearing(x, q, k) = {}
    BY <1>9 DEF Bearing
  <2>2. Bears(x, q, k) = 0
    BY <2>1, FS_EmptySet DEF Bears
  <2>3. Cardinality(Firsts(v, Len(v), k)) \in Nat
    BY FirstsNat
  <2>4. Amount(v, k) = Cardinality(Firsts(v, Len(v), k))
    <3>1. DOMAIN v = 1 .. Len(v)
      OBVIOUS
    <3>. QED
      BY <3>1 DEF Amount, Firsts
  <2>5. Bears(r, w, k) = Bears(x, q, k) + Cardinality(Firsts(v, Len(v), k))
    BY <1>7, <1>10 DEF Filled
  <2>. QED
    BY <2>2, <2>3, <2>4, <2>5
<1>11. Refilled(mem, r, T, t, s, v, unique)
  BY <1>7, <1>8, <1>10 DEF Refilled
<1>. QED
  BY <1>11 DEF r

LEMMA AssignListIs ==
    ASSUME NEW T, Heads(T), NEW mem \in Memories(T), NEW t \in T, NEW s, NEW stale, Held(mem, t, s, stale),
           NEW v \in Seq(Keys), Cardinality(DOMAIN mem.key) + Len(v) <= Cardinality(Nodes), NEW unique \in BOOLEAN,
           NEW count \in Nat
    PROVE  Refilled(mem, insert_range(rehash(release(mem, t), t, count), t, unique, v), T, t, s, v, unique)
<1>. DEFINE u == release(mem, t)
            x == rehash(u, t, count)
<1>1. Becomes(mem, u, T, t, s, <<>>)
  BY ReleaseIs
<1>2. u \in Memories(T) /\ Held(u, t, <<>>, FALSE)
  BY <1>1 DEF Becomes, Apart
<1>. HIDE DEF u
<1>3. PICK q : Rehashed(u, x, T, t, <<>>, q)
  BY <1>2, RehashIs
<1>. HIDE DEF x
<1>4. Becomes(u, x, T, t, <<>>, q) /\ x.key = u.key
  BY <1>3 DEF Rehashed
<1>5. Refilled(mem, insert_range(x, t, unique, v), T, t, s, v, unique)
  BY <1>4, RefillIs DEF u
<1>. QED
  BY <1>5 DEF x, u

\* A copy construction fills buckets of the same number as those of the other table.
LEMMA CopyIs ==
    ASSUME NEW T, Heads(T), NEW mem \in Memories(T), NEW t \in T, NEW s, NEW stale, Held(mem, t, s, stale),
           NEW v \in Seq(Keys), Cardinality(DOMAIN mem.key) + Len(v) <= Cardinality(Nodes), NEW count \in Nat
    PROVE  Refilled(mem, insert_range([release(mem, t) EXCEPT !.buckets[t] = alloc_buckets(count)], t, FALSE, v),
                    T, t, s, v, FALSE)
<1>. DEFINE u == release(mem, t)
            bks == alloc_buckets(count)
            x == [u EXCEPT !.buckets[t] = bks]
            e == Emptied(u, t, bks)
<1>1. Becomes(mem, u, T, t, s, <<>>)
  BY ReleaseIs
<1>2. u \in Memories(T) /\ Held(u, t, <<>>, FALSE)
  BY <1>1 DEF Becomes, Apart
<1>3. AllEmpty(T, bks)
  BY AllocBucketsIs
<1>. HIDE DEF u, bks
<1>4. u.next[t] = Null /\ u.size[t] = 0
  <2>1. ChainIs(u, t, <<>>) /\ u.size[t] = Len(<<>>) /\ Len(<<>>) = 0
    BY <1>2 DEF Held, Filed
  <2>2. u.next[Place(t, <<>>, 0)] = Behind(<<>>, 0)
    BY <2>1 DEF ChainIs
  <2>. QED
    BY <2>1, <2>2 DEF Place, Behind
<1>5. u = [next |-> u.next, key |-> u.key, size |-> u.size, buckets |-> u.buckets]
  BY <1>2, FieldsOf
<1>6. u.next = [u.next EXCEPT ![t] = Null] /\ u.size = [u.size EXCEPT ![t] = 0]
  BY <1>2, <1>4, MemoryHas
<1>. DEFINE buckets == [u.buckets EXCEPT ![t] = bks]
<1>7. x = [next |-> u.next, key |-> u.key, size |-> u.size, buckets |-> buckets]
  <2>1. x \in [next : {u.next}, key : {u.key}, size : {u.size}, buckets : {buckets}]
    BY <1>5
  <2>. HIDE DEF x, buckets
  <2>. QED
    BY <2>1
<1>8. e = [next |-> u.next, key |-> u.key, size |-> u.size, buckets |-> buckets]
  <2>. DEFINE next == [u.next EXCEPT ![t] = Null]
              size == [u.size EXCEPT ![t] = 0]
  <2>1. e \in [next : {next}, key : {u.key}, size : {size}, buckets : {buckets}]
    BY <1>5 DEF Emptied
  <2>2. next = u.next /\ size = u.size
    BY <1>6
  <2>. HIDE DEF e, buckets, next, size
  <2>3. e \in [next : {u.next}, key : {u.key}, size : {u.size}, buckets : {buckets}]
    BY <2>1, <2>2
  <2>. QED
    BY <2>3
<1>9. x = e
  BY <1>7, <1>8
<1>. HIDE DEF x
<1>10. Becomes(u, e, T, t, <<>>, <<>>)
  BY <1>2, <1>3, EmptiedBecomes
<1>11. Becomes(u, x, T, t, <<>>, <<>>)
  BY <1>9, <1>10
<1>12. x.key = u.key
  BY <1>7
<1>13. Refilled(mem, insert_range(x, t, FALSE, v), T, t, s, v, FALSE)
  BY <1>11, <1>12, RefillIs DEF u
<1>. QED
  BY <1>13 DEF x, u, bks

\* As many elements as the chain is long.
LEMMA DistinctCount ==
    ASSUME NEW S, NEW s \in Seq(S), Distinct(s)
    PROVE  Cardinality(ToSet(s)) = Len(s)
<1>. DEFINE n == Len(s)
<1>1. n \in Nat /\ s \in [1 .. n -> S] /\ ToSet(s) = {s[i] : i \in 1 .. n}
  BY ElementsOf
<1>2. \A i, j \in 1 .. n : s[i] = s[j] => i = j
  BY DEF Distinct
<1>. HIDE DEF n
<1>3. s \in [1 .. n -> ToSet(s)]
  BY <1>1
<1>4. s \in Bijection(1 .. n, ToSet(s))
  <2>1. \A x \in ToSet(s) : \E i \in 1 .. n : s[i] = x
    BY <1>1
  <2>. QED
    BY <1>2, <1>3, <2>1 DEF Bijection, Injection, Surjection, IsInjective
<1>5. ExistsBijection(1 .. n, ToSet(s))
  BY <1>4 DEF ExistsBijection
<1>. QED
  BY <1>1, <1>5, FS_CountingElements DEF n

\* Erasing makes no table heavier.
LEMMA ErasedLight ==
    ASSUME NEW T, Heads(T), NEW mem \in Memories(T), NEW t \in T, NEW s, NEW stale, Held(mem, t, s, stale), Light(mem, t),
           NEW r, NEW q, Erased(mem, r, T, t, s, q)
    PROVE  Light(r, t)
<1>1. Becomes(mem, r, T, t, s, q) /\ KeysStay(mem, r) /\ bucket_count(r, t) = bucket_count(mem, t)
  BY DEF Erased
<1>2. ToSet(q) \subseteq ToSet(s)
  BY <1>1 DEF Becomes, Apart, KeysStay
<1>3. s \in Seq(DOMAIN mem.key) /\ Distinct(s) /\ mem.size[t] = Len(s) /\ Len(s) \in Nat
  BY DEF Held, Filed, ChainIs
<1>4. q \in Seq(DOMAIN r.key) /\ Distinct(q) /\ r.size[t] = Len(q) /\ Len(q) \in Nat
  BY <1>1 DEF Becomes, Held, Filed, ChainIs
<1>5. Cardinality(ToSet(s)) = Len(s) /\ Cardinality(ToSet(q)) = Len(q)
  BY <1>3, <1>4, DistinctCount
<1>6. IsFiniteSet(ToSet(s))
  <2>1. ToSet(s) \subseteq DOMAIN mem.key /\ IsFiniteSet(DOMAIN mem.key)
    BY <1>3, ElementsOf, MemoryHas
  <2>. QED
    BY <2>1, FS_Subset
<1>7. Len(q) <= Len(s)
  <2>1. Cardinality(ToSet(q)) <= Cardinality(ToSet(s))
    BY <1>2, <1>6, FS_Subset
  <2>. QED
    BY <1>5, <2>1
<1>8. bucket_count(mem, t) \in Nat
  BY BucketIn
<1>. QED
  BY <1>1, <1>3, <1>4, <1>7, <1>8 DEF Light

-----------------------------------------------------------------------------
(* All the tables.                                                         *)

\* The bucket of the first node of t, which is s, is behind a head: its own or
\* that of another table.
BehindHead(mem, T, t, s) ==
    Len(s) > 0 => mem.buckets[t][bucket(mem, t, mem.key[s[1]])].before \in T

\* The tables are the chains ch, and have no node in common; none is too full.
Chained(mem, T, ch) ==
    /\ mem \in Memories(T) /\ ch \in [T -> Seq(Nodes)]
    /\ \A t \in T : Held(mem, t, ch[t], TRUE)
    /\ \A t \in T : BehindHead(mem, T, t, ch[t])
    /\ \A t, o \in T : t # o => ToSet(ch[t]) \cap ToSet(ch[o]) = {}
    /\ \A x \in DOMAIN mem.key : \E t \in T : x \in ToSet(ch[t])
    /\ \A t \in T : Light(mem, t)

\* A table that may be stale is right if it is not.
LEMMA HeldMaybe ==
    ASSUME NEW mem, NEW t, NEW s, Held(mem, t, s, FALSE)
    PROVE  Held(mem, t, s, TRUE)
<1>1. ASSUME NEW b \in DOMAIN mem.buckets[t] PROVE BucketRight(mem, t, s, b, TRUE)
  <2>1. BucketRight(mem, t, s, b, FALSE)
    BY DEF Held, Filed, BucketsRight
  <2>. QED
    BY <2>1 DEF BucketRight
<1>. QED
  BY <1>1 DEF Held, Filed, BucketsRight

LEMMA HeldFresh ==
    ASSUME NEW mem, NEW t, NEW s, NEW stale, Held(mem, t, s, stale),
           Len(s) > 0 => mem.buckets[t][bucket(mem, t, mem.key[s[1]])].before = t
    PROVE  Held(mem, t, s, FALSE)
<1>1. ASSUME NEW b \in DOMAIN mem.buckets[t] PROVE BucketRight(mem, t, s, b, FALSE)
  <2>1. BucketRight(mem, t, s, b, stale)
    BY DEF Held, Filed, BucketsRight
  <2>2. CASE Vacant(mem, t, s, b) /\ mem.buckets[t][b] = NoBucket
    BY <2>2 DEF BucketRight
  <2>3. ASSUME NEW lo \in 1 .. Len(s), NEW hi \in 1 .. Len(s), Block(mem, t, s, b, lo, hi),
               mem.buckets[t][b].finish = s[hi],
               mem.buckets[t][b].before = Place(t, s, lo - 1) \/ (stale /\ lo = 1)
        PROVE  BucketRight(mem, t, s, b, FALSE)
    <3>1. Len(s) \in Nat
      <4>1. s \in Seq(DOMAIN mem.key)
        BY DEF Held, Filed, ChainIs
      <4>. QED
        BY <4>1
    <3>2. lo = 1 => mem.buckets[t][b].before = t
      <4>. SUFFICES ASSUME lo = 1 PROVE mem.buckets[t][b].before = t
        OBVIOUS
      <4>1. In(mem, t, s, b, 1) /\ Len(s) > 0
        BY <2>3, <3>1 DEF Block
      <4>. QED
        BY <4>1 DEF In
    <3>3. lo = 1 => Place(t, s, lo - 1) = t
      BY DEF Place
    <3>4. mem.buckets[t][b].before = Place(t, s, lo - 1)
      BY <2>3, <3>2, <3>3
    <3>. DEFINE i == lo - 1
    <3>5. i = lo - 1 /\ mem.buckets[t][b].before = Place(t, s, i)
      BY <3>4
    <3>. HIDE DEF i
    <3>. QED
      BY <2>3, <3>1, <3>5, BlockRight
  <2>. QED
    BY <2>1, <2>2, <2>3 DEF BucketRight
<1>. QED
  BY <1>1 DEF Held, Filed, BucketsRight

\* A table that is right is behind its own head.
LEMMA BehindOwn ==
    ASSUME NEW T, Heads(T), NEW mem \in Memories(T), NEW t \in T, NEW s, Held(mem, t, s, FALSE)
    PROVE  BehindHead(mem, T, t, s)
<1>. SUFFICES ASSUME Len(s) > 0
              PROVE  mem.buckets[t][bucket(mem, t, mem.key[s[1]])].before \in T
  BY DEF BehindHead
<1>. DEFINE b == bucket(mem, t, mem.key[s[1]])
<1>1. BucketsRight(mem, t, s, FALSE) /\ s \in Seq(DOMAIN mem.key)
  BY DEF Held, Filed, ChainIs
<1>2. Len(s) \in Nat /\ s[1] \in DOMAIN mem.key
  BY <1>1
<1>3. mem.key[s[1]] \in Keys
  <2>1. mem.key \in [DOMAIN mem.key -> Keys]
    BY MemoryHas
  <2>. QED
    BY <1>2, <2>1
<1>4. b \in DOMAIN mem.buckets[t]
  BY <1>3, BucketIn
<1>5. In(mem, t, s, b, 1) /\ 1 \in 1 .. Len(s)
  BY <1>2 DEF In
<1>. HIDE DEF b
<1>6. BucketRight(mem, t, s, b, FALSE)
  BY <1>1, <1>4 DEF BucketsRight
<1>7. ~Vacant(mem, t, s, b)
  BY <1>5 DEF Vacant
<1>8. PICK lo \in 1 .. Len(s), hi \in 1 .. Len(s) :
         Block(mem, t, s, b, lo, hi) /\ mem.buckets[t][b].before = Place(t, s, lo - 1)
  BY <1>6, <1>7 DEF BucketRight
<1>9. lo = 1
  BY <1>2, <1>5, <1>8 DEF Block
<1>10. mem.buckets[t][b].before = t
  BY <1>8, <1>9 DEF Place
<1>. QED
  BY <1>10 DEF b

\* The first bucket goes with the chain.
LEMMA BehindKept ==
    ASSUME NEW T, NEW mem, NEW r, NEW x, NEW y, NEW s, BehindHead(mem, T, y, s),
           r.buckets[x] = mem.buckets[y], Len(s) > 0 => r.key[s[1]] = mem.key[s[1]]
    PROVE  BehindHead(r, T, x, s)
BY DEF BehindHead, bucket, bucket_count

\* A call that makes q of one table leaves the others.
LEMMA ChainedBecomes ==
    ASSUME NEW T, Heads(T), NEW mem, NEW ch, Chained(mem, T, ch), NEW t \in T,
           NEW r, NEW q, Becomes(mem, r, T, t, ch[t], q), Light(r, t)
    PROVE  Chained(r, T, [ch EXCEPT ![t] = q])
<1>. DEFINE A == ToSet(ch[t])
            B == ToSet(q)
            new == [ch EXCEPT ![t] = q]
<1>1. /\ mem \in Memories(T) /\ ch \in [T -> Seq(Nodes)]
      /\ \A o \in T : Held(mem, o, ch[o], TRUE)
      /\ \A o \in T : BehindHead(mem, T, o, ch[o])
      /\ \A u, o \in T : u # o => ToSet(ch[u]) \cap ToSet(ch[o]) = {}
      /\ \A x \in DOMAIN mem.key : \E o \in T : x \in ToSet(ch[o])
      /\ \A o \in T : Light(mem, o)
  BY DEF Chained
<1>2. Apart(mem, r, T, t, A, B) /\ Held(r, t, q, FALSE) /\ r \in Memories(T)
  BY DEF Becomes, Apart
<1>3. new[t] = q /\ \A o \in T \ {t} : new[o] = ch[o]
  BY <1>1
<1>4. new \in [T -> Seq(Nodes)]
  <2>1. q \in Seq(DOMAIN r.key) /\ DOMAIN r.key \subseteq Nodes
    BY <1>2, MemoryHas DEF Held, Filed, ChainIs
  <2>2. q \in Seq(Nodes)
    BY <2>1, SeqMonotonic
  <2>. QED
    BY <1>1, <2>2
<1>5. \A o \in T : ToSet(ch[o]) \subseteq DOMAIN mem.key
  <2>. SUFFICES ASSUME NEW o \in T PROVE ToSet(ch[o]) \subseteq DOMAIN mem.key
    OBVIOUS
  <2>1. ch[o] \in Seq(DOMAIN mem.key)
    BY <1>1 DEF Held, Filed, ChainIs
  <2>. QED
    BY <2>1, ElementsOf
<1>. HIDE DEF new
<1>6. ASSUME NEW o \in T PROVE Held(r, o, new[o], TRUE)
  <2>1. CASE o = t
    BY <1>2, <1>3, <2>1, HeldMaybe
  <2>2. CASE o # t
    <3>1. ToSet(ch[o]) \cap A = {} /\ Held(mem, o, ch[o], TRUE)
      BY <1>1, <2>2
    <3>. HIDE DEF A, B
    <3>2. Held(r, o, ch[o], TRUE)
      BY <1>2, <2>2, <3>1, KeptElsewhere
    <3>. QED
      BY <1>3, <2>2, <3>2
  <2>. QED
    BY <2>1, <2>2
<1>7. ASSUME NEW o \in T \ {t} PROVE B \cap ToSet(ch[o]) = {}
  <2>1. B \cap DOMAIN mem.key \subseteq A
    BY <1>2 DEF Apart
  <2>2. A \cap ToSet(ch[o]) = {} /\ ToSet(ch[o]) \subseteq DOMAIN mem.key
    BY <1>1, <1>5
  <2>. HIDE DEF A, B
  <2>. QED
    BY <2>1, <2>2
<1>8. ASSUME NEW u \in T, NEW o \in T, u # o PROVE ToSet(new[u]) \cap ToSet(new[o]) = {}
  <2>1. CASE u = t
    BY <1>3, <1>7, <1>8, <2>1
  <2>2. CASE o = t
    BY <1>3, <1>7, <1>8, <2>2
  <2>3. CASE u # t /\ o # t
    BY <1>1, <1>3, <1>8, <2>3
  <2>. QED
    BY <2>1, <2>2, <2>3
<1>9. ASSUME NEW x \in DOMAIN r.key PROVE \E o \in T : x \in ToSet(new[o])
  <2>1. x \in B \/ (x \in DOMAIN mem.key /\ x \notin A)
    BY <1>2 DEF Apart
  <2>2. CASE x \in B
    BY <1>3, <2>2
  <2>3. CASE x \in DOMAIN mem.key /\ x \notin A
    <3>1. PICK o \in T : x \in ToSet(ch[o])
      BY <1>1, <2>3
    <3>. QED
      BY <1>3, <2>3, <3>1
  <2>. QED
    BY <2>1, <2>2, <2>3
<1>10. ASSUME NEW o \in T PROVE Light(r, o)
  <2>1. o # t => r.size[o] = mem.size[o] /\ r.buckets[o] = mem.buckets[o]
    BY <1>2 DEF Apart
  <2>. QED
    BY <1>1, <2>1 DEF Light, bucket_count
<1>11. ASSUME NEW o \in T PROVE BehindHead(r, T, o, new[o])
  <2>1. CASE o = t
    BY <1>2, <1>3, <2>1, BehindOwn
  <2>2. CASE o # t
    <3>. DEFINE s == ch[o]
    <3>1. new[o] = s /\ BehindHead(mem, T, o, s) /\ s \in Seq(Nodes) /\ ToSet(s) \cap A = {}
      BY <1>1, <1>3, <2>2
    <3>2. ToSet(s) \subseteq DOMAIN mem.key
      BY <1>5
    <3>. HIDE DEF s, A
    <3>3. r.buckets[o] = mem.buckets[o] /\ \A x \in DOMAIN mem.key \ A : r.key[x] = mem.key[x]
      BY <1>2, <2>2 DEF Apart
    <3>4. Len(s) > 0 => s[1] \in ToSet(s)
      BY <3>1, ElementsOf
    <3>5. Len(s) > 0 => r.key[s[1]] = mem.key[s[1]]
      BY <3>1, <3>2, <3>3, <3>4
    <3>. QED
      BY <3>1, <3>3, <3>5, BehindKept
  <2>. QED
    BY <2>1, <2>2
<1>. QED
  BY <1>2, <1>4, <1>6, <1>8, <1>9, <1>10, <1>11 DEF Chained, new

\* A chain that gets another head is right but for the bucket of its first node.
Rehead(mem, r, x, y, s) ==
    /\ r.size[x] = mem.size[y] /\ r.buckets[x] = mem.buckets[y] /\ r.next[x] = mem.next[y]
    /\ \A n \in ToSet(s) : n \in DOMAIN r.key /\ r.key[n] = mem.key[n] /\ r.next[n] = mem.next[n]

LEMMA HeldReheaded ==
    ASSUME NEW mem, NEW r, NEW x, NEW y, NEW s, Held(mem, y, s, TRUE), Rehead(mem, r, x, y, s)
    PROVE  Held(r, x, s, TRUE)
<1>. DEFINE n == Len(s)
<1>1. /\ ChainIs(mem, y, s) /\ mem.size[y] = n /\ BucketsRight(mem, y, s, TRUE) /\ Together(mem, s)
  BY DEF Held, Filed
<1>2. s \in Seq(DOMAIN mem.key) /\ n \in Nat /\ \A i \in 1 .. n : s[i] \in ToSet(s)
  <2>1. s \in Seq(DOMAIN mem.key)
    BY <1>1 DEF ChainIs
  <2>. QED
    BY <2>1, ElementsOf
<1>3. \A i \in 1 .. n : s[i] \in DOMAIN r.key /\ r.key[s[i]] = mem.key[s[i]] /\ r.next[s[i]] = mem.next[s[i]]
  BY <1>2 DEF Rehead
<1>4. r.size[x] = mem.size[y] /\ r.buckets[x] = mem.buckets[y] /\ r.next[x] = mem.next[y]
  BY DEF Rehead
<1>5. ChainIs(r, x, s)
  <2>1. s \in Seq(DOMAIN r.key)
    <3>1. s \in [1 .. n -> DOMAIN mem.key]
      BY <1>2
    <3>2. s \in [1 .. n -> DOMAIN r.key]
      BY <1>3, <3>1
    <3>. QED
      BY <1>2, <3>2
  <2>2. ASSUME NEW i \in 0 .. n PROVE r.next[Place(x, s, i)] = Behind(s, i)
    <3>1. mem.next[Place(y, s, i)] = Behind(s, i)
      BY <1>1 DEF ChainIs
    <3>2. CASE i = 0
      BY <1>4, <3>1, <3>2 DEF Place
    <3>3. CASE i # 0
      <4>1. i \in 1 .. n
        BY <1>2, <3>3
      <4>. QED
        BY <1>3, <3>1, <3>3, <4>1 DEF Place
    <3>. QED
      BY <3>2, <3>3
  <2>. QED
    BY <1>1, <2>1, <2>2 DEF ChainIs
<1>6. \A b : \A i \in 1 .. n : In(r, x, s, b, i) <=> In(mem, y, s, b, i)
  BY <1>3, <1>4 DEF In, bucket, bucket_count
<1>7. Together(r, s)
  BY <1>1, <1>3 DEF Together
<1>8. ASSUME NEW b \in DOMAIN r.buckets[x] PROVE BucketRight(r, x, s, b, TRUE)
  <2>1. BucketRight(mem, y, s, b, TRUE)
    BY <1>1, <1>4 DEF BucketsRight
  <2>2. CASE Vacant(mem, y, s, b) /\ mem.buckets[y][b] = NoBucket
    BY <1>4, <1>6, <2>2 DEF BucketRight, Vacant
  <2>3. ASSUME NEW lo \in 1 .. n, NEW hi \in 1 .. n, Block(mem, y, s, b, lo, hi), mem.buckets[y][b].finish = s[hi],
               mem.buckets[y][b].before = Place(y, s, lo - 1) \/ lo = 1
        PROVE  BucketRight(r, x, s, b, TRUE)
    <3>1. Block(r, x, s, b, lo, hi)
      BY <1>6, <2>3 DEF Block
    <3>2. lo # 1 => Place(y, s, lo - 1) = Place(x, s, lo - 1)
      BY <1>2 DEF Place
    <3>3. r.buckets[x][b].before = Place(x, s, lo - 1) \/ (TRUE /\ lo = 1)
      BY <1>4, <2>3, <3>2
    <3>. QED
      BY <1>4, <2>3, <3>1, <3>3 DEF BucketRight
  <2>. QED
    BY <2>1, <2>2, <2>3 DEF BucketRight
<1>. QED
  BY <1>1, <1>4, <1>5, <1>7, <1>8 DEF Held, Filed, BucketsRight

\* What table x is after t and o are swapped is what this table was.
Partner(t, o, x) == IF x = t THEN o ELSE IF x = o THEN t ELSE x

\* f with the values of t and o exchanged.
Exchanged(f, g, D, t, o) ==
    /\ \A x \in D : g[x] = f[Partner(t, o, x)]
    /\ \A x \in DOMAIN f \ D : g[x] = f[x]

LEMMA ExchangeIs ==
    ASSUME NEW D, NEW f, NEW X, NEW Y, f \in [X -> Y], D \subseteq X, NEW t \in D, NEW o \in D,
           NEW g, g = [f EXCEPT ![t] = f[o], ![o] = f[t]]
    PROVE  g \in [X -> Y] /\ Exchanged(f, g, D, t, o)
<1>1. g \in [X -> Y]
  OBVIOUS
<1>2. \A x \in X : g[x] = IF x = o THEN f[t] ELSE IF x = t THEN f[o] ELSE f[x]
  OBVIOUS
<1>3. \A x \in D : g[x] = f[Partner(t, o, x)]
  BY <1>2 DEF Partner
<1>4. \A x \in X \ D : g[x] = f[x]
  BY <1>2
<1>. QED
  BY <1>1, <1>3, <1>4 DEF Exchanged

\* r is mem with tables t and o swapped.
Swapped(mem, r, T, t, o) ==
    /\ r \in Memories(T) /\ r.key = mem.key
    /\ Exchanged(mem.next, r.next, T, t, o) /\ Exchanged(mem.size, r.size, T, t, o)
    /\ Exchanged(mem.buckets, r.buckets, T, t, o)

LEMMA SwapIs ==
    ASSUME NEW T, Heads(T), NEW mem \in Memories(T), NEW t \in T, NEW o \in T
    PROVE  Swapped(mem, swap(mem, t, o), T, t, o)
<1>. DEFINE r == swap(mem, t, o)
            next == [mem.next EXCEPT ![t] = mem.next[o], ![o] = mem.next[t]]
            size == [mem.size EXCEPT ![t] = mem.size[o], ![o] = mem.size[t]]
            buckets == [mem.buckets EXCEPT ![t] = mem.buckets[o], ![o] = mem.buckets[t]]
<1>1. mem = [next |-> mem.next, key |-> mem.key, size |-> mem.size, buckets |-> mem.buckets]
  BY FieldsOf
<1>2. r = [mem EXCEPT !.next = next, !.buckets = buckets, !.size = size]
  BY DEF swap
<1>. HIDE DEF r, next, size, buckets
<1>3. r \in [next : {next}, key : {mem.key}, size : {size}, buckets : {buckets}]
  BY <1>1, <1>2
<1>4. r = [next |-> next, key |-> mem.key, size |-> size, buckets |-> buckets]
  BY <1>3
<1>5. r.next = next /\ r.key = mem.key /\ r.size = size /\ r.buckets = buckets
  BY <1>4
<1>6. r = [next |-> r.next, key |-> r.key, size |-> r.size, buckets |-> r.buckets]
  BY <1>4, <1>5
<1>7. /\ DOMAIN mem.key \subseteq Nodes /\ mem.key \in [DOMAIN mem.key -> Keys]
      /\ mem.next \in [T \cup DOMAIN mem.key -> Nodes \cup {Null}]
      /\ mem.size \in [T -> Nat] /\ mem.buckets \in [T -> Arrays(T)]
  BY MemoryHas
<1>. DEFINE X == T \cup DOMAIN mem.key
            Y == Nodes \cup {Null}
<1>8. T \subseteq X
  OBVIOUS
<1>9. next \in [X -> Y] /\ Exchanged(mem.next, next, T, t, o)
  <2>1. mem.next \in [X -> Y]
    BY <1>7
  <2>2. next = [mem.next EXCEPT ![t] = mem.next[o], ![o] = mem.next[t]]
    BY DEF next
  <2>. HIDE DEF X, Y
  <2>. QED
    BY <1>8, <2>1, <2>2, ExchangeIs
<1>10. size \in [T -> Nat] /\ Exchanged(mem.size, size, T, t, o)
  <2>1. size = [mem.size EXCEPT ![t] = mem.size[o], ![o] = mem.size[t]]
    BY DEF size
  <2>. QED
    BY <1>7, <2>1, ExchangeIs
<1>11. buckets \in [T -> Arrays(T)] /\ Exchanged(mem.buckets, buckets, T, t, o)
  <2>1. buckets = [mem.buckets EXCEPT ![t] = mem.buckets[o], ![o] = mem.buckets[t]]
    BY DEF buckets
  <2>. QED
    BY <1>7, <2>1, ExchangeIs
<1>12. r \in Memories(T)
  <2>1. r.next \in [T \cup DOMAIN r.key -> Nodes \cup {Null}]
    BY <1>5, <1>9
  <2>2. DOMAIN r.key \subseteq Nodes /\ r.key \in [DOMAIN r.key -> Keys]
    BY <1>5, <1>7
  <2>3. r.size \in [T -> Nat] /\ r.buckets \in [T -> Arrays(T)]
    BY <1>5, <1>10, <1>11
  <2>. QED
    BY <1>6, <2>1, <2>2, <2>3, MemoryIs
<1>13. Swapped(mem, r, T, t, o)
  BY <1>5, <1>9, <1>10, <1>11, <1>12 DEF Swapped
<1>. QED
  BY <1>13 DEF r

\* The chains that r has of the tables.
ChainsSwapped(ch, T, t, o) == [x \in T |-> ch[Partner(t, o, x)]]

LEMMA ChainedSwap ==
    ASSUME NEW T, Heads(T), NEW mem, NEW ch, Chained(mem, T, ch), NEW t \in T, NEW o \in T
    PROVE  Chained(swap(mem, t, o), T, ChainsSwapped(ch, T, t, o))
<1>. DEFINE r == swap(mem, t, o)
            new == ChainsSwapped(ch, T, t, o)
<1>1. /\ mem \in Memories(T) /\ ch \in [T -> Seq(Nodes)]
      /\ \A x \in T : Held(mem, x, ch[x], TRUE)
      /\ \A x \in T : BehindHead(mem, T, x, ch[x])
      /\ \A u, x \in T : u # x => ToSet(ch[u]) \cap ToSet(ch[x]) = {}
      /\ \A n \in DOMAIN mem.key : \E x \in T : n \in ToSet(ch[x])
      /\ \A x \in T : Light(mem, x)
  BY DEF Chained
<1>2. Swapped(mem, r, T, t, o)
  BY <1>1, SwapIs
<1>. HIDE DEF r
<1>3. \A x \in T : Partner(t, o, x) \in T /\ Partner(t, o, Partner(t, o, x)) = x
  BY DEF Partner
<1>4. \A x \in T : new[x] = ch[Partner(t, o, x)]
  BY DEF ChainsSwapped
<1>5. new \in [T -> Seq(Nodes)]
  BY <1>1, <1>3 DEF ChainsSwapped
<1>. HIDE DEF new
<1>6. r \in Memories(T) /\ r.key = mem.key
  BY <1>2 DEF Swapped
<1>7. ASSUME NEW x \in T PROVE Held(r, x, new[x], TRUE)
  <2>. DEFINE y == Partner(t, o, x)
  <2>1. y \in T /\ new[x] = ch[y] /\ Held(mem, y, ch[y], TRUE)
    BY <1>1, <1>3, <1>4
  <2>2. r.size[x] = mem.size[y] /\ r.buckets[x] = mem.buckets[y] /\ r.next[x] = mem.next[y]
    BY <1>2 DEF Swapped, Exchanged
  <2>. HIDE DEF y
  <2>3. ch[y] \in Seq(DOMAIN mem.key)
    BY <2>1 DEF Held, Filed, ChainIs
  <2>4. ToSet(ch[y]) \subseteq DOMAIN mem.key
    BY <2>3, ElementsOf
  <2>5. \A n \in DOMAIN mem.key : n \in DOMAIN mem.next \ T
    <3>1. mem.next \in [T \cup DOMAIN mem.key -> Nodes \cup {Null}] /\ DOMAIN mem.key \subseteq Nodes
      BY <1>1, MemoryHas
    <3>. QED
      BY <3>1 DEF Heads
  <2>6. \A n \in DOMAIN mem.key : r.next[n] = mem.next[n]
    BY <1>2, <2>5 DEF Swapped, Exchanged
  <2>7. Rehead(mem, r, x, y, ch[y])
    BY <1>6, <2>2, <2>4, <2>6 DEF Rehead
  <2>. QED
    BY <2>1, <2>7, HeldReheaded
<1>8. ASSUME NEW u \in T, NEW x \in T, u # x PROVE ToSet(new[u]) \cap ToSet(new[x]) = {}
  <2>1. Partner(t, o, u) # Partner(t, o, x) /\ Partner(t, o, u) \in T /\ Partner(t, o, x) \in T
    BY <1>3, <1>8
  <2>. QED
    BY <1>1, <1>4, <2>1
<1>9. ASSUME NEW n \in DOMAIN r.key PROVE \E x \in T : n \in ToSet(new[x])
  <2>1. PICK y \in T : n \in ToSet(ch[y])
    BY <1>1, <1>6
  <2>2. Partner(t, o, y) \in T /\ new[Partner(t, o, y)] = ch[y]
    BY <1>3, <1>4
  <2>. QED
    BY <2>1, <2>2
<1>10. ASSUME NEW x \in T PROVE Light(r, x)
  <2>. DEFINE y == Partner(t, o, x)
  <2>1. y \in T /\ Light(mem, y)
    BY <1>1, <1>3
  <2>2. r.size[x] = mem.size[y] /\ r.buckets[x] = mem.buckets[y]
    BY <1>2 DEF Swapped, Exchanged
  <2>. HIDE DEF y
  <2>. QED
    BY <2>1, <2>2 DEF Light, bucket_count
<1>11. ASSUME NEW x \in T PROVE BehindHead(r, T, x, new[x])
  <2>. DEFINE y == Partner(t, o, x)
  <2>1. y \in T /\ new[x] = ch[y] /\ BehindHead(mem, T, y, ch[y])
    BY <1>1, <1>3, <1>4
  <2>2. r.buckets[x] = mem.buckets[y]
    BY <1>2 DEF Swapped, Exchanged
  <2>. HIDE DEF y
  <2>. QED
    BY <1>6, <2>1, <2>2, BehindKept
<1>. QED
  BY <1>5, <1>6, <1>7, <1>8, <1>9, <1>10, <1>11 DEF Chained, r, new

\* There are chains.
TablesHeld(mem, T) == \E ch : Chained(mem, T, ch)

LEMMA MoveHeld ==
    ASSUME NEW T, Heads(T), NEW mem, NEW ch, Chained(mem, T, ch), NEW t \in T, NEW o \in T, t # o
    PROVE  TablesHeld(move_from(mem, t, o), T)
<1>. DEFINE u == release(mem, t)
            moved == swap(u, t, o)
            bks == alloc_buckets(min_bucket_size_)
            r == move_from(mem, t, o)
            one == [ch EXCEPT ![t] = <<>>]
            two == ChainsSwapped(one, T, t, o)
<1>1. r = Emptied(moved, o, bks)
  BY DEF move_from, Emptied
<1>2. mem \in Memories(T) /\ Held(mem, t, ch[t], TRUE) /\ ch \in [T -> Seq(Nodes)]
  BY DEF Chained
<1>3. Becomes(mem, u, T, t, ch[t], <<>>)
  BY <1>2, ReleaseIs
<1>. HIDE DEF u
<1>4. Chained(u, T, one)
  <2>1. u \in Memories(T) /\ Held(u, t, <<>>, FALSE)
    BY <1>3 DEF Becomes, Apart
  <2>2. Light(u, t)
    BY <2>1, EmptyLight
  <2>. QED
    BY <1>3, <2>2, ChainedBecomes DEF one
<1>5. one[t] = <<>>
  BY <1>2
<1>. HIDE DEF one
<1>6. Chained(moved, T, two)
  BY <1>4, ChainedSwap
<1>7. two[o] = <<>>
  BY <1>5 DEF ChainsSwapped, Partner
<1>. HIDE DEF moved, two, r, bks
<1>8. moved \in Memories(T) /\ Held(moved, o, <<>>, TRUE)
  BY <1>6, <1>7 DEF Chained
<1>9. Held(moved, o, <<>>, FALSE)
  <2>1. ~(Len(<<>>) > 0)
    OBVIOUS
  <2>. QED
    BY <1>8, <2>1, HeldFresh
<1>10. AllEmpty(T, bks)
  BY TableAssumption, AllocBucketsIs DEF bks
<1>11. Becomes(moved, r, T, o, <<>>, <<>>)
  BY <1>1, <1>8, <1>9, <1>10, EmptiedBecomes
<1>12. Chained(r, T, [two EXCEPT ![o] = <<>>])
  <2>1. r \in Memories(T) /\ Held(r, o, <<>>, FALSE)
    BY <1>11 DEF Becomes, Apart
  <2>2. Light(r, o)
    BY <2>1, EmptyLight
  <2>. QED
    BY <1>6, <1>7, <1>11, <2>2, ChainedBecomes
<1>. QED
  BY <1>12 DEF TablesHeld, r

-----------------------------------------------------------------------------
(* The specification of the tables.                                        *)

LEMMA TablesAreHeads == Heads(Tables)
BY TablesAssumption DEF Heads

\* A table that is not stale is right with all its buckets.
LEMMA NotStale ==
    ASSUME NEW ch, Chained(m, Tables, ch), NEW t \in Tables, ~Stale(t)
    PROVE  Held(m, t, ch[t], FALSE)
<1>. DEFINE s == ch[t]
<1>1. Held(m, t, s, TRUE) /\ ChainIs(m, t, s) /\ m.size[t] = Len(s) /\ s \in Seq(DOMAIN m.key)
  BY DEF Chained, Held, Filed, ChainIs
<1>2. BehindHead(m, Tables, t, s)
  BY DEF Chained
<1>. HIDE DEF s
<1>3. Len(s) > 0 => m.next[t] = s[1]
  <2>1. m.next[Place(t, s, 0)] = Behind(s, 0)
    BY <1>1 DEF ChainIs
  <2>. QED
    BY <2>1 DEF Place, Behind
<1>4. Len(s) > 0 => m.buckets[t][bucket(m, t, m.key[s[1]])].before = t
  BY <1>1, <1>3, <1>2 DEF Stale, FirstBucket, BehindHead
<1>. QED
  BY <1>1, <1>4, HeldFresh DEF s

\* A call that makes other nodes of one table keeps the invariant.
LEMMA OneChanged ==
    ASSUME NEW ch, Chained(m, Tables, ch), NEW t \in Tables, NEW r,
           \E q : Becomes(m, r, Tables, t, ch[t], q), Light(r, t)
    PROVE  TablesHeld(r, Tables)
<1>1. PICK q : Becomes(m, r, Tables, t, ch[t], q)
  OBVIOUS
<1>2. Chained(r, Tables, [ch EXCEPT ![t] = q])
  BY <1>1, TablesAreHeads, ChainedBecomes
<1>. QED
  BY <1>2 DEF TablesHeld

LEMMA InitHeld == TablesInit => TablesHeld(m, Tables)
<1>. SUFFICES ASSUME TablesInit PROVE TablesHeld(m, Tables)
  OBVIOUS
<1>. DEFINE ch == [t \in Tables |-> <<>>]
            next == [t \in Tables |-> Null]
            size == [t \in Tables |-> 0]
            buckets == [t \in Tables |-> alloc_buckets(min_bucket_size_)]
<1>1. m = [next |-> next, key |-> <<>>, size |-> size, buckets |-> buckets]
  BY DEF TablesInit
<1>2. AllEmpty(Tables, alloc_buckets(min_bucket_size_))
  BY TableAssumption, AllocBucketsIs
<1>. HIDE DEF next, size, buckets
<1>3. m.next = next /\ m.key = <<>> /\ m.size = size /\ m.buckets = buckets
  BY <1>1
<1>4. m = [next |-> m.next, key |-> m.key, size |-> m.size, buckets |-> m.buckets]
  BY <1>1, <1>3
<1>5. DOMAIN m.key = {} /\ m.key \in [DOMAIN m.key -> Keys] /\ DOMAIN m.key \subseteq Nodes
  BY <1>3
<1>6. m \in Memories(Tables)
  <2>1. m.size \in [Tables -> Nat]
    BY <1>3 DEF size
  <2>2. m.buckets \in [Tables -> Arrays(Tables)]
    BY <1>2, <1>3 DEF buckets, AllEmpty
  <2>3. m.next \in [Tables \cup DOMAIN m.key -> Nodes \cup {Null}]
    BY <1>3, <1>5 DEF next
  <2>. QED
    BY <1>4, <1>5, <2>1, <2>2, <2>3, MemoryIs
<1>7. ASSUME NEW t \in Tables PROVE Held(m, t, ch[t], TRUE)
  <2>1. m.size[t] = 0 /\ m.next[t] = Null /\ m.buckets[t] = alloc_buckets(min_bucket_size_)
    BY <1>3 DEF size, next, buckets
  <2>2. Held(m, t, <<>>, FALSE)
    BY <1>2, <2>1, EmptyHeld
  <2>. QED
    BY <2>2, HeldMaybe
<1>8. ch \in [Tables -> Seq(Nodes)]
  <2>1. <<>> \in Seq(Nodes)
    OBVIOUS
  <2>. QED
    BY <2>1
<1>9. \A t, o \in Tables : t # o => ToSet(ch[t]) \cap ToSet(ch[o]) = {}
  BY DEF ToSet
<1>10. ASSUME NEW t \in Tables PROVE BehindHead(m, Tables, t, ch[t])
  <2>1. ch[t] = <<>> /\ ~(Len(<<>>) > 0)
    OBVIOUS
  <2>. QED
    BY <2>1 DEF BehindHead
<1>. HIDE DEF ch
<1>11. ASSUME NEW t \in Tables PROVE Light(m, t)
  <2>1. m.size[t] = 0
    BY <1>3 DEF size
  <2>2. bucket_count(m, t) \in Nat
    BY <1>6, TablesAreHeads, BucketIn
  <2>. QED
    BY <2>1, <2>2 DEF Light
<1>12. Chained(m, Tables, ch)
  BY <1>5, <1>6, <1>7, <1>8, <1>9, <1>10, <1>11 DEF Chained
<1>. QED
  BY <1>12 DEF TablesHeld

\* An erasure keeps the invariant.
LEMMA OneErasing ==
    ASSUME NEW ch, Chained(m, Tables, ch), NEW t \in Tables, NEW r, NEW q, Erased(m, r, Tables, t, ch[t], q)
    PROVE  TablesHeld(r, Tables)
<1>1. m \in Memories(Tables) /\ Heads(Tables) /\ Held(m, t, ch[t], TRUE) /\ Light(m, t)
  BY TablesAreHeads DEF Chained
<1>2. Light(r, t)
  BY <1>1, ErasedLight
<1>3. \E w : Becomes(m, r, Tables, t, ch[t], w)
  BY DEF Erased
<1>. QED
  BY <1>2, <1>3, OneChanged

\* Any operation on a table keeps the invariant.
LEMMA InsertHeld ==
    ASSUME NEW ch, Chained(m, Tables, ch), NEW t \in Tables, Insert(t)
    PROVE  TablesHeld(m', Tables)
<1>1. m \in Memories(Tables) /\ Heads(Tables)
  BY TablesAreHeads DEF Chained
<1>2. Held(m, t, ch[t], FALSE)
  BY NotStale DEF Insert
<1>3. PICK k \in Keys, unique \in BOOLEAN, hint \in InTable(t) \cup {Null} : m' = insert(m, t, unique, hint, k)
  BY DEF Insert
<1>4. hint \in ToSet(ch[t]) \cup {Null}
  <2>1. NodesOf(m, t) = ch[t]
    BY <1>1, <1>2, NodesOfIs DEF Held, Filed
  <2>. QED
    BY <1>3, <2>1 DEF InTable
<1>5. Roomy(m)
  <2>1. IsFiniteSet(DOMAIN m.key)
    BY <1>1, MemoryHas
  <2>2. Cardinality(DOMAIN m.key) \in Nat /\ Cardinality(Nodes) \in Nat
    BY <2>1, TableAssumption, FS_CardinalityType
  <2>3. Cardinality(DOMAIN m.key) + 1 <= MaxNodes
    BY DEF Insert, Room
  <2>. QED
    BY <2>2, <2>3, TablesAssumption DEF Roomy
<1>. DEFINE r == insert(m, t, unique, hint, k)
<1>6. r = m \/ AddsKey(m, r, Tables, t, ch[t], k)
  <2>1. \/ unique /\ ~Missing(m, ch[t], k) /\ insert(m, t, unique, hint, k) = m
        \/ (unique => Missing(m, ch[t], k)) /\ AddsKey(m, insert(m, t, unique, hint, k), Tables, t, ch[t], k)
    BY <1>1, <1>2, <1>3, <1>4, <1>5, InsertIs
  <2>. QED
    BY <2>1
<1>. HIDE DEF r
<1>7. CASE r = m
  BY <1>3, <1>7 DEF TablesHeld, r
<1>8. CASE AddsKey(m, r, Tables, t, ch[t], k)
  <2>1. (\E q : Becomes(m, r, Tables, t, ch[t], q)) /\ Light(r, t)
    BY <1>8 DEF AddsKey
  <2>. QED
    BY <1>3, <2>1, OneChanged DEF r
<1>. QED
  BY <1>6, <1>7, <1>8

\* As many nodes as there is room for can be allocated.
LEMMA RoomFor ==
    ASSUME m \in Memories(Tables), NEW n \in Nat, Room(n), NEW l \in Nat, l <= n
    PROVE  Cardinality(DOMAIN m.key) + l <= Cardinality(Nodes)
<1>1. IsFiniteSet(DOMAIN m.key)
  BY TablesAreHeads, MemoryHas
<1>2. Cardinality(DOMAIN m.key) \in Nat /\ Cardinality(Nodes) \in Nat
  BY <1>1, TableAssumption, FS_CardinalityType
<1>. QED
  BY <1>2, TablesAssumption DEF Room

LEMMA InsertRangeHeld ==
    ASSUME NEW ch, Chained(m, Tables, ch), NEW t \in Tables, InsertRange(t)
    PROVE  TablesHeld(m', Tables)
<1>1. m \in Memories(Tables) /\ Heads(Tables)
  BY TablesAreHeads DEF Chained
<1>2. Held(m, t, ch[t], FALSE)
  BY NotStale DEF InsertRange
<1>3. PICK v \in [1 .. 2 -> Keys], unique \in BOOLEAN : m' = insert_range(m, t, unique, v)
  BY DEF InsertRange
<1>4. v \in Seq(Keys) /\ Len(v) = 2
  <2>. DEFINE n == 2
  <2>1. v \in [1 .. n -> Keys] /\ n \in Nat
    BY <1>3
  <2>. HIDE DEF n
  <2>2. v \in Seq(Keys) /\ Len(v) = n
    BY <2>1
  <2>. QED
    BY <2>2 DEF n
<1>5. Cardinality(DOMAIN m.key) + 2 <= Cardinality(Nodes)
  BY <1>1, RoomFor DEF InsertRange
<1>. DEFINE r == insert_range(m, t, unique, v)
<1>6. RangeAdded(m, r, Tables, t, ch[t], v, unique)
  BY <1>1, <1>2, <1>3, <1>4, <1>5, InsertRangeIs
<1>. HIDE DEF r
<1>7. (\E q : Becomes(m, r, Tables, t, ch[t], q)) /\ Light(r, t)
  BY <1>6 DEF RangeAdded
<1>8. m' = r
  BY <1>3 DEF r
<1>. QED
  BY <1>7, <1>8, OneChanged

LEMMA ErasePosHeld ==
    ASSUME NEW ch, Chained(m, Tables, ch), NEW t \in Tables, ErasePos(t)
    PROVE  TablesHeld(m', Tables)
<1>1. m \in Memories(Tables) /\ Heads(Tables)
  BY TablesAreHeads DEF Chained
<1>2. Held(m, t, ch[t], FALSE)
  BY NotStale DEF ErasePos
<1>3. PICK n \in InTable(t) : m' = erase_pos(m, t, n)
  BY DEF ErasePos
<1>4. n \in ToSet(ch[t])
  <2>1. NodesOf(m, t) = ch[t]
    BY <1>1, <1>2, NodesOfIs DEF Held, Filed
  <2>. QED
    BY <1>3, <2>1 DEF InTable
<1>5. FirstErased(m, erase_pos(m, t, n), Tables, t, ch[t], m.key[n])
  BY <1>1, <1>2, <1>4, ErasePosIs
<1>6. PICK q : Erased(m, erase_pos(m, t, n), Tables, t, ch[t], q)
  BY <1>5 DEF FirstErased
<1>. QED
  BY <1>3, <1>6, OneErasing

\* The iterators of a table, end() with them.
LEMMA PlacesAre ==
    ASSUME NEW D, NEW s \in Seq(D), NEW places, places = Append(s, Null)
    PROVE  \A i \in 0 .. Len(s) : places[i + 1] = Behind(s, i)
<1>. DEFINE S == D \cup {Null}
<1>1. s \in Seq(S) /\ Null \in S
  BY SeqMonotonic
<1>. HIDE DEF S
<1>2. (\A i \in 1 .. Len(s) : places[i] = s[i]) /\ places[Len(s) + 1] = Null
  BY <1>1, AppendProperties
<1>3. Len(s) \in Nat
  OBVIOUS
<1>. SUFFICES ASSUME NEW i \in 0 .. Len(s) PROVE places[i + 1] = Behind(s, i)
  OBVIOUS
<1>4. CASE i < Len(s)
  <2>1. i + 1 \in 1 .. Len(s)
    BY <1>3, <1>4
  <2>. QED
    BY <1>2, <1>4, <2>1 DEF Behind
<1>5. CASE ~(i < Len(s))
  <2>1. i = Len(s)
    BY <1>3, <1>5
  <2>. QED
    BY <1>2, <1>5, <2>1 DEF Behind
<1>. QED
  BY <1>4, <1>5

LEMMA EraseRangeHeld ==
    ASSUME NEW ch, Chained(m, Tables, ch), NEW t \in Tables, EraseRange(t)
    PROVE  TablesHeld(m', Tables)
<1>. DEFINE s == ch[t]
            places == Append(NodesOf(m, t), Null)
<1>1. m \in Memories(Tables) /\ Heads(Tables)
  BY TablesAreHeads DEF Chained
<1>2. Held(m, t, s, FALSE)
  BY NotStale DEF EraseRange
<1>3. PICK r \in Ranges(m.size[t]) : m' = erase_range(m, t, places[r[1] + 1], places[r[2] + 1])
  BY DEF EraseRange
<1>. HIDE DEF s
<1>4. s \in Seq(DOMAIN m.key) /\ m.size[t] = Len(s) /\ ChainIs(m, t, s)
  BY <1>2 DEF Held, Filed, ChainIs
<1>5. Len(s) \in Nat
  BY <1>4
<1>. DEFINE a == r[1]
            e == r[2]
<1>6. a \in 0 .. Len(s) /\ e \in a .. Len(s)
  BY <1>3, <1>4, <1>5 DEF Ranges
<1>7. places = Append(s, Null)
  BY <1>1, <1>4, NodesOfIs
<1>. HIDE DEF places
<1>8. \A i \in 0 .. Len(s) : places[i + 1] = Behind(s, i)
  BY <1>4, <1>7, PlacesAre
<1>9. places[a + 1] = Behind(s, a) /\ places[e + 1] = Behind(s, e)
  <2>1. e \in 0 .. Len(s)
    BY <1>5, <1>6
  <2>. QED
    BY <1>6, <1>8, <2>1
<1>10. m' = erase_range(m, t, Behind(s, a), Behind(s, e))
  BY <1>3, <1>9
<1>. HIDE DEF a, e
<1>11. Erased(m, erase_range(m, t, Behind(s, a), Behind(s, e)), Tables, t, s, Cut(s, a, e))
  BY <1>1, <1>2, <1>6, EraseRangeIs
<1>12. Erased(m, m', Tables, t, ch[t], Cut(s, a, e))
  BY <1>10, <1>11 DEF s
<1>. QED
  BY <1>12, OneErasing

LEMMA EraseKeyHeld ==
    ASSUME NEW ch, Chained(m, Tables, ch), NEW t \in Tables, EraseKey(t)
    PROVE  TablesHeld(m', Tables)
<1>1. m \in Memories(Tables) /\ Heads(Tables)
  BY TablesAreHeads DEF Chained
<1>2. Held(m, t, ch[t], FALSE)
  BY NotStale DEF EraseKey
<1>3. PICK k \in Keys : m' = erase_key(m, t, k)
  BY DEF EraseKey
<1>4. KeyErased(m, erase_key(m, t, k), Tables, t, ch[t], k)
  BY <1>1, <1>2, <1>3, EraseKeyIs
<1>5. PICK q : Erased(m, erase_key(m, t, k), Tables, t, ch[t], q)
  BY <1>4 DEF KeyErased
<1>. QED
  BY <1>3, <1>5, OneErasing

LEMMA RehashedLight ==
    ASSUME NEW ch, Chained(m, Tables, ch), NEW t \in Tables, Held(m, t, ch[t], FALSE),
           NEW r, NEW q, Rehashed(m, r, Tables, t, ch[t], q), NEW n, Widened(m, r, t, n)
    PROVE  Light(r, t)
<1>1. Light(m, t) /\ m \in Memories(Tables) /\ Heads(Tables) /\ m.size[t] = Len(ch[t]) /\ Len(ch[t]) \in Nat
  <2>1. ch[t] \in Seq(Nodes)
    BY DEF Chained
  <2>. QED
    BY <2>1, TablesAreHeads DEF Chained, Held, Filed
<1>2. r \in Memories(Tables) /\ r.size[t] = Len(q) /\ Len(q) = Len(ch[t])
  BY DEF Rehashed, Becomes, Apart, Held, Filed
<1>3. bucket_count(r, t) \in Nat /\ bucket_count(m, t) \in Nat
  BY <1>1, <1>2, BucketIn
<1>4. bucket_count(r, t) >= bucket_count(m, t)
  BY DEF Widened
<1>. QED
  BY <1>1, <1>2, <1>3, <1>4 DEF Light

LEMMA ReserveHeld ==
    ASSUME NEW ch, Chained(m, Tables, ch), NEW t \in Tables, Reserve(t)
    PROVE  TablesHeld(m', Tables)
<1>1. m \in Memories(Tables) /\ Heads(Tables)
  BY TablesAreHeads DEF Chained
<1>2. Held(m, t, ch[t], FALSE)
  BY NotStale DEF Reserve
<1>3. PICK n \in 0 .. MaxRoom : m' = rehash(m, t, n)
  BY DEF Reserve
<1>4. n \in Nat
  BY TablesAssumption
<1>. DEFINE r == rehash(m, t, n)
<1>5. (\E q : Rehashed(m, r, Tables, t, ch[t], q)) /\ Widened(m, r, t, n)
  BY <1>1, <1>2, <1>4, RehashIs
<1>. HIDE DEF r
<1>6. PICK q : Rehashed(m, r, Tables, t, ch[t], q)
  BY <1>5
<1>7. \E w : Becomes(m, r, Tables, t, ch[t], w)
  BY <1>6 DEF Rehashed
<1>8. Light(r, t)
  BY <1>1, <1>2, <1>5, <1>6, RehashedLight
<1>9. m' = r
  BY <1>3 DEF r
<1>. QED
  BY <1>7, <1>8, <1>9, OneChanged

LEMMA ClearHeld ==
    ASSUME NEW ch, Chained(m, Tables, ch), NEW t \in Tables, Clear(t)
    PROVE  TablesHeld(m', Tables)
<1>1. m \in Memories(Tables) /\ Heads(Tables) /\ Held(m, t, ch[t], TRUE)
  BY TablesAreHeads DEF Chained
<1>2. Becomes(m, release(m, t), Tables, t, ch[t], <<>>)
  BY <1>1, ReleaseIs
<1>3. release(m, t) \in Memories(Tables) /\ Held(release(m, t), t, <<>>, FALSE)
  BY <1>2 DEF Becomes, Apart
<1>4. Light(release(m, t), t)
  BY <1>1, <1>3, EmptyLight
<1>. QED
  BY <1>2, <1>4, OneChanged DEF Clear

LEMMA OneRefilled ==
    ASSUME NEW ch, Chained(m, Tables, ch), NEW t \in Tables, NEW r, NEW v, NEW unique,
           Refilled(m, r, Tables, t, ch[t], v, unique)
    PROVE  TablesHeld(r, Tables)
<1>1. (\E q : Becomes(m, r, Tables, t, ch[t], q)) /\ Light(r, t)
  BY DEF Refilled
<1>. QED
  BY <1>1, OneChanged

LEMMA AssignListHeld ==
    ASSUME NEW ch, Chained(m, Tables, ch), NEW t \in Tables, AssignList(t)
    PROVE  TablesHeld(m', Tables)
<1>1. m \in Memories(Tables) /\ Heads(Tables) /\ Held(m, t, ch[t], TRUE)
  BY TablesAreHeads DEF Chained
<1>2. PICK v \in SeqsUpTo(Keys, 2), unique \in BOOLEAN : m' = assign_list(m, t, unique, v)
  BY DEF AssignList
<1>3. v \in Seq(Keys) /\ Len(v) \in Nat /\ Len(v) <= 2
  <2>1. PICK n \in 0 .. 2 : v \in [1 .. n -> Keys]
    BY <1>2 DEF SeqsUpTo
  <2>. QED
    BY <2>1
<1>4. Cardinality(DOMAIN m.key) + Len(v) <= Cardinality(Nodes)
  BY <1>1, <1>3, RoomFor DEF AssignList
<1>5. Refilled(m, insert_range(rehash(release(m, t), t, Len(v)), t, unique, v), Tables, t, ch[t], v, unique)
  BY <1>1, <1>2, <1>3, <1>4, AssignListIs
<1>. QED
  BY <1>2, <1>5, OneRefilled DEF assign_list

\* The keys of a table are a sequence as long as size_ says.
LEMMA KeysOfTable ==
    ASSUME NEW ch, Chained(m, Tables, ch), NEW o \in Tables
    PROVE  KeysOf(m, o) \in Seq(Keys) /\ Len(KeysOf(m, o)) = m.size[o] /\ m.size[o] \in Nat
<1>. DEFINE so == ch[o]
            stale == TRUE
<1>1. m \in Memories(Tables) /\ Heads(Tables) /\ Held(m, o, so, stale)
  BY TablesAreHeads DEF Chained
<1>. HIDE DEF so, stale
<1>2. KeysOf(m, o) \in Seq(Keys) /\ Len(KeysOf(m, o)) = m.size[o] /\ m.size[o] = Len(so) /\ Len(so) \in Nat
  BY <1>1, KeysOfIs
<1>. QED
  BY <1>2

LEMMA AssignHeld ==
    ASSUME NEW ch, Chained(m, Tables, ch), NEW t \in Tables, NEW o \in Tables, Assign(t, o)
    PROVE  TablesHeld(m', Tables)
<1>1. m \in Memories(Tables) /\ Heads(Tables) /\ Held(m, t, ch[t], TRUE) /\ Held(m, o, ch[o], TRUE)
  BY TablesAreHeads DEF Chained
<1>2. m' = assign(m, t, o) /\ Room(m.size[o])
  BY DEF Assign
<1>3. CASE t = o
  BY <1>2, <1>3 DEF assign, TablesHeld
<1>4. CASE t # o
  <2>. DEFINE v == KeysOf(m, o)
              c == bucket_count(m, o)
  <2>1. v \in Seq(Keys) /\ Len(v) = m.size[o] /\ Len(v) \in Nat /\ m.size[o] \in Nat
    BY KeysOfTable
  <2>2. c \in Nat
    BY <1>1, BucketIn
  <2>3. m' = insert_range(rehash(release(m, t), t, c), t, FALSE, v)
    BY <1>2, <1>4 DEF assign
  <2>. HIDE DEF v, c
  <2>4. Cardinality(DOMAIN m.key) + Len(v) <= Cardinality(Nodes)
    <3>1. Len(v) <= m.size[o]
      BY <2>1
    <3>. QED
      BY <1>1, <1>2, <2>1, <3>1, RoomFor
  <2>5. Refilled(m, insert_range(rehash(release(m, t), t, c), t, FALSE, v), Tables, t, ch[t], v, FALSE)
    BY <1>1, <2>1, <2>2, <2>4, AssignListIs
  <2>. QED
    BY <2>3, <2>5, OneRefilled
<1>. QED
  BY <1>3, <1>4

LEMMA CopyHeld ==
    ASSUME NEW ch, Chained(m, Tables, ch), NEW t \in Tables, NEW o \in Tables, CopyConstruct(t, o)
    PROVE  TablesHeld(m', Tables)
<1>. DEFINE v == KeysOf(m, o)
            c == bucket_count(m, o)
<1>1. m \in Memories(Tables) /\ Heads(Tables) /\ Held(m, t, ch[t], TRUE) /\ Held(m, o, ch[o], TRUE)
  BY TablesAreHeads DEF Chained
<1>2. m' = copy_construct(m, t, o) /\ Room(m.size[o])
  BY DEF CopyConstruct
<1>3. v \in Seq(Keys) /\ Len(v) = m.size[o] /\ Len(v) \in Nat /\ m.size[o] \in Nat
  BY KeysOfTable
<1>4. c \in Nat
  BY <1>1, BucketIn
<1>5. m' = insert_range([release(m, t) EXCEPT !.buckets[t] = alloc_buckets(c)], t, FALSE, v)
  BY <1>2 DEF copy_construct
<1>. HIDE DEF v, c
<1>6. Cardinality(DOMAIN m.key) + Len(v) <= Cardinality(Nodes)
  <2>1. Len(v) <= m.size[o]
    BY <1>3
  <2>. QED
    BY <1>1, <1>2, <1>3, <2>1, RoomFor
<1>7. Refilled(m, insert_range([release(m, t) EXCEPT !.buckets[t] = alloc_buckets(c)], t, FALSE, v),
               Tables, t, ch[t], v, FALSE)
  BY <1>1, <1>3, <1>4, <1>6, CopyIs
<1>. QED
  BY <1>5, <1>7, OneRefilled

LEMMA NextHeld == TablesHeld(m, Tables) /\ [TablesNext]_m => TablesHeld(m', Tables)
<1>. SUFFICES ASSUME TablesHeld(m, Tables), [TablesNext]_m PROVE TablesHeld(m', Tables)
  OBVIOUS
<1>1. PICK ch : Chained(m, Tables, ch)
  BY DEF TablesHeld
<1>2. CASE UNCHANGED m
  BY <1>2 DEF TablesHeld
<1>3. CASE TablesNext
  <2>1. PICK t \in Tables :
           \/ Insert(t) \/ InsertRange(t) \/ ErasePos(t) \/ EraseRange(t) \/ EraseKey(t) \/ Reserve(t)
           \/ Clear(t) \/ AssignList(t)
           \/ \E o \in Tables : Swap(t, o) \/ MoveConstruct(t, o) \/ CopyConstruct(t, o) \/ Assign(t, o)
    BY <1>3 DEF TablesNext
  <2>2. CASE Insert(t)
    BY <1>1, <2>2, InsertHeld
  <2>3. CASE InsertRange(t)
    BY <1>1, <2>3, InsertRangeHeld
  <2>4. CASE ErasePos(t)
    BY <1>1, <2>4, ErasePosHeld
  <2>5. CASE EraseRange(t)
    BY <1>1, <2>5, EraseRangeHeld
  <2>6. CASE EraseKey(t)
    BY <1>1, <2>6, EraseKeyHeld
  <2>7. CASE Reserve(t)
    BY <1>1, <2>7, ReserveHeld
  <2>8. CASE Clear(t)
    BY <1>1, <2>8, ClearHeld
  <2>9. CASE AssignList(t)
    BY <1>1, <2>9, AssignListHeld
  <2>10. ASSUME NEW o \in Tables, Swap(t, o) PROVE TablesHeld(m', Tables)
    <3>1. m' = swap(m, t, o)
      BY <2>10 DEF Swap
    <3>2. Chained(swap(m, t, o), Tables, ChainsSwapped(ch, Tables, t, o))
      BY <1>1, <2>10, TablesAreHeads, ChainedSwap
    <3>. QED
      BY <3>1, <3>2 DEF TablesHeld
  <2>11. ASSUME NEW o \in Tables, MoveConstruct(t, o) PROVE TablesHeld(m', Tables)
    <3>1. t # o /\ m' = move_from(m, t, o)
      BY <2>11 DEF MoveConstruct
    <3>2. TablesHeld(move_from(m, t, o), Tables)
      BY <1>1, <2>11, <3>1, TablesAreHeads, MoveHeld
    <3>. QED
      BY <3>1, <3>2
  <2>12. ASSUME NEW o \in Tables, CopyConstruct(t, o) PROVE TablesHeld(m', Tables)
    BY <1>1, <2>12, CopyHeld
  <2>13. ASSUME NEW o \in Tables, Assign(t, o) PROVE TablesHeld(m', Tables)
    BY <1>1, <2>13, AssignHeld
  <2>. QED
    BY <2>1, <2>2, <2>3, <2>4, <2>5, <2>6, <2>7, <2>8, <2>9, <2>10, <2>11, <2>12, <2>13
<1>. QED
  BY <1>2, <1>3

\* The front of a bucket, as a place of the chain that starts with the table.
LEMMA ChainFrom ==
    ASSUME NEW S, NEW s \in Seq(S), NEW t, NEW i \in 1 .. Len(s)
    PROVE  (<<t>> \o s)[i] = Place(t, s, i - 1)
<1>. DEFINE A == S \cup {t}
            u == <<t>>
            v == u \o s
            j == i - 1
<1>1. s \in Seq(A)
  BY SeqMonotonic
<1>2. u \in Seq(A) /\ Len(u) = 1 /\ u[1] = t
  OBVIOUS
<1>3. Len(s) \in Nat /\ i \in Nat /\ i > 0 /\ i <= Len(s)
  OBVIOUS
<1>. HIDE DEF A, u
<1>4. \A x \in 1 .. Len(u) + Len(s) : v[x] = IF x <= Len(u) THEN u[x] ELSE s[x - Len(u)]
  BY <1>1, <1>2, ConcatProperties
<1>. HIDE DEF v
<1>5. i \in 1 .. Len(u) + Len(s)
  BY <1>2, <1>3
<1>6. v[i] = IF i <= 1 THEN u[i] ELSE s[j]
  BY <1>2, <1>4, <1>5
<1>7. i <= 1 <=> j = 0
  BY <1>3
<1>8. i <= 1 => i = 1
  BY <1>3
<1>. HIDE DEF j
<1>9. v[i] = Place(t, s, j)
  BY <1>2, <1>6, <1>7, <1>8 DEF Place
<1>. QED
  BY <1>9 DEF v, u, j

\* A bucket as BucketsExact states it: in are the places of its nodes in the chain s.
Exact(bk, in, t, s) ==
    IF in = {} THEN bk = NoBucket
    ELSE \E i, j \in in : /\ in = i .. j /\ bk.finish = s[j]
                          /\ bk.before \in IF i = 1 THEN Tables ELSE {(<<t>> \o s)[i]}

LEMMA BucketExact ==
    ASSUME NEW ch, Chained(m, Tables, ch), NEW t \in Tables, NEW b \in DOMAIN m.buckets[t]
    PROVE  Exact(m.buckets[t][b], {i \in DOMAIN ch[t] : bucket(m, t, m.key[ch[t][i]]) = b}, t, ch[t])
<1>. DEFINE s == ch[t]
            in == {i \in DOMAIN s : bucket(m, t, m.key[s[i]]) = b}
            bk == m.buckets[t][b]
<1>1. Held(m, t, s, TRUE) /\ ChainIs(m, t, s) /\ m.size[t] = Len(s) /\ s \in Seq(DOMAIN m.key)
  BY DEF Chained, Held, Filed, ChainIs
<1>2. BucketRight(m, t, s, b, TRUE)
  BY DEF Chained, Held, Filed, BucketsRight
<1>3. BehindHead(m, Tables, t, s)
  BY DEF Chained
<1>. HIDE DEF s
<1>4. Len(s) \in Nat /\ DOMAIN s = 1 .. Len(s)
  BY <1>1
<1>5. in = {i \in 1 .. Len(s) : In(m, t, s, b, i)}
  BY <1>4 DEF In
<1>. HIDE DEF in, bk
<1>6. ASSUME Vacant(m, t, s, b), bk = NoBucket PROVE Exact(bk, in, t, s)
  <2>1. in = {}
    BY <1>5, <1>6 DEF Vacant
  <2>. QED
    BY <1>6, <2>1 DEF Exact
<1>7. ASSUME NEW lo \in 1 .. Len(s), NEW hi \in 1 .. Len(s), Block(m, t, s, b, lo, hi), bk.finish = s[hi],
             bk.before = Place(t, s, lo - 1) \/ lo = 1
      PROVE  Exact(bk, in, t, s)
  <2>1. in = lo .. hi
    <3>1. \A i \in 1 .. Len(s) : In(m, t, s, b, i) <=> lo <= i /\ i <= hi
      BY <1>7 DEF Block
    <3>2. \A i \in lo .. hi : i \in 1 .. Len(s) /\ lo <= i /\ i <= hi
      BY <1>4
    <3>3. \A i \in 1 .. Len(s) : lo <= i /\ i <= hi => i \in lo .. hi
      BY <1>4
    <3>. QED
      BY <1>5, <3>1, <3>2, <3>3
  <2>2. lo \in lo .. hi /\ hi \in lo .. hi
    BY <1>4, <1>7 DEF Block
  <2>3. (<<t>> \o s)[lo] = Place(t, s, lo - 1)
    BY <1>1, ChainFrom
  <2>4. bk.before \in IF lo = 1 THEN Tables ELSE {(<<t>> \o s)[lo]}
    <3>1. CASE lo = 1
      <4>1. Len(s) > 0 /\ In(m, t, s, b, 1)
        BY <1>4, <1>5, <2>1, <2>2, <3>1
      <4>2. bk.before \in Tables
        BY <1>3, <4>1 DEF BehindHead, In, bk
      <4>. QED
        BY <3>1, <4>2
    <3>2. CASE lo # 1
      BY <1>7, <2>3, <3>2
    <3>. QED
      BY <3>1, <3>2
  <2>5. lo \in in /\ hi \in in /\ in # {}
    BY <2>1, <2>2
  <2>. QED
    BY <1>7, <2>1, <2>4, <2>5 DEF Exact
<1>8. \/ Vacant(m, t, s, b) /\ bk = NoBucket
      \/ \E lo, hi \in 1 .. Len(s) :
            /\ Block(m, t, s, b, lo, hi) /\ bk.finish = s[hi]
            /\ bk.before = Place(t, s, lo - 1) \/ lo = 1
  BY <1>2 DEF BucketRight, bk
<1>9. Exact(bk, in, t, s)
  BY <1>6, <1>7, <1>8
<1>. QED
  BY <1>9 DEF s, in, bk

LEMMA HeldExact == TablesHeld(m, Tables) => BucketsExact
<1>. SUFFICES ASSUME TablesHeld(m, Tables) PROVE BucketsExact
  OBVIOUS
<1>1. PICK ch : Chained(m, Tables, ch)
  BY DEF TablesHeld
<1>2. ASSUME NEW t \in Tables
      PROVE  /\ ChainIs(m, t, ch[t]) /\ ch[t] \in Seq(DOMAIN m.key) /\ m.size[t] = Len(ch[t]) /\ Together(m, ch[t])
             /\ NodesOf(m, t) = ch[t] /\ InTable(t) = ToSet(ch[t]) /\ DOMAIN ch[t] = 1 .. Len(ch[t])
             /\ ToSet(ch[t]) \subseteq DOMAIN m.key /\ Cardinality(ToSet(ch[t])) = m.size[t]
  <2>1. ChainIs(m, t, ch[t]) /\ m.size[t] = Len(ch[t]) /\ Together(m, ch[t])
    BY <1>1 DEF Chained, Held, Filed
  <2>2. ch[t] \in Seq(DOMAIN m.key) /\ Distinct(ch[t])
    BY <2>1 DEF ChainIs
  <2>3. NodesOf(m, t) = ch[t]
    BY <1>1, <2>1, TablesAreHeads, NodesOfIs DEF Chained
  <2>4. ToSet(ch[t]) \subseteq DOMAIN m.key /\ DOMAIN ch[t] = 1 .. Len(ch[t])
    BY <2>2, ElementsOf
  <2>5. Cardinality(ToSet(ch[t])) = Len(ch[t])
    BY <2>2, DistinctCount
  <2>. QED
    BY <2>1, <2>2, <2>3, <2>4, <2>5 DEF InTable
<1>3. ASSUME NEW t \in Tables, NEW b \in DOMAIN m.buckets[t]
      PROVE  Exact(m.buckets[t][b], {i \in DOMAIN NodesOf(m, t) : bucket(m, t, m.key[NodesOf(m, t)[i]]) = b},
                   t, NodesOf(m, t))
  BY <1>1, <1>2, <1>3, BucketExact
<1>4. ASSUME NEW t \in Tables, NEW i \in DOMAIN NodesOf(m, t), NEW j \in DOMAIN NodesOf(m, t),
             m.key[NodesOf(m, t)[i]] = m.key[NodesOf(m, t)[j]], NEW h \in i .. j
      PROVE  m.key[NodesOf(m, t)[h]] = m.key[NodesOf(m, t)[i]]
  <2>. DEFINE s == ch[t]
  <2>1. NodesOf(m, t) = s /\ DOMAIN s = 1 .. Len(s) /\ s \in Seq(DOMAIN m.key) /\ Together(m, s)
    BY <1>2
  <2>. HIDE DEF s
  <2>2. i \in 1 .. Len(s) /\ j \in 1 .. Len(s) /\ m.key[s[i]] = m.key[s[j]]
    BY <1>4, <2>1
  <2>3. Len(s) \in Nat
    BY <2>1
  <2>4. h \in 1 .. Len(s) /\ i <= h /\ h <= j
    BY <2>2, <2>3
  <2>. QED
    BY <2>1, <2>2, <2>4 DEF Together
<1>5. DOMAIN m.key = UNION {InTable(t) : t \in Tables}
  <2>1. \A x \in DOMAIN m.key : \E t \in Tables : x \in ToSet(ch[t])
    BY <1>1 DEF Chained
  <2>. QED
    BY <1>2, <2>1
<1>6. ASSUME NEW t \in Tables, NEW o \in Tables \ {t} PROVE InTable(t) \cap InTable(o) = {}
  BY <1>1, <1>2 DEF Chained
<1>. QED
  BY <1>2, <1>3, <1>4, <1>5, <1>6 DEF BucketsExact, Exact

\* Whatever the calls before, every table is a chain of nodes of its own and
\* its buckets are right, but that the bucket of its first node may be behind
\* the head of another table, where swap and move leave it (hash_table.h).
THEOREM TablesInvariant == TablesSpec => []TablesHeld(m, Tables)
<1>1. TablesInit => TablesHeld(m, Tables)
  BY InitHeld
<1>2. TablesHeld(m, Tables) /\ [TablesNext]_m => TablesHeld(m, Tables)'
  <2>1. TablesHeld(m, Tables)' <=> TablesHeld(m', Tables)
    BY DEF TablesHeld, Chained, BehindHead, Memories, Held, Filed, Light
  <2>. QED
    BY <2>1, NextHeld
<1>. QED
  BY <1>1, <1>2, PTL DEF TablesSpec

\* Every node is in one table, size_ counts them, nodes of one key are
\* neighbours, and every bucket is exactly its last node and the node before
\* its first, but for the one bucket a table's first node is in: that is behind
\* a head, and a swap or a move makes it the head of another table.  It is so
\* with any number of tables of any size, with any keys in a bucket, after any
\* calls in any order (hash_table.h).
THEOREM TablesBuckets == TablesSpec => []BucketsExact
<1>1. TablesHeld(m, Tables) => BucketsExact
  BY HeldExact
<1>. QED
  BY <1>1, TablesInvariant, PTL

-----------------------------------------------------------------------------
(* What is in a table.                                                     *)

LEMMA PlacesCount ==
    ASSUME NEW S, NEW s \in Seq(S), Distinct(s), NEW mem, NEW k
    PROVE  Amount([i \in DOMAIN s |-> mem.key[s[i]]], k) = Bears(mem, s, k)
<1>. DEFINE n == Len(s)
            A == {i \in 1 .. n : mem.key[s[i]] = k}
            B == Bearing(mem, s, k)
            f == [i \in A |-> s[i]]
            w == [i \in DOMAIN s |-> mem.key[s[i]]]
<1>1. n \in Nat /\ DOMAIN s = 1 .. n /\ ToSet(s) = {s[i] : i \in 1 .. n}
  BY ElementsOf
<1>2. Amount(w, k) = Cardinality(A)
  <2>1. {i \in DOMAIN w : w[i] = k} = A
    BY <1>1
  <2>. HIDE DEF w
  <2>. QED
    BY <2>1 DEF Amount
<1>3. IsFiniteSet(A)
  <2>1. 1 \in Int /\ n \in Int
    BY <1>1
  <2>2. A \subseteq 1 .. n
    OBVIOUS
  <2>. HIDE DEF A, n
  <2>3. IsFiniteSet(1 .. n)
    BY <2>1, FS_Interval
  <2>. QED
    BY <2>2, <2>3, FS_Subset
<1>4. \A i, j \in A : s[i] = s[j] => i = j
  BY DEF Distinct
<1>5. \A x \in B : \E i \in A : s[i] = x
  BY <1>1 DEF Bearing
<1>6. \A i \in A : s[i] \in B
  BY <1>1 DEF Bearing
<1>. HIDE DEF n, A, B
<1>7. f \in Bijection(A, B)
  BY <1>4, <1>5, <1>6 DEF Bijection, Injection, Surjection, IsInjective
<1>8. ExistsBijection(A, B)
  BY <1>7 DEF ExistsBijection
<1>9. Cardinality(B) = Cardinality(A)
  BY <1>3, <1>8, FS_Bijection
<1>. QED
  BY <1>2, <1>9 DEF Bears, B

\* How many of each key the nodes of s have.
BearsOf(mem, s) == [k \in Keys |-> Bears(mem, s, k)]

LEMMA AmountsAre ==
    ASSUME NEW T, Heads(T), NEW mem \in Memories(T), NEW t \in T, NEW s, NEW stale, Held(mem, t, s, stale)
    PROVE  Amounts(KeysOf(mem, t)) = BearsOf(mem, s)
<1>1. ChainIs(mem, t, s) /\ s \in Seq(DOMAIN mem.key) /\ Distinct(s)
  BY DEF Held, Filed, ChainIs
<1>2. NodesOf(mem, t) = s
  BY <1>1, NodesOfIs
<1>. DEFINE w == [i \in DOMAIN s |-> mem.key[s[i]]]
<1>3. KeysOf(mem, t) = w
  BY <1>2 DEF KeysOf
<1>4. \A k \in Keys : Amount(w, k) = Bears(mem, s, k)
  BY <1>1, PlacesCount
<1>. HIDE DEF w
<1>. QED
  BY <1>3, <1>4 DEF Amounts, BearsOf

\* equal_range finds all the nodes of a key.
LEMMA RangeCount ==
    ASSUME NEW T, Heads(T), NEW mem \in Memories(T), NEW t \in T, NEW s, Held(mem, t, s, FALSE), NEW k \in Keys
    PROVE  Len(find_range(mem, t, k)) = Bears(mem, s, k)
<1>1. s \in Seq(DOMAIN mem.key) /\ Distinct(s) /\ Len(s) \in Nat /\ DOMAIN s = 1 .. Len(s)
  BY DEF Held, Filed, ChainIs
<1>. DEFINE A == {i \in 1 .. Len(s) : mem.key[s[i]] = k}
<1>2. Bears(mem, s, k) = Cardinality(A)
  <2>. DEFINE w == [i \in DOMAIN s |-> mem.key[s[i]]]
  <2>1. {i \in DOMAIN w : w[i] = k} = A
    BY <1>1
  <2>2. Amount(w, k) = Bears(mem, s, k)
    BY <1>1, PlacesCount
  <2>. HIDE DEF w
  <2>. QED
    BY <2>1, <2>2 DEF Amount
<1>3. CASE Missing(mem, s, k) /\ find_range(mem, t, k) = <<>>
  <2>1. A = {}
    BY <1>3 DEF Missing
  <2>2. Cardinality(A) = 0
    BY <2>1, FS_EmptySet
  <2>3. Len(find_range(mem, t, k)) = 0
    BY <1>3
  <2>. QED
    BY <1>2, <2>2, <2>3
<1>4. ASSUME NEW p \in 0 .. Len(s), NEW j \in 0 .. Len(s), RangeAt(mem, t, s, k, p, j)
      PROVE  Len(find_range(mem, t, k)) = Bears(mem, s, k)
  <2>1. /\ j \in p + 1 .. Len(s) /\ find_range(mem, t, k) = SubSeq(s, p + 1, j)
        /\ \A h \in 1 .. Len(s) : mem.key[s[h]] = k <=> p < h /\ h <= j
    BY <1>4 DEF RangeAt
  <2>2. p \in Nat /\ j \in Nat /\ p < j /\ j <= Len(s) /\ j \in p .. Len(s)
    BY <1>1, <2>1
  <2>3. Len(find_range(mem, t, k)) = j - p
    BY <1>1, <2>1, <2>2, PieceIs
  <2>4. A = p + 1 .. j
    <3>1. \A h \in 1 .. Len(s) : p < h /\ h <= j <=> h \in p + 1 .. j
      BY <2>2
    <3>2. \A h \in p + 1 .. j : h \in 1 .. Len(s)
      BY <1>1, <2>2
    <3>. QED
      BY <2>1, <3>1, <3>2
  <2>5. Cardinality(p + 1 .. j) = j - p
    <3>1. Cardinality(p + 1 .. j) = IF p + 1 > j THEN 0 ELSE j - (p + 1) + 1
      BY <2>2, FS_Interval
    <3>. QED
      BY <2>2, <3>1
  <2>. QED
    BY <1>2, <2>3, <2>4, <2>5
<1>. QED
  BY <1>3, <1>4, FindRangeIs

\* What a call that makes q of table t leaves.
LEMMA LeavesIs ==
    ASSUME NEW ch, Chained(m, Tables, ch), NEW t \in Tables, NEW r, NEW q, Becomes(m, r, Tables, t, ch[t], q), Light(r, t),
           NEW kept, \A n \in kept : n \in ToSet(q) /\ r.key[n] = m.key[n]
    PROVE  Leaves(r, t, kept, BearsOf(r, q))
<1>1. Heads(Tables) /\ m \in Memories(Tables)
  BY TablesAreHeads DEF Chained
<1>2. r \in Memories(Tables) /\ Held(r, t, q, FALSE) /\ ChainIs(r, t, q) /\ Apart(m, r, Tables, t, ToSet(ch[t]), ToSet(q))
  BY DEF Becomes, Apart, Held, Filed
<1>3. Amounts(KeysOf(r, t)) = BearsOf(r, q)
  BY <1>1, <1>2, AmountsAre
<1>4. \A k \in Keys : Len(find_range(r, t, k)) = BearsOf(r, q)[k]
  BY <1>1, <1>2, RangeCount DEF BearsOf
<1>5. NodesOf(r, t) = q
  BY <1>1, <1>2, NodesOfIs
<1>6. ASSUME NEW o \in Tables \ {t} PROVE NodesOf(r, o) = NodesOf(m, o)
  <2>1. Held(m, o, ch[o], TRUE) /\ ToSet(ch[o]) \cap ToSet(ch[t]) = {}
    BY DEF Chained
  <2>2. Held(r, o, ch[o], TRUE)
    BY <1>2, <2>1, KeptElsewhere
  <2>3. NodesOf(r, o) = ch[o]
    BY <1>1, <1>2, <2>2, NodesOfIs DEF Held, Filed
  <2>4. NodesOf(m, o) = ch[o]
    BY <1>1, <2>1, NodesOfIs DEF Held, Filed
  <2>. QED
    BY <2>3, <2>4
<1>7. 4 * r.size[t] <= 3 * bucket_count(r, t)
  BY DEF Light
<1>. QED
  BY <1>3, <1>4, <1>5, <1>6, <1>7 DEF Leaves

\* A call that only erases leaves the nodes of q their keys.
LEMMA ErasedLeaves ==
    ASSUME NEW ch, Chained(m, Tables, ch), NEW t \in Tables, NEW r, NEW q, Erased(m, r, Tables, t, ch[t], q),
           NEW kept, kept \subseteq ToSet(q)
    PROVE  Leaves(r, t, kept, BearsOf(m, q))
<1>1. m \in Memories(Tables) /\ Heads(Tables) /\ Held(m, t, ch[t], TRUE) /\ Light(m, t)
  BY TablesAreHeads DEF Chained
<1>2. Light(r, t)
  BY <1>1, ErasedLight
<1>3. Becomes(m, r, Tables, t, ch[t], q) /\ KeysStay(m, r)
  BY DEF Erased
<1>4. \A x \in ToSet(q) : r.key[x] = m.key[x]
  <2>1. ToSet(q) \subseteq DOMAIN r.key
    BY <1>3 DEF Becomes, Apart
  <2>. QED
    BY <1>3, <2>1 DEF KeysStay
<1>5. \A k : Bearing(r, q, k) = Bearing(m, q, k)
  BY <1>4 DEF Bearing
<1>6. BearsOf(r, q) = BearsOf(m, q)
  BY <1>5 DEF BearsOf, Bears
<1>7. \A n \in kept : n \in ToSet(q) /\ r.key[n] = m.key[n]
  BY <1>4
<1>8. Leaves(r, t, kept, BearsOf(r, q))
  BY <1>2, <1>3, <1>7, LeavesIs
<1>. QED
  BY <1>6, <1>8

LEMMA BearsNone ==
    ASSUME NEW T, Heads(T), NEW mem \in Memories(T), NEW s \in Seq(DOMAIN mem.key), NEW k
    PROVE  Missing(mem, s, k) <=> ~(Bears(mem, s, k) > 0)
<1>1. ToSet(s) = {s[i] : i \in 1 .. Len(s)} /\ ToSet(s) \subseteq DOMAIN mem.key
  BY ElementsOf
<1>2. Bears(mem, s, k) \in Nat /\ IsFiniteSet(Bearing(mem, s, k))
  BY <1>1, BearsNat
<1>3. Bears(mem, s, k) = 0 <=> Bearing(mem, s, k) = {}
  BY <1>2, FS_EmptySet DEF Bears
<1>4. Bearing(mem, s, k) = {} <=> Missing(mem, s, k)
  BY <1>1 DEF Bearing, Missing
<1>. QED
  BY <1>2, <1>3, <1>4

\* What a table has after an insertion.
InsertedAmounts(now, unique, k) == IF unique /\ now[k] > 0 THEN now ELSE [now EXCEPT ![k] = @ + 1]

LEMMA InsertLeaves ==
    ASSUME NEW ch, Chained(m, Tables, ch), NEW t \in Tables, ~Stale(t), Room(1),
           NEW k \in Keys, NEW unique \in BOOLEAN, NEW hint \in ToSet(ch[t]) \cup {Null}
    PROVE  Leaves(insert(m, t, unique, hint, k), t, ToSet(ch[t]), InsertedAmounts(BearsOf(m, ch[t]), unique, k))
<1>. DEFINE s == ch[t]
            now == BearsOf(m, s)
            r == insert(m, t, unique, hint, k)
<1>1. m \in Memories(Tables) /\ Heads(Tables) /\ Light(m, t) /\ Held(m, t, s, FALSE)
  BY TablesAreHeads, NotStale DEF Chained
<1>2. s \in Seq(DOMAIN m.key)
  BY <1>1 DEF Held, Filed, ChainIs
<1>3. Roomy(m)
  <2>1. Cardinality(DOMAIN m.key) + 1 <= Cardinality(Nodes)
    BY <1>1, RoomFor
  <2>2. IsFiniteSet(DOMAIN m.key)
    BY <1>1, MemoryHas
  <2>3. Cardinality(DOMAIN m.key) \in Nat /\ Cardinality(Nodes) \in Nat
    BY <2>2, TableAssumption, FS_CardinalityType
  <2>. QED
    BY <2>1, <2>3 DEF Roomy
<1>4. \/ unique /\ ~Missing(m, s, k) /\ insert(m, t, unique, hint, k) = m
      \/ (unique => Missing(m, s, k)) /\ AddsKey(m, insert(m, t, unique, hint, k), Tables, t, s, k)
  <2>1. hint \in ToSet(s) \cup {Null}
    OBVIOUS
  <2>. HIDE DEF s
  <2>. QED
    BY <1>1, <1>3, <2>1, InsertIs
<1>5. Missing(m, s, k) <=> ~(now[k] > 0)
  <2>. HIDE DEF s
  <2>1. Missing(m, s, k) <=> ~(Bears(m, s, k) > 0)
    BY <1>1, <1>2, BearsNone
  <2>. QED
    BY <2>1 DEF BearsOf
<1>. HIDE DEF now, r
<1>6. CASE unique /\ ~Missing(m, s, k) /\ r = m
  <2>1. Becomes(m, m, Tables, t, s, s)
    BY <1>1, BecomesSame
  <2>2. Leaves(m, t, ToSet(s), BearsOf(m, s))
    BY <1>1, <2>1, LeavesIs
  <2>3. InsertedAmounts(now, unique, k) = now
    BY <1>5, <1>6 DEF InsertedAmounts
  <2>. QED
    BY <1>6, <2>2, <2>3 DEF now, r
<1>7. CASE (unique => Missing(m, s, k)) /\ AddsKey(m, r, Tables, t, s, k)
  <2>. DEFINE n == Fresh(m, Nodes)
  <2>1. n \notin DOMAIN m.key /\ KeysWith(m, r, n, k) /\ (\E q : Becomes(m, r, Tables, t, s, q)) /\ Light(r, t)
    BY <1>7 DEF AddsKey
  <2>. HIDE DEF n
  <2>2. PICK q : Becomes(m, r, Tables, t, s, q)
    BY <2>1
  <2>3. NodesWith(m, r, s, q, n) /\ OneMore(m, r, s, q, k)
    BY <1>1, <2>1, <2>2, KeyAdded
  <2>4. \A x \in ToSet(s) : x \in ToSet(q) /\ r.key[x] = m.key[x]
    BY <2>3 DEF NodesWith
  <2>5. Leaves(r, t, ToSet(s), BearsOf(r, q))
    BY <2>1, <2>2, <2>4, LeavesIs
  <2>6. BearsOf(r, q) = [now EXCEPT ![k] = @ + 1]
    <3>1. \A x \in Keys : Bears(m, s, x) \in Nat
      <4>1. ToSet(s) \subseteq DOMAIN m.key
        BY <1>2, ElementsOf
      <4>. QED
        BY <1>1, <4>1, BearsNat
    <3>2. \A x \in Keys : Bears(r, q, x) = Bears(m, s, x) + IF x = k THEN 1 ELSE 0
      BY <2>3 DEF OneMore
    <3>3. \A x \in Keys : Bears(r, q, x) = IF x = k THEN Bears(m, s, x) + 1 ELSE Bears(m, s, x)
      BY <3>1, <3>2
    <3>. HIDE DEF s
    <3>. QED
      BY <3>3 DEF BearsOf, now
  <2>7. InsertedAmounts(now, unique, k) = [now EXCEPT ![k] = @ + 1]
    BY <1>5, <1>7 DEF InsertedAmounts
  <2>. QED
    BY <2>5, <2>6, <2>7 DEF now, r
<1>. QED
  BY <1>4, <1>6, <1>7 DEF r

LEMMA ErasePosLeaves ==
    ASSUME NEW ch, Chained(m, Tables, ch), NEW t \in Tables, ~Stale(t), NEW n \in ToSet(ch[t])
    PROVE  Leaves(erase_pos(m, t, n), t, {o \in ToSet(ch[t]) : m.key[o] # m.key[n]},
                  [BearsOf(m, ch[t]) EXCEPT ![m.key[n]] = @ - 1])
<1>. DEFINE s == ch[t]
            now == BearsOf(m, s)
            k == m.key[n]
            r == erase_pos(m, t, n)
            kept == {o \in ToSet(s) : m.key[o] # k}
<1>1. m \in Memories(Tables) /\ Heads(Tables) /\ Held(m, t, s, FALSE)
  BY TablesAreHeads, NotStale DEF Chained
<1>2. FirstErased(m, r, Tables, t, s, k)
  BY <1>1, ErasePosIs
<1>3. ToSet(s) \subseteq DOMAIN m.key
  <2>1. s \in Seq(DOMAIN m.key)
    BY <1>1 DEF Held, Filed, ChainIs
  <2>. QED
    BY <2>1, ElementsOf
<1>. HIDE DEF k, r
<1>4. PICK q : /\ Erased(m, r, Tables, t, s, q)
               /\ \E x \in ToSet(s) : m.key[x] = k /\ ToSet(q) = ToSet(s) \ {x}
  BY <1>2 DEF FirstErased
<1>5. PICK x \in ToSet(s) : m.key[x] = k /\ ToSet(q) = ToSet(s) \ {x}
  BY <1>4
<1>6. kept \subseteq ToSet(q)
  BY <1>5
<1>. HIDE DEF kept
<1>7. Leaves(r, t, kept, BearsOf(m, q))
  BY <1>4, <1>6, ErasedLeaves
<1>. HIDE DEF s
<1>8. BearsOf(m, q) = [now EXCEPT ![k] = @ - 1]
  <2>1. ASSUME NEW y \in Keys PROVE Bears(m, q, y) = IF y = k THEN Bears(m, s, y) - 1 ELSE Bears(m, s, y)
    <3>. DEFINE A == Bearing(m, s, y)
                B == Bearing(m, q, y)
    <3>1. IsFiniteSet(A)
      BY <1>1, <1>3, BearsNat
    <3>2. y = k => x \in A /\ B = A \ {x}
      BY <1>5 DEF Bearing
    <3>3. y # k => B = A
      BY <1>5 DEF Bearing
    <3>. HIDE DEF A, B
    <3>4. y = k => Cardinality(B) = Cardinality(A) - 1
      BY <3>1, <3>2, FS_RemoveElement
    <3>. QED
      BY <3>3, <3>4 DEF Bears, A, B
  <2>. QED
    BY <2>1 DEF BearsOf, now
<1>9. Leaves(r, t, kept, [now EXCEPT ![k] = @ - 1])
  BY <1>7, <1>8
<1>. QED
  BY <1>9 DEF s, r, k, kept, now

LEMMA EraseKeyLeaves ==
    ASSUME NEW ch, Chained(m, Tables, ch), NEW t \in Tables, ~Stale(t), NEW k \in Keys
    PROVE  Leaves(erase_key(m, t, k), t, {o \in ToSet(ch[t]) : m.key[o] # k}, [BearsOf(m, ch[t]) EXCEPT ![k] = 0])
<1>. DEFINE s == ch[t]
            now == BearsOf(m, s)
            r == erase_key(m, t, k)
            kept == {o \in ToSet(s) : m.key[o] # k}
<1>1. m \in Memories(Tables) /\ Heads(Tables) /\ Held(m, t, s, FALSE)
  BY TablesAreHeads, NotStale DEF Chained
<1>2. KeyErased(m, r, Tables, t, s, k)
  BY <1>1, EraseKeyIs
<1>. HIDE DEF r
<1>3. PICK q : Erased(m, r, Tables, t, s, q) /\ ToSet(q) = kept
  BY <1>2 DEF KeyErased
<1>4. kept \subseteq ToSet(q)
  BY <1>3
<1>5. Leaves(r, t, kept, BearsOf(m, q))
  <2>. HIDE DEF kept
  <2>. QED
    BY <1>3, <1>4, ErasedLeaves
<1>6. BearsOf(m, q) = [now EXCEPT ![k] = 0]
  <2>. HIDE DEF s
  <2>1. \A y \in Keys : y # k => Bearing(m, q, y) = Bearing(m, s, y)
    BY <1>3 DEF Bearing
  <2>2. Bearing(m, q, k) = {}
    BY <1>3 DEF Bearing
  <2>3. Cardinality(Bearing(m, q, k)) = 0
    BY <2>2, FS_EmptySet
  <2>4. \A y \in Keys : Bears(m, q, y) = IF y = k THEN 0 ELSE Bears(m, s, y)
    BY <2>1, <2>3 DEF Bears
  <2>. QED
    BY <2>4 DEF BearsOf, now
<1>. HIDE DEF kept, now
<1>7. Leaves(r, t, kept, [now EXCEPT ![k] = 0])
  BY <1>5, <1>6
<1>. QED
  BY <1>7 DEF s, r, kept, now

LEMMA RehashLeaves ==
    ASSUME NEW ch, Chained(m, Tables, ch), NEW t \in Tables, ~Stale(t), NEW n \in Nat
    PROVE  Leaves(rehash(m, t, n), t, ToSet(ch[t]), BearsOf(m, ch[t])) /\ 4 * n <= 3 * bucket_count(rehash(m, t, n), t)
<1>. DEFINE s == ch[t]
            r == rehash(m, t, n)
<1>1. m \in Memories(Tables) /\ Heads(Tables) /\ Held(m, t, s, FALSE)
  BY TablesAreHeads, NotStale DEF Chained
<1>2. (\E q : Rehashed(m, r, Tables, t, s, q)) /\ Widened(m, r, t, n)
  BY <1>1, RehashIs
<1>. HIDE DEF r
<1>3. PICK q : Rehashed(m, r, Tables, t, s, q)
  BY <1>2
<1>4. Becomes(m, r, Tables, t, s, q) /\ r.key = m.key /\ ToSet(q) = ToSet(s)
  BY <1>3 DEF Rehashed
<1>5. Light(r, t)
  BY <1>1, <1>2, <1>3, RehashedLight
<1>6. Leaves(r, t, ToSet(s), BearsOf(r, q))
  BY <1>4, <1>5, LeavesIs
<1>7. BearsOf(r, q) = BearsOf(m, s)
  <2>1. \A k : Bearing(r, q, k) = Bearing(m, s, k)
    BY <1>4 DEF Bearing
  <2>. QED
    BY <2>1 DEF BearsOf, Bears
<1>8. 4 * n <= 3 * bucket_count(r, t)
  BY <1>2 DEF Widened
<1>. QED
  BY <1>6, <1>7, <1>8 DEF s, r

\* A range of a sequence cut out.
LEMMA SpliceIsCut ==
    ASSUME NEW S, NEW s \in Seq(S), NEW a \in 0 .. Len(s), NEW e \in a .. Len(s)
    PROVE  Splice(s, a, e, <<>>) = Cut(s, a, e)
<1>. DEFINE n == Len(s)
            u == SubSeq(s, 1, a)
            v == SubSeq(s, e + 1, n)
            w == u \o v
            q == Cut(s, a, e)
<1>1. n \in Nat /\ a \in Nat /\ e \in Nat /\ a <= e /\ e <= n /\ 0 \in 0 .. n /\ a \in 0 .. n /\ e \in 0 .. n /\ n \in e .. n
  OBVIOUS
<1>2. u \in Seq(S) /\ Len(u) = a /\ \A i \in 1 .. a : u[i] = s[i]
  <2>. DEFINE z == 0
  <2>1. z \in 0 .. Len(s) /\ a \in z .. Len(s)
    BY <1>1
  <2>2. z + 1 = 1 /\ a - z = a /\ \A i \in 1 .. a : z + i = i
    BY <1>1
  <2>3. /\ SubSeq(s, z + 1, a) \in Seq(S) /\ Len(SubSeq(s, z + 1, a)) = a - z
        /\ \A i \in 1 .. a - z : SubSeq(s, z + 1, a)[i] = s[z + i] /\ z + i \in 1 .. Len(s)
    <3>. HIDE DEF z
    <3>. QED
      BY <2>1, PieceIs
  <2>. QED
    BY <2>2, <2>3
<1>3. v \in Seq(S) /\ Len(v) = n - e /\ \A i \in 1 .. n - e : v[i] = s[e + i]
  <2>1. e \in 0 .. Len(s) /\ Len(s) \in e .. Len(s)
    BY <1>1
  <2>. QED
    BY <2>1, PieceIs
<1>4. q \in Seq(S) /\ Len(q) = n - (e - a)
  BY CutIs
<1>5. \A i \in 1 .. n - (e - a) : q[i] = IF i <= a THEN s[i] ELSE s[i + (e - a)]
  BY DEF Cut
<1>6. Splice(s, a, e, <<>>) = w
  <2>1. u \o <<>> = u
    <3>. HIDE DEF u
    <3>. QED
      BY <1>2
  <2>2. Splice(s, a, e, <<>>) = (u \o <<>>) \o v
    BY DEF Splice
  <2>. HIDE DEF u, v
  <2>. QED
    BY <2>1, <2>2
<1>. HIDE DEF u, v, q, n
<1>7. w \in Seq(S) /\ Len(w) = a + (n - e) /\ \A i \in 1 .. Len(u) + Len(v) : w[i] = IF i <= Len(u) THEN u[i] ELSE v[i - Len(u)]
  BY <1>2, <1>3, ConcatProperties
<1>. HIDE DEF w
<1>8. ASSUME NEW i \in 1 .. Len(w) PROVE w[i] = q[i]
  <2>1. i \in 1 .. n - (e - a) /\ i \in 1 .. Len(u) + Len(v) /\ i \in Nat /\ i <= n - (e - a) /\ i > 0
    BY <1>1, <1>2, <1>3, <1>7
  <2>2. CASE i <= a
    <3>1. i \in 1 .. a
      BY <2>1, <2>2
    <3>. QED
      BY <1>2, <1>5, <1>7, <2>1, <2>2, <3>1
  <2>3. CASE ~(i <= a)
    <3>1. i - a \in 1 .. n - e /\ e + (i - a) = i + (e - a)
      BY <1>1, <2>1, <2>3
    <3>2. w[i] = v[i - a]
      BY <1>2, <1>7, <2>1, <2>3
    <3>3. v[i - a] = s[e + (i - a)]
      BY <1>3, <3>1
    <3>. QED
      BY <1>5, <2>1, <2>3, <3>1, <3>2, <3>3
  <2>. QED
    BY <2>2, <2>3
<1>9. Len(w) = Len(q)
  BY <1>1, <1>4, <1>7
<1>10. w = q
  BY <1>4, <1>7, <1>8, <1>9, SeqSame
<1>. QED
  BY <1>6, <1>10 DEF q

LEMMA EraseRangeLeaves ==
    ASSUME NEW ch, Chained(m, Tables, ch), NEW t \in Tables, ~Stale(t),
           NEW a \in 0 .. Len(ch[t]), NEW e \in a .. Len(ch[t]), NEW kept, kept = Cut(ch[t], a, e)
    PROVE  Leaves(erase_range(m, t, Behind(ch[t], a), Behind(ch[t], e)), t, ToSet(kept),
                  Amounts([i \in DOMAIN kept |-> m.key[kept[i]]]))
<1>. DEFINE s == ch[t]
            r == erase_range(m, t, Behind(s, a), Behind(s, e))
<1>1. m \in Memories(Tables) /\ Heads(Tables) /\ Held(m, t, s, FALSE)
  BY TablesAreHeads, NotStale DEF Chained
<1>2. Erased(m, r, Tables, t, s, kept)
  <2>1. a \in 0 .. Len(s) /\ e \in a .. Len(s) /\ kept = Cut(s, a, e)
    OBVIOUS
  <2>. HIDE DEF s
  <2>2. Erased(m, r, Tables, t, s, Cut(s, a, e))
    BY <1>1, <2>1, EraseRangeIs
  <2>. HIDE DEF r
  <2>. QED
    BY <2>1, <2>2
<1>. HIDE DEF r
<1>3. Leaves(r, t, ToSet(kept), BearsOf(m, kept))
  BY <1>2, ErasedLeaves
<1>4. kept \in Seq(DOMAIN r.key) /\ Distinct(kept)
  BY <1>2 DEF Erased, Becomes, Held, Filed, ChainIs
<1>. DEFINE w == [i \in DOMAIN kept |-> m.key[kept[i]]]
<1>5. \A k : Amount(w, k) = Bears(m, kept, k)
  BY <1>4, PlacesCount
<1>. HIDE DEF w
<1>6. Amounts(w) = BearsOf(m, kept)
  BY <1>5 DEF Amounts, BearsOf
<1>7. Leaves(r, t, ToSet(kept), Amounts(w))
  BY <1>3, <1>6
<1>. QED
  BY <1>7 DEF r, s, w

\* A table that is filled with the keys of a sequence has these and no others.
LEMMA RefilledLeaves ==
    ASSUME NEW ch, Chained(m, Tables, ch), NEW t \in Tables, NEW r, NEW v, Refilled(m, r, Tables, t, ch[t], v, FALSE)
    PROVE  Leaves(r, t, {}, Amounts(v))
<1>1. PICK w : Becomes(m, r, Tables, t, ch[t], w) /\ (\A k \in Keys : Bears(r, w, k) = Amount(v, k)) /\ Light(r, t)
  BY DEF Refilled
<1>2. Leaves(r, t, {}, BearsOf(r, w))
  BY <1>1, LeavesIs
<1>3. BearsOf(r, w) = Amounts(v)
  BY <1>1 DEF BearsOf, Amounts
<1>. QED
  BY <1>2, <1>3

LEMMA CopyLeaves ==
    ASSUME NEW ch, Chained(m, Tables, ch), NEW t \in Tables, NEW o \in Tables \ {t}, Room(m.size[o])
    PROVE  /\ Leaves(copy_construct(m, t, o), t, {}, Amounts(KeysOf(m, o)))
           /\ Leaves(assign(m, t, o), t, {}, Amounts(KeysOf(m, o)))
<1>. DEFINE v == KeysOf(m, o)
            c == bucket_count(m, o)
<1>1. m \in Memories(Tables) /\ Heads(Tables) /\ Held(m, t, ch[t], TRUE) /\ Held(m, o, ch[o], TRUE)
  BY TablesAreHeads DEF Chained
<1>2. v \in Seq(Keys) /\ Len(v) = m.size[o] /\ Len(v) \in Nat /\ m.size[o] \in Nat
  BY KeysOfTable
<1>3. c \in Nat
  BY <1>1, BucketIn
<1>4. copy_construct(m, t, o) = insert_range([release(m, t) EXCEPT !.buckets[t] = alloc_buckets(c)], t, FALSE, v)
  BY DEF copy_construct
<1>5. assign(m, t, o) = insert_range(rehash(release(m, t), t, c), t, FALSE, v)
  BY DEF assign
<1>. HIDE DEF v, c
<1>6. Cardinality(DOMAIN m.key) + Len(v) <= Cardinality(Nodes)
  <2>1. Len(v) <= m.size[o]
    BY <1>2
  <2>. QED
    BY <1>1, <1>2, <2>1, RoomFor
<1>7. Refilled(m, copy_construct(m, t, o), Tables, t, ch[t], v, FALSE)
  <2>1. Refilled(m, insert_range([release(m, t) EXCEPT !.buckets[t] = alloc_buckets(c)], t, FALSE, v),
                 Tables, t, ch[t], v, FALSE)
    BY <1>1, <1>2, <1>3, <1>6, CopyIs
  <2>. QED
    BY <1>4, <2>1
<1>8. Refilled(m, assign(m, t, o), Tables, t, ch[t], v, FALSE)
  <2>1. Refilled(m, insert_range(rehash(release(m, t), t, c), t, FALSE, v), Tables, t, ch[t], v, FALSE)
    BY <1>1, <1>2, <1>3, <1>6, AssignListIs
  <2>. QED
    BY <1>5, <2>1
<1>9. Leaves(copy_construct(m, t, o), t, {}, Amounts(v))
  BY <1>7, RefilledLeaves
<1>10. Leaves(assign(m, t, o), t, {}, Amounts(v))
  BY <1>8, RefilledLeaves
<1>. QED
  BY <1>9, <1>10 DEF v

\* Where the keys of s are in so as often, there are at least as many nodes; no more only if so has no other keys.
AsOften(mem, s, so) == \A x \in ToSet(s) : Bears(mem, s, mem.key[x]) = Bears(mem, so, mem.key[x])

LEMMA AsOftenFits ==
    ASSUME NEW T, Heads(T), NEW mem \in Memories(T), NEW s \in Seq(DOMAIN mem.key), NEW so \in Seq(DOMAIN mem.key),
           AsOften(mem, s, so)
    PROVE  /\ Cardinality(ToSet(s)) <= Cardinality(ToSet(so))
           /\ Cardinality(ToSet(s)) = Cardinality(ToSet(so)) => \A y \in ToSet(so) : \E x \in ToSet(s) : mem.key[x] = mem.key[y]
<1>. DEFINE A == ToSet(s)
            B == ToSet(so)
            key(x) == mem.key[x]
            P(k) == Bearing(mem, s, k)
            Q(k) == Bearing(mem, so, k)
            f(k) == CHOOSE g : g \in Bijection(P(k), Q(k))
            F == [x \in A |-> f(key(x))[x]]
<1>1. A \subseteq DOMAIN mem.key /\ B \subseteq DOMAIN mem.key
  BY ElementsOf
<1>2. IsFiniteSet(A) /\ IsFiniteSet(B)
  <2>1. IsFiniteSet(DOMAIN mem.key)
    BY MemoryHas
  <2>. QED
    BY <1>1, <2>1, FS_Subset
<1>3. ASSUME NEW x \in A PROVE f(key(x)) \in Bijection(P(key(x)), Q(key(x)))
  <2>. DEFINE k == key(x)
  <2>1. IsFiniteSet(P(k)) /\ IsFiniteSet(Q(k))
    BY <1>1, BearsNat
  <2>2. Cardinality(P(k)) = Cardinality(Q(k))
    BY DEF AsOften, Bears
  <2>. HIDE DEF k, P, Q
  <2>3. ExistsBijection(P(k), Q(k))
    BY <2>1, <2>2, FS_SameCardinalityBij
  <2>4. \E g : g \in Bijection(P(k), Q(k))
    BY <2>3 DEF ExistsBijection
  <2>. QED
    BY <2>4 DEF k
<1>4. \A x \in A : x \in P(key(x))
  BY DEF Bearing
<1>5. \A k : \A y \in Q(k) : y \in B /\ key(y) = k
  BY DEF Bearing
<1>6. \A k : \A y \in P(k) : y \in A /\ key(y) = k
  BY DEF Bearing
<1>. HIDE DEF A, B, P, Q, f, key
<1>7. ASSUME NEW x \in A PROVE F[x] \in B /\ key(F[x]) = key(x)
  <2>1. F[x] = f(key(x))[x]
    OBVIOUS
  <2>2. f(key(x))[x] \in Q(key(x))
    BY <1>3, <1>4 DEF Bijection, Injection
  <2>. QED
    BY <1>5, <2>1, <2>2
<1>8. ASSUME NEW x \in A, NEW y \in A, F[x] = F[y] PROVE x = y
  <2>1. key(x) = key(y)
    BY <1>7, <1>8
  <2>2. f(key(x))[x] = f(key(x))[y] /\ x \in P(key(x)) /\ y \in P(key(x))
    BY <1>4, <1>8, <2>1
  <2>3. f(key(x)) \in Bijection(P(key(x)), Q(key(x)))
    BY <1>3
  <2>. QED
    BY <2>2, <2>3 DEF Bijection, Injection, IsInjective
<1>9. F \in Injection(A, B)
  <2>1. F \in [A -> B]
    BY <1>7
  <2>2. \A x, y \in A : F[x] = F[y] => x = y
    BY <1>8
  <2>. HIDE DEF F
  <2>. QED
    BY <2>1, <2>2 DEF Injection, IsInjective
<1>10. Cardinality(A) <= Cardinality(B) /\ (Cardinality(A) = Cardinality(B) => F \in Surjection(A, B))
  <2>. HIDE DEF F
  <2>. QED
    BY <1>2, <1>9, FS_Injection
<1>11. ASSUME Cardinality(A) = Cardinality(B), NEW y \in B PROVE \E x \in A : key(x) = key(y)
  <2>1. \E x \in A : F[x] = y
    <3>. HIDE DEF F
    <3>. QED
      BY <1>10, <1>11 DEF Surjection
  <2>. QED
    BY <1>7, <2>1
<1>. QED
  BY <1>10, <1>11 DEF A, B, key

\* operator== is equality of contents.
LEMMA EqualsIs ==
    ASSUME NEW ch, Chained(m, Tables, ch), NEW t \in Tables, NEW o \in Tables, ~Stale(t), ~Stale(o)
    PROVE  equals(m, t, o) <=> BearsOf(m, ch[t]) = BearsOf(m, ch[o])
<1>. DEFINE s == ch[t]
            so == ch[o]
<1>1. m \in Memories(Tables) /\ Heads(Tables) /\ Held(m, t, s, FALSE) /\ Held(m, o, so, FALSE)
  BY TablesAreHeads, NotStale DEF Chained
<1>. HIDE DEF s, so
<1>2. /\ s \in Seq(DOMAIN m.key) /\ Distinct(s) /\ m.size[t] = Len(s) /\ ChainIs(m, t, s)
      /\ so \in Seq(DOMAIN m.key) /\ Distinct(so) /\ m.size[o] = Len(so)
  BY <1>1 DEF Held, Filed, ChainIs
<1>3. m.size[t] = Cardinality(ToSet(s)) /\ m.size[o] = Cardinality(ToSet(so))
  BY <1>2, DistinctCount
<1>4. \A k \in Keys : Len(find_range(m, t, k)) = Bears(m, s, k) /\ Len(find_range(m, o, k)) = Bears(m, so, k)
  BY <1>1, RangeCount
<1>5. (\A x \in ToSet(s) : m.key[x] \in Keys) /\ (\A x \in ToSet(so) : m.key[x] \in Keys)
  <2>1. ToSet(s) \subseteq DOMAIN m.key /\ ToSet(so) \subseteq DOMAIN m.key
    BY <1>2, ElementsOf
  <2>2. m.key \in [DOMAIN m.key -> Keys]
    BY <1>1, MemoryHas
  <2>. QED
    BY <2>1, <2>2
<1>6. ToSet(KeysOf(m, t)) = {m.key[x] : x \in ToSet(s)}
  <2>1. NodesOf(m, t) = s
    BY <1>1, <1>2, NodesOfIs
  <2>. DEFINE w == [i \in DOMAIN s |-> m.key[s[i]]]
  <2>2. KeysOf(m, t) = w
    BY <2>1 DEF KeysOf
  <2>3. ToSet(w) = {m.key[s[i]] : i \in DOMAIN s} /\ ToSet(s) = {s[i] : i \in DOMAIN s}
    BY DEF ToSet
  <2>. HIDE DEF w
  <2>. QED
    BY <2>2, <2>3
<1>7. equals(m, t, o) <=> m.size[t] = m.size[o] /\ AsOften(m, s, so)
  <2>1. equals(m, t, o) <=> /\ m.size[t] = m.size[o]
                            /\ \A x \in ToSet(s) : Len(find_range(m, t, m.key[x])) = Len(find_range(m, o, m.key[x]))
    BY <1>6 DEF equals
  <2>2. ASSUME NEW x \in ToSet(s)
        PROVE  /\ Len(find_range(m, t, m.key[x])) = Bears(m, s, m.key[x])
               /\ Len(find_range(m, o, m.key[x])) = Bears(m, so, m.key[x])
    BY <1>4, <1>5
  <2>. QED
    BY <2>1, <2>2 DEF AsOften
<1>8. ASSUME m.size[t] = m.size[o], AsOften(m, s, so) PROVE BearsOf(m, s) = BearsOf(m, so)
  <2>1. Cardinality(ToSet(s)) = Cardinality(ToSet(so))
    BY <1>3, <1>8
  <2>2. \A y \in ToSet(so) : \E x \in ToSet(s) : m.key[x] = m.key[y]
    BY <1>1, <1>2, <1>8, <2>1, AsOftenFits
  <2>3. ASSUME NEW k \in Keys PROVE Bears(m, s, k) = Bears(m, so, k)
    <3>1. CASE \E x \in ToSet(s) : m.key[x] = k
      BY <1>8, <3>1 DEF AsOften
    <3>2. CASE ~ \E x \in ToSet(s) : m.key[x] = k
      <4>1. Bearing(m, s, k) = Bearing(m, so, k)
        BY <2>2, <3>2 DEF Bearing
      <4>. QED
        BY <4>1 DEF Bears
    <3>. QED
      BY <3>1, <3>2
  <2>. QED
    BY <2>3 DEF BearsOf
<1>9. ASSUME BearsOf(m, s) = BearsOf(m, so) PROVE m.size[t] = m.size[o] /\ AsOften(m, s, so)
  <2>1. \A k \in Keys : Bears(m, s, k) = Bears(m, so, k)
    <3>1. \A k \in Keys : BearsOf(m, s)[k] = Bears(m, s, k) /\ BearsOf(m, so)[k] = Bears(m, so, k)
      BY DEF BearsOf
    <3>. QED
      BY <1>9, <3>1
  <2>2. AsOften(m, s, so)
    BY <1>5, <2>1 DEF AsOften
  <2>3. AsOften(m, so, s)
    BY <1>5, <2>1 DEF AsOften
  <2>4. Cardinality(ToSet(s)) <= Cardinality(ToSet(so))
    BY <1>1, <1>2, <2>2, AsOftenFits
  <2>5. Cardinality(ToSet(so)) <= Cardinality(ToSet(s))
    BY <1>1, <1>2, <2>3, AsOftenFits
  <2>6. m.size[t] \in Nat /\ m.size[o] \in Nat
    BY <1>2
  <2>. QED
    BY <1>3, <2>2, <2>4, <2>5, <2>6
<1>. QED
  BY <1>7, <1>8, <1>9 DEF s, so

\* Of a table that is not stale every call leaves what it promises.
LEMMA HeldContents == TablesHeld(m, Tables) => TableContents
<1>. SUFFICES ASSUME TablesHeld(m, Tables), NEW t \in Tables, ~Stale(t)
              PROVE  LET nodes == NodesOf(m, t)
                         now == Amounts(KeysOf(m, t))
                     IN
                     /\ Room(1) => \A k \in Keys, unique \in BOOLEAN, hint \in ToSet(nodes) \cup {Null} :
                           Leaves(insert(m, t, unique, hint, k), t, ToSet(nodes),
                                  IF unique /\ now[k] > 0 THEN now ELSE [now EXCEPT ![k] = @ + 1])
                     /\ \A n \in ToSet(nodes) :
                           Leaves(erase_pos(m, t, n), t, {o \in ToSet(nodes) : m.key[o] # m.key[n]},
                                  [now EXCEPT ![m.key[n]] = @ - 1])
                     /\ \A r \in Ranges(Len(nodes)) :
                           LET places == Append(nodes, Null)
                               kept == Splice(nodes, r[1], r[2], <<>>)
                           IN  Leaves(erase_range(m, t, places[r[1] + 1], places[r[2] + 1]), t, ToSet(kept),
                                      Amounts([i \in DOMAIN kept |-> m.key[kept[i]]]))
                     /\ \A k \in Keys :
                           Leaves(erase_key(m, t, k), t, {o \in ToSet(nodes) : m.key[o] # k}, [now EXCEPT ![k] = 0])
                     /\ \A n \in 0 .. MaxRoom : /\ Leaves(rehash(m, t, n), t, ToSet(nodes), now)
                                               /\ 4 * n <= 3 * bucket_count(rehash(m, t, n), t)
                     /\ \A o \in Tables \ {t} :
                           LET theirs == Amounts(KeysOf(m, o)) IN
                           /\ Room(m.size[o]) => /\ Leaves(copy_construct(m, t, o), t, {}, theirs)
                                                 /\ Leaves(assign(m, t, o), t, {}, theirs)
                           /\ ~Stale(o) => (equals(m, t, o) <=> now = theirs)
  BY DEF TableContents
<1>1. PICK ch : Chained(m, Tables, ch)
  BY DEF TablesHeld
<1>. DEFINE s == ch[t]
            now == BearsOf(m, s)
<1>2. m \in Memories(Tables) /\ Heads(Tables) /\ Held(m, t, s, FALSE)
  BY <1>1, TablesAreHeads, NotStale DEF Chained
<1>3. NodesOf(m, t) = s
  BY <1>2, NodesOfIs DEF Held, Filed
<1>4. Amounts(KeysOf(m, t)) = now
  BY <1>2, AmountsAre
<1>5. ASSUME Room(1), NEW k \in Keys, NEW unique \in BOOLEAN, NEW hint \in ToSet(s) \cup {Null}
      PROVE  Leaves(insert(m, t, unique, hint, k), t, ToSet(s), IF unique /\ now[k] > 0 THEN now ELSE [now EXCEPT ![k] = @ + 1])
  <2>1. Leaves(insert(m, t, unique, hint, k), t, ToSet(s), InsertedAmounts(now, unique, k))
    BY <1>1, <1>5, InsertLeaves
  <2>. QED
    BY <2>1 DEF InsertedAmounts
<1>6. ASSUME NEW n \in ToSet(s)
      PROVE  Leaves(erase_pos(m, t, n), t, {o \in ToSet(s) : m.key[o] # m.key[n]}, [now EXCEPT ![m.key[n]] = @ - 1])
  BY <1>1, <1>6, ErasePosLeaves
<1>7. ASSUME NEW r \in Ranges(Len(s))
      PROVE  Leaves(erase_range(m, t, Append(s, Null)[r[1] + 1], Append(s, Null)[r[2] + 1]), t,
                    ToSet(Splice(s, r[1], r[2], <<>>)),
                    Amounts([i \in DOMAIN Splice(s, r[1], r[2], <<>>) |-> m.key[Splice(s, r[1], r[2], <<>>)[i]]]))
  <2>. DEFINE a == r[1]
              e == r[2]
              places == Append(s, Null)
              kept == Splice(s, a, e, <<>>)
  <2>1. s \in Seq(DOMAIN m.key) /\ Len(s) \in Nat
    BY <1>2 DEF Held, Filed, ChainIs
  <2>2. a \in 0 .. Len(s) /\ e \in 0 .. Len(s) /\ e \in a .. Len(s)
    BY <2>1 DEF Ranges
  <2>3. \A i \in 0 .. Len(s) : places[i + 1] = Behind(s, i)
    BY <2>1, PlacesAre
  <2>. HIDE DEF a, e
  <2>4. kept = Cut(s, a, e)
    BY <2>1, <2>2, SpliceIsCut
  <2>5. places[a + 1] = Behind(s, a) /\ places[e + 1] = Behind(s, e)
    BY <2>2, <2>3
  <2>. HIDE DEF kept, places
  <2>6. Leaves(erase_range(m, t, Behind(s, a), Behind(s, e)), t, ToSet(kept), Amounts([i \in DOMAIN kept |-> m.key[kept[i]]]))
    BY <1>1, <2>2, <2>4, EraseRangeLeaves
  <2>7. Leaves(erase_range(m, t, places[a + 1], places[e + 1]), t, ToSet(kept), Amounts([i \in DOMAIN kept |-> m.key[kept[i]]]))
    BY <2>5, <2>6
  <2>. QED
    BY <2>7 DEF kept, places, a, e
<1>8. ASSUME NEW k \in Keys
      PROVE  Leaves(erase_key(m, t, k), t, {o \in ToSet(s) : m.key[o] # k}, [now EXCEPT ![k] = 0])
  BY <1>1, EraseKeyLeaves
<1>9. ASSUME NEW n \in 0 .. MaxRoom
      PROVE  Leaves(rehash(m, t, n), t, ToSet(s), now) /\ 4 * n <= 3 * bucket_count(rehash(m, t, n), t)
  <2>1. n \in Nat
    BY TablesAssumption
  <2>. QED
    BY <1>1, <2>1, RehashLeaves
<1>10. ASSUME NEW o \in Tables \ {t}, Room(m.size[o])
       PROVE  /\ Leaves(copy_construct(m, t, o), t, {}, Amounts(KeysOf(m, o)))
              /\ Leaves(assign(m, t, o), t, {}, Amounts(KeysOf(m, o)))
  BY <1>1, <1>10, CopyLeaves
<1>11. ASSUME NEW o \in Tables \ {t}, ~Stale(o)
       PROVE  equals(m, t, o) <=> now = Amounts(KeysOf(m, o))
  <2>1. Held(m, o, ch[o], FALSE)
    BY <1>1, <1>11, NotStale
  <2>2. Amounts(KeysOf(m, o)) = BearsOf(m, ch[o])
    BY <1>2, <2>1, AmountsAre
  <2>3. equals(m, t, o) <=> BearsOf(m, ch[t]) = BearsOf(m, ch[o])
    BY <1>1, <1>11, EqualsIs
  <2>. QED
    BY <2>2, <2>3
<1>. HIDE DEF s, now
<1>. QED
  BY <1>3, <1>4, <1>5, <1>6, <1>7, <1>8, <1>9, <1>10, <1>11

\* From every state that is not stale: an insertion, with and without a hint,
\* adds one element, or none that is there; an erasure takes away as many as it
\* must, and only from the key, the range or, of several equal ones, the first;
\* a rehash and a copy lose nothing; every element is found by its key and the
\* load stays below 3/4; operator== is equality of contents: for any number of
\* tables, of nodes and of keys in a bucket (hash_table.h).
THEOREM TablesContents == TablesSpec => []TableContents
<1>1. TablesHeld(m, Tables) => TableContents
  BY HeldContents
<1>. QED
  BY <1>1, TablesInvariant, PTL
=============================================================================
