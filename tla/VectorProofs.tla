---------------------------- MODULE VectorProofs ----------------------------
(***************************************************************************)
(* What each operation of Vector makes of its storage, for every number    *)
(* and size of the vectors: from a storage that holds a sequence, one that *)
(* holds the sequence the standard promises.  SlotsExact and ElementsKept  *)
(* follow.                                                                 *)
(***************************************************************************)
EXTENDS Vector, FiniteSetTheorems, SequenceTheorems, WellFoundedInduction, TLAPS

Objects == Values \cup {Moved}
Memories(cap) == [0 .. cap - 1 -> Objects \cup {Raw}]

\* There are objects in all the cells of a range, or in none.
Filled(m, first, last) == \A i \in first .. last - 1 : m[i] \in Objects
Free(m, first, last) == \A i \in first .. last - 1 : m[i] = Raw

\* A storage of cap cells that holds s: objects in the first of them, and no others.
Stored(s, cap) ==
    [cells |-> [i \in 0 .. cap - 1 |-> IF i < Len(s) THEN s[i + 1] ELSE Raw], size |-> Len(s)]

\* Storage st holds s.
Holds(st, s) == \E cap \in Nat : Len(s) <= cap /\ st = Stored(s, cap)

\* The storages that hold some sequence of objects, moved-from ones among them.
Storages == UNION {{Stored(s, cap) : s \in {t \in Seq(Objects) : Len(t) <= cap}} : cap \in Nat}

\* Every vector has one of these.
IInv == d_ \in [Vectors -> Storages]

-----------------------------------------------------------------------------
(* Numbers.                                                                *)

\* A non-empty set of naturals has a least element.
LEMMA LeastNat ==
    ASSUME NEW S \in SUBSET Nat, S # {}
    PROVE  \E n \in S : \A m \in S : n <= m
<1>. DEFINE T == {0 .. m : m \in S}
<1>1. IsWellFoundedOn(StrictSubsetOrdering(Nat), FiniteSubsetsOf(Nat))
  BY FS_StrictSubsetOrderingWellFounded
<1>2. T \subseteq FiniteSubsetsOf(Nat)
  <2>1. \A m \in Nat : IsFiniteSet(0 .. m)
    BY FS_Interval
  <2>2. \A m \in Nat : 0 .. m \in SUBSET Nat
    OBVIOUS
  <2>3. \A m \in Nat : 0 .. m \in FiniteSubsetsOf(Nat)
    BY <2>1, <2>2 DEF FiniteSubsetsOf
  <2>. QED
    BY <2>3
<1>3. T # {}
  OBVIOUS
<1>4. PICK x \in T : \A y \in T : ~(<<y, x>> \in StrictSubsetOrdering(Nat))
  BY <1>1, <1>2, <1>3, WFMin
<1>5. PICK n \in S : x = 0 .. n
  OBVIOUS
<1>6. \A m \in S : n <= m
  <2>. SUFFICES ASSUME NEW m \in S, m < n PROVE FALSE
    OBVIOUS
  <2>1. 0 .. m \subseteq 0 .. n /\ n \in 0 .. n /\ n \notin 0 .. m
    OBVIOUS
  <2>2. <<0 .. m, 0 .. n>> \in StrictSubsetOrdering(Nat)
    BY <2>1 DEF StrictSubsetOrdering
  <2>. QED
    BY <2>2, <1>4, <1>5
<1>. QED
  BY <1>6

\* Two runs of one loop go through the same states: a first difference would need
\* one before it.
LEMMA SameLoop ==
    ASSUME NEW n \in Nat, NEW f, NEW g, f[0] = g[0],
           \A k \in 1 .. n : f[k - 1] = g[k - 1] => f[k] = g[k]
    PROVE  f[n] = g[n]
<1>. DEFINE W == {k \in 0 .. n : f[k] # g[k]}
<1>1. CASE W = {}
  BY <1>1
<1>2. CASE W # {}
  <2>0. W \in SUBSET Nat
    OBVIOUS
  <2>1. PICK k \in W : \A j \in W : k <= j
    BY <1>2, <2>0, LeastNat
  <2>2. k # 0 /\ k - 1 \in 0 .. n /\ k \in 1 .. n /\ k - 1 < k
    BY <2>1
  <2>3. k - 1 \notin W
    BY <2>1, <2>2
  <2>. QED
    BY <2>1, <2>2, <2>3
<1>. QED
  BY <1>1, <1>2

\* What holds of f before the loop and is kept by each turn holds after it.
LEMMA LoopStays ==
    ASSUME NEW n \in Nat, NEW X, NEW f, f[0] \in X[0],
           \A i \in 1 .. n : f[i - 1] \in X[i - 1] => f[i] \in X[i]
    PROVE  \A i \in 0 .. n : f[i] \in X[i]
<1>. DEFINE W == {i \in 0 .. n : f[i] \notin X[i]}
<1>. SUFFICES ASSUME W # {} PROVE FALSE
  OBVIOUS
<1>0. W \in SUBSET Nat
  OBVIOUS
<1>1. PICK k \in W : \A j \in W : k <= j
  BY <1>0, LeastNat
<1>2. k # 0 /\ k - 1 \in 0 .. n /\ k \in 1 .. n /\ k - 1 < k
  BY <1>1
<1>3. k - 1 \notin W
  BY <1>1, <1>2
<1>. QED
  BY <1>1, <1>2, <1>3

\* f is n turns of a loop from x0, the i-th of which is G[i].
Turns(f, n, G, x0) == f = [i \in 0 .. n |-> IF i = 0 THEN x0 ELSE G[i][f[i - 1]]]

\* A loop has a run.
LEMMA LoopRuns ==
    ASSUME NEW n \in Nat, NEW G, NEW x0
    PROVE  \E f : Turns(f, n, G, x0)
<1>. DEFINE W == {k \in Nat : ~\E f : Turns(f, k, G, x0)}
<1>. SUFFICES ASSUME W # {} PROVE FALSE
  OBVIOUS
<1>1. PICK k \in W : \A j \in W : k <= j
  BY LeastNat
<1>2. k # 0
  <2>. DEFINE g == [i \in 0 .. 0 |-> x0]
  <2>1. Turns(g, 0, G, x0)
    BY DEF Turns
  <2>. HIDE DEF g
  <2>. QED
    BY <1>1, <2>1
<1>3. k - 1 \in Nat /\ k - 1 \notin W
  <2>1. k - 1 \in Nat /\ ~(k <= k - 1)
    BY <1>2
  <2>. HIDE DEF W
  <2>. QED
    BY <1>1, <2>1
<1>4. PICK f : Turns(f, k - 1, G, x0)
  BY <1>3
<1>. DEFINE g == [i \in 0 .. k |-> IF i = k THEN G[k][f[k - 1]] ELSE f[i]]
<1>5. \A i \in 0 .. k : g[i] = IF i = 0 THEN x0 ELSE G[i][g[i - 1]]
  <2>. SUFFICES ASSUME NEW i \in 0 .. k PROVE g[i] = IF i = 0 THEN x0 ELSE G[i][g[i - 1]]
    OBVIOUS
  <2>1. f = [j \in 0 .. k - 1 |-> IF j = 0 THEN x0 ELSE G[j][f[j - 1]]]
    BY <1>4 DEF Turns
  <2>2. CASE i = 0
    BY <1>2, <2>1, <2>2
  <2>3. CASE i = k
    BY <1>2, <2>3
  <2>4. CASE i # 0 /\ i # k
    <3>1. i \in 0 .. k - 1 /\ i - 1 \in 0 .. k /\ i - 1 # k
      BY <2>4
    <3>2. g[i] = f[i] /\ g[i - 1] = f[i - 1]
      BY <2>4, <3>1
    <3>3. f[i] = G[i][f[i - 1]]
      BY <2>1, <2>4, <3>1
    <3>. QED
      BY <2>4, <3>2, <3>3
  <2>. QED
    BY <2>2, <2>3, <2>4
<1>6. Turns(g, k, G, x0)
  <2>1. g = [i \in 0 .. k |-> g[i]]
    OBVIOUS
  <2>. HIDE DEF g
  <2>. QED
    BY <1>5, <2>1 DEF Turns
<1>. HIDE DEF g
<1>. QED
  BY <1>1, <1>6

\* next2power is a number and not below its argument.
LEMMA NextPowerIs ==
    ASSUME NEW n \in Nat
    PROVE  next2power(n) \in Nat /\ n <= next2power(n)
<1>. DEFINE power == CHOOSE g : g = [k \in 0 .. n |-> IF k = 0 THEN 1 ELSE 2 * g[k - 1]]
            Enough(k) == n <= power[k] /\ (k = 0 \/ power[k - 1] < n)
<1>1. power = [k \in 0 .. n |-> IF k = 0 THEN 1 ELSE 2 * power[k - 1]]
  <2>. DEFINE G == [i \in 1 .. n |-> [x \in Nat |-> 2 * x]]
              X == [i \in 0 .. n |-> Nat]
  <2>1. PICK f : Turns(f, n, G, 1)
    BY LoopRuns
  <2>2. f = [i \in 0 .. n |-> IF i = 0 THEN 1 ELSE G[i][f[i - 1]]]
    BY <2>1 DEF Turns
  <2>3. f[0] \in X[0]
    BY <2>2
  <2>4. \A i \in 1 .. n : i \in 0 .. n /\ i - 1 \in 0 .. n /\ i # 0
    OBVIOUS
  <2>5. \A i \in 1 .. n : f[i] = G[i][f[i - 1]]
    BY <2>2, <2>4
  <2>6. ASSUME NEW i \in 1 .. n, f[i - 1] \in X[i - 1] PROVE f[i] \in X[i] /\ f[i] = 2 * f[i - 1]
    <3>1. X[i] = Nat /\ X[i - 1] = Nat /\ G[i] = [x \in Nat |-> 2 * x]
      BY <2>4
    <3>. HIDE DEF X, G
    <3>2. f[i] = 2 * f[i - 1] /\ f[i - 1] \in Nat
      BY <2>5, <2>6, <3>1
    <3>. QED
      BY <3>1, <3>2
  <2>7. \A i \in 0 .. n : f[i] \in X[i]
    <3>. HIDE DEF X, G
    <3>. QED
      BY <2>3, <2>6, LoopStays
  <2>8. \A i \in 1 .. n : f[i] = 2 * f[i - 1]
    <3>1. \A i \in 1 .. n : i - 1 \in 0 .. n
      OBVIOUS
    <3>. HIDE DEF X, G
    <3>. QED
      BY <2>6, <2>7, <3>1
  <2>9. f = [i \in 0 .. n |-> IF i = 0 THEN 1 ELSE 2 * f[i - 1]]
    <3>1. \A i \in 0 .. n : i # 0 => i \in 1 .. n
      OBVIOUS
    <3>2. \A i \in 0 .. n : f[i] = IF i = 0 THEN 1 ELSE 2 * f[i - 1]
      BY <2>2, <2>8, <3>1
    <3>3. f = [i \in 0 .. n |-> f[i]]
      BY <2>2
    <3>. HIDE DEF G
    <3>. QED
      BY <3>2, <3>3
  <2>. QED
    BY <2>9
<1>. HIDE DEF power
<1>2. \A k \in 0 .. n : power[k] \in Nat /\ k < power[k]
  <2>. DEFINE W == {k \in 0 .. n : ~(power[k] \in Nat /\ k < power[k])}
  <2>. SUFFICES ASSUME W # {} PROVE FALSE
    OBVIOUS
  <2>1. PICK k \in W : \A j \in W : k <= j
    <3>1. W \in SUBSET Nat
      OBVIOUS
    <3>. HIDE DEF W
    <3>. QED
      BY <3>1, LeastNat
  <2>2. power[0] = 1
    BY <1>1
  <2>3. k # 0 /\ k - 1 \in 0 .. n /\ k - 1 < k /\ k \in 0 .. n
    BY <2>1, <2>2
  <2>4. k - 1 \notin W
    BY <2>1, <2>3
  <2>5. power[k] = 2 * power[k - 1]
    BY <1>1, <2>3
  <2>. QED
    BY <2>1, <2>3, <2>4, <2>5
<1>3. \E k \in 0 .. n : Enough(k)
  <2>. DEFINE W == {k \in 0 .. n : n <= power[k]}
  <2>1. n \in W
    BY <1>2
  <2>2. PICK k \in W : \A j \in W : k <= j
    <3>1. W \in SUBSET Nat
      OBVIOUS
    <3>. HIDE DEF W
    <3>. QED
      BY <2>1, <3>1, LeastNat
  <2>3. k \in 0 .. n /\ n <= power[k]
    OBVIOUS
  <2>4. k = 0 \/ power[k - 1] < n
    <3>. SUFFICES ASSUME k # 0, ~(power[k - 1] < n) PROVE FALSE
      OBVIOUS
    <3>1. k - 1 \in 0 .. n /\ ~(k <= k - 1)
      BY <2>3
    <3>2. k - 1 \in W
      BY <1>2, <3>1
    <3>. HIDE DEF W
    <3>. QED
      BY <2>2, <3>1, <3>2
  <2>. QED
    BY <2>3, <2>4
<1>. DEFINE c == CHOOSE k \in 0 .. n : Enough(k)
<1>4. c \in 0 .. n /\ Enough(c)
  BY <1>3
<1>5. next2power(n) = power[c]
  BY DEF next2power, power
<1>. HIDE DEF c
<1>. QED
  BY <1>2, <1>4, <1>5

-----------------------------------------------------------------------------
(* The loops of memory_op.h and seq_op.h.                                  *)

\* Objects are live and raw memory is not.
LEMMA ObjectsLive == /\ \A x \in Objects : Live(x) /\ x # Raw
                     /\ ~Live(Raw) /\ Moved \in Objects
BY StorageAssumption, VectorAssumption DEF Objects, Live

\* What a read, an assignment and a construction do where they may be.
LEMMA ReadIs ==
    ASSUME NEW m, NEW i \in DOMAIN m, m[i] \in Objects
    PROVE  Read(m, i) = m[i]
BY ObjectsLive DEF Read

LEMMA AssignIs ==
    ASSUME NEW N \in Nat, NEW m \in Memories(N), NEW i \in 0 .. N - 1, m[i] \in Objects, NEW x
    PROVE  Assign(m, i, x) = [j \in 0 .. N - 1 |-> IF j = i THEN x ELSE m[j]]
BY ObjectsLive DEF Assign, Memories

LEMMA ConstructIs ==
    ASSUME NEW N \in Nat, NEW m \in Memories(N), NEW i \in 0 .. N - 1, m[i] = Raw, NEW x
    PROVE  Construct(m, i, x) = [j \in 0 .. N - 1 |-> IF j = i THEN x ELSE m[j]]
BY DEF Construct, Memories

\* One element moved to raw memory.
LEMMA MoveConstructIs ==
    ASSUME NEW N \in Nat, NEW m \in Memories(N), NEW s \in 0 .. N - 1, NEW d \in 0 .. N - 1,
           m[s] \in Objects, m[d] = Raw
    PROVE  MoveConstruct(m, s, d) =
              [j \in 0 .. N - 1 |-> IF j = d THEN m[s] ELSE IF j = s THEN Moved ELSE m[j]]
<1>. DEFINE k == [m EXCEPT ![s] = IF Live(@) THEN Moved ELSE Bad]
<1>1. k = [j \in 0 .. N - 1 |-> IF j = s THEN Moved ELSE m[j]]
  BY ObjectsLive DEF Memories
<1>2. k \in Memories(N) /\ k[d] = Raw
  BY <1>1, ObjectsLive DEF Memories
<1>3. Read(m, s) = m[s]
  BY ReadIs DEF Memories
<1>4. MoveConstruct(m, s, d) = [j \in 0 .. N - 1 |-> IF j = d THEN m[s] ELSE k[j]]
  <2>. HIDE DEF k
  <2>1. Construct(k, d, m[s]) = [j \in 0 .. N - 1 |-> IF j = d THEN m[s] ELSE k[j]]
    BY <1>2, ConstructIs
  <2>. QED
    BY <1>3, <2>1 DEF MoveConstruct, k
<1>. QED
  BY <1>1, <1>4

\* One element moved over another.
LEMMA MoveAssignIs ==
    ASSUME NEW N \in Nat, NEW m \in Memories(N), NEW s \in 0 .. N - 1, NEW d \in 0 .. N - 1,
           m[s] \in Objects, m[d] \in Objects
    PROVE  MoveAssign(m, s, d) =
              [j \in 0 .. N - 1 |-> IF j = d THEN m[s] ELSE IF j = s THEN Moved ELSE m[j]]
<1>1. CASE s = d
  BY <1>1 DEF MoveAssign, Memories
<1>2. CASE s # d
  <2>. DEFINE k == [m EXCEPT ![s] = IF Live(@) THEN Moved ELSE Bad]
  <2>1. k = [j \in 0 .. N - 1 |-> IF j = s THEN Moved ELSE m[j]]
    BY ObjectsLive DEF Memories
  <2>2. k \in Memories(N) /\ k[d] \in Objects
    BY <1>2, <2>1, ObjectsLive DEF Memories
  <2>3. Read(m, s) = m[s]
    BY ReadIs DEF Memories
  <2>4. MoveAssign(m, s, d) = [j \in 0 .. N - 1 |-> IF j = d THEN m[s] ELSE k[j]]
    <3>. HIDE DEF k
    <3>1. Assign(k, d, m[s]) = [j \in 0 .. N - 1 |-> IF j = d THEN m[s] ELSE k[j]]
      BY <2>2, AssignIs
    <3>. QED
      BY <1>2, <2>3, <3>1 DEF MoveAssign, k
  <2>. QED
    BY <2>1, <2>4
<1>. QED
  BY <1>1, <1>2

\* The memory once the n elements from s on have been moved to d on: elsewhere it
\* is as before, but that the sources are moved from.
Shifted(N, m, s, d, n) ==
    [j \in 0 .. N - 1 |-> IF j \in d .. d + n - 1 THEN m[j - d + s]
                          ELSE IF j \in s .. s + n - 1 THEN Moved ELSE m[j]]

\* uninitialized_move, to raw memory behind the range.
LEMMA UninitializedMoveIs ==
    ASSUME NEW N \in Nat, NEW m \in Memories(N),
           NEW first \in Nat, NEW last \in Nat, NEW d \in Nat,
           first <= last, last <= d, d + last - first <= N,
           Filled(m, first, last), Free(m, d, d + last - first)
    PROVE  UninitializedMove(m, first, last, d) = Shifted(N, m, first, d, last - first)
<1>. USE DEF Filled, Free
<1>. DEFINE n == last - first
            after == CHOOSE g : g = [k \in 0 .. n |->
                        IF k = 0 THEN m ELSE MoveConstruct(g[k - 1], first + k - 1, d + k - 1)]
            f == [k \in 0 .. n |-> Shifted(N, m, first, d, k)]
<1>1. \A k \in 1 .. n : f[k] = MoveConstruct(f[k - 1], first + k - 1, d + k - 1)
  <2>. SUFFICES ASSUME NEW k \in 1 .. n
                PROVE  f[k] = MoveConstruct(f[k - 1], first + k - 1, d + k - 1)
    OBVIOUS
  <2>. DEFINE a == f[k - 1]
              s == first + k - 1
              t == d + k - 1
  <2>1. /\ s \in 0 .. N - 1 /\ t \in 0 .. N - 1 /\ k - 1 \in 0 .. n /\ k \in 0 .. n
        /\ s \in first .. last - 1 /\ t \in d .. d + last - first - 1
    OBVIOUS
  <2>2. a = Shifted(N, m, first, d, k - 1)
    BY <2>1
  <2>3. a \in Memories(N)
    <3>1. \A j \in 0 .. N - 1 : j \in d .. d + (k - 1) - 1 => m[j - d + first] \in Objects
      BY <2>1
    <3>. QED
      BY <2>1, <2>2, <3>1, ObjectsLive DEF Shifted, Memories
  <2>4. a[s] = m[s] /\ a[t] = m[t] /\ m[s] \in Objects /\ m[t] = Raw
    BY <2>1, <2>2 DEF Shifted
  <2>. HIDE DEF a, f
  <2>5. MoveConstruct(a, s, t) =
           [j \in 0 .. N - 1 |-> IF j = t THEN m[s] ELSE IF j = s THEN Moved ELSE a[j]]
    <3>. HIDE DEF s, t
    <3>. QED
      BY <2>1, <2>3, <2>4, MoveConstructIs
  <2>6. Shifted(N, m, first, d, k) =
           [j \in 0 .. N - 1 |-> IF j = t THEN m[s] ELSE IF j = s THEN Moved ELSE a[j]]
    BY <2>1, <2>2 DEF Shifted
  <2>. QED
    BY <2>1, <2>5, <2>6 DEF a, f
<1>2. f[0] = m
  BY DEF Shifted, Memories
<1>3. after = [k \in 0 .. n |->
                 IF k = 0 THEN m ELSE MoveConstruct(after[k - 1], first + k - 1, d + k - 1)]
  <2>1. f = [k \in 0 .. n |->
               IF k = 0 THEN m ELSE MoveConstruct(f[k - 1], first + k - 1, d + k - 1)]
    <3>1. \A k \in 0 .. n : f[k] = IF k = 0 THEN m
                                   ELSE MoveConstruct(f[k - 1], first + k - 1, d + k - 1)
      <4>. HIDE DEF f
      <4>. QED
        BY <1>1, <1>2
    <3>. QED
      BY <3>1
  <2>. HIDE DEF f
  <2>. QED
    BY <2>1
<1>. HIDE DEF after, f
<1>4. n \in Nat
  OBVIOUS
<1>5. f[0] = after[0] /\ \A k \in 1 .. n : f[k - 1] = after[k - 1] => f[k] = after[k]
  <2>. HIDE DEF n
  <2>1. 0 \in 0 .. n /\ \A k \in 1 .. n : k \in 0 .. n /\ k # 0
    BY <1>4
  <2>2. after[0] = m
    BY <1>3, <2>1
  <2>3. \A k \in 1 .. n : after[k] = MoveConstruct(after[k - 1], first + k - 1, d + k - 1)
    BY <1>3, <2>1
  <2>. QED
    BY <1>1, <1>2, <2>2, <2>3
<1>6. f[n] = after[n]
  BY <1>4, <1>5, SameLoop
<1>7. UninitializedMove(m, first, last, d) = after[n]
  BY DEF UninitializedMove, Forward, after
<1>. QED
  BY <1>4, <1>6, <1>7 DEF f

\* move, over objects at the range or before it.
LEMMA MoveIs ==
    ASSUME NEW N \in Nat, NEW m \in Memories(N),
           NEW first \in Nat, NEW last \in Nat, NEW d \in Nat,
           d <= first, first <= last, last <= N,
           Filled(m, first, last), Filled(m, d, d + last - first)
    PROVE  Move(m, first, last, d) = Shifted(N, m, first, d, last - first)
<1>. USE DEF Filled
<1>. DEFINE n == last - first
            after == CHOOSE g : g = [k \in 0 .. n |->
                        IF k = 0 THEN m ELSE MoveAssign(g[k - 1], first + k - 1, d + k - 1)]
            f == [k \in 0 .. n |-> Shifted(N, m, first, d, k)]
<1>1. \A k \in 1 .. n : f[k] = MoveAssign(f[k - 1], first + k - 1, d + k - 1)
  <2>. SUFFICES ASSUME NEW k \in 1 .. n
                PROVE  f[k] = MoveAssign(f[k - 1], first + k - 1, d + k - 1)
    OBVIOUS
  <2>. DEFINE a == f[k - 1]
              s == first + k - 1
              t == d + k - 1
  <2>1. /\ s \in 0 .. N - 1 /\ t \in 0 .. N - 1 /\ k - 1 \in 0 .. n /\ k \in 0 .. n
        /\ s \in first .. last - 1 /\ t \in d .. d + last - first - 1
    OBVIOUS
  <2>2. a = Shifted(N, m, first, d, k - 1)
    BY <2>1
  <2>3. a \in Memories(N)
    <3>1. \A j \in 0 .. N - 1 : j \in d .. d + (k - 1) - 1 => m[j - d + first] \in Objects
      BY <2>1
    <3>. QED
      BY <2>1, <2>2, <3>1, ObjectsLive DEF Shifted, Memories
  <2>4. a[s] = m[s] /\ m[s] \in Objects /\ a[t] \in Objects
    BY <2>1, <2>2, ObjectsLive DEF Shifted
  <2>. HIDE DEF a, f
  <2>5. MoveAssign(a, s, t) =
           [j \in 0 .. N - 1 |-> IF j = t THEN m[s] ELSE IF j = s THEN Moved ELSE a[j]]
    <3>. HIDE DEF s, t
    <3>. QED
      BY <2>1, <2>3, <2>4, MoveAssignIs
  <2>6. Shifted(N, m, first, d, k) =
           [j \in 0 .. N - 1 |-> IF j = t THEN m[s] ELSE IF j = s THEN Moved ELSE a[j]]
    BY <2>1, <2>2 DEF Shifted
  <2>. QED
    BY <2>1, <2>5, <2>6 DEF a, f
<1>2. f[0] = m
  BY DEF Shifted, Memories
<1>3. after = [k \in 0 .. n |->
                 IF k = 0 THEN m ELSE MoveAssign(after[k - 1], first + k - 1, d + k - 1)]
  <2>1. f = [k \in 0 .. n |->
               IF k = 0 THEN m ELSE MoveAssign(f[k - 1], first + k - 1, d + k - 1)]
    <3>1. \A k \in 0 .. n : f[k] = IF k = 0 THEN m
                                   ELSE MoveAssign(f[k - 1], first + k - 1, d + k - 1)
      <4>. HIDE DEF f
      <4>. QED
        BY <1>1, <1>2
    <3>. QED
      BY <3>1
  <2>. HIDE DEF f
  <2>. QED
    BY <2>1
<1>. HIDE DEF after, f
<1>4. n \in Nat
  OBVIOUS
<1>5. f[0] = after[0] /\ \A k \in 1 .. n : f[k - 1] = after[k - 1] => f[k] = after[k]
  <2>. HIDE DEF n
  <2>1. 0 \in 0 .. n /\ \A k \in 1 .. n : k \in 0 .. n /\ k # 0
    BY <1>4
  <2>2. after[0] = m
    BY <1>3, <2>1
  <2>3. \A k \in 1 .. n : after[k] = MoveAssign(after[k - 1], first + k - 1, d + k - 1)
    BY <1>3, <2>1
  <2>. QED
    BY <1>1, <1>2, <2>2, <2>3
<1>6. f[n] = after[n]
  BY <1>4, <1>5, SameLoop
<1>7. Move(m, first, last, d) = after[n]
  BY DEF Move, Forward, after
<1>. QED
  BY <1>4, <1>6, <1>7 DEF f

\* move_backward, over objects at the range or behind it.
LEMMA MoveBackwardIs ==
    ASSUME NEW N \in Nat, NEW m \in Memories(N),
           NEW first \in Nat, NEW last \in Nat, NEW dlast \in Nat, NEW d \in Nat,
           d = dlast - (last - first), first <= last, last <= dlast, dlast <= N,
           Filled(m, first, last), Filled(m, d, dlast)
    PROVE  MoveBackward(m, first, last, dlast) = Shifted(N, m, first, d, last - first)
<1>. USE DEF Filled
<1>. DEFINE n == last - first
            after == CHOOSE g : g = [k \in 0 .. n |->
                        IF k = 0 THEN m ELSE MoveAssign(g[k - 1], last - k, dlast - k)]
            f == [k \in 0 .. n |-> Shifted(N, m, last - k, dlast - k, k)]
<1>1. \A k \in 1 .. n : f[k] = MoveAssign(f[k - 1], last - k, dlast - k)
  <2>. SUFFICES ASSUME NEW k \in 1 .. n
                PROVE  f[k] = MoveAssign(f[k - 1], last - k, dlast - k)
    OBVIOUS
  <2>. DEFINE a == f[k - 1]
              s == last - k
              t == dlast - k
  <2>1. /\ s \in 0 .. N - 1 /\ t \in 0 .. N - 1 /\ k - 1 \in 0 .. n /\ k \in 0 .. n
        /\ s \in first .. last - 1 /\ t \in d .. dlast - 1
    OBVIOUS
  <2>2. a = Shifted(N, m, last - (k - 1), dlast - (k - 1), k - 1)
    BY <2>1
  <2>3. a \in Memories(N)
    <3>1. \A j \in 0 .. N - 1 : j \in dlast - (k - 1) .. dlast - 1 =>
                                  m[j - dlast + last] \in Objects
      BY <2>1
    <3>. QED
      BY <2>1, <2>2, <3>1, ObjectsLive DEF Shifted, Memories
  <2>4. a[s] = m[s] /\ m[s] \in Objects /\ a[t] \in Objects
    BY <2>1, <2>2, ObjectsLive DEF Shifted
  <2>. HIDE DEF a, f
  <2>5. MoveAssign(a, s, t) =
           [j \in 0 .. N - 1 |-> IF j = t THEN m[s] ELSE IF j = s THEN Moved ELSE a[j]]
    <3>. HIDE DEF s, t
    <3>. QED
      BY <2>1, <2>3, <2>4, MoveAssignIs
  <2>6. Shifted(N, m, last - k, dlast - k, k) =
           [j \in 0 .. N - 1 |-> IF j = t THEN m[s] ELSE IF j = s THEN Moved ELSE a[j]]
    BY <2>1, <2>2 DEF Shifted
  <2>. QED
    BY <2>1, <2>5, <2>6 DEF a, f
<1>2. f[0] = m
  BY DEF Shifted, Memories
<1>3. after = [k \in 0 .. n |->
                 IF k = 0 THEN m ELSE MoveAssign(after[k - 1], last - k, dlast - k)]
  <2>1. f = [k \in 0 .. n |->
               IF k = 0 THEN m ELSE MoveAssign(f[k - 1], last - k, dlast - k)]
    <3>1. \A k \in 0 .. n : f[k] = IF k = 0 THEN m
                                   ELSE MoveAssign(f[k - 1], last - k, dlast - k)
      <4>. HIDE DEF f
      <4>. QED
        BY <1>1, <1>2
    <3>. QED
      BY <3>1
  <2>. HIDE DEF f
  <2>. QED
    BY <2>1
<1>. HIDE DEF after, f
<1>4. n \in Nat
  OBVIOUS
<1>5. f[0] = after[0] /\ \A k \in 1 .. n : f[k - 1] = after[k - 1] => f[k] = after[k]
  <2>. HIDE DEF n
  <2>1. 0 \in 0 .. n /\ \A k \in 1 .. n : k \in 0 .. n /\ k # 0
    BY <1>4
  <2>2. after[0] = m
    BY <1>3, <2>1
  <2>3. \A k \in 1 .. n : after[k] = MoveAssign(after[k - 1], last - k, dlast - k)
    BY <1>3, <2>1
  <2>. QED
    BY <1>1, <1>2, <2>2, <2>3
<1>6. f[n] = after[n]
  BY <1>4, <1>5, SameLoop
<1>7. MoveBackward(m, first, last, dlast) = after[n]
  BY DEF MoveBackward, Backward, after
<1>. QED
  BY <1>4, <1>6, <1>7 DEF f

\* m with s written to the cells from i on.
Written(N, m, i, s) ==
    [j \in 0 .. N - 1 |-> IF j \in i .. i + Len(s) - 1 THEN s[j - i + 1] ELSE m[j]]

\* copy and fill, over objects.
LEMMA CopyIs ==
    ASSUME NEW N \in Nat, NEW m \in Memories(N), NEW i \in Nat, NEW s \in Seq(Objects),
           i + Len(s) <= N, \A j \in i .. i + Len(s) - 1 : m[j] \in Objects
    PROVE  Copy(m, i, s) = Written(N, m, i, s)
<1>1. DOMAIN m = 0 .. N - 1
  BY DEF Memories
<1>2. \A j \in i .. i + Len(s) - 1 : Assign(m, j, s[j - i + 1])[j] = s[j - i + 1]
  <2>. SUFFICES ASSUME NEW j \in i .. i + Len(s) - 1
                PROVE  Assign(m, j, s[j - i + 1])[j] = s[j - i + 1]
    OBVIOUS
  <2>1. j \in 0 .. N - 1
    OBVIOUS
  <2>. QED
    BY <2>1, AssignIs
<1>. QED
  BY <1>1, <1>2 DEF Copy, Written

\* uninitialized_copy and uninitialized_fill, to raw memory.
LEMMA UninitializedCopyIs ==
    ASSUME NEW N \in Nat, NEW m \in Memories(N), NEW i \in Nat, NEW s \in Seq(Objects),
           i + Len(s) <= N, \A j \in i .. i + Len(s) - 1 : m[j] = Raw
    PROVE  UninitializedCopy(m, i, s) = Written(N, m, i, s)
<1>1. DOMAIN m = 0 .. N - 1
  BY DEF Memories
<1>2. \A j \in i .. i + Len(s) - 1 : Construct(m, j, s[j - i + 1])[j] = s[j - i + 1]
  <2>. SUFFICES ASSUME NEW j \in i .. i + Len(s) - 1
                PROVE  Construct(m, j, s[j - i + 1])[j] = s[j - i + 1]
    OBVIOUS
  <2>1. j \in 0 .. N - 1
    OBVIOUS
  <2>. QED
    BY <2>1, ConstructIs
<1>. QED
  BY <1>1, <1>2 DEF UninitializedCopy, Written

\* What is written is a memory again.
LEMMA WrittenIsMemory ==
    ASSUME NEW N \in Nat, NEW m \in Memories(N), NEW i \in Nat, NEW s \in Seq(Objects)
    PROVE  Written(N, m, i, s) \in Memories(N)
<1>1. \A j \in i .. i + Len(s) - 1 : s[j - i + 1] \in Objects
  <2>1. \A j \in i .. i + Len(s) - 1 : j - i + 1 \in 1 .. Len(s)
    OBVIOUS
  <2>. QED
    BY <2>1
<1>. QED
  BY <1>1 DEF Written, Memories

\* So is what a move leaves.
LEMMA ShiftedIsMemory ==
    ASSUME NEW N \in Nat, NEW m \in Memories(N), NEW s \in Nat, NEW d \in Nat, NEW n \in Nat,
           s + n <= N, \A i \in s .. s + n - 1 : m[i] \in Objects
    PROVE  Shifted(N, m, s, d, n) \in Memories(N)
<1>1. \A j \in d .. d + n - 1 : m[j - d + s] \in Objects
  <2>1. \A j \in d .. d + n - 1 : j - d + s \in s .. s + n - 1
    OBVIOUS
  <2>. QED
    BY <2>1
<1>. QED
  BY <1>1, ObjectsLive DEF Shifted, Memories

\* destroy.
LEMMA DestroyIs ==
    ASSUME NEW N \in Nat, NEW m \in Memories(N), NEW first \in Nat, NEW last \in Nat,
           last <= N, \A j \in first .. last - 1 : m[j] \in Objects
    PROVE  Destroy(m, first, last) =
              [j \in 0 .. N - 1 |-> IF j \in first .. last - 1 THEN Raw ELSE m[j]]
BY ObjectsLive DEF Destroy, Memories

-----------------------------------------------------------------------------
(* Sequences.                                                              *)

\* r has the elements of s, but those of t in place of the ones in [a, b).
IsSplice(r, s, a, b, t) ==
    /\ r \in Seq(Objects) /\ Len(r) = Len(s) - (b - a) + Len(t)
    /\ \A i \in 1 .. Len(s) - (b - a) + Len(t) :
          r[i] = IF i <= a THEN s[i]
                 ELSE IF i <= a + Len(t) THEN t[i - a] ELSE s[i - Len(t) + (b - a)]

\* Splice is such a sequence.
LEMMA SpliceIs ==
    ASSUME NEW s \in Seq(Objects), NEW t \in Seq(Objects), NEW a \in Nat, NEW b \in Nat,
           a <= b, b <= Len(s)
    PROVE  IsSplice(Splice(s, a, b, t), s, a, b, t)
<1>. DEFINE p == SubSeq(s, 1, a)
            q == SubSeq(s, b + 1, Len(s))
            u == p \o t
<1>0. Len(s) \in Nat /\ Len(t) \in Nat
  OBVIOUS
<1>1. p \in Seq(Objects) /\ Len(p) = a /\ \A i \in 1 .. a : p[i] = s[i]
  <2>1. \A i \in 1 .. a : s[i] \in Objects
    OBVIOUS
  <2>. QED
    BY <2>1, SubSeqProperties
<1>2. q \in Seq(Objects) /\ Len(q) = Len(s) - b /\ \A i \in 1 .. Len(s) - b : q[i] = s[b + i]
  <2>1. \A i \in b + 1 .. Len(s) : s[i] \in Objects
    OBVIOUS
  <2>. QED
    BY <2>1, SubSeqProperties
<1>3. Splice(s, a, b, t) = u \o q
  BY DEF Splice
<1>. HIDE DEF p, q, u
<1>4. /\ u \in Seq(Objects) /\ Len(u) = a + Len(t)
      /\ \A i \in 1 .. a + Len(t) : u[i] = IF i <= a THEN s[i] ELSE t[i - a]
  <2>1. /\ u \in Seq(Objects) /\ Len(u) = Len(p) + Len(t)
        /\ \A i \in 1 .. Len(p) + Len(t) : u[i] = IF i <= Len(p) THEN p[i] ELSE t[i - Len(p)]
    BY <1>1, ConcatProperties DEF u
  <2>. QED
    BY <1>0, <1>1, <2>1
<1>5. /\ u \o q \in Seq(Objects) /\ Len(u \o q) = Len(s) - (b - a) + Len(t)
      /\ \A i \in 1 .. Len(s) - (b - a) + Len(t) :
            (u \o q)[i] = IF i <= a + Len(t) THEN u[i] ELSE q[i - (a + Len(t))]
  <2>1. /\ u \o q \in Seq(Objects) /\ Len(u \o q) = Len(u) + Len(q)
        /\ \A i \in 1 .. Len(u) + Len(q) : (u \o q)[i] = IF i <= Len(u) THEN u[i] ELSE q[i - Len(u)]
    <3>1. u \in Seq(Objects) /\ q \in Seq(Objects)
      BY <1>2, <1>4
    <3>. QED
      BY <3>1, ConcatProperties
  <2>2. Len(u) + Len(q) = Len(s) - (b - a) + Len(t)
    BY <1>0, <1>2, <1>4
  <2>. QED
    BY <1>4, <2>1, <2>2
<1>6. \A i \in 1 .. Len(s) - (b - a) + Len(t) :
         (u \o q)[i] = IF i <= a THEN s[i]
                       ELSE IF i <= a + Len(t) THEN t[i - a] ELSE s[i - Len(t) + (b - a)]
  <2>. SUFFICES ASSUME NEW i \in 1 .. Len(s) - (b - a) + Len(t)
                PROVE  (u \o q)[i] = IF i <= a THEN s[i]
                                     ELSE IF i <= a + Len(t) THEN t[i - a]
                                     ELSE s[i - Len(t) + (b - a)]
    OBVIOUS
  <2>1. CASE i <= a + Len(t)
    <3>1. i \in 1 .. a + Len(t)
      BY <1>0, <2>1
    <3>. QED
      BY <1>0, <1>4, <1>5, <2>1, <3>1
  <2>2. CASE ~(i <= a + Len(t))
    <3>1. i - (a + Len(t)) \in 1 .. Len(s) - b /\ b + (i - (a + Len(t))) = i - Len(t) + (b - a)
      BY <1>0, <2>2
    <3>2. ~(i <= a)
      BY <1>0, <2>2
    <3>. QED
      BY <1>2, <1>5, <2>2, <3>1, <3>2
  <2>. QED
    BY <2>1, <2>2
<1>. QED
  BY <1>3, <1>5, <1>6 DEF IsSplice

\* n copies of an element.
LEMMA TimesIs ==
    ASSUME NEW S, NEW x \in S, NEW n \in Nat
    PROVE  /\ Times(n, x) \in Seq(S) /\ Len(Times(n, x)) = n
           /\ \A i \in 1 .. n : Times(n, x)[i] = x
BY DEF Times

\* A part of a sequence.
LEMMA PartIs ==
    ASSUME NEW S, NEW s \in Seq(S), NEW a \in Nat, NEW b \in Nat, a <= b, b <= Len(s)
    PROVE  /\ SubSeq(s, a + 1, b) \in Seq(S) /\ Len(SubSeq(s, a + 1, b)) = b - a
           /\ \A i \in 1 .. b - a : SubSeq(s, a + 1, b)[i] = s[a + i]
<1>1. \A i \in a + 1 .. b : s[i] \in S
  OBVIOUS
<1>. QED
  BY <1>1, SubSeqProperties

-----------------------------------------------------------------------------
(* Storages that hold a sequence.                                          *)

\* The fields of such a storage.
LEMMA StoredFields ==
    ASSUME NEW s \in Seq(Objects), NEW cap \in Nat, Len(s) <= cap
    PROVE  LET st == Stored(s, cap)
           IN  /\ st.cells \in Memories(cap) /\ st.size = Len(s) /\ Len(s) \in Nat
               /\ \A j \in 0 .. cap - 1 : st.cells[j] = IF j < Len(s) THEN s[j + 1] ELSE Raw
               /\ \A j \in 0 .. Len(s) - 1 : j \in 0 .. cap - 1 /\ st.cells[j] = s[j + 1]
                                             /\ s[j + 1] \in Objects
               /\ Capacity(st) = cap
<1>. DEFINE st == Stored(s, cap)
<1>1. /\ st.cells = [j \in 0 .. cap - 1 |-> IF j < Len(s) THEN s[j + 1] ELSE Raw]
      /\ st.size = Len(s) /\ Len(s) \in Nat
  BY DEF Stored
<1>. HIDE DEF st
<1>2. \A j \in 0 .. Len(s) - 1 : j \in 0 .. cap - 1 /\ s[j + 1] \in Objects
  <2>1. \A j \in 0 .. Len(s) - 1 : j \in 0 .. cap - 1 /\ j + 1 \in 1 .. Len(s)
    BY <1>1
  <2>. QED
    BY <2>1
<1>3. st.cells \in Memories(cap)
  <2>1. \A j \in 0 .. cap - 1 : j < Len(s) => j \in 0 .. Len(s) - 1
    BY <1>1
  <2>. QED
    BY <1>1, <1>2, <2>1 DEF Memories
<1>4. Capacity(st) = cap
  <2>1. DOMAIN st.cells = 0 .. cap - 1
    BY <1>1
  <2>2. Cardinality(0 .. cap - 1) = cap
    BY FS_Interval
  <2>. QED
    BY <2>1, <2>2 DEF Capacity
<1>. QED
  BY <1>1, <1>2, <1>3, <1>4 DEF st

\* A storage whose cells are those of s holds it.
LEMMA StoredIs ==
    ASSUME NEW s \in Seq(Objects), NEW cap \in Nat, NEW m, DOMAIN m = 0 .. cap - 1,
           m = [j \in DOMAIN m |-> m[j]],
           \A j \in 0 .. cap - 1 : m[j] = IF j < Len(s) THEN s[j + 1] ELSE Raw
    PROVE  [cells |-> m, size |-> Len(s)] = Stored(s, cap)
BY DEF Stored

\* Its first cells hold the parts of that sequence.
LEMMA ContentsIs ==
    ASSUME NEW s \in Seq(Objects), NEW cap \in Nat, Len(s) <= cap,
           NEW a \in Nat, NEW b \in Nat, a <= b, b <= Len(s)
    PROVE  Cells(Stored(s, cap).cells, a, b) = SubSeq(s, a + 1, b)
<1>. DEFINE m == Stored(s, cap).cells
            c == Cells(m, a, b)
            p == SubSeq(s, a + 1, b)
<1>1. /\ m \in Memories(cap)
      /\ \A j \in 0 .. Len(s) - 1 : j \in 0 .. cap - 1 /\ m[j] = s[j + 1] /\ s[j + 1] \in Objects
  BY StoredFields
<1>2. p \in Seq(Objects) /\ Len(p) = b - a /\ \A i \in 1 .. b - a : p[i] = s[a + i]
  BY PartIs
<1>. HIDE DEF m, p
<1>3. \A k \in 1 .. b - a : Read(m, a + k - 1) = s[a + k]
  <2>. SUFFICES ASSUME NEW k \in 1 .. b - a PROVE Read(m, a + k - 1) = s[a + k]
    OBVIOUS
  <2>. DEFINE j == a + k - 1
  <2>1. j \in 0 .. Len(s) - 1 /\ j + 1 = a + k
    OBVIOUS
  <2>. HIDE DEF j
  <2>2. j \in DOMAIN m /\ m[j] \in Objects /\ m[j] = s[a + k]
    BY <1>1, <2>1 DEF Memories
  <2>3. Read(m, j) = m[j]
    BY <2>2, ReadIs
  <2>. QED
    BY <2>2, <2>3 DEF j
<1>4. c = [k \in 1 .. b - a |-> s[a + k]]
  BY <1>3 DEF Cells
<1>5. p = [k \in 1 .. b - a |-> s[a + k]]
  <2>1. p \in [1 .. b - a -> Objects]
    BY <1>2
  <2>. QED
    BY <1>2, <2>1
<1>. QED
  BY <1>4, <1>5 DEF m, p

\* Contents is all of it.
LEMMA AllContentsIs ==
    ASSUME NEW s \in Seq(Objects), NEW cap \in Nat, Len(s) <= cap
    PROVE  Contents(Stored(s, cap)) = s
<1>1. Stored(s, cap).size = Len(s) /\ Len(s) \in Nat
  BY StoredFields
<1>2. Cells(Stored(s, cap).cells, 0, Len(s)) = SubSeq(s, 0 + 1, Len(s))
  <2>1. 0 \in Nat /\ 0 <= Len(s) /\ Len(s) <= Len(s)
    BY <1>1
  <2>. QED
    BY ONLY <1>1, <2>1, Len(s) <= cap, s \in Seq(Objects), cap \in Nat, ContentsIs
<1>3. SubSeq(s, 0 + 1, Len(s)) = s
  BY <1>1
<1>. QED
  BY <1>1, <1>2, <1>3 DEF Contents

\* A new storage holds nothing, and has the room that was asked for.
LEMMA AllocateIs ==
    ASSUME NEW n \in Nat
    PROVE  AllocatedFor(n) \in Nat /\ n <= AllocatedFor(n)
           /\ Allocate(n) = Stored(<<>>, AllocatedFor(n))
<1>1. AllocatedFor(n) \in Nat /\ n <= AllocatedFor(n)
  BY StorageAssumption DEF AllocatedFor
<1>. QED
  BY <1>1 DEF Allocate, Stored

\* Neither does a vector without storage.
LEMMA UnallocatedIs == Unallocated = Stored(<<>>, 0)
<1>1. <<>> = [i \in 0 .. 0 - 1 |-> Raw]
  OBVIOUS
<1>. QED
  BY <1>1 DEF Unallocated, Stored

\* unsafe_append_*, where there is room.
LEMMA AppendIs ==
    ASSUME NEW s \in Seq(Objects), NEW t \in Seq(Objects), NEW cap \in Nat,
           Len(s) + Len(t) <= cap
    PROVE  s \o t \in Seq(Objects) /\ Len(s \o t) = Len(s) + Len(t)
           /\ UnsafeAppend(Stored(s, cap), t) = Stored(s \o t, cap)
<1>. DEFINE m == Stored(s, cap).cells
            w == Written(cap, m, Len(s), t)
<1>0. Len(s) \in Nat /\ Len(t) \in Nat /\ Len(s) <= cap
  OBVIOUS
<1>1. /\ m \in Memories(cap) /\ Stored(s, cap).size = Len(s)
      /\ \A j \in 0 .. cap - 1 : m[j] = IF j < Len(s) THEN s[j + 1] ELSE Raw
  BY <1>0, StoredFields
<1>2. /\ s \o t \in Seq(Objects) /\ Len(s \o t) = Len(s) + Len(t)
      /\ \A i \in 1 .. Len(s) + Len(t) : (s \o t)[i] = IF i <= Len(s) THEN s[i] ELSE t[i - Len(s)]
  BY ConcatProperties
<1>. HIDE DEF m
<1>3. UninitializedCopy(m, Len(s), t) = w
  <2>1. \A j \in Len(s) .. Len(s) + Len(t) - 1 : m[j] = Raw
    BY SMTT(30), <1>0, <1>1
  <2>. QED
    BY <1>0, <1>1, <2>1, UninitializedCopyIs
<1>4. \A j \in 0 .. cap - 1 : w[j] = IF j < Len(s) + Len(t) THEN (s \o t)[j + 1] ELSE Raw
  <2>. SUFFICES ASSUME NEW j \in 0 .. cap - 1
                PROVE  w[j] = IF j < Len(s) + Len(t) THEN (s \o t)[j + 1] ELSE Raw
    OBVIOUS
  <2>1. w[j] = IF j \in Len(s) .. Len(s) + Len(t) - 1 THEN t[j - Len(s) + 1] ELSE m[j]
    BY DEF Written
  <2>2. j < Len(s) + Len(t) => j + 1 \in 1 .. Len(s) + Len(t) /\ (j + 1) - Len(s) = j - Len(s) + 1
    BY <1>0
  <2>. QED
    BY <1>0, <1>1, <1>2, <2>1, <2>2
<1>5. [cells |-> w, size |-> Len(s \o t)] = Stored(s \o t, cap)
  <2>1. DOMAIN w = 0 .. cap - 1 /\ w = [j \in DOMAIN w |-> w[j]]
    BY DEF Written
  <2>. HIDE DEF w
  <2>. QED
    BY <1>2, <1>4, <2>1, StoredIs
<1>. QED
  BY <1>1, <1>2, <1>3, <1>5 DEF UnsafeAppend, m

\* A storage that holds s has its elements, and is one of the storages.
LEMMA HoldsIs ==
    ASSUME NEW s \in Seq(Objects), NEW st, Holds(st, s)
    PROVE  st \in Storages /\ Becomes(st, s)
<1>1. PICK cap \in Nat : Len(s) <= cap /\ st = Stored(s, cap)
  BY DEF Holds
<1>2. st \in Storages
  BY <1>1 DEF Storages
<1>3. Contents(st) = s /\ Capacity(st) = cap
  BY <1>1, AllContentsIs, StoredFields
<1>. QED
  BY <1>1, <1>2, <1>3 DEF Becomes

\* The storages are those that hold a sequence.
LEMMA StoragesIs ==
    ASSUME NEW st \in Storages
    PROVE  \E s \in Seq(Objects), cap \in Nat : Len(s) <= cap /\ st = Stored(s, cap)
BY DEF Storages

\* Cells that are those of s make a storage that holds s.
LEMMA CellsHold ==
    ASSUME NEW s \in Seq(Objects), NEW cap \in Nat, Len(s) <= cap, NEW m \in Memories(cap),
           \A j \in 0 .. cap - 1 : m[j] = IF j < Len(s) THEN s[j + 1] ELSE Raw
    PROVE  Holds([cells |-> m, size |-> Len(s)], s)
<1>1. DOMAIN m = 0 .. cap - 1 /\ m = [j \in DOMAIN m |-> m[j]]
  BY DEF Memories
<1>2. [cells |-> m, size |-> Len(s)] = Stored(s, cap)
  BY <1>1, StoredIs
<1>. QED
  BY <1>2 DEF Holds

\* Objects in the first n cells and none behind them are some sequence.
LEMMA ObjectsHold ==
    ASSUME NEW cap \in Nat, NEW n \in Nat, n <= cap, NEW m \in Memories(cap),
           \A j \in 0 .. cap - 1 : IF j < n THEN m[j] \in Objects ELSE m[j] = Raw
    PROVE  [cells |-> m, size |-> n] \in Storages
<1>. DEFINE s == [i \in 1 .. n |-> m[i - 1]]
<1>1. s \in Seq(Objects) /\ Len(s) = n
  <2>1. \A i \in 1 .. n : i - 1 \in 0 .. cap - 1 /\ i - 1 < n
    OBVIOUS
  <2>2. s \in [1 .. n -> Objects]
    BY <2>1
  <2>. QED
    BY <2>2
<1>2. \A j \in 0 .. cap - 1 : m[j] = IF j < n THEN s[j + 1] ELSE Raw
  OBVIOUS
<1>. HIDE DEF s
<1>3. Holds([cells |-> m, size |-> Len(s)], s)
  BY <1>1, <1>2, CellsHold
<1>. QED
  BY <1>1, <1>3, HoldsIs

-----------------------------------------------------------------------------
(* The operations: from a storage that holds s, one that holds the result. *)

\* The constructors.
LEMMA ConstructedIs ==
    ASSUME NEW s \in Seq(Objects)
    PROVE  Holds(Constructed(s), s)
<1>1. Len(s) \in Nat /\ <<>> \in Seq(Objects) /\ Len(<<>>) = 0
  OBVIOUS
<1>. DEFINE n == next2power(Len(s))
<1>2. n \in Nat /\ Len(s) <= n
  BY <1>1, NextPowerIs
<1>. HIDE DEF n
<1>. DEFINE cap == AllocatedFor(n)
<1>3. cap \in Nat /\ n <= cap /\ Allocate(n) = Stored(<<>>, cap)
  BY <1>2, AllocateIs
<1>. HIDE DEF cap
<1>4. Len(s) <= cap
  BY <1>1, <1>2, <1>3
<1>5. UnsafeAppend(Stored(<<>>, cap), s) = Stored(<<>> \o s, cap)
  <2>1. Len(<<>>) + Len(s) <= cap
    BY <1>1, <1>4
  <2>. QED
    BY <1>1, <1>3, <2>1, AppendIs
<1>6. <<>> \o s = s
  BY ConcatEmptySeq
<1>7. Constructed(s) = Stored(s, cap)
  BY <1>3, <1>5, <1>6 DEF Constructed, n
<1>. QED
  BY <1>3, <1>4, <1>7 DEF Holds

\* reserve and grow.
LEMMA GrownIs ==
    ASSUME NEW s \in Seq(Objects), NEW cap \in Nat, Len(s) <= cap, NEW n \in Nat
    PROVE  Holds(grow(Stored(s, cap), n), s) /\ Capacity(grow(Stored(s, cap), n)) >= n
<1>. DEFINE st == Stored(s, cap)
<1>1. Capacity(st) = cap /\ Contents(st) = s /\ Len(s) \in Nat
  BY StoredFields, AllContentsIs
<1>2. CASE cap >= n
  BY <1>1, <1>2 DEF grow, Holds
<1>3. CASE ~(cap >= n)
  <2>1. next2power(n) \in Nat /\ n <= next2power(n)
    BY NextPowerIs
  <2>. DEFINE p == next2power(n)
              new == AllocatedFor(p)
  <2>. HIDE DEF p
  <2>2. new \in Nat /\ p <= new /\ Allocate(p) = Stored(<<>>, new)
    BY <2>1, AllocateIs DEF p
  <2>. HIDE DEF new
  <2>3. Len(s) <= new /\ n <= new
    BY <1>1, <1>3, <2>1, <2>2 DEF p
  <2>4. UnsafeAppend(Stored(<<>>, new), s) = Stored(<<>> \o s, new)
    <3>1. <<>> \in Seq(Objects) /\ Len(<<>>) + Len(s) <= new
      BY <1>1, <2>3
    <3>. QED
      BY <2>2, <3>1, AppendIs
  <2>5. <<>> \o s = s
    BY ConcatEmptySeq
  <2>6. grow(st, n) = Stored(s, new)
    BY <1>1, <1>3, <2>2, <2>4, <2>5 DEF grow, p
  <2>7. Capacity(Stored(s, new)) = new
    BY <2>2, <2>3, StoredFields
  <2>. QED
    BY <2>2, <2>3, <2>6, <2>7 DEF Holds
<1>. QED
  BY <1>2, <1>3

\* Growing with a sequence between two parts of the old storage.
LEMMA RegrownIs ==
    ASSUME NEW s \in Seq(Objects), NEW cap \in Nat, Len(s) <= cap, NEW t \in Seq(Objects),
           NEW a \in Nat, NEW b \in Nat, a <= b, b <= Len(s)
    PROVE  Holds(Regrown(Stored(s, cap), a, b, t), Splice(s, a, b, t))
<1>. DEFINE st == Stored(s, cap)
            p == SubSeq(s, 1, a)
            q == SubSeq(s, b + 1, Len(s))
            count == Len(s) - (b - a) + Len(t)
            room == next2power(count)
            new == AllocatedFor(room)
<1>0. Len(s) \in Nat /\ Len(t) \in Nat /\ count \in Nat /\ a <= Len(s)
  OBVIOUS
<1>1. st.size = Len(s)
  BY StoredFields
<1>2. p \in Seq(Objects) /\ Len(p) = a /\ Cells(st.cells, 0, a) = p
  <2>1. SubSeq(s, 0 + 1, a) \in Seq(Objects) /\ Len(SubSeq(s, 0 + 1, a)) = a - 0
    BY <1>0, PartIs
  <2>2. Cells(st.cells, 0, a) = SubSeq(s, 0 + 1, a)
    BY <1>0, ContentsIs
  <2>. QED
    BY <2>1, <2>2
<1>3. q \in Seq(Objects) /\ Len(q) = Len(s) - b /\ Cells(st.cells, b, Len(s)) = q
  <2>1. b <= Len(s) /\ Len(s) <= Len(s)
    BY <1>0
  <2>2. SubSeq(s, b + 1, Len(s)) \in Seq(Objects) /\ Len(SubSeq(s, b + 1, Len(s))) = Len(s) - b
    BY <1>0, <2>1, PartIs
  <2>3. Cells(st.cells, b, Len(s)) = SubSeq(s, b + 1, Len(s))
    <3>1. \A n \in Nat : b <= n /\ n <= Len(s) => Cells(st.cells, b, n) = SubSeq(s, b + 1, n)
      BY ContentsIs
    <3>. QED
      BY <1>0, <2>1, <3>1
  <2>. QED
    BY <2>2, <2>3
<1>4. room \in Nat /\ count <= room
  <2>. HIDE DEF count
  <2>. QED
    BY <1>0, NextPowerIs
<1>5. new \in Nat /\ room <= new /\ Allocate(room) = Stored(<<>>, new)
  <2>. HIDE DEF room
  <2>. QED
    BY <1>4, AllocateIs
<1>6. Regrown(st, a, b, t) =
         UnsafeAppend(UnsafeAppend(UnsafeAppend(Stored(<<>>, new), p), t), q)
  BY <1>1, <1>2, <1>3, <1>5 DEF Regrown
<1>. HIDE DEF st, p, q, room, new
<1>7. a + Len(t) + Len(q) <= new /\ a + Len(t) <= new /\ a <= new /\ count = a + Len(t) + Len(q)
  BY <1>0, <1>3, <1>4, <1>5
<1>8. UnsafeAppend(Stored(<<>>, new), p) = Stored(p, new)
  <2>. DEFINE none == <<>>
  <2>1. none \in Seq(Objects) /\ p \in Seq(Objects) /\ new \in Nat /\ Len(none) + Len(p) <= new
    BY <1>2, <1>5, <1>7
  <2>2. none \o p = p
    BY <1>2, ConcatEmptySeq
  <2>. HIDE DEF none
  <2>3. UnsafeAppend(Stored(none, new), p) = Stored(none \o p, new)
    BY <2>1, AppendIs
  <2>. QED
    BY <2>2, <2>3 DEF none
<1>9. /\ UnsafeAppend(Stored(p, new), t) = Stored(p \o t, new)
      /\ p \o t \in Seq(Objects) /\ Len(p \o t) = a + Len(t)
  <2>1. p \in Seq(Objects) /\ Len(p) = a /\ new \in Nat /\ Len(p) + Len(t) <= new
    BY <1>2, <1>5, <1>7
  <2>2. UnsafeAppend(Stored(p, new), t) = Stored(p \o t, new)
    BY <2>1, AppendIs
  <2>3. p \o t \in Seq(Objects) /\ Len(p \o t) = Len(p) + Len(t)
    BY <2>1, AppendIs
  <2>. QED
    BY <2>1, <2>2, <2>3
<1>. DEFINE u == p \o t
<1>10. /\ UnsafeAppend(Stored(u, new), q) = Stored(u \o q, new)
       /\ Len(u \o q) = a + Len(t) + Len(q)
  <2>1. u \in Seq(Objects) /\ q \in Seq(Objects) /\ new \in Nat /\ Len(u) + Len(q) <= new
    BY <1>3, <1>5, <1>7, <1>9
  <2>. HIDE DEF u
  <2>2. UnsafeAppend(Stored(u, new), q) = Stored(u \o q, new)
    BY <2>1, AppendIs
  <2>3. Len(u \o q) = Len(u) + Len(q)
    BY <2>1, AppendIs
  <2>. QED
    BY <1>9, <2>2, <2>3 DEF u
<1>11. Splice(s, a, b, t) = u \o q
  BY DEF Splice, p, q
<1>. QED
  BY <1>5, <1>6, <1>7, <1>8, <1>9, <1>10, <1>11 DEF Holds, st

\* What insertion of t at pos leaves, cell by cell.
LEMMA InsertedIs ==
    ASSUME NEW s \in Seq(Objects), NEW t \in Seq(Objects), NEW pos \in 0 .. Len(s)
    PROVE  LET r == Splice(s, pos, pos, t)
           IN  /\ r \in Seq(Objects) /\ Len(r) = Len(s) + Len(t)
               /\ \A j \in 0 .. Len(s) + Len(t) - 1 :
                     r[j + 1] = IF j < pos THEN s[j + 1]
                                ELSE IF j < pos + Len(t) THEN t[j - pos + 1] ELSE s[j - Len(t) + 1]
<1>. DEFINE r == Splice(s, pos, pos, t)
<1>0. pos \in Nat /\ pos <= pos /\ pos <= Len(s) /\ Len(s) \in Nat /\ Len(t) \in Nat
  OBVIOUS
<1>1. /\ r \in Seq(Objects) /\ Len(r) = Len(s) - (pos - pos) + Len(t)
      /\ \A i \in 1 .. Len(s) - (pos - pos) + Len(t) :
            r[i] = IF i <= pos THEN s[i]
                   ELSE IF i <= pos + Len(t) THEN t[i - pos] ELSE s[i - Len(t) + (pos - pos)]
  <2>1. IsSplice(r, s, pos, pos, t)
    BY <1>0, SpliceIs
  <2>. QED
    BY <2>1 DEF IsSplice
<1>. HIDE DEF r
<1>2. \A j \in 0 .. Len(s) + Len(t) - 1 :
         r[j + 1] = IF j < pos THEN s[j + 1]
                    ELSE IF j < pos + Len(t) THEN t[j - pos + 1] ELSE s[j - Len(t) + 1]
  <2>. SUFFICES ASSUME NEW j \in 0 .. Len(s) + Len(t) - 1
                PROVE  r[j + 1] = IF j < pos THEN s[j + 1]
                                  ELSE IF j < pos + Len(t) THEN t[j - pos + 1] ELSE s[j - Len(t) + 1]
    OBVIOUS
  <2>1. j + 1 \in 1 .. Len(s) - (pos - pos) + Len(t)
    BY <1>0
  <2>. DEFINE i == j + 1
  <2>2. /\ i <= pos <=> j < pos
        /\ i <= pos + Len(t) <=> j < pos + Len(t)
        /\ i - pos = j - pos + 1 /\ i - Len(t) + (pos - pos) = j - Len(t) + 1
    BY <1>0
  <2>3. i \in 1 .. Len(s) - (pos - pos) + Len(t)
    BY <2>1
  <2>. HIDE DEF i
  <2>4. r[i] = IF i <= pos THEN s[i]
               ELSE IF i <= pos + Len(t) THEN t[i - pos] ELSE s[i - Len(t) + (pos - pos)]
    BY <1>1, <2>3
  <2>5. r[i] = IF i <= pos THEN s[i]
               ELSE IF j < pos + Len(t) THEN t[j - pos + 1] ELSE s[j - Len(t) + 1]
    BY <2>2, <2>4
  <2>. QED
    BY <2>2, <2>5 DEF i
<1>. QED
  BY <1>0, <1>1, <1>2 DEF r

\* The last count elements moved to the cells behind them.
LEMMA LastMovedIs ==
    ASSUME NEW s \in Seq(Objects), NEW cap \in Nat, NEW count \in Nat,
           count > 0, Len(s) + count <= cap, count <= Len(s)
    PROVE  LET z == Len(s)
               a == UninitializedMove(Stored(s, cap).cells, z - count, z, z)
           IN  /\ a \in Memories(cap)
               /\ \A j \in 0 .. cap - 1 :
                     a[j] = IF j < z - count THEN s[j + 1] ELSE IF j < z THEN Moved
                            ELSE IF j < z + count THEN s[j - count + 1] ELSE Raw
               /\ \A j \in 0 .. z + count - 1 : j \in 0 .. cap - 1 /\ a[j] \in Objects
<1>. DEFINE z == Len(s)
            m == Stored(s, cap).cells
            a == UninitializedMove(m, z - count, z, z)
<1>0. /\ z \in Nat /\ z <= cap /\ z - count \in Nat
      /\ z + z - (z - count) = z + count /\ z - (z - count) = count
  OBVIOUS
<1>1. /\ m \in Memories(cap)
      /\ \A j \in 0 .. cap - 1 : m[j] = IF j < z THEN s[j + 1] ELSE Raw
      /\ \A j \in 0 .. z - 1 : j \in 0 .. cap - 1 /\ m[j] = s[j + 1] /\ s[j + 1] \in Objects
  BY <1>0, StoredFields
<1>. HIDE DEF m, z
<1>2. a = Shifted(cap, m, z - count, z, count)
  <2>. DEFINE e == z - count
  <2>1. Filled(m, e, z)
    <3>1. \A i \in e .. z - 1 : i \in 0 .. z - 1
      BY <1>0
    <3>. QED
      BY <1>1, <3>1 DEF Filled
  <2>2. Free(m, z, z + z - e)
    <3>1. \A i \in z .. z + z - e - 1 : i \in 0 .. cap - 1 /\ ~(i < z)
      BY <1>0 DEF z
    <3>2. \A i \in z .. z + z - e - 1 : m[i] = Raw
      BY <1>1, <3>1
    <3>. QED
      BY <1>0, <3>2 DEF Free
  <2>3. e \in Nat /\ e <= z /\ z <= z /\ z + z - e <= cap
    BY <1>0 DEF z
  <2>. HIDE DEF e, a
  <2>4. UninitializedMove(m, e, z, z) = Shifted(cap, m, e, z, z - e)
    <3>1. cap \in Nat /\ z \in Nat /\ m \in Memories(cap)
      BY <1>0, <1>1
    <3>. QED
      BY <2>1, <2>2, <2>3, <3>1, UninitializedMoveIs
  <2>. QED
    BY <1>0, <2>4 DEF e, a
<1>. HIDE DEF a
<1>3. a \in Memories(cap)
  <2>1. \A i \in z - count .. z - count + count - 1 : m[i] \in Objects
    <3>1. \A i \in z - count .. z - count + count - 1 : i \in 0 .. z - 1
      BY <1>0
    <3>. QED
      BY <1>1, <3>1
  <2>2. z - count + count <= cap
    BY <1>0
  <2>. QED
    BY <1>0, <1>1, <1>2, <2>1, <2>2, ShiftedIsMemory
<1>4. \A j \in 0 .. cap - 1 :
         a[j] = IF j < z - count THEN s[j + 1] ELSE IF j < z THEN Moved
                ELSE IF j < z + count THEN s[j - count + 1] ELSE Raw
  <2>. SUFFICES ASSUME NEW j \in 0 .. cap - 1
                PROVE  a[j] = IF j < z - count THEN s[j + 1] ELSE IF j < z THEN Moved
                              ELSE IF j < z + count THEN s[j - count + 1] ELSE Raw
    OBVIOUS
  <2>1. a[j] = IF j \in z .. z + count - 1 THEN m[j - z + (z - count)]
               ELSE IF j \in z - count .. z - count + count - 1 THEN Moved ELSE m[j]
    BY <1>2 DEF Shifted
  <2>2. CASE j \in z .. z + count - 1
    <3>1. j - z + (z - count) = j - count /\ j - count \in 0 .. z - 1
      BY <1>0, <2>2
    <3>. QED
      BY <1>0, <1>1, <2>1, <2>2, <3>1
  <2>3. CASE j \notin z .. z + count - 1
    <3>1. j < z \/ ~(j < z + count)
      BY <1>0, <2>3
    <3>2. a[j] = IF j \in z - count .. z - count + count - 1 THEN Moved ELSE m[j]
      BY <2>1, <2>3
    <3>3. j \in z - count .. z - count + count - 1 <=> ~(j < z - count) /\ j < z
      BY <1>0
    <3>4. m[j] = IF j < z THEN s[j + 1] ELSE Raw
      BY <1>1
    <3>5. z - count <= z /\ z <= z + count
      BY <1>0
    <3>. QED
      BY SMTT(30), <1>0, <3>1, <3>2, <3>3, <3>4, <3>5
  <2>. QED
    BY <2>2, <2>3
<1>5. ASSUME NEW j \in 0 .. z + count - 1
      PROVE  j \in 0 .. cap - 1 /\ a[j] \in Objects
  <2>1. j \in 0 .. cap - 1
    BY <1>0 DEF z
  <2>2. CASE j < z - count
    <3>1. j \in 0 .. z - 1
      BY <1>0, <2>2
    <3>. QED
      BY <1>1, <1>4, <2>1, <2>2, <3>1
  <2>3. CASE j \in z - count .. z - 1
    BY SMTT(30), <1>0, <1>4, <2>1, <2>3, ObjectsLive
  <2>4. CASE j \in z .. z + count - 1
    <3>1. j - count \in 0 .. z - 1 /\ ~(j < z) /\ ~(j < z - count) /\ j < z + count
      BY <1>0, <2>4
    <3>. QED
      BY <1>1, <1>4, <2>1, <3>1
  <2>. QED
    BY <1>0, <2>1, <2>2, <2>3, <2>4
<1>. QED
  BY <1>3, <1>4, <1>5 DEF a, m, z

\* Room for count elements, no more than are behind pos, made by moving these up.
LEMMA MovedUpIs ==
    ASSUME NEW s \in Seq(Objects), NEW cap \in Nat, NEW pos \in 0 .. Len(s), NEW count \in Nat,
           count > 0, Len(s) + count <= cap, count <= Len(s) - pos
    PROVE  LET z == Len(s)
               m == Stored(s, cap).cells
               up == MoveBackward(UninitializedMove(m, z - count, z, z), pos, z - count, z)
           IN  /\ up \in Memories(cap)
               /\ \A j \in 0 .. cap - 1 :
                     up[j] = IF j < pos THEN s[j + 1]
                             ELSE IF j < pos + count THEN up[j]
                             ELSE IF j < z + count THEN s[j - count + 1] ELSE Raw
               /\ \A j \in pos .. pos + count - 1 : up[j] \in Objects
<1>. DEFINE z == Len(s)
            m == Stored(s, cap).cells
            a == UninitializedMove(m, z - count, z, z)
            up == MoveBackward(a, pos, z - count, z)
<1>0. /\ z \in Nat /\ z <= cap /\ pos \in Nat /\ z - count \in Nat /\ pos <= z - count
      /\ z + z - (z - count) = z + count /\ z - (z - count) = count
      /\ z - (z - count - pos) = pos + count /\ z - count - pos \in Nat /\ pos + count \in Nat
  OBVIOUS
<1>1. /\ m \in Memories(cap)
      /\ \A j \in 0 .. cap - 1 : m[j] = IF j < z THEN s[j + 1] ELSE Raw
      /\ \A j \in 0 .. z - 1 : j \in 0 .. cap - 1 /\ m[j] = s[j + 1] /\ s[j + 1] \in Objects
  BY <1>0, StoredFields
<1>. HIDE DEF m, z
<1>2. /\ a \in Memories(cap)
      /\ \A j \in 0 .. cap - 1 :
            a[j] = IF j < z - count THEN s[j + 1] ELSE IF j < z THEN Moved
                   ELSE IF j < z + count THEN s[j - count + 1] ELSE Raw
      /\ \A j \in 0 .. z + count - 1 : j \in 0 .. cap - 1 /\ a[j] \in Objects
  <2>1. count <= Len(s)
    BY <1>0 DEF z
  <2>. QED
    BY <2>1, LastMovedIs DEF m, z
<1>. HIDE DEF a
<1>3. a \in Memories(cap)
  BY <1>2
<1>4. \A j \in 0 .. cap - 1 :
         a[j] = IF j < z - count THEN s[j + 1] ELSE IF j < z THEN Moved
                ELSE IF j < z + count THEN s[j - count + 1] ELSE Raw
  BY <1>2
<1>5. up = Shifted(cap, a, pos, pos + count, z - count - pos)
  <2>1. \A i \in pos .. z - count - 1 : a[i] \in Objects
    <3>1. \A i \in pos .. z - count - 1 : i \in 0 .. z - 1 /\ i < z - count
      BY <1>0
    <3>. QED
      BY <1>0, <1>1, <1>4, <3>1
  <2>2. \A i \in pos + count .. z - 1 : a[i] \in Objects
    <3>1. \A i \in pos + count .. z - 1 : i \in 0 .. z - 1 /\ i \in 0 .. cap - 1
      BY <1>0
    <3>. QED
      BY <1>0, <1>1, <1>4, <3>1, ObjectsLive
  <2>. DEFINE e == z - count
  <2>3. e \in Nat /\ pos <= e /\ e <= z
    BY <1>0
  <2>. DEFINE d == pos + count
  <2>4. d \in Nat /\ d = z - (e - pos) /\ Filled(a, d, z)
    BY <1>0, <2>2 DEF Filled
  <2>. HIDE DEF e, d, up
  <2>5. MoveBackward(a, pos, e, z) = Shifted(cap, a, pos, d, e - pos)
    <3>1. Filled(a, pos, e)
      BY <2>1 DEF e, Filled
    <3>2. z <= cap
      BY <1>0
    <3>3. cap \in Nat /\ pos \in Nat /\ z \in Nat
      BY <1>0
    <3>. QED
      BY <1>3, <2>3, <2>4, <3>1, <3>2, <3>3, MoveBackwardIs
  <2>. QED
    BY <1>0, <2>5 DEF e, d, up
<1>. HIDE DEF up
<1>6. up \in Memories(cap)
  <2>1. \A i \in pos .. pos + (z - count - pos) - 1 : a[i] \in Objects
    <3>1. \A i \in pos .. pos + (z - count - pos) - 1 : i \in 0 .. z - 1 /\ i < z - count
      BY <1>0
    <3>. QED
      BY <1>0, <1>1, <1>4, <3>1
  <2>2. pos + (z - count - pos) <= cap
    BY <1>0
  <2>. QED
    BY <1>0, <1>3, <1>5, <2>1, <2>2, ShiftedIsMemory
<1>7. \A j \in 0 .. cap - 1 :
         up[j] = IF j \in pos + count .. pos + count + (z - count - pos) - 1 THEN a[j - (pos + count) + pos]
                 ELSE IF j \in pos .. pos + (z - count - pos) - 1 THEN Moved ELSE a[j]
  BY <1>5 DEF Shifted
<1>8. ASSUME NEW j \in 0 .. cap - 1
      PROVE  up[j] = IF j < pos THEN s[j + 1] ELSE IF j < pos + count THEN up[j]
                     ELSE IF j < z + count THEN s[j - count + 1] ELSE Raw
  <2>1. CASE j \in pos + count .. z - 1
    <3>1. /\ j \in pos + count .. pos + count + (z - count - pos) - 1
          /\ j - (pos + count) + pos = j - count /\ j - count \in 0 .. cap - 1 /\ j - count < z - count
      BY <1>0, <2>1
    <3>. QED
      BY <1>0, <1>4, <1>7, <2>1, <3>1
  <2>2. CASE j \notin pos + count .. z - 1
    <3>1. pos + count + (z - count - pos) - 1 = z - 1
      BY <1>0
    <3>2. up[j] = IF j \in pos .. pos + (z - count - pos) - 1 THEN Moved ELSE a[j]
      BY <1>7, <2>2, <3>1
    <3>3. j \notin pos .. pos + (z - count - pos) - 1 \/ j \in pos .. pos + count - 1
      BY <1>0, <2>2
    <3>4. CASE j \in pos .. pos + count - 1
      <4>1. ~(j < pos) /\ j < pos + count
        BY <1>0, <3>4
      <4>. QED
        BY <4>1
    <3>5. CASE j \notin pos .. pos + count - 1
      <4>1. up[j] = a[j]
        BY <3>2, <3>3, <3>5
      <4>. QED
        BY <1>0, <1>4, <2>2, <3>5, <4>1
    <3>. QED
      BY <3>4, <3>5
  <2>. QED
    BY <2>1, <2>2
<1>9. ASSUME NEW j \in pos .. pos + count - 1
      PROVE  up[j] \in Objects
  <2>1. j \in 0 .. cap - 1 /\ j \in 0 .. z - 1
    BY <1>0
  <2>2. up[j] = Moved \/ up[j] = a[j]
    <3>1. j \notin pos + count .. pos + count + (z - count - pos) - 1
      BY <1>0
    <3>2. up[j] = IF j \in pos .. pos + (z - count - pos) - 1 THEN Moved ELSE a[j]
      BY <1>7, <2>1, <3>1
    <3>. QED
      BY <3>2
  <2>. QED
    BY <1>0, <1>1, <1>4, <2>1, <2>2, ObjectsLive
<1>. QED
  BY <1>6, <1>8, <1>9 DEF up, a, m, z

\* Room for count elements, more than are behind pos.
LEMMA MovedPastIs ==
    ASSUME NEW s \in Seq(Objects), NEW cap \in Nat, NEW pos \in 0 .. Len(s), NEW count \in Nat,
           Len(s) + count <= cap, count > Len(s) - pos
    PROVE  LET z == Len(s)
               past == UninitializedMove(Stored(s, cap).cells, pos, z, pos + count)
           IN  /\ past \in Memories(cap)
               /\ \A j \in 0 .. cap - 1 :
                     past[j] = IF j < pos THEN s[j + 1] ELSE IF j < z THEN Moved
                               ELSE IF j \in pos + count .. z + count - 1 THEN s[j - count + 1] ELSE Raw
<1>. DEFINE z == Len(s)
            m == Stored(s, cap).cells
            past == UninitializedMove(m, pos, z, pos + count)
<1>0. /\ z \in Nat /\ pos \in Nat /\ pos <= z /\ z <= cap /\ pos + count \in Nat
      /\ z <= pos + count /\ pos + count + z - pos <= cap /\ pos + (z - pos) <= cap /\ z - pos \in Nat
      /\ z + count <= cap /\ z < pos + count
  OBVIOUS
<1>1. /\ m \in Memories(cap)
      /\ \A j \in 0 .. cap - 1 : m[j] = IF j < z THEN s[j + 1] ELSE Raw
      /\ \A j \in 0 .. z - 1 : j \in 0 .. cap - 1 /\ m[j] = s[j + 1] /\ s[j + 1] \in Objects
  BY <1>0, StoredFields
<1>. HIDE DEF m, z
<1>2. past = Shifted(cap, m, pos, pos + count, z - pos)
  <2>1. Filled(m, pos, z)
    <3>1. \A i \in pos .. z - 1 : i \in 0 .. z - 1
      BY <1>0
    <3>. QED
      BY <1>1, <3>1 DEF Filled
  <2>. DEFINE d == pos + count
  <2>2. Free(m, d, d + z - pos)
    <3>1. \A i \in d .. d + z - pos - 1 : i \in 0 .. cap - 1 /\ ~(i < z)
      BY <1>0
    <3>2. \A i \in d .. d + z - pos - 1 : m[i] = Raw
      BY <1>1, <3>1
    <3>. QED
      BY <1>0, <3>2 DEF Free
  <2>3. d \in Nat /\ z <= d /\ d + z - pos <= cap
    BY <1>0
  <2>. HIDE DEF d
  <2>4. UninitializedMove(m, pos, z, d) = Shifted(cap, m, pos, d, z - pos)
    BY <1>0, <1>1, <2>1, <2>2, <2>3, UninitializedMoveIs
  <2>. QED
    BY <2>4 DEF d
<1>. HIDE DEF past
<1>3. past \in Memories(cap)
  <2>1. \A i \in pos .. pos + (z - pos) - 1 : m[i] \in Objects
    <3>1. \A i \in pos .. pos + (z - pos) - 1 : i \in 0 .. z - 1
      BY <1>0
    <3>. QED
      BY <1>1, <3>1
  <2>. QED
    BY <1>0, <1>1, <1>2, <2>1, ShiftedIsMemory
<1>4. ASSUME NEW j \in 0 .. cap - 1
      PROVE  past[j] = IF j < pos THEN s[j + 1] ELSE IF j < z THEN Moved
                       ELSE IF j \in pos + count .. z + count - 1 THEN s[j - count + 1] ELSE Raw
  <2>1. past[j] = IF j \in pos + count .. pos + count + (z - pos) - 1 THEN m[j - (pos + count) + pos]
                  ELSE IF j \in pos .. pos + (z - pos) - 1 THEN Moved ELSE m[j]
    BY <1>2 DEF Shifted
  <2>2. CASE j \in pos + count .. z + count - 1
    <3>1. /\ j \in pos + count .. pos + count + (z - pos) - 1
          /\ j - (pos + count) + pos = j - count /\ j - count \in 0 .. z - 1 /\ ~(j < z) /\ ~(j < pos)
      BY <1>0, <2>2
    <3>2. past[j] = m[j - count]
      BY <2>1, <3>1
    <3>. QED
      BY <1>1, <2>2, <3>1, <3>2
  <2>3. CASE j \notin pos + count .. z + count - 1
    <3>1. /\ j \notin pos + count .. pos + count + (z - pos) - 1
          /\ j \in pos .. pos + (z - pos) - 1 <=> ~(j < pos) /\ j < z
      BY <1>0, <2>3
    <3>2. past[j] = IF ~(j < pos) /\ j < z THEN Moved ELSE m[j]
      BY <2>1, <3>1
    <3>. QED
      BY <1>0, <1>1, <2>3, <3>2
  <2>. QED
    BY <2>2, <2>3
<1>. QED
  BY <1>3, <1>4 DEF past, m, z

\* insert of a count.
LEMMA InsertFillIs ==
    ASSUME NEW s \in Seq(Objects), NEW cap \in Nat, Len(s) <= cap,
           NEW pos \in 0 .. Len(s), NEW count \in Nat, NEW x \in Objects
    PROVE  Holds(InsertFill(Stored(s, cap), pos, count, x), Splice(s, pos, pos, Times(count, x)))
<1>. DEFINE z == Len(s)
            st == Stored(s, cap)
            t == Times(count, x)
            r == Splice(s, pos, pos, t)
            n == z - pos
<1>0. z \in Nat /\ pos \in Nat /\ pos <= z /\ n \in Nat
  OBVIOUS
<1>1. st.size = z /\ Capacity(st) = cap /\ st = [cells |-> st.cells, size |-> z]
      /\ st.cells \in Memories(cap)
      /\ \A j \in 0 .. cap - 1 : st.cells[j] = IF j < z THEN s[j + 1] ELSE Raw
  <2>1. st.size = z /\ st = [cells |-> st.cells, size |-> z]
    BY DEF Stored
  <2>. QED
    BY <2>1, StoredFields
<1>2. t \in Seq(Objects) /\ Len(t) = count /\ \A i \in 1 .. count : t[i] = x
  BY TimesIs
<1>. HIDE DEF t
<1>3. /\ r \in Seq(Objects) /\ Len(r) = z + count
      /\ \A j \in 0 .. z + count - 1 :
            r[j + 1] = IF j < pos THEN s[j + 1]
                       ELSE IF j < pos + count THEN x ELSE s[j - count + 1]
  <2>1. /\ r \in Seq(Objects) /\ Len(r) = Len(s) + Len(t)
        /\ \A j \in 0 .. Len(s) + Len(t) - 1 :
              r[j + 1] = IF j < pos THEN s[j + 1]
                         ELSE IF j < pos + Len(t) THEN t[j - pos + 1] ELSE s[j - Len(t) + 1]
    BY <1>2, InsertedIs
  <2>2. \A j \in pos .. pos + count - 1 : t[j - pos + 1] = x
    <3>1. \A j \in pos .. pos + count - 1 : j - pos + 1 \in 1 .. count
      BY <1>0
    <3>. QED
      BY <1>2, <3>1
  <2>. QED
    BY SMTT(30), <1>0, <1>2, <2>1, <2>2
<1>. HIDE DEF st, r, n, z
<1>4. CASE count = 0
  <2>1. \A j \in 0 .. cap - 1 : st.cells[j] = IF j < Len(r) THEN r[j + 1] ELSE Raw
    BY <1>0, <1>1, <1>3, <1>4
  <2>2. Holds([cells |-> st.cells, size |-> Len(r)], r)
    BY <1>1, <1>3, <1>4, <2>1, CellsHold DEF z
  <2>. QED
    BY <1>0, <1>1, <1>3, <1>4, <2>2 DEF InsertFill, st, r, t
<1>5. CASE count # 0 /\ Full(st, count)
  <2>1. InsertFill(st, pos, count, x) = Regrown(st, pos, pos, t)
    BY <1>5 DEF InsertFill, t
  <2>2. Holds(Regrown(st, pos, pos, t), r)
    BY <1>0, <1>2, RegrownIs DEF st, r, z
  <2>. QED
    BY <2>1, <2>2 DEF st, r, t
<1>6. CASE count # 0 /\ ~Full(st, count) /\ count <= n
  <2>. DEFINE up == MoveBackward(UninitializedMove(st.cells, z - count, z, z), pos, z - count, z)
              w == Written(cap, up, pos, t)
  <2>1. z + count <= cap /\ count > 0 /\ pos + n - count = z - count
    BY <1>0, <1>1, <1>6 DEF Full, n
  <2>2. /\ up \in Memories(cap)
        /\ \A j \in 0 .. cap - 1 :
              up[j] = IF j < pos THEN s[j + 1]
                      ELSE IF j < pos + count THEN up[j]
                      ELSE IF j < z + count THEN s[j - count + 1] ELSE Raw
        /\ \A j \in pos .. pos + count - 1 : up[j] \in Objects
    BY <1>6, <2>1, MovedUpIs DEF st, z, n
  <2>3. InsertFill(st, pos, count, x) = [cells |-> Copy(up, pos, t), size |-> z + count]
    BY <1>1, <1>6, <2>1 DEF InsertFill, t, n
  <2>. HIDE DEF up
  <2>4. Copy(up, pos, t) = w
    BY SMTT(30), <1>0, <1>2, <1>6, <2>1, <2>2, CopyIs DEF n
  <2>5. w \in Memories(cap)
    BY <1>0, <1>2, <2>2, WrittenIsMemory
  <2>6. ASSUME NEW j \in 0 .. cap - 1
        PROVE  w[j] = IF j < z + count THEN r[j + 1] ELSE Raw
    <3>1. w[j] = IF j \in pos .. pos + count - 1 THEN t[j - pos + 1] ELSE up[j]
      BY <1>2 DEF Written
    <3>2. CASE j \in pos .. pos + count - 1
      <4>1. j - pos + 1 \in 1 .. count /\ j \in 0 .. z + count - 1 /\ ~(j < pos) /\ j < pos + count
        BY <1>0, <1>6, <3>2 DEF n
      <4>. QED
        BY <1>0, <1>2, <1>3, <3>1, <3>2, <4>1
    <3>3. CASE j \notin pos .. pos + count - 1
      <4>1. j < pos \/ ~(j < pos + count)
        BY <1>0, <3>3
      <4>2. w[j] = up[j]
        BY <3>1, <3>3
      <4>. QED
        BY <1>0, <1>3, <2>2, <4>1, <4>2
    <3>. QED
      BY <3>2, <3>3
  <2>. HIDE DEF w
  <2>7. Holds([cells |-> w, size |-> z + count], r)
    BY <1>3, <2>1, <2>5, <2>6, CellsHold
  <2>. QED
    BY <2>3, <2>4, <2>7 DEF st, r, t
<1>7. CASE count # 0 /\ ~Full(st, count) /\ count > n
  <2>. DEFINE past == UninitializedMove(st.cells, pos, z, pos + count)
              t1 == Times(n, x)
              t2 == Times(count - n, x)
              w == Written(cap, past, pos, t1)
              y == Written(cap, w, z, t2)
  <2>1. z + count <= cap /\ count > 0 /\ count - n \in Nat /\ pos + n = z /\ z + (count - n) = pos + count
    BY <1>0, <1>1, <1>7 DEF Full, n
  <2>2. /\ past \in Memories(cap)
        /\ \A j \in 0 .. cap - 1 :
              past[j] = IF j < pos THEN s[j + 1] ELSE IF j < z THEN Moved
                        ELSE IF j \in pos + count .. z + count - 1 THEN s[j - count + 1] ELSE Raw
    BY <1>7, <2>1, MovedPastIs DEF st, z, n
  <2>3. InsertFill(st, pos, count, x) =
           [cells |-> UninitializedCopy(Copy(past, pos, t1), z, t2), size |-> z + count]
    BY <1>0, <1>1, <1>7 DEF InsertFill, n
  <2>4. /\ t1 \in Seq(Objects) /\ Len(t1) = n /\ \A i \in 1 .. n : t1[i] = x
        /\ t2 \in Seq(Objects) /\ Len(t2) = count - n /\ \A i \in 1 .. count - n : t2[i] = x
    BY <1>0, <2>1, TimesIs
  <2>. HIDE DEF past, t1, t2
  <2>5. Copy(past, pos, t1) = w /\ w \in Memories(cap)
    <3>1. \A j \in pos .. pos + n - 1 : past[j] \in Objects
      BY <1>0, <2>1, <2>2, ObjectsLive
    <3>2. past \in Memories(cap) /\ pos \in Nat /\ t1 \in Seq(Objects) /\ pos + Len(t1) <= cap
      BY <1>0, <2>1, <2>2, <2>4
    <3>3. \A j \in pos .. pos + Len(t1) - 1 : past[j] \in Objects
      BY <2>4, <3>1
    <3>. HIDE DEF w
    <3>4. Copy(past, pos, t1) = Written(cap, past, pos, t1)
      BY <3>2, <3>3, CopyIs
    <3>5. Written(cap, past, pos, t1) \in Memories(cap)
      BY <3>2, WrittenIsMemory
    <3>. QED
      BY <3>4, <3>5 DEF w
  <2>6. \A j \in 0 .. cap - 1 : w[j] = IF j \in pos .. pos + n - 1 THEN t1[j - pos + 1] ELSE past[j]
    BY <2>4 DEF Written
  <2>. HIDE DEF w
  <2>7. UninitializedCopy(w, z, t2) = y /\ y \in Memories(cap)
    <3>1. \A j \in z .. z + (count - n) - 1 : w[j] = Raw
      <4>1. \A j \in z .. z + (count - n) - 1 :
               /\ j \in 0 .. cap - 1 /\ ~(j < pos) /\ ~(j < z)
               /\ j \notin pos .. pos + n - 1 /\ j \notin pos + count .. z + count - 1
        BY <1>0, <2>1
      <4>. QED
        BY <2>2, <2>6, <4>1
    <3>2. z + Len(t2) <= cap /\ z + Len(t2) - 1 = z + (count - n) - 1
      BY <1>0, <2>1, <2>4
    <3>3. UninitializedCopy(w, z, t2) = y
      <4>1. \A j \in z .. z + Len(t2) - 1 : w[j] = Raw
        BY <3>1, <3>2
      <4>. HIDE DEF y
      <4>2. w \in Memories(cap) /\ z \in Nat /\ t2 \in Seq(Objects) /\ z + Len(t2) <= cap
        BY <1>0, <2>4, <2>5, <3>2
      <4>3. UninitializedCopy(w, z, t2) = Written(cap, w, z, t2)
        BY <4>1, <4>2, UninitializedCopyIs
      <4>. QED
        BY <4>3 DEF y
    <3>. QED
      BY <1>0, <2>4, <2>5, <3>3, WrittenIsMemory
  <2>8. ASSUME NEW j \in 0 .. cap - 1
        PROVE  y[j] = IF j < z + count THEN r[j + 1] ELSE Raw
    <3>1. y[j] = IF j \in z .. z + (count - n) - 1 THEN t2[j - z + 1] ELSE w[j]
      BY <2>4 DEF Written
    <3>2. CASE j \in z .. z + (count - n) - 1
      <4>1. /\ j - z + 1 \in 1 .. count - n /\ j \in 0 .. z + count - 1
            /\ ~(j < pos) /\ j < pos + count /\ j < z + count
        BY <1>0, <2>1, <3>2
      <4>2. y[j] = x
        BY <2>4, <3>1, <3>2, <4>1
      <4>3. r[j + 1] = x
        BY <1>3, <4>1
      <4>. QED
        BY <4>1, <4>2, <4>3
    <3>3. CASE j \in pos .. pos + n - 1
      <4>1. /\ j - pos + 1 \in 1 .. n /\ j \in 0 .. z + count - 1 /\ ~(j < pos) /\ j < pos + count
            /\ j \notin z .. z + (count - n) - 1
        BY <1>0, <2>1, <3>3
      <4>. QED
        BY <1>0, <1>3, <2>4, <2>6, <3>1, <3>3, <4>1
    <3>4. CASE j \notin z .. z + (count - n) - 1 /\ j \notin pos .. pos + n - 1
      <4>1. j < pos \/ ~(j < pos + count)
        BY <1>0, <2>1, <3>4
      <4>2. y[j] = past[j]
        BY <2>6, <3>1, <3>4
      <4>3. pos <= z /\ z < pos + count
        BY <1>0, <2>1, <1>7
      <4>4. CASE j < pos
        <5>1. j \in 0 .. z + count - 1 /\ j < z + count
          BY <1>0, <4>3, <4>4
        <5>. QED
          BY <1>3, <2>2, <4>2, <4>4, <5>1
      <4>5. CASE j \in pos + count .. z + count - 1
        <5>1. /\ j \in 0 .. z + count - 1 /\ j < z + count
              /\ ~(j < pos) /\ ~(j < pos + count) /\ ~(j < z)
          BY <1>0, <4>3, <4>5
        <5>. QED
          BY <1>3, <2>2, <4>2, <4>5, <5>1
      <4>6. CASE ~(j < z + count)
        <5>1. ~(j < pos) /\ ~(j < z) /\ j \notin pos + count .. z + count - 1
          BY <1>0, <4>3, <4>6
        <5>. QED
          BY <2>2, <4>2, <4>6, <5>1
      <4>. QED
        BY <1>0, <4>1, <4>4, <4>5, <4>6
    <3>. QED
      BY <3>2, <3>3, <3>4
  <2>. HIDE DEF y
  <2>9. Holds([cells |-> y, size |-> z + count], r)
    BY <1>3, <2>1, <2>7, <2>8, CellsHold
  <2>. QED
    BY <2>3, <2>5, <2>7, <2>9 DEF st, r, t
<1>. QED
  BY <1>0, <1>4, <1>5, <1>6, <1>7

\* Elements moved onto themselves stay as they are.
LEMMA MovedNowhereIs ==
    ASSUME NEW N \in Nat, NEW m \in Memories(N), NEW first \in Nat, NEW last \in Nat,
           first <= last, last <= N, Filled(m, first, last)
    PROVE  MoveBackward(m, first, last, last) = m
<1>1. first = last - (last - first) /\ last <= last
  OBVIOUS
<1>2. MoveBackward(m, first, last, last) = Shifted(N, m, first, first, last - first)
  BY <1>1, MoveBackwardIs
<1>3. \A j \in 0 .. N - 1 : j - first + first = j
  OBVIOUS
<1>4. Shifted(N, m, first, first, last - first) = [j \in 0 .. N - 1 |-> m[j]]
  BY <1>3 DEF Shifted
<1>. QED
  BY <1>2, <1>4 DEF Memories

\* insert of a range: some sequence, and the promised one where it loses no elements.
LEMMA InsertRangeIs ==
    ASSUME NEW s \in Seq(Objects), NEW cap \in Nat, Len(s) <= cap,
           NEW pos \in 0 .. Len(s), NEW t \in Seq(Objects),
           ~InsertRunsOff(Stored(s, cap), pos, Len(t))
    PROVE  LET st == InsertRange(Stored(s, cap), pos, t)
           IN  /\ st \in Storages
               /\ ~LosesElements(Stored(s, cap), pos, Len(t)) => Holds(st, Splice(s, pos, pos, t))
<1>. DEFINE z == Len(s)
            count == Len(t)
            st == Stored(s, cap)
            r == Splice(s, pos, pos, t)
            n == z - pos
            new == InsertRange(st, pos, t)
<1>0. z \in Nat /\ count \in Nat /\ pos \in Nat /\ pos <= z /\ n \in Nat
  OBVIOUS
<1>1. st.size = z /\ Capacity(st) = cap /\ st = [cells |-> st.cells, size |-> z]
      /\ st.cells \in Memories(cap)
      /\ \A j \in 0 .. cap - 1 : st.cells[j] = IF j < z THEN s[j + 1] ELSE Raw
  <2>1. st.size = z /\ st = [cells |-> st.cells, size |-> z]
    BY DEF Stored
  <2>. QED
    BY <2>1, StoredFields
<1>2. /\ r \in Seq(Objects) /\ Len(r) = z + count
      /\ \A j \in 0 .. z + count - 1 :
            r[j + 1] = IF j < pos THEN s[j + 1]
                       ELSE IF j < pos + count THEN t[j - pos + 1] ELSE s[j - count + 1]
  BY InsertedIs
<1>3. ~InsertRunsOff(st, pos, count)
  OBVIOUS
<1>4. \A i \in 1 .. count : t[i] \in Objects
  OBVIOUS
<1>. HIDE DEF st, r, n, z, count, new
<1>5. CASE count = 0
  <2>1. \A j \in 0 .. cap - 1 : st.cells[j] = IF j < Len(r) THEN r[j + 1] ELSE Raw
    BY SMTT(30), <1>0, <1>1, <1>2, <1>5
  <2>2. Holds([cells |-> st.cells, size |-> Len(r)], r)
    BY <1>1, <1>2, <1>5, <2>1, CellsHold DEF z
  <2>3. new = [cells |-> st.cells, size |-> Len(r)]
    BY <1>0, <1>1, <1>2, <1>5 DEF InsertRange, new, count
  <2>4. Holds(new, r) /\ new \in Storages
    BY <1>2, <2>2, <2>3, HoldsIs
  <2>. QED
    BY <2>4 DEF new, st, r
<1>6. CASE count # 0 /\ Full(st, count)
  <2>1. new = Regrown(st, pos, pos, t)
    BY <1>6 DEF InsertRange, new, count
  <2>2. Holds(Regrown(st, pos, pos, t), r)
    BY <1>0, RegrownIs DEF st, r, z
  <2>3. Holds(new, r) /\ new \in Storages
    BY <1>2, <2>1, <2>2, HoldsIs
  <2>. QED
    BY <2>3 DEF new, st, r
<1>7. CASE count # 0 /\ ~Full(st, count) /\ count <= n
  <2>. DEFINE a == UninitializedMove(st.cells, z - count, z, z)
              w == Written(cap, a, pos, t)
  <2>1. /\ z + count <= cap /\ count > 0 /\ count <= z /\ n - count \in Nat /\ pos <= n - count
        /\ n - count <= z - count /\ n - count <= cap /\ pos + count <= z /\ pos + count <= cap
    BY SMTT(30), <1>0, <1>1, <1>3, <1>7 DEF Full, n, InsertRunsOff
  <2>2. /\ a \in Memories(cap)
        /\ \A j \in 0 .. cap - 1 :
              a[j] = IF j < z - count THEN s[j + 1] ELSE IF j < z THEN Moved
                     ELSE IF j < z + count THEN s[j - count + 1] ELSE Raw
        /\ \A j \in 0 .. z + count - 1 : j \in 0 .. cap - 1 /\ a[j] \in Objects
    BY <1>0, <2>1, LastMovedIs DEF st, z
  <2>. HIDE DEF a
  <2>3. MoveBackward(a, pos, n - count, n - count) = a
    <3>1. \A j \in pos .. n - count - 1 : j \in 0 .. z + count - 1
      BY <1>0, <2>1 DEF n
    <3>2. Filled(a, pos, n - count)
      BY <2>2, <3>1 DEF Filled
    <3>. QED
      BY <1>0, <2>1, <2>2, <3>2, MovedNowhereIs
  <2>4. Copy(a, pos, t) = w
    <3>1. \A j \in pos .. pos + count - 1 : j \in 0 .. z + count - 1
      BY <1>0, <2>1
    <3>2. \A j \in pos .. pos + count - 1 : a[j] \in Objects
      BY <2>2, <3>1
    <3>. QED
      BY <1>0, <2>1, <2>2, <3>2, CopyIs DEF count
  <2>5. new = [cells |-> w, size |-> z + count]
    BY <1>1, <1>7, <2>3, <2>4 DEF InsertRange, new, count, n, a
  <2>6. w \in Memories(cap)
    BY <1>0, <2>2, WrittenIsMemory
  <2>7. \A j \in 0 .. cap - 1 : w[j] = IF j \in pos .. pos + count - 1 THEN t[j - pos + 1] ELSE a[j]
    BY DEF Written, count
  <2>. HIDE DEF w
  <2>8. new \in Storages
    <3>1. ASSUME NEW j \in 0 .. cap - 1
          PROVE  IF j < z + count THEN w[j] \in Objects ELSE w[j] = Raw
      <4>1. CASE j \in pos .. pos + count - 1
        <5>1. j - pos + 1 \in 1 .. count /\ j < z + count
          BY <1>0, <2>1, <4>1
        <5>. QED
          BY <1>4, <2>7, <4>1, <5>1
      <4>2. CASE j \notin pos .. pos + count - 1 /\ j < z + count
        <5>1. j \in 0 .. z + count - 1
          BY <1>0, <4>2
        <5>. QED
          BY <2>2, <2>7, <4>2, <5>1
      <4>3. CASE ~(j < z + count)
        <5>1. j \notin pos .. pos + count - 1 /\ ~(j < z) /\ ~(j < z - count)
          BY <1>0, <2>1, <4>3
        <5>. QED
          BY <2>2, <2>7, <4>3, <5>1
      <4>. QED
        BY <4>1, <4>2, <4>3
    <3>2. z + count \in Nat
      BY <1>0
    <3>. QED
      BY <2>1, <2>5, <2>6, <3>1, <3>2, ObjectsHold
  <2>9. ASSUME ~LosesElements(st, pos, count)
        PROVE  Holds(new, r)
    <3>1. pos = 0 /\ count = z
      BY <1>0, <1>1, <1>7, <2>1, <2>9 DEF LosesElements, n
    <3>2. ASSUME NEW j \in 0 .. cap - 1
          PROVE  w[j] = IF j < z + count THEN r[j + 1] ELSE Raw
      <4>1. CASE j < count
        <5>1. j \in pos .. pos + count - 1 /\ j \in 0 .. z + count - 1 /\ ~(j < pos) /\ j < pos + count
          BY <1>0, <3>1, <4>1
        <5>2. w[j] = t[j - pos + 1]
          BY <2>7, <5>1
        <5>3. j < z + count
          BY <1>0, <4>1
        <5>. QED
          BY <1>2, <5>1, <5>2, <5>3
      <4>2. CASE ~(j < count)
        <5>1. /\ j \notin pos .. pos + count - 1 /\ ~(j < pos) /\ ~(j < pos + count)
              /\ ~(j < z) /\ ~(j < z - count) /\ (j < z + count => j \in 0 .. z + count - 1)
          BY <1>0, <3>1, <4>2
        <5>. QED
          BY <1>2, <2>2, <2>7, <5>1
      <4>. QED
        BY <4>1, <4>2
    <3>3. Holds([cells |-> w, size |-> Len(r)], r)
      BY <1>2, <2>1, <2>6, <3>2, CellsHold
    <3>. QED
      BY <1>2, <2>5, <3>3
  <2>. QED
    BY <2>8, <2>9 DEF new, st, r, count
<1>8. CASE count # 0 /\ ~Full(st, count) /\ count > n
  <2>. DEFINE past == UninitializedMove(st.cells, pos, z, pos + count)
              t1 == SubSeq(t, 1, n)
              t2 == SubSeq(t, n + 1, count)
              w == Written(cap, past, z, t2)
              y == Written(cap, w, pos, t1)
  <2>1. /\ z + count <= cap /\ count > 0 /\ count - n \in Nat /\ n <= count
        /\ pos + n = z /\ z + (count - n) = pos + count
    BY SMTT(30), <1>0, <1>1, <1>8 DEF Full, n
  <2>2. /\ past \in Memories(cap)
        /\ \A j \in 0 .. cap - 1 :
              past[j] = IF j < pos THEN s[j + 1] ELSE IF j < z THEN Moved
                        ELSE IF j \in pos + count .. z + count - 1 THEN s[j - count + 1] ELSE Raw
    <3>1. Len(s) + count <= cap /\ count > Len(s) - pos
      BY <1>8, <2>1 DEF z, n
    <3>. QED
      BY <1>0, <3>1, MovedPastIs DEF st, z
  <2>3. new = [cells |-> Copy(UninitializedCopy(past, z, t2), pos, t1), size |-> z + count]
    BY <1>0, <1>1, <1>8 DEF InsertRange, new, n, count
  <2>4. /\ t1 \in Seq(Objects) /\ Len(t1) = n /\ \A i \in 1 .. n : t1[i] = t[i]
        /\ t2 \in Seq(Objects) /\ Len(t2) = count - n /\ \A i \in 1 .. count - n : t2[i] = t[n + i]
    <3>1. /\ SubSeq(t, 0 + 1, n) \in Seq(Objects) /\ Len(SubSeq(t, 0 + 1, n)) = n - 0
          /\ \A i \in 1 .. n - 0 : SubSeq(t, 0 + 1, n)[i] = t[0 + i]
      BY <1>0, <2>1, PartIs DEF count
    <3>2. /\ SubSeq(t, n + 1, count) \in Seq(Objects) /\ Len(SubSeq(t, n + 1, count)) = count - n
          /\ \A i \in 1 .. count - n : SubSeq(t, n + 1, count)[i] = t[n + i]
      <4>1. count <= count /\ count <= Len(t)
        BY <1>0 DEF count
      <4>. QED
        BY <1>0, <2>1, <4>1, PartIs
    <3>3. SubSeq(t, 0 + 1, n) = t1 /\ SubSeq(t, n + 1, count) = t2
      OBVIOUS
    <3>. HIDE DEF t1, t2
    <3>4. n - 0 = n /\ \A i \in 1 .. n : 0 + i = i
      BY <1>0
    <3>. QED
      BY <3>1, <3>2, <3>3, <3>4
  <2>. HIDE DEF past, t1, t2
  <2>5. UninitializedCopy(past, z, t2) = w /\ w \in Memories(cap)
    <3>1. \A j \in z .. z + (count - n) - 1 : past[j] = Raw
      <4>1. \A j \in z .. z + (count - n) - 1 :
               /\ j \in 0 .. cap - 1 /\ ~(j < pos) /\ ~(j < z)
               /\ j \notin pos + count .. z + count - 1
        BY <1>0, <2>1
      <4>. QED
        BY <2>2, <4>1
    <3>2. z + Len(t2) <= cap /\ z + Len(t2) - 1 = z + (count - n) - 1
      BY <1>0, <2>1, <2>4
    <3>3. \A j \in z .. z + Len(t2) - 1 : past[j] = Raw
      BY <3>1, <3>2
    <3>. HIDE DEF w
    <3>4. UninitializedCopy(past, z, t2) = Written(cap, past, z, t2)
      <4>1. past \in Memories(cap) /\ z \in Nat /\ t2 \in Seq(Objects) /\ z + Len(t2) <= cap
        BY <1>0, <2>2, <2>4, <3>2
      <4>. QED
        BY <3>3, <4>1, UninitializedCopyIs
    <3>5. Written(cap, past, z, t2) \in Memories(cap)
      BY <1>0, <2>2, <2>4, WrittenIsMemory
    <3>. QED
      BY <3>4, <3>5 DEF w
  <2>6. \A j \in 0 .. cap - 1 :
           w[j] = IF j \in z .. z + (count - n) - 1 THEN t2[j - z + 1] ELSE past[j]
    BY <2>4 DEF Written
  <2>. HIDE DEF w
  <2>7. Copy(w, pos, t1) = y /\ y \in Memories(cap)
    <3>1. \A j \in pos .. pos + n - 1 : w[j] \in Objects
      <4>1. \A j \in pos .. pos + n - 1 :
               /\ j \in 0 .. cap - 1 /\ ~(j < pos) /\ j < z
               /\ j \notin z .. z + (count - n) - 1
        BY <1>0, <2>1
      <4>. QED
        BY <2>2, <2>6, <4>1, ObjectsLive
    <3>2. w \in Memories(cap) /\ pos \in Nat /\ t1 \in Seq(Objects) /\ pos + Len(t1) <= cap
      BY SMTT(30), <1>0, <2>1, <2>4, <2>5
    <3>3. \A j \in pos .. pos + Len(t1) - 1 : w[j] \in Objects
      BY <2>4, <3>1
    <3>. HIDE DEF y
    <3>4. Copy(w, pos, t1) = Written(cap, w, pos, t1)
      BY <3>2, <3>3, CopyIs
    <3>5. Written(cap, w, pos, t1) \in Memories(cap)
      BY <3>2, WrittenIsMemory
    <3>. QED
      BY <3>4, <3>5 DEF y
  <2>8. ASSUME NEW j \in 0 .. cap - 1
        PROVE  y[j] = IF j < z + count THEN r[j + 1] ELSE Raw
    <3>1. y[j] = IF j \in pos .. pos + n - 1 THEN t1[j - pos + 1] ELSE w[j]
      BY <2>4 DEF Written
    <3>2. CASE j \in z .. z + (count - n) - 1
      <4>1. /\ j - z + 1 \in 1 .. count - n /\ n + (j - z + 1) = j - pos + 1
            /\ j \in 0 .. z + count - 1 /\ j < z + count
            /\ ~(j < pos) /\ j < pos + count /\ j \notin pos .. pos + n - 1
        BY <1>0, <2>1, <3>2
      <4>2. y[j] = t[j - pos + 1]
        BY SMTT(30), <2>4, <2>6, <3>1, <3>2, <4>1
      <4>. QED
        BY <1>2, <4>1, <4>2
    <3>3. CASE j \in pos .. pos + n - 1
      <4>1. /\ j - pos + 1 \in 1 .. n /\ j \in 0 .. z + count - 1 /\ j < z + count
            /\ ~(j < pos) /\ j < pos + count
        BY <1>0, <2>1, <3>3
      <4>2. y[j] = t[j - pos + 1]
        BY <2>4, <3>1, <3>3, <4>1
      <4>. QED
        BY <1>2, <4>1, <4>2
    <3>4. CASE j \notin z .. z + (count - n) - 1 /\ j \notin pos .. pos + n - 1
      <4>1. j < pos \/ ~(j < pos + count)
        BY <1>0, <2>1, <3>4
      <4>2. y[j] = past[j]
        BY <2>6, <3>1, <3>4
      <4>3. pos <= z /\ z < pos + count
        BY <1>0, <2>1, <1>8
      <4>4. CASE j < pos
        <5>1. j \in 0 .. z + count - 1 /\ j < z + count
          BY <1>0, <4>3, <4>4
        <5>. QED
          BY <1>2, <2>2, <4>2, <4>4, <5>1
      <4>5. CASE j \in pos + count .. z + count - 1
        <5>1. /\ j \in 0 .. z + count - 1 /\ j < z + count
              /\ ~(j < pos) /\ ~(j < pos + count) /\ ~(j < z)
          BY <1>0, <4>3, <4>5
        <5>. QED
          BY <1>2, <2>2, <4>2, <4>5, <5>1
      <4>6. CASE ~(j < z + count)
        <5>1. ~(j < pos) /\ ~(j < z) /\ j \notin pos + count .. z + count - 1
          BY <1>0, <4>3, <4>6
        <5>. QED
          BY <2>2, <4>2, <4>6, <5>1
      <4>. QED
        BY <1>0, <4>1, <4>4, <4>5, <4>6
    <3>. QED
      BY <3>2, <3>3, <3>4
  <2>. HIDE DEF y
  <2>9. Holds([cells |-> y, size |-> z + count], r)
    BY <1>2, <2>1, <2>7, <2>8, CellsHold
  <2>10. Holds(new, r) /\ new \in Storages
    BY <1>2, <2>3, <2>5, <2>7, <2>9, HoldsIs
  <2>. QED
    BY <2>10 DEF new, st, r
<1>. QED
  BY <1>0, <1>5, <1>6, <1>7, <1>8

\* emplace: some sequence, and the promised one where it loses no element.
LEMMA EmplaceIs ==
    ASSUME NEW s \in Seq(Objects), NEW cap \in Nat, Len(s) <= cap,
           NEW pos \in 0 .. Len(s), NEW x \in Objects
    PROVE  LET st == Emplace(Stored(s, cap), pos, x)
           IN  /\ st \in Storages
               /\ ~LosesElement(Stored(s, cap), pos) => Holds(st, Splice(s, pos, pos, <<x>>))
<1>. DEFINE z == Len(s)
            st == Stored(s, cap)
            t == <<x>>
            r == Splice(s, pos, pos, t)
            new == Emplace(st, pos, x)
<1>0. z \in Nat /\ pos \in Nat /\ pos <= z
  OBVIOUS
<1>1. st.size = z /\ Capacity(st) = cap /\ st.cells \in Memories(cap)
      /\ \A j \in 0 .. cap - 1 : st.cells[j] = IF j < z THEN s[j + 1] ELSE Raw
  <2>1. st.size = z
    BY DEF Stored
  <2>. QED
    BY <2>1, StoredFields
<1>2. t \in Seq(Objects) /\ Len(t) = 1 /\ t[1] = x
  OBVIOUS
<1>. HIDE DEF t
<1>3. /\ r \in Seq(Objects) /\ Len(r) = z + 1
      /\ \A j \in 0 .. z : r[j + 1] = IF j < pos THEN s[j + 1] ELSE IF j = pos THEN x ELSE s[j]
  <2>1. /\ r \in Seq(Objects) /\ Len(r) = Len(s) + Len(t)
        /\ \A j \in 0 .. Len(s) + Len(t) - 1 :
              r[j + 1] = IF j < pos THEN s[j + 1]
                         ELSE IF j < pos + Len(t) THEN t[j - pos + 1] ELSE s[j - Len(t) + 1]
    BY <1>2, InsertedIs
  <2>. HIDE DEF r
  <2>2. ASSUME NEW j \in 0 .. z
        PROVE  r[j + 1] = IF j < pos THEN s[j + 1] ELSE IF j = pos THEN x ELSE s[j]
    <3>1. /\ j \in 0 .. Len(s) + Len(t) - 1 /\ j - Len(t) + 1 = j
          /\ ~(j < pos) => (j < pos + Len(t) <=> j = pos)
          /\ j = pos => j - pos + 1 = 1
      BY <1>0, <1>2
    <3>. QED
      BY <1>2, <2>1, <3>1
  <2>. QED
    BY <1>0, <1>2, <2>1, <2>2
<1>. HIDE DEF st, r, z, new
<1>4. CASE Full(st, 1)
  <2>1. new = Regrown(st, pos, pos, t)
    BY <1>4 DEF Emplace, new, t
  <2>2. Holds(Regrown(st, pos, pos, t), r)
    BY <1>0, <1>2, RegrownIs DEF st, r, z
  <2>3. Holds(new, r) /\ new \in Storages
    BY <1>3, <2>1, <2>2, HoldsIs
  <2>. QED
    BY <2>3 DEF new, st, r, t
<1>5. CASE ~Full(st, 1) /\ pos = z
  <2>. DEFINE m == Construct(st.cells, pos, x)
  <2>1. z + 1 <= cap /\ pos \in 0 .. cap - 1
    BY <1>0, <1>1, <1>5 DEF Full
  <2>2. st.cells[pos] = Raw
    <3>1. ~(pos < z)
      BY <1>0, <1>5
    <3>. QED
      BY <1>1, <2>1, <3>1
  <2>3. m = [j \in 0 .. cap - 1 |-> IF j = pos THEN x ELSE st.cells[j]]
    BY <1>1, <2>1, <2>2, ConstructIs
  <2>4. new = [cells |-> m, size |-> Len(r)]
    BY <1>1, <1>3, <1>5 DEF Emplace, new
  <2>. HIDE DEF m
  <2>5. m \in Memories(cap)
    BY <1>1, <2>3 DEF Memories
  <2>6. ASSUME NEW j \in 0 .. cap - 1
        PROVE  m[j] = IF j < Len(r) THEN r[j + 1] ELSE Raw
    <3>0. st.cells[j] = IF j < z THEN s[j + 1] ELSE Raw
      BY <1>1
    <3>1. m[j] = IF j = pos THEN x ELSE IF j < z THEN s[j + 1] ELSE Raw
      BY <2>3, <3>0
    <3>2. j < Len(r) <=> j \in 0 .. z
      BY <1>0, <1>3
    <3>3. j < z => j < pos /\ j \in 0 .. z /\ j # pos
      BY <1>0, <1>5
    <3>4. ~(j < z) /\ j # pos => j \notin 0 .. z
      BY <1>0, <1>5
    <3>5. pos \in 0 .. z /\ ~(pos < pos)
      BY <1>0
    <3>. QED
      BY <1>3, <3>1, <3>2, <3>3, <3>4, <3>5
  <2>7. Holds([cells |-> m, size |-> Len(r)], r)
    BY <1>0, <1>3, <2>1, <2>5, <2>6, CellsHold
  <2>8. Holds(new, r) /\ new \in Storages
    BY <1>3, <2>4, <2>7, HoldsIs
  <2>. QED
    BY <2>8 DEF new, st, r, t
<1>6. CASE ~Full(st, 1) /\ pos # z
  <2>. DEFINE a == UninitializedMove(st.cells, z - 1, z, z)
              m == Assign(a, pos, x)
  <2>1. /\ z + 1 <= cap /\ 1 <= z /\ 1 > 0 /\ z - 1 \in Nat /\ pos <= z - 1 /\ z - 1 <= cap
        /\ pos \in 0 .. z + 1 - 1 /\ pos \in 0 .. cap - 1 /\ pos < z
    BY <1>0, <1>1, <1>6 DEF Full
  <2>2. /\ a \in Memories(cap)
        /\ \A j \in 0 .. cap - 1 :
              a[j] = IF j < z - 1 THEN s[j + 1] ELSE IF j < z THEN Moved
                     ELSE IF j < z + 1 THEN s[j - 1 + 1] ELSE Raw
        /\ \A j \in 0 .. z + 1 - 1 : j \in 0 .. cap - 1 /\ a[j] \in Objects
    BY <2>1, LastMovedIs DEF st, z
  <2>. HIDE DEF a
  <2>3. MoveBackward(a, pos, z - 1, z - 1) = a
    <3>1. \A j \in pos .. z - 1 - 1 : j \in 0 .. z + 1 - 1
      BY <1>0, <2>1
    <3>2. Filled(a, pos, z - 1)
      BY <2>2, <3>1 DEF Filled
    <3>. QED
      BY <1>0, <2>1, <2>2, <3>2, MovedNowhereIs
  <2>4. m = [j \in 0 .. cap - 1 |-> IF j = pos THEN x ELSE a[j]]
    BY <2>1, <2>2, AssignIs
  <2>5. new = [cells |-> m, size |-> z + 1]
    BY <1>1, <1>6, <2>3 DEF Emplace, new, a
  <2>. HIDE DEF m
  <2>6. m \in Memories(cap)
    BY <2>2, <2>4 DEF Memories
  <2>7. new \in Storages
    <3>1. ASSUME NEW j \in 0 .. cap - 1
          PROVE  IF j < z + 1 THEN m[j] \in Objects ELSE m[j] = Raw
      <4>1. CASE j < z + 1
        <5>1. j \in 0 .. z + 1 - 1
          BY <1>0, <4>1
        <5>. QED
          BY <2>2, <2>4, <4>1, <5>1
      <4>2. CASE ~(j < z + 1)
        <5>1. j # pos /\ ~(j < z) /\ ~(j < z - 1)
          BY <1>0, <4>2
        <5>. QED
          BY <2>2, <2>4, <4>2, <5>1
      <4>. QED
        BY <4>1, <4>2
    <3>2. z + 1 \in Nat
      BY <1>0
    <3>. QED
      BY <2>1, <2>5, <2>6, <3>1, <3>2, ObjectsHold
  <2>8. ASSUME ~LosesElement(st, pos)
        PROVE  Holds(new, r)
    <3>1. pos = z - 1
      BY <1>0, <1>1, <1>6, <2>1, <2>8 DEF LosesElement
    <3>2. ASSUME NEW j \in 0 .. cap - 1
          PROVE  m[j] = IF j < Len(r) THEN r[j + 1] ELSE Raw
      <4>1. CASE j < pos
        <5>1. j \in 0 .. z /\ j < Len(r) /\ j # pos /\ j < z - 1
          BY <1>0, <1>3, <3>1, <4>1
        <5>. QED
          BY <1>3, <2>2, <2>4, <4>1, <5>1
      <4>2. CASE j = pos
        <5>1. j \in 0 .. z /\ j < Len(r) /\ ~(j < pos)
          BY <1>0, <1>3, <3>1, <4>2
        <5>. QED
          BY <1>3, <2>4, <4>2, <5>1
      <4>3. CASE j = z
        <5>1. /\ j \in 0 .. z /\ j < Len(r) /\ ~(j < pos) /\ j # pos /\ ~(j < z) /\ ~(j < z - 1)
              /\ j < z + 1 /\ j - 1 + 1 = j
          BY <1>0, <1>3, <3>1, <4>3
        <5>. QED
          BY <1>3, <2>2, <2>4, <5>1
      <4>4. CASE ~(j < z + 1)
        <5>1. j # pos /\ ~(j < z) /\ ~(j < z - 1) /\ ~(j < Len(r))
          BY <1>0, <1>3, <3>1, <4>4
        <5>. QED
          BY <2>2, <2>4, <4>4, <5>1
      <4>. QED
        BY <1>0, <3>1, <4>1, <4>2, <4>3, <4>4
    <3>3. Holds([cells |-> m, size |-> Len(r)], r)
      BY <1>0, <1>3, <2>1, <2>6, <3>2, CellsHold
    <3>. QED
      BY <1>3, <2>5, <3>3
  <2>. QED
    BY <2>7, <2>8 DEF new, st, r, t
<1>. QED
  BY <1>4, <1>5, <1>6

\* erase.
LEMMA EraseIs ==
    ASSUME NEW s \in Seq(Objects), NEW cap \in Nat, Len(s) <= cap,
           NEW first \in Nat, NEW last \in Nat, first <= last, last <= Len(s)
    PROVE  Holds(Erase(Stored(s, cap), first, last), Splice(s, first, last, <<>>))
<1>. DEFINE z == Len(s)
            st == Stored(s, cap)
            r == Splice(s, first, last, <<>>)
            n == z - (last - first)
<1>0. z \in Nat /\ n \in Nat /\ first <= n /\ n <= z /\ z <= cap /\ last <= z
  OBVIOUS
<1>1. /\ st.size = z /\ st = [cells |-> st.cells, size |-> z]
      /\ st.cells \in Memories(cap)
      /\ \A j \in 0 .. cap - 1 : st.cells[j] = IF j < z THEN s[j + 1] ELSE Raw
      /\ \A j \in 0 .. z - 1 : j \in 0 .. cap - 1 /\ st.cells[j] = s[j + 1] /\ s[j + 1] \in Objects
  <2>1. st.size = z /\ st = [cells |-> st.cells, size |-> z]
    BY DEF Stored
  <2>. QED
    BY <2>1, StoredFields
<1>2. /\ r \in Seq(Objects) /\ Len(r) = n
      /\ \A j \in 0 .. n - 1 : r[j + 1] = IF j < first THEN s[j + 1] ELSE s[j + (last - first) + 1]
  <2>1. IsSplice(r, s, first, last, <<>>)
    <3>1. <<>> \in Seq(Objects)
      OBVIOUS
    <3>. QED
      BY <3>1, SpliceIs
  <2>2. Len(<<>>) = 0
    OBVIOUS
  <2>. HIDE DEF r
  <2>3. /\ r \in Seq(Objects) /\ Len(r) = n
        /\ \A i \in 1 .. n : r[i] = IF i <= first THEN s[i] ELSE s[i + (last - first)]
    BY <1>0, <2>1, <2>2 DEF IsSplice
  <2>4. ASSUME NEW j \in 0 .. n - 1
        PROVE  r[j + 1] = IF j < first THEN s[j + 1] ELSE s[j + (last - first) + 1]
    <3>1. /\ j + 1 \in 1 .. n /\ (j + 1 <= first <=> j < first)
          /\ j + 1 + (last - first) = j + (last - first) + 1
      BY <1>0
    <3>. QED
      BY <2>3, <3>1
  <2>. QED
    BY <2>3, <2>4
<1>. HIDE DEF st, r, z, n
<1>3. CASE first = last
  <2>1. n = z
    BY <1>0, <1>3 DEF n
  <2>2. ASSUME NEW j \in 0 .. cap - 1
        PROVE  st.cells[j] = IF j < Len(r) THEN r[j + 1] ELSE Raw
    <3>1. j + (last - first) + 1 = j + 1
      BY <1>3
    <3>2. j < n => j \in 0 .. n - 1
      BY <1>0
    <3>. QED
      BY <1>1, <1>2, <2>1, <3>1, <3>2
  <2>3. Holds([cells |-> st.cells, size |-> Len(r)], r)
    BY <1>0, <1>1, <1>2, <2>2, CellsHold
  <2>. QED
    BY <1>1, <1>2, <1>3, <2>1, <2>3 DEF Erase, st, r
<1>4. CASE first # last
  <2>. DEFINE a == Move(st.cells, last, z, first)
              w == Destroy(a, first + z - last, z)
  <2>1. a = Shifted(cap, st.cells, last, first, z - last)
    <3>1. \A i \in last .. z - 1 : i \in 0 .. z - 1
      BY <1>0
    <3>2. Filled(st.cells, last, z)
      BY <1>1, <3>1 DEF Filled
    <3>. DEFINE e == first + z - last
    <3>3. \A i \in first .. e - 1 : i \in 0 .. z - 1
      BY <1>0
    <3>. HIDE DEF e
    <3>4. Filled(st.cells, first, e)
      BY <1>1, <3>3 DEF Filled
    <3>5. Filled(st.cells, first, first + z - last)
      BY <3>4 DEF e
    <3>. QED
      BY <1>0, <1>1, <3>2, <3>5, MoveIs
  <2>. HIDE DEF a
  <2>2. a \in Memories(cap)
    <3>1. \A i \in last .. last + (z - last) - 1 : i \in 0 .. z - 1
      BY <1>0
    <3>2. \A i \in last .. last + (z - last) - 1 : st.cells[i] \in Objects
      BY <1>1, <3>1
    <3>3. last + (z - last) <= cap /\ z - last \in Nat
      BY <1>0
    <3>. QED
      BY <1>1, <2>1, <3>2, <3>3, ShiftedIsMemory
  <2>3. \A j \in 0 .. cap - 1 :
           a[j] = IF j \in first .. n - 1 THEN s[j + (last - first) + 1]
                  ELSE IF j \in last .. z - 1 THEN Moved ELSE st.cells[j]
    <3>. SUFFICES ASSUME NEW j \in 0 .. cap - 1
                  PROVE  a[j] = IF j \in first .. n - 1 THEN s[j + (last - first) + 1]
                                ELSE IF j \in last .. z - 1 THEN Moved ELSE st.cells[j]
      OBVIOUS
    <3>1. a[j] = IF j \in first .. first + (z - last) - 1 THEN st.cells[j - first + last]
                 ELSE IF j \in last .. last + (z - last) - 1 THEN Moved ELSE st.cells[j]
      BY <2>1 DEF Shifted
    <3>2. /\ j \in first .. first + (z - last) - 1 <=> j \in first .. n - 1
          /\ j \in last .. last + (z - last) - 1 <=> j \in last .. z - 1
          /\ j \in first .. n - 1 => /\ j - first + last \in 0 .. z - 1
                                     /\ j - first + last + 1 = j + (last - first) + 1
      BY <1>0 DEF n
    <3>3. j \in first .. n - 1 => st.cells[j - first + last] = s[j + (last - first) + 1]
      BY <1>1, <3>2
    <3>. QED
      BY <3>1, <3>2, <3>3
  <2>4. w = [j \in 0 .. cap - 1 |-> IF j \in n .. z - 1 THEN Raw ELSE a[j]]
    <3>1. first + z - last = n
      BY <1>0 DEF n
    <3>2. \A j \in n .. z - 1 : j \in 0 .. z - 1 /\ j \notin first .. n - 1
      BY <1>0
    <3>3. \A j \in n .. z - 1 : a[j] \in Objects
      BY <1>1, <2>3, <3>2, ObjectsLive
    <3>4. Destroy(a, n, z) = [j \in 0 .. cap - 1 |-> IF j \in n .. z - 1 THEN Raw ELSE a[j]]
      BY <1>0, <2>2, <3>3, DestroyIs
    <3>. QED
      BY <3>1, <3>4
  <2>5. Erase(st, first, last) = [cells |-> w, size |-> n]
    BY <1>1, <1>4 DEF Erase, n, a
  <2>. HIDE DEF w
  <2>6. w \in Memories(cap)
    BY <2>2, <2>4 DEF Memories
  <2>7. ASSUME NEW j \in 0 .. cap - 1
        PROVE  w[j] = IF j < Len(r) THEN r[j + 1] ELSE Raw
    <3>1. w[j] = IF j \in n .. z - 1 THEN Raw ELSE a[j]
      BY <2>4
    <3>2. CASE j < first
      <4>1. j \notin n .. z - 1 /\ j \notin first .. n - 1 /\ j \notin last .. z - 1 /\ j < z
            /\ j \in 0 .. n - 1 /\ j < n
        BY <1>0, <3>2
      <4>. QED
        BY <1>1, <1>2, <2>3, <3>1, <3>2, <4>1
    <3>3. CASE j \in first .. n - 1
      <4>1. j \notin n .. z - 1 /\ j \in 0 .. n - 1 /\ j < n /\ ~(j < first)
        BY <1>0, <3>3
      <4>. QED
        BY <1>2, <2>3, <3>1, <3>3, <4>1
    <3>4. CASE j \in n .. z - 1
      <4>1. ~(j < n)
        BY <1>0, <3>4
      <4>. QED
        BY <1>2, <3>1, <3>4, <4>1
    <3>5. CASE ~(j < z)
      <4>1. j \notin n .. z - 1 /\ j \notin first .. n - 1 /\ j \notin last .. z - 1 /\ ~(j < n)
        BY <1>0, <3>5
      <4>. QED
        BY <1>1, <1>2, <2>3, <3>1, <3>5, <4>1
    <3>. QED
      BY <1>0, <3>2, <3>3, <3>4, <3>5
  <2>8. Holds([cells |-> w, size |-> Len(r)], r)
    BY SMTT(30), <1>0, <1>2, <2>6, <2>7, CellsHold
  <2>. QED
    BY <1>2, <2>5, <2>8 DEF st, r
<1>. QED
  BY <1>3, <1>4

\* r has n elements, those of s but those of t in place of the ones in [a, b), as the
\* cells are numbered.
IsReplaced(r, n, s, a, b, t) ==
    /\ r \in Seq(Objects) /\ Len(r) = n /\ n \in Nat
    /\ \A j \in 0 .. n - 1 :
          r[j + 1] = IF j < a THEN s[j + 1]
                     ELSE IF j < a + Len(t) THEN t[j - a + 1] ELSE s[j - Len(t) + (b - a) + 1]

\* What a replacement of the elements in [a, b) leaves, cell by cell.
LEMMA ReplacedIs ==
    ASSUME NEW s \in Seq(Objects), NEW t \in Seq(Objects), NEW a \in Nat, NEW b \in Nat,
           a <= b, b <= Len(s), NEW n, n = Len(s) - (b - a) + Len(t)
    PROVE  IsReplaced(Splice(s, a, b, t), n, s, a, b, t)
<1>. DEFINE r == Splice(s, a, b, t)
<1>1. /\ r \in Seq(Objects) /\ Len(r) = n
      /\ \A i \in 1 .. n : r[i] = IF i <= a THEN s[i]
                                  ELSE IF i <= a + Len(t) THEN t[i - a] ELSE s[i - Len(t) + (b - a)]
  <2>1. IsSplice(r, s, a, b, t)
    BY SpliceIs
  <2>. HIDE DEF r
  <2>. QED
    BY <2>1 DEF IsSplice
<1>. HIDE DEF r
<1>2. ASSUME NEW j \in 0 .. n - 1
      PROVE  r[j + 1] = IF j < a THEN s[j + 1]
                        ELSE IF j < a + Len(t) THEN t[j - a + 1]
                        ELSE s[j - Len(t) + (b - a) + 1]
  <2>. DEFINE i == j + 1
  <2>1. /\ i \in 1 .. n /\ (i <= a <=> j < a) /\ (i <= a + Len(t) <=> j < a + Len(t))
        /\ i - a = j - a + 1 /\ i - Len(t) + (b - a) = j - Len(t) + (b - a) + 1
    OBVIOUS
  <2>. HIDE DEF i
  <2>2. r[i] = IF i <= a THEN s[i]
               ELSE IF i <= a + Len(t) THEN t[i - a] ELSE s[i - Len(t) + (b - a)]
    BY <1>1, <2>1
  <2>. QED
    BY <2>1, <2>2 DEF i
<1>3. n \in Nat
  OBVIOUS
<1>. QED
  BY <1>1, <1>2, <1>3 DEF r, IsReplaced

\* Sequences with the same elements are the same.
LEMMA SameSequence ==
    ASSUME NEW s \in Seq(Objects), NEW t \in Seq(Objects), Len(s) = Len(t),
           \A j \in 0 .. Len(s) - 1 : s[j + 1] = t[j + 1]
    PROVE  s = t
<1>1. ASSUME NEW i \in 1 .. Len(s)
      PROVE  s[i] = t[i]
  <2>1. i - 1 \in 0 .. Len(s) - 1 /\ (i - 1) + 1 = i
    OBVIOUS
  <2>. QED
    BY <2>1
<1>. QED
  BY <1>1, SeqEqual

\* replace of one element.
LEMMA ReplaceOneIs ==
    ASSUME NEW s \in Seq(Objects), NEW cap \in Nat, Len(s) <= cap,
           NEW pos \in 0 .. Len(s), NEW x \in Objects,
           NEW end \in Nat, end = IF pos + 1 < Len(s) THEN pos + 1 ELSE Len(s)
    PROVE  Holds(ReplaceOne(Stored(s, cap), pos, x), Splice(s, pos, end, <<x>>))
<1>. DEFINE z == Len(s)
            st == Stored(s, cap)
<1>0. z \in Nat /\ pos \in Nat /\ pos <= z
  OBVIOUS
<1>1. /\ st.size = z /\ st = [cells |-> st.cells, size |-> z]
      /\ st.cells \in Memories(cap)
      /\ \A j \in 0 .. cap - 1 : st.cells[j] = IF j < z THEN s[j + 1] ELSE Raw
      /\ \A j \in 0 .. z - 1 : j \in 0 .. cap - 1 /\ st.cells[j] = s[j + 1] /\ s[j + 1] \in Objects
  <2>1. st.size = z /\ st = [cells |-> st.cells, size |-> z]
    BY DEF Stored
  <2>. QED
    BY <2>1, StoredFields
<1>2. CASE pos = z
  <2>1. end = pos
    BY <1>0, <1>2
  <2>2. ~LosesElement(st, pos)
    BY <1>0, <1>1, <1>2 DEF LosesElement
  <2>3. Holds(Emplace(st, pos, x), Splice(s, pos, pos, <<x>>))
    BY <2>2, EmplaceIs
  <2>. QED
    BY <1>1, <1>2, <2>1, <2>3 DEF ReplaceOne
<1>3. CASE pos # z
  <2>. DEFINE r == Splice(s, pos, pos + 1, <<x>>)
              m == Assign(st.cells, pos, x)
  <2>1. end = pos + 1 /\ pos + 1 \in Nat /\ pos <= pos + 1 /\ pos + 1 <= z /\ pos \in 0 .. z - 1
    BY <1>0, <1>3
  <2>2. /\ r \in Seq(Objects) /\ Len(r) = z
        /\ \A j \in 0 .. z - 1 : r[j + 1] = IF j = pos THEN x ELSE s[j + 1]
    <3>. DEFINE t == <<x>>
    <3>1. t \in Seq(Objects) /\ Len(t) = 1 /\ t[1] = x
      OBVIOUS
    <3>. HIDE DEF t
    <3>. DEFINE n == Len(s) - ((pos + 1) - pos) + Len(t)
                q == Splice(s, pos, pos + 1, t)
    <3>0. IsReplaced(q, n, s, pos, pos + 1, t)
      <4>. HIDE DEF n
      <4>1. n = Len(s) - ((pos + 1) - pos) + Len(t)
        BY DEF n
      <4>. QED
        BY <1>0, <2>1, <3>1, <4>1, ReplacedIs
    <3>. HIDE DEF q
    <3>2. /\ q \in Seq(Objects) /\ Len(q) = n
          /\ \A j \in 0 .. n - 1 :
                q[j + 1] = IF j < pos THEN s[j + 1]
                           ELSE IF j < pos + Len(t) THEN t[j - pos + 1]
                           ELSE s[j - Len(t) + ((pos + 1) - pos) + 1]
      BY <3>0 DEF IsReplaced
    <3>3. n = z
      BY <1>0, <3>1
    <3>. HIDE DEF n
    <3>4. ASSUME NEW j \in 0 .. z - 1
          PROVE  q[j + 1] = IF j = pos THEN x ELSE s[j + 1]
      <4>1. /\ j \in 0 .. n - 1 /\ (j < pos => j # pos) /\ (j < pos + Len(t) <=> j < pos \/ j = pos)
            /\ (j = pos => j - pos + 1 = 1) /\ j - Len(t) + ((pos + 1) - pos) + 1 = j + 1
        BY <1>0, <3>1, <3>3
      <4>. QED
        BY <3>1, <3>2, <4>1
    <3>. QED
      BY <3>2, <3>3, <3>4 DEF q, t
  <2>3. pos \in 0 .. cap - 1 /\ st.cells[pos] \in Objects
    BY <1>1, <2>1
  <2>. HIDE DEF r, st, z
  <2>4. m = [j \in 0 .. cap - 1 |-> IF j = pos THEN x ELSE st.cells[j]]
    BY <1>1, <2>3, AssignIs
  <2>5. ReplaceOne(st, pos, x) = [cells |-> m, size |-> Len(r)]
    <3>1. ReplaceOne(st, pos, x) = [st EXCEPT !.cells = m]
      BY <1>1, <1>3 DEF ReplaceOne
    <3>. HIDE DEF m
    <3>2. [st EXCEPT !.cells = m] = [cells |-> m, size |-> z]
      BY <1>1
    <3>. QED
      BY <2>2, <3>1, <3>2
  <2>. HIDE DEF m
  <2>6. m \in Memories(cap)
    BY <1>1, <2>4 DEF Memories
  <2>7. ASSUME NEW j \in 0 .. cap - 1
        PROVE  m[j] = IF j < Len(r) THEN r[j + 1] ELSE Raw
    <3>1. st.cells[j] = IF j < z THEN s[j + 1] ELSE Raw
      BY <1>1
    <3>2. m[j] = IF j = pos THEN x ELSE st.cells[j]
      BY <2>4
    <3>3. j < z <=> j \in 0 .. z - 1
      BY <1>0
    <3>. QED
      BY <2>1, <2>2, <3>1, <3>2, <3>3
  <2>8. Len(r) <= cap
    BY <2>2 DEF z
  <2>9. Holds([cells |-> m, size |-> Len(r)], r)
    BY <2>2, <2>6, <2>7, <2>8, CellsHold
  <2>. QED
    BY <2>1, <2>5, <2>9 DEF st, r
<1>. QED
  BY <1>2, <1>3

\* replace of a range, which may run past the end.
LEMMA ReplaceRangeIs ==
    ASSUME NEW s \in Seq(Objects), NEW cap \in Nat, Len(s) <= cap,
           NEW pos \in 0 .. Len(s), NEW t \in Seq(Objects),
           NEW end \in Nat, end = IF pos + Len(t) < Len(s) THEN pos + Len(t) ELSE Len(s)
    PROVE  Holds(ReplaceRange(Stored(s, cap), pos, t), Splice(s, pos, end, t))
<1>. DEFINE z == Len(s)
            count == Len(t)
            st == Stored(s, cap)
            n == z - pos
            r == Splice(s, pos, end, t)
            rn == z - (end - pos) + count
<1>0. /\ z \in Nat /\ pos \in Nat /\ pos <= z /\ count \in Nat /\ n \in Nat /\ pos <= end /\ end <= z
      /\ end = IF pos + count < z THEN pos + count ELSE z
  OBVIOUS
<1>1. /\ st.size = z /\ st = [cells |-> st.cells, size |-> z]
      /\ st.cells \in Memories(cap) /\ Capacity(st) = cap
      /\ \A j \in 0 .. cap - 1 : st.cells[j] = IF j < z THEN s[j + 1] ELSE Raw
  <2>1. st.size = z /\ st = [cells |-> st.cells, size |-> z]
    BY DEF Stored
  <2>. QED
    BY <2>1, StoredFields
<1>2. \A j \in 0 .. z - 1 : j \in 0 .. cap - 1 /\ st.cells[j] \in Objects
  BY StoredFields
<1>3. /\ r \in Seq(Objects) /\ Len(r) = rn /\ rn \in Nat
      /\ \A j \in 0 .. rn - 1 :
            r[j + 1] = IF j < pos THEN s[j + 1]
                       ELSE IF j < pos + count THEN t[j - pos + 1]
                       ELSE s[j - count + (end - pos) + 1]
  <2>1. rn = Len(s) - (end - pos) + Len(t)
    OBVIOUS
  <2>. HIDE DEF r, rn
  <2>2. IsReplaced(r, rn, s, pos, end, t)
    BY <1>0, <2>1, ReplacedIs DEF r
  <2>. QED
    BY <2>2 DEF IsReplaced
<1>. HIDE DEF st, r, z, count, n, rn
<1>4. CASE count = 0
  <2>1. end = pos /\ rn = z
    BY <1>0, <1>4 DEF rn
  <2>2. ASSUME NEW j \in 0 .. cap - 1
        PROVE  st.cells[j] = IF j < Len(r) THEN r[j + 1] ELSE Raw
    <3>1. /\ j < z => j \in 0 .. rn - 1 /\ j - count + (end - pos) + 1 = j + 1
          /\ ~(j < pos) => ~(j < pos + count)
      BY <1>0, <1>4, <2>1
    <3>. QED
      BY <1>1, <1>3, <2>1, <3>1
  <2>3. Len(r) <= cap
    BY <1>3, <2>1 DEF z
  <2>4. Holds([cells |-> st.cells, size |-> Len(r)], r)
    BY <1>1, <1>3, <2>2, <2>3, CellsHold
  <2>5. ReplaceRange(st, pos, t) = [cells |-> st.cells, size |-> Len(r)]
    BY <1>1, <1>3, <1>4, <2>1 DEF ReplaceRange, count
  <2>. QED
    BY <2>4, <2>5 DEF st, r
<1>5. CASE count # 0 /\ pos = z
  <2>1. end = pos
    BY <1>0, <1>5
  <2>2. ~LosesElements(st, pos, count) /\ ~InsertRunsOff(st, pos, count)
    BY <1>0, <1>1, <1>5 DEF LosesElements, InsertRunsOff
  <2>3. Holds(InsertRange(st, pos, t), Splice(s, pos, pos, t))
    BY <2>2, InsertRangeIs DEF st, count
  <2>. QED
    BY <1>1, <1>5, <2>1, <2>3 DEF ReplaceRange, st, r, count
<1>6. CASE count # 0 /\ pos # z /\ count <= n
  <2>. DEFINE m == Copy(st.cells, pos, t)
  <2>1. end = pos + count /\ rn = z /\ end - pos = count /\ pos + count <= z /\ pos + count <= cap
    <3>1. end = pos + count /\ pos + count <= z
      BY <1>0, <1>6 DEF n
    <3>2. z <= cap
      BY DEF z
    <3>. QED
      BY SMTT(30), <1>0, <3>1, <3>2 DEF rn
  <2>2. m = Written(cap, st.cells, pos, t) /\ m \in Memories(cap)
    <3>1. \A j \in pos .. pos + count - 1 : j \in 0 .. z - 1
      BY <1>0, <2>1
    <3>2. \A j \in pos .. pos + Len(t) - 1 : st.cells[j] \in Objects
      BY <1>2, <3>1 DEF count
    <3>3. pos + Len(t) <= cap /\ st.cells \in Memories(cap) /\ pos \in Nat
      BY <1>0, <1>1, <2>1 DEF count
    <3>. DEFINE c == st.cells
    <3>. HIDE DEF c, m
    <3>4. Copy(c, pos, t) = Written(cap, c, pos, t)
      BY <3>2, <3>3, CopyIs DEF c
    <3>5. Written(cap, c, pos, t) \in Memories(cap)
      BY <3>3, WrittenIsMemory DEF c
    <3>. QED
      BY <3>4, <3>5 DEF c, m
  <2>3. ReplaceRange(st, pos, t) = [cells |-> m, size |-> Len(r)]
    <3>1. ReplaceRange(st, pos, t) = [st EXCEPT !.cells = m]
      BY <1>1, <1>6 DEF ReplaceRange, count, n
    <3>. HIDE DEF m
    <3>2. [st EXCEPT !.cells = m] = [cells |-> m, size |-> z]
      BY <1>1
    <3>. QED
      BY <1>3, <2>1, <3>1, <3>2
  <2>. HIDE DEF m
  <2>4. ASSUME NEW j \in 0 .. cap - 1
        PROVE  m[j] = IF j < Len(r) THEN r[j + 1] ELSE Raw
    <3>1. m[j] = IF j \in pos .. pos + count - 1 THEN t[j - pos + 1] ELSE st.cells[j]
      BY <2>2 DEF Written, count
    <3>2. st.cells[j] = IF j < z THEN s[j + 1] ELSE Raw
      BY <1>1
    <3>3. /\ j < z => j \in 0 .. rn - 1
          /\ j - count + (end - pos) + 1 = j + 1
          /\ j \in pos .. pos + count - 1 <=> ~(j < pos) /\ j < pos + count
          /\ j < pos + count => j < z
      BY SMTT(30), <1>0, <2>1
    <3>. QED
      BY <1>3, <2>1, <3>1, <3>2, <3>3
  <2>5. Len(r) <= cap
    BY <1>3, <2>1 DEF z
  <2>6. Holds([cells |-> m, size |-> Len(r)], r)
    BY <1>3, <2>2, <2>4, <2>5, CellsHold
  <2>. QED
    BY <2>3, <2>6 DEF st, r
<1>7. CASE count # 0 /\ pos # z /\ count > n /\ Full(st, count - n)
  <2>1. end = z
    BY <1>0, <1>7 DEF n
  <2>2. ReplaceRange(st, pos, t) = Regrown(st, pos, z, t)
    <3>1. ~(count <= n)
      BY <1>0, <1>7
    <3>. QED
      BY <1>1, <1>7, <3>1 DEF ReplaceRange, n, count
  <2>3. Holds(Regrown(st, pos, z, t), Splice(s, pos, z, t))
    <3>1. z <= Len(s)
      BY <1>0 DEF z
    <3>. QED
      BY <1>0, <3>1, RegrownIs DEF st
  <2>. QED
    BY <2>1, <2>2, <2>3 DEF st, r
<1>8. CASE count # 0 /\ pos # z /\ count > n /\ ~Full(st, count - n)
  <2>. DEFINE t1 == SubSeq(t, 1, n)
              t2 == SubSeq(t, n + 1, count)
              w == Written(cap, st.cells, pos, t1)
              y == Written(cap, w, z, t2)
  <2>1. /\ end = z /\ rn = z + (count - n) /\ z + (count - n) <= cap /\ count - n \in Nat
        /\ n <= count /\ pos + n = z /\ pos + n <= cap /\ z + (count - n) = pos + count /\ rn = pos + count
    <3>1. z + (count - n) <= cap
      BY <1>0, <1>1, <1>8 DEF Full
    <3>2. pos + n = z
      BY <1>0 DEF n
    <3>3. end = z
      BY <1>0, <1>8, <3>2
    <3>4. z <= cap
      BY DEF z
    <3>5. n <= count /\ count - n \in Nat /\ z + (count - n) = pos + count
      BY <1>0, <1>8, <3>2
    <3>6. rn = pos + count
      <4>1. rn = z - (z - pos) + count
        BY <3>3 DEF rn
      <4>. QED
        BY <1>0, <4>1
    <3>. QED
      BY <1>0, <3>1, <3>2, <3>3, <3>4, <3>5, <3>6
  <2>2. /\ t1 \in Seq(Objects) /\ Len(t1) = n /\ \A i \in 1 .. n : t1[i] = t[i]
        /\ t2 \in Seq(Objects) /\ Len(t2) = count - n /\ \A i \in 1 .. count - n : t2[i] = t[n + i]
    <3>1. /\ SubSeq(t, 0 + 1, n) \in Seq(Objects) /\ Len(SubSeq(t, 0 + 1, n)) = n - 0
          /\ \A i \in 1 .. n - 0 : SubSeq(t, 0 + 1, n)[i] = t[0 + i]
      BY <1>0, <2>1, PartIs DEF count
    <3>2. /\ SubSeq(t, n + 1, count) \in Seq(Objects) /\ Len(SubSeq(t, n + 1, count)) = count - n
          /\ \A i \in 1 .. count - n : SubSeq(t, n + 1, count)[i] = t[n + i]
      <4>1. count <= count /\ count <= Len(t)
        BY <1>0 DEF count
      <4>. QED
        BY <1>0, <2>1, <4>1, PartIs
    <3>3. SubSeq(t, 0 + 1, n) = t1 /\ SubSeq(t, n + 1, count) = t2
      OBVIOUS
    <3>. HIDE DEF t1, t2
    <3>4. n - 0 = n /\ \A i \in 1 .. n : 0 + i = i
      BY <1>0
    <3>. QED
      BY <3>1, <3>2, <3>3, <3>4
  <2>3. ReplaceRange(st, pos, t) =
           [cells |-> UninitializedCopy(Copy(st.cells, pos, t1), z, t2), size |-> z + (count - n)]
    <3>1. ~(count <= n) /\ z + count - n = z + (count - n)
      BY <1>0, <1>8
    <3>. HIDE DEF t1, t2
    <3>2. ReplaceRange(st, pos, t) =
             [cells |-> UninitializedCopy(Copy(st.cells, pos, t1), z, t2), size |-> z + count - n]
      BY <1>1, <1>8, <3>1 DEF ReplaceRange, n, count, t1, t2
    <3>. QED
      BY <3>1, <3>2
  <2>. HIDE DEF t1, t2
  <2>4. Copy(st.cells, pos, t1) = w /\ w \in Memories(cap)
    <3>1. \A j \in pos .. pos + n - 1 : j \in 0 .. z - 1
      BY <1>0, <2>1
    <3>2. \A j \in pos .. pos + Len(t1) - 1 : st.cells[j] \in Objects
      BY <1>2, <2>2, <3>1
    <3>3. pos + Len(t1) <= cap /\ st.cells \in Memories(cap) /\ t1 \in Seq(Objects)
      BY <1>1, <2>1, <2>2
    <3>. QED
      BY <1>0, <3>2, <3>3, CopyIs, WrittenIsMemory
  <2>5. \A j \in 0 .. cap - 1 :
           w[j] = IF j \in pos .. pos + n - 1 THEN t1[j - pos + 1] ELSE st.cells[j]
    BY <2>2 DEF Written
  <2>. HIDE DEF w
  <2>6. UninitializedCopy(w, z, t2) = y /\ y \in Memories(cap)
    <3>1. \A j \in z .. z + (count - n) - 1 :
             j \in 0 .. cap - 1 /\ ~(j < z) /\ j \notin pos .. pos + n - 1
      BY <1>0, <2>1
    <3>2. \A j \in z .. z + Len(t2) - 1 : w[j] = Raw
      BY <1>1, <2>2, <2>5, <3>1
    <3>3. z + Len(t2) <= cap /\ t2 \in Seq(Objects)
      BY <2>1, <2>2
    <3>. HIDE DEF y
    <3>4. UninitializedCopy(w, z, t2) = Written(cap, w, z, t2)
      BY <1>0, <2>4, <3>2, <3>3, UninitializedCopyIs
    <3>5. Written(cap, w, z, t2) \in Memories(cap)
      BY <1>0, <2>4, <3>3, WrittenIsMemory
    <3>. QED
      BY <3>4, <3>5 DEF y
  <2>7. \A j \in 0 .. cap - 1 :
           y[j] = IF j \in z .. z + (count - n) - 1 THEN t2[j - z + 1] ELSE w[j]
    BY <2>2 DEF Written
  <2>. HIDE DEF y
  <2>8. ASSUME NEW j \in 0 .. cap - 1
        PROVE  y[j] = IF j < Len(r) THEN r[j + 1] ELSE Raw
    <3>0. st.cells[j] = IF j < z THEN s[j + 1] ELSE Raw
      BY <1>1
    <3>1. CASE j \in z .. z + (count - n) - 1
      <4>1. /\ j - z + 1 \in 1 .. count - n /\ n + (j - z + 1) = j - pos + 1
            /\ j \in 0 .. rn - 1 /\ j < rn /\ ~(j < pos) /\ j < pos + count
        BY <1>0, <2>1, <3>1
      <4>2. y[j] = t[j - pos + 1]
        BY <2>2, <2>7, <3>1, <4>1
      <4>. QED
        BY <1>3, <4>1, <4>2
    <3>2. CASE j \in pos .. pos + n - 1
      <4>1. /\ j - pos + 1 \in 1 .. n /\ j \notin z .. z + (count - n) - 1
            /\ j \in 0 .. rn - 1 /\ j < rn /\ ~(j < pos) /\ j < pos + count
        BY <1>0, <2>1, <3>2
      <4>2. y[j] = t[j - pos + 1]
        BY <2>2, <2>5, <2>7, <3>2, <4>1
      <4>. QED
        BY <1>3, <4>1, <4>2
    <3>3. CASE j < pos
      <4>1. /\ j \notin z .. z + (count - n) - 1 /\ j \notin pos .. pos + n - 1
            /\ j \in 0 .. rn - 1 /\ j < rn /\ j < z
        BY <1>0, <2>1, <3>3
      <4>. QED
        BY <1>3, <2>5, <2>7, <3>0, <3>3, <4>1
    <3>4. CASE ~(j < rn)
      <4>1. j \notin z .. z + (count - n) - 1 /\ j \notin pos .. pos + n - 1 /\ ~(j < z)
        BY <1>0, <2>1, <3>4
      <4>. QED
        BY <1>3, <2>5, <2>7, <3>0, <3>4, <4>1
    <3>. QED
      BY <1>0, <2>1, <3>1, <3>2, <3>3, <3>4
  <2>9. Holds([cells |-> y, size |-> Len(r)], r)
    <3>1. Len(r) <= cap
      BY <1>3, <2>1
    <3>. QED
      BY <1>3, <2>6, <2>8, <3>1, CellsHold
  <2>10. ReplaceRange(st, pos, t) = [cells |-> y, size |-> Len(r)]
    BY <1>3, <2>1, <2>3, <2>4, <2>6
  <2>. QED
    BY <2>9, <2>10 DEF st, r
<1>. QED
  BY <1>0, <1>4, <1>5, <1>6, <1>7, <1>8

\* assign of a range: an empty one changes nothing.
LEMMA AssignRangeIs ==
    ASSUME NEW s \in Seq(Objects), NEW cap \in Nat, Len(s) <= cap, NEW t \in Seq(Objects)
    PROVE  Holds(AssignRange(Stored(s, cap), t), IF t = <<>> THEN s ELSE t)
<1>. DEFINE z == Len(s)
            count == Len(t)
            st == Stored(s, cap)
<1>0. z \in Nat /\ count \in Nat
  OBVIOUS
<1>1. st.size = z
  BY DEF Stored
<1>2. CASE t = <<>>
  BY <1>2 DEF AssignRange, Holds
<1>3. CASE t # <<>>
  <2>. DEFINE short == IF count < z THEN Erase(st, count, z) ELSE st
  <2>1. \E q \in Seq(Objects) : Len(q) <= count /\ Holds(short, q)
    <3>1. CASE count < z
      <4>. DEFINE q == Splice(s, count, z, <<>>)
      <4>1. count <= z /\ z <= Len(s)
        BY <1>0, <3>1
      <4>2. Holds(Erase(st, count, z), q)
        BY <1>0, <4>1, EraseIs
      <4>3. q \in Seq(Objects) /\ Len(q) = count
        <5>1. <<>> \in Seq(Objects) /\ Len(<<>>) = 0
          OBVIOUS
        <5>2. IsReplaced(q, count, s, count, z, <<>>)
          <6>1. count = Len(s) - (z - count) + Len(<<>>)
            BY <1>0, <5>1
          <6>. HIDE DEF count
          <6>. QED
            BY <1>0, <4>1, <5>1, <6>1, ReplacedIs
        <5>. QED
          BY <5>2 DEF IsReplaced
      <4>. HIDE DEF q
      <4>. QED
        BY <1>0, <3>1, <4>2, <4>3
    <3>2. CASE ~(count < z)
      <4>1. Holds(st, s)
        BY DEF Holds
      <4>. QED
        BY <1>0, <3>2, <4>1
    <3>. QED
      BY <3>1, <3>2
  <2>2. PICK q \in Seq(Objects) : Len(q) <= count /\ Holds(short, q)
    BY <2>1
  <2>3. PICK c \in Nat : Len(q) <= c /\ short = Stored(q, c)
    BY <2>2 DEF Holds
  <2>4. AssignRange(st, t) = ReplaceRange(Stored(q, c), 0, t)
    BY <1>1, <1>3, <2>3 DEF AssignRange
  <2>. HIDE DEF short
  <2>. DEFINE end == Len(q)
              r == Splice(q, 0, end, t)
  <2>5. end \in Nat /\ 0 \in 0 .. Len(q) /\ end = IF 0 + Len(t) < Len(q) THEN 0 + Len(t) ELSE Len(q)
    BY <1>0, <2>2
  <2>6. Holds(ReplaceRange(Stored(q, c), 0, t), r)
    <3>. HIDE DEF end
    <3>. QED
      BY <2>3, <2>5, ReplaceRangeIs
  <2>7. r = t
    <3>. DEFINE n == Len(q) - (end - 0) + Len(t)
    <3>1. /\ r \in Seq(Objects) /\ Len(r) = n
          /\ \A j \in 0 .. n - 1 :
                r[j + 1] = IF j < 0 THEN q[j + 1]
                           ELSE IF j < 0 + Len(t) THEN t[j - 0 + 1]
                           ELSE q[j - Len(t) + (end - 0) + 1]
      <4>1. 0 \in Nat /\ end \in Nat /\ 0 <= end /\ end <= Len(q)
        BY <2>5
      <4>2. n = Len(q) - (end - 0) + Len(t)
        OBVIOUS
      <4>. HIDE DEF end, n, r
      <4>3. IsReplaced(r, n, q, 0, end, t)
        BY <4>1, <4>2, ReplacedIs DEF r
      <4>. QED
        BY <4>3 DEF IsReplaced
    <3>. HIDE DEF r
    <3>2. n = Len(t)
      BY <1>0, <2>5
    <3>. HIDE DEF n
    <3>3. ASSUME NEW j \in 0 .. Len(r) - 1
          PROVE  r[j + 1] = t[j + 1]
      <4>1. j \in 0 .. n - 1 /\ ~(j < 0) /\ j < 0 + Len(t) /\ j - 0 + 1 = j + 1
        BY <1>0, <3>1, <3>2
      <4>. QED
        BY <3>1, <4>1
    <3>. QED
      BY <3>1, <3>2, <3>3, SameSequence
  <2>. QED
    BY <1>3, <2>4, <2>6, <2>7
<1>. QED
  BY <1>2, <1>3

\* resize.
LEMMA ResizeIs ==
    ASSUME NEW s \in Seq(Objects), NEW cap \in Nat, Len(s) <= cap, NEW n \in Nat, NEW x \in Objects
    PROVE  Resized(s, n, x) \in Seq(Objects) /\ Holds(Resize(Stored(s, cap), n, x), Resized(s, n, x))
<1>. DEFINE z == Len(s)
            st == Stored(s, cap)
            goal == Resized(s, n, x)
<1>0. z \in Nat
  OBVIOUS
<1>1. st.size = z
  BY DEF Stored
<1>2. CASE n < z
  <2>. DEFINE r == Splice(s, n, z, <<>>)
              rn == Len(s) - (z - n) + Len(<<>>)
  <2>1. n <= z /\ z <= Len(s) /\ ~(n > z)
    BY <1>0, <1>2
  <2>2. /\ r \in Seq(Objects) /\ Len(r) = rn
        /\ \A j \in 0 .. rn - 1 :
              r[j + 1] = IF j < n THEN s[j + 1]
                         ELSE IF j < n + Len(<<>>) THEN <<>>[j - n + 1]
                         ELSE s[j - Len(<<>>) + (z - n) + 1]
    <3>1. <<>> \in Seq(Objects) /\ rn = Len(s) - (z - n) + Len(<<>>)
      OBVIOUS
    <3>. HIDE DEF r, rn
    <3>2. IsReplaced(r, rn, s, n, z, <<>>)
      BY <1>0, <2>1, <3>1, ReplacedIs DEF r
    <3>. QED
      BY <3>2 DEF IsReplaced
  <2>3. rn = n
    BY <1>0
  <2>4. goal \in Seq(Objects) /\ Len(goal) = n /\ \A j \in 0 .. n - 1 : goal[j + 1] = s[j + 1]
    <3>. DEFINE p == SubSeq(s, 0 + 1, n)
    <3>1. p \in Seq(Objects) /\ Len(p) = n - 0 /\ \A i \in 1 .. n - 0 : p[i] = s[0 + i]
      <4>1. 0 \in Nat /\ 0 <= n /\ n <= Len(s)
        BY <1>0, <2>1
      <4>. QED
        BY <4>1, PartIs
    <3>2. goal = p
      BY <1>2 DEF Resized
    <3>. HIDE DEF p
    <3>3. ASSUME NEW j \in 0 .. n - 1
          PROVE  p[j + 1] = s[j + 1]
      <4>1. j + 1 \in 1 .. n - 0 /\ 0 + (j + 1) = j + 1
        OBVIOUS
      <4>2. p[j + 1] = s[0 + (j + 1)]
        BY <3>1, <4>1
      <4>. QED
        BY <4>1, <4>2
    <3>. QED
      BY <3>1, <3>2, <3>3
  <2>. HIDE DEF r, goal
  <2>5. r = goal
    <3>1. ASSUME NEW j \in 0 .. Len(r) - 1
          PROVE  r[j + 1] = goal[j + 1]
      <4>1. j \in 0 .. n - 1 /\ j \in 0 .. rn - 1 /\ j < n
        BY <2>2, <2>3
      <4>. QED
        BY <2>2, <2>4, <4>1
    <3>2. Len(r) = Len(goal)
      BY <2>2, <2>3, <2>4
    <3>. QED
      BY <2>2, <2>4, <3>1, <3>2, SameSequence
  <2>6. Holds(Erase(st, n, z), r)
    BY <1>0, <2>1, EraseIs DEF r
  <2>. QED
    BY <1>1, <2>1, <2>4, <2>5, <2>6 DEF Resize, goal
<1>3. CASE ~(n < z)
  <2>. DEFINE t == Times(n - z, x)
              r == Splice(s, z, z, t)
  <2>1. n - z \in Nat /\ z \in 0 .. Len(s)
    BY <1>0, <1>3
  <2>2. t \in Seq(Objects) /\ Len(t) = n - z
    BY <2>1, TimesIs
  <2>3. goal = s \o t
    BY <1>3 DEF Resized
  <2>. HIDE DEF t
  <2>4. r = s \o t
    <3>1. SubSeq(s, 1, z) = s /\ SubSeq(s, z + 1, z) = <<>>
      OBVIOUS
    <3>2. s \o t \in Seq(Objects)
      BY <2>2, ConcatProperties
    <3>3. (s \o t) \o <<>> = s \o t
      BY <3>2, ConcatEmptySeq
    <3>. QED
      BY <3>1, <3>3 DEF Splice
  <2>5. goal \in Seq(Objects)
    BY <2>2, <2>3, ConcatProperties
  <2>. HIDE DEF r, goal
  <2>6. CASE n > z
    <3>1. Resize(st, n, x) = InsertFill(st, z, n - z, x)
      BY <1>1, <2>6 DEF Resize
    <3>2. Holds(InsertFill(st, z, n - z, x), r)
      BY <2>1, InsertFillIs DEF r, t
    <3>. QED
      BY <2>3, <2>4, <2>5, <3>1, <3>2 DEF goal
  <2>7. CASE ~(n > z)
    <3>1. n = z
      BY <1>0, <1>3, <2>7
    <3>2. Resize(st, n, x) = st
      BY <1>1, <2>7, <3>1 DEF Resize, Erase
    <3>3. t = <<>> /\ s \o <<>> = s
      BY <1>0, <2>2, <3>1, ConcatEmptySeq
    <3>4. Holds(st, s)
      BY DEF Holds
    <3>. QED
      BY <2>3, <2>5, <3>2, <3>3, <3>4 DEF goal
  <2>. QED
    BY <2>6, <2>7
<1>. QED
  BY <1>2, <1>3

-----------------------------------------------------------------------------
(* Every vector holds a sequence.                                          *)

\* The arguments of the calls are sequences of objects.
LEMMA ArgumentsAre ==
    ASSUME NEW n \in Nat
    PROVE  /\ \A s \in SeqsUpTo(Values, n) : s \in Seq(Objects)
           /\ Values \subseteq Objects
<1>1. ASSUME NEW s \in SeqsUpTo(Values, n)
      PROVE  s \in Seq(Objects)
  <2>1. PICK k \in 0 .. n : s \in [1 .. k -> Values]
    BY DEF SeqsUpTo
  <2>2. k \in Nat /\ s \in [1 .. k -> Objects]
    BY <2>1 DEF Objects
  <2>. QED
    BY <2>2
<1>. QED
  BY <1>1 DEF Objects

\* A call that leaves one of the storages in place of that of v.
LEMMA SetKeeps ==
    ASSUME IInv, NEW v \in Vectors, NEW st \in Storages, Set(v, st)
    PROVE  IInv'
BY DEF IInv, Set

\* Two vectors that exchange their storages, or pass one on.
LEMMA SetsKeep ==
    ASSUME IInv, NEW v \in Vectors, NEW w \in Vectors, NEW a \in Storages, NEW b \in Storages,
           d_' = [d_ EXCEPT ![v] = a, ![w] = b]
    PROVE  IInv'
BY DEF IInv

\* A vector without storage holds the empty sequence.
LEMMA UnallocatedIsStorage == Unallocated \in Storages
<1>1. <<>> \in Seq(Objects) /\ Len(<<>>) = 0
  OBVIOUS
<1>2. Holds(Stored(<<>>, 0), <<>>)
  BY <1>1 DEF Holds
<1>. QED
  BY <1>1, <1>2, UnallocatedIs, HoldsIs

\* Each call leaves every vector with a storage that holds a sequence: nothing is
\* constructed, assigned to or destroyed where it may not be.
LEMMA StepKeeps ==
    ASSUME IInv, Next
    PROVE  IInv'
<1>. USE DEF IInv
<1>1. PICK v \in Vectors :
         \/ Construction(v) \/ AssignList(v) \/ InsertCount(v) \/ InsertElements(v)
         \/ EmplaceAt(v) \/ ReplaceAt1(v) \/ ReplaceFrom(v) \/ EraseRange(v) \/ pop_back(v)
         \/ ResizeTo(v) \/ reserve(v) \/ clear(v)
         \/ \E w \in Vectors : \/ CopyConstruction(v, w) \/ MoveConstruction(v, w)
                               \/ AssignCopy(v, w) \/ AssignMove(v, w) \/ swap(v, w)
  BY DEF Next
<1>2. PICK s \in Seq(Objects), cap \in Nat : Len(s) <= cap /\ d_[v] = Stored(s, cap)
  <2>1. d_[v] \in Storages
    OBVIOUS
  <2>. QED
    BY <2>1, StoragesIs
<1>3. d_[v].size = Len(s) /\ Len(s) \in Nat /\ Contents(d_[v]) = s
  BY <1>2, AllContentsIs DEF Stored
<1>4. \A st, q : q \in Seq(Objects) /\ Holds(st, q) => st \in Storages
  BY HoldsIs
<1>5. /\ \A q \in SeqsUpTo(Values, 2) : q \in Seq(Objects)
      /\ \A x \in Values : x \in Objects
  BY ArgumentsAre
<1>6. \A w \in Vectors : Contents(d_[w]) \in Seq(Objects)
  <2>. SUFFICES ASSUME NEW w \in Vectors PROVE Contents(d_[w]) \in Seq(Objects)
    OBVIOUS
  <2>1. d_[w] \in Storages
    OBVIOUS
  <2>2. PICK q \in Seq(Objects), c \in Nat : Len(q) <= c /\ d_[w] = Stored(q, c)
    BY <2>1, StoragesIs
  <2>. QED
    BY <2>2, AllContentsIs
<1>7. \A st \in Storages : Set(v, st) => IInv'
  <2>. SUFFICES ASSUME NEW st \in Storages, Set(v, st) PROVE IInv'
    OBVIOUS
  <2>1. IInv
    OBVIOUS
  <2>. HIDE DEF IInv
  <2>. QED
    BY <2>1, SetKeeps
<1>8. \A w \in Vectors, a \in Storages, b \in Storages :
         d_' = [d_ EXCEPT ![v] = a, ![w] = b] => IInv'
  <2>. SUFFICES ASSUME NEW w \in Vectors, NEW a \in Storages, NEW b \in Storages,
                       d_' = [d_ EXCEPT ![v] = a, ![w] = b]
                PROVE  IInv'
    OBVIOUS
  <2>1. IInv
    OBVIOUS
  <2>. HIDE DEF IInv
  <2>. QED
    BY <2>1, SetsKeep
<1>9. \A w \in Vectors : d_[w] \in Storages
  OBVIOUS
<1>10. \A first \in Nat, last \in Nat : first <= last /\ last <= Len(s) =>
          Erase(d_[v], first, last) \in Storages
  <2>. SUFFICES ASSUME NEW first \in Nat, NEW last \in Nat, first <= last, last <= Len(s)
                PROVE  Erase(d_[v], first, last) \in Storages
    OBVIOUS
  <2>1. Holds(Erase(d_[v], first, last), Splice(s, first, last, <<>>))
    BY <1>2, EraseIs
  <2>2. Splice(s, first, last, <<>>) \in Seq(Objects)
    <3>1. <<>> \in Seq(Objects)
      OBVIOUS
    <3>. QED
      BY <3>1, SpliceIs DEF IsSplice
  <2>. QED
    BY <1>4, <2>1, <2>2
<1>11. \A q \in Seq(Objects) : AssignRange(d_[v], q) \in Storages
  <2>. SUFFICES ASSUME NEW q \in Seq(Objects) PROVE AssignRange(d_[v], q) \in Storages
    OBVIOUS
  <2>1. Holds(AssignRange(d_[v], q), IF q = <<>> THEN s ELSE q)
    BY <1>2, AssignRangeIs
  <2>. QED
    BY <1>4, <2>1
<1>. HIDE DEF IInv
<1>12. CASE Construction(v)
  <2>1. PICK q \in SeqsUpTo(Values, 2) : Set(v, Constructed(q))
    BY <1>12 DEF Construction
  <2>2. Constructed(q) \in Storages
    BY <1>4, <1>5, ConstructedIs
  <2>. QED
    BY <1>7, <2>1, <2>2
<1>13. CASE AssignList(v)
  <2>1. PICK q \in SeqsUpTo(Values, 2) : Set(v, AssignRange(d_[v], q))
    BY <1>13 DEF AssignList
  <2>. QED
    BY <1>5, <1>7, <1>11, <2>1
<1>14. CASE InsertCount(v)
  <2>1. PICK pos \in 0 .. Len(s), n \in 0 .. 2, x \in Values : Set(v, InsertFill(d_[v], pos, n, x))
    BY <1>3, <1>14 DEF InsertCount
  <2>2. n \in Nat /\ x \in Objects
    BY <1>5
  <2>3. Holds(InsertFill(d_[v], pos, n, x), Splice(s, pos, pos, Times(n, x)))
    BY <1>2, <2>2, InsertFillIs
  <2>4. Splice(s, pos, pos, Times(n, x)) \in Seq(Objects)
    BY <2>2, TimesIs, InsertedIs
  <2>. QED
    BY <1>4, <1>7, <2>1, <2>3, <2>4
<1>15. CASE InsertElements(v)
  <2>1. PICK pos \in 0 .. Len(s), q \in SeqsUpTo(Values, 2) :
           ~InsertRunsOff(d_[v], pos, Len(q)) /\ Set(v, InsertRange(d_[v], pos, q))
    BY <1>3, <1>15 DEF InsertElements
  <2>2. InsertRange(d_[v], pos, q) \in Storages
    BY <1>2, <1>5, <2>1, InsertRangeIs
  <2>. QED
    BY <1>7, <2>1, <2>2
<1>16. CASE EmplaceAt(v)
  <2>1. PICK pos \in 0 .. Len(s), x \in Values : Set(v, Emplace(d_[v], pos, x))
    BY <1>3, <1>16 DEF EmplaceAt
  <2>2. Emplace(d_[v], pos, x) \in Storages
    BY <1>2, <1>5, EmplaceIs
  <2>. QED
    BY <1>7, <2>1, <2>2
<1>17. CASE ReplaceAt1(v)
  <2>1. PICK pos \in 0 .. Len(s), x \in Values : Set(v, ReplaceOne(d_[v], pos, x))
    BY <1>3, <1>17 DEF ReplaceAt1
  <2>. DEFINE end == IF pos + 1 < Len(s) THEN pos + 1 ELSE Len(s)
  <2>2. pos \in Nat /\ end \in Nat /\ pos <= end /\ end <= Len(s)
    BY <1>3
  <2>. HIDE DEF end
  <2>3. Holds(ReplaceOne(d_[v], pos, x), Splice(s, pos, end, <<x>>))
    BY <1>2, <1>5, <2>2, ReplaceOneIs DEF end
  <2>4. Splice(s, pos, end, <<x>>) \in Seq(Objects)
    <3>1. <<x>> \in Seq(Objects)
      BY <1>5
    <3>. QED
      BY <2>2, <3>1, SpliceIs DEF IsSplice
  <2>. QED
    BY <1>4, <1>7, <2>1, <2>3, <2>4
<1>18. CASE ReplaceFrom(v)
  <2>1. PICK pos \in 0 .. Len(s), q \in SeqsUpTo(Values, 2) : Set(v, ReplaceRange(d_[v], pos, q))
    BY <1>3, <1>18 DEF ReplaceFrom
  <2>. DEFINE end == IF pos + Len(q) < Len(s) THEN pos + Len(q) ELSE Len(s)
  <2>2. q \in Seq(Objects)
    BY <1>5
  <2>3. pos \in Nat /\ end \in Nat /\ pos <= end /\ end <= Len(s)
    BY <1>3, <2>2
  <2>. HIDE DEF end
  <2>4. Holds(ReplaceRange(d_[v], pos, q), Splice(s, pos, end, q))
    BY <1>2, <2>2, <2>3, ReplaceRangeIs DEF end
  <2>5. Splice(s, pos, end, q) \in Seq(Objects)
    BY <2>2, <2>3, SpliceIs DEF IsSplice
  <2>. QED
    BY <1>4, <1>7, <2>1, <2>4, <2>5
<1>19. CASE EraseRange(v)
  <2>1. PICK r \in Ranges(Len(s)) : Set(v, Erase(d_[v], r[1], r[2]))
    BY <1>3, <1>19 DEF EraseRange
  <2>2. r[1] \in Nat /\ r[2] \in Nat /\ r[1] <= r[2] /\ r[2] <= Len(s)
    BY <1>3 DEF Ranges
  <2>. QED
    BY <1>7, <1>10, <2>1, <2>2
<1>20. CASE pop_back(v)
  <2>1. Len(s) > 0 /\ Set(v, Erase(d_[v], Len(s) - 1, Len(s)))
    BY <1>3, <1>20 DEF pop_back
  <2>2. Len(s) - 1 \in Nat /\ Len(s) - 1 <= Len(s) /\ Len(s) <= Len(s)
    BY <1>3, <2>1
  <2>. QED
    BY <1>3, <1>7, <1>10, <2>1, <2>2
<1>21. CASE ResizeTo(v)
  <2>1. PICK n \in 0 .. MaxSize, x \in Values : Set(v, Resize(d_[v], n, x))
    BY <1>21 DEF ResizeTo
  <2>2. n \in Nat /\ x \in Objects
    BY <1>5, VectorAssumption
  <2>3. Resized(s, n, x) \in Seq(Objects) /\ Holds(Resize(d_[v], n, x), Resized(s, n, x))
    BY <1>2, <2>2, ResizeIs
  <2>. QED
    BY <1>4, <1>7, <2>1, <2>3
<1>22. CASE reserve(v)
  <2>1. PICK n \in 0 .. MaxRoom : Set(v, grow(d_[v], n))
    BY <1>22 DEF reserve
  <2>2. n \in Nat
    BY VectorAssumption
  <2>3. Holds(grow(d_[v], n), s)
    BY <1>2, <2>2, GrownIs
  <2>. QED
    BY <1>4, <1>7, <2>1, <2>3
<1>23. CASE clear(v)
  <2>1. Set(v, Erase(d_[v], 0, Len(s)))
    BY <1>3, <1>23 DEF clear
  <2>2. 0 \in Nat /\ 0 <= Len(s) /\ Len(s) <= Len(s)
    BY <1>3
  <2>. QED
    BY <1>3, <1>7, <1>10, <2>1, <2>2
<1>24. ASSUME NEW w \in Vectors, CopyConstruction(v, w)
       PROVE  IInv'
  <2>1. Set(v, Constructed(Contents(d_[w])))
    BY <1>24 DEF CopyConstruction
  <2>2. Constructed(Contents(d_[w])) \in Storages
    BY <1>4, <1>6, ConstructedIs
  <2>. QED
    BY <1>7, <2>1, <2>2
<1>25. ASSUME NEW w \in Vectors, MoveConstruction(v, w)
       PROVE  IInv'
  BY <1>8, <1>9, <1>25, UnallocatedIsStorage DEF MoveConstruction
<1>26. ASSUME NEW w \in Vectors, AssignCopy(v, w)
       PROVE  IInv'
  BY <1>6, <1>7, <1>11, <1>26 DEF AssignCopy
<1>27. ASSUME NEW w \in Vectors, AssignMove(v, w)
       PROVE  IInv'
  <2>. DEFINE released == [d_ EXCEPT ![v] = Unallocated]
  <2>1. released \in [Vectors -> Storages]
    BY UnallocatedIsStorage DEF IInv
  <2>2. d_' = [released EXCEPT ![v] = released[w], ![w] = released[v]]
    BY <1>27 DEF AssignMove
  <2>. HIDE DEF released
  <2>. QED
    BY <2>1, <2>2 DEF IInv
<1>28. ASSUME NEW w \in Vectors, swap(v, w)
       PROVE  IInv'
  BY <1>8, <1>9, <1>28 DEF swap
<1>. QED
  BY <1>1, <1>12, <1>13, <1>14, <1>15, <1>16, <1>17, <1>18, <1>19, <1>20, <1>21, <1>22,
     <1>23, <1>24, <1>25, <1>26, <1>27, <1>28

\* In every reachable state each vector holds some sequence of objects, whatever the
\* calls of vector.h before.
THEOREM VectorInvariant == Spec => []IInv
<1>1. Init => IInv
  BY UnallocatedIsStorage DEF Init, IInv
<1>2. IInv /\ [Next]_d_ => IInv'
  <2>. SUFFICES ASSUME IInv, [Next]_d_ PROVE IInv'
    OBVIOUS
  <2>1. CASE Next
    BY <2>1, StepKeeps
  <2>2. CASE UNCHANGED d_
    BY <2>2 DEF IInv
  <2>. QED
    BY <2>1, <2>2
<1>. QED
  BY <1>1, <1>2, PTL DEF Spec

\* The objects of a vector are the first size_ cells of its storage, and no others,
\* as every call of vector.h that reaches storage.h has to leave them.
THEOREM VectorSlotsExact == Spec => []SlotsExact
<1>1. IInv => SlotsExact
  <2>. SUFFICES ASSUME IInv, NEW v \in Vectors
                PROVE  /\ d_[v].size <= Capacity(d_[v])
                       /\ \A i \in DOMAIN d_[v].cells :
                             IF i < d_[v].size THEN Live(d_[v].cells[i]) ELSE d_[v].cells[i] = Raw
    BY DEF SlotsExact
  <2>1. d_[v] \in Storages
    BY DEF IInv
  <2>2. PICK s \in Seq(Objects), cap \in Nat : Len(s) <= cap /\ d_[v] = Stored(s, cap)
    BY <2>1, StoragesIs
  <2>. DEFINE st == Stored(s, cap)
  <2>3. /\ st.cells \in Memories(cap) /\ Capacity(st) = cap
        /\ \A j \in 0 .. cap - 1 : st.cells[j] = IF j < Len(s) THEN s[j + 1] ELSE Raw
    BY <2>2, StoredFields
  <2>4. \A j \in 0 .. Len(s) - 1 : st.cells[j] \in Objects
    BY <2>2, StoredFields
  <2>5. st.size = Len(s) /\ Len(s) \in Nat
    BY DEF Stored
  <2>. HIDE DEF st
  <2>6. \A i \in DOMAIN st.cells : IF i < st.size THEN Live(st.cells[i]) ELSE st.cells[i] = Raw
    <3>. SUFFICES ASSUME NEW i \in 0 .. cap - 1
                  PROVE  IF i < Len(s) THEN Live(st.cells[i]) ELSE st.cells[i] = Raw
      BY <2>3, <2>5 DEF Memories
    <3>1. i < Len(s) => i \in 0 .. Len(s) - 1
      BY <2>5
    <3>. QED
      BY <2>3, <2>4, <3>1, ObjectsLive
  <2>. QED
    BY <2>2, <2>3, <2>5, <2>6 DEF st
<1>. QED
  BY <1>1, VectorInvariant, PTL

\* Insertion of a count, resize and reserve leave the promised elements in every
\* state, for every number of elements and not only for those the calls here insert.
LEMMA CountsAreInserted == IInv => CountsInserted
<1>. SUFFICES ASSUME IInv, NEW v \in Vectors, NEW x \in Values
     PROVE  LET st == d_[v]
                s == Contents(st)
            IN  /\ \A pos \in Positions(s), n \in 0 .. 3 :
                      Becomes(InsertFill(st, pos, n, x), Splice(s, pos, pos, Times(n, x)))
                /\ \A n \in 0 .. MaxSize + 1 : Becomes(Resize(st, n, x), Resized(s, n, x))
                /\ \A n \in 0 .. MaxRoom : Becomes(grow(st, n), s) /\ Capacity(grow(st, n)) >= n
  BY DEF CountsInserted
<1>1. d_[v] \in Storages
  BY DEF IInv
<1>2. PICK s \in Seq(Objects), cap \in Nat : Len(s) <= cap /\ d_[v] = Stored(s, cap)
  BY <1>1, StoragesIs
<1>3. Contents(d_[v]) = s
  BY <1>2, AllContentsIs
<1>4. x \in Objects
  BY ArgumentsAre
<1>5. ASSUME NEW pos \in Positions(s), NEW n \in 0 .. 3
      PROVE  Becomes(InsertFill(d_[v], pos, n, x), Splice(s, pos, pos, Times(n, x)))
  <2>1. pos \in 0 .. Len(s) /\ n \in Nat
    BY DEF Positions
  <2>2. Holds(InsertFill(d_[v], pos, n, x), Splice(s, pos, pos, Times(n, x)))
    BY <1>2, <1>4, <2>1, InsertFillIs
  <2>3. Splice(s, pos, pos, Times(n, x)) \in Seq(Objects)
    BY <1>4, <2>1, TimesIs, InsertedIs
  <2>. QED
    BY <2>2, <2>3, HoldsIs
<1>6. ASSUME NEW n \in 0 .. MaxSize + 1
      PROVE  Becomes(Resize(d_[v], n, x), Resized(s, n, x))
  <2>1. n \in Nat
    BY VectorAssumption
  <2>. QED
    BY <1>2, <1>4, <2>1, ResizeIs, HoldsIs
<1>7. ASSUME NEW n \in 0 .. MaxRoom
      PROVE  Becomes(grow(d_[v], n), s) /\ Capacity(grow(d_[v], n)) >= n
  <2>1. n \in Nat
    BY VectorAssumption
  <2>2. Holds(grow(d_[v], n), s) /\ Capacity(grow(d_[v], n)) >= n
    BY <1>2, <2>1, GrownIs
  <2>. QED
    BY <2>2, HoldsIs
<1>. QED
  BY <1>3, <1>5, <1>6, <1>7

\* Insertion of a range and emplace, where they lose no elements.
LEMMA RangesAreInserted == IInv => RangesInserted
<1>. SUFFICES ASSUME IInv, NEW v \in Vectors,
                     NEW pos \in Positions(Contents(d_[v])), NEW t \in SeqsUpTo(Values, 3)
     PROVE  LET st == d_[v]
                s == Contents(st)
            IN  /\ ~LosesElements(st, pos, Len(t)) => Becomes(InsertRange(st, pos, t), Splice(s, pos, pos, t))
                /\ Len(t) = 1 /\ ~LosesElement(st, pos) => Becomes(Emplace(st, pos, t[1]), Splice(s, pos, pos, t))
  BY DEF RangesInserted
<1>1. d_[v] \in Storages
  BY DEF IInv
<1>2. PICK s \in Seq(Objects), cap \in Nat : Len(s) <= cap /\ d_[v] = Stored(s, cap)
  BY <1>1, StoragesIs
<1>3. Contents(d_[v]) = s /\ d_[v].size = Len(s)
  BY <1>2, AllContentsIs DEF Stored
<1>4. pos \in 0 .. Len(s) /\ t \in Seq(Objects)
  BY <1>3, ArgumentsAre DEF Positions
<1>5. Splice(s, pos, pos, t) \in Seq(Objects)
  BY <1>4, InsertedIs
<1>6. ASSUME ~LosesElements(d_[v], pos, Len(t))
      PROVE  Becomes(InsertRange(d_[v], pos, t), Splice(s, pos, pos, t))
  <2>1. ~InsertRunsOff(d_[v], pos, Len(t))
    <3>1. Len(t) \in Nat /\ Len(s) \in Nat /\ pos \in Nat
      BY <1>4
    <3>. QED
      BY <1>3, <1>6, <3>1 DEF LosesElements, InsertRunsOff
  <2>2. Holds(InsertRange(d_[v], pos, t), Splice(s, pos, pos, t))
    BY <1>2, <1>4, <1>6, <2>1, InsertRangeIs
  <2>. QED
    BY <1>5, <2>2, HoldsIs
<1>7. ASSUME Len(t) = 1, ~LosesElement(d_[v], pos)
      PROVE  Becomes(Emplace(d_[v], pos, t[1]), Splice(s, pos, pos, t))
  <2>1. t = <<t[1]>> /\ t[1] \in Objects
    <3>1. Len(t) = 1 /\ t \in Seq(Objects)
      BY <1>4, <1>7
    <3>2. t[1] \in Objects
      BY SMTT(30), <3>1
    <3>. DEFINE y == t[1]
    <3>3. <<y>> \in Seq(Objects) /\ Len(<<y>>) = 1 /\ <<y>>[1] = y
      BY <3>2
    <3>4. \A j \in 0 .. Len(t) - 1 : t[j + 1] = <<y>>[j + 1]
      <4>1. \A j \in 0 .. Len(t) - 1 : j + 1 = 1
        BY <3>1
      <4>. QED
        BY <3>3, <4>1
    <3>. QED
      BY <3>1, <3>2, <3>3, <3>4, SameSequence
  <2>2. Holds(Emplace(d_[v], pos, t[1]), Splice(s, pos, pos, <<t[1]>>))
    BY <1>2, <1>4, <1>7, <2>1, EmplaceIs
  <2>. QED
    BY <1>5, <2>1, <2>2, HoldsIs
<1>. QED
  BY <1>3, <1>6, <1>7

\* Erasure, replacement and assignment.
LEMMA RangesAreReplaced == IInv => RangesReplaced
<1>. SUFFICES ASSUME IInv, NEW v \in Vectors
     PROVE  LET st == d_[v]
                s == Contents(st)
            IN  /\ \A r \in Ranges(Len(s)) : Becomes(Erase(st, r[1], r[2]), Splice(s, r[1], r[2], <<>>))
                /\ \A pos \in Positions(s), t \in SeqsUpTo(Values, 3) :
                      LET end == IF pos + Len(t) < Len(s) THEN pos + Len(t) ELSE Len(s)
                      IN  /\ Becomes(ReplaceRange(st, pos, t), Splice(s, pos, end, t))
                          /\ pos = 0 /\ t /= <<>> => Becomes(AssignRange(st, t), t)
                          /\ Len(t) = 1 => Becomes(ReplaceOne(st, pos, t[1]), Splice(s, pos, end, t))
  BY DEF RangesReplaced
<1>1. d_[v] \in Storages
  BY DEF IInv
<1>2. PICK s \in Seq(Objects), cap \in Nat : Len(s) <= cap /\ d_[v] = Stored(s, cap)
  BY <1>1, StoragesIs
<1>3. Contents(d_[v]) = s /\ Len(s) \in Nat
  BY <1>2, AllContentsIs
<1>4. ASSUME NEW r \in Ranges(Len(s))
      PROVE  Becomes(Erase(d_[v], r[1], r[2]), Splice(s, r[1], r[2], <<>>))
  <2>1. r[1] \in Nat /\ r[2] \in Nat /\ r[1] <= r[2] /\ r[2] <= Len(s)
    BY <1>3 DEF Ranges
  <2>2. Holds(Erase(d_[v], r[1], r[2]), Splice(s, r[1], r[2], <<>>))
    BY <1>2, <2>1, EraseIs
  <2>3. Splice(s, r[1], r[2], <<>>) \in Seq(Objects)
    <3>1. <<>> \in Seq(Objects)
      OBVIOUS
    <3>. QED
      BY <2>1, <3>1, SpliceIs DEF IsSplice
  <2>. QED
    BY <2>2, <2>3, HoldsIs
<1>5. ASSUME NEW pos \in Positions(s), NEW t \in SeqsUpTo(Values, 3),
             NEW end, end = IF pos + Len(t) < Len(s) THEN pos + Len(t) ELSE Len(s)
      PROVE  /\ Becomes(ReplaceRange(d_[v], pos, t), Splice(s, pos, end, t))
             /\ t /= <<>> => Becomes(AssignRange(d_[v], t), t)
             /\ Len(t) = 1 => Becomes(ReplaceOne(d_[v], pos, t[1]), Splice(s, pos, end, t))
  <2>1. pos \in 0 .. Len(s) /\ t \in Seq(Objects)
    BY ArgumentsAre DEF Positions
  <2>2. pos \in Nat /\ end \in Nat /\ pos <= end /\ end <= Len(s)
    BY <1>3, <1>5, <2>1
  <2>3. Splice(s, pos, end, t) \in Seq(Objects)
    BY <2>1, <2>2, SpliceIs DEF IsSplice
  <2>4. Becomes(ReplaceRange(d_[v], pos, t), Splice(s, pos, end, t))
    <3>1. Holds(ReplaceRange(d_[v], pos, t), Splice(s, pos, end, t))
      BY <1>2, <1>5, <2>1, <2>2, ReplaceRangeIs
    <3>. QED
      BY <2>3, <3>1, HoldsIs
  <2>5. t /= <<>> => Becomes(AssignRange(d_[v], t), t)
    <3>1. t /= <<>> => Holds(AssignRange(d_[v], t), t)
      BY <1>2, <2>1, AssignRangeIs
    <3>. QED
      BY <2>1, <3>1, HoldsIs
  <2>6. ASSUME Len(t) = 1
        PROVE  Becomes(ReplaceOne(d_[v], pos, t[1]), Splice(s, pos, end, t))
    <3>1. t = <<t[1]>> /\ t[1] \in Objects
      BY <2>1, <2>6
    <3>2. end = IF pos + 1 < Len(s) THEN pos + 1 ELSE Len(s)
      BY <1>5, <2>6
    <3>3. Holds(ReplaceOne(d_[v], pos, t[1]), Splice(s, pos, end, <<t[1]>>))
      BY <1>2, <2>1, <2>2, <3>1, <3>2, ReplaceOneIs
    <3>. QED
      BY <2>3, <3>1, <3>3, HoldsIs
  <2>. QED
    BY <2>4, <2>5, <2>6
<1>. QED
  BY <1>3, <1>4, <1>5

\* Every operation of vector.h but the calls set apart leaves the sequence the standard
\* promises, in every reachable state, whichever way it takes through the storage.
THEOREM VectorElementsKept == Spec => []ElementsKept
<1>1. IInv => ElementsKept
  BY CountsAreInserted, RangesAreInserted, RangesAreReplaced DEF ElementsKept
<1>. QED
  BY <1>1, VectorInvariant, PTL

=============================================================================
