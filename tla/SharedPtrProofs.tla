--------------------------- MODULE SharedPtrProofs ---------------------------
(***************************************************************************)
(* Safety of SharedPtr for every number of pointers.                       *)
(*                                                                         *)
(* The properties of SharedPtr speak of counters; what keeps them is who   *)
(* may still touch the RefCount.  The inductive invariant adds that at     *)
(* most one pointer is ending the sharing (Ends), that a lock() under way  *)
(* keeps its WeakPtr (Locks), and that weak_count is 0 from the moment a   *)
(* pointer is chosen to delete the RefCount (Frees).                       *)
(***************************************************************************)
EXTENDS SharedPtr, FiniteSetTheorems, TLAPS

Locks == \A s \in Shareds : IF at[s] = "locking"
                            THEN src[s] \in Weaks /\ at[src[s]] = "weak"
                            ELSE src[s] = None

Share == IF In("shared") \cup Ending # {} THEN 1 ELSE 0

Counts == /\ use_count = Cardinality(In("shared"))
          /\ weak_count = Cardinality(In("weak")) + forgotten + Share

Ends == /\ \A p, q \in Ending : p = q
        /\ Ending # {} => In("shared") = {}

Deletes == /\ deletes \in {0, 1}
           /\ deletes = 0 <=> In("shared") \cup In("deleting") # {}

Frees == /\ In("freeing") # {} \/ freed => weak_count = 0
         /\ weak_count = 0 => In("freeing") # {} \/ freed
         /\ \A p, q \in In("freeing") : p = q
         /\ freed => In("freeing") = {}

Inv == TypeOK /\ (~revived => Locks /\ Counts /\ Ends /\ Deletes /\ Frees)

-----------------------------------------------------------------------------

\* The pointers in a state can be counted, and there are none iff the count is 0.
LEMMA Countable ==
    ASSUME NEW x
    PROVE  /\ IsFiniteSet(In(x))
           /\ Cardinality(In(x)) \in Nat
           /\ Cardinality(In(x)) = 0 <=> In(x) = {}
<1>1. IsFiniteSet(Ptrs)
  BY PtrAssumption, FS_Union DEF Ptrs
<1>2. In(x) \in SUBSET Ptrs
  BY DEF In
<1>3. IsFiniteSet(In(x))
  BY <1>1, <1>2, FS_Subset
<1>. QED
  BY <1>3, FS_CardinalityType, FS_EmptySet

\* One pointer enters state x, leaves it, or has nothing to do with it.
LEMMA Enter ==
    ASSUME TypeOK, NEW p \in Ptrs, NEW x, at' = [at EXCEPT ![p] = x], at[p] # x
    PROVE  /\ In(x)' = In(x) \cup {p}
           /\ Cardinality(In(x)') = Cardinality(In(x)) + 1
<1>1. In(x)' = In(x) \cup {p} /\ p \notin In(x)
  BY DEF TypeOK, In
<1>. QED
  BY <1>1, Countable, FS_AddElement

LEMMA Leave ==
    ASSUME TypeOK, NEW p \in Ptrs, NEW x, NEW v, at' = [at EXCEPT ![p] = v], at[p] = x, v # x
    PROVE  /\ In(x)' = In(x) \ {p} /\ p \in In(x)
           /\ Cardinality(In(x)') = Cardinality(In(x)) - 1
<1>1. In(x)' = In(x) \ {p} /\ p \in In(x)
  BY DEF TypeOK, In
<1>. QED
  BY <1>1, Countable, FS_RemoveElement

LEMMA Apart ==
    ASSUME TypeOK, NEW p \in Ptrs, NEW x, NEW v, at' = [at EXCEPT ![p] = v], at[p] # x, v # x
    PROVE  In(x)' = In(x)
BY DEF TypeOK, In

TypeAt == /\ at \in [Ptrs -> SharedStates \cup WeakStates]
          /\ \A s \in Shareds : at[s] \in SharedStates
          /\ \A w \in Weaks : at[w] \in WeakStates

LEMMA UpdateType ==
    ASSUME TypeAt, NEW p \in Ptrs, NEW v, at' = [at EXCEPT ![p] = v],
           p \in Shareds => v \in SharedStates, p \in Weaks => v \in WeakStates
    PROVE  TypeAt'
<1>1. v \in SharedStates \cup WeakStates
  BY DEF Ptrs
<1>. QED
  BY <1>1 DEF TypeAt, Ptrs

LEMMA TypeParts ==
    TypeOK <=> /\ TypeAt
               /\ src \in [Shareds -> Weaks \cup {None}]
               /\ use_count \in Nat /\ weak_count \in Nat /\ deletes \in Nat
               /\ freed \in BOOLEAN /\ revived \in BOOLEAN
               /\ forgotten \in 0 .. MaxForgotten
BY DEF TypeOK, TypeAt

LEMMA InitInv == Init => Inv
<1>. SUFFICES ASSUME Init PROVE Inv
  OBVIOUS
<1>1. PICK s \in Shareds : at = [p \in Ptrs |-> IF p = s THEN "shared" ELSE "null"]
  BY DEF Init
<1>2. /\ In("shared") = {s} /\ In("weak") = {} /\ In("deleting") = {}
      /\ In("unweak") = {} /\ In("freeing") = {}
  BY <1>1 DEF In, Ptrs
<1>3. Cardinality(In("shared")) = 1 /\ Cardinality(In("weak")) = 0
  BY <1>2, FS_EmptySet, FS_Singleton
<1>4. TypeOK
  <2>1. TypeAt
    BY <1>1, PtrAssumption DEF TypeAt, Ptrs, SharedStates, WeakStates
  <2>2. forgotten \in 0 .. MaxForgotten
    BY PtrAssumption DEF Init
  <2>. QED
    BY <2>1, <2>2, TypeParts DEF Init
<1>5. Locks
  BY <1>1 DEF Init, Locks, Ptrs
<1>6. Counts /\ Ends /\ Deletes /\ Frees
  BY <1>2, <1>3 DEF Init, Counts, Share, Ends, Ending, Deletes, Frees
<1>. QED
  BY <1>4, <1>5, <1>6 DEF Inv

-----------------------------------------------------------------------------
(* Steps of one pointer.                                                   *)

LEMMA CopySharedInv ==
    ASSUME Inv, NEW s \in Shareds, NEW q \in Shareds, CopyShared(s, q) PROVE Inv'
<1>. USE DEF CopyShared
<1>0. TypeOK /\ Locks /\ Counts /\ Ends /\ Deletes /\ Frees /\ s \in Ptrs /\ q \in Ptrs
  BY DEF Inv, Ptrs
<1>1. /\ In("shared")' = In("shared") \cup {s}
      /\ Cardinality(In("shared")') = Cardinality(In("shared")) + 1
  BY <1>0, Enter
<1>2. /\ In("weak")' = In("weak") /\ In("deleting")' = In("deleting")
      /\ In("unweak")' = In("unweak") /\ In("freeing")' = In("freeing")
  BY <1>0, Apart
<1>3. q \in In("shared")
  BY <1>0 DEF In
<1>4. TypeOK'
  <2>1. TypeAt'
    BY <1>0, UpdateType, TypeParts, PtrAssumption DEF SharedStates
  <2>. QED
    BY <1>0, <2>1 DEF TypeOK, TypeAt
<1>5. Locks'
  BY <1>0 DEF TypeOK, Locks, Ptrs, PtrAssumption
<1>6. Counts'
  BY <1>0, <1>1, <1>2, <1>3 DEF Counts, Share, Ending
<1>7. (Ends /\ Deletes /\ Frees)'
  BY <1>0, <1>1, <1>2, <1>3 DEF Ends, Ending, Deletes, Frees
<1>. QED
  BY <1>4, <1>5, <1>6, <1>7 DEF Inv

\* Swap exchanges the states of two pointers of a kind, so the sets keep their sizes.
LEMMA SwapInv ==
    ASSUME Inv, NEW p \in Ptrs, NEW q \in Ptrs, Swap(p, q),
           (p \in Shareds /\ q \in Shareds) \/ (p \in Weaks /\ q \in Weaks)
    PROVE  Inv'
<1>. USE DEF Swap
<1>0. TypeOK /\ Locks /\ Counts /\ Ends /\ Deletes /\ Frees
  BY DEF Inv
<1>1. PICK v \in {"shared", "weak"} : {at[p], at[q]} = {v, "null"}
  <2>1. {at[p], at[q]} = {"shared", "null"} \/ {at[p], at[q]} = {"weak", "null"}
    OBVIOUS
  <2>. QED
    BY <2>1
<1>b. (at[p] = v /\ at[q] = "null") \/ (at[p] = "null" /\ at[q] = v)
  BY <1>1
<1>2. \A r \in Ptrs : at'[r] = IF r = p THEN at[q] ELSE IF r = q THEN at[p] ELSE at[r]
  BY <1>0, <1>b DEF TypeOK
<1>3. \A x \in {"deleting", "unweak", "freeing"} : In(x)' = In(x)
  BY <1>b, <1>2 DEF In
<1>4. /\ Cardinality(In("shared")') = Cardinality(In("shared"))
      /\ Cardinality(In("weak")') = Cardinality(In("weak"))
  <2>1. ASSUME NEW x \in {"shared", "weak"}, NEW a \in Ptrs, NEW b \in Ptrs,
               at[a] = x, at[b] = "null", at'[a] = "null", at'[b] = x,
               \A r \in Ptrs \ {a, b} : at'[r] = at[r]
        PROVE  Cardinality(In(x)') = Cardinality(In(x))
    <3>1. In(x)' = (In(x) \ {a}) \cup {b} /\ a \in In(x) /\ b \notin In(x) \ {a}
      BY <2>1 DEF In
    <3>2. /\ IsFiniteSet(In(x)) /\ Cardinality(In(x)) \in Nat
          /\ IsFiniteSet(In(x) \ {a})
          /\ Cardinality(In(x) \ {a}) = Cardinality(In(x)) - 1
      BY <3>1, Countable, FS_RemoveElement
    <3>3. Cardinality((In(x) \ {a}) \cup {b}) = Cardinality(In(x) \ {a}) + 1
      BY <3>1, <3>2, FS_AddElement
    <3>. QED
      BY <3>1, <3>2, <3>3
  <2>2. ASSUME NEW x \in {"shared", "weak"}, x # v PROVE In(x)' = In(x)
    BY <1>b, <1>2, <2>2 DEF In
  <2>3. Cardinality(In(v)') = Cardinality(In(v))
    BY <1>b, <1>2, <2>1
  <2>. QED
    BY <1>b, <2>2, <2>3
<1>5. (In("shared") = {} <=> In("shared")' = {})
  BY <1>b, <1>2 DEF In
<1>6. TypeOK'
  <2>1. TypeAt'
    BY <1>0, <1>b, PtrAssumption DEF TypeOK, TypeAt, Ptrs, SharedStates, WeakStates
  <2>. QED
    BY <1>0, <2>1 DEF TypeOK, TypeAt
<1>7. Locks'
  BY <1>0, <1>b, <1>2, PtrAssumption DEF TypeOK, Locks, Ptrs, Unread
<1>8. Counts'
  BY <1>0, <1>3, <1>4, <1>5 DEF Counts, Share, Ending
<1>9. (Ends /\ Deletes /\ Frees)'
  BY <1>0, <1>3, <1>5 DEF Ends, Ending, Deletes, Frees
<1>. QED
  BY <1>6, <1>7, <1>8, <1>9 DEF Inv

LEMMA DecUseCountInv ==
    ASSUME Inv, NEW s \in Shareds, DecUseCount(s) PROVE Inv'
<1>. USE DEF DecUseCount
<1>0. TypeOK /\ Locks /\ Counts /\ Ends /\ Deletes /\ Frees /\ s \in Ptrs
  BY DEF Inv, Ptrs
<1>a. PICK v \in {"deleting", "null"} : at' = [at EXCEPT ![s] = v]
  OBVIOUS
<1>1. /\ In("shared")' = In("shared") \ {s} /\ s \in In("shared")
      /\ Cardinality(In("shared")') = Cardinality(In("shared")) - 1
  <2>1. v # "shared" /\ at[s] = "shared"
    OBVIOUS
  <2>. QED
    BY <1>0, <1>a, <2>1, Leave
<1>2. /\ In("weak")' = In("weak") /\ In("unweak")' = In("unweak")
      /\ In("freeing")' = In("freeing")
  BY <1>0, <1>a, Apart
<1>3. Cardinality(In("shared")) \in Nat \ {0} /\ use_count = Cardinality(In("shared"))
  BY <1>0, <1>1, Countable DEF Counts
<1>4. In("deleting") = {} /\ In("unweak") = {}
  BY <1>0, <1>1 DEF Ends, Ending
<1>5. TypeOK'
  <2>1. TypeAt'
    BY <1>0, UpdateType, TypeParts, PtrAssumption DEF SharedStates
  <2>2. use_count' \in Nat
    BY <1>3
  <2>. QED
    BY <1>0, <2>1, <2>2 DEF TypeOK, TypeAt
<1>6. Locks'
  BY <1>0, PtrAssumption DEF TypeOK, Locks, Ptrs
<1>7. In("shared")' = {} <=> use_count = 1
  <2>1. Cardinality(In("shared")') = 0 <=> In("shared")' = {}
    BY <1>1, Countable, FS_RemoveElement, FS_EmptySet
  <2>. QED
    BY <1>1, <1>3, <2>1
<1>8. In("deleting")' = IF use_count = 1 THEN {s} ELSE {}
  BY <1>0, <1>4 DEF TypeOK, In
<1>9. Counts'
  BY <1>0, <1>1, <1>2, <1>4, <1>7, <1>8 DEF Counts, Share, Ending
<1>10. (Ends /\ Deletes /\ Frees)'
  BY <1>0, <1>1, <1>2, <1>4, <1>7, <1>8 DEF Ends, Ending, Deletes, Frees
<1>. QED
  BY <1>5, <1>6, <1>9, <1>10 DEF Inv

LEMMA DeleteDataInv ==
    ASSUME Inv, NEW s \in Shareds, DeleteData(s) PROVE Inv'
<1>. USE DEF DeleteData
<1>0. TypeOK /\ Locks /\ Counts /\ Ends /\ Deletes /\ Frees /\ s \in Ptrs
  BY DEF Inv, Ptrs
<1>1. /\ In("deleting")' = In("deleting") \ {s} /\ s \in In("deleting")
      /\ In("unweak")' = In("unweak") \cup {s}
  BY <1>0, Leave, Enter
<1>2. /\ In("weak")' = In("weak") /\ In("shared")' = In("shared")
      /\ In("freeing")' = In("freeing")
  BY <1>0, Apart
<1>3. In("shared") = {} /\ In("deleting") = {s} /\ In("unweak") \subseteq {s} /\ deletes = 0
  BY <1>0, <1>1 DEF Ends, Ending, Deletes
<1>5. TypeOK'
  <2>1. TypeAt'
    BY <1>0, UpdateType, TypeParts, PtrAssumption DEF SharedStates
  <2>. QED
    BY <1>0, <2>1 DEF TypeOK, TypeAt
<1>6. Locks'
  BY <1>0, PtrAssumption DEF TypeOK, Locks, Ptrs
<1>7. (Counts /\ Ends /\ Deletes /\ Frees)'
  BY <1>0, <1>1, <1>2, <1>3 DEF Counts, Share, Ends, Ending, Deletes, Frees
<1>. QED
  BY <1>5, <1>6, <1>7 DEF Inv

\* A weak count is given back: that of all SharedPtrs, or that of one WeakPtr.
LEMMA DecWeakCountInv ==
    ASSUME Inv, NEW p \in Ptrs, DecWeakCount(p) PROVE Inv'
<1>. USE DEF DecWeakCount
<1>0. TypeOK /\ Locks /\ Counts /\ Ends /\ Deletes /\ Frees
  BY DEF Inv
<1>a. PICK v \in {"freeing", "null"} : at' = [at EXCEPT ![p] = v]
  OBVIOUS
<1>1. In("shared")' = In("shared") /\ In("deleting")' = In("deleting")
  BY <1>0, <1>a, Apart
<1>2. weak_count' \in Nat /\ Counts' /\ Ends'
  <2>1. CASE at[p] = "weak"
    <3>1. /\ In("weak")' = In("weak") \ {p} /\ p \in In("weak")
          /\ Cardinality(In("weak")') = Cardinality(In("weak")) - 1
      BY <1>0, <1>a, <2>1, Leave
    <3>2. In("unweak")' = In("unweak")
      BY <1>0, <1>a, <2>1, Apart
    <3>3. Cardinality(In("weak")) \in Nat \ {0} /\ forgotten \in Nat
      BY <1>0, <3>1, Countable, PtrAssumption DEF TypeOK
    <3>. QED
      BY <1>0, <1>1, <3>1, <3>2, <3>3 DEF Counts, Share, Ends, Ending
  <2>2. CASE at[p] = "unweak"
    <3>1. In("unweak")' = In("unweak") \ {p} /\ p \in In("unweak")
      BY <1>0, <1>a, <2>2, Leave
    <3>2. In("weak")' = In("weak")
      BY <1>0, <1>a, <2>2, Apart
    <3>3. Cardinality(In("weak")) \in Nat /\ forgotten \in Nat
      BY <1>0, Countable, PtrAssumption DEF TypeOK
    <3>4. /\ In("shared") = {} /\ In("deleting") \subseteq {p} /\ In("unweak") = {p}
          /\ p \notin In("deleting")
      BY <1>0, <2>2, <3>1 DEF Ends, Ending, In
    <3>5. Share = 1 /\ Ending' = {} /\ Share' = 0
      BY <1>1, <3>1, <3>4 DEF Share, Ending
    <3>6. Counts' /\ weak_count' \in Nat
      BY <1>0, <1>1, <3>2, <3>3, <3>5 DEF Counts
    <3>7. Ends'
      BY <3>5 DEF Ends
    <3>. QED
      BY <3>6, <3>7
  <2>. QED
    BY <2>1, <2>2
<1>3. weak_count \in Nat \ {0}
  BY <1>0, <1>2 DEF TypeOK
<1>4. In("freeing") = {} /\ ~freed
  BY <1>0, <1>3 DEF Frees
<1>5. In("freeing")' = IF weak_count = 1 THEN {p} ELSE {}
  BY <1>0, <1>4 DEF TypeOK, In
<1>6. (Deletes /\ Frees)'
  BY <1>0, <1>1, <1>3, <1>4, <1>5 DEF Deletes, Frees
<1>7. TypeOK'
  <2>1. TypeAt'
    BY <1>0, <1>a, UpdateType, TypeParts DEF SharedStates, WeakStates
  <2>. QED
    BY <1>0, <1>2, <2>1 DEF TypeOK, TypeAt
<1>8. Locks'
  BY <1>0, <1>a, PtrAssumption DEF TypeOK, Locks, Ptrs, Unread, WeakStates
<1>. QED
  BY <1>2, <1>6, <1>7, <1>8 DEF Inv

LEMMA DeleteRefCountInv ==
    ASSUME Inv, NEW p \in Ptrs, DeleteRefCount(p) PROVE Inv'
<1>. USE DEF DeleteRefCount
<1>0. TypeOK /\ Locks /\ Counts /\ Ends /\ Deletes /\ Frees
  BY DEF Inv
<1>1. In("freeing")' = In("freeing") \ {p} /\ p \in In("freeing")
  BY <1>0, Leave
<1>2. /\ In("weak")' = In("weak") /\ In("shared")' = In("shared")
      /\ In("deleting")' = In("deleting") /\ In("unweak")' = In("unweak")
  BY <1>0, Apart
<1>3. In("freeing")' = {} /\ weak_count = 0
  BY <1>0, <1>1 DEF Frees
<1>4. TypeOK'
  <2>1. TypeAt'
    BY <1>0, UpdateType, TypeParts DEF SharedStates, WeakStates
  <2>. QED
    BY <1>0, <2>1 DEF TypeOK, TypeAt
<1>5. Locks'
  BY <1>0, PtrAssumption DEF TypeOK, Locks, Ptrs
<1>6. (Counts /\ Ends /\ Deletes /\ Frees)'
  BY <1>0, <1>2, <1>3 DEF Counts, Share, Ends, Ending, Deletes, Frees
<1>. QED
  BY <1>4, <1>5, <1>6 DEF Inv

LEMMA CopyWeakInv ==
    ASSUME Inv, NEW w \in Weaks, NEW q \in Ptrs, CopyWeak(w, q) PROVE Inv'
<1>. USE DEF CopyWeak
<1>0. TypeOK /\ Locks /\ Counts /\ Ends /\ Deletes /\ Frees /\ w \in Ptrs
  BY DEF Inv, Ptrs
<1>1. Cardinality(In("weak")') = Cardinality(In("weak")) + 1
  BY <1>0, Enter
<1>2. /\ In("shared")' = In("shared") /\ In("deleting")' = In("deleting")
      /\ In("unweak")' = In("unweak") /\ In("freeing")' = In("freeing")
  BY <1>0, Apart
<1>3. q \in In("shared") \/ q \in In("weak")
  BY DEF In
<1>4. Cardinality(In("weak")) \in Nat /\ forgotten \in Nat /\ Share \in {0, 1}
  BY <1>0, Countable, PtrAssumption DEF TypeOK, Share
<1>5. weak_count \in Nat \ {0}
  <2>1. Cardinality(In("weak")) > 0 \/ Share = 1
    BY <1>3, <1>4, Countable DEF Share
  <2>. QED
    BY <1>0, <1>4, <2>1 DEF Counts
<1>6. TypeOK'
  <2>1. TypeAt'
    BY <1>0, UpdateType, TypeParts, PtrAssumption DEF WeakStates
  <2>. QED
    BY <1>0, <2>1 DEF TypeOK, TypeAt
<1>7. Locks'
  BY <1>0, PtrAssumption DEF TypeOK, Locks, Ptrs
<1>8. Counts'
  BY <1>0, <1>1, <1>2, <1>4 DEF Counts, Share, Ending
<1>9. (Ends /\ Deletes /\ Frees)'
  BY <1>0, <1>2, <1>5 DEF Ends, Ending, Deletes, Frees
<1>. QED
  BY <1>6, <1>7, <1>8, <1>9 DEF Inv

LEMMA ForgetWeakInv ==
    ASSUME Inv, NEW w \in Weaks, ForgetWeak(w) PROVE Inv'
<1>. USE DEF ForgetWeak
<1>0. TypeOK /\ Locks /\ Counts /\ Ends /\ Deletes /\ Frees /\ w \in Ptrs
  BY DEF Inv, Ptrs
<1>1. Cardinality(In("weak")') = Cardinality(In("weak")) - 1
  BY <1>0, Leave
<1>2. /\ In("shared")' = In("shared") /\ In("deleting")' = In("deleting")
      /\ In("unweak")' = In("unweak") /\ In("freeing")' = In("freeing")
  BY <1>0, Apart
<1>3. Cardinality(In("weak")) \in Nat /\ forgotten \in Nat /\ forgotten' \in 0 .. MaxForgotten
  BY <1>0, Countable, PtrAssumption DEF TypeOK
<1>4. TypeOK'
  <2>1. TypeAt'
    BY <1>0, UpdateType, TypeParts, PtrAssumption DEF WeakStates
  <2>. QED
    BY <1>0, <1>3, <2>1 DEF TypeOK, TypeAt
<1>5. Locks'
  BY <1>0, PtrAssumption DEF TypeOK, Locks, Ptrs, Unread, WeakStates
<1>6. Counts'
  BY <1>0, <1>1, <1>2, <1>3 DEF Counts, Share, Ending
<1>7. (Ends /\ Deletes /\ Frees)'
  BY <1>0, <1>2 DEF Ends, Ending, Deletes, Frees
<1>. QED
  BY <1>4, <1>5, <1>6, <1>7 DEF Inv

LEMMA LockTestInv ==
    ASSUME Inv, NEW s \in Shareds, NEW w \in Weaks, LockTest(s, w) PROVE Inv'
<1>. USE DEF LockTest
<1>0. TypeOK /\ Locks /\ Counts /\ Ends /\ Deletes /\ Frees /\ s \in Ptrs
  BY DEF Inv, Ptrs
<1>1. /\ In("weak")' = In("weak") /\ In("shared")' = In("shared")
      /\ In("deleting")' = In("deleting") /\ In("unweak")' = In("unweak")
      /\ In("freeing")' = In("freeing")
  BY <1>0, Apart
<1>2. TypeOK'
  <2>1. TypeAt'
    BY <1>0, UpdateType, TypeParts, PtrAssumption DEF SharedStates
  <2>. QED
    BY <1>0, <2>1 DEF TypeOK, TypeAt
<1>3. Locks'
  BY <1>0, PtrAssumption DEF TypeOK, Locks, Ptrs
<1>4. (Counts /\ Ends /\ Deletes /\ Frees)'
  BY <1>0, <1>1 DEF Counts, Share, Ends, Ending, Deletes, Frees
<1>. QED
  BY <1>2, <1>3, <1>4 DEF Inv

\* Nothing is claimed of the step that revives use_count; any other finds it above 0.
LEMMA LockIncInv ==
    ASSUME Inv, NEW s \in Shareds, LockInc(s) PROVE Inv'
<1>. USE DEF LockInc
<1>0. TypeOK /\ Locks /\ Counts /\ Ends /\ Deletes /\ Frees /\ s \in Ptrs
  BY DEF Inv, Ptrs
<1>1. TypeOK'
  <2>1. TypeAt'
    BY <1>0, UpdateType, TypeParts, PtrAssumption DEF SharedStates
  <2>. QED
    BY <1>0, <2>1 DEF TypeOK, TypeAt
<1>2. SUFFICES ASSUME use_count # 0 PROVE Inv'
  BY <1>1 DEF Inv
<1>3. /\ In("shared")' = In("shared") \cup {s}
      /\ Cardinality(In("shared")') = Cardinality(In("shared")) + 1
  BY <1>0, Enter
<1>4. /\ In("weak")' = In("weak") /\ In("deleting")' = In("deleting")
      /\ In("unweak")' = In("unweak") /\ In("freeing")' = In("freeing")
  BY <1>0, Apart
<1>5. In("shared") # {}
  BY <1>0, <1>2, Countable DEF Counts
<1>6. Locks'
  BY <1>0, PtrAssumption DEF TypeOK, Locks, Ptrs
<1>7. Counts'
  BY <1>0, <1>3, <1>4, <1>5 DEF Counts, Share, Ending
<1>8. (Ends /\ Deletes /\ Frees)'
  BY <1>0, <1>3, <1>4, <1>5 DEF Ends, Ending, Deletes, Frees
<1>. QED
  BY <1>1, <1>6, <1>7, <1>8 DEF Inv

-----------------------------------------------------------------------------

LEMMA NextInv == Inv /\ [Next]_vars => Inv'
<1>. SUFFICES ASSUME Inv, [Next]_vars PROVE Inv'
  OBVIOUS
<1>1. ASSUME NEW s \in Shareds, NEW q \in Shareds, CopyShared(s, q) \/ Swap(s, q)
      PROVE  Inv'
  BY <1>1, CopySharedInv, SwapInv DEF Ptrs
<1>2. ASSUME NEW s \in Shareds, DecUseCount(s) \/ DeleteData(s) \/ LockInc(s)
      PROVE  Inv'
  BY <1>2, DecUseCountInv, DeleteDataInv, LockIncInv
<1>3. ASSUME NEW p \in Ptrs, DecWeakCount(p) \/ DeleteRefCount(p) PROVE Inv'
  BY <1>3, DecWeakCountInv, DeleteRefCountInv
<1>4. ASSUME NEW w \in Weaks, NEW q \in Ptrs, CopyWeak(w, q) PROVE Inv'
  BY <1>4, CopyWeakInv
<1>5. ASSUME NEW v \in Weaks, NEW w \in Weaks, Swap(v, w) PROVE Inv'
  BY <1>5, SwapInv DEF Ptrs
<1>6. ASSUME NEW w \in Weaks, ForgetWeak(w) PROVE Inv'
  BY <1>6, ForgetWeakInv
<1>7. ASSUME NEW s \in Shareds, NEW w \in Weaks, LockTest(s, w) PROVE Inv'
  BY <1>7, LockTestInv
<1>8. CASE UNCHANGED vars
  BY <1>8 DEF Inv, vars, TypeOK, Locks, Counts, Share, Ends, Ending, Deletes, Frees, In
<1>. QED
  BY <1>1, <1>2, <1>3, <1>4, <1>5, <1>6, <1>7, <1>8 DEF Next

\* The invariant of the counting protocol of smart_pointers.h.
THEOREM Invariance == Spec => []Inv
BY InitInv, NextInv, PTL DEF Spec

\* Every pointer and counter of a SharedPtr and its RefCount keeps its type.
THEOREM TypeCorrect == Spec => []TypeOK
<1>1. Inv => TypeOK
  BY DEF Inv
<1>. QED
  BY <1>1, Invariance, PTL

\* use_count and weak_count of the RefCount count the pointers, whatever the
\* threads that copy, move, lock and destroy them do.
THEOREM CountersExact == Spec => []CountsExact
<1>1. Inv => CountsExact
  BY DEF Inv, CountsExact, Counts, Share
<1>. QED
  BY <1>1, Invariance, PTL

\* The object is deleted once, after its last SharedPtr and never before.
THEOREM ObjectDeletedOnce == Spec => []DeletedOnce
<1>1. Inv => DeletedOnce
  BY DEF Inv, DeletedOnce, Deletes
<1>. QED
  BY <1>1, Invariance, PTL

\* The RefCount is deleted last, and deleted as soon as nobody refers to it.
THEOREM RefCountDeletedLast == Spec => []RefCountFreed
<1>1. ASSUME Inv, ~revived PROVE freed => \A p \in Ptrs : at[p] = "null"
  <2>. SUFFICES ASSUME freed, NEW p \in Ptrs PROVE at[p] = "null"
    OBVIOUS
  <2>0. TypeOK /\ Locks /\ Counts /\ Deletes /\ Frees
    BY <1>1 DEF Inv
  <2>1. weak_count = 0 /\ In("freeing") = {}
    BY <2>0 DEF Frees
  <2>2. Cardinality(In("weak")) \in Nat /\ forgotten \in Nat
    BY <2>0, Countable, PtrAssumption DEF TypeOK
  <2>3. Cardinality(In("weak")) = 0 /\ Share = 0
    <3>1. Share \in {0, 1}
      BY DEF Share
    <3>. QED
      BY <2>0, <2>1, <2>2, <3>1 DEF Counts
  <2>4. In("weak") = {} /\ In("shared") = {} /\ Ending = {}
    <3>1. In("shared") \cup Ending = {}
      BY <2>3 DEF Share
    <3>2. In("weak") = {}
      BY <2>3, Countable
    <3>. QED
      BY <3>1, <3>2
  <2>5. at[p] # "locking"
    BY <2>0, <2>4 DEF TypeOK, Locks, In, Ptrs, WeakStates
  <2>. QED
    BY <2>0, <2>1, <2>4, <2>5 DEF TypeOK, SharedStates, WeakStates, Ptrs, In, Ending
<1>2. ASSUME Inv, ~revived, \A p \in Ptrs : at[p] = "null", forgotten = 0 PROVE freed
  <2>1. Cardinality(In("weak")) = 0 /\ Share = 0 /\ In("freeing") = {}
    <3>1. In("weak") = {} /\ In("shared") = {} /\ Ending = {} /\ In("freeing") = {}
      BY <1>2 DEF In, Ending
    <3>. QED
      BY <3>1, Countable DEF Share
  <2>. QED
    BY <1>2, <2>1 DEF Inv, Counts, Frees
<1>3. Inv => RefCountFreed
  BY <1>1, <1>2 DEF RefCountFreed
<1>. QED
  BY <1>3, Invariance, PTL

=============================================================================
