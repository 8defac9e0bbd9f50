------------------------------ MODULE SharedPtr ------------------------------
(***************************************************************************)
(* gtl::SharedPtr, gtl::WeakPtr and the RefCount they share                *)
(* (memory/smart_pointers.h), for one object.  Pointers that refer to      *)
(* different objects do not interact: an assignment is a copy or a move    *)
(* into a temporary, a swap and the destruction of the temporary.          *)
(*                                                                         *)
(* The processes are the pointer objects: every member function that       *)
(* changes one runs alone on it, and each access to an atomic counter is a *)
(* step.  Once use_count is revived a SharedPtr gives access to a deleted  *)
(* object: what the program does from there on is undefined, and the       *)
(* behaviours of the model end.                                            *)
(*                                                                         *)
(* Operators named Slip... are plausible mistakes in the definition that   *)
(* follows them, for the properties to notice.                             *)
(***************************************************************************)
EXTENDS Integers, FiniteSets

CONSTANTS Shareds,     \* SharedPtr objects
          Weaks,       \* WeakPtr objects
          None,        \* no pointer
          MaxForgotten \* bound: calls of WeakPtr::reset

ASSUME PtrAssumption ==
    /\ IsFiniteSet(Shareds) /\ IsFiniteSet(Weaks)
    /\ Shareds \cap Weaks = {}
    /\ None \notin Shareds \cup Weaks
    /\ MaxForgotten \in Nat

VARIABLES at,         \* what each pointer refers to, or where its operation stands
          src,        \* the WeakPtr a SharedPtr is being locked from
          use_count,
          weak_count,
          deletes,    \* times DeleteData has deleted the object
          freed,      \* DeleteRefCount has deleted the RefCount
          forgotten,  \* WeakPtrs that let go without DecWeakCount
          revived     \* history: use_count went from 0 to 1

vars == <<at, src, use_count, weak_count, deletes, freed, forgotten, revived>>

Ptrs == Shareds \cup Weaks
SharedStates == {"null", "shared", "locking", "deleting", "unweak", "freeing"}
WeakStates == {"null", "weak", "freeing"}

TypeOK ==
    /\ at \in [Ptrs -> SharedStates \cup WeakStates]
    /\ \A s \in Shareds : at[s] \in SharedStates
    /\ \A w \in Weaks : at[w] \in WeakStates
    /\ src \in [Shareds -> Weaks \cup {None}]
    /\ use_count \in Nat /\ weak_count \in Nat /\ deletes \in Nat
    /\ freed \in BOOLEAN /\ revived \in BOOLEAN
    /\ forgotten \in 0 .. MaxForgotten

\* SharedPtr(data): a new RefCount, with use_count and weak_count 1.
Init ==
    /\ \E s \in Shareds : at = [p \in Ptrs |-> IF p = s THEN "shared" ELSE "null"]
    /\ src = [s \in Shareds |-> None]
    /\ use_count = 1 /\ weak_count = 1
    /\ deletes = 0 /\ freed = FALSE /\ forgotten = 0 /\ revived = FALSE

-----------------------------------------------------------------------------

\* No call of lock() on WeakPtr w is under way; SharedPtrs have no such readers.
Unread(p) == \A s \in Shareds : src[s] # p

CopyShared(s, q) ==
    /\ ~revived
    /\ at[s] = "null" /\ at[q] = "shared"
    /\ use_count' = use_count + 1
    /\ at' = [at EXCEPT ![s] = "shared"]
    /\ UNCHANGED <<src, weak_count, deletes, freed, forgotten, revived>>

SlipSwap(p, q) ==  \* the pointer moved from is not cleared
    /\ ~revived
    /\ {at[p], at[q]} \in {{"shared", "null"}, {"weak", "null"}}
    /\ Unread(p) /\ Unread(q)
    /\ at' = [at EXCEPT ![p] = IF at[q] = "null" THEN at[p] ELSE at[q]]
    /\ UNCHANGED <<src, use_count, weak_count, deletes, freed, forgotten, revived>>

\* Swap, and with a null pointer the move constructor: no counter changes.
Swap(p, q) ==
    /\ ~revived
    /\ {at[p], at[q]} \in {{"shared", "null"}, {"weak", "null"}}
    /\ Unread(p) /\ Unread(q)
    /\ at' = [at EXCEPT ![p] = at[q], ![q] = at[p]]
    /\ UNCHANGED <<src, use_count, weak_count, deletes, freed, forgotten, revived>>

\* The destructor, reset and the end of an assignment: PtrBase::DecUseCount.
DecUseCount(s) ==
    /\ ~revived
    /\ at[s] = "shared"
    /\ use_count' = use_count - 1
    /\ at' = [at EXCEPT ![s] = IF use_count = 1 THEN "deleting" ELSE "null"]
    /\ UNCHANGED <<src, weak_count, deletes, freed, forgotten, revived>>

DeleteData(s) ==
    /\ ~revived
    /\ at[s] = "deleting"
    /\ deletes' = deletes + 1
    /\ at' = [at EXCEPT ![s] = "unweak"]
    /\ UNCHANGED <<src, use_count, weak_count, freed, forgotten, revived>>

SlipDecWeakCount(p) ==  \* the RefCount is never deleted
    /\ ~revived
    /\ at[p] \in {"unweak", "weak"} /\ Unread(p)
    /\ weak_count' = weak_count - 1
    /\ at' = [at EXCEPT ![p] = "null"]
    /\ UNCHANGED <<src, use_count, deletes, freed, forgotten, revived>>

\* The weak count all SharedPtrs hold together, or the one of a WeakPtr.
DecWeakCount(p) ==
    /\ ~revived
    /\ at[p] \in {"unweak", "weak"} /\ Unread(p)
    /\ weak_count' = weak_count - 1
    /\ at' = [at EXCEPT ![p] = IF weak_count = 1 THEN "freeing" ELSE "null"]
    /\ UNCHANGED <<src, use_count, deletes, freed, forgotten, revived>>

DeleteRefCount(p) ==
    /\ ~revived
    /\ at[p] = "freeing"
    /\ freed' = TRUE
    /\ at' = [at EXCEPT ![p] = "null"]
    /\ UNCHANGED <<src, use_count, weak_count, deletes, forgotten, revived>>

SlipCopyWeak(w, q) ==  \* the count is not incremented
    /\ ~revived
    /\ at[w] = "null" /\ at[q] \in {"shared", "weak"}
    /\ at' = [at EXCEPT ![w] = "weak"]
    /\ UNCHANGED <<src, use_count, weak_count, deletes, freed, forgotten, revived>>

\* A WeakPtr from a SharedPtr or from another WeakPtr.
CopyWeak(w, q) ==
    /\ ~revived
    /\ at[w] = "null" /\ at[q] \in {"shared", "weak"}
    /\ weak_count' = weak_count + 1
    /\ at' = [at EXCEPT ![w] = "weak"]
    /\ UNCHANGED <<src, use_count, deletes, freed, forgotten, revived>>

\* WeakPtr::reset only forgets the RefCount.
ForgetWeak(w) ==
    /\ ~revived
    /\ at[w] = "weak" /\ Unread(w)
    /\ forgotten < MaxForgotten
    /\ forgotten' = forgotten + 1
    /\ at' = [at EXCEPT ![w] = "null"]
    /\ UNCHANGED <<src, use_count, weak_count, deletes, freed, revived>>

\* lock() constructs SharedPtr s from WeakPtr w: UseCount is read...
LockTest(s, w) ==
    /\ ~revived
    /\ at[s] = "null" /\ at[w] = "weak"
    /\ use_count # 0
    /\ at' = [at EXCEPT ![s] = "locking"]
    /\ src' = [src EXCEPT ![s] = w]
    /\ UNCHANGED <<use_count, weak_count, deletes, freed, forgotten, revived>>

SlipLockInc(s) ==  \* the count is not incremented
    /\ ~revived
    /\ at[s] = "locking"
    /\ at' = [at EXCEPT ![s] = "shared"]
    /\ src' = [src EXCEPT ![s] = None]
    /\ UNCHANGED <<use_count, weak_count, deletes, freed, forgotten, revived>>

\* ... and then incremented, whatever it has become.
LockInc(s) ==
    /\ ~revived
    /\ at[s] = "locking"
    /\ use_count' = use_count + 1
    /\ revived' = (use_count = 0)
    /\ at' = [at EXCEPT ![s] = "shared"]
    /\ src' = [src EXCEPT ![s] = None]
    /\ UNCHANGED <<weak_count, deletes, freed, forgotten>>

-----------------------------------------------------------------------------

Next ==
    \/ \E s, q \in Shareds : CopyShared(s, q) \/ Swap(s, q)
    \/ \E s \in Shareds : DecUseCount(s) \/ DeleteData(s) \/ LockInc(s)
    \/ \E p \in Ptrs : DecWeakCount(p) \/ DeleteRefCount(p)
    \/ \E w \in Weaks, q \in Ptrs : CopyWeak(w, q)
    \/ \E v, w \in Weaks : Swap(v, w)
    \/ \E w \in Weaks : ForgetWeak(w)
    \/ \E s \in Shareds, w \in Weaks : LockTest(s, w)

Spec == Init /\ [][Next]_vars

-----------------------------------------------------------------------------
(* Properties                                                              *)

In(state) == {p \in Ptrs : at[p] = state}

\* The thread that ended the sharing still has the weak count of all SharedPtrs.
Ending == In("deleting") \cup In("unweak")

\* use_count is the number of SharedPtrs, weak_count that of WeakPtrs, of forgotten
\* ones, and one for the SharedPtrs together until the object is deleted.
CountsExact ==
    ~revived => /\ use_count = Cardinality(In("shared"))
                /\ weak_count = Cardinality(In("weak")) + forgotten
                                + (IF In("shared") \cup Ending # {} THEN 1 ELSE 0)

\* The object outlives its last SharedPtr by nothing but its deletion: it is deleted
\* at most once, never while a SharedPtr refers to it, and always in the end.
DeletedOnce ==
    ~revived => /\ deletes <= 1
                /\ deletes = 1 => In("shared") \cup In("deleting") = {}
                /\ deletes = 0 => In("shared") \cup In("deleting") # {}

\* The RefCount is deleted once, after every pointer has let go of it, so no counter
\* is touched after its deletion; and it is deleted when nobody refers to it, unless
\* some WeakPtr was reset.
RefCountFreed ==
    ~revived => /\ freed => \A p \in Ptrs : at[p] = "null"
                /\ (\A p \in Ptrs : at[p] = "null") /\ forgotten = 0 => freed

\* A SharedPtr that lock() returned gives access to an object that has not been
\* deleted, whatever other threads do with their own SharedPtrs
\* (docs/smart_pointers.md:358).
LockIsSafe == In("shared") # {} => deletes = 0

=============================================================================
