------------------------------ MODULE Executor ------------------------------
(***************************************************************************)
(* What an IThreadPool promises to its callers, with no thread, lock or    *)
(* condition variable in sight: a submitted task waits in one FIFO queue,  *)
(* is started once, and, once started, finishes at most once.              *)
(***************************************************************************)
EXTENDS Sequences

CONSTANT Tasks      \* the std::function objects callers submit

VARIABLES pending,  \* accepted tasks not started yet, oldest first
          running,  \* tasks some thread is executing
          done      \* tasks whose execution has returned

vars == <<pending, running, done>>

-----------------------------------------------------------------------------

Known(t) == \/ \E i \in DOMAIN pending : pending[i] = t
            \/ t \in running \cup done

Init == pending = <<>> /\ running = {} /\ done = {}

Submit(t) == /\ ~Known(t)
             /\ pending' = Append(pending, t)
             /\ UNCHANGED <<running, done>>

Begin == /\ pending # <<>>
         /\ pending' = Tail(pending)
         /\ running' = running \cup {Head(pending)}
         /\ UNCHANGED done

Finish(t) == /\ t \in running
             /\ running' = running \ {t}
             /\ done' = done \cup {t}
             /\ UNCHANGED pending

Next == Begin \/ \E t \in Tasks : Submit(t) \/ Finish(t)

Spec == Init /\ [][Next]_vars

=============================================================================
