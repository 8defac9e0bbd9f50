----------------------------- MODULE ThreadPool -----------------------------
(***************************************************************************)
(* gtl::ThreadPool (thread/thread_pool.h, thread/thread_pool.cc): worker   *)
(* threads that take tasks from a queue guarded by mutex_ and cond_var_,   *)
(* callers that add tasks, and the owner that calls Start and Stop.        *)
(*                                                                         *)
(* AddTask reads threads_ and Stop writes stop_ without mutex_, so each of *)
(* these accesses is a step of its own.  A critical section that runs to   *)
(* its end without waiting is one step; the worker's is cut where it can   *)
(* be seen half-done: between the test of the predicate and what follows.  *)
(*                                                                         *)
(* Operators named Slip... are not part of the specification: each is a    *)
(* plausible mistake in the definition that follows it, which one of the   *)
(* properties must notice.                                                 *)
(***************************************************************************)
EXTENDS Naturals, Sequences, FiniteSets

CONSTANTS Workers,     \* thread identities pthread_create can hand out
          Producers,   \* callers of AddTask other than the tasks themselves
          Tasks,       \* the std::function objects submitted
          None,        \* no thread, no task
          MaxThreads,  \* bound: entries of threads_
          MaxSpurious  \* bound: wakeups nobody asked for

ASSUME PoolAssumption ==
    /\ None \notin Workers \cup Producers \cup Tasks
    /\ Workers \cap Producers = {}
    /\ MaxThreads \in Nat
    /\ MaxSpurious \in Nat

VARIABLES stop_,     \* std::atomic_bool stop_
          mutex_,    \* the worker that holds mutex_ between two steps, or None
          waiters,   \* threads blocked in pthread_cond_wait on cond_var_
          threads_,  \* Vector<Thread>: the thread of each handle, None if invalid
          tasks_,    \* Queue<std::function<void(void)>>, oldest first
          wpc,       \* where each worker is in Run
          func,      \* the task a worker has taken out of tasks_
          apc,       \* where each caller is in AddTask
          arg,       \* the task it is adding
          opc,       \* where the owner is in Start or Stop
          k,         \* its loop counter: threads left to start, or handle to join
          spurious,  \* spurious wakeups so far
          done,      \* history: tasks whose func() has returned
          early,     \* history: tasks queued while stop_ was false
          missed     \* history: workers between test and wait at the broadcast

workerVars  == <<wpc, func>>
callerVars  == <<apc, arg>>
ownerVars   == <<opc, k>>
historyVars == <<done, early, missed>>
vars == <<stop_, mutex_, waiters, threads_, tasks_, workerVars, callerVars,
          ownerVars, spurious, historyVars>>

Callers == Producers \cup Workers  \* a task may call AddTask on its own pool

QueuedTasks  == {tasks_[i] : i \in DOMAIN tasks_}
RunningTasks == {func[w] : w \in {v \in Workers : wpc[v] = "run"}}
Submitted(t) == \/ t \in QueuedTasks \cup RunningTasks \cup done
                \/ \E a \in Callers : apc[a] = "push" /\ arg[a] = t

TypeOK ==
    /\ stop_ \in BOOLEAN
    /\ mutex_ \in Workers \cup {None}
    /\ waiters \subseteq Workers
    /\ threads_ \in Seq(Workers \cup {None}) /\ Len(threads_) <= MaxThreads
    /\ tasks_ \in Seq(Tasks)
    /\ wpc \in [Workers -> {"unborn", "lock", "wait", "blocked", "take", "run", "exited"}]
    /\ func \in [Workers -> Tasks \cup {None}]
    /\ apc \in [Callers -> {"idle", "push", "signal"}]
    /\ arg \in [Callers -> Tasks \cup {None}]
    /\ opc \in {"idle", "spawn", "broadcast", "join"}
    /\ k \in Nat
    /\ spurious \in 0 .. MaxSpurious
    /\ done \subseteq Tasks /\ early \subseteq Tasks /\ missed \subseteq Workers

Init ==
    /\ stop_ = FALSE /\ mutex_ = None /\ waiters = {}
    /\ threads_ = <<>> /\ tasks_ = <<>>
    /\ wpc = [w \in Workers |-> "unborn"] /\ func = [w \in Workers |-> None]
    /\ apc = [a \in Callers |-> "idle"] /\ arg = [a \in Callers |-> None]
    /\ opc = "idle" /\ k = 0 /\ spurious = 0
    /\ done = {} /\ early = {} /\ missed = {}

-----------------------------------------------------------------------------
(* The owner: Start, Stop and the destructor, which calls Stop.            *)

\* Start(thread_count): the loop starts k more threads, one step each.
Start ==
    /\ opc = "idle"
    /\ \E n \in 1 .. MaxThreads - Len(threads_) : k' = n
    /\ opc' = "spawn"
    /\ UNCHANGED <<stop_, mutex_, waiters, threads_, tasks_, workerVars, callerVars,
                   spurious, historyVars>>

SlipSpawnLoop == opc = "spawn" /\ k' = k - 1 /\ opc' = IF k = 0 THEN "idle" ELSE "spawn"

SpawnLoop == /\ opc = "spawn"
             /\ k' = k - 1
             /\ opc' = IF k = 1 THEN "idle" ELSE "spawn"

\* emplace_back starts the thread, which runs from here on.
SpawnThread(w) ==
    /\ SpawnLoop
    /\ wpc[w] = "unborn"
    /\ threads_' = Append(threads_, w)
    /\ wpc' = [wpc EXCEPT ![w] = "lock"]
    /\ UNCHANGED <<stop_, mutex_, waiters, tasks_, func, callerVars, spurious, historyVars>>

\* pthread_create fails: the handle is in threads_ all the same, with valid_
\* false, and Start goes on and returns true.
SpawnFails ==
    /\ SpawnLoop
    /\ threads_' = Append(threads_, None)
    /\ UNCHANGED <<stop_, mutex_, waiters, tasks_, workerVars, callerVars, spurious,
                   historyVars>>

\* Stop, past its early return: when stop_ is already set the call does nothing.
StopBegin ==
    /\ opc = "idle" /\ ~stop_
    /\ stop_' = TRUE
    /\ opc' = "broadcast"
    /\ UNCHANGED <<mutex_, waiters, threads_, tasks_, workerVars, callerVars, k,
                   spurious, historyVars>>

SlipStopBroadcast ==  \* Signal instead of Broadcast
    /\ opc = "broadcast"
    /\ \/ /\ waiters = {} /\ UNCHANGED <<waiters, wpc>>
       \/ \E w \in waiters : /\ waiters' = waiters \ {w}
                             /\ wpc' = [wpc EXCEPT ![w] = "lock"]
    /\ missed' = {w \in Workers : wpc[w] = "wait"}
    /\ opc' = "join" /\ k' = 1
    /\ UNCHANGED <<stop_, mutex_, threads_, tasks_, func, callerVars, spurious, done, early>>

StopBroadcast ==
    /\ opc = "broadcast"
    /\ waiters' = {}
    /\ wpc' = [w \in Workers |-> IF w \in waiters THEN "lock" ELSE wpc[w]]
    /\ missed' = {w \in Workers : wpc[w] = "wait"}
    /\ opc' = "join" /\ k' = 1
    /\ UNCHANGED <<stop_, mutex_, threads_, tasks_, func, callerVars, spurious, done, early>>

SlipStopJoin ==
    /\ opc = "join" /\ k <= Len(threads_)
    /\ k' = k + 1
    /\ UNCHANGED <<stop_, mutex_, waiters, threads_, tasks_, workerVars, callerVars, opc,
                   spurious, historyVars>>

\* Join returns at once on an invalid handle and otherwise when the thread ended.
StopJoin ==
    /\ opc = "join" /\ k <= Len(threads_)
    /\ threads_[k] # None => wpc[threads_[k]] = "exited"
    /\ k' = k + 1
    /\ UNCHANGED <<stop_, mutex_, waiters, threads_, tasks_, workerVars, callerVars, opc,
                   spurious, historyVars>>

StopReturn ==
    /\ opc = "join" /\ k > Len(threads_)
    /\ threads_' = <<>>
    /\ opc' = "idle"
    /\ UNCHANGED <<stop_, mutex_, waiters, tasks_, workerVars, callerVars, k, spurious,
                   historyVars>>

-----------------------------------------------------------------------------
(* A caller: AddTask, from a producer thread or from inside a task.        *)

MayCall(a) == /\ apc[a] = "idle"
              /\ a \in Workers => wpc[a] = "run"

\* threads_.empty() is read without mutex_; when it holds AddTask returns false
\* and nothing changes.
AddTaskBegin(a, t) ==
    /\ MayCall(a)
    /\ ~Submitted(t)
    /\ threads_ # <<>>
    /\ apc' = [apc EXCEPT ![a] = "push"]
    /\ arg' = [arg EXCEPT ![a] = t]
    /\ UNCHANGED <<stop_, mutex_, waiters, threads_, tasks_, workerVars, ownerVars,
                   spurious, historyVars>>

\* Lock, emplace, Unlock: stop_ is not looked at.
AddTaskPush(a) ==
    /\ apc[a] = "push" /\ mutex_ = None
    /\ tasks_' = Append(tasks_, arg[a])
    /\ early' = IF stop_ THEN early ELSE early \cup {arg[a]}
    /\ apc' = [apc EXCEPT ![a] = "signal"]
    /\ UNCHANGED <<stop_, mutex_, waiters, threads_, workerVars, arg, ownerVars, spurious,
                   done, missed>>

SlipAddTaskSignal(a) ==  \* the signal is forgotten
    /\ apc[a] = "signal"
    /\ apc' = [apc EXCEPT ![a] = "idle"]
    /\ arg' = [arg EXCEPT ![a] = None]
    /\ UNCHANGED <<stop_, mutex_, waiters, threads_, tasks_, workerVars, ownerVars, spurious,
                   historyVars>>

\* Signal, after the unlock, wakes one waiter if there is one.
AddTaskSignal(a) ==
    /\ apc[a] = "signal"
    /\ \/ /\ waiters = {}
          /\ UNCHANGED <<waiters, wpc>>
       \/ \E w \in waiters : /\ waiters' = waiters \ {w}
                             /\ wpc' = [wpc EXCEPT ![w] = "lock"]
    /\ apc' = [apc EXCEPT ![a] = "idle"]
    /\ arg' = [arg EXCEPT ![a] = None]
    /\ UNCHANGED <<stop_, mutex_, threads_, tasks_, func, ownerVars, spurious, historyVars>>

-----------------------------------------------------------------------------
(* A worker: ThreadPool::Run.                                              *)

Ready == tasks_ # <<>> \/ stop_   \* the predicate of cond_var_.Wait

SlipRunTest(w) ==  \* the predicate is evaluated, mutex_ is not kept
    /\ wpc[w] = "lock" /\ mutex_ = None
    /\ wpc' = [wpc EXCEPT ![w] = IF Ready THEN "take" ELSE "wait"]
    /\ UNCHANGED <<stop_, mutex_, waiters, threads_, tasks_, func, callerVars, ownerVars,
                   spurious, historyVars>>

\* mutex_ is acquired, on entry or inside pthread_cond_wait, and the predicate
\* evaluated.
RunTest(w) ==
    /\ wpc[w] = "lock" /\ mutex_ = None
    /\ mutex_' = w
    /\ wpc' = [wpc EXCEPT ![w] = IF Ready THEN "take" ELSE "wait"]
    /\ UNCHANGED <<stop_, waiters, threads_, tasks_, func, callerVars, ownerVars, spurious,
                   historyVars>>

\* pthread_cond_wait releases mutex_ and enlists the thread in one step.
RunWait(w) ==
    /\ wpc[w] = "wait"
    /\ mutex_' = None
    /\ waiters' = waiters \cup {w}
    /\ wpc' = [wpc EXCEPT ![w] = "blocked"]
    /\ UNCHANGED <<stop_, threads_, tasks_, func, callerVars, ownerVars, spurious, historyVars>>

\* pthread_cond_wait may return although nobody signalled.
SpuriousWakeup(w) ==
    /\ w \in waiters /\ spurious < MaxSpurious
    /\ spurious' = spurious + 1
    /\ waiters' = waiters \ {w}
    /\ wpc' = [wpc EXCEPT ![w] = "lock"]
    /\ UNCHANGED <<stop_, mutex_, threads_, tasks_, func, callerVars, ownerVars, historyVars>>

SlipRunExit(w) ==  \* the worker leaves although tasks are queued
    /\ wpc[w] = "take" /\ stop_
    /\ mutex_' = None
    /\ wpc' = [wpc EXCEPT ![w] = "exited"]
    /\ UNCHANGED <<stop_, waiters, threads_, tasks_, func, callerVars, ownerVars, spurious,
                   historyVars>>

RunExit(w) ==
    /\ wpc[w] = "take" /\ stop_ /\ tasks_ = <<>>
    /\ mutex_' = None
    /\ wpc' = [wpc EXCEPT ![w] = "exited"]
    /\ UNCHANGED <<stop_, waiters, threads_, tasks_, func, callerVars, ownerVars, spurious,
                   historyVars>>

SlipRunTake(w) ==  \* the task stays in the queue
    /\ wpc[w] = "take" /\ tasks_ # <<>>
    /\ func' = [func EXCEPT ![w] = Head(tasks_)]
    /\ mutex_' = None
    /\ wpc' = [wpc EXCEPT ![w] = "run"]
    /\ UNCHANGED <<stop_, waiters, threads_, tasks_, callerVars, ownerVars, spurious,
                   historyVars>>

RunTake(w) ==
    /\ wpc[w] = "take" /\ ~(stop_ /\ tasks_ = <<>>)
    /\ func' = [func EXCEPT ![w] = Head(tasks_)]
    /\ tasks_' = Tail(tasks_)
    /\ mutex_' = None
    /\ wpc' = [wpc EXCEPT ![w] = "run"]
    /\ UNCHANGED <<stop_, waiters, threads_, callerVars, ownerVars, spurious, historyVars>>

\* func() returns, with no AddTask of its own under way.
RunFinish(w) ==
    /\ wpc[w] = "run" /\ apc[w] = "idle"
    /\ done' = done \cup {func[w]}
    /\ func' = [func EXCEPT ![w] = None]
    /\ wpc' = [wpc EXCEPT ![w] = "lock"]
    /\ UNCHANGED <<stop_, mutex_, waiters, threads_, tasks_, callerVars, ownerVars, spurious,
                   early, missed>>

-----------------------------------------------------------------------------

OwnerStep == \/ SpawnFails \/ \E w \in Workers : SpawnThread(w)
             \/ StopBroadcast \/ StopJoin \/ StopReturn
CallerStep(a) == AddTaskPush(a) \/ AddTaskSignal(a)
WorkerStep(w) == RunTest(w) \/ RunWait(w) \/ RunExit(w) \/ RunTake(w) \/ RunFinish(w)

Next ==
    \/ Start \/ StopBegin \/ OwnerStep
    \/ \E a \in Callers, t \in Tasks : AddTaskBegin(a, t)
    \/ \E a \in Callers : CallerStep(a)
    \/ \E w \in Workers : WorkerStep(w) \/ SpuriousWakeup(w)

Spec == Init /\ [][Next]_vars

\* The scheduler runs every thread that can run and tasks terminate.  Nobody is
\* obliged to call Start, Stop or AddTask, and no wakeup is owed without a signal.
Fairness == /\ WF_vars(OwnerStep)
            /\ \A a \in Callers : WF_vars(CallerStep(a))
            /\ \A w \in Workers : WF_vars(WorkerStep(w))

FairSpec == Spec /\ Fairness

-----------------------------------------------------------------------------
(* Properties                                                              *)

Created == {w \in Workers : wpc[w] # "unborn"}

\* A thread that has not left Run has a handle in threads_, so the Stop that
\* empties threads_ leaves no thread behind (the join loop of Stop).
RunningIsJoinable ==
    \A w \in Created : wpc[w] # "exited" => \E i \in DOMAIN threads_ : threads_[i] = w

\* When Stop has returned, every task queued before stop_ was set has been
\* executed to its end, unless no thread could be created at all: workers drain
\* tasks_ before they leave Run.
DrainedOnStop ==
    (stop_ /\ opc = "idle" /\ threads_ = <<>> /\ Created # {}) => early \subseteq done

\* The worker past the wait finds a task or the order to stop: no other thread
\* can take the task between the test and tasks_.front().
FrontIsDefined ==
    \A w \in Workers : wpc[w] = "take" => (tasks_ # <<>> \/ stop_)

\* The pool implements the FIFO executor that runs every task at most once.
Abstract == INSTANCE Executor WITH pending <- tasks_, running <- RunningTasks, done <- done
ImplementsExecutor == Abstract!Spec

\* A task queued before stop_ is set is executed as soon as one thread could be
\* created, whatever Stop does meanwhile: no signal of AddTask is lost.
EarlyTasksRun == \A t \in Tasks : (t \in early /\ Created # {}) ~> t \in done

\* Stop returns unless a worker was between its test of the predicate and
\* pthread_cond_wait when Stop, which does not take mutex_, broadcast.
StopReturnsUnlessMissed == (opc = "join" /\ missed = {}) ~> (opc = "idle")

\* Stop returns (examples/thread/thread_pool.cc:24 reports "stop done" after it).
StopReturns == (opc = "broadcast") ~> (opc = "idle")

=============================================================================
