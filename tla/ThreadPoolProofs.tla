-------------------------- MODULE ThreadPoolProofs --------------------------
(***************************************************************************)
(* Safety of ThreadPool for every number of workers, callers and tasks.    *)
(*                                                                         *)
(* Inv is the inductive invariant.  TypeOK is not inductive alone (what is *)
(* appended to tasks_ is arg[a], what StopJoin joins is threads_[k]), and  *)
(* DrainedOnStop says nothing before Stop returns; Inv adds who holds      *)
(* mutex_, where every early task is, and that a worker leaves only when   *)
(* no early task is queued any more.                                       *)
(***************************************************************************)
EXTENDS ThreadPool, SequenceTheorems, TLAPS

\* Calls under way hold the arguments they were made with.
CallsOK == /\ \A a \in Callers : apc[a] = "push" => arg[a] \in Tasks
           /\ \A w \in Workers : wpc[w] = "run" => func[w] \in Tasks
           /\ opc = "spawn" => k >= 1 /\ Len(threads_) + k <= MaxThreads
           /\ opc = "join" => k >= 1
           /\ opc \in {"broadcast", "join"} => stop_

\* mutex_ is held across steps by the worker past its test, and by no other.
HolderOK == \A w \in Workers : wpc[w] \in {"wait", "take"} => mutex_ = w

\* The threads in the wait set are the blocked ones.
WaitersOK == \A w \in waiters : wpc[w] = "blocked"

\* The handles the join loop has passed belong to threads that ended.
JoinedOK == opc = "join" =>
               \A i \in DOMAIN threads_ :
                  i < k /\ threads_[i] # None => wpc[threads_[i]] = "exited"

\* No early task is dropped, and none is queued once a worker has left Run.
EarlyOK == /\ early \subseteq QueuedTasks \cup RunningTasks \cup done
           /\ \A w \in Workers : wpc[w] = "exited" => stop_ /\ early \subseteq RunningTasks \cup done

Inv == /\ TypeOK /\ CallsOK /\ HolderOK /\ WaitersOK
       /\ RunningIsJoinable /\ JoinedOK /\ EarlyOK /\ FrontIsDefined

-----------------------------------------------------------------------------

Elements(s) == {s[i] : i \in DOMAIN s}

\* The elements of a sequence after an append.
LEMMA AppendElements ==
    ASSUME NEW S, NEW s \in Seq(S), NEW e \in S
    PROVE  Elements(Append(s, e)) = Elements(s) \cup {e}
<1>. DEFINE t == Append(s, e)
<1>1. /\ DOMAIN t = 1 .. Len(s) + 1
      /\ DOMAIN s = 1 .. Len(s)
      /\ Len(s) \in Nat
      /\ t[Len(s) + 1] = e
      /\ \A i \in 1 .. Len(s) : t[i] = s[i]
  BY AppendProperties, LenProperties
<1>2. ASSUME NEW i \in DOMAIN t PROVE t[i] \in {s[j] : j \in DOMAIN s} \cup {e}
  <2>1. CASE i = Len(s) + 1
    BY <1>1, <2>1
  <2>2. CASE i \in 1 .. Len(s)
    BY <1>1, <2>2
  <2>. QED
    BY <1>1, <2>1, <2>2
<1>3. ASSUME NEW j \in DOMAIN s PROVE s[j] \in {t[i] : i \in DOMAIN t}
  <2>1. j \in DOMAIN t /\ t[j] = s[j]
    BY <1>1
  <2>. QED
    BY <2>1
<1>4. e \in {t[i] : i \in DOMAIN t}
  <2>1. Len(s) + 1 \in DOMAIN t
    BY <1>1
  <2>. QED
    BY <1>1, <2>1
<1>. HIDE DEF t
<1>. QED
  BY <1>2, <1>3, <1>4 DEF t, Elements

\* The elements of a non-empty sequence: its head and those of its tail.
LEMMA TailElements ==
    ASSUME NEW S, NEW s \in Seq(S), s # <<>>
    PROVE  Elements(s) = {Head(s)} \cup Elements(Tail(s))
<1>. DEFINE t == Tail(s)
<1>1. /\ DOMAIN s = 1 .. Len(s) /\ Len(s) \in Nat \ {0}
      /\ Head(s) = s[1]
      /\ DOMAIN t = 1 .. Len(s) - 1
      /\ \A i \in 1 .. Len(s) - 1 : t[i] = s[i + 1]
  BY HeadTailProperties, EmptySeq, LenProperties
<1>2. ASSUME NEW i \in DOMAIN s PROVE s[i] \in {Head(s)} \cup {t[j] : j \in DOMAIN t}
  <2>1. CASE i = 1
    BY <1>1, <2>1
  <2>2. CASE i # 1
    <3>1. i - 1 \in DOMAIN t /\ t[i - 1] = s[i]
      BY <1>1, <2>2
    <3>. QED
      BY <3>1
  <2>. QED
    BY <2>1, <2>2
<1>3. ASSUME NEW j \in DOMAIN t PROVE t[j] \in {s[i] : i \in DOMAIN s}
  <2>1. j + 1 \in DOMAIN s /\ t[j] = s[j + 1]
    BY <1>1
  <2>. QED
    BY <2>1
<1>4. Head(s) \in {s[i] : i \in DOMAIN s}
  <2>1. 1 \in DOMAIN s
    BY <1>1
  <2>. QED
    BY <1>1, <2>1
<1>. HIDE DEF t
<1>. QED
  BY <1>2, <1>3, <1>4 DEF t, Elements

-----------------------------------------------------------------------------

LEMMA InitInv == Init => Inv
<1>. SUFFICES ASSUME Init PROVE Inv
  OBVIOUS
<1>. USE DEF Init
<1>1. TypeOK
  <2>1. threads_ \in Seq(Workers \cup {None}) /\ tasks_ \in Seq(Tasks) /\ Len(threads_) = 0
    OBVIOUS
  <2>2. Len(threads_) <= MaxThreads /\ spurious \in 0 .. MaxSpurious
    BY <2>1, PoolAssumption
  <2>3. /\ wpc \in [Workers -> {"unborn", "lock", "wait", "blocked", "take", "run", "exited"}]
        /\ func \in [Workers -> Tasks \cup {None}]
        /\ apc \in [Callers -> {"idle", "push", "signal"}]
        /\ arg \in [Callers -> Tasks \cup {None}]
    OBVIOUS
  <2>4. k \in Nat
    OBVIOUS
  <2>. QED
    BY <2>1, <2>2, <2>3, <2>4, Zenon DEF TypeOK
<1>2. CallsOK /\ HolderOK /\ WaitersOK /\ JoinedOK /\ FrontIsDefined
  BY DEF CallsOK, HolderOK, WaitersOK, JoinedOK, FrontIsDefined
<1>3. RunningIsJoinable /\ EarlyOK
  BY DEF RunningIsJoinable, Created, EarlyOK
<1>. QED
  BY <1>1, <1>2, <1>3 DEF Inv

\* The steps of owner, callers and workers that move no task and end no thread
\* leave every early task where it is.
LEMMA EarlyUntouched ==
    ASSUME EarlyOK, UNCHANGED <<tasks_, func, done, early>>, stop_ => stop_',
           \A w \in Workers : wpc'[w] = "run" <=> wpc[w] = "run",
           \A w \in Workers : wpc'[w] = "exited" => wpc[w] = "exited"
    PROVE  EarlyOK'
<1>1. QueuedTasks' = QueuedTasks
  BY DEF QueuedTasks
<1>2. RunningTasks' = RunningTasks
  <2>1. {v \in Workers : wpc'[v] = "run"} = {v \in Workers : wpc[v] = "run"}
    OBVIOUS
  <2>. QED
    BY <2>1, Zenon DEF RunningTasks
<1>. QED
  BY <1>1, <1>2, Zenon DEF EarlyOK

-----------------------------------------------------------------------------

LEMMA OwnerInv ==
    ASSUME Inv, Start \/ StopBegin \/ OwnerStep PROVE Inv'
<1>. USE PoolAssumption DEF Inv
<1>1. CASE Start
  <2>. USE <1>1 DEF Start
  <2>1. TypeOK'
    BY DEF TypeOK, workerVars, callerVars, historyVars
  <2>2. CallsOK'
    BY DEF TypeOK, CallsOK, workerVars, callerVars
  <2>3. (HolderOK /\ WaitersOK /\ RunningIsJoinable /\ JoinedOK /\ FrontIsDefined)'
    BY DEF HolderOK, WaitersOK, RunningIsJoinable, JoinedOK, FrontIsDefined, Created, workerVars
  <2>4. EarlyOK'
    BY EarlyUntouched DEF workerVars, historyVars
  <2>. QED
    BY <2>1, <2>2, <2>3, <2>4
<1>2. CASE StopBegin
  <2>. USE <1>2 DEF StopBegin
  <2>1. TypeOK'
    BY DEF TypeOK, workerVars, callerVars, historyVars
  <2>2. CallsOK'
    BY DEF CallsOK, workerVars, callerVars
  <2>3. (HolderOK /\ WaitersOK /\ RunningIsJoinable /\ JoinedOK /\ FrontIsDefined)'
    BY DEF HolderOK, WaitersOK, RunningIsJoinable, JoinedOK, FrontIsDefined, Created, workerVars
  <2>4. EarlyOK'
    BY EarlyUntouched DEF workerVars, historyVars
  <2>. QED
    BY <2>1, <2>2, <2>3, <2>4
<1>3. ASSUME NEW w \in Workers, SpawnThread(w) PROVE Inv'
  <2>. USE <1>3 DEF SpawnThread, SpawnLoop
  <2>0. /\ threads_' \in Seq(Workers \cup {None})
        /\ DOMAIN threads_ = 1 .. Len(threads_) /\ Len(threads_) \in Nat
        /\ Len(threads_') = Len(threads_) + 1
        /\ DOMAIN threads_' = 1 .. Len(threads_) + 1
        /\ threads_'[Len(threads_) + 1] = w
        /\ \A i \in 1 .. Len(threads_) : threads_'[i] = threads_[i]
    BY AppendProperties, LenProperties DEF TypeOK
  <2>1. TypeOK'
    BY <2>0 DEF TypeOK, CallsOK, callerVars, historyVars
  <2>2. CallsOK'
    BY <2>0 DEF TypeOK, CallsOK, callerVars
  <2>3. (HolderOK /\ WaitersOK /\ JoinedOK /\ FrontIsDefined)'
    BY DEF TypeOK, HolderOK, WaitersOK, JoinedOK, FrontIsDefined
  <2>4. RunningIsJoinable'
    <3>. SUFFICES ASSUME NEW v \in Workers, wpc'[v] # "unborn", wpc'[v] # "exited"
                  PROVE  \E i \in DOMAIN threads_' : threads_'[i] = v
      BY DEF RunningIsJoinable, Created
    <3>1. CASE v = w
      <4>1. Len(threads_) + 1 \in DOMAIN threads_'
        BY <2>0
      <4>. QED
        BY <2>0, <3>1, <4>1
    <3>2. CASE v # w
      <4>1. PICK i \in DOMAIN threads_ : threads_[i] = v
        BY <3>2 DEF TypeOK, RunningIsJoinable, Created
      <4>. QED
        BY <2>0, <4>1
    <3>. QED
      BY <3>1, <3>2
  <2>5. EarlyOK'
    BY EarlyUntouched DEF TypeOK, historyVars
  <2>. QED
    BY <2>1, <2>2, <2>3, <2>4, <2>5
<1>4. CASE SpawnFails
  <2>. USE <1>4 DEF SpawnFails, SpawnLoop
  <2>0. /\ threads_' \in Seq(Workers \cup {None})
        /\ DOMAIN threads_ = 1 .. Len(threads_) /\ Len(threads_) \in Nat
        /\ Len(threads_') = Len(threads_) + 1
        /\ DOMAIN threads_' = 1 .. Len(threads_) + 1
        /\ \A i \in 1 .. Len(threads_) : threads_'[i] = threads_[i]
    BY AppendProperties, LenProperties DEF TypeOK
  <2>1. TypeOK'
    BY <2>0 DEF TypeOK, CallsOK, workerVars, callerVars, historyVars
  <2>2. CallsOK'
    BY <2>0 DEF TypeOK, CallsOK, workerVars, callerVars
  <2>3. (HolderOK /\ WaitersOK /\ JoinedOK /\ FrontIsDefined)'
    BY DEF HolderOK, WaitersOK, JoinedOK, FrontIsDefined, workerVars
  <2>4. RunningIsJoinable'
    <3>. SUFFICES ASSUME NEW v \in Workers, wpc[v] # "unborn", wpc[v] # "exited"
                  PROVE  \E i \in DOMAIN threads_' : threads_'[i] = v
      BY DEF RunningIsJoinable, Created, workerVars
    <3>1. PICK i \in DOMAIN threads_ : threads_[i] = v
      BY DEF RunningIsJoinable, Created
    <3>. QED
      BY <2>0, <3>1
  <2>5. EarlyOK'
    BY EarlyUntouched DEF workerVars, historyVars
  <2>. QED
    BY <2>1, <2>2, <2>3, <2>4, <2>5
<1>5. CASE StopBroadcast
  <2>. USE <1>5 DEF StopBroadcast
  <2>1. TypeOK'
    BY DEF TypeOK, callerVars
  <2>2. CallsOK'
    BY DEF TypeOK, CallsOK, callerVars
  <2>3. (HolderOK /\ WaitersOK /\ JoinedOK /\ FrontIsDefined)'
    BY DEF TypeOK, HolderOK, WaitersOK, JoinedOK, FrontIsDefined
  <2>4. RunningIsJoinable'
    BY DEF TypeOK, WaitersOK, RunningIsJoinable, Created
  <2>5. EarlyOK'
    BY EarlyUntouched DEF TypeOK, WaitersOK
  <2>. QED
    BY <2>1, <2>2, <2>3, <2>4, <2>5
<1>6. CASE StopJoin
  <2>. USE <1>6 DEF StopJoin
  <2>1. TypeOK'
    BY DEF TypeOK, workerVars, callerVars, historyVars
  <2>2. CallsOK'
    BY DEF TypeOK, CallsOK, workerVars, callerVars
  <2>3. (HolderOK /\ WaitersOK /\ RunningIsJoinable /\ FrontIsDefined)'
    BY DEF HolderOK, WaitersOK, RunningIsJoinable, FrontIsDefined, Created, workerVars
  <2>4. JoinedOK'
    <3>1. \A i \in DOMAIN threads_ : i \in Nat
      BY LenProperties DEF TypeOK
    <3>2. \A i \in DOMAIN threads_ : i < k + 1 => i < k \/ i = k
      BY <3>1 DEF TypeOK
    <3>. QED
      BY <3>2 DEF JoinedOK, workerVars
  <2>5. EarlyOK'
    BY EarlyUntouched DEF workerVars, historyVars
  <2>. QED
    BY <2>1, <2>2, <2>3, <2>4, <2>5
<1>7. CASE StopReturn
  <2>. USE <1>7 DEF StopReturn
  <2>1. TypeOK'
    <3>1. threads_' \in Seq(Workers \cup {None}) /\ Len(threads_') = 0
      OBVIOUS
    <3>. QED
      BY <3>1 DEF TypeOK, workerVars, callerVars, historyVars
  <2>2. (CallsOK /\ HolderOK /\ WaitersOK /\ JoinedOK /\ FrontIsDefined)'
    BY DEF CallsOK, HolderOK, WaitersOK, JoinedOK, FrontIsDefined, workerVars, callerVars
  <2>3. RunningIsJoinable'
    <3>1. \A i \in DOMAIN threads_ : i < k
      BY LenProperties DEF TypeOK
    <3>2. \A w \in Created : wpc[w] = "exited"
      BY <3>1 DEF RunningIsJoinable, JoinedOK, Created
    <3>. QED
      BY <3>2 DEF RunningIsJoinable, Created, workerVars
  <2>4. EarlyOK'
    BY EarlyUntouched DEF workerVars, historyVars
  <2>. QED
    BY <2>1, <2>2, <2>3, <2>4
<1>. QED
  BY <1>1, <1>2, <1>3, <1>4, <1>5, <1>6, <1>7 DEF OwnerStep

LEMMA CallerInv ==
    ASSUME Inv, NEW a \in Callers,
           CallerStep(a) \/ \E t \in Tasks : AddTaskBegin(a, t)
    PROVE  Inv'
<1>. USE PoolAssumption DEF Inv
<1>1. ASSUME NEW t \in Tasks, AddTaskBegin(a, t) PROVE Inv'
  <2>. USE <1>1 DEF AddTaskBegin
  <2>1. TypeOK'
    BY DEF TypeOK, workerVars, ownerVars, historyVars
  <2>2. CallsOK'
    BY DEF TypeOK, CallsOK, workerVars, ownerVars
  <2>3. (HolderOK /\ WaitersOK /\ RunningIsJoinable /\ JoinedOK /\ FrontIsDefined)'
    BY DEF HolderOK, WaitersOK, RunningIsJoinable, JoinedOK, FrontIsDefined, Created,
           workerVars, ownerVars
  <2>4. EarlyOK'
    BY EarlyUntouched DEF workerVars, historyVars
  <2>. QED
    BY <2>1, <2>2, <2>3, <2>4
<1>2. CASE AddTaskPush(a)
  <2>. USE <1>2 DEF AddTaskPush
  <2>0. arg[a] \in Tasks
    BY DEF CallsOK
  <2>1. TypeOK'
    <3>1. tasks_' \in Seq(Tasks)
      BY <2>0, AppendProperties DEF TypeOK
    <3>2. early' \subseteq Tasks
      BY <2>0 DEF TypeOK
    <3>. QED
      BY <3>1, <3>2 DEF TypeOK, workerVars, ownerVars
  <2>2. CallsOK'
    BY DEF TypeOK, CallsOK, workerVars, ownerVars
  <2>3. (HolderOK /\ WaitersOK /\ RunningIsJoinable /\ JoinedOK)'
    BY DEF HolderOK, WaitersOK, RunningIsJoinable, JoinedOK, Created, workerVars, ownerVars
  <2>4. FrontIsDefined'
    BY <2>0, AppendProperties DEF TypeOK, FrontIsDefined, workerVars
  <2>5. EarlyOK'
    <3>1. QueuedTasks' = QueuedTasks \cup {arg[a]}
      <4>1. tasks_ \in Seq(Tasks) /\ tasks_' = Append(tasks_, arg[a])
        BY DEF TypeOK
      <4>2. Elements(tasks_') = Elements(tasks_) \cup {arg[a]}
        BY <2>0, <4>1, AppendElements
      <4>. QED
        BY <4>2, Zenon DEF QueuedTasks, Elements
    <3>2. RunningTasks' = RunningTasks /\ done' = done
      BY Zenon DEF RunningTasks, workerVars
    <3>3. early' \subseteq QueuedTasks' \cup RunningTasks' \cup done'
      BY <3>1, <3>2 DEF EarlyOK
    <3>4. ASSUME NEW w \in Workers, wpc'[w] = "exited"
          PROVE  stop_' /\ early' \subseteq RunningTasks' \cup done'
      <4>1. stop_ /\ early \subseteq RunningTasks \cup done
        BY <3>4 DEF EarlyOK, workerVars
      <4>2. early' = early /\ stop_' = stop_
        BY <4>1
      <4>3. early' \subseteq RunningTasks' \cup done'
        BY <3>2, <4>1, <4>2
      <4>. QED
        BY <4>1, <4>2, <4>3
    <3>. QED
      BY <3>3, <3>4, Zenon DEF EarlyOK
  <2>. QED
    BY <2>1, <2>2, <2>3, <2>4, <2>5
<1>3. CASE AddTaskSignal(a)
  <2>. USE <1>3 DEF AddTaskSignal
  \* Either nothing is woken, or one thread that was blocked.
  <2>0. \A w \in Workers : \/ wpc'[w] = wpc[w] /\ (w \in waiters' <=> w \in waiters)
                           \/ wpc[w] = "blocked" /\ wpc'[w] = "lock" /\ w \notin waiters'
    BY DEF TypeOK, WaitersOK
  <2>1. TypeOK'
    BY DEF TypeOK, ownerVars, historyVars
  <2>2. CallsOK'
    BY <2>0 DEF TypeOK, CallsOK, ownerVars
  <2>3. (HolderOK /\ WaitersOK /\ FrontIsDefined)'
    BY <2>0, <2>1 DEF TypeOK, HolderOK, WaitersOK, FrontIsDefined
  <2>4. RunningIsJoinable'
    BY <2>0 DEF RunningIsJoinable, Created
  <2>5. JoinedOK'
    BY <2>0 DEF TypeOK, JoinedOK, ownerVars
  <2>6. EarlyOK'
    BY <2>0, EarlyUntouched DEF historyVars
  <2>. QED
    BY <2>1, <2>2, <2>3, <2>4, <2>5, <2>6
<1>. QED
  BY <1>1, <1>2, <1>3 DEF CallerStep

LEMMA WorkerInv ==
    ASSUME Inv, NEW w \in Workers, WorkerStep(w) \/ SpuriousWakeup(w) PROVE Inv'
<1>. USE PoolAssumption DEF Inv
<1>1. CASE RunTest(w)
  <2>. USE <1>1 DEF RunTest
  <2>1. TypeOK'
    BY DEF TypeOK, callerVars, ownerVars, historyVars
  <2>2. CallsOK'
    BY DEF TypeOK, CallsOK, callerVars, ownerVars
  <2>3. (HolderOK /\ WaitersOK /\ RunningIsJoinable /\ JoinedOK)'
    BY DEF TypeOK, HolderOK, WaitersOK, RunningIsJoinable, JoinedOK, Created, ownerVars
  <2>4. FrontIsDefined'
    BY DEF TypeOK, FrontIsDefined, Ready
  <2>5. EarlyOK'
    BY EarlyUntouched DEF TypeOK, historyVars
  <2>. QED
    BY <2>1, <2>2, <2>3, <2>4, <2>5
<1>2. CASE RunWait(w)
  <2>. USE <1>2 DEF RunWait
  <2>1. TypeOK'
    BY DEF TypeOK, callerVars, ownerVars, historyVars
  <2>2. CallsOK'
    BY DEF TypeOK, CallsOK, callerVars, ownerVars
  <2>3. (HolderOK /\ WaitersOK /\ RunningIsJoinable /\ JoinedOK /\ FrontIsDefined)'
    BY DEF TypeOK, HolderOK, WaitersOK, RunningIsJoinable, JoinedOK, FrontIsDefined,
           Created, ownerVars
  <2>4. EarlyOK'
    BY EarlyUntouched DEF TypeOK, historyVars
  <2>. QED
    BY <2>1, <2>2, <2>3, <2>4
<1>3. CASE SpuriousWakeup(w)
  <2>. USE <1>3 DEF SpuriousWakeup
  <2>0. wpc[w] = "blocked"
    BY DEF WaitersOK
  <2>1. TypeOK'
    BY DEF TypeOK, callerVars, ownerVars, historyVars
  <2>2. CallsOK'
    BY DEF TypeOK, CallsOK, callerVars, ownerVars
  <2>3. (HolderOK /\ WaitersOK /\ RunningIsJoinable /\ JoinedOK /\ FrontIsDefined)'
    BY <2>0 DEF TypeOK, HolderOK, WaitersOK, RunningIsJoinable, JoinedOK, FrontIsDefined,
                Created, ownerVars
  <2>4. EarlyOK'
    BY <2>0, EarlyUntouched DEF TypeOK, historyVars
  <2>. QED
    BY <2>1, <2>2, <2>3, <2>4
<1>4. CASE RunExit(w)
  <2>. USE <1>4 DEF RunExit
  <2>1. TypeOK'
    BY DEF TypeOK, callerVars, ownerVars, historyVars
  <2>2. CallsOK'
    BY DEF TypeOK, CallsOK, callerVars, ownerVars
  <2>3. (HolderOK /\ WaitersOK /\ RunningIsJoinable /\ JoinedOK /\ FrontIsDefined)'
    BY DEF TypeOK, HolderOK, WaitersOK, RunningIsJoinable, JoinedOK, FrontIsDefined,
           Created, ownerVars
  <2>4. EarlyOK'
    <3>1. QueuedTasks = {} /\ QueuedTasks' = {}
      BY DEF QueuedTasks
    <3>2. RunningTasks' = RunningTasks
      <4>1. {v \in Workers : wpc'[v] = "run"} = {v \in Workers : wpc[v] = "run"}
        BY DEF TypeOK
      <4>. QED
        BY <4>1, Zenon DEF RunningTasks
    <3>3. stop_' /\ early' = early /\ done' = done
      BY DEF historyVars
    <3>4. early \subseteq RunningTasks \cup done
      BY <3>1 DEF EarlyOK
    <3>. QED
      BY <3>2, <3>3, <3>4, Zenon DEF EarlyOK
  <2>. QED
    BY <2>1, <2>2, <2>3, <2>4
<1>5. CASE RunTake(w)
  <2>. USE <1>5 DEF RunTake
  <2>0. /\ tasks_ # <<>>
        /\ Head(tasks_) \in Tasks
        /\ Tail(tasks_) \in Seq(Tasks)
    BY HeadTailProperties DEF TypeOK, FrontIsDefined
  <2>1. TypeOK'
    BY <2>0 DEF TypeOK, callerVars, ownerVars, historyVars
  <2>2. CallsOK'
    BY <2>0 DEF TypeOK, CallsOK, callerVars, ownerVars
  <2>3. (HolderOK /\ WaitersOK /\ RunningIsJoinable /\ JoinedOK /\ FrontIsDefined)'
    BY DEF TypeOK, HolderOK, WaitersOK, RunningIsJoinable, JoinedOK, FrontIsDefined,
           Created, ownerVars
  <2>4. EarlyOK'
    <3>1. QueuedTasks = {Head(tasks_)} \cup QueuedTasks'
      <4>1. tasks_ \in Seq(Tasks) /\ tasks_' = Tail(tasks_)
        BY DEF TypeOK
      <4>2. Elements(tasks_) = {Head(tasks_)} \cup Elements(tasks_')
        BY <2>0, <4>1, TailElements
      <4>. QED
        BY <4>2, Zenon DEF QueuedTasks, Elements
    <3>2. Head(tasks_) \in RunningTasks'
      BY DEF TypeOK, RunningTasks
    <3>3. RunningTasks \subseteq RunningTasks'
      <4>1. ASSUME NEW v \in Workers, wpc[v] = "run" PROVE func[v] \in RunningTasks'
        <5>1. wpc'[v] = "run" /\ func'[v] = func[v]
          BY <4>1 DEF TypeOK
        <5>. QED
          BY <5>1 DEF RunningTasks
      <4>. QED
        BY <4>1 DEF RunningTasks
    <3>4. stop_' = stop_ /\ early' = early /\ done' = done
      BY DEF historyVars
    <3>5. \A v \in Workers : wpc'[v] = "exited" => wpc[v] = "exited"
      BY DEF TypeOK
    <3>6. early' \subseteq QueuedTasks' \cup RunningTasks' \cup done'
      BY <3>1, <3>2, <3>3, <3>4 DEF EarlyOK
    <3>7. ASSUME NEW v \in Workers, wpc'[v] = "exited"
          PROVE  stop_' /\ early' \subseteq RunningTasks' \cup done'
      <4>1. stop_ /\ early \subseteq RunningTasks \cup done
        BY <3>5, <3>7, Zenon DEF EarlyOK
      <4>2. early' \subseteq RunningTasks' \cup done'
        BY <3>3, <3>4, <4>1
      <4>. QED
        BY <3>4, <4>1, <4>2
    <3>. QED
      BY <3>6, <3>7, Zenon DEF EarlyOK
  <2>. QED
    BY <2>1, <2>2, <2>3, <2>4
<1>6. CASE RunFinish(w)
  <2>. USE <1>6 DEF RunFinish
  <2>0. func[w] \in Tasks
    BY DEF CallsOK
  <2>1. TypeOK'
    BY <2>0 DEF TypeOK, callerVars, ownerVars
  <2>2. CallsOK'
    BY DEF TypeOK, CallsOK, callerVars, ownerVars
  <2>3. (HolderOK /\ WaitersOK /\ RunningIsJoinable /\ JoinedOK /\ FrontIsDefined)'
    BY DEF TypeOK, HolderOK, WaitersOK, RunningIsJoinable, JoinedOK, FrontIsDefined,
           Created, ownerVars
  <2>4. EarlyOK'
    <3>1. QueuedTasks' = QueuedTasks
      BY DEF QueuedTasks
    <3>2. RunningTasks \cup done \subseteq RunningTasks' \cup done'
      <4>1. ASSUME NEW v \in Workers, wpc[v] = "run"
            PROVE  func[v] \in RunningTasks' \cup done'
        <5>1. CASE v = w
          BY <5>1
        <5>2. CASE v # w
          <6>1. wpc'[v] = "run" /\ func'[v] = func[v]
            BY <4>1, <5>2 DEF TypeOK
          <6>. QED
            BY <6>1 DEF RunningTasks
        <5>. QED
          BY <5>1, <5>2
      <4>. QED
        BY <4>1 DEF RunningTasks
    <3>3. stop_' = stop_ /\ early' = early
      OBVIOUS
    <3>4. \A v \in Workers : wpc'[v] = "exited" => wpc[v] = "exited"
      BY DEF TypeOK
    <3>5. early' \subseteq QueuedTasks' \cup RunningTasks' \cup done'
      BY <3>1, <3>2, <3>3 DEF EarlyOK
    <3>6. ASSUME NEW v \in Workers, wpc'[v] = "exited"
          PROVE  stop_' /\ early' \subseteq RunningTasks' \cup done'
      <4>1. stop_ /\ early \subseteq RunningTasks \cup done
        BY <3>4, <3>6, Zenon DEF EarlyOK
      <4>2. early' \subseteq RunningTasks' \cup done'
        BY <3>2, <3>3, <4>1
      <4>. QED
        BY <3>3, <4>1, <4>2
    <3>. QED
      BY <3>5, <3>6, Zenon DEF EarlyOK
  <2>. QED
    BY <2>1, <2>2, <2>3, <2>4
<1>. QED
  BY <1>1, <1>2, <1>3, <1>4, <1>5, <1>6 DEF WorkerStep

-----------------------------------------------------------------------------
(* Theorems                                                                *)

\* Inv holds in every reachable state: every operation of the pool keeps it.
THEOREM Invariance == Spec => []Inv
<1>1. Inv /\ [Next]_vars => Inv'
  <2>. SUFFICES ASSUME Inv, [Next]_vars PROVE Inv'
    OBVIOUS
  <2>1. CASE UNCHANGED vars
    <3>1. QueuedTasks' = QueuedTasks /\ RunningTasks' = RunningTasks
      BY <2>1, Zenon DEF vars, workerVars, QueuedTasks, RunningTasks
    <3>2. EarlyOK'
      BY <2>1, <3>1, Zenon DEF Inv, EarlyOK, vars, workerVars, historyVars
    <3>. QED
      BY <2>1, <3>2
         DEF Inv, vars, workerVars, callerVars, ownerVars, historyVars, TypeOK, CallsOK, HolderOK,
             WaitersOK, RunningIsJoinable, Created, JoinedOK, FrontIsDefined
  <2>. QED
    BY <2>1, OwnerInv, CallerInv, WorkerInv DEF Next
<1>. QED
  BY <1>1, InitInv, PTL DEF Spec

\* Every variable of the pool stays within its type: in particular every task
\* that is queued or run is one a caller submitted.
THEOREM TypeCorrect == Spec => []TypeOK
<1>1. Inv => TypeOK
  BY DEF Inv
<1>. QED
  BY <1>1, Invariance, PTL

\* A worker past the wait of Run never reads tasks_.front() of an empty queue,
\* for any number of workers and callers.
THEOREM FrontAlwaysDefined == Spec => []FrontIsDefined
<1>1. Inv => FrontIsDefined
  BY DEF Inv
<1>. QED
  BY <1>1, Invariance, PTL

\* Stop never forgets a thread that is still in Run.
THEOREM NoThreadForgotten == Spec => []RunningIsJoinable
<1>1. Inv => RunningIsJoinable
  BY DEF Inv
<1>. QED
  BY <1>1, Invariance, PTL

\* When Stop has returned, every task queued before it has been executed, for
\* any number of workers, callers and tasks.
THEOREM StopDrains == Spec => []DrainedOnStop
<1>1. Inv => DrainedOnStop
  <2>. SUFFICES ASSUME Inv, threads_ = <<>>, Created # {} PROVE early \subseteq done
    BY DEF DrainedOnStop
  <2>1. \A w \in Created : wpc[w] = "exited"
    BY DEF Inv, RunningIsJoinable, Created
  <2>2. RunningTasks = {}
    BY <2>1 DEF RunningTasks, Created
  <2>3. PICK w \in Workers : wpc[w] = "exited"
    BY <2>1 DEF Created
  <2>. QED
    BY <2>2, <2>3 DEF Inv, EarlyOK
<1>. QED
  BY <1>1, Invariance, PTL

-----------------------------------------------------------------------------
(***************************************************************************)
(* ThreadPool implements Executor, for every number of workers, callers    *)
(* and tasks.                                                              *)
(*                                                                         *)
(* A push is the abstract Submit only if nobody has the task yet, and the  *)
(* return of func() is the abstract Finish only if no other worker has     *)
(* taken the same task.  OnceOK says that a task is in one place at a      *)
(* time, on its way from the caller through tasks_ to a worker; with Inv   *)
(* it is inductive.                                                        *)
(***************************************************************************)

\* A task about to be pushed is nowhere else, a queued one is queued once and
\* not running, a running one is run by one worker.
OnceOK == /\ \A a \in Callers : apc[a] = "push" => arg[a] \notin QueuedTasks \cup RunningTasks \cup done
          /\ \A a, b \in Callers : apc[a] = "push" /\ apc[b] = "push" /\ arg[a] = arg[b] => a = b
          /\ \A i, j \in DOMAIN tasks_ : tasks_[i] = tasks_[j] => i = j
          /\ \A w \in Workers : wpc[w] = "run" => func[w] \notin QueuedTasks
          /\ \A v, w \in Workers : wpc[v] = "run" /\ wpc[w] = "run" /\ func[v] = func[w] => v = w

LEMMA OnceInit == Init => OnceOK /\ Abstract!Init
<1>. SUFFICES ASSUME Init PROVE OnceOK /\ Abstract!Init
  OBVIOUS
<1>1. OnceOK
  BY DEF Init, OnceOK
<1>2. RunningTasks = {}
  BY DEF Init, RunningTasks
<1>. QED
  BY <1>1, <1>2 DEF Init, Abstract!Init

\* A step that moves no task is a stutter of the executor.
LEMMA OnceUntouched ==
    ASSUME OnceOK, UNCHANGED <<tasks_, func, done>>,
           \A w \in Workers : wpc'[w] = "run" <=> wpc[w] = "run",
           \A a \in Callers : apc'[a] = "push" => apc[a] = "push" /\ arg'[a] = arg[a]
    PROVE  OnceOK' /\ UNCHANGED Abstract!vars
<1>1. QueuedTasks' = QueuedTasks
  BY DEF QueuedTasks
<1>2. RunningTasks' = RunningTasks
  <2>1. {v \in Workers : wpc'[v] = "run"} = {v \in Workers : wpc[v] = "run"}
    OBVIOUS
  <2>. QED
    BY <2>1, Zenon DEF RunningTasks
<1>3. OnceOK'
  BY <1>1, <1>2 DEF OnceOK
<1>. QED
  BY <1>2, <1>3 DEF Abstract!vars

\* Nothing the owner does moves a task.
LEMMA OwnerRefines ==
    ASSUME Inv, OnceOK, Start \/ StopBegin \/ OwnerStep
    PROVE  OnceOK' /\ UNCHANGED Abstract!vars
<1>1. \A w \in Workers : wpc'[w] = "run" <=> wpc[w] = "run"
  BY DEF Inv, TypeOK, WaitersOK, Start, StopBegin, OwnerStep, SpawnFails, SpawnThread, StopBroadcast,
         StopJoin, StopReturn, workerVars
<1>2. UNCHANGED <<tasks_, func, done, apc, arg>>
  BY DEF Start, StopBegin, OwnerStep, SpawnFails, SpawnThread, StopBroadcast, StopJoin, StopReturn,
         workerVars, callerVars, historyVars
<1>. QED
  BY <1>1, <1>2, OnceUntouched

\* A caller's push submits a task that nobody has.
LEMMA CallerRefines ==
    ASSUME Inv, OnceOK, NEW a \in Callers,
           CallerStep(a) \/ \E t \in Tasks : AddTaskBegin(a, t)
    PROVE  OnceOK' /\ [Abstract!Next]_(Abstract!vars)
<1>. USE DEF Inv
<1>1. ASSUME NEW t \in Tasks, AddTaskBegin(a, t) PROVE OnceOK' /\ UNCHANGED Abstract!vars
  <2>. USE <1>1 DEF AddTaskBegin
  <2>1. QueuedTasks' = QueuedTasks /\ RunningTasks' = RunningTasks /\ done' = done
    BY Zenon DEF QueuedTasks, RunningTasks, workerVars, historyVars
  <2>2. \A b \in Callers \ {a} : apc'[b] = apc[b] /\ arg'[b] = arg[b]
    BY DEF TypeOK
  <2>3. apc'[a] = "push" /\ arg'[a] = t
    BY DEF TypeOK
  <2>4. /\ t \notin QueuedTasks \cup RunningTasks \cup done
        /\ \A b \in Callers : apc[b] = "push" => arg[b] # t
    BY DEF Submitted
  <2>5. OnceOK'
    BY <2>1, <2>2, <2>3, <2>4 DEF OnceOK, workerVars, historyVars
  <2>. QED
    BY <2>1, <2>5 DEF Abstract!vars
<1>2. CASE AddTaskPush(a)
  <2>. USE <1>2 DEF AddTaskPush
  <2>1. /\ arg[a] \in Tasks
        /\ arg[a] \notin QueuedTasks \cup RunningTasks \cup done
    BY DEF CallsOK, OnceOK
  <2>2. RunningTasks' = RunningTasks /\ done' = done
    BY Zenon DEF RunningTasks, workerVars
  <2>3. QueuedTasks' = QueuedTasks \cup {arg[a]}
    <3>1. tasks_ \in Seq(Tasks) /\ tasks_' = Append(tasks_, arg[a])
      BY DEF TypeOK
    <3>2. Elements(tasks_') = Elements(tasks_) \cup {arg[a]}
      BY <2>1, <3>1, AppendElements
    <3>. QED
      BY <3>2, Zenon DEF QueuedTasks, Elements
  <2>4. \A b \in Callers : apc'[b] = "push" => b # a /\ apc[b] = "push" /\ arg'[b] = arg[b]
    BY DEF TypeOK
  <2>5. \A i, j \in DOMAIN tasks_' : tasks_'[i] = tasks_'[j] => i = j
    <3>1. /\ DOMAIN tasks_' = 1 .. Len(tasks_) + 1
          /\ DOMAIN tasks_ = 1 .. Len(tasks_)
          /\ Len(tasks_) \in Nat
          /\ tasks_'[Len(tasks_) + 1] = arg[a]
          /\ \A i \in 1 .. Len(tasks_) : tasks_'[i] = tasks_[i]
      BY <2>1, AppendProperties, LenProperties DEF TypeOK
    <3>2. \A i \in 1 .. Len(tasks_) : tasks_[i] # arg[a]
      BY <2>1, <3>1 DEF QueuedTasks
    <3>3. \A i, j \in 1 .. Len(tasks_) : tasks_[i] = tasks_[j] => i = j
      BY <3>1 DEF OnceOK
    <3>. QED
      BY <3>1, <3>2, <3>3
  <2>6. \A b \in Callers : apc'[b] = "push" => arg'[b] \notin QueuedTasks' \cup RunningTasks' \cup done'
    <3>. SUFFICES ASSUME NEW b \in Callers, apc'[b] = "push"
                  PROVE  arg'[b] \notin QueuedTasks' \cup RunningTasks' \cup done'
      OBVIOUS
    <3>1. b # a /\ apc[b] = "push" /\ arg'[b] = arg[b]
      BY <2>4
    <3>2. arg[b] # arg[a] /\ arg[b] \notin QueuedTasks \cup RunningTasks \cup done
      BY <3>1 DEF OnceOK
    <3>. QED
      BY <2>2, <2>3, <3>1, <3>2
  <2>7. \A w \in Workers : wpc'[w] = "run" => func'[w] \notin QueuedTasks'
    <3>. SUFFICES ASSUME NEW w \in Workers, wpc[w] = "run" PROVE func[w] \notin QueuedTasks'
      BY DEF workerVars
    <3>1. func[w] \in RunningTasks
      BY DEF RunningTasks
    <3>. QED
      BY <2>1, <2>3, <3>1 DEF OnceOK
  <2>8. OnceOK'
    BY <2>4, <2>5, <2>6, <2>7 DEF OnceOK, workerVars
  <2>9. Abstract!Submit(arg[a])
    BY <2>1, <2>2 DEF Abstract!Submit, Abstract!Known, QueuedTasks
  <2>. QED
    BY <2>1, <2>8, <2>9 DEF Abstract!Next
<1>3. CASE AddTaskSignal(a)
  <2>. USE <1>3 DEF AddTaskSignal
  <2>1. \A w \in Workers : wpc'[w] = "run" <=> wpc[w] = "run"
    BY DEF TypeOK, WaitersOK
  <2>2. \A b \in Callers : apc'[b] = "push" => apc[b] = "push" /\ arg'[b] = arg[b]
    BY DEF TypeOK
  <2>. QED
    BY <2>1, <2>2, OnceUntouched DEF historyVars
<1>. QED
  BY <1>1, <1>2, <1>3 DEF CallerStep

\* A worker that takes a task begins it, and one whose func() has returned
\* finishes it; the rest of Run is stuttering.
LEMMA WorkerRefines ==
    ASSUME Inv, OnceOK, NEW w \in Workers, WorkerStep(w) \/ SpuriousWakeup(w)
    PROVE  OnceOK' /\ [Abstract!Next]_(Abstract!vars)
<1>. USE DEF Inv
<1>1. CASE RunTest(w) \/ RunWait(w) \/ RunExit(w) \/ SpuriousWakeup(w)
  <2>1. \A v \in Workers : wpc'[v] = "run" <=> wpc[v] = "run"
    BY <1>1 DEF TypeOK, WaitersOK, RunTest, RunWait, RunExit, SpuriousWakeup
  <2>2. UNCHANGED <<tasks_, func, done, apc, arg>>
    BY <1>1 DEF RunTest, RunWait, RunExit, SpuriousWakeup, callerVars, historyVars
  <2>. QED
    BY <2>1, <2>2, OnceUntouched
<1>2. CASE RunTake(w)
  <2>. USE <1>2 DEF RunTake
  <2>. DEFINE t == Head(tasks_)
  <2>1. tasks_ # <<>> /\ tasks_ \in Seq(Tasks)
    BY DEF TypeOK, FrontIsDefined
  <2>2. /\ DOMAIN tasks_ = 1 .. Len(tasks_) /\ Len(tasks_) \in Nat \ {0}
        /\ t = tasks_[1]
        /\ DOMAIN tasks_' = 1 .. Len(tasks_) - 1
        /\ \A i \in 1 .. Len(tasks_) - 1 : tasks_'[i] = tasks_[i + 1]
    BY <2>1, HeadTailProperties, EmptySeq, LenProperties
  <2>3. \A i, j \in 1 .. Len(tasks_) : tasks_[i] = tasks_[j] => i = j
    BY <2>2 DEF OnceOK
  <2>4. QueuedTasks = {t} \cup QueuedTasks'
    <3>1. Elements(tasks_) = {t} \cup Elements(tasks_')
      BY <2>1, TailElements
    <3>. QED
      BY <3>1, Zenon DEF QueuedTasks, Elements
  <2>5. t \notin QueuedTasks'
    <3>1. \A i \in DOMAIN tasks_' : tasks_'[i] # t
      BY <2>2, <2>3
    <3>. QED
      BY <3>1 DEF QueuedTasks
  <2>6. /\ wpc'[w] = "run" /\ wpc[w] # "run" /\ func'[w] = t
        /\ \A v \in Workers \ {w} : (wpc'[v] = "run" <=> wpc[v] = "run") /\ func'[v] = func[v]
    BY DEF TypeOK
  <2>7. \A v \in Workers : wpc[v] = "run" => func[v] # t
    BY <2>4 DEF OnceOK
  <2>8. RunningTasks' = RunningTasks \cup {t}
    <3>1. ASSUME NEW v \in Workers, wpc'[v] = "run" PROVE func'[v] \in RunningTasks \cup {t}
      BY <2>6, <3>1 DEF RunningTasks
    <3>2. ASSUME NEW v \in Workers, wpc[v] = "run" PROVE func[v] \in RunningTasks'
      <4>1. wpc'[v] = "run" /\ func'[v] = func[v]
        BY <2>6, <3>2
      <4>. QED
        BY <4>1 DEF RunningTasks
    <3>3. t \in RunningTasks'
      BY <2>6 DEF RunningTasks
    <3>. QED
      BY <3>1, <3>2, <3>3 DEF RunningTasks
  <2>9. \A i, j \in DOMAIN tasks_' : tasks_'[i] = tasks_'[j] => i = j
    BY <2>2, <2>3
  <2>10. \A a \in Callers : apc[a] = "push" => arg[a] \notin QueuedTasks' \cup RunningTasks' \cup done
    BY <2>4, <2>8 DEF OnceOK
  <2>11. \A v \in Workers : wpc'[v] = "run" => func'[v] \notin QueuedTasks'
    BY <2>4, <2>5, <2>6 DEF OnceOK
  <2>12. \A u, v \in Workers : wpc'[u] = "run" /\ wpc'[v] = "run" /\ func'[u] = func'[v] => u = v
    BY <2>6, <2>7 DEF OnceOK
  <2>13. OnceOK'
    BY <2>9, <2>10, <2>11, <2>12 DEF OnceOK, callerVars, historyVars
  <2>14. Abstract!Begin
    BY <2>1, <2>8 DEF Abstract!Begin, historyVars
  <2>. QED
    BY <2>13, <2>14 DEF Abstract!Next
<1>3. CASE RunFinish(w)
  <2>. USE <1>3 DEF RunFinish
  <2>. DEFINE t == func[w]
  <2>1. t \in Tasks /\ t \in RunningTasks
    BY DEF CallsOK, RunningTasks
  <2>2. QueuedTasks' = QueuedTasks
    BY DEF QueuedTasks
  <2>3. /\ wpc'[w] # "run"
        /\ \A v \in Workers \ {w} : (wpc'[v] = "run" <=> wpc[v] = "run") /\ func'[v] = func[v]
    BY DEF TypeOK
  <2>4. \A v \in Workers \ {w} : wpc[v] = "run" => func[v] # t
    BY DEF OnceOK
  <2>5. RunningTasks' = RunningTasks \ {t}
    <3>1. ASSUME NEW v \in Workers, wpc'[v] = "run" PROVE func'[v] \in RunningTasks \ {t}
      BY <2>3, <2>4, <3>1 DEF RunningTasks
    <3>2. ASSUME NEW v \in Workers, wpc[v] = "run", func[v] # t PROVE func[v] \in RunningTasks'
      <4>1. wpc'[v] = "run" /\ func'[v] = func[v]
        BY <2>3, <3>2
      <4>. QED
        BY <4>1 DEF RunningTasks
    <3>. QED
      BY <3>1, <3>2 DEF RunningTasks
  <2>6. \A a \in Callers : apc[a] = "push" => arg[a] \notin QueuedTasks' \cup RunningTasks' \cup done'
    BY <2>1, <2>2, <2>5 DEF OnceOK
  <2>7. \A v \in Workers : wpc'[v] = "run" => func'[v] \notin QueuedTasks'
    BY <2>2, <2>3 DEF OnceOK
  <2>8. \A u, v \in Workers : wpc'[u] = "run" /\ wpc'[v] = "run" /\ func'[u] = func'[v] => u = v
    BY <2>3 DEF OnceOK
  <2>9. OnceOK'
    BY <2>6, <2>7, <2>8 DEF OnceOK, callerVars
  <2>10. Abstract!Finish(t)
    BY <2>1, <2>5 DEF Abstract!Finish
  <2>. QED
    BY <2>1, <2>9, <2>10 DEF Abstract!Next
<1>. QED
  BY <1>1, <1>2, <1>3 DEF WorkerStep

-----------------------------------------------------------------------------

\* The pool implements the FIFO executor: tasks are begun in the order of
\* their pushes, each by one worker and once, for any number of workers,
\* callers and tasks.
THEOREM PoolImplementsExecutor == Spec => ImplementsExecutor
<1>1. Inv /\ OnceOK /\ [Next]_vars => OnceOK' /\ [Abstract!Next]_(Abstract!vars)
  <2>. SUFFICES ASSUME Inv, OnceOK, [Next]_vars
                PROVE  OnceOK' /\ [Abstract!Next]_(Abstract!vars)
    OBVIOUS
  <2>1. CASE UNCHANGED vars
    BY <2>1, OnceUntouched DEF vars, workerVars, callerVars, historyVars
  <2>. QED
    BY <2>1, OwnerRefines, CallerRefines, WorkerRefines DEF Next
<1>2. Init => OnceOK /\ Abstract!Init
  BY OnceInit
<1>. QED
  BY <1>1, <1>2, Invariance, PTL DEF Spec, ImplementsExecutor, Abstract!Spec

=============================================================================
