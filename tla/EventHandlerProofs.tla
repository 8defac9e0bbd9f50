------------------------- MODULE EventHandlerProofs -------------------------
(***************************************************************************)
(* The invariants of EventHandler, for any set of handlers and any size of *)
(* the array of results.  Their conjunction is inductive.                  *)
(***************************************************************************)
EXTENDS EventHandler, TLAPS

Inv == TypeOK /\ WatchedAsBelieved /\ NothingUnwanted /\ CalledIfAsked

-----------------------------------------------------------------------------

\* A step of EventHandler changes what is watched and believed of one handler and
\* leaves the results alone; it keeps the invariant if it relates the two as the
\* properties ask (event_handler.cc:7-53).
LEMMA OneHandler ==
    ASSUME Inv, NEW h \in Handlers,
           NEW w \in SUBSET Events, NEW b \in SUBSET Events, Watch(h, w), Believe(h, b),
           split' \in {split, split \cup {h}, split \ {h}},
           refused' \in {refused, refused \cup {h}},
           h \notin refused' /\ (poller = "epoll" => h \notin split') => w = b,
           (poller = "kqueue" => h \notin refused') => w \subseteq b,
           UNCHANGED <<poller, results, asked>>
    PROVE  Inv'
<1>1. TypeOK'
  BY DEF Inv, TypeOK, Watch, Believe
<1>2. ASSUME NEW g \in Handlers
      PROVE  /\ g = h => watched'[g] = w /\ events_'[g] = b
             /\ g # h => watched'[g] = watched[g] /\ events_'[g] = events_[g]
  BY DEF Inv, TypeOK, Watch, Believe
<1>3. ASSUME NEW g \in Handlers, g # h
      PROVE  (g \in split' <=> g \in split) /\ (g \in refused' <=> g \in refused)
  BY <1>3
<1>4. WatchedAsBelieved'
  BY <1>2, <1>3 DEF Inv, WatchedAsBelieved
<1>5. NothingUnwanted'
  BY <1>2, <1>3 DEF Inv, NothingUnwanted
<1>6. CalledIfAsked'
  <2>1. refused \subseteq refused'
    OBVIOUS
  <2>. QED
    BY <2>1 DEF Inv, CalledIfAsked
<1>. QED
  BY <1>1, <1>4, <1>5, <1>6 DEF Inv

\* RegsiterEvents: only a first registration keeps epoll in step with events_.
LEMMA RegsiterEventsInv ==
    ASSUME Inv, NEW h \in Handlers, NEW ev \in SUBSET Events, RegsiterEvents(h, ev)
    PROVE  Inv'
<1> DEFINE add == ev \ events_[h]
           b == events_[h] \cup ev
<1>1. watched[h] \in SUBSET Events /\ events_[h] \in SUBSET Events /\ poller \in {"epoll", "kqueue"}
  BY DEF Inv, TypeOK
<1>2. split' \in {split, split \cup {h}, split \ {h}} /\ (h \notin split' => events_[h] = {} /\ h \notin split)
  BY DEF RegsiterEvents
<1>3. (poller = "kqueue" => h \notin refused) => watched[h] \subseteq events_[h]
  BY DEF Inv, NothingUnwanted
<1>4. h \notin refused /\ (poller = "epoll" => h \notin split) => watched[h] = events_[h]
  BY DEF Inv, WatchedAsBelieved
<1>5. CASE Watch(h, Add(watched[h], add)) /\ UNCHANGED refused
  <2> DEFINE w == Add(watched[h], add)
  <2>1. w \in SUBSET Events
    BY <1>1 DEF Add
  <2>2. (poller = "kqueue" => h \notin refused) => w \subseteq b
    BY <1>1, <1>3 DEF Add
  <2>3. h \notin refused /\ (poller = "epoll" => h \notin split') => w = b
    BY <1>1, <1>2, <1>4 DEF Add
  <2>4. b \in SUBSET Events /\ Watch(h, w) /\ Believe(h, b) /\ UNCHANGED <<poller, results, asked>>
    BY <1>1, <1>5 DEF RegsiterEvents
  <2>. HIDE DEF w, b
  <2>. QED
    BY <1>2, <1>5, <2>1, <2>2, <2>3, <2>4, OneHandler
<1>6. CASE /\ \E w \in RefusedAdd(watched[h], add) : Watch(h, w)
           /\ refused' = refused \cup {h}
  <2>1. PICK w \in RefusedAdd(watched[h], add) : Watch(h, w)
    BY <1>6
  <2>2. w \in SUBSET Events
    BY <1>1, <2>1 DEF RefusedAdd, Events
  <2>3. (poller = "kqueue" => h \notin refused') => w \subseteq b
    BY <1>1, <1>3, <1>6 DEF RefusedAdd
  <2>4. b \in SUBSET Events /\ Believe(h, b) /\ UNCHANGED <<poller, results, asked>>
    BY <1>1 DEF RegsiterEvents
  <2>. HIDE DEF b
  <2>. QED
    BY <1>2, <1>6, <2>1, <2>2, <2>3, <2>4, OneHandler
<1>. QED
  BY <1>5, <1>6 DEF RegsiterEvents

\* ModifyEvents: EPOLL_CTL_MOD replaces a registration, if there is one.
LEMMA ModifyEventsInv ==
    ASSUME Inv, NEW h \in Handlers, NEW ev \in SUBSET Events, ModifyEvents(h, ev)
    PROVE  Inv'
<1>1. watched[h] \in SUBSET Events /\ events_[h] \in SUBSET Events /\ poller \in {"epoll", "kqueue"}
  BY DEF Inv, TypeOK
<1>2. split' \in {split, split \cup {h}, split \ {h}} /\ (h \notin split' => events_[h] # {} /\ h \notin split)
  BY DEF ModifyEvents
<1>3. (poller = "kqueue" => h \notin refused) => watched[h] \subseteq events_[h]
  BY DEF Inv, NothingUnwanted
<1>4. h \notin refused /\ (poller = "epoll" => h \notin split) => watched[h] = events_[h]
  BY DEF Inv, WatchedAsBelieved
<1>5. Believe(h, ev) /\ UNCHANGED <<poller, results, asked>>
  BY DEF ModifyEvents
<1>6. CASE Watch(h, Mod(watched[h], events_[h], ev)) /\ UNCHANGED refused
  <2> DEFINE w == Mod(watched[h], events_[h], ev)
  <2>1. w \in SUBSET Events
    BY <1>1 DEF Mod, Add, Dropped
  <2>2. (poller = "kqueue" => h \notin refused) => w \subseteq ev
    BY <1>1, <1>3 DEF Mod, Add, Dropped
  <2>3. h \notin refused /\ (poller = "epoll" => h \notin split') => w = ev
    BY <1>1, <1>2, <1>4 DEF Mod, Add, Dropped
  <2>. HIDE DEF w
  <2>. QED
    BY <1>2, <1>5, <1>6, <2>1, <2>2, <2>3, OneHandler DEF w
<1>7. CASE /\ poller = "kqueue"
           /\ \E w \in RefusedAdd(Dropped(watched[h], events_[h]), ev) : Watch(h, w)
           /\ refused' = refused \cup {h}
  <2>1. PICK w \in RefusedAdd(Dropped(watched[h], events_[h]), ev) : Watch(h, w)
    BY <1>7
  <2>2. w \in SUBSET Events
    BY <1>1, <2>1 DEF RefusedAdd, Dropped, Events
  <2>. QED
    BY <1>2, <1>5, <1>7, <2>1, <2>2, OneHandler
<1>. QED
  BY <1>6, <1>7 DEF ModifyEvents

\* RemoveEvents: epoll forgets the descriptor, kqueue the filters that are named.
LEMMA RemoveEventsInv ==
    ASSUME Inv, NEW h \in Handlers, NEW ev \in SUBSET Events, RemoveEvents(h, ev)
    PROVE  Inv'
<1> DEFINE b == events_[h] \ ev
           w == Del(watched[h], events_[h] \cap ev)
<1>1. watched[h] \in SUBSET Events /\ events_[h] \in SUBSET Events /\ poller \in {"epoll", "kqueue"}
  BY DEF Inv, TypeOK
<1>2. split' \in {split, split \cup {h}, split \ {h}} /\ (h \notin split' => events_[h] \subseteq ev)
  BY DEF RemoveEvents
<1>3. (poller = "kqueue" => h \notin refused) => watched[h] \subseteq events_[h]
  BY DEF Inv, NothingUnwanted
<1>4. h \notin refused /\ (poller = "epoll" => h \notin split) => watched[h] = events_[h]
  BY DEF Inv, WatchedAsBelieved
<1>5. Watch(h, w) /\ Believe(h, b) /\ UNCHANGED <<poller, results, asked, refused>>
  BY DEF RemoveEvents
<1>6. b \in SUBSET Events /\ w \in SUBSET Events
  <2>1. b \in SUBSET Events /\ events_[h] \cap ev \in SUBSET Events
    BY <1>1
  <2>. QED
    BY <1>1, <2>1 DEF Del
<1>7. h \notin refused /\ (poller = "epoll" => h \notin split') => w = b
  BY <1>1, <1>2, <1>4 DEF Del
<1>8. (poller = "kqueue" => h \notin refused) => w \subseteq b
  BY <1>1, <1>4 DEF Del
<1>. HIDE DEF w, b
<1>. QED
  BY <1>2, <1>5, <1>6, <1>7, <1>8, OneHandler

\* RemoveAllEvents.
LEMMA RemoveAllEventsInv ==
    ASSUME Inv, NEW h \in Handlers, RemoveAllEvents(h)
    PROVE  Inv'
<1> DEFINE w == Del(watched[h], events_[h])
<1>1. watched[h] \in SUBSET Events /\ events_[h] \in SUBSET Events /\ poller \in {"epoll", "kqueue"}
  BY DEF Inv, TypeOK
<1>2. h \notin refused /\ (poller = "epoll" => h \notin split) => watched[h] = events_[h]
  BY DEF Inv, WatchedAsBelieved
<1>3. /\ Watch(h, w) /\ Believe(h, {}) /\ split' = split \ {h}
      /\ UNCHANGED <<poller, results, asked, refused>>
  BY DEF RemoveAllEvents
<1>4. w \in SUBSET Events
  BY <1>1 DEF Del
<1>5. (poller = "kqueue" => h \notin refused) => w = {}
  BY <1>1, <1>2 DEF Del
<1>. HIDE DEF w
<1>. QED
  BY <1>1, <1>3, <1>4, <1>5, OneHandler

\* Wait reports only what is watched, and that the handlers wanted
\* (epoll.h:169-180, kqueue.h:195-206).
LEMMA WaitInv ==
    ASSUME Inv, Wait
    PROVE  Inv'
<1>0. PICK n \in 1 .. MaxEvents : results' \in [1 .. n -> Reportable]
  BY DEF Wait
<1>1. results' \in [1 .. n -> Reportable]
  BY <1>0
<1>2. n \in Nat /\ n <= MaxEvents
  BY PollerAssumption
<1>3. results' \in Seq(Report) /\ Len(results') = n /\ DOMAIN results' = 1 .. n
  BY <1>1, <1>2 DEF Reportable
<1>4. TypeOK'
  BY <1>2, <1>3 DEF Inv, TypeOK, Wait
<1>5. ASSUME NEW i \in 1 .. n, poller = "kqueue" => results'[i].handler \notin refused
      PROVE  results'[i].events \subseteq events_[results'[i].handler]
  <2>1. results'[i] \in Reportable
    BY <1>1
  <2>2. results'[i].handler \in Handlers /\ results'[i].events \subseteq watched[results'[i].handler]
    BY <2>1 DEF Reportable, Report
  <2>. QED
    BY <1>5, <2>2 DEF Inv, NothingUnwanted
<1>6. CalledIfAsked'
  BY <1>3, <1>5 DEF CalledIfAsked, Wait
<1>. QED
  BY <1>4, <1>6 DEF Inv, Wait, WatchedAsBelieved, NothingUnwanted

\* HandleEvents only shortens what is left of the batch (event_handler.h:24-32).
LEMMA HandleEventsInv ==
    ASSUME Inv, HandleEvents
    PROVE  Inv'
<1>1. results \in Seq(Report) /\ results # <<>> /\ Len(results) <= MaxEvents /\ Len(results) \in Nat
  BY DEF Inv, TypeOK, HandleEvents
<1>2. /\ UNCHANGED <<poller, events_, watched, asked, split, refused>>
      /\ \/ results[1].events = Events /\ results' = [results EXCEPT ![1].events = {"write"}]
         \/ results' = Tail(results)
  BY <1>1 DEF HandleEvents
<1>3. /\ results' \in Seq(Report) /\ Len(results') <= MaxEvents
      /\ \A i \in DOMAIN results' : \E j \in DOMAIN results :
            results'[i].handler = results[j].handler /\ results'[i].events \subseteq results[j].events
  <2>1. CASE results[1].events = Events /\ results' = [results EXCEPT ![1].events = {"write"}]
    <3> DEFINE r == [results[1] EXCEPT !.events = {"write"}]
    <3>1. 1 \in DOMAIN results /\ results[1] \in Report
      BY <1>1
    <3>2. r \in Report /\ r.handler = results[1].handler /\ r.events \subseteq results[1].events
      BY <2>1, <3>1, Zenon DEF Report, Events
    <3>3. results' = [results EXCEPT ![1] = r]
      BY <2>1, Zenon
    <3>. HIDE DEF r
    <3>4. results' \in Seq(Report) /\ DOMAIN results' = DOMAIN results /\ Len(results') = Len(results)
      BY <1>1, <3>1, <3>2, <3>3
    <3>5. ASSUME NEW i \in DOMAIN results'
          PROVE  results'[i] = IF i = 1 THEN r ELSE results[i]
      BY <1>1, <3>1, <3>3, <3>4
    <3>. QED
      BY <1>1, <3>2, <3>4, <3>5
  <2>2. CASE results' = Tail(results)
    <3>1. results' \in Seq(Report) /\ Len(results') = Len(results) - 1
      BY <1>1, <2>2
    <3>2. ASSUME NEW i \in DOMAIN results' PROVE i + 1 \in DOMAIN results /\ results'[i] = results[i + 1]
      BY <1>1, <2>2, <3>1
    <3>. QED
      BY <1>1, <3>1, <3>2, PollerAssumption
  <2>. QED
    BY <1>2, <2>1, <2>2
<1>4. TypeOK'
  BY <1>2, <1>3 DEF Inv, TypeOK
<1>5. CalledIfAsked'
  BY <1>2, <1>3 DEF Inv, CalledIfAsked
<1>. QED
  BY <1>2, <1>4, <1>5 DEF Inv, WatchedAsBelieved, NothingUnwanted

-----------------------------------------------------------------------------

\* Every reachable state of the reactor satisfies Inv.
THEOREM Invariance == Spec => []Inv
<1>1. Init => Inv
  BY PollerAssumption DEF Init, Inv, TypeOK, WatchedAsBelieved, NothingUnwanted, CalledIfAsked
<1>2. Inv /\ [Next]_vars => Inv'
  <2>. SUFFICES ASSUME Inv, [Next]_vars PROVE Inv'
    OBVIOUS
  <2>1. CASE UNCHANGED vars
    BY <2>1 DEF Inv, TypeOK, WatchedAsBelieved, NothingUnwanted, CalledIfAsked, vars
  <2>2. CASE Next
    BY <2>2, RegsiterEventsInv, ModifyEventsInv, RemoveEventsInv, RemoveAllEventsInv,
       WaitInv, HandleEventsInv DEF Next
  <2>. QED
    BY <2>1, <2>2
<1>. QED
  BY <1>1, <1>2, PTL DEF Spec

\* The variables keep their types and a batch fits the array (poller.h:67-69).
THEOREM TypeCorrect == Spec => []TypeOK
  BY Invariance, PTL DEF Inv

\* events_ and the kernel agree, but for refusals and, with epoll, for handlers that
\* registered twice or dropped a part (event_handler.cc:16, 26, 41).
THEOREM KernelAgrees == Spec => []WatchedAsBelieved
  BY Invariance, PTL DEF Inv

\* What a handler has dropped is not watched any more (event_handler.cc:32-53).
THEOREM DroppedIsUnwatched == Spec => []NothingUnwanted
  BY Invariance, PTL DEF Inv

\* Dispatch calls a handler only for what it wanted when Wait returned
\* (poller.h:79-91).
THEOREM CallsWereAsked == Spec => []CalledIfAsked
  BY Invariance, PTL DEF Inv

=============================================================================
