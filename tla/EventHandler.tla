----------------------------- MODULE EventHandler -----------------------------
(***************************************************************************)
(* The reactor (net/event_handler, net/poller, net/epoll, net/kqueue):     *)
(* handlers that ask for events of their descriptors, the poller that      *)
(* passes the wish on to the kernel, and Dispatch, which calls handlers    *)
(* back with the results of one Wait.  Everything runs in one thread; a    *)
(* handler that is called back may ask for and drop events of any handler. *)
(*                                                                         *)
(* What the kernel watches is a variable of its own, because epoll and     *)
(* kqueue may reject a request and EventHandler does not look at what Add, *)
(* Mod and Del return.                                                     *)
(*                                                                         *)
(* Operators named Slip... are plausible mistakes in the definition that   *)
(* follows them, for the properties to notice.                             *)
(***************************************************************************)
EXTENDS Naturals, Sequences

CONSTANTS Handlers,   \* event handlers, each with a descriptor of its own
          MaxEvents   \* max_events_ of the poller

ASSUME PollerAssumption == MaxEvents \in Nat \ {0}

VARIABLES poller,   \* what CreatePoller made
          events_,  \* the events a handler believes the kernel watches for it
          watched,  \* the events the kernel watches; none: not registered
          results,  \* of the last Wait, those not dispatched to their end
          asked,    \* history: events_ when Wait returned
          split,    \* history: handlers that asked again or dropped only a part
          refused   \* history: handlers of which the kernel refused an event

vars == <<poller, events_, watched, results, asked, split, refused>>

Events == {"read", "write"}

Report == [handler : Handlers, events : SUBSET Events]

TypeOK ==
    /\ poller \in {"epoll", "kqueue"}
    /\ events_ \in [Handlers -> SUBSET Events]
    /\ watched \in [Handlers -> SUBSET Events]
    /\ results \in Seq(Report) /\ Len(results) <= MaxEvents
    /\ asked \in [Handlers -> SUBSET Events]
    /\ split \subseteq Handlers /\ refused \subseteq Handlers

Init ==
    /\ poller \in {"epoll", "kqueue"}
    /\ events_ = [h \in Handlers |-> {}] /\ watched = [h \in Handlers |-> {}]
    /\ results = <<>> /\ asked = [h \in Handlers |-> {}]
    /\ split = {} /\ refused = {}

-----------------------------------------------------------------------------
(* The pollers, as functions of what is watched of one descriptor.         *)

\* EPOLL_CTL_ADD fails when the descriptor is registered; EV_ADD adds filters.
Add(w, ev) == IF poller = "kqueue" THEN w \cup ev
              ELSE IF w = {} THEN ev ELSE w

\* What may be left when the kernel runs out of memory: kevent stops at the
\* first change it cannot make, and the read filter comes first.
RefusedAdd(w, ev) == {w} \cup IF poller = "kqueue" /\ ev = Events THEN {w \cup {"read"}} ELSE {}

\* EPOLL_CTL_DEL ends the registration whatever the events; EV_DELETE of a
\* filter that is not there fails and ends the list of changes.
Del(w, ev) == IF poller = "epoll" THEN {}
              ELSE IF "read" \in ev \ w THEN w ELSE w \ ev

SlipDropped(w, old) == w  \* the old filters stay

\* Kqueue::Mod deletes the old filters one by one before it adds the new ones.
Dropped(w, old) == w \ old

\* EPOLL_CTL_MOD fails when the descriptor is not registered.
Mod(w, old, ev) == IF poller = "kqueue" THEN Add(Dropped(w, old), ev)
                   ELSE IF w = {} THEN {} ELSE ev

-----------------------------------------------------------------------------
(* The member functions of EventHandler.                                   *)

Watch(h, w) == watched' = [watched EXCEPT ![h] = w]
Believe(h, ev) == events_' = [events_ EXCEPT ![h] = ev]

RegsiterEvents(h, ev) ==
    LET add == ev \ events_[h]
    IN  /\ add # {}
        /\ Believe(h, events_[h] \cup ev)
        /\ split' = IF events_[h] = {} THEN split ELSE split \cup {h}
        /\ \/ Watch(h, Add(watched[h], add)) /\ UNCHANGED refused
           \/ /\ \E w \in RefusedAdd(watched[h], add) : Watch(h, w)
              /\ refused' = refused \cup {h}
        /\ UNCHANGED <<poller, results, asked>>

ModifyEvents(h, ev) ==
    /\ ev # {}
    /\ Believe(h, ev)
    /\ \/ Watch(h, Mod(watched[h], events_[h], ev)) /\ UNCHANGED refused
       \/ /\ poller = "kqueue"
          /\ \E w \in RefusedAdd(Dropped(watched[h], events_[h]), ev) : Watch(h, w)
          /\ refused' = refused \cup {h}
    /\ split' = IF events_[h] = {} THEN split \cup {h} ELSE split
    /\ UNCHANGED <<poller, results, asked>>

SlipRemoveEvents(h, ev) ==  \* events_ is updated before Del is called with it
    LET remove == events_[h] \cap ev
    IN  /\ remove # {}
        /\ Watch(h, Del(watched[h], events_[h] \ ev))
        /\ Believe(h, events_[h] \ ev)
        /\ split' = IF events_[h] \subseteq ev THEN split \ {h} ELSE split \cup {h}
        /\ UNCHANGED <<poller, results, asked, refused>>

RemoveEvents(h, ev) ==
    LET remove == events_[h] \cap ev
    IN  /\ remove # {}
        /\ Watch(h, Del(watched[h], remove))
        /\ Believe(h, events_[h] \ ev)
        /\ split' = IF events_[h] \subseteq ev THEN split \ {h} ELSE split \cup {h}
        /\ UNCHANGED <<poller, results, asked, refused>>

\* Also what ModifyEvents(0) does.
RemoveAllEvents(h) ==
    /\ events_[h] # {}
    /\ Watch(h, Del(watched[h], events_[h]))
    /\ Believe(h, {})
    /\ split' = split \ {h}
    /\ UNCHANGED <<poller, results, asked, refused>>

-----------------------------------------------------------------------------
(* Dispatch.                                                               *)

SlipReportable == {r \in Report : watched[r.handler] # {}}  \* not only what is watched

\* epoll reports a descriptor once, with some of its events (or an error that is
\* neither); kqueue reports each filter.
Reportable ==
    {r \in Report : /\ watched[r.handler] # {} /\ r.events \subseteq watched[r.handler]
                    /\ poller = "kqueue" => \E e \in Events : r.events = {e}}

Differ(r, s) == IF poller = "epoll" THEN r.handler # s.handler ELSE r # s

SlipWait ==  \* one result more than the array holds
    /\ results = <<>>
    /\ \E n \in 1 .. MaxEvents + 1 : \E batch \in [1 .. n -> Reportable] :
          /\ \A i, j \in 1 .. n : i # j => Differ(batch[i], batch[j])
          /\ results' = batch
    /\ asked' = events_
    /\ UNCHANGED <<poller, events_, watched, split, refused>>

\* The poller waits for events only when the results of the last Wait are done.
Wait ==
    /\ results = <<>>
    /\ \E n \in 1 .. MaxEvents : \E batch \in [1 .. n -> Reportable] :
          /\ \A i, j \in 1 .. n : i # j => Differ(batch[i], batch[j])
          /\ results' = batch
    /\ asked' = events_
    /\ UNCHANGED <<poller, events_, watched, split, refused>>

\* HandleEvents of the first result: HandleReadEvents, then HandleWriteEvents,
\* whatever the handler has done since to events_; then the next result.
HandleEvents ==
    /\ results # <<>>
    /\ LET ev == Head(results).events
       IN  results' = IF ev = Events THEN [results EXCEPT ![1].events = {"write"}]
                      ELSE Tail(results)
    /\ UNCHANGED <<poller, events_, watched, asked, split, refused>>

-----------------------------------------------------------------------------

Next ==
    \/ \E h \in Handlers, ev \in SUBSET Events :
          RegsiterEvents(h, ev) \/ ModifyEvents(h, ev) \/ RemoveEvents(h, ev)
    \/ \E h \in Handlers : RemoveAllEvents(h)
    \/ Wait \/ HandleEvents

Spec == Init /\ [][Next]_vars

-----------------------------------------------------------------------------
(* Properties                                                              *)

\* The kernel watches what the handler believes it does, if it has refused nothing
\* and, with epoll, the handler never extended its registration by a second
\* RegsiterEvents, changed one it did not have, or gave up a part of it
\* (EventHandler ignores what Add, Mod and Del return).
WatchedAsBelieved ==
    \A h \in Handlers : h \notin refused /\ (poller = "epoll" => h \notin split)
                        => watched[h] = events_[h]

\* Nothing is watched that the handler no longer wants: a handler that has dropped
\* its events is out of the kernel's hands.  Only a filter that kqueue refused can
\* make a later EV_DELETE stop before it has deleted the others.
NothingUnwanted ==
    \A h \in Handlers : (poller = "kqueue" => h \notin refused) => watched[h] \subseteq events_[h]

\* Dispatch calls a handler back only for what it wanted when Wait returned, even
\* when earlier callbacks of the batch have registered and removed events since.
CalledIfAsked ==
    \A i \in DOMAIN results :
       LET h == results[i].handler
       IN  (poller = "kqueue" => h \notin refused) => results[i].events \subseteq asked[h]

=============================================================================
