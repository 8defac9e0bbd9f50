----------------------- MODULE SimpleAllocatorProofs -----------------------
(***************************************************************************)
(* The inductive invariant of SimpleAllocator, and the safety properties   *)
(* that follow from it for every number of threads, regions and pointers   *)
(* and for all sizes of the allocator's constants that AllocatorAssumption *)
(* admits.                                                                 *)
(*                                                                         *)
(* The properties speak of the heap while nobody is inside it; the         *)
(* invariant says in addition how far the heap is off while a thread is    *)
(* inside (StageSound), and that as long as no step has raced only one is  *)
(* (OneInside).  A step of another thread in between would race, and the   *)
(* invariant claims nothing of a history with a race.                      *)
(***************************************************************************)
EXTENDS SimpleAllocatorHeap

Calls == [at : {"idle", "malloc", "new", "link", "enlist", "shrink", "mark", "free", "merge",
                "realloc"},
          size : Sizes \cup {0}, ptr : Addresses \cup {None}, block : Addresses \cup {None}]

Carving == {"link", "enlist", "shrink", "mark"}
Allocating == {"malloc", "new"} \cup Carving

\* What thread t knows while it is in a call.
CallSound(t) ==
    /\ call[t].at \in Allocating \cup {"realloc"} => call[t].size \in Sizes
    /\ call[t].at \in {"free", "realloc"} => call[t].ptr # None
    /\ call[t].ptr # None => call[t].ptr \in DOMAIN held
    /\ call[t].at \in Carving \cup {"merge"} => call[t].block \in DOMAIN heap.block

\* No two calls share a pointer.
CallsSound ==
    /\ call \in [Threads -> Calls]
    /\ \A t \in Threads : CallSound(t)
    /\ \A t, u \in Threads : call[t].ptr = call[u].ptr /\ call[t].ptr # None => t = u

\* mutex_ is held between steps by a thread in Free, and one thread is inside the heap.
OneInside ==
    /\ mutex \in Threads \cup {None}
    /\ \A t \in Threads : mutex = t <=> call[t].at = "merge"
    /\ \A t, u \in Threads : Inside(t) /\ Inside(u) => t = u

\* The used blocks are the held ones, each as large as was promised.
HeldSound ==
    /\ held \in [DOMAIN held -> Sizes]
    /\ DOMAIN held = Used(heap)
    /\ \A p \in DOMAIN held : heap.block[p].size >= held[p]

\* The heap once t has shrunk the block it splits, which SplitBlock does last.
Settled(t) == SplitShrink(heap, call[t].block, call[t].size)

\* The heap while t is inside it.
StageSound(t) ==
    LET b == call[t].block
        n == call[t].size
        r == Remainder(b, n)
    IN  /\ call[t].at \in Carving =>
              /\ ~heap.block[b].used /\ heap.block[b].size >= n /\ heap \in Heaps
        /\ call[t].at = "link" =>
              /\ Splits(heap, b, n) /\ Mapped(heap, mapped)
              /\ Sound(heap, {b}, {b}) /\ CoalescedBut(heap, {})
        /\ call[t].at = "enlist" =>
              /\ r \in DOMAIN heap.block /\ r # b /\ ~heap.block[r].used
              /\ Sound(Settled(t), {b, r}, {b}) /\ CoalescedBut(Settled(t), {b})
              /\ Mapped(Settled(t), mapped)
        /\ call[t].at = "shrink" =>
              /\ Sound(Settled(t), {b}, {b}) /\ CoalescedBut(Settled(t), {b})
              /\ Mapped(Settled(t), mapped)
        /\ call[t].at = "mark" =>
              Sound(heap, {b}, {b}) /\ CoalescedBut(heap, {b}) /\ Mapped(heap, mapped)
        /\ call[t].at = "merge" =>
              /\ ~heap.block[b].used /\ Mapped(heap, mapped)
              /\ Sound(heap, {}, {b}) /\ CoalescedBut(heap, Run(heap, b))

HeapSound ==
    /\ (\A t \in Threads : ~Inside(t)) =>
          Sound(heap, {}, {}) /\ CoalescedBut(heap, {}) /\ Mapped(heap, mapped)
    /\ \A t \in Threads : StageSound(t)

IInv == /\ raced \in BOOLEAN
        /\ ~raced => fault = "none" /\ CallsSound /\ OneInside /\ HeldSound /\ HeapSound

-----------------------------------------------------------------------------
(* What every step shares.                                                 *)

\* Idle is a call.
LEMMA IdleIsCall == Idle \in Calls
BY DEF Idle, Calls

\* A step without a race is made by the one thread inside, or by nobody inside.
LEMMA TouchFacts ==
    ASSUME NEW t \in Threads, IInv, Touch(t), ~raced'
    PROVE  /\ ~raced /\ fault = "none" /\ CallsSound /\ OneInside /\ HeldSound /\ HeapSound
           /\ call[t] \in Calls /\ CallSound(t) /\ StageSound(t)
           /\ \A u \in Threads \ {t} : ~Inside(u)
           /\ call[t].at # "merge" => mutex = None
           /\ call[t].at \notin Carving \cup {"merge"} =>
                 Sound(heap, {}, {}) /\ CoalescedBut(heap, {}) /\ Mapped(heap, mapped)
<1>1. ~raced /\ \A u \in Threads \ {t} : ~Inside(u)
  BY DEF Touch
<1>2. fault = "none" /\ CallsSound /\ OneInside /\ HeldSound /\ HeapSound
  BY <1>1 DEF IInv
<1>3. call[t] \in Calls /\ CallSound(t) /\ StageSound(t)
  BY <1>2 DEF CallsSound, HeapSound
<1>4. call[t].at # "merge" => mutex = None
  BY <1>1, <1>2 DEF OneInside, Inside
<1>5. call[t].at \notin Carving \cup {"merge"} =>
         Sound(heap, {}, {}) /\ CoalescedBut(heap, {}) /\ Mapped(heap, mapped)
  <2>. SUFFICES ASSUME call[t].at \notin Carving \cup {"merge"}
                PROVE  Sound(heap, {}, {}) /\ CoalescedBut(heap, {}) /\ Mapped(heap, mapped)
    OBVIOUS
  <2>1. ~Inside(t)
    BY <1>2 DEF OneInside, Inside, Carving
  <2>. QED
    BY <1>1, <1>2, <2>1 DEF HeapSound
<1>. QED
  BY <1>1, <1>2, <1>3, <1>4, <1>5

\* The invariant after a step of t inside the heap, from what that step changes.
LEMMA TouchStep ==
    ASSUME NEW t \in Threads, IInv, Touch(t), ~raced',
           NEW c \in Calls, call' = [call EXCEPT ![t] = c],
           mutex' = IF c.at = "merge" THEN t ELSE None,
           fault' = "none",
           c.ptr # None => c.ptr = call[t].ptr,
           DOMAIN held \ {call[t].ptr} \subseteq DOMAIN held',
           CallSound(t)', HeldSound', StageSound(t)',
           c.at \notin Carving \cup {"merge"} =>
              Sound(heap', {}, {}) /\ CoalescedBut(heap', {}) /\ Mapped(heap', mapped')
    PROVE  IInv'
<1>1. /\ CallsSound /\ OneInside /\ ~raced
      /\ \A u \in Threads \ {t} : ~Inside(u)
  BY TouchFacts
<1>2. /\ call' \in [Threads -> Calls] /\ call'[t] = c
      /\ \A u \in Threads \ {t} : call'[u] = call[u]
  BY <1>1 DEF CallsSound
<1>3. \A u \in Threads \ {t} : /\ call[u].at \notin Carving \cup {"merge"} /\ mutex # u
                               /\ ~Inside(u)'
  <2>. SUFFICES ASSUME NEW u \in Threads \ {t}
                PROVE  /\ call[u].at \notin Carving \cup {"merge"} /\ mutex # u
                       /\ ~Inside(u)'
    OBVIOUS
  <2>1. call[u].at \notin Carving \cup {"merge"} /\ mutex # u
    BY <1>1 DEF Inside, OneInside, Carving
  <2>2. mutex' # u
    BY AllocatorAssumption
  <2>. QED
    BY <1>2, <2>1, <2>2 DEF Inside, Carving
<1>4. CallsSound'
  <2>1. ASSUME NEW u \in Threads PROVE CallSound(u)'
    <3>1. CASE u = t
      BY <3>1
    <3>2. CASE u # t
      <4>1. call[u].ptr # None => call[u].ptr \in DOMAIN held /\ call[u].ptr # call[t].ptr
        BY <1>1, <3>2 DEF CallsSound, CallSound
      <4>2. CallSound(u)
        BY <1>1 DEF CallsSound
      <4>. QED
        BY <1>2, <1>3, <3>2, <4>1, <4>2 DEF CallSound
    <3>. QED
      BY <3>1, <3>2
  <2>2. \A u, v \in Threads : call'[u].ptr = call'[v].ptr /\ call'[u].ptr # None => u = v
    BY <1>1, <1>2 DEF CallsSound
  <2>. QED
    BY <1>2, <2>1, <2>2 DEF CallsSound
<1>5. OneInside'
  <2>1. mutex' \in Threads \cup {None}
    OBVIOUS
  <2>2. \A u \in Threads : mutex' = u <=> call'[u].at = "merge"
    BY <1>2, <1>3, AllocatorAssumption
  <2>3. \A u, v \in Threads : Inside(u)' /\ Inside(v)' => u = v
    BY <1>3
  <2>. QED
    BY <2>1, <2>2, <2>3 DEF OneInside
<1>6. HeapSound'
  <2>1. ASSUME NEW u \in Threads PROVE StageSound(u)'
    BY <1>2, <1>3 DEF StageSound, Carving
  <2>2. (\A u \in Threads : ~Inside(u)') =>
           Sound(heap', {}, {}) /\ CoalescedBut(heap', {}) /\ Mapped(heap', mapped')
    <3>. SUFFICES ASSUME ~Inside(t)'
                  PROVE  Sound(heap', {}, {}) /\ CoalescedBut(heap', {}) /\ Mapped(heap', mapped')
      OBVIOUS
    <3>1. c.at \notin Carving \cup {"merge"}
      BY <1>2 DEF Inside, Carving
    <3>. QED
      BY <3>1
  <2>. QED
    BY <2>1, <2>2 DEF HeapSound
<1>7. raced' \in BOOLEAN
  BY DEF Touch, IInv
<1>. QED
  BY <1>4, <1>5, <1>6, <1>7 DEF IInv

\* The invariant after a step of t that leaves the heap alone.
LEMMA CallStep ==
    ASSUME NEW t \in Threads, IInv, UNCHANGED <<heap, mapped, mutex, held, raced, fault>>,
           call[t].at \in {"idle", "new"},
           NEW c \in Calls, call' = [call EXCEPT ![t] = c],
           c.at \in {"idle", "malloc", "free", "realloc"},
           c.ptr # None => Owned(c.ptr), CallSound(t)'
    PROVE  IInv'
<1>. SUFFICES ASSUME ~raced
              PROVE  fault' = "none" /\ CallsSound' /\ OneInside' /\ HeldSound' /\ HeapSound'
  BY DEF IInv
<1>1. fault = "none" /\ CallsSound /\ OneInside /\ HeldSound /\ HeapSound
  BY DEF IInv
<1>2. /\ call' \in [Threads -> Calls] /\ call'[t] = c
      /\ \A u \in Threads \ {t} : call'[u] = call[u]
  BY <1>1 DEF CallsSound
<1>3. \A u \in Threads : Inside(u)' <=> Inside(u)
  <2>1. mutex # t
    BY <1>1 DEF OneInside
  <2>. QED
    BY <1>2, <2>1 DEF Inside
<1>4. CallsSound'
  <2>1. ASSUME NEW u \in Threads PROVE CallSound(u)'
    <3>1. CASE u = t
      BY <3>1
    <3>2. CASE u # t
      <4>1. CallSound(u)
        BY <1>1 DEF CallsSound
      <4>. QED
        BY <1>2, <3>2, <4>1 DEF CallSound
    <3>. QED
      BY <3>1, <3>2
  <2>2. \A u, v \in Threads : call'[u].ptr = call'[v].ptr /\ call'[u].ptr # None => u = v
    BY <1>1, <1>2 DEF CallsSound, Owned
  <2>. QED
    BY <1>2, <2>1, <2>2 DEF CallsSound
<1>5. OneInside'
  <2>1. \A u \in Threads : mutex' = u <=> call'[u].at = "merge"
    BY <1>1, <1>2 DEF OneInside
  <2>. QED
    BY <1>1, <1>3, <2>1 DEF OneInside
<1>6. HeapSound'
  <2>1. ASSUME NEW u \in Threads PROVE StageSound(u)'
    <3>1. CASE u = t
      BY <1>2, <3>1 DEF StageSound, Carving
    <3>2. CASE u # t
      <4>1. StageSound(u) /\ call'[u] = call[u]
        BY <1>1, <1>2, <3>2 DEF HeapSound
      <4>. QED
        BY <4>1 DEF StageSound, Settled
    <3>. QED
      BY <3>1, <3>2
  <2>. QED
    BY <1>1, <1>3, <2>1 DEF HeapSound
<1>. QED
  BY <1>1, <1>4, <1>5, <1>6 DEF HeldSound

\* Whatever step is being made, the heap is one, and pointers are addresses.
LEMMA HeapTyped ==
    ASSUME IInv, ~raced
    PROVE  /\ heap \in Heaps /\ DOMAIN held \subseteq DOMAIN heap.block
           /\ DOMAIN heap.block \subseteq Addresses
<1>1. OneInside /\ HeapSound /\ HeldSound
  BY DEF IInv
<1>2. heap \in Heaps
  <2>1. CASE \A t \in Threads : ~Inside(t)
    BY <1>1, <2>1 DEF HeapSound, Sound
  <2>2. CASE \E t \in Threads : Inside(t)
    <3>1. PICK t \in Threads : Inside(t)
      BY <2>2
    <3>2. call[t].at \in Carving \cup {"merge"} /\ StageSound(t)
      BY <1>1, <3>1 DEF OneInside, Inside, Carving, HeapSound
    <3>. QED
      BY <3>2 DEF StageSound, Sound
  <2>. QED
    BY <2>1, <2>2
<1>. QED
  BY <1>1, <1>2, HeapFields DEF HeldSound, Used

\* None is neither a pointer nor a thread.
LEMMA NoneIsNoAddress == None \notin Addresses /\ None \notin Threads
BY AllocatorAssumption DEF Addresses, Regions

-----------------------------------------------------------------------------
(* One lemma for each action.                                              *)

\* After a race nothing is claimed.
LEMMA RacedStep ==
    ASSUME IInv, raced' \in BOOLEAN, raced' PROVE IInv'
BY DEF IInv

\* Malloc is called.
LEMMA MallocCallStep ==
    ASSUME IInv, NEW t \in Threads, NEW n \in Sizes, MallocCall(t, n) PROVE IInv'
<1>. DEFINE c == [Idle EXCEPT !.at = "malloc", !.size = n]
<1>1. c \in Calls /\ c.at = "malloc" /\ c.size = n /\ c.ptr = None
  BY DEF Idle, Calls
<1>. HIDE DEF c
<1>2. /\ UNCHANGED <<heap, mapped, mutex, held, raced, fault>> /\ call[t].at \in {"idle", "new"}
      /\ call' = [call EXCEPT ![t] = c]
  BY DEF MallocCall, Idle, c
<1>. SUFFICES ASSUME ~raced PROVE IInv'
  BY <1>2 DEF IInv
<1>3. call'[t] = c
  BY <1>2 DEF IInv, CallsSound
<1>4. CallSound(t)'
  BY <1>1, <1>3 DEF CallSound, Carving
<1>. QED
  BY <1>1, <1>2, <1>4, CallStep

\* Free is called, with a pointer no other call has.
LEMMA FreeCallStep ==
    ASSUME IInv, NEW t \in Threads, NEW p \in DOMAIN held, FreeCall(t, p) PROVE IInv'
<1>. DEFINE c == [Idle EXCEPT !.at = "free", !.ptr = p]
<1>1. /\ UNCHANGED <<heap, mapped, mutex, held, raced, fault>> /\ call[t].at \in {"idle", "new"}
      /\ call' = [call EXCEPT ![t] = c] /\ Owned(p)
  BY DEF FreeCall, Idle
<1>. SUFFICES ASSUME ~raced PROVE IInv'
  BY <1>1 DEF IInv
<1>2. c \in Calls /\ c.at = "free" /\ c.ptr = p /\ p # None
  <2>1. p \in Addresses
    BY HeapTyped
  <2>. QED
    BY <2>1, NoneIsNoAddress DEF Idle, Calls
<1>. HIDE DEF c
<1>3. call'[t] = c
  BY <1>1 DEF IInv, CallsSound
<1>4. CallSound(t)'
  BY <1>1, <1>2, <1>3 DEF CallSound, Carving, Allocating
<1>. QED
  BY <1>1, <1>2, <1>4, CallStep

\* Realloc is called and needs more than the block has.
LEMMA ReallocCallStep ==
    ASSUME IInv, NEW t \in Threads, NEW p \in DOMAIN held, NEW n \in Sizes, ReallocCall(t, p, n)
    PROVE  IInv'
<1>. DEFINE c == [Idle EXCEPT !.at = "realloc", !.ptr = p, !.size = n]
<1>1. /\ UNCHANGED <<heap, mapped, mutex, held, raced, fault>> /\ call[t].at \in {"idle", "new"}
      /\ call' = [call EXCEPT ![t] = c] /\ Owned(p)
  BY DEF ReallocCall, Idle
<1>. SUFFICES ASSUME ~raced PROVE IInv'
  BY <1>1 DEF IInv
<1>2. c \in Calls /\ c.at = "realloc" /\ c.ptr = p /\ p # None /\ c.size = n
  <2>1. p \in Addresses
    BY HeapTyped
  <2>. QED
    BY <2>1, NoneIsNoAddress DEF Idle, Calls
<1>. HIDE DEF c
<1>3. call'[t] = c
  BY <1>1 DEF IInv, CallsSound
<1>4. CallSound(t)'
  BY <1>1, <1>2, <1>3 DEF CallSound, Carving, Allocating
<1>. QED
  BY <1>1, <1>2, <1>4, CallStep

\* mmap fails: the call ends and the heap is as it was.
LEMMA NewBlockFailsStep ==
    ASSUME IInv, NEW t \in Threads, NewBlockFails(t) PROVE IInv'
<1>1. /\ UNCHANGED <<heap, mapped, mutex, held, raced, fault>> /\ call[t].at \in {"idle", "new"}
      /\ call' = [call EXCEPT ![t] = Idle]
  BY DEF NewBlockFails
<1>. SUFFICES ASSUME ~raced PROVE IInv'
  BY <1>1 DEF IInv
<1>2. call'[t] = Idle
  BY <1>1 DEF IInv, CallsSound
<1>3. Idle.at = "idle" /\ Idle.ptr = None
  BY DEF Idle
<1>4. CallSound(t)'
  BY <1>2, <1>3 DEF CallSound, Carving, Allocating
<1>. QED
  BY <1>1, <1>3, <1>4, IdleIsCall, CallStep

\* Realloc in place only changes what the caller was promised.
LEMMA ReallocKeepStep ==
    ASSUME IInv, NEW t \in Threads, NEW p \in DOMAIN held, NEW n \in Sizes, ReallocKeep(t, p, n)
    PROVE  IInv'
<1>1. /\ UNCHANGED <<heap, mapped, mutex, call, raced, fault>>
      /\ held' = [held EXCEPT ![p] = n] /\ heap.block[p].size >= n
  BY DEF ReallocKeep
<1>. SUFFICES ASSUME ~raced
              PROVE  fault' = "none" /\ CallsSound' /\ OneInside' /\ HeldSound' /\ HeapSound'
  BY <1>1 DEF IInv
<1>2. fault = "none" /\ CallsSound /\ OneInside /\ HeldSound /\ HeapSound
  BY DEF IInv
<1>3. DOMAIN held' = DOMAIN held
  BY <1>1
<1>4. CallsSound'
  BY <1>1, <1>2, <1>3 DEF CallsSound, CallSound
<1>5. OneInside'
  BY <1>1, <1>2 DEF OneInside, Inside
<1>6. HeldSound'
  <2>1. held' \in [DOMAIN held -> Sizes]
    BY <1>1, <1>2 DEF HeldSound
  <2>2. \A q \in DOMAIN held : heap.block[q].size >= held'[q]
    BY <1>1, <1>2 DEF HeldSound
  <2>. QED
    BY <1>1, <1>2, <1>3, <2>1, <2>2 DEF HeldSound
<1>7. HeapSound'
  BY <1>1, <1>2 DEF HeapSound, StageSound, Settled, Inside
<1>. QED
  BY <1>1, <1>2, <1>4, <1>5, <1>6, <1>7

\* Whether the right neighbour can be merged does not depend on the block itself.
LEMMA RightMarked ==
    ASSUME NEW h \in Heaps, Sound(h, {}, {}), NEW b \in DOMAIN h.block, ~MergesRight(h, b),
           NEW u \in BOOLEAN, NEW g, Marked(g, h, b, u)
    PROVE  ~MergesRight(g, b)
<1>1. PICK i \in Indices(h.list) : h.list[i] = b /\ Position(h, b) = i
  BY IndexOf
<1>2. g.list = h.list /\ Position(g, b) = i
  BY <1>1 DEF Marked, Position
<1>3. ASSUME i + 1 <= Len(h.list)
      PROVE  Mergeable(g, b, i + 1) => Mergeable(h, b, i + 1)
  <2>1. i + 1 \in Indices(h.list) /\ i + 1 # i
    BY <1>3, ListFacts DEF Indices, Sound, Tiled
  <2>2. h.list[i + 1] # b /\ h.list[i + 1] \in DOMAIN h.block
    BY <1>1, <2>1, ListFacts DEF Sound, Tiled, ListExact, Once
  <2>. QED
    BY <1>2, <2>2 DEF Mergeable, Marked
<1>. QED
  BY <1>1, <1>2, <1>3 DEF MergesRight

\* Malloc returns: block b becomes a used and a held one.
LEMMA ReturnStep ==
    ASSUME IInv, NEW t \in Threads, Touch(t), ~raced', UNCHANGED <<mutex, fault>>,
           call[t].at # "merge", call[t].size \in Sizes, NEW b, MallocReturns(t, b),
           Used(heap') = Used(heap) \cup {b}, SizesKept(heap', heap, b),
           heap'.block[b].size >= call[t].size,
           Sound(heap', {}, {}), CoalescedBut(heap', {}), Mapped(heap', mapped')
    PROVE  IInv'
<1>. DEFINE c == IF call[t].ptr = None THEN Idle
                 ELSE [Idle EXCEPT !.at = "free", !.ptr = call[t].ptr]
<1>1. /\ ~raced /\ fault = "none" /\ CallsSound /\ HeldSound
      /\ call[t] \in Calls /\ CallSound(t) /\ mutex = None
  BY TouchFacts
<1>2. /\ c \in Calls /\ c.at \in {"idle", "free"} /\ c.ptr = call[t].ptr
      /\ c.at = "free" => c.ptr # None
  BY <1>1, IdleIsCall DEF Idle, Calls
<1>3. call' = [call EXCEPT ![t] = c] /\ DOMAIN held' = DOMAIN held \cup {b}
  BY DEF MallocReturns
<1>. HIDE DEF c
<1>4. call'[t] = c
  BY <1>1, <1>3 DEF CallsSound
<1>5. CallSound(t)'
  BY <1>1, <1>2, <1>3, <1>4 DEF CallSound, Carving, Allocating
<1>6. HeldSound'
  <2>1. held' \in [DOMAIN held' -> Sizes]
    BY <1>1, <1>3 DEF MallocReturns, HeldSound
  <2>2. DOMAIN held' = Used(heap')
    BY <1>1, <1>3 DEF HeldSound
  <2>3. \A p \in DOMAIN held' : heap'.block[p].size >= held'[p]
    <3>. SUFFICES ASSUME NEW p \in DOMAIN held' PROVE heap'.block[p].size >= held'[p]
      OBVIOUS
    <3>1. CASE p = b
      BY <1>3, <3>1 DEF MallocReturns
    <3>2. CASE p # b
      <4>1. p \in DOMAIN held /\ held'[p] = held[p] /\ p \in Used(heap)
        BY <1>1, <1>3, <3>2 DEF MallocReturns, HeldSound
      <4>. QED
        BY <1>1, <3>2, <4>1 DEF HeldSound, SizesKept
    <3>. QED
      BY <3>1, <3>2
  <2>. QED
    BY <2>1, <2>2, <2>3 DEF HeldSound
<1>7. StageSound(t)' /\ c.at \notin Carving \cup {"merge"}
  BY <1>2, <1>4 DEF StageSound, Carving
<1>8. mutex' = IF c.at = "merge" THEN t ELSE None
  BY <1>1, <1>2
<1>9. fault' = "none" /\ DOMAIN held \ {call[t].ptr} \subseteq DOMAIN held'
  BY <1>1, <1>3
<1>. QED
  BY <1>2, <1>3, <1>5, <1>6, <1>7, <1>8, <1>9, TouchStep

\* The first fit is unused: Malloc's check holds, and what it takes is free.
LEMMA MallocHitStep ==
    ASSUME IInv, NEW t \in Threads, MallocHit(t), ~raced' PROVE IInv'
<1>. DEFINE n == call[t].size
            b == FindFirstFit(heap, n)
            f == RemoveFromFreeList(heap, b)
<1>1. /\ Touch(t) /\ call[t].at = "malloc" /\ b # None /\ UNCHANGED <<mapped, mutex>>
      /\ \/ heap.block[b].used
         \/ heap' = SplitBlock(f, b, n) /\ MallocReturns(t, b) /\ UNCHANGED fault
  BY DEF MallocHit, Locked
<1>2. /\ ~raced /\ Sound(heap, {}, {}) /\ CoalescedBut(heap, {}) /\ CallSound(t)
      /\ Mapped(heap, mapped)
  BY <1>1, TouchFacts DEF Carving
<1>3. n \in Sizes /\ n \in Nat \ {0}
  BY <1>1, <1>2, AllocatorAssumption DEF CallSound, Allocating
<1>4. heap \in Heaps
  BY <1>2, HeapTyped
<1>5. PICK i \in Indices(heap.free) : heap.free[i] = b /\ heap.block[heap.free[i]].size >= n
  BY <1>1, <1>4, FirstFitIs
<1>6. b \in DOMAIN heap.block /\ ~heap.block[b].used /\ heap.block[b].size >= n
  <2>1. FreeExact(heap, {}, {})
    BY <1>2 DEF Sound
  <2>2. heap.free[i] \in DOMAIN heap.block /\ ~heap.block[heap.free[i]].used
    BY <1>4, <1>5, <2>1, FreeFacts
  <2>. HIDE DEF b, n
  <2>. QED
    BY <1>5, <2>2
<1>. HIDE DEF b, f, n
<1>7. Marked(f, heap, b, TRUE) /\ Sound(f, {}, {})
  BY <1>2, <1>4, <1>6, TakeSound DEF f
<1>8. /\ f \in Heaps /\ b \in DOMAIN f.block /\ f.block[b].used /\ f.block[b].size >= n
      /\ DOMAIN f.block = DOMAIN heap.block /\ f.list = heap.list
  BY <1>6, <1>7 DEF Marked
<1>9. CoalescedBut(f, {})
  <2>1. \A a \in DOMAIN heap.block : heap.block[a].used => f.block[a].used
    BY <1>7 DEF Marked
  <2>. QED
    BY <1>2, <1>4, <1>8, <2>1, CoalescedKept DEF Sound, Tiled
<1>10. ~MergesRight(f, b)
  BY <1>2, <1>4, <1>6, <1>7, NothingRight, RightMarked
<1>11. heap' = SplitBlock(f, b, n) /\ MallocReturns(t, b) /\ UNCHANGED fault
  BY <1>1, <1>6
<1>12. Sound(heap', {}, {}) /\ CoalescedBut(heap', {}) /\ Resettled(heap', f, b, n)
  BY <1>3, <1>7, <1>8, <1>9, <1>10, <1>11, SplitSound
<1>13. Used(heap') = Used(heap) \cup {b} /\ SizesKept(heap', heap, b)
  <2>1. Used(f) = Used(heap) \cup {b}
    BY <1>6, <1>7 DEF Used, Marked
  <2>2. \A a \in Used(heap) : f.block[a].size = heap.block[a].size
    BY <1>7 DEF Used, Marked
  <2>. QED
    BY <1>12, <2>1, <2>2 DEF Resettled, SizesKept
<1>14. heap'.block[b].size >= n
  BY <1>12 DEF Resettled
<1>15. Mapped(heap', mapped')
  <2>1. SameEnds(f, heap) /\ heap' \in Heaps
    BY <1>4, <1>7, <1>12, MarkedEnds DEF Sound
  <2>2. SameEnds(heap', heap)
    BY <1>4, <1>8, <1>12, <2>1, SameEndsTwice DEF Resettled
  <2>. QED
    BY <1>1, <1>2, <1>4, <2>1, <2>2, MappedKept
<1>. QED
  BY <1>1, <1>3, <1>11, <1>12, <1>13, <1>14, <1>15, ReturnStep DEF n

\* A step that only moves t on to "new" or "malloc".
LEMMA MoveOnStep ==
    ASSUME IInv, NEW t \in Threads, Touch(t), ~raced',
           UNCHANGED <<heap, mapped, mutex, held, fault>>,
           call[t].at \in {"malloc", "realloc"}, NEW s \in {"new", "malloc"},
           call' = [call EXCEPT ![t].at = s]
    PROVE  IInv'
<1>. DEFINE c == [call[t] EXCEPT !.at = s]
<1>1. /\ ~raced /\ fault = "none" /\ CallsSound /\ HeldSound
      /\ call[t] \in Calls /\ CallSound(t) /\ mutex = None
      /\ Sound(heap, {}, {}) /\ CoalescedBut(heap, {}) /\ Mapped(heap, mapped)
  BY TouchFacts DEF Carving
<1>2. /\ c \in Calls /\ c.at = s /\ c.size = call[t].size /\ c.ptr = call[t].ptr
  BY <1>1 DEF Calls
<1>3. call' = [call EXCEPT ![t] = c]
  OBVIOUS
<1>. HIDE DEF c
<1>4. call'[t] = c
  BY <1>1, <1>3 DEF CallsSound
<1>5. CallSound(t)'
  BY <1>1, <1>2, <1>4 DEF CallSound, Carving, Allocating
<1>6. HeldSound'
  BY <1>1 DEF HeldSound
<1>7. StageSound(t)' /\ c.at \notin Carving \cup {"merge"}
  BY <1>2, <1>4 DEF StageSound, Carving
<1>8. mutex' = (IF c.at = "merge" THEN t ELSE None) /\ fault' = "none"
  BY <1>1, <1>2
<1>. QED
  BY <1>1, <1>2, <1>3, <1>5, <1>6, <1>7, <1>8, TouchStep

\* What callers hold stays sound when used blocks stay and keep their sizes.
LEMMA HeldKept ==
    ASSUME HeldSound, UNCHANGED held, Used(heap') = Used(heap),
           \A a \in Used(heap) : heap'.block[a].size = heap.block[a].size
    PROVE  HeldSound'
BY DEF HeldSound

\* A step that cuts the block of a new region keeps what is used.
LEMMA CarveStep ==
    ASSUME IInv, NEW t \in Threads, Touch(t), ~raced', UNCHANGED <<mutex, held, fault>>,
           call[t].at \in {"new"} \cup Carving,
           NEW c \in Calls, call' = [call EXCEPT ![t] = c], c.at \in Carving,
           c.size = call[t].size, c.ptr = call[t].ptr, c.block \in DOMAIN heap'.block,
           Used(heap') = Used(heap),
           \A a \in Used(heap) : heap'.block[a].size = heap.block[a].size,
           StageSound(t)'
    PROVE  IInv'
<1>1. /\ ~raced /\ fault = "none" /\ CallsSound /\ HeldSound
      /\ call[t] \in Calls /\ CallSound(t) /\ mutex = None
  BY TouchFacts DEF Carving
<1>2. call'[t] = c
  BY <1>1 DEF CallsSound
<1>3. CallSound(t)'
  BY <1>1, <1>2 DEF CallSound, Carving, Allocating
<1>4. HeldSound'
  BY <1>1, HeldKept
<1>5. mutex' = (IF c.at = "merge" THEN t ELSE None) /\ fault' = "none"
  BY <1>1 DEF Carving
<1>. QED
  BY <1>1, <1>3, <1>4, <1>5, TouchStep

\* A new region's block is unused and in no list of unused blocks, and t's alone.
LEMMA NewBlockStep ==
    ASSUME IInv, NEW t \in Threads, NewBlock(t), ~raced' PROVE IInv'
<1>. DEFINE n == call[t].size
            size == IF n < RegionSize THEN RegionSize ELSE n
<1>1. /\ Touch(t) /\ call[t].at = "new" /\ UNCHANGED <<mutex, held, fault>>
  BY DEF NewBlock
<1>2. PICK r \in Regions :
         LET b == <<r, 0>>
         IN  /\ r \notin DOMAIN mapped
             /\ mapped' = AllocMemory(r, size + HeaderSize)
             /\ heap' = [AddHeader(heap, b, size) EXCEPT !.list = Append(@, b),
                                                         !.region_count = @ + 1]
             /\ call' = [call EXCEPT ![t].block = b,
                                     ![t].at = IF Splits(heap', b, n) THEN "link" ELSE "mark"]
  BY DEF NewBlock
<1>3. /\ ~raced /\ CallsSound /\ call[t] \in Calls /\ CallSound(t) /\ Mapped(heap, mapped)
      /\ Sound(heap, {}, {}) /\ CoalescedBut(heap, {}) /\ heap \in Heaps
  BY <1>1, TouchFacts, HeapTyped DEF Carving
<1>4. n \in Sizes /\ n \in Nat \ {0} /\ size \in Nat \ {0} /\ size >= RegionSize /\ size >= n
  <2>1. n \in Sizes
    BY <1>1, <1>3 DEF CallSound, Allocating
  <2>2. RegionSize \in Nat \ {0} /\ n \in Nat \ {0}
    BY <2>1, AllocatorAssumption
  <2>. QED
    BY <2>1, <2>2
<1>. HIDE DEF size
<1>. DEFINE b == <<r, 0>>
            s == IF Splits(heap', b, n) THEN "link" ELSE "mark"
            c == [call[t] EXCEPT !.block = b, !.at = s]
<1>5. b \in Addresses /\ Offset(b) = 0 /\ b \notin DOMAIN heap.block
  BY <1>2, <1>3 DEF Addresses, Offset, Region, Mapped
<1>6. call' = [call EXCEPT ![t] = c]
  BY <1>2, <1>3 DEF CallsSound
<1>7. c \in Calls /\ c.at = s /\ c.block = b /\ c.size = n /\ c.ptr = call[t].ptr
  BY <1>3, <1>5 DEF Calls
<1>8. heap' = [AddHeader(heap, b, size) EXCEPT !.list = Append(@, b), !.region_count = @ + 1]
  BY <1>2
<1>9. (s = "link" /\ Splits(heap', b, n)) \/ s = "mark"
  OBVIOUS
<1>10. b = <<r, 0>> /\ r \notin DOMAIN mapped /\ mapped' = AllocMemory(r, size + HeaderSize)
  BY <1>2
<1>. HIDE DEF b, c, s
<1>11. NewRegion(heap', heap, b, size)
  BY <1>3, <1>4, <1>5, <1>8, NewRegionIs
<1>12. Sound(heap', {b}, {b}) /\ CoalescedBut(heap', {})
  BY <1>3, <1>4, <1>5, <1>11, NewRegionSound, NewRegionCoalesced DEF Sound
<1>13. CoalescedBut(heap', {b})
  BY <1>12 DEF CoalescedBut
<1>14. /\ heap' \in Heaps /\ b \in DOMAIN heap'.block /\ ~heap'.block[b].used
       /\ heap'.block[b].size = size
       /\ \A a \in DOMAIN heap.block : heap'.block[a] = heap.block[a]
       /\ DOMAIN heap'.block = DOMAIN heap.block \cup {b}
  BY <1>11 DEF NewRegion, Added
<1>15. Used(heap') = Used(heap) /\ \A a \in Used(heap) : heap'.block[a].size = heap.block[a].size
  BY <1>5, <1>14 DEF Used
<1>16. call'[t] = c
  BY <1>3, <1>6 DEF CallsSound
<1>17. Mapped(heap', mapped')
  BY <1>3, <1>4, <1>10, <1>11, NewRegionMapped
<1>18. StageSound(t)'
  BY <1>4, <1>7, <1>9, <1>12, <1>13, <1>14, <1>16, <1>17 DEF StageSound, Carving
<1>19. c.at \in Carving
  BY <1>7, <1>9 DEF Carving
<1>. QED
  BY <1>1, <1>6, <1>7, <1>14, <1>15, <1>18, <1>19, CarveStep

\* The block and size of a thread that carves.
LEMMA CarvingFacts ==
    ASSUME IInv, NEW t \in Threads, Touch(t), ~raced', call[t].at \in Carving
    PROVE  /\ ~raced /\ heap \in Heaps /\ StageSound(t) /\ call \in [Threads -> Calls]
           /\ call[t] \in Calls /\ call[t].size \in Nat \ {0} /\ call[t].size \in Sizes
           /\ call[t].block \in DOMAIN heap.block /\ call[t].at # "merge"
<1>1. ~raced /\ StageSound(t) /\ CallSound(t) /\ call[t] \in Calls /\ CallsSound
  BY TouchFacts
<1>2. heap \in Heaps
  BY <1>1, HeapTyped
<1>. QED
  BY <1>1, <1>2, AllocatorAssumption DEF CallSound, CallsSound, Allocating, Carving

\* The call after t has moved on to stage s.
LEMMA StageCall ==
    ASSUME NEW t \in Threads, call \in [Threads -> Calls], NEW s \in Carving,
           call' = [call EXCEPT ![t].at = s]
    PROVE  \E c \in Calls : /\ call' = [call EXCEPT ![t] = c] /\ call'[t] = c
                            /\ c.at = s /\ c.size = call[t].size
                            /\ c.ptr = call[t].ptr /\ c.block = call[t].block
<1>. DEFINE c == [call[t] EXCEPT !.at = s]
<1>1. c \in Calls /\ c.at = s /\ c.size = call[t].size /\ c.ptr = call[t].ptr
      /\ c.block = call[t].block
  BY DEF Calls, Carving
<1>2. call' = [call EXCEPT ![t] = c] /\ call'[t] = c
  OBVIOUS
<1>. QED
  BY <1>1, <1>2

\* SplitBlock links the remainder of the new block, which is in no free list yet.
LEMMA NewBlockLinkStep ==
    ASSUME IInv, NEW t \in Threads, NewBlockLink(t), ~raced' PROVE IInv'
<1>. DEFINE n == call[t].size
            b == call[t].block
            r == Remainder(b, n)
<1>1. /\ Touch(t) /\ call[t].at = "link" /\ UNCHANGED <<mapped, mutex, held, fault>>
      /\ heap' = SplitLink(heap, b, n) /\ call' = [call EXCEPT ![t].at = "enlist"]
  BY DEF NewBlockLink
<1>2. /\ heap \in Heaps /\ call \in [Threads -> Calls] /\ call[t] \in Calls
      /\ n \in Nat \ {0} /\ b \in DOMAIN heap.block
      /\ ~heap.block[b].used /\ heap.block[b].size >= n
      /\ Splits(heap, b, n) /\ Sound(heap, {b}, {b}) /\ CoalescedBut(heap, {})
      /\ Mapped(heap, mapped)
  BY <1>1, CarvingFacts DEF Carving, StageSound
<1>3. PICK c \in Calls : /\ call' = [call EXCEPT ![t] = c] /\ call'[t] = c
                         /\ c.at = "enlist" /\ c.size = n
                         /\ c.ptr = call[t].ptr /\ c.block = b
  BY <1>1, <1>2, StageCall DEF Carving
<1>. DEFINE g == Cut(heap, b, n)
<1>4. Settled(t)' = g
  BY <1>1, <1>3 DEF Settled, Cut
<1>. HIDE DEF b, n, r, g
<1>5. PICK i \in Indices(heap.list) : heap.list[i] = b
  BY <1>2, IndexOf
<1>6. r \notin DOMAIN heap.block
  BY <1>2, RemainderIsNew DEF Sound, r
<1>7. Added(heap', heap, r, heap.block[b].size - n - HeaderSize, i + 1)
  BY <1>1, <1>2, <1>5, <1>6, SplitLinkIs DEF Sound, Tiled, ListExact, r
<1>8. /\ heap' \in Heaps /\ DOMAIN heap'.block = DOMAIN heap.block \cup {r}
      /\ ~heap'.block[r].used /\ \A a \in DOMAIN heap.block : heap'.block[a] = heap.block[a]
  BY <1>7 DEF Added
<1>9. Sound(g, {b} \cup {r}, {b})
  BY <1>2, CutSound DEF g, r
<1>10. ~MergesRight(heap, b)
  BY <1>2, NothingRight
<1>11. PICK x \in Indices(heap.list) : heap.list[x] = b /\ CutOff(g, heap, b, n, x)
  BY <1>2, CutSound DEF g
<1>12. Mapped(g, mapped')
  <2>1. SameEnds(g, heap) /\ g \in Heaps
    BY <1>2, <1>9, <1>11, CutEnds DEF Sound
  <2>. QED
    BY <1>1, <1>2, <2>1, MappedKept
<1>13. CoalescedBut(g, {b})
  <2>1. ListExact(heap)
    BY <1>2 DEF Sound, Tiled
  <2>. QED
    BY <1>2, <1>10, <1>11, <2>1, CutMakesPair
<1>14. {b} \cup {r} = {b, r}
  OBVIOUS
<1>15. Used(heap') = Used(heap) /\ \A a \in Used(heap) : heap'.block[a].size = heap.block[a].size
  BY <1>6, <1>8 DEF Used
<1>16. StageSound(t)'
  BY <1>2, <1>3, <1>4, <1>6, <1>8, <1>9, <1>12, <1>13, <1>14 DEF StageSound, Carving, r
<1>17. c.at \in Carving /\ c.block \in DOMAIN heap'.block /\ call[t].at \in {"new"} \cup Carving
  BY <1>1, <1>2, <1>3, <1>8 DEF Carving
<1>. QED
  BY <1>1, <1>3, <1>15, <1>16, <1>17, CarveStep DEF n

\* The remainder gets into the free list; the block it was cut from is still too large.
LEMMA NewBlockEnlistStep ==
    ASSUME IInv, NEW t \in Threads, NewBlockEnlist(t), ~raced' PROVE IInv'
<1>. DEFINE n == call[t].size
            b == call[t].block
            r == Remainder(b, n)
            k == Settled(t)
            g == SplitShrink(heap', b, n)
<1>1. /\ Touch(t) /\ call[t].at = "enlist" /\ UNCHANGED <<mapped, mutex, held, fault>>
      /\ heap' = AddToFreeList(heap, r) /\ call' = [call EXCEPT ![t].at = "shrink"]
  BY DEF NewBlockEnlist
<1>2. /\ heap \in Heaps /\ call \in [Threads -> Calls] /\ call[t] \in Calls
      /\ n \in Nat \ {0} /\ b \in DOMAIN heap.block
      /\ ~heap.block[b].used /\ heap.block[b].size >= n
      /\ r \in DOMAIN heap.block /\ r # b /\ ~heap.block[r].used
      /\ Sound(k, {b, r}, {b}) /\ CoalescedBut(k, {b}) /\ Mapped(k, mapped)
  BY <1>1, CarvingFacts DEF Carving, StageSound
<1>3. PICK c \in Calls : /\ call' = [call EXCEPT ![t] = c] /\ call'[t] = c
                         /\ c.at = "shrink" /\ c.size = n
                         /\ c.ptr = call[t].ptr /\ c.block = b
  BY <1>1, <1>2, StageCall DEF Carving
<1>4. Settled(t)' = g /\ k = SplitShrink(heap, b, n)
  BY <1>3 DEF Settled
<1>5. g = SplitShrink(AddToFreeList(heap, r), b, n)
  BY <1>1
<1>. HIDE DEF b, n, r, g, k
<1>6. Resized(k, heap, b, n)
  BY <1>2, <1>4, SplitShrinkIs
<1>7. /\ k \in Heaps /\ k.free = heap.free /\ DOMAIN k.block = DOMAIN heap.block
      /\ ~k.block[r].used /\ \A a \in DOMAIN heap.block : k.block[a].used = heap.block[a].used
  BY <1>2, <1>6 DEF Resized
<1>8. \A i \in Indices(heap.free) : heap.free[i] \in DOMAIN heap.block /\ heap.free[i] # b
  <2>1. FreeExact(k, {b, r}, {b})
    BY <1>2 DEF Sound
  <2>2. \A i \in Indices(k.free) : k.free[i] \in DOMAIN k.block /\ k.free[i] \notin {b, r}
    BY <1>7, <2>1, FreeFacts
  <2>. QED
    BY <1>7, <2>2
<1>9. Enlisted(g, k, r)
  BY <1>2, <1>4, <1>5, <1>8, EnlistThenShrink
<1>10. Sound(g, {b}, {b})
  <2>. DEFINE P == {b, r}
  <2>1. r \in P /\ P \ {r} = {b} /\ b \in P /\ Sound(k, P, {b})
    BY <1>2
  <2>. HIDE DEF P
  <2>2. \A a \in {b} : a \in P \/ (a \in DOMAIN k.block /\ k.block[a].used)
    BY <2>1
  <2>3. Sound(g, P \ {r}, {b})
    BY <1>2, <1>7, <1>9, <2>1, <2>2, EnlistSound
  <2>. QED
    BY <2>1, <2>3
<1>11. CoalescedBut(g, {b})
  <2>1. g.list = k.list /\ \A a \in DOMAIN k.block : k.block[a].used => g.block[a].used
    BY <1>7, <1>9 DEF Enlisted, Marked
  <2>2. ListExact(k)
    BY <1>2 DEF Sound, Tiled
  <2>. QED
    BY <1>2, <1>7, <2>1, <2>2, CoalescedKept
<1>12. Marked(heap', heap, r, FALSE)
  BY <1>1, <1>2, <1>8, EnlistedIs DEF Enlisted, r
<1>13. Used(heap') = Used(heap) /\ \A a \in Used(heap) : heap'.block[a].size = heap.block[a].size
  BY <1>2, <1>12 DEF Used, Marked
<1>14. /\ heap' \in Heaps /\ DOMAIN heap'.block = DOMAIN heap.block
       /\ ~heap'.block[b].used /\ heap'.block[b].size >= n
  BY <1>2, <1>12 DEF Marked
<1>15. Mapped(g, mapped')
  <2>1. Marked(g, k, r, FALSE)
    BY <1>9 DEF Enlisted
  <2>2. SameEnds(g, k)
    BY <1>7, <2>1, MarkedEnds
  <2>3. g \in Heaps
    BY <2>1 DEF Marked
  <2>. QED
    BY <1>1, <1>2, <1>7, <2>2, <2>3, MappedKept
<1>16. StageSound(t)'
  BY <1>3, <1>4, <1>10, <1>11, <1>14, <1>15 DEF StageSound, Carving
<1>17. c.at \in Carving /\ c.block \in DOMAIN heap'.block /\ call[t].at \in {"new"} \cup Carving
  BY <1>1, <1>2, <1>3, <1>14 DEF Carving
<1>. QED
  BY <1>1, <1>3, <1>13, <1>16, <1>17, CarveStep DEF n

\* Shrinking b makes the heap what it was to be.
LEMMA NewBlockShrinkStep ==
    ASSUME IInv, NEW t \in Threads, NewBlockShrink(t), ~raced' PROVE IInv'
<1>. DEFINE n == call[t].size
            b == call[t].block
<1>1. /\ Touch(t) /\ call[t].at = "shrink" /\ UNCHANGED <<mapped, mutex, held, fault>>
      /\ heap' = SplitShrink(heap, b, n) /\ call' = [call EXCEPT ![t].at = "mark"]
  BY DEF NewBlockShrink
<1>2. /\ heap \in Heaps /\ call \in [Threads -> Calls] /\ call[t] \in Calls
      /\ n \in Nat \ {0} /\ b \in DOMAIN heap.block /\ ~heap.block[b].used
      /\ Sound(Settled(t), {b}, {b}) /\ CoalescedBut(Settled(t), {b})
      /\ Mapped(Settled(t), mapped)
  BY <1>1, CarvingFacts DEF Carving, StageSound
<1>3. PICK c \in Calls : /\ call' = [call EXCEPT ![t] = c] /\ call'[t] = c
                         /\ c.at = "mark" /\ c.size = n
                         /\ c.ptr = call[t].ptr /\ c.block = b
  BY <1>1, <1>2, StageCall DEF Carving
<1>4. heap' = Settled(t)
  BY <1>1 DEF Settled
<1>. HIDE DEF b, n
<1>5. Resized(heap', heap, b, n)
  BY <1>1, <1>2, SplitShrinkIs
<1>6. /\ heap' \in Heaps /\ DOMAIN heap'.block = DOMAIN heap.block
      /\ ~heap'.block[b].used /\ heap'.block[b].size = n
  BY <1>2, <1>5 DEF Resized
<1>7. Used(heap') = Used(heap) /\ \A a \in Used(heap) : heap'.block[a].size = heap.block[a].size
  BY <1>2, <1>5 DEF Used, Resized
<1>8. StageSound(t)'
  <2>1. Sound(heap', {b}, {b}) /\ CoalescedBut(heap', {b}) /\ Mapped(heap', mapped')
    BY <1>1, <1>2, <1>4
  <2>2. n >= n
    BY <1>2
  <2>. QED
    BY <1>3, <1>6, <2>1, <2>2 DEF StageSound, Carving
<1>9. c.at \in Carving /\ c.block \in DOMAIN heap'.block /\ call[t].at \in {"new"} \cup Carving
  BY <1>1, <1>2, <1>3, <1>6 DEF Carving
<1>. QED
  BY <1>1, <1>3, <1>7, <1>8, <1>9, CarveStep DEF n

\* Marked used, the block of the new region is as any other and goes to the caller.
LEMMA NewBlockMarkStep ==
    ASSUME IInv, NEW t \in Threads, NewBlockMark(t), ~raced' PROVE IInv'
<1>. DEFINE n == call[t].size
            b == call[t].block
<1>1. /\ Touch(t) /\ call[t].at = "mark" /\ UNCHANGED <<mapped, mutex, fault>>
      /\ heap' = SetUsed(heap, b, TRUE) /\ MallocReturns(t, b)
  BY DEF NewBlockMark
<1>2. /\ heap \in Heaps /\ n \in Sizes /\ b \in DOMAIN heap.block /\ heap.block[b].size >= n
      /\ Sound(heap, {b}, {b}) /\ CoalescedBut(heap, {b}) /\ Mapped(heap, mapped)
  BY <1>1, CarvingFacts DEF Carving, StageSound
<1>. HIDE DEF b, n
<1>3. Marked(heap', heap, b, TRUE) /\ Sound(heap', {}, {})
  BY <1>1, <1>2, UseSound
<1>4. CoalescedBut(heap', {})
  <2>. DEFINE E == {b}
              N == {}
  <2>1. /\ heap'.list = heap.list
        /\ \A a \in DOMAIN heap.block : heap.block[a].used => heap'.block[a].used
        /\ \A a \in E \ N : heap'.block[a].used
    BY <1>2, <1>3 DEF Marked
  <2>2. ListExact(heap) /\ CoalescedBut(heap, E)
    BY <1>2 DEF Sound, Tiled
  <2>. HIDE DEF E, N
  <2>3. CoalescedBut(heap', N)
    BY <1>2, <2>1, <2>2, CoalescedKept
  <2>. QED
    BY <2>3 DEF N
<1>5. /\ Used(heap') = Used(heap) \cup {b} /\ SizesKept(heap', heap, b)
      /\ heap'.block[b].size >= n
  BY <1>2, <1>3 DEF Used, SizesKept, Marked
<1>6. call[t].at # "merge"
  BY <1>1
<1>7. Mapped(heap', mapped')
  <2>1. SameEnds(heap', heap) /\ heap' \in Heaps
    BY <1>2, <1>3, MarkedEnds DEF Sound
  <2>. QED
    BY <1>1, <1>2, <2>1, MappedKept
<1>. QED
  BY <1>1, <1>2, <1>3, <1>4, <1>5, <1>6, <1>7, ReturnStep DEF n

\* Free's pointer is of a used block; MergeBlock finds where its run begins.
LEMMA FreeEnlistStep ==
    ASSUME IInv, NEW t \in Threads, FreeEnlist(t), ~raced' PROVE IInv'
<1>. DEFINE p == call[t].ptr
            b == LeftmostUnused(heap', p)
            c == [Idle EXCEPT !.at = "merge", !.block = b]
<1>1. /\ Touch(t) /\ call[t].at = "free" /\ mutex' = t /\ UNCHANGED <<mapped, fault>>
      /\ heap' = AddToFreeList(heap, p) /\ held' = [q \in DOMAIN held \ {p} |-> held[q]]
      /\ call' = [call EXCEPT ![t] = c]
  BY DEF FreeEnlist, Locked
<1>2. /\ ~raced /\ fault = "none" /\ CallsSound /\ HeldSound /\ CallSound(t)
      /\ Mapped(heap, mapped)
      /\ Sound(heap, {}, {}) /\ CoalescedBut(heap, {}) /\ heap \in Heaps
  BY <1>1, TouchFacts, HeapTyped DEF Carving
<1>3. p \in DOMAIN held /\ p \in DOMAIN heap.block /\ heap.block[p].used
  BY <1>1, <1>2 DEF CallSound, HeldSound, Used
<1>. HIDE DEF p, b
<1>4. Marked(heap', heap, p, FALSE) /\ RunStarts(heap', p, b) /\ Sound(heap', {}, {b})
  BY <1>1, <1>2, <1>3, ReleaseSound DEF b
<1>5. /\ heap' \in Heaps /\ b \in DOMAIN heap'.block /\ ~heap'.block[b].used
      /\ CoalescedBut(heap', Run(heap', b))
  BY <1>4 DEF Marked, RunStarts
<1>6. b \in Addresses
  BY <1>5, HeapFields
<1>7. c \in Calls /\ c.at = "merge" /\ c.block = b /\ c.ptr = None
  BY <1>6 DEF Idle, Calls
<1>. HIDE DEF c
<1>8. call'[t] = c
  BY <1>1, <1>2 DEF CallsSound
<1>9. CallSound(t)'
  BY <1>5, <1>7, <1>8 DEF CallSound, Carving, Allocating
<1>10. HeldSound'
  <2>1. held' \in [DOMAIN held' -> Sizes] /\ DOMAIN held' = DOMAIN held \ {p}
        /\ \A q \in DOMAIN held' : held'[q] = held[q]
    BY <1>1, <1>2 DEF HeldSound
  <2>2. Used(heap') = Used(heap) \ {p}
    BY <1>3, <1>4 DEF Used, Marked
  <2>3. \A q \in Used(heap') : heap'.block[q].size = heap.block[q].size
    BY <1>4 DEF Used, Marked
  <2>. QED
    BY <1>2, <2>1, <2>2, <2>3 DEF HeldSound
<1>11. Mapped(heap', mapped')
  <2>1. SameEnds(heap', heap)
    BY <1>2, <1>4, MarkedEnds
  <2>. QED
    BY <1>1, <1>2, <1>5, <2>1, MappedKept
<1>12. StageSound(t)'
  BY <1>4, <1>5, <1>7, <1>8, <1>11 DEF StageSound, Carving
<1>13. DOMAIN held \ {call[t].ptr} \subseteq DOMAIN held'
  BY <1>1 DEF p
<1>. QED
  BY <1>1, <1>2, <1>7, <1>9, <1>10, <1>12, <1>13, TouchStep

\* The block and the heap of a thread in MergeRightBlock.
LEMMA MergingFacts ==
    ASSUME IInv, NEW t \in Threads, Touch(t), ~raced', call[t].at = "merge"
    PROVE  /\ ~raced /\ fault = "none" /\ mutex = t /\ heap \in Heaps /\ HeldSound
           /\ call \in [Threads -> Calls] /\ call[t] \in Calls /\ CallSound(t)
           /\ call[t].block \in DOMAIN heap.block /\ ~heap.block[call[t].block].used
           /\ Sound(heap, {}, {call[t].block}) /\ Mapped(heap, mapped)
           /\ CoalescedBut(heap, Run(heap, call[t].block))
<1>1. /\ ~raced /\ fault = "none" /\ CallsSound /\ OneInside /\ HeldSound
      /\ StageSound(t) /\ CallSound(t) /\ call[t] \in Calls
  BY TouchFacts
<1>2. heap \in Heaps
  BY <1>1, HeapTyped
<1>3. mutex = t
  BY <1>1 DEF OneInside
<1>4. call[t].block \in DOMAIN heap.block
  BY <1>1 DEF CallSound
<1>5. /\ ~heap.block[call[t].block].used /\ Sound(heap, {}, {call[t].block})
      /\ Mapped(heap, mapped)
      /\ CoalescedBut(heap, Run(heap, call[t].block))
  BY <1>1 DEF StageSound
<1>. QED
  BY <1>1, <1>2, <1>3, <1>4, <1>5 DEF CallsSound

\* One turn of MergeRightBlock: the next block of the run is merged.
LEMMA FreeMergeRightStep ==
    ASSUME IInv, NEW t \in Threads, FreeMergeRight(t), ~raced' PROVE IInv'
<1>. DEFINE b == call[t].block
<1>1. /\ Touch(t) /\ call[t].at = "merge" /\ UNCHANGED <<mapped, mutex, call, held, fault>>
      /\ MergesRight(heap, b) /\ heap' = MergeNext(heap, b)
  BY DEF FreeMergeRight
<1>2. /\ ~raced /\ fault = "none" /\ mutex = t /\ heap \in Heaps /\ HeldSound
      /\ call \in [Threads -> Calls] /\ call[t] \in Calls /\ CallSound(t)
      /\ b \in DOMAIN heap.block /\ ~heap.block[b].used
      /\ Sound(heap, {}, {b}) /\ CoalescedBut(heap, Run(heap, b)) /\ Mapped(heap, mapped)
  BY <1>1, MergingFacts
<1>. HIDE DEF b
<1>3. MergedRight(heap', heap, b) /\ Sound(heap', {}, {b})
  <2>. DEFINE E == {b}
  <2>1. b \in E /\ Sound(heap, {}, E)
    BY <1>2
  <2>. HIDE DEF E
  <2>2. MergedRight(heap', heap, b) /\ Sound(heap', {}, E)
    BY <1>1, <1>2, <2>1, MergeSound
  <2>. QED
    BY <2>2 DEF E
<1>4. PICK i \in Indices(heap.list), j \in Indices(heap.free) :
         /\ i < Len(heap.list) /\ heap.list[i] = b
         /\ Merged(heap', heap, b, heap.list[i + 1], i + 1, j)
         /\ heap.list[i + 1] \in DOMAIN heap.block /\ heap.list[i + 1] # b
         /\ ~heap.block[heap.list[i + 1]].used
  BY <1>3 DEF MergedRight
<1>5. CoalescedBut(heap', Run(heap', b))
  <2>. DEFINE r == heap.list[i + 1]
  <2>1. ListExact(heap) /\ ListExact(heap')
    BY <1>2, <1>3 DEF Sound, Tiled
  <2>2. heap.list[i + 1] = r /\ Merged(heap', heap, b, r, i + 1, j)
    BY <1>4
  <2>. HIDE DEF r
  <2>. QED
    BY <1>2, <1>4, <2>1, <2>2, MergeRunCoalesced
<1>6. /\ Used(heap') = Used(heap)
      /\ \A a \in Used(heap) : heap'.block[a].size = heap.block[a].size
      /\ b \in DOMAIN heap'.block /\ ~heap'.block[b].used
  BY <1>2, <1>4 DEF Used, Merged
<1>7. HeldSound'
  BY <1>1, <1>2, <1>6, HeldKept
<1>8. Mapped(heap', mapped')
  <2>1. SameEnds(heap', heap) /\ heap' \in Heaps
    BY <1>2, <1>3, MergedEnds DEF Sound
  <2>. QED
    BY <1>1, <1>2, <2>1, MappedKept
<1>9. StageSound(t)'
  BY <1>1, <1>3, <1>5, <1>6, <1>8 DEF StageSound, Carving, b
<1>10. CallSound(t)'
  BY <1>1, <1>2, <1>6 DEF CallSound, Carving, Allocating, b
<1>11. call' = [call EXCEPT ![t] = call[t]]
  BY <1>1, <1>2
<1>12. mutex' = IF call[t].at = "merge" THEN t ELSE None
  BY <1>1, <1>2
<1>13. /\ fault' = "none" /\ DOMAIN held \ {call[t].ptr} \subseteq DOMAIN held'
       /\ call[t].at \in Carving \cup {"merge"}
  BY <1>1, <1>2
<1>. QED
  BY <1>1, <1>2, <1>7, <1>9, <1>10, <1>11, <1>12, <1>13, TouchStep

\* The end of Free: what is left of the run is one block, in its place in the free list
\* or unmapped with its region.
LEMMA FreeMergeStep ==
    ASSUME IInv, NEW t \in Threads, FreeMerge(t), ~raced' PROVE IInv'
<1>. DEFINE b == call[t].block
            sorted == Resort(heap, b)
<1>1. /\ Touch(t) /\ call[t].at = "merge" /\ mutex' = None /\ UNCHANGED held
      /\ heap.block[b].used \/ ~MergesRight(heap, b)
      /\ call' = [call EXCEPT ![t] = Idle]
  BY DEF FreeMerge
<1>2. /\ ~raced /\ fault = "none" /\ mutex = t /\ heap \in Heaps /\ HeldSound
      /\ call \in [Threads -> Calls] /\ call[t] \in Calls /\ CallSound(t)
      /\ b \in DOMAIN heap.block /\ ~heap.block[b].used
      /\ Sound(heap, {}, {b}) /\ CoalescedBut(heap, Run(heap, b)) /\ Mapped(heap, mapped)
  BY <1>1, MergingFacts
<1>3. b \in ToSet(heap.free)
  <2>1. FreeExact(heap, {}, {b})
    BY <1>2 DEF Sound
  <2>2. \E i \in Indices(heap.free) : heap.free[i] = b
    BY <1>2, <2>1, FreeFacts
  <2>. QED
    BY <2>2 DEF ToSet, Indices
<1>4. /\ \/ /\ Surplus(sorted, b) /\ heap' = DeleteBlock(sorted, b)
            /\ mapped' = FreeMemory(Region(b), sorted.block[b].size + HeaderSize)
         \/ ~Surplus(sorted, b) /\ heap' = sorted /\ UNCHANGED mapped
      /\ UNCHANGED fault
  BY <1>2, <1>3 DEF FreeMerge
<1>. HIDE DEF b, sorted
<1>5. Marked(sorted, heap, b, FALSE) /\ Sound(sorted, {}, {b}) /\ FreeExact(sorted, {}, {})
  BY <1>2, ResortSound DEF sorted
<1>6. CoalescedBut(sorted, {})
  <2>1. PICK i \in Indices(heap.list) : heap.list[i] = b
    BY <1>2, IndexOf
  <2>2. ListExact(heap)
    BY <1>2 DEF Sound, Tiled
  <2>3. CoalescedBut(heap, {})
    BY <1>1, <1>2, <2>1, <2>2, RunEnds
  <2>4. /\ sorted.list = heap.list
        /\ \A a \in DOMAIN heap.block : heap.block[a].used => sorted.block[a].used
    BY <1>2, <1>5 DEF Marked
  <2>. QED
    BY <1>2, <2>2, <2>3, <2>4, CoalescedKept
<1>7. /\ sorted \in Heaps /\ b \in DOMAIN sorted.block /\ ~sorted.block[b].used
      /\ Used(sorted) = Used(heap)
      /\ \A a \in Used(heap) : sorted.block[a].size = heap.block[a].size
  BY <1>2, <1>5 DEF Marked, Used
<1>8. Mapped(sorted, mapped)
  <2>1. SameEnds(sorted, heap)
    BY <1>2, <1>5, MarkedEnds
  <2>. QED
    BY <1>2, <1>7, <2>1, MappedKept
<1>9. /\ Sound(heap', {}, {}) /\ CoalescedBut(heap', {}) /\ Mapped(heap', mapped')
      /\ Used(heap') = Used(heap)
      /\ \A a \in Used(heap) : heap'.block[a].size = heap.block[a].size
  <2>1. CASE Surplus(sorted, b)
    <3>1. /\ IsBlockFree(sorted, b) /\ heap' = DeleteBlock(sorted, b)
          /\ mapped' = FreeMemory(Region(b), sorted.block[b].size + HeaderSize)
      BY <1>4, <2>1 DEF Surplus
    <3>2. Sound(heap', {}, {}) /\ CoalescedBut(heap', {})
      BY <1>5, <1>6, <1>7, <3>1, DeleteSound
    <3>3. PICK i, j : Deleted(heap', sorted, b, i, j)
      BY <1>5, <1>6, <1>7, <3>1, DeleteSound
    <3>4. Used(heap') = Used(sorted)
          /\ \A a \in Used(sorted) : heap'.block[a].size = sorted.block[a].size
      BY <1>7, <3>3 DEF Used, Deleted
    <3>5. Mapped(heap', mapped')
      BY <1>5, <1>7, <1>8, <3>1, <3>3, DeleteMapped DEF Sound
    <3>. QED
      BY <1>7, <3>2, <3>4, <3>5
  <2>2. CASE ~Surplus(sorted, b)
    <3>1. Sound(sorted, {}, {})
      BY <1>5, <1>7, <2>2, KeepSound
    <3>. QED
      BY <1>4, <1>6, <1>7, <1>8, <2>2, <3>1
  <2>. QED
    BY <2>1, <2>2
<1>10. HeldSound'
  BY <1>1, <1>2, <1>9, HeldKept
<1>11. call'[t] = Idle /\ Idle.at = "idle" /\ Idle.ptr = None
  BY <1>1, <1>2 DEF Idle
<1>12. StageSound(t)' /\ CallSound(t)'
  BY <1>11 DEF StageSound, CallSound, Carving, Allocating
<1>13. /\ mutex' = (IF Idle.at = "merge" THEN t ELSE None) /\ fault' = "none"
       /\ DOMAIN held \ {call[t].ptr} \subseteq DOMAIN held'
       /\ Idle.at \notin Carving \cup {"merge"}
  BY <1>1, <1>2, <1>4, <1>11 DEF Carving
<1>. QED
  BY <1>1, <1>2, <1>9, <1>10, <1>11, <1>12, <1>13, IdleIsCall, TouchStep

\* Realloc in place takes in the right neighbour, and cuts off what is too much.
LEMMA ReallocExtendStep ==
    ASSUME IInv, NEW t \in Threads, ReallocExtend(t), ~raced' PROVE IInv'
<1>. DEFINE p == call[t].ptr
            n == call[t].size
            g == MergeNext(heap, p)
<1>1. /\ Touch(t) /\ call[t].at = "realloc" /\ UNCHANGED <<mapped, mutex, fault>>
      /\ Extends(heap, p, n) /\ heap' = SplitBlock(g, p, n)
      /\ held' = [held EXCEPT ![p] = n] /\ call' = [call EXCEPT ![t] = Idle]
  BY DEF ReallocExtend, Locked
<1>2. /\ ~raced /\ fault = "none" /\ CallsSound /\ HeldSound /\ CallSound(t) /\ mutex = None
      /\ Mapped(heap, mapped)
      /\ Sound(heap, {}, {}) /\ CoalescedBut(heap, {}) /\ heap \in Heaps
  BY <1>1, TouchFacts, HeapTyped DEF Carving
<1>3. /\ p \in DOMAIN held /\ p \in DOMAIN heap.block /\ heap.block[p].used
      /\ n \in Sizes /\ n \in Nat \ {0}
  BY <1>1, <1>2, AllocatorAssumption DEF CallSound, HeldSound, Used
<1>4. call'[t] = Idle /\ Idle.at = "idle" /\ Idle.ptr = None
  BY <1>1, <1>2 DEF CallsSound, Idle
<1>5. DOMAIN held' = DOMAIN held /\ held' \in [DOMAIN held -> Sizes]
  BY <1>1, <1>2, <1>3 DEF HeldSound
<1>. HIDE DEF p, n, g
<1>6. MergedRight(g, heap, p) /\ Sound(g, {}, {})
  BY <1>1, <1>2, <1>3, MergeSound DEF Extends, g
<1>7. PICK i \in Indices(heap.list), j \in Indices(heap.free) :
         /\ i < Len(heap.list) /\ heap.list[i] = p
         /\ Merged(g, heap, p, heap.list[i + 1], i + 1, j)
         /\ heap.list[i + 1] \in DOMAIN heap.block /\ heap.list[i + 1] # p
         /\ ~heap.block[heap.list[i + 1]].used
  BY <1>6 DEF MergedRight
<1>8. ~MergesRight(g, p)
  BY <1>2, <1>6, MergedOnce
<1>9. CoalescedBut(g, {})
  <2>. DEFINE r == heap.list[i + 1]
  <2>1. ListExact(heap)
    BY <1>2 DEF Sound, Tiled
  <2>2. heap.list[i + 1] = r /\ Merged(g, heap, p, r, i + 1, j)
    BY <1>7
  <2>. HIDE DEF r
  <2>. QED
    BY <1>2, <1>3, <1>7, <2>1, <2>2, MergeUsedCoalesced
<1>10. /\ p \in DOMAIN g.block /\ g.block[p].used /\ Used(g) = Used(heap)
       /\ SizesKept(g, heap, p)
  BY <1>3, <1>7 DEF Used, SizesKept, Merged
<1>11. g.block[p].size >= n
  <2>1. Position(heap, p) = i
    BY <1>2, <1>7, PositionIs, HeapFields DEF Sound, Tiled, ListExact
  <2>2. heap.block[p].size + heap.block[heap.list[i + 1]].size + HeaderSize >= n
    BY <1>1, <2>1 DEF Extends
  <2>. QED
    BY <1>7, <1>10, <2>2 DEF Merged
<1>12. g \in Heaps
  BY <1>6 DEF Sound
<1>13. Sound(heap', {}, {}) /\ CoalescedBut(heap', {}) /\ Resettled(heap', g, p, n)
  BY <1>1, <1>3, <1>6, <1>8, <1>9, <1>10, <1>11, <1>12, SplitSound
<1>14. HeldSound'
  <2>1. Used(heap') = Used(heap) /\ heap'.block[p].size >= n
    BY <1>10, <1>13 DEF Resettled
  <2>2. \A q \in Used(heap) : q # p => heap'.block[q].size = heap.block[q].size
    BY <1>10, <1>13 DEF Resettled, SizesKept
  <2>3. \A q \in DOMAIN held' : heap'.block[q].size >= held'[q]
    <3>. SUFFICES ASSUME NEW q \in DOMAIN held PROVE heap'.block[q].size >= held'[q]
      BY <1>5
    <3>1. CASE q = p
      BY <1>1, <1>3, <2>1, <3>1
    <3>2. CASE q # p
      BY <1>1, <1>2, <2>2, <3>2 DEF HeldSound
    <3>. QED
      BY <3>1, <3>2
  <2>. QED
    BY <1>2, <1>5, <2>1, <2>3 DEF HeldSound
<1>15. Mapped(heap', mapped')
  <2>1. SameEnds(g, heap) /\ heap' \in Heaps
    BY <1>2, <1>3, <1>6, <1>13, MergedEnds DEF Sound
  <2>2. SameEnds(heap', heap)
    BY <1>2, <1>12, <1>13, <2>1, SameEndsTwice DEF Resettled
  <2>. QED
    BY <1>1, <1>2, <2>1, <2>2, MappedKept
<1>16. StageSound(t)' /\ CallSound(t)'
  BY <1>4 DEF StageSound, CallSound, Carving, Allocating
<1>17. /\ mutex' = (IF Idle.at = "merge" THEN t ELSE None) /\ fault' = "none"
       /\ DOMAIN held \ {call[t].ptr} \subseteq DOMAIN held'
       /\ Idle.at \notin Carving \cup {"merge"}
  BY <1>1, <1>2, <1>4, <1>5 DEF Carving
<1>. QED
  BY <1>1, <1>4, <1>13, <1>14, <1>15, <1>16, <1>17, IdleIsCall, TouchStep

-----------------------------------------------------------------------------
(* The invariant.                                                          *)

\* An empty heap is sound.
LEMMA EmptySound ==
    ASSUME NEW h, h = [block |-> <<>>, list |-> <<>>, free |-> <<>>, region_count |-> 0]
    PROVE  Sound(h, {}, {}) /\ CoalescedBut(h, {}) /\ Used(h) = {}
<1>1. /\ h.block = <<>> /\ h.list = <<>> /\ h.free = <<>> /\ h.region_count = 0
      /\ DOMAIN h.block = {} /\ Indices(h.list) = {} /\ Indices(h.free) = {}
  BY DEF Indices
<1>2. h \in Heaps
  <2>1. <<>> \in [{} -> Headers] /\ {} \in SUBSET Addresses /\ <<>> \in Seq(Addresses) /\ 0 \in Int
    OBVIOUS
  <2>. QED
    BY <2>1, HeapIs
<1>3. Heads(h) = {} /\ FreeRegions(h) \ {} = {} /\ Used(h) = {}
  BY <1>1 DEF Heads, FreeRegions, Used
<1>4. Cardinality({}) = 0
  BY FS_EmptySet
<1>5. Tiled(h)
  BY <1>1, <1>3, <1>4
     DEF Tiled, ListExact, EndToEnd, InOrder, Together, Headed, Once, Listed
<1>6. FreeExact(h, {}, {}) /\ NodesFit(h) /\ CoalescedBut(h, {})
  BY <1>1 DEF FreeExact, NodesFit, CoalescedBut, Once, Listed
<1>7. FewFreeRegions(h, {})
  <2>1. KeepRegions \in Nat
    BY AllocatorAssumption
  <2>2. Cardinality(FreeRegions(h) \ {}) = 0
    BY <1>3, <1>4
  <2>. QED
    BY <2>1, <2>2 DEF FewFreeRegions
<1>. QED
  BY <1>2, <1>3, <1>5, <1>6, <1>7 DEF Sound

\* An allocator that has mapped nothing is sound.
LEMMA InitIInv == ASSUME Init PROVE IInv
<1>1. Sound(heap, {}, {}) /\ CoalescedBut(heap, {}) /\ Used(heap) = {}
  BY EmptySound DEF Init
<1>2. \A t \in Threads : call[t] = Idle
  BY DEF Init
<1>3. Idle.at = "idle" /\ Idle.ptr = None
  BY DEF Idle
<1>4. CallsSound
  <2>1. call \in [Threads -> Calls]
    BY IdleIsCall DEF Init
  <2>. QED
    BY <1>2, <1>3, <2>1 DEF CallsSound, CallSound, Carving, Allocating
<1>5. OneInside
  BY <1>2, <1>3, NoneIsNoAddress DEF Init, OneInside, Inside
<1>6. HeldSound
  <2>1. DOMAIN held = {} /\ held = <<>>
    BY DEF Init
  <2>. QED
    BY <1>1, <2>1 DEF HeldSound
<1>7. HeapSound
  <2>1. DOMAIN mapped = {} /\ DOMAIN heap.block = {}
    BY DEF Init
  <2>2. Mapped(heap, mapped)
    BY <2>1 DEF Mapped
  <2>. QED
    BY <1>1, <1>2, <1>3, <2>2 DEF HeapSound, StageSound, Carving
<1>. QED
  BY <1>4, <1>5, <1>6, <1>7 DEF IInv, Init

\* A step that changes nothing.
LEMMA StutterStep == ASSUME IInv, UNCHANGED vars PROVE IInv'
BY DEF IInv, vars, CallsSound, CallSound, OneInside, Inside, HeldSound, HeapSound,
       StageSound, Settled

\* Every step, by its action: after a race, or by the lemma for the action.
LEMMA NextIInv == ASSUME IInv, Next PROVE IInv'
<1>1. PICK t \in Threads :
         \/ \E n \in Sizes : MallocCall(t, n)
         \/ MallocHit(t) \/ MallocMiss(t)
         \/ NewBlockFails(t) \/ NewBlock(t) \/ NewBlockLink(t) \/ NewBlockEnlist(t)
         \/ NewBlockShrink(t) \/ NewBlockMark(t)
         \/ \E p \in DOMAIN held : FreeCall(t, p)
         \/ FreeEnlist(t) \/ FreeMergeRight(t) \/ FreeMerge(t)
         \/ \E p \in DOMAIN held, n \in Sizes : ReallocKeep(t, p, n) \/ ReallocCall(t, p, n)
         \/ ReallocExtend(t) \/ ReallocMove(t)
  BY DEF Next
<1>2. raced \in BOOLEAN
  BY DEF IInv
<1>3. raced' \in BOOLEAN
  <2>1. ASSUME UNCHANGED raced PROVE raced' \in BOOLEAN
    BY <1>2, <2>1
  <2>2. ASSUME Touch(t) PROVE raced' \in BOOLEAN
    BY <1>2, <2>2 DEF Touch
  <2>. QED
    BY <1>1, <2>1, <2>2
       DEF MallocCall, MallocHit, MallocMiss, NewBlockFails, NewBlock, NewBlockLink,
           NewBlockEnlist, NewBlockShrink, NewBlockMark, FreeCall, FreeEnlist, FreeMergeRight,
           FreeMerge, ReallocKeep, ReallocCall, ReallocExtend, ReallocMove, Locked
<1>4. CASE raced'
  BY <1>3, <1>4, RacedStep
<1>5. CASE ~raced'
  <2>1. ASSUME NEW n \in Sizes, MallocCall(t, n) PROVE IInv'
    BY <2>1, MallocCallStep
  <2>2. CASE MallocHit(t)
    BY <1>5, <2>2, MallocHitStep
  <2>3. CASE MallocMiss(t)
    BY <1>5, <2>3, MoveOnStep DEF MallocMiss, Locked
  <2>4. CASE NewBlockFails(t)
    BY <2>4, NewBlockFailsStep
  <2>5. CASE NewBlock(t)
    BY <1>5, <2>5, NewBlockStep
  <2>6. CASE NewBlockLink(t)
    BY <1>5, <2>6, NewBlockLinkStep
  <2>7. CASE NewBlockEnlist(t)
    BY <1>5, <2>7, NewBlockEnlistStep
  <2>8. CASE NewBlockShrink(t)
    BY <1>5, <2>8, NewBlockShrinkStep
  <2>9. CASE NewBlockMark(t)
    BY <1>5, <2>9, NewBlockMarkStep
  <2>10. ASSUME NEW p \in DOMAIN held, FreeCall(t, p) PROVE IInv'
    BY <2>10, FreeCallStep
  <2>11. CASE FreeEnlist(t)
    BY <1>5, <2>11, FreeEnlistStep
  <2>12. CASE FreeMergeRight(t)
    BY <1>5, <2>12, FreeMergeRightStep
  <2>13. CASE FreeMerge(t)
    BY <1>5, <2>13, FreeMergeStep
  <2>14. ASSUME NEW p \in DOMAIN held, NEW n \in Sizes,
                ReallocKeep(t, p, n) \/ ReallocCall(t, p, n)
         PROVE  IInv'
    BY <2>14, ReallocKeepStep, ReallocCallStep
  <2>15. CASE ReallocExtend(t)
    BY <1>5, <2>15, ReallocExtendStep
  <2>16. CASE ReallocMove(t)
    BY <1>5, <2>16, MoveOnStep DEF ReallocMove, Locked
  <2>. QED
    BY <1>1, <2>1, <2>2, <2>3, <2>4, <2>5, <2>6, <2>7, <2>8, <2>9, <2>10, <2>11, <2>12,
       <2>13, <2>14, <2>15, <2>16
<1>. QED
  BY <1>4, <1>5

\* What IInv says holds in every state the allocator can reach.
THEOREM AllocatorInvariant == Spec => []IInv
<1>1. Init => IInv
  BY InitIInv
<1>2. IInv /\ [Next]_vars => IInv'
  BY NextIInv, StutterStep
<1>. QED
  BY <1>1, <1>2, PTL DEF Spec

-----------------------------------------------------------------------------
(* The properties.                                                         *)

\* What holds of the heap while no thread is inside it and nothing has raced.
LEMMA QuietFacts ==
    ASSUME IInv, Quiet
    PROVE  /\ heap \in Heaps /\ HeldSound /\ ListExact(heap)
           /\ Sound(heap, {}, {}) /\ CoalescedBut(heap, {}) /\ Mapped(heap, mapped)
BY DEF IInv, Quiet, HeapSound, Sound, Tiled

\* Neighbours in the block list, by index.
LEMMA FollowsIs ==
    ASSUME NEW a, NEW b
    PROVE  Follows(a, b) <=>
              \E i \in 1 .. Len(heap.list) - 1 : heap.list[i] = a /\ heap.list[i + 1] = b
BY DEF Follows

\* RegionsTiled: the blocks of a region lie end to end in the order of the block list,
\* from its start to the end of what is mapped, and nothing is mapped without blocks.
THEOREM AllocatorRegionsTiled == Spec => []RegionsTiled
<1>1. IInv => RegionsTiled
  <2>. SUFFICES ASSUME IInv, Quiet
                PROVE  /\ Cardinality(ToSet(heap.list)) = Len(heap.list)
                       /\ ToSet(heap.list) = Blocks
                       /\ heap.region_count = Cardinality({b \in Blocks : Offset(b) = 0})
                       /\ DOMAIN mapped = {Region(b) : b \in Blocks}
                       /\ \A b \in Blocks :
                             \/ Offset(b) = 0
                             \/ \E a \in Blocks :
                                   /\ Follows(a, b) /\ Region(a) = Region(b)
                                   /\ Offset(a) + HeaderSize + heap.block[a].size = Offset(b)
                       /\ \A b \in Blocks :
                             \/ Offset(b) + HeaderSize + heap.block[b].size = mapped[Region(b)]
                             \/ \E a \in Blocks : Follows(b, a) /\ Region(a) = Region(b)
    BY DEF RegionsTiled
  <2>1. /\ heap \in Heaps /\ ListExact(heap) /\ EndToEnd(heap) /\ Headed(heap)
        /\ InOrder(heap) /\ Together(heap) /\ Mapped(heap, mapped)
    BY QuietFacts DEF Sound, Tiled
  <2>2. Cardinality(ToSet(heap.list)) = Len(heap.list) /\ ToSet(heap.list) = Blocks
    <3>1. heap.list \in Seq(Addresses) /\ Once(heap.list)
      BY <2>1, HeapFields DEF ListExact
    <3>. QED
      BY <2>1, <3>1, OnceCounted, FiniteBlocks DEF Blocks
  <2>3. heap.region_count = Cardinality({b \in Blocks : Offset(b) = 0})
    BY <2>1 DEF Headed, Heads, Blocks
  <2>4. ASSUME NEW b \in Blocks, Offset(b) # 0
        PROVE  \E a \in Blocks : /\ Follows(a, b) /\ Region(a) = Region(b)
                                 /\ Offset(a) + HeaderSize + heap.block[a].size = Offset(b)
    <3>1. PICK k \in Indices(heap.list) : heap.list[k] = b
      BY <2>1, ListFacts DEF Blocks
    <3>2. /\ k > 1 /\ Region(heap.list[k - 1]) = Region(b)
          /\ End(heap, heap.list[k - 1]) = Offset(b)
      BY <2>1, <2>4, <3>1 DEF EndToEnd
    <3>3. /\ k - 1 \in Indices(heap.list) /\ k - 1 \in 1 .. Len(heap.list) - 1
          /\ k - 1 + 1 = k
      BY <2>1, <3>1, <3>2, ListFacts DEF Indices
    <3>4. heap.list[k - 1] \in Blocks
      BY <2>1, <3>3, ListFacts DEF Blocks
    <3>5. Follows(heap.list[k - 1], b)
      BY <3>1, <3>3 DEF Follows
    <3>. QED
      BY <3>2, <3>4, <3>5 DEF End
  <2>5. DOMAIN mapped = {Region(b) : b \in Blocks}
    BY <2>1 DEF Mapped, Blocks
  <2>6. ASSUME NEW b \in Blocks,
               ~ \E a \in Blocks : Follows(b, a) /\ Region(a) = Region(b)
        PROVE  Offset(b) + HeaderSize + heap.block[b].size = mapped[Region(b)]
    <3>1. PICK k \in Indices(heap.list) : heap.list[k] = b
      BY <2>1, ListFacts DEF Blocks
    <3>2. Region(b) \in DOMAIN mapped
      BY <2>1 DEF Mapped, Blocks
    <3>3. PICK c \in Blocks : Region(c) = Region(b) /\ End(heap, c) = mapped[Region(b)]
      BY <2>1, <3>2 DEF Mapped, Blocks
    <3>4. PICK j \in Indices(heap.list) : heap.list[j] = c
      BY <2>1, ListFacts DEF Blocks
    <3>5. j \in Int /\ k \in Int /\ Len(heap.list) \in Nat
      BY <2>1, <3>1, <3>4, ListFacts DEF Indices
    <3>6. CASE j = k
      BY <3>1, <3>3, <3>4, <3>6 DEF End
    <3>7. CASE j < k
      <4>1. End(heap, c) <= Offset(b) /\ End(heap, b) <= mapped[Region(b)]
        BY <2>1, <3>1, <3>3, <3>4, <3>7 DEF InOrder, Mapped, Blocks
      <4>2. /\ End(heap, c) \in Nat /\ Offset(b) \in Nat /\ heap.block[b].size \in Nat
            /\ HeaderSize \in Nat \ {0}
        BY <2>1, EndIs, AllocatorAssumption DEF Blocks
      <4>. QED
        BY <3>3, <4>1, <4>2 DEF End
    <3>8. CASE k < j
      <4>1. /\ k + 1 \in Indices(heap.list) /\ k \in 1 .. Len(heap.list) - 1
            /\ k < k + 1 /\ (k + 1 = j \/ k + 1 < j)
        BY <3>1, <3>4, <3>5, <3>8 DEF Indices
      <4>2. Region(heap.list[k + 1]) = Region(b)
        BY <2>1, <3>1, <3>3, <3>4, <4>1 DEF Together
      <4>3. heap.list[k + 1] \in Blocks /\ Follows(b, heap.list[k + 1])
        BY <2>1, <3>1, <4>1, ListFacts DEF Blocks, Follows
      <4>. QED
        BY <2>6, <4>2, <4>3
    <3>. QED
      BY <3>5, <3>6, <3>7, <3>8
  <2>. QED
    BY <2>2, <2>3, <2>4, <2>5, <2>6
<1>. QED
  BY <1>1, AllocatorInvariant, PTL

\* FreeListExact: the free list holds every unused block once, smallest first.
THEOREM AllocatorFreeListExact == Spec => []FreeListExact
<1>1. IInv => FreeListExact
  <2>. SUFFICES ASSUME IInv, Quiet
                PROVE  /\ Cardinality(ToSet(heap.free)) = Len(heap.free)
                       /\ ToSet(heap.free) = {b \in Blocks : ~heap.block[b].used}
                       /\ \A i \in 1 .. Len(heap.free) - 1 :
                             heap.block[heap.free[i]].size <= heap.block[heap.free[i + 1]].size
    BY DEF FreeListExact
  <2>1. heap \in Heaps /\ FreeExact(heap, {}, {})
    BY QuietFacts DEF Sound
  <2>2. /\ heap.free \in Seq(Addresses) /\ Len(heap.free) \in Nat /\ Once(heap.free)
        /\ \A i \in Indices(heap.free) :
              heap.free[i] \in DOMAIN heap.block /\ ~heap.block[heap.free[i]].used
        /\ \A b \in DOMAIN heap.block :
              ~heap.block[b].used => \E i \in Indices(heap.free) : heap.free[i] = b
    BY <2>1, FreeFacts
  <2>3. Cardinality(ToSet(heap.free)) = Len(heap.free)
    BY <2>2, OnceCounted
  <2>4. ToSet(heap.free) = {b \in Blocks : ~heap.block[b].used}
    BY <2>2 DEF ToSet, Indices, Blocks
  <2>5. ASSUME NEW i \in 1 .. Len(heap.free) - 1
        PROVE  heap.block[heap.free[i]].size <= heap.block[heap.free[i + 1]].size
    <3>1. i \in Indices(heap.free) /\ i + 1 \in Indices(heap.free) /\ i < i + 1
      BY <2>2 DEF Indices
    <3>. QED
      BY <2>1, <3>1 DEF FreeExact
  <2>. QED
    BY <2>3, <2>4, <2>5
<1>. QED
  BY <1>1, AllocatorInvariant, PTL

\* Coalesced: no two unused blocks of a region are neighbours.
THEOREM AllocatorCoalesced == Spec => []Coalesced
<1>1. IInv => Coalesced
  <2>. SUFFICES ASSUME IInv, Quiet, NEW a \in Blocks, NEW b \in Blocks,
                       Follows(a, b), Region(a) = Region(b)
                PROVE  heap.block[a].used \/ heap.block[b].used
    BY DEF Coalesced
  <2>1. heap \in Heaps /\ ListExact(heap) /\ CoalescedBut(heap, {})
    BY QuietFacts
  <2>2. PICK i \in 1 .. Len(heap.list) - 1 : heap.list[i] = a /\ heap.list[i + 1] = b
    BY DEF Follows
  <2>3. i \in Indices(heap.list) /\ i < Len(heap.list)
    BY <2>1, <2>2, ListFacts DEF Indices
  <2>. QED
    BY <2>1, <2>2, <2>3 DEF CoalescedBut
<1>. QED
  BY <1>1, AllocatorInvariant, PTL

\* UsedIsHeld: the used blocks are the held ones, each as large as was promised.
THEOREM AllocatorUsedIsHeld == Spec => []UsedIsHeld
<1>1. IInv => UsedIsHeld
  BY DEF IInv, Quiet, UsedIsHeld, HeldSound, Used, Blocks
<1>. QED
  BY <1>1, AllocatorInvariant, PTL

\* FreeNodeFits: the free-list node in a block that is too small for it spills over
\* the name in the next header of the same region, and over nothing else.
THEOREM AllocatorFreeNodeFits == Spec => []FreeNodeFits
<1>1. IInv => FreeNodeFits
  <2>. SUFFICES ASSUME IInv, Quiet, NEW b \in ToSet(heap.free), ~(heap.block[b].size >= NodeSize)
                PROVE  /\ \E a \in Blocks : Follows(b, a) /\ Region(a) = Region(b)
                       /\ NodeSize - heap.block[b].size <= NameSize
    BY DEF FreeNodeFits
  <2>1. heap \in Heaps /\ ListExact(heap) /\ NodesFit(heap) /\ FreeExact(heap, {}, {})
    BY QuietFacts DEF Sound
  <2>2. b \in DOMAIN heap.block /\ heap.block[b].size \in Nat
    <3>1. PICK i \in Indices(heap.free) : heap.free[i] = b
      BY DEF ToSet, Indices
    <3>. QED
      BY <2>1, <3>1, FreeFacts
  <2>3. PICK i \in Indices(heap.list) : heap.list[i] = b
    BY <2>1, <2>2, ListFacts
  <2>4. i < Len(heap.list) /\ Region(heap.list[i + 1]) = Region(b)
    BY <2>1, <2>3 DEF NodesFit
  <2>5. i \in 1 .. Len(heap.list) - 1 /\ i + 1 \in Indices(heap.list)
    BY SMTT(30), <2>1, <2>3, <2>4, ListFacts DEF Indices
  <2>6. heap.list[i + 1] \in Blocks /\ Follows(b, heap.list[i + 1])
    BY <2>1, <2>3, <2>5, ListFacts DEF Blocks, Follows
  <2>7. NodeSize - heap.block[b].size <= NameSize
    BY <2>2, AllocatorAssumption
  <2>. QED
    BY <2>4, <2>6, <2>7
<1>. QED
  BY <1>1, AllocatorInvariant, PTL

\* FreeRegionsBounded: at most kMaxBlockCount regions are kept with nothing in use.
THEOREM AllocatorFreeRegionsBounded == Spec => []FreeRegionsBounded
<1>1. IInv => FreeRegionsBounded
  <2>. SUFFICES ASSUME IInv, Quiet
                PROVE  Cardinality({b \in Blocks : IsBlockFree(heap, b)}) <= KeepRegions
    BY DEF FreeRegionsBounded
  <2>1. FewFreeRegions(heap, {})
    BY QuietFacts DEF Sound
  <2>2. FreeRegions(heap) \ {} = {b \in Blocks : IsBlockFree(heap, b)}
    BY DEF FreeRegions, Blocks
  <2>. QED
    BY <2>1, <2>2 DEF FewFreeRegions
<1>. QED
  BY <1>1, AllocatorInvariant, PTL

\* NoFault: without a data race no GTL_CHECK fails and no null pointer is followed.
THEOREM AllocatorNoFault == Spec => []NoFault
<1>1. IInv => NoFault
  BY DEF IInv, NoFault
<1>. QED
  BY <1>1, AllocatorInvariant, PTL

-----------------------------------------------------------------------------
(* What holds at any moment, in the middle of a call too.                  *)

\* The heap is sound, or will be when the thread inside has shrunk its block.
SoonSound(k) ==
    /\ \E pending, open : Sound(k, pending, open)
    /\ Mapped(k, mapped)
    /\ k.list = heap.list /\ k.free = heap.free /\ k.region_count = heap.region_count
    /\ DOMAIN k.block = DOMAIN heap.block
    /\ \A p \in DOMAIN held : k.block[p].size = heap.block[p].size

\* There is always such a heap: the present one, or Settled of the thread inside.
LEMMA HeapIsSoonSound ==
    ASSUME IInv, ~raced
    PROVE  \E k \in Heaps : SoonSound(k)
<1>1. OneInside /\ HeapSound /\ HeldSound /\ CallsSound /\ heap \in Heaps
  BY HeapTyped DEF IInv
<1>2. ASSUME NEW pending, NEW open, Sound(heap, pending, open), Mapped(heap, mapped)
      PROVE  \E k \in Heaps : SoonSound(k)
  BY <1>1, <1>2 DEF SoonSound
<1>3. CASE \A t \in Threads : ~Inside(t)
  BY <1>1, <1>2, <1>3 DEF HeapSound
<1>4. ASSUME NEW t \in Threads, Inside(t) PROVE \E k \in Heaps : SoonSound(k)
  <2>. DEFINE n == call[t].size
              b == call[t].block
  <2>1. call[t].at \in Carving \cup {"merge"} /\ StageSound(t)
    BY <1>1, <1>4 DEF OneInside, Inside, Carving, HeapSound
  <2>2. CASE call[t].at \in {"link", "mark", "merge"}
    BY <1>2, <2>1, <2>2 DEF StageSound
  <2>3. CASE call[t].at \in {"enlist", "shrink"}
    <3>1. CallSound(t)
      BY <1>1 DEF CallsSound
    <3>2. b \in DOMAIN heap.block /\ n \in Nat \ {0} /\ ~heap.block[b].used
      BY <2>1, <2>3, <3>1, AllocatorAssumption DEF CallSound, StageSound, Carving, Allocating
    <3>3. \E pending, open : Sound(Settled(t), pending, open) /\ Mapped(Settled(t), mapped)
      BY <2>1, <2>3 DEF StageSound
    <3>4. Resized(Settled(t), heap, b, n)
      BY <1>1, <3>2, SplitShrinkIs DEF Settled
    <3>5. \A p \in DOMAIN held : p \in DOMAIN heap.block /\ p # b
      BY <1>1, <3>2 DEF HeldSound, Used
    <3>. HIDE DEF n, b
    <3>6. Settled(t) \in Heaps /\ SoonSound(Settled(t))
      BY <3>3, <3>4, <3>5 DEF SoonSound, Resized
    <3>. QED
      BY <3>6
  <2>. QED
    BY <2>1, <2>2, <2>3 DEF Carving
<1>. QED
  BY <1>3, <1>4

\* There are at most MaxRegions regions, since each has its block at offset 0.
LEMMA RegionsCounted ==
    ASSUME NEW h \in Heaps
    PROVE  Cardinality(Heads(h)) \in 0 .. MaxRegions
<1>. DEFINE H == Heads(h)
            f == [b \in H |-> Region(b)]
<1>1. IsFiniteSet(Regions) /\ Cardinality(Regions) = MaxRegions
  <2>1. MaxRegions \in Nat
    BY AllocatorAssumption
  <2>. DEFINE R == 1 .. MaxRegions
  <2>2. /\ IsFiniteSet(R)
        /\ Cardinality(R) = IF 1 > MaxRegions THEN 0 ELSE MaxRegions - 1 + 1
    BY <2>1, FS_Interval
  <2>3. Regions = R
    BY DEF Regions
  <2>. HIDE DEF R
  <2>. QED
    BY <2>1, <2>2, <2>3
<1>2. \A b \in H : b = <<Region(b), 0>> /\ Region(b) \in Regions
  <2>. SUFFICES ASSUME NEW b \in H PROVE b = <<Region(b), 0>> /\ Region(b) \in Regions
    OBVIOUS
  <2>1. b \in Addresses /\ Offset(b) = 0
    BY HeapFields DEF Heads
  <2>. QED
    BY <2>1, AddressIs
<1>. HIDE DEF H
<1>3. f \in Injection(H, Regions)
  <2>1. f \in [H -> Regions]
    BY <1>2
  <2>2. \A a, b \in H : f[a] = f[b] => a = b
    BY <1>2
  <2>. HIDE DEF f
  <2>. QED
    BY <2>1, <2>2 DEF Injection, IsInjective
<1>4. IsFiniteSet(H) /\ Cardinality(H) <= MaxRegions
  BY <1>1, <1>3, FS_Injection
<1>. QED
  BY <1>4, FS_CardinalityType, AllocatorAssumption DEF H

\* TypeOK.  A data race may leave a list with a block that is gone, so it is claimed
\* of histories without one.
THEOREM AllocatorTypeOK == Spec => [](~raced => TypeOK)
<1>1. IInv => (~raced => TypeOK)
  <2>. SUFFICES ASSUME IInv, ~raced PROVE TypeOK
    OBVIOUS
  <2>1. heap \in Heaps /\ HeldSound /\ CallsSound /\ OneInside /\ fault = "none"
    BY HeapTyped DEF IInv
  <2>2. PICK k \in Heaps : SoonSound(k)
    BY HeapIsSoonSound
  <2>3. PICK pending, open : Sound(k, pending, open)
    BY <2>2 DEF SoonSound
  <2>4. DOMAIN heap = {"block", "list", "free", "region_count"}
    BY <2>1, HeapRecord
  <2>5. /\ DOMAIN heap.block \subseteq Addresses
        /\ \A b \in DOMAIN heap.block :
              heap.block[b].size \in Nat \ {0} /\ heap.block[b].used \in BOOLEAN
    BY <2>1, HeapFields
  <2>6. ToSet(heap.list) \subseteq DOMAIN heap.block
    <3>1. ToSet(k.list) = DOMAIN k.block
      BY <2>3, FiniteBlocks DEF Sound, Tiled
    <3>. QED
      BY <2>2, <3>1 DEF SoonSound
  <2>7. ToSet(heap.free) \subseteq DOMAIN heap.block
    <3>1. \A i \in Indices(k.free) : k.free[i] \in DOMAIN k.block
      BY <2>3, FreeFacts DEF Sound
    <3>. QED
      BY <2>2, <3>1 DEF SoonSound, ToSet, Indices
  <2>8. heap.region_count \in 0 .. MaxRegions
    <3>1. k.region_count \in 0 .. MaxRegions
      BY <2>3, RegionsCounted DEF Sound, Tiled, Headed
    <3>. QED
      BY <2>2, <3>1 DEF SoonSound
  <2>9. mutex \in Threads \cup {None} /\ raced \in BOOLEAN
    BY <2>1 DEF OneInside, IInv
  <2>10. \A t \in Threads :
            /\ call[t].at \in {"idle", "malloc", "new", "link", "enlist", "shrink", "mark",
                               "free", "merge", "realloc"}
            /\ call[t].size \in Sizes \cup {0}
            /\ {call[t].ptr, call[t].block} \subseteq Addresses \cup {None}
    BY <2>1 DEF CallsSound, Calls
  <2>11. \A p \in DOMAIN held : p \in Addresses /\ held[p] \in Sizes
    BY <2>1, <2>5 DEF HeldSound, Used
  <2>12. DOMAIN mapped \subseteq Regions /\ \A r \in DOMAIN mapped : mapped[r] \in Nat \ {0}
    <3>. SUFFICES ASSUME NEW r \in DOMAIN mapped PROVE r \in Regions /\ mapped[r] \in Nat \ {0}
      OBVIOUS
    <3>1. PICK b \in DOMAIN k.block : Region(b) = r /\ End(k, b) = mapped[r]
      BY <2>2 DEF SoonSound, Mapped
    <3>2. b \in Addresses
      BY HeapFields
    <3>. QED
      BY <3>1, <3>2, EndIs, AddressIs
  <2>. QED
    BY <2>1, <2>4, <2>5, <2>6, <2>7, <2>8, <2>9, <2>10, <2>11, <2>12 DEF TypeOK
<1>. QED
  BY <1>1, AllocatorInvariant, PTL

-----------------------------------------------------------------------------
(* The allocator implements Heap.                                          *)

\* Two blocks of a region do not overlap.
LEMMA BlocksApart ==
    ASSUME NEW h \in Heaps, Tiled(h), NEW a \in DOMAIN h.block, NEW b \in DOMAIN h.block,
           a # b, Region(a) = Region(b)
    PROVE  End(h, a) <= Offset(b) \/ End(h, b) <= Offset(a)
<1>1. PICK i, j \in Indices(h.list) : h.list[i] = a /\ h.list[j] = b
  BY ListFacts DEF Tiled
<1>2. i \in Int /\ j \in Int /\ i # j
  BY <1>1, ListFacts DEF Tiled, Indices
<1>. QED
  BY <1>1, <1>2 DEF Tiled, InOrder

\* No two pointers that callers hold have a byte in common.
HeldApart == \A p, q \in DOMAIN held : p # q => ~Abstract!Overlap(Extent(p), Extent(q))

\* The bytes of a held block are in it, and it is apart from the others.
LEMMA HeldIsApart == IInv /\ ~raced => HeldApart
<1>. SUFFICES ASSUME IInv, ~raced, NEW p \in DOMAIN held, NEW q \in DOMAIN held, p # q
              PROVE  ~Abstract!Overlap(Extent(p), Extent(q))
  BY DEF HeldApart
<1>. SUFFICES ASSUME Region(p) = Region(q) PROVE ~Abstract!Overlap(Extent(p), Extent(q))
  BY DEF Abstract!Overlap, Extent
<1>1. /\ p \in DOMAIN heap.block /\ q \in DOMAIN heap.block
      /\ heap.block[p].size >= held[p] /\ heap.block[q].size >= held[q]
      /\ held[p] \in Nat /\ held[q] \in Nat
      /\ Offset(p) \in Nat /\ Offset(q) \in Nat /\ HeaderSize \in Nat
  <2>1. HeldSound /\ p \in Addresses /\ q \in Addresses
    BY HeapTyped DEF IInv
  <2>. QED
    BY <2>1, AddressIs, AllocatorAssumption DEF HeldSound, Used
<1>2. PICK k \in Heaps : SoonSound(k)
  BY HeapIsSoonSound
<1>3. /\ Tiled(k) /\ p \in DOMAIN k.block /\ q \in DOMAIN k.block
      /\ k.block[p].size = heap.block[p].size /\ k.block[q].size = heap.block[q].size
  BY <1>1, <1>2 DEF SoonSound, Sound
<1>4. k.block[p].size \in Nat /\ k.block[q].size \in Nat
  BY <1>3, HeapFields
<1>5. End(k, p) <= Offset(q) \/ End(k, q) <= Offset(p)
  BY <1>3, BlocksApart
<1>6. \/ Offset(q) + HeaderSize + held[q] <= Offset(p) + HeaderSize
      \/ Offset(p) + HeaderSize + held[p] <= Offset(q) + HeaderSize
  BY <1>1, <1>3, <1>4, <1>5 DEF End
<1>. QED
  BY <1>1, <1>6 DEF Abstract!Overlap, Extent

\* Pointers are addresses, and no one asks for nothing.
HeldTyped == \A p \in DOMAIN held : p \in Addresses /\ held[p] \in Nat \ {0}

\* The same without a race.
LEMMA HeldIsTyped == IInv /\ ~raced => HeldTyped
<1>. SUFFICES ASSUME IInv, ~raced PROVE HeldTyped
  OBVIOUS
<1>1. HeldSound /\ DOMAIN held \subseteq Addresses
  BY HeapTyped DEF IInv
<1>. QED
  BY <1>1, AllocatorAssumption DEF HeldTyped, HeldSound

\* Two pointers are two extents.
LEMMA ExtentsDiffer ==
    ASSUME HeldTyped, NEW p \in DOMAIN held, NEW q \in DOMAIN held, Extent(p) = Extent(q)
    PROVE  p = q
<1>1. /\ p \in Addresses /\ q \in Addresses /\ HeaderSize \in Nat
      /\ Offset(p) \in Nat /\ Offset(q) \in Nat
  BY AddressIs, AllocatorAssumption DEF HeldTyped
<1>2. Region(p) = Region(q) /\ Offset(p) + HeaderSize = Offset(q) + HeaderSize
  BY DEF Extent
<1>3. Offset(p) = Offset(q)
  BY <1>1, <1>2
<1>. QED
  BY <1>1, <1>2, <1>3, AddressIs

\* One more pointer is one more extent, of bytes that no one holds.
LEMMA MoreHeld ==
    ASSUME HeldTyped, HeldTyped', HeldApart', NEW b, b \notin DOMAIN held,
           DOMAIN held' = DOMAIN held \cup {b}, \A p \in DOMAIN held : held'[p] = held[p]
    PROVE  Abstract!Alloc
<1>. DEFINE e == [region |-> Region(b), from |-> Offset(b) + HeaderSize,
                  to |-> Offset(b) + HeaderSize + held'[b]]
<1>1. \A p \in DOMAIN held : Extent(p)' = Extent(p)
  BY DEF Extent
<1>2. Extent(b)' = e
  BY DEF Extent
<1>3. e.from < e.to
  <2>1. b \in Addresses /\ held'[b] \in Nat \ {0}
    BY DEF HeldTyped
  <2>. QED
    BY <2>1, AddressIs, AllocatorAssumption
<1>. HIDE DEF e
<1>4. \A p \in DOMAIN held : ~Abstract!Overlap(e, Extent(p))
  <2>. SUFFICES ASSUME NEW p \in DOMAIN held PROVE ~Abstract!Overlap(e, Extent(p))
    OBVIOUS
  <2>1. ~Abstract!Overlap(Extent(b)', Extent(p)')
    BY DEF HeldApart, Abstract!Overlap, Extent
  <2>. QED
    BY <1>1, <1>2, <2>1
<1>5. Extents' = Extents \cup {e}
  BY <1>1, <1>2 DEF Extents
<1>6. e \notin Extents
  <2>. SUFFICES ASSUME NEW p \in DOMAIN held, e = Extent(p) PROVE FALSE
    BY DEF Extents
  <2>1. Abstract!Overlap(e, e)
    BY <1>3 DEF Abstract!Overlap
  <2>. QED
    BY <1>4, <2>1
<1>. QED
  BY <1>3, <1>4, <1>5, <1>6 DEF Abstract!Alloc, Abstract!Fresh, Extents

\* One pointer less is one extent less.
LEMMA LessHeld ==
    ASSUME HeldTyped, NEW p \in DOMAIN held, DOMAIN held' = DOMAIN held \ {p},
           \A q \in DOMAIN held' : held'[q] = held[q]
    PROVE  Abstract!Release
<1>1. \A q \in DOMAIN held' : Extent(q)' = Extent(q)
  BY DEF Extent
<1>2. \A q \in DOMAIN held' : Extent(q) # Extent(p)
  BY ExtentsDiffer
<1>3. Extents' = Extents \ {Extent(p)} /\ Extent(p) \in Extents
  BY <1>1, <1>2 DEF Extents
<1>. QED
  BY <1>3 DEF Abstract!Release

\* A pointer of another size is its extent with another end.
LEMMA OtherSizeHeld ==
    ASSUME HeldTyped, HeldTyped', HeldApart', NEW p \in DOMAIN held,
           DOMAIN held' = DOMAIN held, \A q \in DOMAIN held : q # p => held'[q] = held[q]
    PROVE  Abstract!Resize
<1>. DEFINE f == [region |-> Region(p), from |-> Offset(p) + HeaderSize,
                  to |-> Offset(p) + HeaderSize + held'[p]]
<1>1. \A q \in DOMAIN held : q # p => Extent(q)' = Extent(q)
  BY DEF Extent
<1>2. Extent(p)' = f
  BY DEF Extent
<1>3. f.from < f.to /\ Extent(p).region = f.region /\ Extent(p).from = f.from
  <2>1. p \in Addresses /\ held'[p] \in Nat \ {0}
    BY DEF HeldTyped
  <2>. QED
    BY <2>1, AddressIs, AllocatorAssumption DEF Extent
<1>. HIDE DEF f
<1>4. \A q \in DOMAIN held : q # p => ~Abstract!Overlap(f, Extent(q))
  <2>. SUFFICES ASSUME NEW q \in DOMAIN held, q # p PROVE ~Abstract!Overlap(f, Extent(q))
    OBVIOUS
  <2>1. ~Abstract!Overlap(Extent(p)', Extent(q)')
    BY DEF HeldApart, Abstract!Overlap, Extent
  <2>. QED
    BY <1>1, <1>2, <2>1
<1>5. Extents \ {Extent(p)} = {Extent(q) : q \in DOMAIN held \ {p}}
  BY ExtentsDiffer DEF Extents
<1>6. Extents' = (Extents \ {Extent(p)}) \cup {f}
  BY <1>1, <1>2, <1>5 DEF Extents
<1>7. \A e \in Extents \ {Extent(p)} : ~Abstract!Overlap(f, e)
  BY <1>4, <1>5
<1>8. Extent(p) \in Extents /\ f \in Extents'
  BY <1>6 DEF Extents
<1>. QED
  BY <1>3, <1>6, <1>7, <1>8 DEF Abstract!Resize, Abstract!Fresh

\* Malloc's pointer is of a block that was unused.
LEMMA MallocImplements ==
    ASSUME IInv, ~raced, HeldTyped, HeldTyped', HeldApart',
           NEW t \in Threads, NEW b, MallocReturns(t, b), ~heap.block[b].used
    PROVE  Abstract!Alloc
<1>1. b \notin DOMAIN held
  BY DEF IInv, HeldSound, Used
<1>. QED
  BY <1>1, MoreHeld DEF MallocReturns

\* The extents are told by held alone.
LEMMA SameExtents == ASSUME UNCHANGED held PROVE UNCHANGED Extents
BY DEF Extents, Extent

\* Each step of the allocator that is no race is a step of Heap or leaves it alone.
LEMMA NextImplements ==
    ASSUME IInv, Next, ~raced', HeldTyped', HeldApart'
    PROVE  Abstract!Next \/ UNCHANGED Extents
<1>1. PICK t \in Threads :
         \/ \E n \in Sizes : MallocCall(t, n)
         \/ MallocHit(t) \/ MallocMiss(t)
         \/ NewBlockFails(t) \/ NewBlock(t) \/ NewBlockLink(t) \/ NewBlockEnlist(t)
         \/ NewBlockShrink(t) \/ NewBlockMark(t)
         \/ \E p \in DOMAIN held : FreeCall(t, p)
         \/ FreeEnlist(t) \/ FreeMergeRight(t) \/ FreeMerge(t)
         \/ \E p \in DOMAIN held, n \in Sizes : ReallocKeep(t, p, n) \/ ReallocCall(t, p, n)
         \/ ReallocExtend(t) \/ ReallocMove(t)
  BY DEF Next
<1>2. CASE \/ \E n \in Sizes : MallocCall(t, n)
           \/ MallocMiss(t)
           \/ NewBlockFails(t) \/ NewBlock(t) \/ NewBlockLink(t) \/ NewBlockEnlist(t)
           \/ NewBlockShrink(t)
           \/ \E p \in DOMAIN held : FreeCall(t, p)
           \/ FreeMergeRight(t) \/ FreeMerge(t)
           \/ \E p \in DOMAIN held, n \in Sizes : ReallocCall(t, p, n)
           \/ ReallocMove(t)
  <2>1. UNCHANGED held
    BY <1>2 DEF MallocCall, MallocMiss, NewBlockFails, NewBlock, NewBlockLink, NewBlockEnlist,
                NewBlockShrink, FreeCall, FreeMergeRight, FreeMerge, ReallocCall, ReallocMove
  <2>. QED
    BY <2>1, SameExtents
<1>3. CASE MallocHit(t)
  <2>1. Touch(t)
    BY <1>3 DEF MallocHit, Locked
  <2>2. ~raced /\ HeldTyped
    BY <2>1, TouchFacts, HeldIsTyped
  <2>3. CASE UNCHANGED held
    BY <2>3, SameExtents
  <2>4. CASE \E b : ~heap.block[b].used /\ MallocReturns(t, b)
    BY <2>2, <2>4, MallocImplements DEF Abstract!Next
  <2>. QED
    BY <1>3, <2>3, <2>4 DEF MallocHit
<1>4. CASE NewBlockMark(t)
  <2>1. Touch(t) /\ call[t].at = "mark" /\ MallocReturns(t, call[t].block)
    BY <1>4 DEF NewBlockMark
  <2>2. ~raced /\ HeldTyped
    BY <2>1, TouchFacts, HeldIsTyped
  <2>3. ~heap.block[call[t].block].used
    BY <2>1, CarvingFacts DEF StageSound, Carving
  <2>. QED
    BY <2>1, <2>2, <2>3, MallocImplements DEF Abstract!Next
<1>5. CASE FreeEnlist(t)
  <2>. DEFINE p == call[t].ptr
  <2>1. /\ Touch(t) /\ call[t].at = "free"
        /\ held' = [q \in DOMAIN held \ {p} |-> held[q]]
    BY <1>5 DEF FreeEnlist, Locked
  <2>2. ~raced /\ HeldTyped /\ CallSound(t)
    BY <2>1, TouchFacts, HeldIsTyped
  <2>3. p \in DOMAIN held
    BY <2>1, <2>2 DEF CallSound
  <2>. HIDE DEF p
  <2>4. DOMAIN held' = DOMAIN held \ {p} /\ \A q \in DOMAIN held' : held'[q] = held[q]
    BY <2>1
  <2>. QED
    BY <2>2, <2>3, <2>4, LessHeld DEF Abstract!Next
<1>6. ASSUME NEW p \in DOMAIN held, NEW n \in Sizes, ReallocKeep(t, p, n)
      PROVE  Abstract!Next \/ UNCHANGED Extents
  <2>1. UNCHANGED raced /\ held' = [held EXCEPT ![p] = n]
    BY <1>6 DEF ReallocKeep
  <2>2. HeldTyped
    BY <2>1, HeldIsTyped
  <2>3. DOMAIN held' = DOMAIN held /\ \A q \in DOMAIN held : q # p => held'[q] = held[q]
    BY <2>1
  <2>. QED
    BY <2>2, <2>3, OtherSizeHeld DEF Abstract!Next
<1>7. CASE ReallocExtend(t)
  <2>. DEFINE p == call[t].ptr
              n == call[t].size
  <2>1. Touch(t) /\ call[t].at = "realloc" /\ held' = [held EXCEPT ![p] = n]
    BY <1>7 DEF ReallocExtend, Locked
  <2>2. ~raced /\ HeldTyped /\ CallSound(t)
    BY <2>1, TouchFacts, HeldIsTyped
  <2>3. p \in DOMAIN held
    BY <2>1, <2>2 DEF CallSound
  <2>. HIDE DEF p, n
  <2>4. DOMAIN held' = DOMAIN held /\ \A q \in DOMAIN held : q # p => held'[q] = held[q]
    BY <2>1
  <2>. QED
    BY <2>2, <2>3, <2>4, OtherSizeHeld DEF Abstract!Next
<1>. QED
  BY <1>1, <1>2, <1>3, <1>4, <1>5, <1>6, <1>7

\* ImplementsHeap: the allocator never hands out bytes that are in use.
THEOREM AllocatorImplementsHeap == Spec => ImplementsHeap
<1>1. Init => Abstract!Init
  BY DEF Init, Abstract!Init, Extents
<1>2. IInv /\ IInv' /\ [Next]_vars => [~raced' => Abstract!Next \/ UNCHANGED Extents]_vars
  <2>. SUFFICES ASSUME IInv, IInv', Next, ~raced' PROVE Abstract!Next \/ UNCHANGED Extents
    OBVIOUS
  <2>1. HeldTyped'
    <3>1. (IInv /\ ~raced => HeldTyped)'
      BY HeldIsTyped, PTL
    <3>. QED
      BY <3>1
  <2>2. HeldApart'
    <3>1. (IInv /\ ~raced => HeldApart)'
      BY HeldIsApart, PTL
    <3>. QED
      BY <3>1
  <2>. QED
    BY <2>1, <2>2, NextImplements
<1>. QED
  BY <1>1, <1>2, AllocatorInvariant, PTL DEF Spec, ImplementsHeap

=============================================================================
