------------------------- MODULE ConnectQueueProofs -------------------------
(***************************************************************************)
(* Safety of connect_queue for any number of pushing threads, any max_msg, *)
(* with and without waiting.                                               *)
(***************************************************************************)
EXTENDS ConnectQueue, TLAPS

\* PopsSomething needs the popper to be the only one that makes the queue
\* shorter; the order of the elements needs the typing of the queue, and no
\* two threads to be inside the same mutex.
Inv ==
    /\ TypeOK /\ LocksMatch /\ PopsSomething /\ HandledInOrder
    /\ pc[Popper] \in {"popping", "handling"} => count < MaxMsg

\* The queue starts empty, with free mutexes.
LEMMA InitInv == Init => Inv
<1> SUFFICES ASSUME Init PROVE Inv
  OBVIOUS
<1> USE QueueAssumption DEF Init, Threads
<1>1. pc[Popper] = "idle" /\ \A p \in Pushers : pc[p] = "idle"
  OBVIOUS
<1>2. TypeOK
  <2>1. pc \in [Threads -> PushPlaces \cup PopPlaces]
    BY DEF PushPlaces
  <2>2. pushes \in 0..MaxPushes /\ count \in 0..MaxMsg /\ queue \in Seq(Nat)
    OBVIOUS
  <2> QED
    BY <1>1, <2>1, <2>2 DEF TypeOK, PushPlaces, PopPlaces
<1>3. LocksMatch
  BY <1>1 DEF LocksMatch
<1>4. PopsSomething /\ HandledInOrder
  BY <1>1 DEF PopsSomething, HandledInOrder, Taken
<1> QED
  BY <1>1, <1>2, <1>3, <1>4 DEF Inv

\* A step of a pusher preserves the invariant: it only appends, and only when
\* m_queue_mutex is free.
LEMMA PushStepInv ==
  ASSUME Inv, NEW p \in Pushers, PushStep(p) PROVE Inv'
<1> USE QueueAssumption
<1> p # Popper /\ p # Nobody /\ Popper # Nobody
  OBVIOUS
<1> pc \in [Threads -> PushPlaces \cup PopPlaces] /\ p \in Threads /\ Popper \in Threads
  BY DEF Inv, TypeOK, Threads
<1>1. CASE Push(p)
  <2> USE <1>1 DEF Push, Goto
  <2>1. TypeOK'
    BY DEF Inv, TypeOK, PushPlaces, PopPlaces, Threads
  <2>2. LocksMatch'
    <3>1. \A q \in Pushers : q # p => pc'[q] = pc[q] /\ pc[q] \notin {"pushed", "notifying"}
      BY DEF Inv, TypeOK, LocksMatch, Threads
    <3>2. pc'[p] = "pushed" /\ pc'[Popper] = pc[Popper] /\ blockLock # p
      BY DEF Inv, TypeOK, LocksMatch
    <3> QED
      BY <3>1, <3>2 DEF Inv, LocksMatch
  <2>3. PopsSomething' /\ pc'[Popper] = pc[Popper]
    BY DEF Inv, TypeOK, PopsSomething
  <2>4. HandledInOrder'
    <3>1. Len(queue') = Len(queue) + 1 /\ Taken' = Taken
      BY <2>3 DEF Inv, TypeOK, Taken
    <3>2. \A i \in 1..Len(queue) : queue'[i] = queue[i]
      BY DEF Inv, TypeOK
    <3>3. queue'[Len(queue')] = pushes + 1
      BY <3>1 DEF Inv, TypeOK
    <3>5. pushes + 1 = Taken + Len(queue')
      <4>1. pushes = Taken + Len(queue)
        BY DEF Inv, HandledInOrder
      <4>2. pushes \in Nat /\ Taken \in Nat /\ Len(queue) \in Nat
        BY DEF Inv, TypeOK, Taken
      <4> QED
        BY <3>1, <4>1, <4>2
    <3>4. \A i \in 1..Len(queue') : queue'[i] = Taken + i
      <4>1. \A i \in 1..Len(queue') : i \in 1..Len(queue) \/ i = Len(queue')
        BY <3>1 DEF Inv, TypeOK
      <4> QED
        BY <3>2, <3>3, <3>5, <4>1 DEF Inv, HandledInOrder
    <3> QED
      BY <2>3, <3>1, <3>5, <3>4 DEF Inv, TypeOK, HandledInOrder, Taken
  <2> QED
    BY <2>1, <2>2, <2>3, <2>4 DEF Inv
<1>2. CASE LockToNotify(p) \/ Notify(p)
  <2> USE <1>2 DEF LockToNotify, Notify, Goto
  <2>1. TypeOK'
    <3>1. CASE LockToNotify(p)
      BY <3>1 DEF Inv, TypeOK, PushPlaces, PopPlaces, Threads
    <3>2. CASE Notify(p)
      BY <3>2 DEF Inv, TypeOK, PushPlaces, PopPlaces, Threads
    <3> QED
      BY <3>1, <3>2
  <2>2. LocksMatch'
    BY DEF Inv, TypeOK, LocksMatch, Threads, PushPlaces, PopPlaces
  <2>3. PopsSomething' /\ HandledInOrder'
    BY DEF Inv, TypeOK, PopsSomething, HandledInOrder, Taken
  <2> QED
    BY <2>1, <2>2, <2>3 DEF Inv
<1> QED
  BY <1>1, <1>2 DEF PushStep

\* The popper's steps around wait() and the tests of update do not touch the
\* elements.
LEMMA WaitStepInv ==
  ASSUME Inv,
         \/ Update \/ TestEmpty \/ LockToSleep \/ Sleep \/ Awake \/ Retest \/ Drain
  PROVE  Inv'
<1> USE QueueAssumption DEF Update, TestEmpty, LockToSleep, Sleep, Awake, Retest, Drain, Goto
<1> pc \in [Threads -> PushPlaces \cup PopPlaces] /\ Popper \in Threads
       /\ Pushers \subseteq Threads /\ Popper \notin Pushers
  BY DEF Inv, TypeOK, Threads
<1>1. \A p \in Pushers : pc'[p] = pc[p]
  BY DEF Threads
<1>2. pc' \in [Threads -> PushPlaces \cup PopPlaces] /\ pc'[Popper] \in PopPlaces
  BY DEF PushPlaces, PopPlaces
<1>3. count' \in 0..MaxMsg
  <2>1. count' = count \/ count' = 0
    OBVIOUS
  <2> QED
    BY <2>1 DEF Inv, TypeOK
<1>4. notified' \in BOOLEAN /\ blockLock' \in Threads \cup {Nobody}
  BY DEF Inv, TypeOK
<1>5. TypeOK'
  BY <1>1, <1>2, <1>3, <1>4 DEF Inv, TypeOK
<1>6. LocksMatch'
  <2>1. \A p \in Pushers : blockLock = p <=> blockLock' = p
    BY DEF Inv, LocksMatch
  <2>2. pc'[Popper] \in {"sleeping", "awake"} <=> blockLock' = Popper
    BY DEF Inv, TypeOK, LocksMatch
  <2> QED
    BY <1>1, <2>1, <2>2 DEF Inv, LocksMatch
<1>7. PopsSomething' /\ HandledInOrder'
  BY DEF Inv, TypeOK, PopsSomething, HandledInOrder, Taken
<1> QED
  BY <1>5, <1>6, <1>7 DEF Inv

\* pop_front takes the element that on_message has to see next.
LEMMA PopStepInv ==
  ASSUME Inv, Pop \/ Handle PROVE Inv'
<1> USE QueueAssumption DEF Goto
<1> pc \in [Threads -> PushPlaces \cup PopPlaces] /\ Popper \in Threads
       /\ Pushers \subseteq Threads /\ Popper \notin Pushers
  BY DEF Inv, TypeOK, Threads
<1>1. \A p \in Pushers : pc'[p] = pc[p]
  BY DEF Pop, Handle, Threads
<1>2. LocksMatch'
  BY <1>1 DEF Inv, TypeOK, LocksMatch, Pop, Handle
<1>3. CASE Pop
  <2> USE <1>3 DEF Pop
  <2>1. /\ queue' \in Seq(Nat) /\ item' = queue[1] /\ queue[1] \in Nat
        /\ Len(queue') = Len(queue) - 1
        /\ \A i \in 1..Len(queue') : queue'[i] = queue[i + 1]
    BY DEF Inv, TypeOK
  <2>2. TypeOK'
    BY <2>1 DEF Inv, TypeOK, PushPlaces, PopPlaces, Threads
  <2>3. Taken = handled /\ Taken' = handled + 1
    BY DEF Inv, TypeOK, Taken
  <2>4. 1 \in 1..Len(queue) /\ Len(queue) \in Nat
    BY DEF Inv, TypeOK
  <2>5. item' = handled + 1
    BY <2>1, <2>3, <2>4 DEF Inv, HandledInOrder
  <2>6. \A i \in 1..Len(queue') : queue'[i] = Taken' + i
    BY <2>1, <2>3, <2>4 DEF Inv, TypeOK, HandledInOrder
  <2>7. HandledInOrder'
    BY <2>1, <2>3, <2>4, <2>5, <2>6 DEF Inv, TypeOK, HandledInOrder
  <2>8. PopsSomething'
    BY DEF PopsSomething
  <2> QED
    BY <1>2, <2>2, <2>7, <2>8 DEF Inv
<1>4. CASE Handle
  <2> USE <1>4 DEF Handle
  <2>1. TypeOK'
    BY DEF Inv, TypeOK, PushPlaces, PopPlaces, Threads
  <2>2. HandledInOrder' /\ PopsSomething'
    BY DEF Inv, TypeOK, HandledInOrder, PopsSomething, Taken
  <2> QED
    BY <1>2, <2>1, <2>2 DEF Inv
<1> QED
  BY <1>3, <1>4
\* Every step preserves the invariant.
LEMMA NextInv == Inv /\ [Next]_vars => Inv'
<1> SUFFICES ASSUME Inv, [Next]_vars PROVE Inv'
  OBVIOUS
<1>1. CASE UNCHANGED vars
  BY <1>1 DEF vars, Inv, TypeOK, LocksMatch, PopsSomething, HandledInOrder, Taken
<1>2. CASE PopStep \/ WakeSpuriously
  BY <1>2, WaitStepInv, PopStepInv DEF PopStep, WakeSpuriously, WakeNotified
<1>3. CASE \E p \in Pushers : PushStep(p)
  BY <1>3, PushStepInv
<1> QED
  BY <1>1, <1>2, <1>3 DEF Next

\* The invariant holds for any number of threads.
THEOREM SafelyQueued == Spec => []Inv
<1> QED
  BY InitInv, NextInv, PTL DEF Spec

\* All variables keep their types: in particular only pushers own m_queue_mutex
\* across steps, and update never counts past max_msg.
THEOREM TypeCorrect == Spec => []TypeOK
<1>1. Inv => TypeOK
  BY DEF Inv
<1> QED
  BY <1>1, SafelyQueued, PTL

\* However many threads push, pop_front of the one that pops never meets an
\* empty queue, although the test and the pop lock the queue separately.
THEOREM PopsAreSafe == Spec => []PopsSomething
<1>1. Inv => PopsSomething
  BY DEF Inv
<1> QED
  BY <1>1, SafelyQueued, PTL

\* Every element is handled at most once, in the order of the pushes, and none
\* is lost between the two ends.
THEOREM OrderIsKept == Spec => []HandledInOrder
<1>1. Inv => HandledInOrder
  BY DEF Inv
<1> QED
  BY <1>1, SafelyQueued, PTL

\* Each of the two mutexes is owned by exactly the thread whose place in the
\* code is between its lock and its unlock.
THEOREM LocksAreOwned == Spec => []LocksMatch
<1>1. Inv => LocksMatch
  BY DEF Inv
<1> QED
  BY <1>1, SafelyQueued, PTL
-----------------------------------------------------------------------------
\* What a thread needs before it can go on: m_queue_mutex, to push, to test and
\* to pop; m_blocking_mutex, to notify, to sleep and to wake.
NeedsQueueLock(t) ==
    pc[t] \in IF t = Popper THEN {"testing", "draining", "popping"} ELSE {"idle"}

NeedsBlockLock(t) ==
    pc[t] \in IF t = Popper THEN {"locking", "asleep"} ELSE {"pushed"}

\* The owner of m_blocking_mutex waits for no mutex, and the owner of
\* m_queue_mutex at most for m_blocking_mutex.
NoCircularWait ==
    /\ blockLock # Nobody => ~ NeedsQueueLock(blockLock) /\ ~ NeedsBlockLock(blockLock)
    /\ queueLock # Nobody => ~ NeedsQueueLock(queueLock)

\* push_back takes the second mutex while it holds the first one, and wait() the
\* two in turn: yet no threads ever wait for each other in a circle, whatever
\* their number.
THEOREM NeverCircular == Spec => []NoCircularWait
<1>1. Inv => NoCircularWait
  <2> SUFFICES ASSUME Inv PROVE NoCircularWait
    OBVIOUS
  <2>1. /\ blockLock \in Pushers => pc[blockLock] = "notifying"
        /\ blockLock = Popper => pc[Popper] \in {"sleeping", "awake"}
        /\ queueLock \in Pushers => pc[queueLock] \in {"pushed", "notifying"}
    BY DEF Inv, LocksMatch
  <2>2. blockLock \in Pushers \cup {Popper, Nobody} /\ queueLock \in Pushers \cup {Nobody}
    BY DEF Inv, TypeOK, Threads
  <2> QED
    BY <2>1, <2>2, QueueAssumption DEF NoCircularWait, NeedsQueueLock, NeedsBlockLock
<1> QED
  BY <1>1, SafelyQueued, PTL
=============================================================================
