---------------------------- MODULE ConnectQueue ----------------------------
(***************************************************************************)
(* wallchanger::net::connect_queue (change_lib/net/connect_queue.hpp) with *)
(* the threads that use it: the pushers, which are the handlers of the I/O *)
(* thread, and the one thread that calls server_interface::update, again   *)
(* and again.  A push takes m_queue_mutex and, while it holds it,          *)
(* m_blocking_mutex; wait() tests for an empty queue under the first one   *)
(* only and sleeps under the second one only.  An element is the number    *)
(* of its push.                                                            *)
(***************************************************************************)
EXTENDS Integers, Sequences

CONSTANTS Pushers,       \* threads that push
          Popper,        \* the thread that pops
          Nobody,        \* the owner of a free mutex
          MaxMsg,        \* the argument max_msg of update
          MaxPushes      \* bound: pushes

ASSUME QueueAssumption ==
    /\ Popper \notin Pushers /\ Nobody \notin Pushers \cup {Popper}
    /\ MaxMsg \in Nat \ {0}
    /\ MaxPushes \in Nat

VARIABLES queue,         \* m_queue
          pushes,        \* number of the last push
          handled,       \* number of the last element given to on_message
          item,          \* the element that the popper has in hand
          queueLock,     \* owner of m_queue_mutex
          blockLock,     \* owner of m_blocking_mutex
          notified,      \* the condition variable has been notified
          count,         \* msg_count of update
          waits,         \* the argument wait of every update: call wait() first
          pc             \* what each thread does next

vars == <<queue, pushes, handled, item, queueLock, blockLock, notified, count, waits, pc>>

Threads == Pushers \cup {Popper}

Goto(t, where) == pc' = [pc EXCEPT ![t] = where]

Init ==
    /\ queue = <<>> /\ pushes = 0 /\ handled = 0 /\ item = 0
    /\ queueLock = Nobody /\ blockLock = Nobody
    /\ notified = FALSE /\ count = 0
    /\ waits \in BOOLEAN
    /\ pc = [t \in Threads |-> "idle"]

-----------------------------------------------------------------------------
\* push_back: the element goes in under m_queue_mutex, which stays locked.
Push(p) ==
    /\ pc[p] = "idle" /\ queueLock = Nobody
    /\ pushes < MaxPushes
    /\ queueLock' = p
    /\ pushes' = pushes + 1
    /\ queue' = Append(queue, pushes + 1)
    /\ Goto(p, "pushed")
    /\ UNCHANGED <<handled, item, blockLock, notified, count, waits>>

LockToNotify(p) ==
    /\ pc[p] = "pushed" /\ blockLock = Nobody
    /\ blockLock' = p
    /\ Goto(p, "notifying")
    /\ UNCHANGED <<queue, pushes, handled, item, queueLock, notified, count, waits>>

\* Mutant of Notify: nobody is notified.
NotifyNobody(p) ==
    /\ pc[p] = "notifying"
    /\ queueLock' = Nobody /\ blockLock' = Nobody
    /\ Goto(p, "idle")
    /\ UNCHANGED <<queue, pushes, handled, item, notified, count, waits>>

\* Mutant of Notify: it spins, with the mutexes, until the element is taken.
NotifySpinning(p) ==
    /\ pc[p] = "notifying"
    /\ notified' = (notified \/ pc[Popper] = "asleep")
    /\ IF queue = <<>>
         THEN queueLock' = Nobody /\ blockLock' = Nobody /\ Goto(p, "idle")
         ELSE UNCHANGED <<queueLock, blockLock, pc>>
    /\ UNCHANGED <<queue, pushes, handled, item, count, waits>>

\* notify_one reaches the popper only when it sleeps already; then both mutexes
\* are released.
Notify(p) ==
    /\ pc[p] = "notifying"
    /\ notified' = (notified \/ pc[Popper] = "asleep")
    /\ queueLock' = Nobody /\ blockLock' = Nobody
    /\ Goto(p, "idle")
    /\ UNCHANGED <<queue, pushes, handled, item, count, waits>>

-----------------------------------------------------------------------------
\* Mutant of Update: msg_count keeps its value from the call before.
UpdateUncounted ==
    /\ pc[Popper] = "idle"
    /\ Goto(Popper, IF waits THEN "testing" ELSE "draining")
    /\ UNCHANGED <<queue, pushes, handled, item, queueLock, blockLock, notified, count, waits>>

\* update(max_msg, wait).
Update ==
    /\ pc[Popper] = "idle"
    /\ count' = 0
    /\ Goto(Popper, IF waits THEN "testing" ELSE "draining")
    /\ UNCHANGED <<queue, pushes, handled, item, queueLock, blockLock, notified, waits>>

\* The condition of the loop in wait(): empty() takes and releases m_queue_mutex.
TestEmpty ==
    /\ pc[Popper] = "testing" /\ queueLock = Nobody
    /\ Goto(Popper, IF queue = <<>> THEN "locking" ELSE "draining")
    /\ UNCHANGED <<queue, pushes, handled, item, queueLock, blockLock, notified, count, waits>>

LockToSleep ==
    /\ pc[Popper] = "locking" /\ blockLock = Nobody
    /\ blockLock' = Popper
    /\ Goto(Popper, "sleeping")
    /\ UNCHANGED <<queue, pushes, handled, item, queueLock, notified, count, waits>>

\* condition_variable::wait releases the mutex and sleeps in one step.
Sleep ==
    /\ pc[Popper] = "sleeping"
    /\ blockLock' = Nobody
    /\ notified' = FALSE
    /\ Goto(Popper, "asleep")
    /\ UNCHANGED <<queue, pushes, handled, item, queueLock, count, waits>>

\* Waking takes the mutex again.
Awake ==
    /\ pc[Popper] = "asleep" /\ blockLock = Nobody
    /\ blockLock' = Popper
    /\ notified' = FALSE
    /\ Goto(Popper, "awake")
    /\ UNCHANGED <<queue, pushes, handled, item, queueLock, count, waits>>

WakeNotified == notified /\ Awake

\* A condition variable may wake without being notified.
WakeSpuriously == ~ notified /\ Awake

Retest ==
    /\ pc[Popper] = "awake"
    /\ blockLock' = Nobody
    /\ Goto(Popper, "testing")
    /\ UNCHANGED <<queue, pushes, handled, item, queueLock, notified, count, waits>>

-----------------------------------------------------------------------------
\* Mutant of Drain: whether the queue is empty is not tested.
DrainUntested ==
    /\ pc[Popper] = "draining" /\ queueLock = Nobody
    /\ Goto(Popper, IF count < MaxMsg THEN "popping" ELSE "idle")
    /\ UNCHANGED <<queue, pushes, handled, item, queueLock, blockLock, notified, count, waits>>

\* The condition of the loop in update.
Drain ==
    /\ pc[Popper] = "draining" /\ queueLock = Nobody
    /\ Goto(Popper, IF count < MaxMsg /\ queue # <<>> THEN "popping" ELSE "idle")
    /\ UNCHANGED <<queue, pushes, handled, item, queueLock, blockLock, notified, count, waits>>

\* Mutant of Pop: pop_back.
PopLast ==
    /\ pc[Popper] = "popping" /\ queueLock = Nobody /\ queue # <<>>
    /\ item' = queue[Len(queue)]
    /\ queue' = SubSeq(queue, 1, Len(queue) - 1)
    /\ Goto(Popper, "handling")
    /\ UNCHANGED <<pushes, handled, queueLock, blockLock, notified, count, waits>>

\* pop_front; on an empty queue it would read an element that is not there.
Pop ==
    /\ pc[Popper] = "popping" /\ queueLock = Nobody /\ queue # <<>>
    /\ item' = Head(queue)
    /\ queue' = Tail(queue)
    /\ Goto(Popper, "handling")
    /\ UNCHANGED <<pushes, handled, queueLock, blockLock, notified, count, waits>>

Handle ==
    /\ pc[Popper] = "handling"
    /\ handled' = item
    /\ count' = count + 1
    /\ Goto(Popper, "draining")
    /\ UNCHANGED <<queue, pushes, item, queueLock, blockLock, notified, waits>>

-----------------------------------------------------------------------------
PushStep(p) == Push(p) \/ LockToNotify(p) \/ Notify(p)

PopStep ==
    \/ Update \/ TestEmpty \/ LockToSleep \/ Sleep \/ WakeNotified \/ Retest
    \/ Drain \/ Pop \/ Handle

Next == PopStep \/ WakeSpuriously \/ \E p \in Pushers : PushStep(p)

(***************************************************************************)
(* A thread that can run runs at last, and a mutex that is free again and  *)
(* again is at last given to the thread that waits for it.  Nothing forces *)
(* a push to begin, or a wake-up without a cause.                          *)
(***************************************************************************)
Fairness ==
    /\ WF_vars(Update) /\ WF_vars(Sleep) /\ WF_vars(Retest) /\ WF_vars(Handle)
    /\ SF_vars(TestEmpty) /\ SF_vars(LockToSleep) /\ SF_vars(WakeNotified)
    /\ SF_vars(Drain) /\ SF_vars(Pop)
    /\ \A p \in Pushers : SF_vars(LockToNotify(p)) /\ WF_vars(Notify(p))

Spec     == Init /\ [][Next]_vars
LiveSpec == Spec /\ Fairness

-----------------------------------------------------------------------------
PushPlaces == {"idle", "pushed", "notifying"}
PopPlaces  == {"idle", "testing", "locking", "sleeping", "asleep", "awake",
               "draining", "popping", "handling"}

TypeOK ==
    /\ queue \in Seq(Nat)
    /\ pushes \in 0..MaxPushes /\ handled \in Nat /\ item \in Nat
    /\ queueLock \in Pushers \cup {Nobody}
    /\ blockLock \in Threads \cup {Nobody}
    /\ notified \in BOOLEAN /\ waits \in BOOLEAN
    /\ count \in 0..MaxMsg
    /\ pc \in [Threads -> PushPlaces \cup PopPlaces]
    /\ \A p \in Pushers : pc[p] \in PushPlaces
    /\ pc[Popper] \in PopPlaces

\* update tests and pops under two separate locks; with one popper the queue
\* never is empty when pop_front takes the first element.
PopsSomething == pc[Popper] = "popping" => queue # <<>>

\* The mutexes are owned by the threads that are inside them, and by those only.
LocksMatch ==
    /\ \A p \in Pushers : pc[p] \in {"pushed", "notifying"} <=> queueLock = p
    /\ \A p \in Pushers : pc[p] = "notifying" <=> blockLock = p
    /\ pc[Popper] \in {"sleeping", "awake"} <=> blockLock = Popper

\* No element is lost, doubled or overtaken: what has been handled, what is in
\* hand and what is queued are together the pushes, in their order.
Taken == IF pc[Popper] = "handling" THEN handled + 1 ELSE handled

HandledInOrder ==
    /\ pc[Popper] = "handling" => item = handled + 1
    /\ pushes = Taken + Len(queue)
    /\ \A i \in 1..Len(queue) : queue[i] = Taken + i

-----------------------------------------------------------------------------
\* Locking the second mutex inside the first one never blocks for good: every
\* push returns, whatever the popper does.
PushReturns == \A p \in Pushers : pc[p] = "pushed" ~> pc[p] = "idle"

\* The popper that polls, as both callers of update do, handles every element.
PushedIsHandled == \A n \in 1..MaxPushes : (~ waits /\ pushes >= n) ~> handled >= n

\* A popper that waits may fall asleep on a queue that is not empty, when the
\* push came after its test.  The next push wakes it, and then it handles all.
NextPushWakes ==
    \A n \in 1..MaxPushes :
        (pc[Popper] = "asleep" /\ pushes = n /\ \E p \in Pushers : pc[p] = "pushed")
            ~> handled >= n
=============================================================================
