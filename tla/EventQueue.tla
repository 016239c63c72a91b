----------------------------- MODULE EventQueue -----------------------------
(***************************************************************************)
(* core/runtime/bus/EventQueue.h: the queue behind EventBus, with its      *)
(* mutex and its condition variable.  Device workers, the HTTP workers,    *)
(* the thread that calls stop() and the event loop's own handlers push;    *)
(* only the event loop pops; destroy() clears.                             *)
(*                                                                         *)
(* One step per access to shared state.  push() notifies after it has      *)
(* released the mutex (the extra block of lines 10-13), so a notification  *)
(* is a step of its own that other threads can overtake.                   *)
(***************************************************************************)
EXTENDS Integers, Sequences

CONSTANTS
  Publishers,  \* threads that push and clear
  Consumer,    \* the event loop's thread: the one that pops, it pushes too
  NoOwner,     \* the owner of a free mutex
  MaxPush,     \* bound: pushes per thread
  MaxClear     \* bound: calls of clear()

Threads == Publishers \cup {Consumer}

ASSUME ThreadsAssumption ==
  /\ Consumer \notin Publishers
  /\ NoOwner \notin Threads
  /\ MaxPush \in Nat
  /\ MaxClear \in Nat

Event == [from : Threads, n : 1 .. MaxPush]

VARIABLES
  queue,      \* queue_
  owner,      \* who holds mutex_
  pc,         \* where each thread is
  call,       \* how the consumer's latest wait_and_pop() stands
  pushed,     \* number of pushes of each thread; also names its events
  clears,     \* number of clear() calls
  delivered   \* history: the events wait_and_pop() returned, in order

vars == <<queue, owner, pc, call, pushed, clears, delivered>>

Init ==
  /\ queue = << >>
  /\ owner = NoOwner
  /\ pc = [t \in Threads |-> "idle"]
  /\ call = "idle"
  /\ pushed = [t \in Threads |-> 0]
  /\ clears = 0
  /\ delivered = << >>

Goto(t, label) == pc' = [pc EXCEPT ![t] = label]

-----------------------------------------------------------------------------
(* Slips: wrong variants of definitions below, each a mistake the code could *)
(* plausibly have made.  No specification uses them; put in the place of the *)
(* right definition, each makes the property named with it fail.             *)

\* No lock_guard (TypeOK).
AcquireBusy(t, from, to) ==
  /\ pc[t] = from
  /\ owner' = t
  /\ Goto(t, to)
  /\ UNCHANGED <<queue, pushed, clears, delivered>>

\* The new event goes to the front (InOrder).
PushFront(t) ==
  /\ pc[t] = "push"
  /\ queue' = <<[from |-> t, n |-> pushed[t] + 1]>> \o queue
  /\ pushed' = [pushed EXCEPT ![t] = @ + 1]
  /\ owner' = NoOwner
  /\ Goto(t, "notify")
  /\ UNCHANGED <<call, clears, delivered>>

\* Nobody is notified (EventsMove).
NotifyNobody(t) ==
  /\ pc[t] = "notify"
  /\ Goto(t, "idle")
  /\ UNCHANGED <<queue, owner, call, pushed, clears, delivered>>

\* The mutex is released between the test and the wait (NoLostWakeup).
PopCheckThenUnlock ==
  /\ pc[Consumer] = "check"
  /\ Goto(Consumer, IF queue # << >> THEN "take" ELSE "block")
  /\ owner' = IF queue # << >> THEN owner ELSE NoOwner
  /\ UNCHANGED <<queue, call, pushed, clears, delivered>>

\* An expired wait gives up without another look (ImplementsChannel).
PopTimedOutBlindly ==
  /\ pc[Consumer] = "lastcheck"
  /\ owner' = NoOwner
  /\ call' = "timeout"
  /\ Goto(Consumer, "idle")
  /\ UNCHANGED <<queue, pushed, clears, delivered>>

-----------------------------------------------------------------------------
(* The mutex                                                               *)

\* t, at label `from', takes the free mutex and goes on at label `to'.
Acquire(t, from, to) ==
  /\ pc[t] = from
  /\ owner = NoOwner
  /\ owner' = t
  /\ Goto(t, to)
  /\ UNCHANGED <<queue, pushed, clears, delivered>>

-----------------------------------------------------------------------------
(* push()                                                                  *)

PushLock(t) ==
  /\ pushed[t] < MaxPush
  /\ Acquire(t, "idle", "push")
  /\ UNCHANGED call

PushAppend(t) ==
  /\ pc[t] = "push"
  /\ queue' = Append(queue, [from |-> t, n |-> pushed[t] + 1])
  /\ pushed' = [pushed EXCEPT ![t] = @ + 1]
  /\ owner' = NoOwner
  /\ Goto(t, "notify")
  /\ UNCHANGED <<call, clears, delivered>>

\* cv_.notify_one() outside the mutex: it reaches the consumer only if the
\* consumer is in the wait set at this very moment.
Notify(t) ==
  /\ pc[t] = "notify"
  /\ pc' = [u \in Threads |->
              IF u = t THEN "idle"
              ELSE IF u = Consumer /\ pc[u] = "waiting" THEN "woken"
              ELSE pc[u]]
  /\ UNCHANGED <<queue, owner, call, pushed, clears, delivered>>

-----------------------------------------------------------------------------
(* clear()                                                                 *)

ClearLock(t) ==
  /\ clears < MaxClear
  /\ Acquire(t, "idle", "clear")
  /\ UNCHANGED call

ClearDrain(t) ==
  /\ pc[t] = "clear"
  /\ queue' = << >>
  /\ clears' = clears + 1
  /\ owner' = NoOwner
  /\ Goto(t, "idle")
  /\ UNCHANGED <<call, pushed, delivered>>

-----------------------------------------------------------------------------
(* wait_and_pop(): wait_for with a predicate tests it before waiting, after *)
(* every wakeup, and once more when the timeout expires.                    *)

PopLock ==
  /\ Acquire(Consumer, "idle", "check")
  /\ call' = "waiting"

PopCheck ==
  /\ pc[Consumer] = "check"
  /\ Goto(Consumer, IF queue # << >> THEN "take" ELSE "block")
  /\ UNCHANGED <<queue, owner, call, pushed, clears, delivered>>

\* wait_for releases the mutex and joins the wait set in one step.
PopBlock ==
  /\ pc[Consumer] = "block"
  /\ owner' = NoOwner
  /\ Goto(Consumer, "waiting")
  /\ UNCHANGED <<queue, call, pushed, clears, delivered>>

SpuriousWakeup ==
  /\ pc[Consumer] = "waiting"
  /\ Goto(Consumer, "woken")
  /\ UNCHANGED <<queue, owner, call, pushed, clears, delivered>>

Timeout ==
  /\ pc[Consumer] = "waiting"
  /\ Goto(Consumer, "expired")
  /\ UNCHANGED <<queue, owner, call, pushed, clears, delivered>>

PopRelock ==
  /\ \/ Acquire(Consumer, "woken", "check")
     \/ Acquire(Consumer, "expired", "lastcheck")
  /\ UNCHANGED call

PopTake ==
  /\ \/ pc[Consumer] = "take"
     \/ pc[Consumer] = "lastcheck" /\ queue # << >>
  /\ delivered' = Append(delivered, Head(queue))
  /\ queue' = Tail(queue)
  /\ owner' = NoOwner
  /\ call' = "event"
  /\ Goto(Consumer, "idle")
  /\ UNCHANGED <<pushed, clears>>

PopTimedOut ==
  /\ pc[Consumer] = "lastcheck"
  /\ queue = << >>
  /\ owner' = NoOwner
  /\ call' = "timeout"
  /\ Goto(Consumer, "idle")
  /\ UNCHANGED <<queue, pushed, clears, delivered>>

-----------------------------------------------------------------------------

Push(t) == PushLock(t) \/ PushAppend(t) \/ Notify(t)
Clear(t) == ClearLock(t) \/ ClearDrain(t)
Pop == PopLock \/ PopCheck \/ PopBlock \/ PopRelock \/ PopTake \/ PopTimedOut

Next ==
  \/ \E t \in Threads : Push(t) \/ Clear(t)
  \/ Pop
  \/ SpuriousWakeup
  \/ Timeout

Spec == Init /\ [][Next]_vars

\* A thread inside push() or clear() goes on, and the event loop keeps calling
\* wait_and_pop() (EventLoop.h, line 21).  Nothing makes a thread start a push
\* or a clear, no wakeup is spurious by right, and the timeout is left unfair:
\* what is live here does not depend on it.
Fairness ==
  /\ \A t \in Threads : WF_vars(PushAppend(t) \/ Notify(t) \/ ClearDrain(t))
  /\ WF_vars(Pop)

FairSpec == Spec /\ Fairness

-----------------------------------------------------------------------------

Labels == {"idle", "push", "notify", "clear", "check", "block", "waiting",
           "woken", "expired", "lastcheck", "take"}

\* The labels between taking mutex_ and releasing it.
Critical == {"push", "clear", "check", "block", "lastcheck", "take"}

\* The state stays in the types of EventQueue.h's members; only the consumer is
\* ever inside wait_and_pop(); a thread between lock and unlock owns mutex_.
TypeOK ==
  /\ \A t \in Threads : pc[t] \in Critical => owner = t
  /\ queue \in Seq(Event)
  /\ owner \in Threads \cup {NoOwner}
  /\ pc \in [Threads -> Labels]
  /\ \A t \in Publishers : pc[t] \in {"idle", "push", "notify", "clear"}
  /\ call \in {"idle", "waiting", "event", "timeout"}
  /\ pushed \in [Threads -> 0 .. MaxPush]
  /\ clears \in 0 .. MaxClear
  /\ delivered \in Seq(Event)

\* No wakeup is lost although push() notifies outside the mutex: while the
\* consumer sleeps on a non-empty queue, some thread still owes it a
\* notify_one() (EventQueue.h, lines 10-14 against 27-29).
NoLostWakeup ==
  pc[Consumer] = "waiting" /\ queue # << >> =>
    \E t \in Threads : pc[t] = "notify"

\* The events of one thread reach the consumer in the order it pushed them and
\* at most once each, however pushes, pops and clears of several threads
\* interleave; what is still queued continues that order.
InOrder ==
  LET all == delivered \o queue
  IN \A i, j \in 1 .. Len(all) :
       i < j /\ all[i].from = all[j].from => all[i].n < all[j].n

\* The queue implements the channel: in particular wait_and_pop() returns false
\* only at a moment when the queue is empty, even when the timeout races a push
\* (EventQueue.h, lines 27-32).
Channel == INSTANCE EventChannel WITH backlog <- queue
ImplementsChannel == Channel!Spec

\* Every queued event gets out of the queue (delivered, or cleared), and does so
\* through notifications alone: the 50 ms timeout of EventLoop::run() is not
\* what keeps events moving.  As pushes are bounded, some event stays for ever
\* exactly if the queue is never empty again.
EventsMove == queue # << >> ~> queue = << >>
=============================================================================
