------------------------- MODULE CoreRuntimeProofs -------------------------
(***************************************************************************)
(* Proofs about the two parts of core/runtime that EventLoop.h is built on. *)
(*                                                                         *)
(* EventQueue.tla, for any set of threads, any number of pushes and any    *)
(* number of clears: its types and its mutex, that no wakeup is lost, that *)
(* the events of one thread keep their order, and that it implements       *)
(* EventChannel.                                                           *)
(*                                                                         *)
(* TimerManager.tla, for any number of timers, any intervals and any       *)
(* bounds on the phases of a pass: timers do not tick in bursts, and no    *)
(* timer is late by more than one pass and the process() after it.         *)
(***************************************************************************)
EXTENDS EventQueue, TimerManager, SequenceTheorems, TLAPS

-----------------------------------------------------------------------------
(* A queue q and the history d of what has left it: d \o q is everything   *)
(* that entered, in order.                                                 *)

\* Moving the head of q to the end of d leaves d \o q as it was.
LEMMA HeadMovesOver ==
  ASSUME NEW S, NEW d \in Seq(S), NEW q \in Seq(S), q # << >>
  PROVE  Append(d, Head(q)) \o Tail(q) = d \o q
<1>1. Head(q) \in S /\ Tail(q) \in Seq(S) /\ <<Head(q)>> \in Seq(S)
  BY HeadTailProperties
<1>2. q = <<Head(q)>> \o Tail(q)
  <2>1. Len(q) \in Nat \ {0} /\ Head(q) = q[1]
    BY EmptySeq
  <2>2. QED
    BY <2>1, SubSeqFull, SubSeqRecursiveFirst, TailIsSubSeq
<1>3. QED
  BY <1>1, <1>2, AppendIsConcat, ConcatAssociative

\* Appending to the second of two joined sequences appends to the whole.
LEMMA AppendToSecond ==
  ASSUME NEW S, NEW d \in Seq(S), NEW q \in Seq(S), NEW e \in S
  PROVE  d \o Append(q, e) = Append(d \o q, e)
BY AppendIsConcat, ConcatProperties, ConcatAssociative

USE DEF Threads

-----------------------------------------------------------------------------
(* The inductive invariant.  TypeOK alone says who owns the mutex; to carry *)
(* NoLostWakeup through a step one must also know what a thread inside the  *)
(* mutex has seen before, and that nobody could change it since.            *)

\* A thread that has started to push or to clear is below its bound.
Room ==
  \A t \in Threads : /\ pc[t] = "push" => pushed[t] < MaxPush
                     /\ pc[t] = "clear" => clears < MaxClear

\* What the consumer's predicate said still holds where the consumer acts on it.
StillTrue ==
  /\ pc[Consumer] = "take" => queue # << >>
  /\ pc[Consumer] = "block" => queue = << >>

\* wait_and_pop() is open exactly at these labels.
InPop == {"check", "block", "waiting", "woken", "expired", "lastcheck", "take"}
CallIsOpen == call = "waiting" <=> pc[Consumer] \in InPop

Inv == TypeOK /\ Room /\ StillTrue /\ CallIsOpen /\ NoLostWakeup

\* A newly pushed event is an Event: its number is within the bound.
LEMMA NewEvent ==
  ASSUME TypeOK, Room, NEW t \in Threads, pc[t] = "push"
  PROVE  /\ [from |-> t, n |-> pushed[t] + 1] \in Event
         /\ pushed[t] + 1 \in 1 .. MaxPush
BY ThreadsAssumption DEF TypeOK, Room, Event

-----------------------------------------------------------------------------

\* The invariant holds of a new queue.
LEMMA InvInit == Init => Inv
BY ThreadsAssumption, EmptySeq
DEF Init, Inv, TypeOK, Room, StillTrue, CallIsOpen, InPop, NoLostWakeup,
    Labels, Critical

\* Every step of push(), clear() and wait_and_pop() keeps it.
LEMMA InvNext == Inv /\ [Next]_vars => Inv'
<1> SUFFICES ASSUME Inv, [Next]_vars
             PROVE  Inv'
  OBVIOUS
<1> USE ThreadsAssumption
    DEF Inv, TypeOK, Room, StillTrue, CallIsOpen, InPop, NoLostWakeup,
        Labels, Critical, Goto
<1>1. ASSUME NEW t \in Threads, PushLock(t)
      PROVE  Inv'
  BY <1>1 DEF PushLock, Acquire
<1>2. ASSUME NEW t \in Threads, PushAppend(t)
      PROVE  Inv'
  <2> DEFINE e == [from |-> t, n |-> pushed[t] + 1]
  <2>1. e \in Event /\ pushed[t] + 1 \in 1 .. MaxPush
    BY <1>2, NewEvent DEF PushAppend
  <2>2. queue' \in Seq(Event) /\ queue' # << >>
    BY <1>2, <2>1, AppendProperties DEF PushAppend
  <2>3. QED
    BY <1>2, <2>1, <2>2 DEF PushAppend
<1>3. ASSUME NEW t \in Threads, Notify(t)
      PROVE  Inv'
  BY <1>3 DEF Notify
<1>4. ASSUME NEW t \in Threads, ClearLock(t)
      PROVE  Inv'
  BY <1>4 DEF ClearLock, Acquire
<1>5. ASSUME NEW t \in Threads, ClearDrain(t)
      PROVE  Inv'
  BY <1>5, EmptySeq DEF ClearDrain
<1>6. CASE PopLock
  BY <1>6 DEF PopLock, Acquire
<1>7. CASE PopCheck
  BY <1>7 DEF PopCheck
<1>8. CASE PopBlock
  BY <1>8 DEF PopBlock
<1>9. CASE SpuriousWakeup
  BY <1>9 DEF SpuriousWakeup
<1>10. CASE Timeout
  BY <1>10 DEF Timeout
<1>11. CASE PopRelock
  BY <1>11 DEF PopRelock, Acquire
<1>12. CASE PopTake
  <2>1. queue # << >>
    BY <1>12 DEF PopTake
  <2>2. /\ queue' \in Seq(Event)
        /\ delivered' \in Seq(Event)
    BY <1>12, <2>1, HeadTailProperties, AppendProperties DEF PopTake
  <2>3. QED
    BY <1>12, <2>2 DEF PopTake
<1>13. CASE PopTimedOut
  BY <1>13 DEF PopTimedOut
<1>14. CASE UNCHANGED vars
  BY <1>14 DEF vars
<1>15. QED
  BY <1>1, <1>2, <1>3, <1>4, <1>5, <1>6, <1>7, <1>8, <1>9, <1>10, <1>11,
     <1>12, <1>13, <1>14
  DEF Next, Push, Clear, Pop

\* The invariant holds in every behaviour.
LEMMA InvAlways == Spec => []Inv
BY InvInit, InvNext, PTL DEF Spec

\* Type correctness and mutual exclusion: whatever the threads do, every member
\* keeps its type and a thread inside a critical section owns mutex_.
THEOREM TypeCorrect == Spec => []TypeOK
<1>1. Inv => TypeOK
  BY DEF Inv
<1>2. QED
  BY <1>1, InvAlways, PTL

\* For any number of publishers: the consumer never sleeps on a non-empty queue
\* without a thread that still has to call notify_one().
THEOREM WakeupsAreNotLost == Spec => []NoLostWakeup
<1>1. Inv => NoLostWakeup
  BY DEF Inv
<1>2. QED
  BY <1>1, InvAlways, PTL

-----------------------------------------------------------------------------
(* Order.  InOrder is not inductive: that a new event comes last needs that *)
(* no event so far has a number its thread has not reached.                 *)

History == delivered \o queue

Ordered(s) ==
  \A i, j \in 1 .. Len(s) : i < j /\ s[i].from = s[j].from => s[i].n < s[j].n

Numbered(s, count) == \A i \in 1 .. Len(s) : s[i].n <= count[s[i].from]

OrderInv == Ordered(History) /\ Numbered(History, pushed)

\* OrderInv strengthens the property of the run.
LEMMA OrderInvImpliesInOrder == OrderInv => InOrder
BY DEF OrderInv, Ordered, History, InOrder

\* The event after a thread's last one may be appended.
LEMMA AppendOrdered ==
  ASSUME NEW s \in Seq(Event), NEW count \in [Threads -> 0 .. MaxPush],
         Ordered(s), Numbered(s, count),
         NEW e \in Event, e.n = count[e.from] + 1
  PROVE  /\ Ordered(Append(s, e))
         /\ Numbered(Append(s, e), [count EXCEPT ![e.from] = e.n])
<1> DEFINE s2 == Append(s, e)
           count2 == [count EXCEPT ![e.from] = e.n]
<1>1. /\ Len(s) \in Nat
      /\ Len(s2) = Len(s) + 1
      /\ \A i \in 1 .. Len(s) : s2[i] = s[i]
      /\ s2[Len(s) + 1] = e
  BY AppendProperties, LenProperties
<1>2. \A i \in 1 .. Len(s) : s[i].from \in Threads /\ s[i].n \in Nat
  <2>1. \A i \in 1 .. Len(s) : s[i] \in Event
    BY ElementOfSeq
  <2>2. \A f \in Event : f.from \in Threads /\ f.n \in Nat
    BY ThreadsAssumption DEF Event
  <2>3. QED
    BY <2>1, <2>2
<1>3. e.from \in Threads /\ e.n \in Nat
  BY ThreadsAssumption DEF Event
<1>4. ASSUME NEW u \in Threads
      PROVE  count2[u] = (IF u = e.from THEN e.n ELSE count[u]) /\ count[u] \in Nat
  BY <1>3, ThreadsAssumption
<1>5. ASSUME NEW i \in 1 .. Len(s2)
      PROVE  s2[i].n <= count2[s2[i].from]
  <2>1. CASE i = Len(s) + 1
    BY <2>1, <1>1, <1>3, <1>4
  <2>2. CASE i \in 1 .. Len(s)
    BY <2>2, <1>1, <1>2, <1>3, <1>4 DEF Numbered
  <2>3. QED
    BY <1>1, <2>1, <2>2
<1>6. ASSUME NEW i \in 1 .. Len(s2), NEW j \in 1 .. Len(s2),
             i < j, s2[i].from = s2[j].from
      PROVE  s2[i].n < s2[j].n
  <2>1. i \in 1 .. Len(s) /\ s2[i] = s[i]
    BY <1>1, <1>6
  <2>2. CASE j \in 1 .. Len(s)
    BY <2>1, <2>2, <1>1, <1>6 DEF Ordered
  <2>3. CASE j = Len(s) + 1
    BY <2>1, <2>3, <1>1, <1>2, <1>3, <1>4, <1>6 DEF Numbered
  <2>4. QED
    BY <1>1, <2>2, <2>3
<1>7. QED
  BY <1>5, <1>6 DEF Ordered, Numbered

\* What comes before a cleared queue stays in order.
LEMMA PrefixOrdered ==
  ASSUME NEW d \in Seq(Event), NEW q \in Seq(Event), NEW count,
         Ordered(d \o q), Numbered(d \o q, count)
  PROVE  Ordered(d) /\ Numbered(d, count)
<1>1. /\ Len(d) \in Nat /\ Len(q) \in Nat
      /\ Len(d \o q) = Len(d) + Len(q)
      /\ \A i \in 1 .. Len(d) : (d \o q)[i] = d[i]
  BY ConcatProperties, LenProperties
<1>2. \A i \in 1 .. Len(d) : i \in 1 .. Len(d \o q)
  BY <1>1
<1>3. QED
  BY <1>1, <1>2 DEF Ordered, Numbered

\* A push extends the history, a pop keeps it, a clear cuts it.
LEMMA OrderNext == Inv /\ OrderInv /\ [Next]_vars => OrderInv'
<1> SUFFICES ASSUME Inv, OrderInv, [Next]_vars
             PROVE  OrderInv'
  OBVIOUS
<1> USE DEF Inv, OrderInv
<1>1. ASSUME NEW t \in Threads, PushAppend(t)
      PROVE  OrderInv'
  <2> DEFINE e == [from |-> t, n |-> pushed[t] + 1]
  <2>1. e \in Event
    BY <1>1, NewEvent DEF PushAppend
  <2>2. /\ queue' = Append(queue, e)
        /\ delivered' = delivered
        /\ pushed' = [pushed EXCEPT ![e.from] = e.n]
    BY <1>1 DEF PushAppend
  <2>3. History' = Append(History, e)
    BY <2>1, <2>2, AppendToSecond DEF TypeOK, History
  <2>4. History \in Seq(Event) /\ pushed \in [Threads -> 0 .. MaxPush]
    BY ConcatProperties DEF TypeOK, History
  <2>5. Ordered(Append(History, e))
        /\ Numbered(Append(History, e), [pushed EXCEPT ![e.from] = e.n])
    BY <2>1, <2>4, AppendOrdered
  <2>6. QED
    BY <2>2, <2>3, <2>5
<1>2. ASSUME NEW t \in Threads, ClearDrain(t)
      PROVE  OrderInv'
  <2>1. History' = delivered
    BY <1>2, ConcatEmptySeq DEF ClearDrain, TypeOK, History
  <2>2. pushed' = pushed
    BY <1>2 DEF ClearDrain
  <2>3. Ordered(delivered) /\ Numbered(delivered, pushed)
    BY PrefixOrdered DEF TypeOK, History
  <2>4. QED
    BY <2>1, <2>2, <2>3
<1>3. CASE PopTake
  <2>1. queue # << >>
    BY <1>3 DEF PopTake, StillTrue
  <2>2. History' = History
    BY <1>3, <2>1, HeadMovesOver DEF PopTake, TypeOK, History
  <2>3. pushed' = pushed
    BY <1>3 DEF PopTake
  <2>4. QED
    BY <2>2, <2>3
<1>4. CASE UNCHANGED <<queue, delivered, pushed>>
  <2>1. History' = History
    BY <1>4 DEF History
  <2>2. QED
    BY <1>4, <2>1
<1>5. QED
  BY <1>1, <1>2, <1>3, <1>4
  DEF Next, Push, Clear, Pop, PushLock, Notify, ClearLock, PopLock, PopCheck,
      PopBlock, PopRelock, PopTimedOut, SpuriousWakeup, Timeout, Acquire, vars

\* For any number of threads and pushes: each thread's events are delivered in
\* the order it pushed them, none twice, whatever is interleaved or cleared.
THEOREM EventsKeepTheirOrder == Spec => []InOrder
<1>1. Init => OrderInv
  <2>1. ASSUME Init PROVE History = << >>
    BY <2>1, ConcatEmptySeq, EmptySeq DEF Init, History
  <2>2. QED
    BY <2>1, EmptySeq DEF OrderInv, Ordered, Numbered
<1>2. QED
  BY <1>1, InvAlways, OrderNext, OrderInvImpliesInOrder, PTL DEF Spec

-----------------------------------------------------------------------------
(* Refinement: every step of the queue is a step of the channel or leaves   *)
(* the channel's state alone.  A push is the channel's Publish when the     *)
(* event enters queue_, a pop its Deliver when it leaves, and a timeout its *)
(* GiveUp at the last look at queue_.                                       *)

\* A new queue is an empty channel.
LEMMA ChannelInit == Init => Channel!Init
BY DEF Init, Channel!Init

\* Every step is a step of the channel or a stutter.
LEMMA ChannelNext == Inv /\ [Next]_vars => [Channel!Next]_(Channel!vars)
<1> SUFFICES ASSUME Inv, [Next]_vars
             PROVE  [Channel!Next]_(Channel!vars)
  OBVIOUS
<1> USE DEF Channel!Next, Channel!vars, Inv, CallIsOpen, InPop
<1>1. ASSUME NEW t \in Threads, PushAppend(t)
      PROVE  Channel!Publish
  BY <1>1, NewEvent DEF PushAppend, Channel!Publish
<1>2. ASSUME NEW t \in Threads, ClearDrain(t)
      PROVE  Channel!Clear
  BY <1>2 DEF ClearDrain, Channel!Clear
<1>3. ASSUME PopLock
      PROVE  Channel!Call
  BY <1>3 DEF PopLock, Acquire, Channel!Call
<1>4. ASSUME PopTake
      PROVE  Channel!Deliver
  BY <1>4 DEF PopTake, StillTrue, Channel!Deliver
<1>5. ASSUME PopTimedOut
      PROVE  Channel!GiveUp
  BY <1>5 DEF PopTimedOut, Channel!GiveUp
<1>6. CASE UNCHANGED <<queue, delivered, call>>
  BY <1>6
<1>7. QED
  BY <1>1, <1>2, <1>3, <1>4, <1>5, <1>6
  DEF Next, Push, Clear, Pop, PushLock, Notify, ClearLock, PopCheck, PopBlock,
      PopRelock, SpuriousWakeup, Timeout, Acquire, vars

\* The queue with its mutex and condition variable implements the channel: an
\* observer of events, deliveries and the results of wait_and_pop() sees
\* nothing the channel does not allow.
THEOREM QueueImplementsChannel == Spec => ImplementsChannel
BY ChannelInit, ChannelNext, InvAlways, PTL
DEF Spec, ImplementsChannel, Channel!Spec

-----------------------------------------------------------------------------
(* Timers                                                                  *)

Timer == [interval : Intervals, next : Nat]

Phases == {"setup", "read", "process", "wait", "handle"}

Types ==
  /\ now \in Nat /\ read \in Nat /\ started \in Nat /\ spent \in Nat
  /\ backlog \in Nat
  /\ at \in Nat \ {0}
  /\ lpc \in Phases
  /\ timers \in Seq(Timer) /\ last \in Seq(Nat)
  /\ Len(last) = Len(timers)

\* How long a phase has lasted: process() has read the clock at its beginning.
ClockInv ==
  /\ lpc = "process" => now = read + spent /\ spent <= ProcessTime
  /\ lpc = "read" => spent = 0
  /\ lpc = "wait" => spent <= WaitTime
  /\ lpc = "handle" => spent <= HandlerTime
  /\ started <= now

\* The next call of a timer is an interval after its last one, less what the
\* callbacks before that one took.
SpacingInv ==
  \A k \in 1 .. Len(timers) :
    timers[k].next >= last[k] + timers[k].interval - ProcessTime

\* Timer k is overdue by at most x; a timer is due only once the loop runs.
Overdue(k, x) == now <= timers[k].next + x \/ now <= started + x

\* What a phase adds to the delay; in process() the timers before `at' have
\* just been served.
DelayInv ==
  \A k \in 1 .. Len(timers) :
    /\ lpc = "read" => Overdue(k, ProcessTime + WaitTime + HandlerTime)
    /\ lpc = "process" =>
         Overdue(k, IF k < at THEN spent
                    ELSE spent + ProcessTime + WaitTime + HandlerTime)
    /\ lpc = "wait" => Overdue(k, ProcessTime + spent)
    /\ lpc = "handle" => Overdue(k, ProcessTime + WaitTime + spent)

TimersInv == Types /\ ClockInv /\ SpacingInv /\ DelayInv

-----------------------------------------------------------------------------

\* The constants are natural numbers, and no interval is 0.
LEMMA Durations ==
  /\ ProcessTime \in Nat /\ WaitTime \in Nat /\ HandlerTime \in Nat
  /\ \A i \in Intervals : i \in Nat /\ i > 0
BY DurationsAssumption

\* What Add and Fire make of the timers and their last calls.
LEMMA AddTimer ==
  ASSUME Types, NEW i \in Intervals,
         timers' = Append(timers, [interval |-> i, next |-> now + i]),
         last' = Append(last, now)
  PROVE  /\ timers' \in Seq(Timer) /\ last' \in Seq(Nat)
         /\ Len(timers') = Len(timers) + 1 /\ Len(last') = Len(timers')
         /\ \A k \in 1 .. Len(timers) :
              timers'[k] = timers[k] /\ last'[k] = last[k]
         /\ timers'[Len(timers) + 1] = [interval |-> i, next |-> now + i]
         /\ last'[Len(timers) + 1] = now
<1> DEFINE t == [interval |-> i, next |-> now + i]
<1>1. t \in Timer
  BY Durations DEF Types, Timer
<1>2. /\ timers' \in Seq(Timer) /\ Len(timers') = Len(timers) + 1
      /\ \A k \in 1 .. Len(timers) : timers'[k] = timers[k]
      /\ timers'[Len(timers) + 1] = t
  <2>1. timers \in Seq(Timer) /\ timers' = Append(timers, t)
    BY DEF Types
  <2> HIDE DEF t
  <2>2. QED
    BY <1>1, <2>1, AppendProperties
<1>3. /\ last' \in Seq(Nat) /\ Len(last') = Len(last) + 1
      /\ \A k \in 1 .. Len(last) : last'[k] = last[k]
      /\ last'[Len(last) + 1] = now
  BY AppendProperties DEF Types
<1>4. QED
  BY <1>2, <1>3 DEF Types

LEMMA FireTimer ==
  ASSUME Types, Fire
  PROVE  /\ timers' \in Seq(Timer) /\ last' \in Seq(Nat)
         /\ Len(timers') = Len(timers) /\ Len(last') = Len(last)
         /\ at \in 1 .. Len(timers)
         /\ \A k \in 1 .. Len(timers) :
              /\ timers'[k].interval = timers[k].interval
              /\ timers'[k].next = IF k = at THEN read + timers[k].interval
                                   ELSE timers[k].next
              /\ last'[k] = IF k = at THEN now ELSE last[k]
<1> DEFINE t == [timers[at] EXCEPT !.next = read + timers[at].interval]
<1>1. at \in 1 .. Len(timers) /\ at \in 1 .. Len(last)
  BY DEF Types, Fire
<1>2. timers \in Seq(Timer) /\ last \in Seq(Nat) /\ now \in Nat
  BY DEF Types
<1>3. timers[at] \in Timer
  BY <1>1, <1>2, ElementOfSeq
<1>4. t \in Timer /\ t.interval = timers[at].interval
      /\ t.next = read + timers[at].interval
  <2>1. read + timers[at].interval \in Nat
    <3>1. timers[at].interval \in Intervals /\ read \in Nat
      BY <1>3 DEF Types, Timer
    <3>2. QED
      BY <3>1, Durations
  <2>2. QED
    BY <1>3, <2>1 DEF Timer
<1>5. timers' = [timers EXCEPT ![at] = t] /\ last' = [last EXCEPT ![at] = now]
  BY DEF Fire, Rescheduled
<1> HIDE DEF t
<1>6. /\ timers' \in Seq(Timer) /\ Len(timers') = Len(timers)
      /\ \A k \in 1 .. Len(timers) :
           timers'[k] = IF k = at THEN t ELSE timers[k]
  BY <1>1, <1>2, <1>4, <1>5, ExceptSeq
<1>7. /\ last' \in Seq(Nat) /\ Len(last') = Len(last)
      /\ \A k \in 1 .. Len(last) : last'[k] = IF k = at THEN now ELSE last[k]
  BY <1>1, <1>2, <1>5, ExceptSeq
<1>8. QED
  BY <1>1, <1>4, <1>6, <1>7 DEF Types

\* An element of timers and of last.
LEMMA TimerTypes ==
  ASSUME Types, NEW k \in 1 .. Len(timers)
  PROVE  /\ timers[k].interval \in Nat \ {0}
         /\ timers[k].next \in Nat
         /\ last[k] \in Nat
<1>1. timers[k] \in Timer /\ last[k] \in Nat
  BY ElementOfSeq DEF Types
<1>2. QED
  BY <1>1, Durations DEF Timer

-----------------------------------------------------------------------------
(* The inductive invariant                                                 *)

\* It holds before the first timer is added.
LEMMA TimersInvInit == InitTimers => TimersInv
<1> SUFFICES ASSUME InitTimers
             PROVE  TimersInv
  OBVIOUS
<1>1. timers \in Seq(Timer) /\ last \in Seq(Nat) /\ Len(timers) = 0 /\ Len(last) = 0
  BY EmptySeq DEF InitTimers
<1>2. QED
  BY <1>1, Durations
  DEF InitTimers, TimersInv, Types, ClockInv, SpacingInv, DelayInv, Phases

\* Adding a timer keeps it.
LEMMA InvAdd == TimersInv /\ Add => TimersInv'
<1> SUFFICES ASSUME TimersInv, Add
             PROVE  TimersInv'
  OBVIOUS
<1>1. PICK i \in Intervals :
        timers' = Append(timers, [interval |-> i, next |-> now + i])
  BY DEF Add
<1>2. last' = Append(last, now)
  BY DEF Add
<1>3. Types
  BY DEF TimersInv
<1> DEFINE n == Len(timers) + 1
<1>4. /\ timers' \in Seq(Timer) /\ last' \in Seq(Nat)
      /\ Len(timers') = n /\ Len(last') = n
      /\ \A k \in 1 .. Len(timers) :
           timers'[k] = timers[k] /\ last'[k] = last[k]
      /\ timers'[n] = [interval |-> i, next |-> now + i] /\ last'[n] = now
  BY <1>1, <1>2, <1>3, AddTimer
<1>5. Types' /\ ClockInv'
  BY <1>4 DEF Add, TimersInv, Types, ClockInv, Phases
<1>6. SpacingInv'
  <2>1. ASSUME NEW k \in 1 .. n
        PROVE  timers'[k].next >= last'[k] + timers'[k].interval - ProcessTime
    <3>1. CASE k = n
      BY <1>3, <1>4, <3>1, Durations DEF Types
    <3>2. CASE k # n
      BY <1>3, <1>4, <3>2 DEF TimersInv, SpacingInv, Types
    <3>3. QED
      BY <3>1, <3>2
  <2>2. QED
    BY <1>4, <2>1 DEF SpacingInv
<1>7. DelayInv'
  BY DEF Add, DelayInv
<1>8. QED
  BY <1>5, <1>6, <1>7 DEF TimersInv

\* A callback keeps it: the timer's next call is an interval after the time
\* process() has read, which is ProcessTime ago at most.
LEMMA InvFire == TimersInv /\ Fire => TimersInv'
<1> SUFFICES ASSUME TimersInv, Fire
             PROVE  TimersInv'
  OBVIOUS
<1>1. Types
  BY DEF TimersInv
<1>2. /\ timers' \in Seq(Timer) /\ last' \in Seq(Nat)
      /\ Len(timers') = Len(timers) /\ Len(last') = Len(last)
      /\ at \in 1 .. Len(timers)
      /\ \A k \in 1 .. Len(timers) :
           /\ timers'[k].interval = timers[k].interval
           /\ timers'[k].next = IF k = at THEN read + timers[k].interval
                                ELSE timers[k].next
           /\ last'[k] = IF k = at THEN now ELSE last[k]
  BY <1>1, FireTimer
<1>3. Types' /\ ClockInv'
  BY <1>1, <1>2 DEF Fire, TimersInv, Types, ClockInv, Phases
<1>4. lpc = "process" /\ lpc' = "process" /\ UNCHANGED <<now, read, spent, started>>
      /\ at' = at + 1 /\ now = read + spent /\ spent <= ProcessTime
  BY DEF Fire, TimersInv, ClockInv
<1>5. SpacingInv'
  <2>1. ASSUME NEW k \in 1 .. Len(timers)
        PROVE  timers'[k].next >= last'[k] + timers'[k].interval - ProcessTime
    <3>1. /\ timers[k].interval \in Nat /\ timers[k].next \in Nat
          /\ last[k] \in Nat
          /\ timers[k].next >= last[k] + timers[k].interval - ProcessTime
      BY <1>1, TimerTypes DEF TimersInv, SpacingInv
    <3>2. CASE k = at
      <4>1. /\ timers'[k].next = read + timers[k].interval
            /\ timers'[k].interval = timers[k].interval
            /\ last'[k] = now
        BY <1>2, <3>2
      <4>2. now \in Nat /\ read \in Nat /\ spent \in Nat /\ ProcessTime \in Nat
        BY <1>1, Durations DEF Types
      <4>3. QED
        BY <1>4, <3>1, <4>1, <4>2
    <3>3. CASE k # at
      BY <1>2, <3>1, <3>3
    <3>4. QED
      BY <3>2, <3>3
  <2>2. QED
    BY <1>2, <2>1 DEF SpacingInv
<1>6. DelayInv'
  <2>1. ASSUME NEW k \in 1 .. Len(timers)
        PROVE  Overdue(k, IF k < at THEN spent
                          ELSE spent + ProcessTime + WaitTime + HandlerTime)'
    <3>1. Overdue(k, IF k < at THEN spent
                     ELSE spent + ProcessTime + WaitTime + HandlerTime)
      BY <1>4 DEF TimersInv, DelayInv
    <3>2. /\ timers'[k].next = IF k = at THEN read + timers[k].interval
                               ELSE timers[k].next
          /\ timers[k].interval \in Nat /\ timers[k].next \in Nat
      BY <1>1, <1>2, TimerTypes
    <3>3. /\ now \in Nat /\ read \in Nat /\ spent \in Nat /\ started \in Nat
          /\ at \in Nat
          /\ ProcessTime \in Nat /\ WaitTime \in Nat /\ HandlerTime \in Nat
      BY <1>1, Durations DEF Types
    <3>4. CASE k = at
      BY <1>4, <3>2, <3>3, <3>4 DEF Overdue
    <3>5. CASE k # at
      BY <1>4, <3>1, <3>2, <3>3, <3>5 DEF Overdue
    <3>6. QED
      BY <3>4, <3>5
  <2>2. QED
    BY <1>2, <1>4, <2>1 DEF DelayInv
<1>7. QED
  BY <1>3, <1>5, <1>6 DEF TimersInv

\* The other steps leave the timers alone; time and the phase go on.
LEMMA InvOther ==
  TimersInv /\ (Run \/ ReadClock \/ NotDue \/ Wait \/ Take \/ TimedOut \/ Handled
            \/ Publish \/ Tick \/ UNCHANGED timing) => TimersInv'
<1> SUFFICES ASSUME TimersInv, Run \/ ReadClock \/ NotDue \/ Wait \/ Take \/ TimedOut
                         \/ Handled \/ Publish \/ Tick \/ UNCHANGED timing
             PROVE  TimersInv'
  OBVIOUS
<1>1. UNCHANGED <<timers, last>>
  BY DEF Run, ReadClock, NotDue, Wait, Take, TimedOut, Handled, Publish, Tick,
         timing
<1>2. Types
  BY DEF TimersInv
<1>3. Types'
  <2>1. timers' \in Seq(Timer) /\ last' \in Seq(Nat) /\ Len(last') = Len(timers')
    BY <1>1, <1>2 DEF Types
  <2>2. /\ now \in Nat /\ read \in Nat /\ started \in Nat /\ spent \in Nat
        /\ backlog \in Nat /\ at \in Nat \ {0}
        /\ lpc \in {"setup", "read", "process", "wait", "handle"}
    BY <1>2 DEF Types, Phases
  <2>3. /\ now' \in Nat /\ read' \in Nat /\ started' \in Nat /\ spent' \in Nat
        /\ backlog' \in Nat /\ at' \in Nat \ {0}
        /\ lpc' \in {"setup", "read", "process", "wait", "handle"}
    BY <2>2 DEF Run, ReadClock, NotDue, Wait, Take, TimedOut, Handled, Publish,
                Tick, timing
  <2>4. QED
    BY <2>1, <2>3 DEF Types, Phases
<1>4. ClockInv'
  <2>1. /\ now \in Nat /\ read \in Nat /\ started \in Nat /\ spent \in Nat
        /\ ClockInv
    BY DEF TimersInv, Types
  <2> USE <2>1, Durations DEF ClockInv
  <2>2. CASE Run \/ ReadClock
    BY <2>2 DEF Run, ReadClock
  <2>3. CASE NotDue \/ Wait
    BY <2>3 DEF NotDue, Wait
  <2>4. CASE Take \/ TimedOut \/ Handled
    BY <2>4 DEF Take, TimedOut, Handled
  <2>5. CASE Publish \/ UNCHANGED timing
    BY <2>5 DEF Publish, timing
  <2>6. CASE Tick
    BY <2>6 DEF Tick
  <2>7. QED
    BY <2>2, <2>3, <2>4, <2>5, <2>6
<1>5. SpacingInv'
  BY <1>1 DEF TimersInv, SpacingInv
<1>6. DelayInv'
  <2> SUFFICES ASSUME NEW k \in 1 .. Len(timers)
               PROVE
      (/\ lpc = "read" => Overdue(k, ProcessTime + WaitTime + HandlerTime)
       /\ lpc = "process" =>
            Overdue(k, IF k < at THEN spent
                       ELSE spent + ProcessTime + WaitTime + HandlerTime)
       /\ lpc = "wait" => Overdue(k, ProcessTime + spent)
       /\ lpc = "handle" => Overdue(k, ProcessTime + WaitTime + spent))'
    BY <1>1 DEF DelayInv
  <2>1. /\ lpc = "read" => Overdue(k, ProcessTime + WaitTime + HandlerTime)
        /\ lpc = "process" =>
             Overdue(k, IF k < at THEN spent
                        ELSE spent + ProcessTime + WaitTime + HandlerTime)
        /\ lpc = "wait" => Overdue(k, ProcessTime + spent)
        /\ lpc = "handle" => Overdue(k, ProcessTime + WaitTime + spent)
    BY DEF TimersInv, DelayInv
  <2>2. timers[k].next \in Nat
    BY <1>2, TimerTypes
  <2>a. /\ now \in Nat /\ read \in Nat /\ started \in Nat /\ spent \in Nat
        /\ at \in Nat
        /\ ClockInv
    BY DEF TimersInv, Types
  <2>b. ProcessTime \in Nat /\ WaitTime \in Nat /\ HandlerTime \in Nat
    BY Durations
  <2> USE <1>1, <2>1, <2>2, <2>a, <2>b DEF ClockInv, Overdue
  <2>3. CASE Run
    BY <2>3 DEF Run
  <2>4. CASE ReadClock
    BY <2>4 DEF ReadClock
  <2>5. CASE NotDue
    BY <2>5 DEF NotDue
  <2>6. CASE Wait
    BY <2>6 DEF Wait
  <2>7. CASE Take
    <3>1. /\ lpc' = "handle" /\ spent' = 0
          /\ UNCHANGED <<now, timers, started>>
      BY <2>7 DEF Take
    <3>2. \/ now <= timers[k].next + ProcessTime + WaitTime
          \/ now <= started + ProcessTime + WaitTime
      BY <2>7 DEF Take
    <3>3. QED
      BY <3>1, <3>2
  <2>7a. CASE TimedOut
    BY <2>7a DEF TimedOut
  <2>8. CASE Handled
    <3>1. /\ lpc' = "read" /\ spent' = 0
          /\ UNCHANGED <<now, timers, started>>
      BY <2>8 DEF Handled
    <3>2. \/ now <= timers[k].next + ProcessTime + WaitTime + HandlerTime
          \/ now <= started + ProcessTime + WaitTime + HandlerTime
      BY <2>8 DEF Handled
    <3>3. QED
      BY <3>1, <3>2
  <2>9. CASE Publish \/ UNCHANGED timing
    BY <2>9 DEF Publish, timing
  <2>10. CASE Tick
    <3>1. /\ now' = now + 1 /\ spent' = spent + 1
          /\ UNCHANGED <<timers, lpc, at, started>>
          /\ lpc # "read"
      BY <2>10 DEF Tick
    <3>2. CASE lpc = "process"
      <4> DEFINE x == IF k < at THEN spent
                      ELSE spent + ProcessTime + WaitTime + HandlerTime
      <4>1. x \in Nat /\ x' = x + 1
        BY <3>1
      <4>2. now <= timers[k].next + x \/ now <= started + x
        BY <3>2
      <4>3. now' <= timers'[k].next + x' \/ now' <= started' + x'
        <5> HIDE DEF x
        <5>1. QED
          BY <3>1, <4>1, <4>2
      <4>4. QED
        BY <3>1, <3>2, <4>3
    <3>3. CASE lpc = "wait"
      BY <3>1, <3>3
    <3>4. CASE lpc = "handle"
      BY <3>1, <3>4
    <3>5. CASE lpc \notin {"read", "process", "wait", "handle"}
      BY <3>1, <3>5
    <3>6. QED
      BY <3>1, <3>2, <3>3, <3>4, <3>5
  <2>11. QED
    BY <2>3, <2>4, <2>5, <2>6, <2>7, <2>7a, <2>8, <2>9, <2>10
<1>7. QED
  BY <1>3, <1>4, <1>5, <1>6 DEF TimersInv

\* It holds in every state.
LEMMA TimersInvAlways == TimersSpec => []TimersInv
<1>1. TimersInv /\ [NextTimers]_timing => TimersInv'
  BY InvAdd, InvFire, InvOther DEF NextTimers
<1>2. QED
  BY TimersInvInit, <1>1, PTL DEF TimersSpec

-----------------------------------------------------------------------------

\* Between two calls of a callback lies its interval, less the time of the
\* callbacks before it in the same process(): no bursts after missed periods.
THEOREM TicksAreSpaced == TimersSpec => TickSpacing
<1> DEFINE Spaced == \A k \in DOMAIN last : last'[k] # last[k] =>
              last'[k] - last[k] >= timers[k].interval - ProcessTime
<1>1. TimersInv /\ [NextTimers]_timing => [Spaced]_timing
  <2> SUFFICES ASSUME TimersInv, NextTimers
               PROVE  Spaced
    BY DEF timing
  <2> SUFFICES ASSUME NEW k \in DOMAIN last, last'[k] # last[k]
               PROVE  last'[k] - last[k] >= timers[k].interval - ProcessTime
    OBVIOUS
  <2>1. Types
    BY DEF TimersInv
  <2>2. k \in 1 .. Len(timers)
    BY <2>1, LenProperties DEF Types
  <2>3. CASE Fire
    <3>1. k = at /\ last'[k] = now
      BY <2>1, <2>2, <2>3, FireTimer
    <3>2. timers[k].next <= read /\ now = read + spent
      BY <2>3, <3>1 DEF Fire, TimersInv, ClockInv, Types
    <3>3. /\ timers[k].interval \in Nat /\ timers[k].next \in Nat
          /\ last[k] \in Nat
          /\ timers[k].next >= last[k] + timers[k].interval - ProcessTime
      BY <2>1, <2>2, TimerTypes DEF TimersInv, SpacingInv
    <3>4. now \in Nat /\ read \in Nat /\ spent \in Nat /\ ProcessTime \in Nat
      BY <2>1, Durations DEF Types
    <3>5. QED
      BY <3>1, <3>2, <3>3, <3>4
  <2>4. CASE Add
    <3>1. last' = Append(last, now) /\ last \in Seq(Nat) /\ now \in Nat
          /\ k \in 1 .. Len(last)
      BY <2>1, <2>2, <2>4 DEF Add, Types
    <3>2. last'[k] = last[k]
      BY <3>1, AppendProperties
    <3>3. QED
      BY <3>2
  <2>5. CASE ~Fire /\ ~Add
    <3>1. UNCHANGED last
      BY <2>5 DEF NextTimers, Run, ReadClock, NotDue, Wait, Take, TimedOut, Handled,
                  Publish, Tick
    <3>2. QED
      BY <3>1
  <2>6. QED
    BY <2>3, <2>4, <2>5
<1>2. QED
  BY TimersInvAlways, <1>1, PTL DEF TimersSpec, TickSpacing

\* No timer is overdue by more than one pass of the loop and the process()
\* after it, however many events are queued.
THEOREM TicksAreOnTime == TimersSpec => []TickDelay
<1>1. TimersInv => TickDelay
  <2> SUFFICES ASSUME TimersInv, lpc # "setup", NEW k \in DOMAIN timers
               PROVE  now - (IF timers[k].next > started THEN timers[k].next
                             ELSE started)
                        <= 2 * ProcessTime + WaitTime + HandlerTime
    BY DEF TickDelay
  <2>1. k \in 1 .. Len(timers)
    BY LenProperties DEF TimersInv, Types
  <2>2. timers[k].next \in Nat
    BY <2>1, TimerTypes DEF TimersInv
  <2>3. /\ now \in Nat /\ started \in Nat /\ spent \in Nat
        /\ ProcessTime \in Nat /\ WaitTime \in Nat /\ HandlerTime \in Nat
        /\ lpc \in {"read", "process", "wait", "handle"}
        /\ ClockInv
    BY Durations DEF TimersInv, Types, Phases
  <2>4. /\ lpc = "read" => Overdue(k, ProcessTime + WaitTime + HandlerTime)
        /\ lpc = "process" =>
             Overdue(k, IF k < at THEN spent
                        ELSE spent + ProcessTime + WaitTime + HandlerTime)
        /\ lpc = "wait" => Overdue(k, ProcessTime + spent)
        /\ lpc = "handle" => Overdue(k, ProcessTime + WaitTime + spent)
    BY <2>1 DEF TimersInv, DelayInv
  <2>5. \/ now <= timers[k].next + 2 * ProcessTime + WaitTime + HandlerTime
        \/ now <= started + 2 * ProcessTime + WaitTime + HandlerTime
    BY <2>2, <2>3, <2>4 DEF ClockInv, Overdue
  <2>6. QED
    BY <2>2, <2>3, <2>5
<1>2. QED
  BY TimersInvAlways, <1>1, PTL
=============================================================================
