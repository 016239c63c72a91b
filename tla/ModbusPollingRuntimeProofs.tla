--------------------- MODULE ModbusPollingRuntimeProofs ---------------------
(***************************************************************************)
(* Proofs about ModbusPollingRuntime.tla, for any set of submitters and    *)
(* any number of writes, stops and restarts: the types, that no write is   *)
(* lost, doubled or overtaken, and that a write repeated after a lost      *)
(* answer never puts an older command back over a newer one.               *)
(***************************************************************************)
EXTENDS ModbusPollingRuntime, SequenceTheorems, TLAPS

USE DEF device, queueing, control

-----------------------------------------------------------------------------
(* The inductive invariant                                                 *)

\* A write is in the worker's hands exactly from Take to its success or its
\* return to the queue; while it is, the worker does not poll.
HandInv ==
  /\ cmd # NoWrite <=> wpc \in {"connect", "io", "failed"} /\ ~polling
  /\ polling => wpc \in {"connect", "io", "failed", "polled", "retry_lock",
                         "retry_block", "retry_waiting"}

\* There is no worker before start() has made one and after stop() has joined it.
LifeInv ==
  /\ cpc = "spawn" \/ (cpc = "idle" /\ ~running) => wpc = "none"
  /\ cpc = "spawn" => running

Held == IF cmd = NoWrite THEN 0 ELSE 1

\* The writes not acknowledged are the next ones by number: first the one in
\* the worker's hands, then the queue.
OrderInv ==
  /\ Len(pending) = submitted - acked - Held
  /\ cmd # NoWrite => cmd = acked + 1
  /\ \A i \in 1 .. Len(pending) : pending[i] = acked + Held + i

RegisterInv ==
  /\ register = acked \/ register = acked + 1
  /\ register <= submitted

Inv == TypeOK /\ HandInv /\ LifeInv /\ OrderInv /\ RegisterInv

-----------------------------------------------------------------------------
(* Steps that change the queue                                             *)

\* What the four changes of the queue do to its order.
LEMMA SubmitOrder ==
  ASSUME Inv, submitted < MaxWrites, UNCHANGED <<cmd, acked>>,
         submitted' = submitted + 1,
         pending' = Append(pending, submitted + 1)
  PROVE  pending' \in Seq(Writes) /\ OrderInv'
<1>1. pending \in Seq(Writes) /\ submitted \in Nat /\ acked \in Nat
      /\ submitted + 1 \in Writes /\ Len(pending) \in Nat /\ Held \in {0, 1}
  BY PollingAssumption, LenProperties DEF Inv, TypeOK, Writes, Held
<1>2. /\ pending' \in Seq(Writes)
      /\ Len(pending') = Len(pending) + 1
      /\ \A i \in 1 .. Len(pending) : pending'[i] = pending[i]
      /\ pending'[Len(pending) + 1] = submitted + 1
  BY <1>1, AppendProperties
<1>3. Held' = Held
  BY DEF Held
<1>4. Len(pending) = submitted - acked - Held
  BY DEF Inv, OrderInv
<1>5. Len(pending') = submitted' - acked' - Held'
  BY <1>1, <1>2, <1>3, <1>4
<1>6. ASSUME NEW i \in 1 .. Len(pending')
      PROVE  pending'[i] = acked' + Held' + i
  <2>1. CASE i = Len(pending) + 1
    BY <1>1, <1>2, <1>3, <1>4, <2>1
  <2>2. CASE i \in 1 .. Len(pending)
    BY <1>2, <1>3, <2>2 DEF Inv, OrderInv
  <2>3. QED
    BY <1>1, <1>2, <2>1, <2>2
<1>7. cmd' # NoWrite => cmd' = acked' + 1
  BY DEF Inv, OrderInv
<1>8. QED
  BY <1>2, <1>5, <1>6, <1>7 DEF OrderInv

LEMMA TakeOrder ==
  ASSUME Inv, cmd = NoWrite, pending # << >>, UNCHANGED <<submitted, acked>>,
         cmd' = Head(pending), pending' = Tail(pending)
  PROVE  pending' \in Seq(Writes) /\ cmd' \in Writes /\ OrderInv'
<1>1. pending \in Seq(Writes) /\ submitted \in Nat /\ acked \in Nat
      /\ Len(pending) \in Nat \ {0}
  BY EmptySeq, LenProperties DEF Inv, TypeOK
<1>2. /\ cmd' \in Writes /\ pending' \in Seq(Writes)
      /\ Len(pending') = Len(pending) - 1
      /\ \A i \in 1 .. Len(pending') : pending'[i] = pending[i + 1]
  BY <1>1, HeadTailProperties
<1>3. Held = 0 /\ Held' = 1 /\ cmd' # NoWrite
  BY <1>2 DEF Held, NoWrite, Writes
<1>4. Len(pending) = submitted - acked
      /\ \A i \in 1 .. Len(pending) : pending[i] = acked + i
  BY <1>1, <1>3 DEF Inv, OrderInv
<1>5. cmd' = pending[1]
  BY <1>1
<1>6. cmd' = acked' + 1
  BY <1>1, <1>4, <1>5
<1>7. Len(pending') = submitted' - acked' - Held'
  BY <1>1, <1>2, <1>3, <1>4
<1>8. ASSUME NEW i \in 1 .. Len(pending')
      PROVE  pending'[i] = acked' + Held' + i
  <2>1. i + 1 \in 1 .. Len(pending)
    BY <1>1, <1>2
  <2>2. QED
    BY <1>1, <1>2, <1>3, <1>4, <2>1
<1>9. QED
  BY <1>2, <1>6, <1>7, <1>8 DEF OrderInv

LEMMA RequeueOrder ==
  ASSUME Inv, cmd # NoWrite, UNCHANGED <<submitted, acked>>,
         cmd' = NoWrite, pending' = <<cmd>> \o pending
  PROVE  pending' \in Seq(Writes) /\ OrderInv'
<1>1. pending \in Seq(Writes) /\ <<cmd>> \in Seq(Writes) /\ cmd \in Writes
      /\ submitted \in Nat /\ acked \in Nat /\ Len(pending) \in Nat
  BY LenProperties DEF Inv, TypeOK
<1>2. /\ pending' \in Seq(Writes)
      /\ Len(pending') = 1 + Len(pending)
      /\ \A i \in 1 .. 1 + Len(pending) :
           pending'[i] = IF i <= 1 THEN <<cmd>>[i] ELSE pending[i - 1]
  BY <1>1, ConcatProperties
<1>3. Held = 1 /\ Held' = 0
  BY DEF Held
<1>4. /\ Len(pending) = submitted - acked - 1 /\ cmd = acked + 1
      /\ \A i \in 1 .. Len(pending) : pending[i] = acked + 1 + i
  BY <1>1, <1>3 DEF Inv, OrderInv
<1>5. Len(pending') = submitted' - acked' - Held'
  BY <1>1, <1>2, <1>3, <1>4
<1>6. ASSUME NEW i \in 1 .. Len(pending')
      PROVE  pending'[i] = acked' + Held' + i
  <2>1. CASE i = 1
    BY <1>1, <1>2, <1>3, <1>4, <2>1
  <2>2. CASE i # 1
    <3>1. i - 1 \in 1 .. Len(pending)
      BY <1>1, <1>2, <2>2
    <3>2. pending'[i] = pending[i - 1]
      BY <1>1, <1>2, <2>2
    <3>3. QED
      BY <1>1, <1>3, <1>4, <3>1, <3>2
  <2>3. QED
    BY <2>1, <2>2
<1>7. QED
  BY <1>2, <1>5, <1>6 DEF OrderInv

LEMMA AcknowledgeOrder ==
  ASSUME Inv, cmd # NoWrite, UNCHANGED <<submitted, pending>>,
         cmd' = NoWrite, acked' = acked + 1
  PROVE  OrderInv'
<1>1. submitted \in Nat /\ acked \in Nat /\ Len(pending) \in Nat
  BY LenProperties DEF Inv, TypeOK
<1>2. Held = 1 /\ Held' = 0
  BY DEF Held
<1>3. QED
  BY <1>1, <1>2 DEF Inv, OrderInv

-----------------------------------------------------------------------------
(* It holds in every state                                                 *)

\* It holds before the first start().
LEMMA InvInit == Init => Inv
<1> SUFFICES ASSUME Init
             PROVE  Inv
  OBVIOUS
<1>1. pending \in Seq(Writes) /\ Len(pending) = 0
  BY EmptySeq DEF Init
<1>2. TypeOK
  <2>1. spc \in [Submitters -> {"idle", "notify"}]
    BY DEF Init
  <2>2. running \in BOOLEAN /\ connected \in BOOLEAN
        /\ due \in BOOLEAN /\ polling \in BOOLEAN
    BY DEF Init
  <2>3. starts \in 0 .. MaxStarts /\ submitted \in 0 .. MaxWrites
        /\ acked \in Nat /\ register = 0 /\ cmd = NoWrite
    BY PollingAssumption DEF Init
  <2>4. wpc = "none" /\ cpc = "idle"
    BY DEF Init
  <2>5. QED
    BY <1>1, <2>1, <2>2, <2>3, <2>4 DEF TypeOK, NoWrite
<1>3. HandInv /\ LifeInv /\ OrderInv /\ RegisterInv
  BY <1>1 DEF Init, HandInv, LifeInv, OrderInv, RegisterInv, Held
<1>4. QED
  BY <1>2, <1>3 DEF Inv

\* start() and stop() keep it.
LEMMA InvController ==
  Inv /\ (Start \/ Spawn \/ Stop \/ StopNotify \/ StopJoin) => Inv'
<1> SUFFICES ASSUME Inv, Start \/ Spawn \/ Stop \/ StopNotify \/ StopJoin
             PROVE  Inv'
  OBVIOUS
<1> USE PollingAssumption
    DEF Inv, TypeOK, HandInv, LifeInv, OrderInv, RegisterInv, Held
<1>1. CASE Start
  <2>1. starts' \in 0 .. MaxStarts /\ running' \in BOOLEAN /\ cpc' = "spawn"
    BY <1>1 DEF Start
  <2>2. TypeOK'
    BY <1>1, <2>1 DEF Start
  <2>3. HandInv' /\ LifeInv' /\ OrderInv' /\ RegisterInv'
    BY <1>1 DEF Start
  <2>4. QED
    BY <2>2, <2>3
<1>2. CASE Spawn
  BY <1>2 DEF Spawn
<1>3. CASE Stop
  BY <1>3 DEF Stop
<1>4. CASE StopNotify
  <2>1. UNCHANGED <<running, connected, pending, cmd, due, polling, starts, spc,
                    submitted, acked, register>>
        /\ cpc' = "join"
    BY <1>4 DEF StopNotify
  <2>2. wpc' = wpc \/ (wpc = "waiting" /\ wpc' = "lock")
                  \/ (wpc = "retry_waiting" /\ wpc' = "retry_lock")
    BY <1>4 DEF StopNotify, Woken
  <2>3. TypeOK'
    BY <2>1, <2>2
  <2>4. HandInv' /\ LifeInv' /\ OrderInv' /\ RegisterInv'
    BY <2>1, <2>2
  <2>5. QED
    BY <2>3, <2>4
<1>5. CASE StopJoin
  BY <1>5 DEF StopJoin
<1>6. QED
  BY <1>1, <1>2, <1>3, <1>4, <1>5

\* submit_write() keeps it.
LEMMA InvSubmit ==
  ASSUME Inv, NEW s \in Submitters, Submit(s) \/ SubmitNotify(s)
  PROVE  Inv'
<1>1. CASE Submit(s)
  <2>1. pending' \in Seq(Writes) /\ OrderInv'
    BY <1>1, SubmitOrder DEF Submit
  <2>2. TypeOK'
    BY <1>1, <2>1, PollingAssumption DEF Submit, Inv, TypeOK
  <2>3. HandInv' /\ LifeInv' /\ RegisterInv'
    BY <1>1 DEF Submit, Inv, TypeOK, HandInv, LifeInv, RegisterInv
  <2>4. QED
    BY <2>1, <2>2, <2>3 DEF Inv
<1>2. CASE SubmitNotify(s)
  BY <1>2 DEF SubmitNotify, Woken, Inv, TypeOK, HandInv, LifeInv, OrderInv,
              RegisterInv, Held
<1>3. QED
  BY <1>1, <1>2

\* Every step and timeout of worker_loop() keeps it.
LEMMA InvWorker == Inv /\ (WorkerStep \/ Timeouts) => Inv'
<1> SUFFICES ASSUME Inv, WorkerStep \/ Timeouts
             PROVE  Inv'
  OBVIOUS
<1> USE DEF Inv, HandInv, LifeInv, NoWrite
<1>1. CASE LoopTest \/ WaitTest \/ WaitBlock \/ WaitExpired \/ WaitTimeout
  <2>1. Stay /\ wpc \in {"loop", "lock", "block", "waiting", "expired"}
        /\ wpc' \in {"lock", "exit", "awake", "block", "waiting", "expired"}
    BY <1>1 DEF LoopTest, WaitTest, WaitBlock, WaitExpired, WaitTimeout
  <2>2. TypeOK'
    BY <2>1 DEF Stay, TypeOK
  <2>3. HandInv' /\ LifeInv' /\ OrderInv' /\ RegisterInv'
    BY <2>1 DEF Stay, OrderInv, RegisterInv, Held
  <2>4. QED
    BY <2>2, <2>3
<1>2. CASE PollFailed \/ RetryTest \/ RetryBlock \/ RetryTimeout
  <2>1. Stay /\ wpc \in {"failed", "retry_lock", "retry_block", "retry_waiting"}
        /\ (wpc = "failed" => polling)
        /\ \/ wpc' \in {"retry_lock", "retry_block", "retry_waiting"}
           \/ wpc' = AfterDelay
    BY <1>2 DEF PollFailed, RetryTest, RetryBlock, RetryTimeout
  <2>2. TypeOK'
    BY <2>1 DEF Stay, TypeOK, AfterDelay
  <2>3. HandInv' /\ LifeInv' /\ OrderInv' /\ RegisterInv'
    BY <2>1 DEF Stay, AfterDelay, OrderInv, RegisterInv, Held
  <2>4. QED
    BY <2>2, <2>3
<1>3. CASE Take
  <2>1. CASE running /\ pending # << >>
    <3>1. pending' \in Seq(Writes) /\ cmd' \in Writes /\ OrderInv'
      BY <1>3, <2>1, TakeOrder DEF Take
    <3>2. cmd' # NoWrite /\ wpc' = "connect" /\ ~polling'
      BY <1>3, <2>1, <3>1 DEF Take, Writes
    <3>3. TypeOK' /\ HandInv' /\ LifeInv' /\ RegisterInv'
      BY <1>3, <3>1, <3>2 DEF Take, TypeOK, RegisterInv
    <3>4. QED
      BY <3>1, <3>3
  <2>2. CASE ~(running /\ pending # << >>)
    BY <1>3, <2>2 DEF Take, TypeOK, OrderInv, RegisterInv, Held
  <2>3. QED
    BY <2>1, <2>2
<1>4. CASE Connect
  BY <1>4 DEF Connect, TypeOK, OrderInv, RegisterInv, Held
<1>5. CASE DoWrite
  <2>1. cmd \in Writes /\ cmd = acked + 1 /\ acked \in Nat /\ submitted \in Nat
        /\ cmd <= submitted
    BY <1>5, LenProperties DEF DoWrite, TypeOK, OrderInv, Held, Writes
  <2>2. CASE acked' = acked + 1
    <3>1. cmd' = NoWrite /\ register' = cmd /\ UNCHANGED <<submitted, pending>>
          /\ wpc' = "poll_test"
      BY <1>5, <2>1, <2>2 DEF DoWrite
    <3>2. OrderInv'
      BY <2>1, <2>2, <3>1, AcknowledgeOrder DEF Writes
    <3>3. TypeOK' /\ HandInv' /\ LifeInv' /\ RegisterInv'
      BY <1>5, <2>1, <2>2, <3>1 DEF DoWrite, TypeOK, RegisterInv
    <3>4. QED
      BY <3>2, <3>3
  <2>3. CASE acked' # acked + 1
    <3>1. register' \in {register, cmd} /\ UNCHANGED <<cmd, acked>>
          /\ wpc' = "failed"
      BY <1>5, <2>3 DEF DoWrite
    <3>2. OrderInv'
      BY <1>5, <3>1 DEF DoWrite, OrderInv, Held
    <3>3. TypeOK' /\ HandInv' /\ LifeInv' /\ RegisterInv'
      BY <1>5, <2>1, <3>1 DEF DoWrite, TypeOK, RegisterInv
    <3>4. QED
      BY <3>2, <3>3
  <2>4. QED
    BY <2>2, <2>3
<1>6. CASE Requeue
  <2>1. pending' \in Seq(Writes) /\ OrderInv'
    BY <1>6, RequeueOrder DEF Requeue
  <2>2. TypeOK' /\ HandInv' /\ LifeInv' /\ RegisterInv'
    BY <1>6, <2>1 DEF Requeue, TypeOK, RegisterInv
  <2>3. QED
    BY <2>1, <2>2
<1>7. CASE PollTest
  BY <1>7 DEF PollTest, TypeOK, OrderInv, RegisterInv, Held
<1>8. CASE DoPoll \/ Polled
  BY <1>8 DEF DoPoll, Polled, TypeOK, OrderInv, RegisterInv, Held
<1>9. CASE Exit
  BY <1>9 DEF Exit, TypeOK, OrderInv, RegisterInv, Held
<1>10. QED
  BY <1>1, <1>2, <1>3, <1>4, <1>5, <1>6, <1>7, <1>8, <1>9
  DEF WorkerStep, Timeouts

\* It holds in every state.
LEMMA InvAlways == Spec => []Inv
<1>1. ASSUME Inv, PollFallsDue \/ UNCHANGED vars
      PROVE  Inv'
  <2>1. UNCHANGED <<running, connected, pending, cmd, polling, wpc, cpc, spc,
                    starts, submitted, acked, register>>
        /\ due' \in BOOLEAN
    BY <1>1 DEF PollFallsDue, vars, Inv, TypeOK
  <2>2. TypeOK'
    BY <1>1, <2>1 DEF Inv, TypeOK
  <2>3. HandInv' /\ LifeInv' /\ OrderInv' /\ RegisterInv'
    BY <1>1, <2>1 DEF Inv, HandInv, LifeInv, OrderInv, RegisterInv, Held
  <2>4. QED
    BY <2>2, <2>3 DEF Inv
<1>2. Inv /\ [Next]_vars => Inv'
  BY <1>1, InvController, InvSubmit, InvWorker DEF Next
<1>3. QED
  BY InvInit, <1>2, PTL DEF Spec

-----------------------------------------------------------------------------

\* Every variable keeps its type.
THEOREM TypeCorrect == Spec => []TypeOK
<1>1. Inv => TypeOK
  BY DEF Inv
<1>2. QED
  BY InvAlways, <1>1, PTL

\* No write is lost, doubled or overtaken, whatever fails and however often
\* the runtime is stopped and started.
THEOREM WritesKeepTheirOrder == Spec => []InOrderOnce
<1>1. Inv => InOrderOnce
  <2> SUFFICES ASSUME Inv
               PROVE  InOrderOnce
    OBVIOUS
  <2>1. /\ pending \in Seq(Writes) /\ InHand \in Seq(Writes)
        /\ Len(InHand) = Held /\ Held \in {0, 1}
        /\ submitted \in Nat /\ acked \in Nat /\ Len(pending) \in Nat
    BY EmptySeq, LenProperties DEF Inv, TypeOK, InHand, Held
  <2>a. Len(pending) = submitted - acked - Held
    BY DEF Inv, OrderInv
  <2>2. /\ InHand \o pending \in Seq(Writes)
        /\ Len(InHand \o pending) = submitted - acked
        /\ \A i \in 1 .. submitted - acked :
             (InHand \o pending)[i] = IF i <= Held THEN InHand[i]
                                      ELSE pending[i - Held]
    <3>1. /\ InHand \o pending \in Seq(Writes)
          /\ Len(InHand \o pending) = Held + Len(pending)
          /\ \A i \in 1 .. Held + Len(pending) :
               (InHand \o pending)[i] = IF i <= Held THEN InHand[i]
                                        ELSE pending[i - Held]
      BY <2>1, ConcatProperties
    <3>2. Held + Len(pending) = submitted - acked
      BY <2>1, <2>a
    <3>3. QED
      BY <3>1, <3>2
  <2>3. ASSUME NEW i \in 1 .. submitted - acked
        PROVE  (InHand \o pending)[i] = acked + i
    <3>1. CASE i <= Held
      <4>1. Held = 1 /\ i = 1
        BY <2>1, <3>1
      <4>2. cmd # NoWrite /\ InHand = <<cmd>>
        BY <4>1 DEF Held, InHand
      <4>3. cmd = acked + 1
        BY <4>2 DEF Inv, OrderInv
      <4>4. (InHand \o pending)[i] = InHand[1]
        BY <2>2, <4>1
      <4>5. QED
        BY <4>1, <4>2, <4>3, <4>4
    <3>2. CASE ~(i <= Held)
      <4>1. i - Held \in 1 .. Len(pending)
        BY <2>1, <3>2 DEF Inv, OrderInv
      <4>2. QED
        <5>1. (InHand \o pending)[i] = pending[i - Held]
          BY <2>2, <3>2
        <5>2. pending[i - Held] = acked + Held + (i - Held)
          BY <4>1 DEF Inv, OrderInv
        <5>3. QED
          BY <2>1, <5>1, <5>2
    <3>3. QED
      BY <3>1, <3>2
  <2>4. InHand \o pending = [i \in 1 .. submitted - acked |-> (InHand \o pending)[i]]
    BY <2>2, LenProperties
  <2>5. QED
    BY <2>3, <2>4 DEF InOrderOnce
<1>2. QED
  BY InvAlways, <1>1, PTL

\* The device holds the last acknowledged write or the one after it.
THEOREM RegisterStaysCurrent == Spec => []RegisterIsCurrent
<1>1. Inv => RegisterIsCurrent
  BY DEF Inv, TypeOK, RegisterInv, RegisterIsCurrent
<1>2. QED
  BY InvAlways, <1>1, PTL
=============================================================================
