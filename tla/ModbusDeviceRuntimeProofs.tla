--------------------- MODULE ModbusDeviceRuntimeProofs ---------------------
(***************************************************************************)
(* Proofs about ModbusDeviceRuntime.tla, for any set of submitters and any *)
(* number of requests, stops and restarts: the types, that stop() leaves   *)
(* the runtime quiet and serves at most one more request, that a failed    *)
(* link is not reused, that no submit is slept through, and that every     *)
(* request is answered at most once and in order.                          *)
(***************************************************************************)
EXTENDS ModbusDeviceRuntime, SequenceTheorems, TLAPS

USE DEF device, queueing, control

-----------------------------------------------------------------------------
(* The inductive invariant                                                 *)

\* A request is in the worker's hands exactly while it is being performed.
HandInv == op # NoRequest <=> wpc \in {"connect", "io"}

\* Where the controller is, what running_ says and whether there is a worker.
LifeInv ==
  /\ wpc = "none" <=> cpc = "spawn" \/ (cpc = "idle" /\ ~running)
  /\ cpc = "spawn" => running
  /\ cpc \in {"notify", "join"} => ~running
  /\ wpc \in {"exit", "done"} => ~running

\* connected_ tells the truth about the adapter; no link without a worker.
LinkInv ==
  /\ open = connected
  /\ wpc \in {"none", "done"} => ~open
  /\ wpc = "io" => open
  /\ \/ outcomes = << >>
     \/ outcomes[Len(outcomes)].ok
     \/ wpc \in {"failed", "io"}
     \/ ~open

\* After stop() the worker passes "take" once more at most, and before it has
\* taken a late request.
LateInv == late <= 1 /\ (~running /\ wpc = "take" => late = 0)

\* The worker blocks under the mutex on an empty queue.
WaitInv ==
  /\ wpc = "block" => pending = << >>
  /\ NoLostSubmit

Inv == TypeOK /\ HandInv /\ LifeInv /\ LinkInv /\ LateInv /\ WaitInv

\* A newly submitted request is a Request.
LEMMA NewRequest ==
  ASSUME TypeOK, NEW s \in Submitters, count[s] < MaxSubmit, NEW kind \in Kinds
  PROVE  /\ [from |-> s, n |-> count[s] + 1, kind |-> kind] \in Request
         /\ count[s] + 1 \in 0 .. MaxSubmit
BY RuntimeAssumption DEF TypeOK, Request

\* What publishing the request in hand does to the history of outcomes.
LEMMA PublishOutcome ==
  ASSUME TypeOK, op \in Request, NEW ok \in BOOLEAN, Publish(ok)
  PROVE  /\ outcomes' \in Seq(Outcome)
         /\ outcomes' # << >>
         /\ Len(outcomes') = Len(outcomes) + 1
         /\ outcomes'[Len(outcomes')] = [req |-> op, ok |-> ok]
         /\ ok => outcomes'[Len(outcomes')].ok
         /\ \A i \in 1 .. Len(outcomes) : outcomes'[i] = outcomes[i]
         /\ op' = NoRequest
<1>1. [req |-> op, ok |-> ok] \in Outcome
  BY DEF Outcome
<1>2. outcomes \in Seq(Outcome)
  BY DEF TypeOK
<1>3. outcomes' = Append(outcomes, [req |-> op, ok |-> ok]) /\ op' = NoRequest
  BY DEF Publish
<1>4. ok => [req |-> op, ok |-> ok].ok
  OBVIOUS
<1>5. /\ outcomes' # << >>
      /\ Len(outcomes') = Len(outcomes) + 1
      /\ outcomes'[Len(outcomes')] = [req |-> op, ok |-> ok]
      /\ \A i \in 1 .. Len(outcomes) : outcomes'[i] = outcomes[i]
      /\ outcomes' \in Seq(Outcome)
  BY <1>1, <1>2, <1>3, AppendProperties
<1>6. QED
  BY <1>3, <1>4, <1>5

-----------------------------------------------------------------------------

\* The invariant holds before the first start().
LEMMA InvInit == Init => Inv
<1> SUFFICES ASSUME Init
             PROVE  Inv
  OBVIOUS
<1>1. TypeOK
  <2>1. pending \in Seq(Request) /\ submitted \in Seq(Request)
    BY EmptySeq DEF Init
  <2>2. outcomes \in Seq(Outcome)
    BY EmptySeq DEF Init
  <2>3. running \in BOOLEAN /\ connected \in BOOLEAN /\ open \in BOOLEAN
    BY DEF Init
  <2>4. /\ spc \in [Submitters -> {"idle", "notify"}]
        /\ count \in [Submitters -> 0 .. MaxSubmit]
        /\ starts \in 0 .. MaxStarts
        /\ late \in Nat
    BY RuntimeAssumption DEF Init
  <2>5. op \in Request \cup {NoRequest} /\ wpc \in WorkerLabels
        /\ cpc \in {"idle", "spawn", "notify", "join"}
    BY DEF Init, WorkerLabels
  <2>6. QED
    BY <2>1, <2>2, <2>3, <2>4, <2>5 DEF TypeOK
<1>2. LifeInv
  BY DEF Init, LifeInv
<1>3. LinkInv
  BY DEF Init, LinkInv
<1>4. HandInv /\ LateInv /\ WaitInv
  BY DEF Init, HandInv, LateInv, WaitInv, NoLostSubmit
<1>5. QED
  BY <1>1, <1>2, <1>3, <1>4 DEF Inv

\* start() and stop(), step by step, keep it.
LEMMA InvController == Inv /\ Controller => Inv'
<1> SUFFICES ASSUME Inv, Controller
             PROVE  Inv'
  OBVIOUS
<1> USE RuntimeAssumption, NoRequestAssumption
    DEF Inv, TypeOK, HandInv, LifeInv, LinkInv, LateInv, WaitInv,
        NoLostSubmit, WorkerLabels
<1>1. CASE Start
  BY <1>1 DEF Start
<1>2. CASE Spawn
  BY <1>2 DEF Spawn
<1>3. CASE Stop
  <2>1. TypeOK'
    BY <1>3 DEF Stop
  <2>2. LifeInv'
    BY <1>3 DEF Stop
  <2>3. LinkInv'
    BY <1>3 DEF Stop
  <2>4. (HandInv /\ LateInv /\ WaitInv)'
    BY <1>3 DEF Stop
  <2>5. QED
    BY <2>1, <2>2, <2>3, <2>4
<1>4. CASE StopNotify
  BY <1>4 DEF StopNotify, Woken
<1>5. CASE StopJoin
  BY <1>5 DEF StopJoin
<1>6. QED
  BY <1>1, <1>2, <1>3, <1>4, <1>5 DEF Controller

\* submit_read() and submit_write() keep it.
LEMMA InvSubmit ==
  ASSUME Inv, NEW s \in Submitters, Submit(s) \/ SubmitNotify(s)
  PROVE  Inv'
<1> USE RuntimeAssumption, NoRequestAssumption
    DEF Inv, TypeOK, HandInv, LifeInv, LinkInv, LateInv, WaitInv,
        NoLostSubmit, WorkerLabels
<1>1. CASE Submit(s)
  <2>1. PICK kind \in Kinds :
          LET req == [from |-> s, n |-> count[s] + 1, kind |-> kind]
          IN /\ pending' = Append(pending, req)
             /\ submitted' = Append(submitted, req)
    BY <1>1 DEF Submit
  <2>2. /\ [from |-> s, n |-> count[s] + 1, kind |-> kind] \in Request
        /\ count[s] + 1 \in 0 .. MaxSubmit
    BY <1>1, NewRequest DEF Submit
  <2>3. pending' \in Seq(Request) /\ submitted' \in Seq(Request)
    BY <2>1, <2>2, AppendProperties
  <2>4. QED
    BY <1>1, <2>2, <2>3 DEF Submit, WorkerHoldsMutex
<1>2. CASE SubmitNotify(s)
  BY <1>2 DEF SubmitNotify, Woken
<1>3. QED
  BY <1>1, <1>2

\* Every step and timeout of worker_loop() keeps it.
LEMMA InvWorker == Inv /\ (WorkerStep \/ Timeouts) => Inv'
<1> SUFFICES ASSUME Inv, WorkerStep \/ Timeouts
             PROVE  Inv'
  OBVIOUS
<1> USE RuntimeAssumption, NoRequestAssumption
    DEF Inv, TypeOK, HandInv, LifeInv, LinkInv, LateInv, WaitInv,
        NoLostSubmit, WorkerLabels
<1>1. CASE LoopTest
  BY <1>1 DEF LoopTest
<1>2. CASE WaitTest
  BY <1>2 DEF WaitTest
<1>3. CASE WaitBlock
  BY <1>3 DEF WaitBlock
<1>4. CASE WaitExpired
  BY <1>4 DEF WaitExpired
<1>5. CASE AwakeTest
  BY <1>5 DEF AwakeTest
<1>6. CASE Take
  <2>1. CASE pending # << >>
    <3>1. op' \in Request /\ pending' \in Seq(Request)
      BY <1>6, <2>1, HeadTailProperties DEF Take
    <3>2. QED
      BY <1>6, <2>1, <3>1 DEF Take
  <2>2. CASE pending = << >>
    BY <1>6, <2>2 DEF Take
  <2>3. QED
    BY <2>1, <2>2
<1>7. CASE Connect
  <2>1. op \in Request
    BY <1>7 DEF Connect
  <2>2. CASE wpc' = "io"
    BY <1>7, <2>2 DEF Connect
  <2>3. CASE Publish(FALSE) /\ wpc' = "failed" /\ UNCHANGED device
    BY <1>7, <2>1, <2>3, PublishOutcome DEF Connect
  <2>4. QED
    BY <1>7, <2>2, <2>3 DEF Connect
<1>8. CASE DoIO
  <2>1. op \in Request
    BY <1>8 DEF DoIO
  <2>2. PICK ok \in BOOLEAN :
          Publish(ok) /\ wpc' = IF ok THEN "loop" ELSE "failed"
    BY <1>8 DEF DoIO
  <2>3. /\ outcomes' \in Seq(Outcome)
        /\ ok => outcomes'[Len(outcomes')].ok
        /\ op' = NoRequest
    BY <2>1, <2>2, PublishOutcome
  <2>4. QED
    BY <1>8, <2>2, <2>3 DEF DoIO
<1>9. CASE Failed
  BY <1>9 DEF Failed, MarkDisconnected
<1>10. CASE RetryTest
  BY <1>10 DEF RetryTest
<1>11. CASE RetryBlock
  BY <1>11 DEF RetryBlock
<1>12. CASE Exit
  BY <1>12 DEF Exit, MarkDisconnected
<1>13. CASE WaitTimeout
  BY <1>13 DEF WaitTimeout
<1>14. CASE RetryTimeout
  BY <1>14 DEF RetryTimeout
<1>15. QED
  BY <1>1, <1>2, <1>3, <1>4, <1>5, <1>6, <1>7, <1>8, <1>9, <1>10, <1>11,
     <1>12, <1>13, <1>14
  DEF WorkerStep, Timeouts

\* So does a step of somebody else.
LEMMA InvStutter == Inv /\ UNCHANGED vars => Inv'
BY DEF vars, Inv, TypeOK, HandInv, LifeInv, LinkInv, LateInv, WaitInv,
       NoLostSubmit

\* The invariant holds in every behaviour.
LEMMA InvAlways == Spec => []Inv
<1>1. Inv /\ [Next]_vars => Inv'
  BY InvController, InvSubmit, InvWorker, InvStutter DEF Next
<1>2. QED
  BY <1>1, InvInit, PTL DEF Spec

\* Type correctness, for any number of submitters, requests and restarts.
THEOREM TypeCorrect == Spec => []TypeOK
<1>1. Inv => TypeOK
  BY DEF Inv
<1>2. QED
  BY <1>1, InvAlways, PTL

\* The worker never sleeps on pending requests without a submitter that still
\* has to notify it.
THEOREM SubmitsAreNotLost == Spec => []NoLostSubmit
<1>1. Inv => NoLostSubmit
  BY DEF Inv, WaitInv
<1>2. QED
  BY <1>1, InvAlways, PTL

\* When stop() has returned, the worker is gone, no request is half done and the
\* adapter is disconnected, whatever the worker was doing when it was told.
THEOREM StopLeavesQuiet == Spec => []StoppedIsQuiet
<1>1. Inv => StoppedIsQuiet
  BY DEF Inv, HandInv, LifeInv, LinkInv, StoppedIsQuiet
<1>2. QED
  BY <1>1, InvAlways, PTL

\* No I/O on a closed connection and no second use of a failed one.
THEOREM LinkIsFresh == Spec => []FreshLinkAfterFailure
<1>1. Inv => FreshLinkAfterFailure
  BY DEF Inv, LinkInv, FreshLinkAfterFailure
<1>2. QED
  BY <1>1, InvAlways, PTL

\* The window between the test of running_ and the look at the queue lets one
\* request through after stop(), never two.
THEOREM OneLateRequest == Spec => []AtMostOneLate
<1>1. Inv => AtMostOneLate
  BY DEF Inv, LateInv, AtMostOneLate
<1>2. QED
  BY <1>1, InvAlways, PTL

-----------------------------------------------------------------------------
(* Exactly once, in order: a request moves from pending_ops_ to the hand    *)
(* and from there to the outcomes, and the three joined never change but by *)
(* a submit at their end.                                                   *)

\* The parts of the flow of requests are sequences of requests.
LEMMA AnsweredType ==
  ASSUME TypeOK
  PROVE  /\ Answered \in Seq(Request)
         /\ InHand \in Seq(Request)
         /\ Answered \o InHand \in Seq(Request)
<1>1. \A i \in 1 .. Len(outcomes) : outcomes[i].req \in Request
  <2>1. \A i \in 1 .. Len(outcomes) : outcomes[i] \in Outcome
    BY ElementOfSeq DEF TypeOK
  <2>2. QED
    BY <2>1 DEF Outcome
<1>2. Answered \in Seq(Request)
  <2>1. Len(outcomes) \in Nat
    BY LenProperties DEF TypeOK
  <2>2. Answered \in [1 .. Len(outcomes) -> Request]
    BY <1>1 DEF Answered
  <2>3. QED
    BY <2>1, <2>2, SeqDef
<1>3. InHand \in Seq(Request)
  BY EmptySeq DEF InHand, TypeOK
<1>4. QED
  BY <1>2, <1>3, ConcatProperties

\* Publishing moves the request in hand to the end of the answered ones.
LEMMA PublishAnswers ==
  ASSUME TypeOK, op \in Request, NEW ok \in BOOLEAN, Publish(ok)
  PROVE  Answered' = Append(Answered, op)
<1>1. /\ outcomes' \in Seq(Outcome)
      /\ Len(outcomes') = Len(outcomes) + 1
      /\ outcomes'[Len(outcomes')] = [req |-> op, ok |-> ok]
      /\ \A i \in 1 .. Len(outcomes) : outcomes'[i] = outcomes[i]
  BY PublishOutcome
<1>2. Len(outcomes) \in Nat
  BY LenProperties DEF TypeOK
<1>3. Answered = [i \in 1 .. Len(outcomes) |-> outcomes[i].req]
      /\ Answered' = [i \in 1 .. Len(outcomes') |-> outcomes'[i].req]
  BY DEF Answered
<1>4. Answered \in Seq(Request) /\ Len(Answered) = Len(outcomes)
  BY <1>2, <1>3, AnsweredType, LenProperties
<1>5. Answered' \in Seq(Request) /\ Len(Answered') = Len(outcomes')
  <2>1. \A i \in 1 .. Len(outcomes') : outcomes'[i] \in Outcome
    BY <1>1, ElementOfSeq
  <2>2. \A i \in 1 .. Len(outcomes') : outcomes'[i].req \in Request
    BY <2>1 DEF Outcome
  <2>3. Answered' \in [1 .. Len(outcomes') -> Request] /\ Len(outcomes') \in Nat
    BY <1>1, <1>2, <1>3, <2>2
  <2>4. Answered' \in Seq(Request)
    BY <2>3, SeqDef
  <2>5. QED
    BY <1>3, <2>3, <2>4, LenProperties
<1>6. /\ Append(Answered, op) \in Seq(Request)
      /\ Len(Append(Answered, op)) = Len(outcomes) + 1
      /\ \A i \in 1 .. Len(outcomes) : Append(Answered, op)[i] = Answered[i]
      /\ Append(Answered, op)[Len(outcomes) + 1] = op
  BY <1>4, AppendProperties
<1>7. ASSUME NEW i \in 1 .. Len(Answered')
      PROVE  Answered'[i] = Append(Answered, op)[i]
  <2>1. CASE i \in 1 .. Len(outcomes)
    <3>1. Answered'[i] = outcomes'[i].req /\ Answered[i] = outcomes[i].req
      BY <1>1, <1>2, <1>3, <2>1
    <3>2. QED
      BY <1>1, <1>6, <2>1, <3>1
  <2>2. CASE i = Len(outcomes')
    <3>1. Answered'[i] = outcomes'[i].req
      BY <1>1, <1>2, <1>3, <2>2
    <3>2. QED
      BY <1>1, <1>6, <2>2, <3>1
  <2>3. i \in 1 .. Len(outcomes) \/ i = Len(outcomes')
    <3>1. i \in 1 .. Len(outcomes) + 1
      BY <1>1, <1>5
    <3>2. QED
      BY <1>1, <1>2, <3>1
  <2>4. QED
    BY <2>1, <2>2, <2>3
<1>8. QED
  BY <1>1, <1>5, <1>6, <1>7, SeqEqual

\* A submit extends the flow; taking and answering a request only shift it.
LEMMA FlowNext == Inv /\ ExactlyOnceInOrder /\ [Next]_vars => ExactlyOnceInOrder'
<1> SUFFICES ASSUME Inv, ExactlyOnceInOrder, [Next]_vars
             PROVE  ExactlyOnceInOrder'
  OBVIOUS
<1> USE DEF Inv
<1>1. ASSUME NEW s \in Submitters, Submit(s)
      PROVE  ExactlyOnceInOrder'
  <2>1. PICK kind \in Kinds :
          LET req == [from |-> s, n |-> count[s] + 1, kind |-> kind]
          IN /\ pending' = Append(pending, req)
             /\ submitted' = Append(submitted, req)
    BY <1>1 DEF Submit
  <2> DEFINE req == [from |-> s, n |-> count[s] + 1, kind |-> kind]
  <2>2. req \in Request
    BY <1>1, NewRequest DEF Submit
  <2>3. (Answered \o InHand)' = Answered \o InHand
    BY <1>1 DEF Submit, Answered, InHand
  <2>4. (Answered \o InHand) \o Append(pending, req)
          = Append((Answered \o InHand) \o pending, req)
    <3>1. Answered \o InHand \in Seq(Request) /\ pending \in Seq(Request)
      BY AnsweredType DEF TypeOK
    <3>2. QED
      BY <2>2, <3>1, AppendIsConcat, ConcatProperties, ConcatAssociative
  <2>5. QED
    BY <2>1, <2>3, <2>4 DEF ExactlyOnceInOrder
<1>2. CASE Take /\ pending # << >>
  <2> DEFINE h == Head(pending)
  <2>1. /\ h \in Request
        /\ op' = h
        /\ pending' = Tail(pending)
        /\ Answered' = Answered
        /\ submitted' = submitted
    BY <1>2, HeadTailProperties DEF Take, Answered, TypeOK
  <2>2. InHand = << >> /\ InHand' = <<h>>
    BY <1>2, <2>1, NoRequestAssumption DEF InHand, HandInv, Take
  <2>3. Answered \in Seq(Request) /\ Answered \o << >> = Answered
    BY AnsweredType, ConcatEmptySeq
  <2>4. Answered \o <<h>> = Append(Answered, h)
    BY <2>1, <2>3, AppendIsConcat
  <2>5. Append(Answered, h) \o Tail(pending) = Answered \o pending
    <3>1. pending \in Seq(Request) /\ Len(pending) \in Nat \ {0} /\ h = pending[1]
      BY <1>2, EmptySeq DEF TypeOK
    <3>2. pending = <<h>> \o Tail(pending)
      BY <1>2, <3>1, SubSeqFull, SubSeqRecursiveFirst, TailIsSubSeq
    <3>3. <<h>> \in Seq(Request)
      BY <2>1
    <3> HIDE DEF h
    <3>4. Answered \o (<<h>> \o Tail(pending)) = (Answered \o <<h>>) \o Tail(pending)
      BY <1>2, <2>3, <3>1, <3>3, ConcatAssociative, HeadTailProperties
    <3>5. QED
      BY <2>4, <3>2, <3>4
  <2>6. QED
    BY <2>1, <2>2, <2>3, <2>4, <2>5 DEF ExactlyOnceInOrder
<1>3. ASSUME op \in Request, NEW ok \in BOOLEAN, Publish(ok),
             UNCHANGED <<pending, submitted>>
      PROVE  ExactlyOnceInOrder'
  <2>1. Answered' = Append(Answered, op)
    BY <1>3, PublishAnswers
  <2>2. InHand = <<op>> /\ InHand' = << >>
    BY <1>3, NoRequestAssumption DEF InHand, Publish
  <2>3. Append(Answered, op) \in Seq(Request)
        /\ Append(Answered, op) = Answered \o <<op>>
    BY <1>3, AnsweredType, AppendIsConcat, AppendProperties
  <2>4. Append(Answered, op) \o << >> = Append(Answered, op)
    BY <2>3, ConcatEmptySeq
  <2>5. QED
    BY <1>3, <2>1, <2>2, <2>3, <2>4 DEF ExactlyOnceInOrder
<1>4. CASE UNCHANGED <<op, pending, submitted, outcomes>>
  BY <1>4 DEF ExactlyOnceInOrder, Answered, InHand
<1>5. CASE Connect \/ DoIO
  <2>1. op \in Request
    BY <1>5 DEF HandInv, TypeOK, Connect, DoIO
  <2>2. \/ \E ok \in BOOLEAN : Publish(ok) /\ UNCHANGED <<pending, submitted>>
        \/ UNCHANGED <<op, pending, submitted, outcomes>>
    BY <1>5 DEF Connect, DoIO
  <2>3. QED
    BY <2>1, <2>2, <1>3, <1>4
<1>6. QED
  BY <1>1, <1>2, <1>4, <1>5
  DEF Next, Controller, Start, Spawn, Stop, StopNotify, StopJoin, SubmitNotify,
      WorkerStep, Timeouts, LoopTest, WaitTest, WaitBlock, WaitExpired,
      AwakeTest, Take, Failed, RetryTest, RetryBlock, Exit, WaitTimeout,
      RetryTimeout, vars

\* Every accepted request is, in the order of submission, answered, in hand or
\* pending: none is lost, repeated or overtaken by failures, stops or restarts.
THEOREM RequestsAreServedInOrder == Spec => []ExactlyOnceInOrder
<1>1. Init => ExactlyOnceInOrder
  <2>1. Init => Answered = << >> /\ InHand = << >>
    BY EmptySeq DEF Init, Answered, InHand
  <2>2. << >> \o << >> = << >>
    BY EmptySeq, ConcatEmptySeq
  <2>3. QED
    BY <2>1, <2>2 DEF Init, ExactlyOnceInOrder
<1>2. QED
  BY <1>1, InvAlways, FlowNext, PTL DEF Spec

-----------------------------------------------------------------------------
(* The runtime is a request service: the line of waiting requests is the    *)
(* one in hand, if any, with pending_ops_ behind it.                        *)

Waiting == InHand \o pending

\* Without a request in hand the line is the queue; with one, it comes first.
LEMMA WaitingLine ==
  ASSUME TypeOK
  PROVE  /\ op = NoRequest => Waiting = pending
         /\ op # NoRequest => /\ op \in Request
                              /\ Waiting = <<op>> \o pending
                              /\ Waiting # << >>
                              /\ Head(Waiting) = op
                              /\ Tail(Waiting) = pending
<1>1. pending \in Seq(Request)
  BY DEF TypeOK
<1>2. CASE op = NoRequest
  BY <1>1, <1>2, ConcatEmptySeq DEF Waiting, InHand
<1>3. CASE op # NoRequest
  <2>1. op \in Request /\ Waiting = <<op>> \o pending
    BY <1>3 DEF TypeOK, Waiting, InHand
  <2>2. <<op>> \in Seq(Request) /\ Len(<<op>>) = 1 /\ <<op>>[1] = op
    BY <2>1
  <2>3. /\ Waiting \in Seq(Request)
        /\ Len(Waiting) = 1 + Len(pending)
        /\ Waiting[1] = op
        /\ \A i \in 1 .. Len(pending) : Waiting[i + 1] = pending[i]
    BY <1>1, <2>1, <2>2, ConcatProperties, LenProperties
  <2>4. Waiting # << >>
    BY <1>1, <2>3, EmptySeq, LenProperties
  <2>5. /\ Head(Waiting) = op
        /\ Tail(Waiting) \in Seq(Request)
        /\ Len(Tail(Waiting)) = Len(pending)
        /\ \A i \in 1 .. Len(pending) : Tail(Waiting)[i] = pending[i]
    BY <1>1, <2>3, <2>4, HeadTailProperties, LenProperties
  <2>6. Tail(Waiting) = pending
    BY <1>1, <2>5, SeqEqual
  <2>7. QED
    BY <1>3, <2>1, <2>4, <2>5, <2>6
<1>4. QED
  BY <1>2, <1>3

\* A request joins the line at its end, whatever is in hand.
LEMMA SubmitJoins ==
  ASSUME Inv, NEW s \in Submitters, Submit(s)
  PROVE  Service!Submit
<1>1. PICK r \in Request :
        pending' = Append(pending, r) /\ UNCHANGED <<op, outcomes>>
  <2>1. PICK kind \in Kinds :
          pending' = Append(pending, [from |-> s, n |-> count[s] + 1,
                                      kind |-> kind])
    BY DEF Submit
  <2>2. QED
    BY <2>1, NewRequest DEF Submit, Inv
<1>2. InHand' = InHand
  BY <1>1 DEF InHand
<1>3. InHand \in Seq(Request) /\ pending \in Seq(Request)
  BY AnsweredType DEF Inv, TypeOK
<1>4. InHand \o Append(pending, r) = Append(InHand \o pending, r)
  BY <1>3, AppendIsConcat, ConcatProperties, ConcatAssociative
<1>5. QED
  BY <1>1, <1>2, <1>4 DEF Service!Submit

\* Taking a request moves it from the queue to the hand, which is no step of
\* the line.
LEMMA TakeKeepsLine ==
  ASSUME Inv, Take
  PROVE  (InHand \o pending)' = InHand \o pending
<1>1. CASE pending = << >>
  BY <1>1 DEF Take, InHand
<1>2. CASE pending # << >>
  <2>1. pending \in Seq(Request) /\ op = NoRequest
    BY DEF Inv, TypeOK, HandInv, Take
  <2>2. op' = Head(pending) /\ pending' = Tail(pending)
    BY <1>2 DEF Take
  <2>3. Head(pending) \in Request
    BY <1>2, <2>1, HeadTailProperties
  <2>4. InHand = << >> /\ InHand' = <<Head(pending)>>
    BY <2>1, <2>2, <2>3, NoRequestAssumption DEF InHand
  <2>5. << >> \o pending = pending
    BY <2>1, ConcatEmptySeq
  <2>6. Len(pending) \in Nat \ {0} /\ Head(pending) = pending[1]
    BY <1>2, <2>1, EmptySeq
  <2>7. <<pending[1]>> \o Tail(pending) = pending
    BY <1>2, <2>1, <2>6, SubSeqFull, SubSeqRecursiveFirst, TailIsSubSeq
  <2>8. QED
    BY <2>2, <2>4, <2>5, <2>6, <2>7
<1>3. QED
  BY <1>1, <1>2

\* Publishing the outcome of the request in hand answers the first of the line.
LEMMA PublishIsAnswer ==
  ASSUME Inv, op # NoRequest, NEW ok \in BOOLEAN, Publish(ok),
         UNCHANGED pending, ok => op.kind = "valid"
  PROVE  Service!Answer
<1>1. /\ op \in Request
      /\ InHand \o pending # << >>
      /\ Head(InHand \o pending) = op
      /\ Tail(InHand \o pending) = pending
  BY WaitingLine DEF Inv, Waiting
<1>2. (InHand \o pending)' = pending
  <2>1. InHand' = << >> /\ pending' = pending
    BY DEF Publish, InHand
  <2>2. << >> \o pending = pending
    BY ConcatEmptySeq DEF Inv, TypeOK
  <2>3. QED
    BY <2>1, <2>2
<1>3. /\ ok => Head(InHand \o pending) \in {r \in Request : r.kind = "valid"}
      /\ outcomes' = Append(outcomes, [req |-> Head(InHand \o pending), ok |-> ok])
  BY <1>1 DEF Publish
<1>4. QED
  BY <1>1, <1>2, <1>3 DEF Service!Answer

\* Every step submits to the line, answers its first request or leaves it alone.
LEMMA ServiceNext ==
  Inv /\ [Next]_vars => [Service!Next]_(Service!vars)
<1> SUFFICES ASSUME Inv, [Next]_vars
             PROVE  [Service!Next]_(Service!vars)
  OBVIOUS
<1>1. ASSUME NEW s \in Submitters, Submit(s)
      PROVE  Service!Next
  BY <1>1, SubmitJoins DEF Service!Next
<1>2. CASE Take
  <2>1. (InHand \o pending)' = InHand \o pending
    BY <1>2, TakeKeepsLine
  <2>2. outcomes' = outcomes
    BY <1>2 DEF Take
  <2>3. QED
    BY <2>1, <2>2 DEF Service!vars
<1>3. CASE UNCHANGED <<op, pending, outcomes>>
  BY <1>3 DEF InHand, Service!vars
<1>4. CASE Connect \/ DoIO
  <2>1. op # NoRequest
    BY <1>4 DEF Inv, HandInv, Connect, DoIO
  <2>2. \/ \E ok \in BOOLEAN : /\ Publish(ok)
                               /\ UNCHANGED pending
                               /\ ok => op.kind = "valid"
        \/ UNCHANGED <<op, pending, outcomes>>
    BY <1>4 DEF Connect, DoIO
  <2>3. QED
    BY <1>3, <2>1, <2>2, PublishIsAnswer DEF Service!Next
<1>5. QED
  BY <1>1, <1>2, <1>3, <1>4
  DEF Next, Controller, Start, Spawn, Stop, StopNotify, StopJoin, SubmitNotify,
      WorkerStep, Timeouts, LoopTest, WaitTest, WaitBlock, WaitExpired,
      AwakeTest, Failed, RetryTest, RetryBlock, Exit, WaitTimeout,
      RetryTimeout, vars

\* A device runtime implements the request service: whatever its worker, its
\* connection and stop() do, an observer of submits and answers sees a line of
\* requests answered from its front, once each.
THEOREM RuntimeImplementsService == Spec => ImplementsService
<1>1. Init => Service!Init
  <2>1. << >> \o << >> = << >>
    BY EmptySeq, ConcatEmptySeq
  <2>2. QED
    BY <2>1 DEF Init, InHand, Service!Init
<1>2. QED
  BY <1>1, ServiceNext, InvAlways, PTL
  DEF Spec, ImplementsService, Service!Spec
=============================================================================
