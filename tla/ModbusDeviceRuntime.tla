------------------------ MODULE ModbusDeviceRuntime ------------------------
(***************************************************************************)
(* core/infrastructure/runtime/ModbusDeviceRuntime.{h,cpp}: one worker     *)
(* thread per Modbus device.  Submitters (the event loop's handlers) queue *)
(* read and write requests; the worker takes them one by one, connects the *)
(* adapter when needed, does the I/O and publishes the outcome; after a    *)
(* failure it disconnects and waits.  The controller (the thread that      *)
(* calls start() and stop()) clears the atomic running_ and notifies       *)
(* WITHOUT the mutex (lines 55-60), so its steps fall between any two      *)
(* steps of the worker.                                                    *)
(***************************************************************************)
EXTENDS Integers, Sequences

CONSTANTS
  Submitters,  \* threads that call submit_read() and submit_write()
  NoRequest,   \* an empty `op'
  MaxSubmit,   \* bound: requests per submitter
  MaxStarts    \* bound: calls of start() that start a worker

ASSUME RuntimeAssumption ==
  /\ MaxSubmit \in Nat
  /\ MaxStarts \in Nat

\* What decides the path of a request: "invalid" is a write that perform_write
\* or do_write rejects (read-only register type, no values), or a read of a
\* register type do_read does not know; it reaches no adapter.
Kinds == {"valid", "invalid"}

Request == [from : Submitters, n : 1 .. MaxSubmit, kind : Kinds]

ASSUME NoRequestAssumption == NoRequest \notin Request

Outcome == [req : Request, ok : BOOLEAN]

VARIABLES
  running,    \* running_
  connected,  \* connected_
  open,       \* the adapter holds an open connection
  pending,    \* pending_ops_
  op,         \* the request in the worker's hands
  wpc,        \* where the worker is; "none" when there is no thread
  cpc,        \* where the controller is in start() or stop()
  spc,        \* where each submitter is
  count,      \* requests submitted by each submitter
  starts,     \* workers started
  submitted,  \* history: requests in the order they entered pending_ops_
  outcomes,   \* history: results and failures published on the bus
  late        \* history: requests taken since stop() cleared running_

control == <<cpc, starts>>
device == <<connected, open>>
queueing == <<spc, count, submitted>>
vars == <<running, connected, open, pending, op, wpc, cpc, spc, count, starts,
          submitted, outcomes, late>>

Init ==
  /\ running = FALSE
  /\ connected = FALSE
  /\ open = FALSE
  /\ pending = << >>
  /\ op = NoRequest
  /\ wpc = "none"
  /\ cpc = "idle"
  /\ spc = [s \in Submitters |-> "idle"]
  /\ count = [s \in Submitters |-> 0]
  /\ starts = 0
  /\ submitted = << >>
  /\ outcomes = << >>
  /\ late = 0

\* The labels at which the worker is inside mutex_; a submitter is inside it
\* only within one step.
WorkerHoldsMutex == wpc \in {"awake", "take", "block", "retry_block"}

\* What a notification does to the worker: it re-evaluates its predicate.
Woken(label) == IF label = "waiting" THEN "lock"
                ELSE IF label = "retry_waiting" THEN "retry_lock"
                ELSE label

-----------------------------------------------------------------------------
(* Slips: wrong variants of definitions below, each a mistake the code could *)
(* plausibly have made.  No specification uses them; put in the place of the *)
(* right definition, each makes the property named with it fail.             *)

\* The request is moved out before it is reported (ImplementsService).
PublishMoved(ok) ==
  /\ outcomes' = Append(outcomes, [req |-> NoRequest, ok |-> ok])
  /\ op' = NoRequest

\* A failed connect is not reported (ExactlyOnceInOrder).
ConnectSilently ==
  /\ wpc = "connect"
  /\ \/ /\ connected
        /\ wpc' = "io"
        /\ UNCHANGED <<device, op>>
     \/ /\ ~connected
        /\ connected' = TRUE
        /\ open' = TRUE
        /\ wpc' = "io"
        /\ UNCHANGED op
     \/ /\ ~connected
        /\ op' = NoRequest
        /\ wpc' = "failed"
        /\ UNCHANGED device
  /\ UNCHANGED <<running, pending, control, queueing, outcomes, late>>

\* A submit does not notify (NoLostSubmit).
SubmitQuietly(s) ==
  /\ spc[s] = "idle"
  /\ count[s] < MaxSubmit
  /\ ~WorkerHoldsMutex
  /\ \E kind \in Kinds :
       LET req == [from |-> s, n |-> count[s] + 1, kind |-> kind]
       IN /\ pending' = Append(pending, req)
          /\ submitted' = Append(submitted, req)
  /\ count' = [count EXCEPT ![s] = @ + 1]
  /\ UNCHANGED <<running, device, op, wpc, control, spc, outcomes, late>>

\* The worker leaves without disconnecting (StoppedIsQuiet).
ExitConnected ==
  /\ wpc = "exit"
  /\ wpc' = "done"
  /\ UNCHANGED <<running, device, pending, op, control, queueing, outcomes,
                 late>>

\* The connection is kept after a failure (FreshLinkAfterFailure).
FailedStaysConnected ==
  /\ wpc = "failed"
  /\ wpc' = "retry_lock"
  /\ UNCHANGED <<running, device, pending, op, control, queueing, outcomes,
                 late>>

\* The queue is drained without looking at running_ again (AtMostOneLate).
DoIOAndTakeNext ==
  /\ wpc = "io"
  /\ \E ok \in IF op.kind = "valid" THEN BOOLEAN ELSE {FALSE} :
       /\ outcomes' = Append(outcomes, [req |-> op, ok |-> ok])
       /\ op' = NoRequest
       /\ wpc' = IF ok THEN "take" ELSE "failed"
  /\ UNCHANGED <<running, device, pending, control, queueing, late>>

\* wait() instead of wait_for() for new work (StopReturns) ...
WaitForever == FALSE

\* A request whose connect() failed gets no answer (PendingIsAnswered).
ConnectUnanswered ==
  /\ wpc = "connect"
  /\ \/ /\ connected' = TRUE
        /\ open' = TRUE
        /\ wpc' = "io"
     \/ /\ ~connected
        /\ wpc' = "failed"
        /\ UNCHANGED device
  /\ UNCHANGED <<running, pending, op, control, queueing, outcomes, late>>

-----------------------------------------------------------------------------
(* start() and stop()                                                      *)

\* running_.exchange(true); on a running runtime start() changes nothing.
Start ==
  /\ cpc = "idle"
  /\ ~running
  /\ starts < MaxStarts
  /\ running' = TRUE
  /\ starts' = starts + 1
  /\ cpc' = "spawn"
  /\ UNCHANGED <<device, pending, op, wpc, queueing, outcomes, late>>

Spawn ==
  /\ cpc = "spawn"
  /\ wpc' = "loop"
  /\ cpc' = "idle"
  /\ UNCHANGED <<running, device, pending, op, queueing, starts,
                 outcomes, late>>

\* running_.exchange(false); on a stopped runtime stop() changes nothing.
Stop ==
  /\ cpc = "idle"
  /\ running
  /\ running' = FALSE
  /\ late' = 0
  /\ cpc' = "notify"
  /\ UNCHANGED <<device, pending, op, wpc, queueing, starts, outcomes>>

\* notify_all() without the mutex: a worker that has evaluated its predicate
\* and not yet blocked does not hear it.
StopNotify ==
  /\ cpc = "notify"
  /\ wpc' = Woken(wpc)
  /\ cpc' = "join"
  /\ UNCHANGED <<running, device, pending, op, queueing, starts,
                 outcomes, late>>

StopJoin ==
  /\ cpc = "join"
  /\ wpc = "done"
  /\ wpc' = "none"
  /\ cpc' = "idle"
  /\ UNCHANGED <<running, device, pending, op, queueing, starts,
                 outcomes, late>>

-----------------------------------------------------------------------------
(* submit_read() and submit_write(): accepted in every state, also before   *)
(* start() and after stop().                                                *)

Submit(s) ==
  /\ spc[s] = "idle"
  /\ count[s] < MaxSubmit
  /\ ~WorkerHoldsMutex
  /\ \E kind \in Kinds :
       LET req == [from |-> s, n |-> count[s] + 1, kind |-> kind]
       IN /\ pending' = Append(pending, req)
          /\ submitted' = Append(submitted, req)
  /\ count' = [count EXCEPT ![s] = @ + 1]
  /\ spc' = [spc EXCEPT ![s] = "notify"]
  /\ UNCHANGED <<running, device, op, wpc, control, outcomes, late>>

SubmitNotify(s) ==
  /\ spc[s] = "notify"
  /\ spc' = [spc EXCEPT ![s] = "idle"]
  /\ wpc' = Woken(wpc)
  /\ UNCHANGED <<running, device, pending, op, control, count,
                 submitted, outcomes, late>>

-----------------------------------------------------------------------------
(* worker_loop(), lines 94-116: wait for work                              *)

LoopTest ==
  /\ wpc = "loop"
  /\ wpc' = IF running THEN "lock" ELSE "exit"
  /\ UNCHANGED <<running, device, pending, op, control, queueing,
                 outcomes, late>>

\* Take the mutex and evaluate the predicate of wait_for.
WaitTest ==
  /\ wpc = "lock"
  /\ wpc' = IF ~running \/ pending # << >> THEN "awake" ELSE "block"
  /\ UNCHANGED <<running, device, pending, op, control, queueing, outcomes,
                 late>>

WaitBlock ==
  /\ wpc = "block"
  /\ wpc' = "waiting"
  /\ UNCHANGED <<running, device, pending, op, control, queueing, outcomes,
                 late>>

WaitTimeout ==
  /\ wpc = "waiting"
  /\ wpc' = "expired"
  /\ UNCHANGED <<running, device, pending, op, control, queueing,
                 outcomes, late>>

\* The result of wait_for is ignored: an expired wait goes on like a woken one.
WaitExpired ==
  /\ wpc = "expired"
  /\ wpc' = "awake"
  /\ UNCHANGED <<running, device, pending, op, control, queueing, outcomes,
                 late>>

\* Lines 105-108; the queue is looked at in a later step, so stop() may come
\* between the two.
AwakeTest ==
  /\ wpc = "awake"
  /\ wpc' = IF running THEN "take" ELSE "exit"
  /\ UNCHANGED <<running, device, pending, op, control, queueing, outcomes,
                 late>>

\* Lines 110-121.
Take ==
  /\ wpc = "take"
  /\ IF pending # << >>
       THEN /\ op' = Head(pending)
            /\ pending' = Tail(pending)
            /\ late' = IF running THEN late ELSE late + 1
            /\ wpc' = "connect"
       ELSE /\ wpc' = "loop"
            /\ UNCHANGED <<op, pending, late>>
  /\ UNCHANGED <<running, device, control, queueing, outcomes>>

-----------------------------------------------------------------------------
(* perform_read(), perform_write() and what follows them                   *)

Publish(ok) ==
  /\ outcomes' = Append(outcomes, [req |-> op, ok |-> ok])
  /\ op' = NoRequest

\* ensure_connected(): adapter_->connect() either opens a connection or not.
Connect ==
  /\ wpc = "connect"
  /\ \/ /\ connected
        /\ wpc' = "io"
        /\ UNCHANGED <<device, op, outcomes>>
     \/ /\ ~connected
        /\ connected' = TRUE
        /\ open' = TRUE
        /\ wpc' = "io"
        /\ UNCHANGED <<op, outcomes>>
     \/ /\ ~connected
        /\ Publish(FALSE)
        /\ wpc' = "failed"
        /\ UNCHANGED device
  /\ UNCHANGED <<running, pending, control, queueing, late>>

\* Lines 190-206 and 217-237; the adapter's answer to a valid request is free.
DoIO ==
  /\ wpc = "io"
  /\ \E ok \in IF op.kind = "valid" THEN BOOLEAN ELSE {FALSE} :
       /\ Publish(ok)
       /\ wpc' = IF ok THEN "loop" ELSE "failed"
  /\ UNCHANGED <<running, device, pending, control, queueing, late>>

MarkDisconnected ==
  /\ connected' = FALSE
  /\ open' = IF connected THEN FALSE ELSE open

Failed ==
  /\ wpc = "failed"
  /\ MarkDisconnected
  /\ wpc' = "retry_lock"
  /\ UNCHANGED <<running, pending, op, control, queueing, outcomes,
                 late>>

\* wait_retry_delay(): only stop() ends it early; a submit that wakes it lets
\* it sleep again.
RetryTest ==
  /\ wpc = "retry_lock"
  /\ wpc' = IF running THEN "retry_block" ELSE "loop"
  /\ UNCHANGED <<running, device, pending, op, control, queueing, outcomes,
                 late>>

RetryBlock ==
  /\ wpc = "retry_block"
  /\ wpc' = "retry_waiting"
  /\ UNCHANGED <<running, device, pending, op, control, queueing, outcomes,
                 late>>

RetryTimeout ==
  /\ wpc = "retry_waiting"
  /\ wpc' = "loop"
  /\ UNCHANGED <<running, device, pending, op, control, queueing,
                 outcomes, late>>

\* Line 140: the worker leaves with the adapter disconnected.
Exit ==
  /\ wpc = "exit"
  /\ MarkDisconnected
  /\ wpc' = "done"
  /\ UNCHANGED <<running, pending, op, control, queueing, outcomes,
                 late>>

-----------------------------------------------------------------------------

Controller == Start \/ Spawn \/ Stop \/ StopNotify \/ StopJoin

WorkerStep ==
  \/ LoopTest \/ WaitTest \/ WaitBlock \/ WaitExpired \/ AwakeTest \/ Take
  \/ Connect \/ DoIO \/ Failed \/ RetryTest \/ RetryBlock \/ Exit

Timeouts == WaitTimeout \/ RetryTimeout

Next ==
  \/ Controller
  \/ \E s \in Submitters : Submit(s) \/ SubmitNotify(s)
  \/ WorkerStep
  \/ Timeouts

Spec == Init /\ [][Next]_vars

\* The worker goes on, a wait ends at the latest with its timeout, submitters
\* and the controller finish the call they are in.  Nobody has to call.
Fairness ==
  /\ WF_vars(WorkerStep)
  /\ WF_vars(Timeouts)
  /\ WF_vars(Spawn \/ StopNotify \/ StopJoin)
  /\ \A s \in Submitters : WF_vars(SubmitNotify(s))

FairSpec == Spec /\ Fairness

-----------------------------------------------------------------------------

WorkerLabels == {"none", "loop", "lock", "block", "waiting", "expired",
                 "awake", "take", "connect", "io", "failed", "retry_lock",
                 "retry_block", "retry_waiting", "exit", "done"}

TypeOK ==
  /\ running \in BOOLEAN /\ connected \in BOOLEAN /\ open \in BOOLEAN
  /\ pending \in Seq(Request)
  /\ op \in Request \cup {NoRequest}
  /\ wpc \in WorkerLabels
  /\ cpc \in {"idle", "spawn", "notify", "join"}
  /\ spc \in [Submitters -> {"idle", "notify"}]
  /\ count \in [Submitters -> 0 .. MaxSubmit]
  /\ starts \in 0 .. MaxStarts
  /\ submitted \in Seq(Request)
  /\ outcomes \in Seq(Outcome)
  /\ late \in Nat

InHand == IF op = NoRequest THEN << >> ELSE <<op>>
Answered == [i \in 1 .. Len(outcomes) |-> outcomes[i].req]

\* Every accepted request is in exactly one place: answered, in the worker's
\* hands, or pending; and the three, one after the other, are the order of
\* submission.  No stop, restart, failure or retry loses, repeats or overtakes
\* a request (pending_ops_ and `op' in worker_loop, lines 110-137).
ExactlyOnceInOrder == submitted = Answered \o InHand \o pending

\* Whoever submits requests and listens on the bus sees a RequestService: a
\* line of requests answered from its front.  The worker, its connection, its
\* retries and stop() change when an answer comes, never which one is next
\* (worker_loop, lines 94-137; what MessageFlow has of a device runtime).
Service == INSTANCE RequestService
             WITH Possible <- {r \in Request : r.kind = "valid"},
                  waiting <- InHand \o pending
ImplementsService == Service!Spec

\* A submit cannot sleep through: while the worker waits and requests are
\* pending, a submitter is about to notify (lines 69-73 against 100-103).
NoLostSubmit ==
  wpc = "waiting" /\ pending # << >> =>
    \E s \in Submitters : spc[s] = "notify"

\* When stop() has returned there is no worker, no request is half done and
\* the device is disconnected (lines 53-65 with the worker's exit, line 140).
StoppedIsQuiet ==
  cpc = "idle" /\ ~running => wpc = "none" /\ op = NoRequest /\ ~open

\* I/O happens on an open connection only, and after a failed request the
\* worker never goes back to work on the old connection: it reconnects first
\* (ensure_connected and mark_disconnected, lines 133-137 and 144-170).
FreshLinkAfterFailure ==
  /\ wpc = "io" => open
  /\ \/ outcomes = << >>
     \/ outcomes[Len(outcomes)].ok
     \/ wpc \in {"failed", "io"}
     \/ ~open

\* stop() waits for one more request at most: the check of running_ and the
\* look at the queue are two steps (lines 105 and 110), so a request can still
\* be taken after stop() cleared running_, but never a second one.
AtMostOneLate == late <= 1

\* stop() returns, although its notify_all can miss a worker between its
\* predicate and its wait: the timeouts of the waits are what saves it.
StopReturns == cpc = "notify" ~> cpc = "idle"

\* A pending request is answered unless the runtime is stopped first, and the
\* one in the worker's hands is answered whatever happens, a stop() included; a
\* failing device only delays the requests behind the failed one (worker_loop,
\* lines 110-137).
PendingIsAnswered ==
  \A s \in Submitters : \A n \in 1 .. MaxSubmit :
    LET Is(req) == req.from = s /\ req.n = n
        IsPending == \E i \in 1 .. Len(pending) : Is(pending[i])
        IsInHand == op # NoRequest /\ Is(op)
        IsAnswered == \E i \in 1 .. Len(outcomes) : Is(outcomes[i].req)
    IN /\ IsPending ~> IsAnswered \/ ~running
       /\ IsInHand ~> IsAnswered
=============================================================================
