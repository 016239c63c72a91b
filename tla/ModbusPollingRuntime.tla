------------------------ MODULE ModbusPollingRuntime ------------------------
(***************************************************************************)
(* core/infrastructure/runtime/ModbusPollingRuntime.{h,cpp}: one worker    *)
(* thread that writes the control commands other threads submit and polls  *)
(* two registers of its device every poll interval.  A write that fails is *)
(* put back in front of the queue and retried after a delay; a poll that   *)
(* fails is skipped after a delay.  submit_write() reports no outcome.     *)
(*                                                                         *)
(* Writes are numbered in the order in which they enter pending_writes_.   *)
(* Of the clock, what is kept is whether next_poll_at has been reached.    *)
(***************************************************************************)
EXTENDS Integers, Sequences

CONSTANTS
  Submitters,  \* threads that call submit_write()
  MaxWrites,   \* bound: writes submitted
  MaxStarts    \* bound: calls of start() that start a worker

ASSUME PollingAssumption == MaxWrites \in Nat /\ MaxStarts \in Nat

NoWrite == 0
Writes == 1 .. MaxWrites

VARIABLES
  running,    \* running_
  connected,  \* connected_; the adapter's connection is open with it
  pending,    \* pending_writes_
  cmd,        \* write_cmd, the write in the worker's hands
  due,        \* clock::now() >= next_poll_at
  polling,    \* the worker is inside perform_poll() or the delay after it
  wpc,        \* where the worker is; "none" when there is no thread
  cpc,        \* where the controller is in start() or stop()
  spc,        \* where each submitter is
  starts,     \* workers started
  submitted,  \* history: writes that entered pending_writes_
  acked,      \* history: writes the adapter reported as done
  register    \* history: the last write the device has carried out

control == <<cpc, starts>>
queueing == <<spc, submitted>>
device == <<acked, register>>
vars == <<running, connected, pending, cmd, due, polling, wpc, cpc, spc,
          starts, submitted, acked, register>>

Init ==
  /\ running = FALSE /\ connected = FALSE
  /\ pending = << >> /\ cmd = NoWrite
  /\ due = FALSE /\ polling = FALSE
  /\ wpc = "none" /\ cpc = "idle"
  /\ spc = [s \in Submitters |-> "idle"]
  /\ starts = 0 /\ submitted = 0 /\ acked = 0 /\ register = 0

WorkerHoldsMutex == wpc \in {"awake", "block", "retry_block"}

Woken(label) == IF label = "waiting" THEN "lock"
                ELSE IF label = "retry_waiting" THEN "retry_lock"
                ELSE label

-----------------------------------------------------------------------------
(* Slips: wrong variants of definitions below, each a mistake the code could *)
(* plausibly have made.  No specification uses them; put in the place of the *)
(* right definition, each makes the property named with it fail.             *)

\* A write that failed is put at the end of the queue (RegisterIsCurrent).
RequeueLast ==
  /\ wpc = "failed" /\ ~polling
  /\ pending' = Append(pending, cmd)
  /\ cmd' = NoWrite
  /\ wpc' = "retry_lock"
  /\ UNCHANGED <<running, connected, due, polling, control, queueing, device>>

\* A write is taken before running_ is looked at, and lost when the worker
\* has to leave (InOrderOnce).
TakeAtOnce ==
  /\ wpc = "awake"
  /\ pending' = IF pending = << >> THEN pending ELSE Tail(pending)
  /\ cmd' = IF pending = << >> \/ ~running THEN NoWrite ELSE Head(pending)
  /\ wpc' = IF ~running THEN "exit"
            ELSE IF pending = << >> THEN "poll_test" ELSE "connect"
  /\ UNCHANGED <<running, connected, due, polling, control, queueing, device>>

\* next_poll_at is not set again after a poll (DuePollIsServed).
PollAgainAtOnce ==
  /\ wpc = "polled"
  /\ polling' = FALSE
  /\ wpc' = "loop"
  /\ UNCHANGED <<running, connected, pending, cmd, due, control, queueing,
                 device>>

\* wait() instead of wait_for() for the retry delay (StopReturns).
RetryForever == FALSE

-----------------------------------------------------------------------------
(* start(), stop() and submit_write()                                      *)

\* running_.exchange(true); the new worker computes its own next_poll_at.
Start ==
  /\ cpc = "idle" /\ ~running /\ starts < MaxStarts
  /\ running' = TRUE
  /\ starts' = starts + 1
  /\ cpc' = "spawn"
  /\ UNCHANGED <<connected, pending, cmd, due, polling, wpc, queueing, device>>

Spawn ==
  /\ cpc = "spawn"
  /\ wpc' = "loop"
  /\ due' = FALSE
  /\ cpc' = "idle"
  /\ UNCHANGED <<running, connected, pending, cmd, polling, starts, queueing,
                 device>>

Stop ==
  /\ cpc = "idle" /\ running
  /\ running' = FALSE
  /\ cpc' = "notify"
  /\ UNCHANGED <<connected, pending, cmd, due, polling, wpc, starts, queueing,
                 device>>

\* notify_all() without the mutex.
StopNotify ==
  /\ cpc = "notify"
  /\ wpc' = Woken(wpc)
  /\ cpc' = "join"
  /\ UNCHANGED <<running, connected, pending, cmd, due, polling, starts,
                 queueing, device>>

StopJoin ==
  /\ cpc = "join" /\ wpc = "done"
  /\ wpc' = "none"
  /\ cpc' = "idle"
  /\ UNCHANGED <<running, connected, pending, cmd, due, polling, starts,
                 queueing, device>>

\* submit_write() is accepted in every state, also before start().
Submit(s) ==
  /\ spc[s] = "idle" /\ submitted < MaxWrites /\ ~WorkerHoldsMutex
  /\ submitted' = submitted + 1
  /\ pending' = Append(pending, submitted + 1)
  /\ spc' = [spc EXCEPT ![s] = "notify"]
  /\ UNCHANGED <<running, connected, cmd, due, polling, wpc, control, device>>

SubmitNotify(s) ==
  /\ spc[s] = "notify"
  /\ wpc' = Woken(wpc)
  /\ spc' = [spc EXCEPT ![s] = "idle"]
  /\ UNCHANGED <<running, connected, pending, cmd, due, polling, control,
                 submitted, device>>

-----------------------------------------------------------------------------
(* worker_loop(): wait for a write or for the time to poll                 *)

\* Steps that only move the worker.
Stay == UNCHANGED <<running, connected, pending, cmd, due, polling, control,
                    queueing, device>>

LoopTest ==
  /\ wpc = "loop"
  /\ wpc' = IF running THEN "lock" ELSE "exit"
  /\ Stay

\* Take the mutex; wait_until() evaluates its predicate before it blocks.
WaitTest ==
  /\ wpc = "lock"
  /\ wpc' = IF pending # << >> \/ ~running THEN "awake" ELSE "block"
  /\ Stay

WaitBlock == wpc = "block" /\ wpc' = "waiting" /\ Stay

WaitTimeout == wpc = "waiting" /\ due /\ wpc' = "expired" /\ Stay

WaitExpired == wpc = "expired" /\ wpc' = "awake" /\ Stay

\* Lines 91-101, all inside the mutex.
Take ==
  /\ wpc = "awake"
  /\ \/ /\ ~running
        /\ wpc' = "exit"
        /\ UNCHANGED <<pending, cmd>>
     \/ /\ running /\ pending = << >>
        /\ wpc' = "poll_test"
        /\ UNCHANGED <<pending, cmd>>
     \/ /\ running /\ pending # << >>
        /\ cmd' = Head(pending)
        /\ pending' = Tail(pending)
        /\ wpc' = "connect"
  /\ UNCHANGED <<running, connected, due, polling, control, queueing, device>>

-----------------------------------------------------------------------------
(* perform_write(), perform_poll() and the delay after a failure           *)

\* ensure_connected(), for a write and for a poll.
Connect ==
  /\ wpc = "connect"
  /\ \/ /\ connected' = TRUE
        /\ wpc' = "io"
     \/ /\ ~connected
        /\ wpc' = "failed"
        /\ UNCHANGED connected
  /\ UNCHANGED <<running, pending, cmd, due, polling, control, queueing,
                 device>>

\* Lines 202-211.  When the adapter reports a failure the device may or may
\* not have carried the write out: the request or its answer was lost.
DoWrite ==
  /\ wpc = "io" /\ ~polling
  /\ \/ /\ register' = cmd
        /\ acked' = acked + 1
        /\ cmd' = NoWrite
        /\ wpc' = "poll_test"
        /\ UNCHANGED connected
     \/ /\ register' \in {register, cmd}
        /\ connected' = FALSE
        /\ wpc' = "failed"
        /\ UNCHANGED <<cmd, acked>>
  /\ UNCHANGED <<running, pending, due, polling, control, queueing>>

\* Lines 108-113: back to the front of the queue.
Requeue ==
  /\ wpc = "failed" /\ ~polling
  /\ pending' = <<cmd>> \o pending
  /\ cmd' = NoWrite
  /\ wpc' = "retry_lock"
  /\ UNCHANGED <<running, connected, due, polling, control, queueing, device>>

\* Line 121; reached with no write pending or after a write that succeeded,
\* never after one that failed (the `continue' of line 116).
PollTest ==
  /\ wpc = "poll_test"
  /\ polling' = due
  /\ wpc' = IF due THEN "connect" ELSE "loop"
  /\ UNCHANGED <<running, connected, pending, cmd, due, control, queueing,
                 device>>

\* Lines 169-192; no adapter succeeds with fewer registers than were asked
\* for, so lines 177-181 have no case of their own.
DoPoll ==
  /\ wpc = "io" /\ polling
  /\ \/ /\ wpc' = "polled"
        /\ UNCHANGED connected
     \/ /\ connected' = FALSE
        /\ wpc' = "failed"
  /\ UNCHANGED <<running, pending, cmd, due, polling, control, queueing,
                 device>>

PollFailed == wpc = "failed" /\ polling /\ wpc' = "retry_lock" /\ Stay

\* Line 128.
Polled ==
  /\ wpc = "polled"
  /\ due' = FALSE
  /\ polling' = FALSE
  /\ wpc' = "loop"
  /\ UNCHANGED <<running, connected, pending, cmd, control, queueing, device>>

\* wait_retry_delay(): only stop() ends it early.
AfterDelay == IF polling THEN "polled" ELSE "loop"

RetryTest ==
  /\ wpc = "retry_lock"
  /\ wpc' = IF running THEN "retry_block" ELSE AfterDelay
  /\ Stay

RetryBlock == wpc = "retry_block" /\ wpc' = "retry_waiting" /\ Stay

RetryTimeout == wpc = "retry_waiting" /\ wpc' = AfterDelay /\ Stay

\* Line 132.
Exit ==
  /\ wpc = "exit"
  /\ connected' = FALSE
  /\ wpc' = "done"
  /\ UNCHANGED <<running, pending, cmd, due, polling, control, queueing,
                 device>>

PollFallsDue ==
  /\ ~due /\ wpc # "none"
  /\ due' = TRUE
  /\ UNCHANGED <<running, connected, pending, cmd, polling, wpc, control,
                 queueing, device>>

-----------------------------------------------------------------------------

WorkerStep ==
  \/ LoopTest \/ WaitTest \/ WaitBlock \/ WaitExpired \/ Take \/ Connect
  \/ DoWrite \/ Requeue \/ PollTest \/ DoPoll \/ PollFailed \/ Polled
  \/ RetryTest \/ RetryBlock \/ Exit

Timeouts == WaitTimeout \/ RetryTimeout

Next ==
  \/ Start \/ Spawn \/ Stop \/ StopNotify \/ StopJoin
  \/ \E s \in Submitters : Submit(s) \/ SubmitNotify(s)
  \/ WorkerStep
  \/ Timeouts
  \/ PollFallsDue

Spec == Init /\ [][Next]_vars

\* The worker goes on, time passes, a wait ends at the latest with its
\* timeout, and calls that were made are finished.  The device owes nothing.
Fairness ==
  /\ WF_vars(WorkerStep)
  /\ WF_vars(Timeouts)
  /\ WF_vars(PollFallsDue)
  /\ WF_vars(Spawn \/ StopNotify \/ StopJoin)
  /\ \A s \in Submitters : WF_vars(SubmitNotify(s))

FairSpec == Spec /\ Fairness

-----------------------------------------------------------------------------

TypeOK ==
  /\ running \in BOOLEAN /\ connected \in BOOLEAN
  /\ due \in BOOLEAN /\ polling \in BOOLEAN
  /\ pending \in Seq(Writes)
  /\ cmd \in Writes \cup {NoWrite}
  /\ wpc \in {"none", "loop", "lock", "block", "waiting", "expired", "awake",
              "connect", "io", "failed", "poll_test", "polled", "retry_lock",
              "retry_block", "retry_waiting", "exit", "done"}
  /\ cpc \in {"idle", "spawn", "notify", "join"}
  /\ spc \in [Submitters -> {"idle", "notify"}]
  /\ starts \in 0 .. MaxStarts
  /\ submitted \in 0 .. MaxWrites
  /\ acked \in Nat
  /\ register \in Writes \cup {NoWrite}

InHand == IF cmd = NoWrite THEN << >> ELSE <<cmd>>

\* The writes that are not acknowledged are, in the order of submission, the
\* one in the worker's hands and those in the queue: a failed write goes back
\* to the front, so a retry, a reconnect, a stop or a restart neither loses
\* nor doubles nor overtakes a write (lines 96-117).
InOrderOnce ==
  InHand \o pending = [i \in 1 .. submitted - acked |-> acked + i]

\* The device has carried out the last acknowledged write or the one after
\* it, whose answer was lost: a write that is repeated never puts an older
\* command back over a newer one (lines 106-117 with 202-210).
RegisterIsCurrent == register \in {acked, acked + 1} \cap 0 .. submitted

\* Unless writes fail again and again, a poll that is due is carried out (or
\* tried), however many writes there are; while writes fail it is not, since
\* the loop starts over before it looks at the time (line 116).
DuePollIsServed ==
  <>[](polling \/ wpc # "failed") =>
    [](due /\ running => <>(~due \/ ~running))

\* stop() returns from every wait of the worker, also when its notify_all
\* falls between a predicate and the wait (lines 46-56 with 86 and 217).
StopReturns == cpc = "notify" ~> cpc = "idle"
=============================================================================
