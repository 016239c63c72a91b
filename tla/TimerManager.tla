---------------------------- MODULE TimerManager ----------------------------
(***************************************************************************)
(* The periodic timers (TimerManager.h) and the loop that serves them      *)
(* (EventLoop.h).  One pass of the loop calls the timers that are due,     *)
(* waits for an event, and handles at most one.                            *)
(*                                                                         *)
(* The clock is an integer.  How long a pass may take is not in the code:  *)
(* ProcessTime bounds all callbacks of a pass together, WaitTime the wait  *)
(* (50 ms and the wakeup), HandlerTime the handlers of one event.          *)
(***************************************************************************)
EXTENDS Integers, Sequences

CONSTANTS
  Intervals,     \* set of the intervals of timers
  ProcessTime, WaitTime, HandlerTime,
  MaxTimers,     \* bound: timers added; the code has no limit
  MaxTime,       \* bound: the clock
  MaxBacklog     \* bound: events in the queue when another thread publishes

ASSUME DurationsAssumption ==
  /\ Intervals \subseteq Nat \ {0}
  /\ {ProcessTime, WaitTime, HandlerTime} \subseteq Nat
  /\ {MaxTimers, MaxTime, MaxBacklog} \subseteq Nat

VARIABLES
  now,      \* steady_clock
  timers,   \* timers_: interval and next_run, in the order they were added
  lpc,      \* "setup" before run(), "read", "process", "wait", "handle"
  read,     \* now as read by process()
  at,       \* the timer process() looks at
  spent,    \* time since the phase began
  backlog,  \* events in the queue
  started,  \* when the loop was started
  last      \* when the callback of each timer was last called (or added)

timing == <<now, timers, lpc, read, at, spent, backlog, started, last>>

InitTimers ==
  /\ now = 0 /\ timers = << >> /\ lpc = "setup" /\ read = 0 /\ at = 1
  /\ spent = 0 /\ backlog = 0 /\ started = 0 /\ last = << >>

-----------------------------------------------------------------------------
(* Slips: wrong variants of definitions below, each a mistake the code could *)
(* plausibly have made.  No specification uses them; put in the place of the *)
(* right definition, each makes the property named with it fail.             *)

\* Missed periods are made up for (TickSpacing).
CatchUp(timer) == timer.next + timer.interval

\* The queue is emptied before the timers are looked at (TickDelay).
DrainFirst ==
  /\ lpc = "handle"
  /\ lpc' = IF backlog > 0 THEN "wait" ELSE "read"
  /\ spent' = 0
  /\ UNCHANGED <<now, timers, read, at, backlog, started, last>>

-----------------------------------------------------------------------------
(* TimerManager                                                            *)

\* add_periodic_timer(), before the loop runs.
Add ==
  /\ lpc = "setup" /\ Len(timers) < MaxTimers
  /\ \E i \in Intervals :
       timers' = Append(timers, [interval |-> i, next |-> now + i])
  /\ last' = Append(last, now)
  /\ UNCHANGED <<now, lpc, read, at, spent, backlog, started>>

\* process() reads the clock once.
ReadClock ==
  /\ lpc = "read"
  /\ read' = now
  /\ at' = 1
  /\ lpc' = "process"
  /\ spent' = 0
  /\ UNCHANGED <<now, timers, backlog, started, last>>

Rescheduled(timer) == read + timer.interval

\* timer.callback(), which publishes a tick, and the next_run after it.
Fire ==
  /\ lpc = "process" /\ at <= Len(timers)
  /\ read >= timers[at].next
  /\ backlog' = backlog + 1
  /\ timers' = [timers EXCEPT ![at].next = Rescheduled(timers[at])]
  /\ last' = [last EXCEPT ![at] = now]
  /\ at' = at + 1
  /\ UNCHANGED <<now, lpc, read, spent, started>>

NotDue ==
  /\ lpc = "process" /\ at <= Len(timers)
  /\ read < timers[at].next
  /\ at' = at + 1
  /\ UNCHANGED <<now, timers, lpc, read, spent, backlog, started, last>>

-----------------------------------------------------------------------------
(* EventLoop                                                               *)

Run ==
  /\ lpc = "setup"
  /\ started' = now
  /\ lpc' = "read"
  /\ spent' = 0
  /\ UNCHANGED <<now, timers, read, at, backlog, last>>

\* process() returns and wait_and_get() is called.
Wait ==
  /\ lpc = "process" /\ at > Len(timers)
  /\ lpc' = "wait"
  /\ spent' = 0
  /\ UNCHANGED <<now, timers, read, at, backlog, started, last>>

Take ==
  /\ lpc = "wait" /\ backlog > 0
  /\ backlog' = backlog - 1
  /\ lpc' = "handle"
  /\ spent' = 0
  /\ UNCHANGED <<now, timers, read, at, started, last>>

TimedOut ==
  /\ lpc = "wait" /\ backlog = 0 /\ spent = WaitTime
  /\ lpc' = "read"
  /\ spent' = 0
  /\ UNCHANGED <<now, timers, read, at, backlog, started, last>>

\* The handlers of the event return; they may have published.
Handled ==
  /\ lpc = "handle"
  /\ lpc' = "read"
  /\ spent' = 0
  /\ UNCHANGED <<now, timers, read, at, backlog, started, last>>

Publish ==
  /\ backlog < MaxBacklog
  /\ backlog' = backlog + 1
  /\ UNCHANGED <<now, timers, lpc, read, at, spent, started, last>>

-----------------------------------------------------------------------------

\* Time passes, in each phase of a pass no more than its bound.
Tick ==
  /\ now < MaxTime
  /\ \/ lpc = "setup" /\ spent < 1
     \/ lpc = "process" /\ spent < ProcessTime
     \/ lpc = "wait" /\ spent < WaitTime
     \/ lpc = "handle" /\ spent < HandlerTime
  /\ now' = now + 1
  /\ spent' = spent + 1
  /\ UNCHANGED <<timers, lpc, read, at, backlog, started, last>>

NextTimers ==
  \/ Add \/ Run \/ ReadClock \/ Fire \/ NotDue \/ Wait \/ Take \/ TimedOut
  \/ Handled \/ Publish \/ Tick

TimersSpec == InitTimers /\ [][NextTimers]_timing

-----------------------------------------------------------------------------

\* However late the loop is, no timer ticks in bursts: between two calls of a
\* callback lies its interval, less the time the callbacks before it took
\* after process() had read the clock.  Periods that were missed stay missed.
TickSpacing ==
  [][\A k \in DOMAIN last : last'[k] # last[k] =>
       last'[k] - last[k] >= timers[k].interval - ProcessTime]_timing

\* No timer is overdue by more than one pass and the process() after it, even
\* when the queue never gets empty: the loop returns to the timers after
\* every single event.
TickDelay ==
  lpc # "setup" =>
    \A k \in DOMAIN timers :
      LET due == IF timers[k].next > started THEN timers[k].next ELSE started
      IN now - due <= 2 * ProcessTime + WaitTime + HandlerTime
=============================================================================
