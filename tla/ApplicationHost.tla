-------------------------- MODULE ApplicationHost --------------------------
(***************************************************************************)
(* core/application/host/ApplicationHost.{h,cpp} with the EventLoop and    *)
(* the EventBus it owns: the life cycle init / run / stop / destroy.       *)
(*                                                                         *)
(* The main thread runs the event loop; in a handler or outside init() and *)
(* run() it may call stop(), and it calls destroy() when run() has         *)
(* returned.  Another thread may call stop() at any time: before, in and   *)
(* after init(), run() and destroy().  The sub-modules own worker threads  *)
(* that publish on the bus until their stop() has joined them.  The flags  *)
(* of the host are plain booleans without a lock: every access that        *)
(* another thread can notice is a step.                                    *)
(***************************************************************************)
EXTENDS Integers, Sequences, SequencesExt

CONSTANTS
  Main,        \* the thread that calls init(), run() and destroy()
  Other,       \* the other thread that may call stop()
  NoThread,    \* nobody is stopping a module
  MaxRuns,     \* bound: calls of run()
  MaxStops,    \* bound: calls of stop() by each thread
  MaxEvents    \* bound: events published by each source

Threads == {Main, Other}
Modules == {"http", "http_client", "modbus"}
Sources == Modules \cup {"loop"}

ASSUME HostAssumption ==
  /\ Main # Other /\ NoThread \notin Threads
  /\ MaxRuns \in Nat /\ MaxStops \in Nat /\ MaxEvents \in Nat

VARIABLES
  initialized, stopped, destroyed,  \* the host's flags
  module,     \* the state of each sub-module and its worker
  stopper,    \* the thread that is joining a module's worker
  business,   \* the business modules and the timers exist
  queue,      \* the bus: each event is named by its source, or "shutdown"
  mpc,        \* where the main thread is in init() or in EventLoop::run()
  spc,        \* where each thread is in stop()
  dpc,        \* where the main thread is in destroy()
  runs,       \* calls of run()
  stops,      \* calls of stop() by each thread
  events,     \* events published by each source
  asked,      \* history: a stop() has returned since run() was last entered
  overlapped, \* history: two stop() calls have both been at the modules
  early       \* history: a stop() went to the modules before init() was over

flags == <<initialized, stopped, destroyed>>
counters == <<runs, stops, events>>
history == <<asked, overlapped, early>>
vars == <<flags, module, stopper, business, queue, mpc, spc, dpc, counters,
          history>>

\* The constructor builds the modules; the HTTP client's worker starts there.
Init ==
  /\ initialized = FALSE /\ stopped = FALSE /\ destroyed = FALSE
  /\ module = [m \in Modules |-> IF m = "http_client" THEN "up" ELSE "built"]
  /\ stopper = [m \in Modules |-> NoThread]
  /\ business = TRUE
  /\ queue = << >>
  /\ mpc = "idle"
  /\ spc = [t \in Threads |-> "out"]
  /\ dpc = "out"
  /\ runs = 0
  /\ stops = [t \in Threads |-> 0]
  /\ events = [s \in Sources |-> 0]
  /\ asked = FALSE
  /\ overlapped = FALSE /\ early = FALSE

InLoop == mpc \in {"timers", "wait", "dispatch"}
Free(t) == spc[t] = "out" /\ (t = Main => dpc = "out")

Publish(source) ==
  /\ events[source] < MaxEvents
  /\ queue' = Append(queue, source)
  /\ events' = [events EXCEPT ![source] = @ + 1]

-----------------------------------------------------------------------------
(* Slips: wrong variants of definitions below, each a mistake the code could *)
(* plausibly have made.  No specification uses them; put in the place of the *)
(* right definition, each makes the property named with it fail.             *)

\* stop() publishes an event the bus does not know (TypeOK).
StopPublishUnknown(t) ==
  /\ spc[t] = "publish"
  /\ queue' = Append(queue, "stop")
  /\ spc' = [spc EXCEPT ![t] = "flag"]
  /\ UNCHANGED <<flags, module, stopper, business, mpc, dpc, counters, history>>

\* stop() forgets the Modbus module (ResultsBeforeShutdown).
StopOrderWithoutModbus == [test |-> "http", http |-> "http_client",
                           http_client |-> "publish", modbus |-> "publish"]

\* destroy() releases without calling stop() first (NothingUsedAfterFree).
DestroyUnstopped ==
  /\ mpc = "idle"
  /\ Free(Main)
  /\ ~destroyed
  /\ dpc' = "business"
  /\ UNCHANGED <<flags, module, stopper, business, queue, mpc, spc, counters,
                 history>>

\* EventBus::clear() leaves the queue as it is (DestroyedIsEmpty).
DestroyKeepsQueue ==
  /\ dpc = "clear"
  /\ destroyed' = TRUE
  /\ dpc' = "out"
  /\ UNCHANGED <<initialized, stopped, module, stopper, business, queue, mpc,
                 spc, counters, history>>

\* run() starts with an empty bus and loses a SHUTDOWN (FirstRunEnds).
RunOnFreshBus ==
  /\ mpc = "idle"
  /\ Free(Main)
  /\ initialized /\ ~destroyed
  /\ runs < MaxRuns
  /\ queue' = << >>
  /\ mpc' = "timers"
  /\ runs' = runs + 1
  /\ asked' = FALSE
  /\ UNCHANGED <<flags, module, stopper, business, spc, dpc, stops, events,
                 overlapped, early>>

-----------------------------------------------------------------------------
(* init(), run() and the workers                                           *)

InitHost ==
  /\ mpc = "idle" /\ Free(Main)
  /\ ~destroyed /\ ~initialized
  /\ mpc' = "init_modbus"
  /\ UNCHANGED <<flags, module, stopper, business, queue, spc, dpc, counters,
                 history>>

\* ModbusMasterModule::start(), whether or not somebody has called stop().
InitModbus ==
  /\ mpc = "init_modbus"
  /\ module' = [module EXCEPT !["modbus"] = "up"]
  /\ mpc' = "init_http"
  /\ UNCHANGED <<flags, stopper, business, queue, spc, dpc, counters, history>>

\* The HTTP server may fail to bind; init() is over all the same.
InitHttp ==
  /\ mpc = "init_http"
  /\ \E http \in {"up", "down"} : module' = [module EXCEPT !["http"] = http]
  /\ initialized' = TRUE
  /\ mpc' = "idle"
  /\ UNCHANGED <<stopped, destroyed, stopper, business, queue, spc, dpc,
                 counters, history>>

Run ==
  /\ mpc = "idle" /\ Free(Main)
  /\ initialized /\ ~destroyed
  /\ runs < MaxRuns
  /\ mpc' = "timers"
  /\ runs' = runs + 1
  /\ asked' = FALSE
  /\ UNCHANGED <<flags, module, stopper, business, queue, spc, dpc, stops,
                 events, overlapped, early>>

loopUnchanged == <<flags, module, stopper, business, dpc, runs, history>>

\* A due timer may publish.
Timers ==
  /\ mpc = "timers"
  /\ Free(Main)
  /\ Publish("loop") \/ UNCHANGED <<queue, events>>
  /\ mpc' = "wait"
  /\ UNCHANGED <<loopUnchanged, spc, stops>>

WaitAndGet ==
  /\ mpc = "wait"
  /\ IF queue = << >>
       THEN mpc' = "timers" /\ UNCHANGED queue
       ELSE /\ queue' = Tail(queue)
            /\ mpc' = IF Head(queue) = "shutdown" THEN "idle" ELSE "dispatch"
  /\ UNCHANGED <<loopUnchanged, spc, stops, events>>

\* The handlers of the event: they may publish or call stop().
Dispatch ==
  /\ mpc = "dispatch"
  /\ Free(Main)
  /\ \/ Publish("loop") /\ UNCHANGED <<spc, stops>>
     \/ /\ stops[Main] < MaxStops
        /\ spc' = [spc EXCEPT ![Main] = "test"]
        /\ stops' = [stops EXCEPT ![Main] = @ + 1]
        /\ UNCHANGED <<queue, events>>
     \/ UNCHANGED <<queue, events, spc, stops>>
  /\ mpc' = "timers"
  /\ UNCHANGED loopUnchanged

\* A worker publishes a result or a request; a module that is being stopped
\* still finishes what its worker has in hand.
WorkerPublish(m) ==
  /\ module[m] \in {"up", "stopping"}
  /\ Publish(m)
  /\ UNCHANGED <<flags, module, stopper, business, mpc, spc, dpc, runs, stops,
                 history>>

-----------------------------------------------------------------------------
(* stop()                                                                  *)

StopOrder == [test |-> "http", http |-> "http_client",
              http_client |-> "modbus", modbus |-> "publish"]

GoStop(t, to) == spc' = [spc EXCEPT ![t] = to]

Stop(t) ==
  /\ Free(t)
  /\ t = Main => mpc = "idle"
  /\ stops[t] < MaxStops
  /\ stops' = [stops EXCEPT ![t] = @ + 1]
  /\ GoStop(t, "test")
  /\ UNCHANGED <<flags, module, stopper, business, queue, mpc, dpc, runs,
                 events, history>>

\* t is past the test of stopped_ and has something left to do there that a
\* second stop() or destroy() can upset.  The thread that only has the flag
\* left to set is harmless, unless it is the main thread, which may destroy.
AtModules(t) == \/ spc[t] \in Modules \cup {"publish"}
                \/ spc[t] = "flag" /\ t = Main

StopTest(t) ==
  /\ spc[t] = "test"
  /\ IF stopped
       THEN /\ GoStop(t, "out")
            /\ asked' = InLoop
            /\ UNCHANGED <<overlapped, early>>
       ELSE /\ GoStop(t, StopOrder["test"])
            /\ overlapped' = (overlapped \/ \E u \in Threads \ {t} : AtModules(u))
            /\ early' = (early \/ ~initialized)
            /\ UNCHANGED asked
  /\ UNCHANGED <<flags, module, stopper, business, queue, mpc, dpc, counters>>

\* The stop() of one module: the first caller makes the worker end ...
StopModule(t, m) ==
  /\ spc[t] = m
  /\ module[m] = "up"
  /\ module' = [module EXCEPT ![m] = "stopping"]
  /\ stopper' = [stopper EXCEPT ![m] = t]
  /\ UNCHANGED <<flags, business, queue, mpc, spc, dpc, counters, history>>

\* ... and joins it ...
JoinModule(t, m) ==
  /\ spc[t] = m
  /\ module[m] = "stopping"
  /\ stopper[m] = t
  /\ module' = [module EXCEPT ![m] = "down"]
  /\ GoStop(t, StopOrder[m])
  /\ UNCHANGED <<flags, stopper, business, queue, mpc, dpc, counters, history>>

\* ... and any later caller returns at once, joined or not.
SkipModule(t, m) ==
  /\ spc[t] = m
  /\ \/ module[m] \in {"built", "down", "freed"}
     \/ module[m] = "stopping" /\ stopper[m] # t
  /\ GoStop(t, StopOrder[m])
  /\ UNCHANGED <<flags, module, stopper, business, queue, mpc, dpc, counters,
                 history>>

\* loop_.stop()
StopPublish(t) ==
  /\ spc[t] = "publish"
  /\ queue' = Append(queue, "shutdown")
  /\ GoStop(t, "flag")
  /\ UNCHANGED <<flags, module, stopper, business, mpc, dpc, counters, history>>

StopFlag(t) ==
  /\ spc[t] = "flag"
  /\ stopped' = TRUE
  /\ asked' = InLoop
  /\ GoStop(t, "out")
  /\ UNCHANGED <<initialized, destroyed, module, stopper, business, queue, mpc,
                 dpc, counters, overlapped, early>>

-----------------------------------------------------------------------------
(* destroy()                                                               *)

Destroy ==
  /\ Free(Main) /\ mpc = "idle"
  /\ ~destroyed
  /\ dpc' = "business"
  /\ GoStop(Main, "test")
  /\ UNCHANGED <<flags, module, stopper, business, queue, mpc, counters, history>>

\* Steps 2 and 3: what the event loop calls into.
DestroyBusiness ==
  /\ dpc = "business" /\ spc[Main] = "out"
  /\ business' = FALSE
  /\ dpc' = "modules"
  /\ UNCHANGED <<flags, module, stopper, queue, mpc, spc, counters, history>>

\* Steps 4 and 5; a module that is still up is joined by its destructor.
DestroyModules ==
  /\ dpc = "modules"
  /\ module' = [m \in Modules |-> "freed"]
  /\ dpc' = "clear"
  /\ UNCHANGED <<flags, stopper, business, queue, mpc, spc, counters, history>>

\* Step 6: EventBus::clear() removes the subscribers and the queued events.
DestroyClear ==
  /\ dpc = "clear"
  /\ queue' = << >>
  /\ destroyed' = TRUE
  /\ dpc' = "out"
  /\ UNCHANGED <<initialized, stopped, module, stopper, business, mpc, spc,
                 counters, history>>

-----------------------------------------------------------------------------

InitStep == InitModbus \/ InitHttp

LoopStep == Timers \/ WaitAndGet \/ Dispatch

StopStep(t) ==
  \/ StopTest(t) \/ StopPublish(t) \/ StopFlag(t)
  \/ \E m \in Modules : StopModule(t, m) \/ JoinModule(t, m) \/ SkipModule(t, m)

DestroyStep == DestroyBusiness \/ DestroyModules \/ DestroyClear

Next ==
  \/ InitHost \/ InitStep \/ Run \/ LoopStep
  \/ \E m \in Modules : WorkerPublish(m)
  \/ \E t \in Threads : Stop(t) \/ StopStep(t)
  \/ Destroy \/ DestroyStep

Spec == Init /\ [][Next]_vars

\* A thread goes on with the call it is in; nobody has to make a call, and no
\* worker has to publish.
Fairness ==
  /\ WF_vars(InitStep)
  /\ WF_vars(LoopStep)
  /\ \A t \in Threads : WF_vars(StopStep(t))
  /\ WF_vars(DestroyStep)

FairSpec == Spec /\ Fairness

-----------------------------------------------------------------------------

TypeOK ==
  /\ initialized \in BOOLEAN /\ stopped \in BOOLEAN /\ destroyed \in BOOLEAN
  /\ module \in [Modules -> {"built", "up", "stopping", "down", "freed"}]
  /\ stopper \in [Modules -> Threads \cup {NoThread}]
  /\ business \in BOOLEAN
  /\ queue \in Seq(Sources \cup {"shutdown"})
  /\ mpc \in {"idle", "init_modbus", "init_http", "timers", "wait", "dispatch"}
  /\ spc \in [Threads -> Modules \cup {"out", "test", "publish", "flag"}]
  /\ dpc \in {"out", "business", "modules", "clear"}
  /\ runs \in 0 .. MaxRuns
  /\ stops \in [Threads -> 0 .. MaxStops]
  /\ events \in [Sources -> 0 .. MaxEvents]
  /\ asked \in BOOLEAN /\ overlapped \in BOOLEAN /\ early \in BOOLEAN

\* When run() returns, every result a worker published has been dispatched:
\* stop() publishes SHUTDOWN after the workers are joined (ApplicationHost.cpp,
\* lines 122-134), and the bus is FIFO.  It takes stop() calls that neither
\* overlap, as a second caller does not wait for the join the first is in, nor
\* go to the modules before init() is over: such a stop() leaves its SHUTDOWN
\* on the bus and init() starts the workers all the same.
ResultsBeforeShutdown ==
  runs > 0 /\ ~InLoop /\ ~overlapped /\ ~early =>
    \A m \in Modules : ~Contains(queue, m) /\ module[m] \notin {"up", "stopping"}

\* Nobody works on what destroy() has released: no stop() is at the modules
\* and the loop, which calls the business modules and the timers, is not
\* running; for stop() calls that do not overlap, however early they came.
NothingUsedAfterFree ==
  ~overlapped =>
    /\ ~business => ~InLoop
    /\ \A t \in Threads : spc[t] \in Modules => module[spc[t]] # "freed"

\* A destroyed host leaves an empty bus behind (comment on EventBus::clear):
\* neither a worker nor a late SHUTDOWN refills it.
DestroyedIsEmpty ==
  destroyed /\ ~overlapped => queue = << >>

\* The first run() returns once a stop() has run to its end, whichever thread
\* called it: before init(), between init() and run(), or while run() blocks.
FirstRunEnds == stopped /\ runs = 1 ~> ~InLoop

\* ApplicationHost.h, lines 45-51: run() blocks until stop() is called, stop()
\* may be called repeatedly and run() may be called again after it.  The code
\* never resets stopped_, so in a second run() no stop() publishes SHUTDOWN.
EveryRunEnds == asked ~> ~InLoop
=============================================================================
