# A TLA+ model of eda_demo

eda_demo is an event-driven application skeleton in C++: one event loop, a bus
in front of it, and worker threads around it that do the blocking work (an HTTP
server, an HTTP client, one worker per Modbus device). Everything a worker
learns becomes an event on the bus; everything the application decides happens
in a handler on the loop's thread. This directory specifies that machinery,
checks it with TLC and proves its safety with TLAPS.

Contents: 1 inventory, 2 how the modules correspond to the code, 3 runs, 4
fairness, 5 proofs, 6 disagreements found, 7 what is not modelled, 8 what is left.

## 1. Inventory

Paths are relative to `src/core`.

| Component | State | Operations | Talks to |
|---|---|---|---|
| EventQueue (`runtime/bus/EventQueue.h`) | `queue_`, `mutex_`, `cv_` | push, wait_and_pop with timeout, clear | every thread that publishes; the loop |
| EventBus (`runtime/bus/EventBus.h`) | `subscribers_` (no lock), an EventQueue | subscribe, publish, dispatch, clear | everybody |
| EventLoop (`runtime/loop/EventLoop.h`) | none of its own | run: tick timers, wait 50 ms, dispatch; stop: publish SHUTDOWN | bus, timers |
| TimerManager (`runtime/scheduler/TimerManager.h`) | periodic timers with `next_run` | add_periodic_timer, process | loop, handlers |
| ApplicationHost (`application/host`) | `initialized_`, `stopped_`, `destroyed_`, all modules | init, run, stop, destroy | everything it owns |
| ModbusDeviceRuntime (`infrastructure/runtime`) | `pending_ops_`, `running_`, `connected_`, worker | start, stop, submit_read, submit_write | bus, Modbus adapter |
| ModbusPollingRuntime (`infrastructure/runtime`) | `pending_writes_`, `running_`, `connected_`, worker | start, stop, submit_write, poll | bus, Modbus adapter |
| ModbusMasterModule (`interfaces/modbus`) | `runtimes_`, map of device names | init, stop, routing of requests | bus, runtimes |
| Modbus adapters (`infrastructure/transport/modbus`) | libmodbus context, or tables of registers | connect, disconnect, reads and writes | a runtime |
| MongooseHttpClientAdapter (`infrastructure/transport/http`) | `running_`, `mgr_`, `pending_requests_`, a context per connection, worker | async_request, stop | HTTP client module, mongoose |
| HttpClientModule (`interfaces/http`) | an adapter | init, stop, callbacks that publish | bus, adapter |
| HTTP server: adapter, module, routes | `handlers_`, worker | register_route, start, stop | bus, device service |
| WebSocketModule (`interfaces/websocket`) | `clients_`, `pending_command_` | simulate_*, handlers | bus |
| Business modules, ControlService | little or none | handlers that publish | bus |
| Configuration and bootstrap (`bootstrap`) | configuration records | validate, build | host |

What is hard here, and what would make each part correct:

- **Queue.** `push()` notifies after it has released the mutex; the timed wait
  can expire in the same moment. Correct: no event sleeps in the queue while the
  loop sleeps too, a timeout is reported only when there is nothing to take, and
  one publisher's events stay in order.
- **Host.** Four calls from two threads over three plain flags. Correct: SHUTDOWN
  comes after the last result of every worker, nothing is used after `destroy()`
  has released it, a destroyed host leaves an empty bus, and every `run()` ends
  once `stop()` has been called.
- **Device runtime.** `stop()` clears an atomic and notifies without the mutex;
  failures interrupt a queue of requests. Correct: each request is answered once
  and in order, a failed connection is not used again, and `stop()` returns with
  a closed device.
- **HTTP client.** Deadline, response, error, close and `stop()` race for one
  pair of callbacks and one heap-allocated context. Correct: one callback at
  most, and exactly one for every request accepted while the adapter runs.
- **WebSocket module.** A single `pending_command_` and an unlocked client list
  are shared by two threads. Correct: a command is never older than the message
  it answers, and clients see every sample.
- **Routing.** A request passes the bus, a module, a worker and the bus again.
  Correct: it is in one place at a time and answered in the end, by failure
  where nobody is responsible.
- **Polling runtime.** A failed write is put back in front of the queue and may
  already have reached the device. Correct: writes keep their order through
  retries, stops and restarts, the device never falls back to an older command,
  and polling starves only while writes keep failing.
- **Modbus adapters.** A short answer leaves a half-filled buffer; a write can be
  carried out and its answer lost. Correct: values are complete or not reported,
  and each libmodbus context is freed once.
- **Timers.** A tick that comes late drops the periods it missed. Correct: no
  bursts, and a delay bounded by one pass of the loop.
- **HTTP server.** `stop()` frees the manager a worker is polling. Correct: the
  worker only polls a living manager, and no client is left hanging.
- **Bootstrap.** What validation accepts must be what the factories can build;
  two devices may have the same name.

`PROJECT.json` lists these hazards one by one, each at its line.

## 2. Modules and code

| Module | Models | Role |
|---|---|---|
| `EventChannel` | what the queue promises | abstract specification |
| `EventQueue` | `EventQueue.h` | implementation, one step per access to shared state |
| `RequestService` | what a device runtime promises to those who submit | abstract specification |
| `ModbusDeviceRuntime` | `ModbusDeviceRuntime.{h,cpp}` | implementation of `RequestService`: worker, submitters, controller |
| `MongooseHttpClientAdapter` | `MongooseHttpClientAdapter.{h,cpp}` and mongoose's event order | worker, caller, controller, network |
| `ApplicationHost` | `ApplicationHost.{h,cpp}`, `EventLoop.h`, `EventBus.h` | composition: host, loop, bus and the workers of the sub-modules |
| `TimerManager` | `TimerManager.h`, `EventLoop.h` | timers under the loop that serves them, with a clock |
| `ModbusPollingRuntime` | `ModbusPollingRuntime.{h,cpp}` | worker, submitters, controller, the device's register |
| `ModbusRequests` | `EventData.h`, the register tables | requests, results, what reading and writing a table means |
| `RegisterBank` | what a Modbus master promises | abstract specification |
| `ModbusMasterAdapters` | the three adapters, `perform_read` and `perform_write` of the worker | implementation of `RegisterBank` |
| `MessageFlow` | `ModbusMasterModule.h`, `HttpClientModule.h`, `FakeHttpClientAdapter.h`, `ControlService.h`, `WebSocketModule.h`, what the demo modules ask for | composition: modules behind the bus |
| `Bootstrap` | `bootstrap/`, the constructors | from a configuration to a host |
| `HttpServer` | `MongooseHttpServerAdapter`, `FakeHttpServerAdapter`, `HttpModule.h`, route providers | the server that `Bootstrap` builds (extends it) |
| the modules named `...Proofs` | | proofs (section 5 says which is about what) |

A program counter per thread stands for the place in a function; the
names of its labels are those of the work done there. What happens under a
mutex in one go is one step when nobody can look inside, and several when the
mutex is released in between (`wait_for`) or when the order of lock, test and
block is the point.

**EventQueue.** `Push` is `push()` in three steps (lock, append and unlock,
notify), `Clear` is `clear()`, `Pop` is `wait_and_pop()` with the predicate
tested before the wait, after each wakeup and once after the timeout. `owner`
is the holder of `mutex_`. `queue` is `queue_`; an event is its
publisher and its number. `delivered`, `pushed` and `call` are
histories that the properties speak about; no guard of the code reads them
(`pushed` and `clears` also carry the bounds). A notification reaches the
consumer only while it is in the wait set.

**ModbusDeviceRuntime.** The worker's labels follow `worker_loop()`: `loop`
(line 98), `lock` to `awake` (100-103), the test of `running_` (105), `take`
(110-116), `connect` and `io` (`perform_read`, `perform_write`), `failed` and
`retry_*` (133-137 and `wait_retry_delay`), `exit` (140). The mutex is held by
the worker exactly at the labels in `WorkerHoldsMutex`; submitters hold it
within one step. A request is valid or rejected before it reaches the adapter;
whether the adapter connects, reads and writes is free. `stop()` is three
steps (exchange, notify, join), any of the worker's steps can fall between
them. `late` is a history: requests taken since the last `stop()`. The line of
`RequestService` is the request in hand with `pending_ops_` behind it; taking a
request is no step of it.

**MongooseHttpClientAdapter.** `async_request()` is two unlocked tests and a
locked push; the worker empties the queue into a local one, starts each request,
polls, and after `stop()` fails what is left and frees the manager. `ctx[r]` is
the RequestContext together with the state of its connection; `place[r]` says
who holds it. Within one poll each connection goes through MG_EV_POLL, I/O
unless it is closing, and MG_EV_CLOSE if it is. Errors may come at any
time in the poll (the resolver reports them from its own connection). The
network is otherwise free: it connects, answers, answers twice, closes or does
nothing. The url is a choice of the program at the start and only its kind
matters. `accepted` is a history.

**ApplicationHost.** Each access to the three flags and each sub-module's
`stop()` is a step; so is each of the six stages of `destroy()` that the
properties can tell apart. A sub-module is `built`, `up`, `stopping`, `down`
or `freed`; its worker publishes while it is `up` or `stopping`. The bus is a
sequence: that the real queue behaves like one is what the first two modules
show. A handler may publish or call `stop()`.

`stop()` has no precondition in the code but `stopped_`, and none here: the main
thread may call it whenever it is not inside another call, the other thread at
any time, before `init()`, during it, after `destroy()`. `init()` is three
steps for that: its tests, `ModbusMasterModule::start()`, and the HTTP server's
`start()` with `initialized_`. Two things the properties need are stated in
them, by histories. `overlapped`: two `stop()` calls were at the modules at once; the second caller
does not wait for the joins of the first. `early`: a `stop()` went to the modules
before `init()` was over; its SHUTDOWN stays on the bus while `init()` starts the
workers it found not started, so that `run()` returns with all of them up.
Properties that say `~overlapped` or `~early` do fail without it (section 6 says
what follows from an early `stop()`). The demos call `stop()`
from one thread, after `init()`, and join it before `destroy()`.

Outside the model: `run()` before `init()` or after `destroy()`, `init()`,
`run()` and `destroy()` from any but the main thread, and a `stop()` inside one
module's `start()`: each of the two starts is one step, since what lies between
their assignments is a data race on plain members (`worker_`, `mgr_`).

**TimerManager.** One pass of `EventLoop::run()` is `read` (the clock is read
once per `process()`), a step per timer, the wait, and one event. Time is an
integer that may advance in every phase, up to a bound per phase: all callbacks
of a pass (`ProcessTime`), the wait (`WaitTime`), the handlers of an event
(`HandlerTime`). The code has no such bounds; they are what the two properties
are relative to. It has no limit on the number of timers either: `MaxTimers` is
a bound of the model, 2 in the run and any number in the proofs.

**ModbusPollingRuntime.** The labels follow `worker_loop()` as in the device
runtime. Writes are numbered in the order they enter the queue, so the order is
visible without their values. `register` is what the device has carried out: a
write may reach it although the adapter reports a failure. `submit_write()` does
not look at `running_`, so a write may arrive before `start()` or after `stop()`;
it is kept for the next start. The class is compiled into the core library, but
nothing in the repository makes one; what is modelled is what it offers.

**ModbusMasterAdapters.** An operation of an adapter is the set of outcomes it
may have, given the slave's tables and what libmodbus can answer: any number of
values, or none, and for a write the three combinations of carried out and
reported. The RTU adapter is the TCP adapter written a second time with another
constructor, and is modelled by it. Words are 0 and one other value, because
bits are what the code converts; requests ask for one or two values, because
that is the choice `do_write` makes.

**MessageFlow.** The bus is one queue, dispatched event by event; a handler is
one step, except `on_ws_message()`, which reads the two fields of
`pending_command_` while another thread may write them. A device runtime is here
what `ModbusDeviceRuntime` is proved to implement: for each device `Route` and
`Answer` are the two actions of `RequestService` over `pending[d]`, the outcome
going to the bus. The HTTP adapter is the synchronous fake one, which calls back inside the
call. What the demo modules do with an outcome is to print it: `OnOutcome` is the
end of a request. `ModbusPollingModule` prints every outcome of its device,
whoever asked; `UpdateModule` those whose `request_id` begins with one of its own
two prefixes. Neither publishes nor keeps anything, so their tests, and
`request_id`, are left out; requests are told apart by a number of the model.

**Bootstrap.** `Create` is `ApplicationBootstrap::create()`: validation, then
backends built if the build contains them. HTTP and Modbus are validated and
built independently, so `InitBoot` combines every Modbus part (up to
`MaxDevices` devices, two in the runs, names from a set with the empty one, every set of Modbus backends in
the build) with the default HTTP parts, every HTTP part and all 128 builds with
Modbus off, and the demos' configurations with a complete build. Of several
wrong fields of a device only that there is one is recorded. Two devices may
have one name: `routes` then has the last of them, as `runtimes_` does.
`BuiltAsConfigured` promises every device a route of its own where the names are
distinct, which they need not be (section 6).

**HttpServer.** Extends `Bootstrap`, so the server under test is one that a
configuration produced. A manager is its number; `alive` holds those allocated
and not freed. A poll serves each open connection, in any order; requests may
name routes that exist, that the demo adds, or none. `stop()` is four steps: test, assignment, join, free.
Two preconditions are named: `MayStop` (no other `stop()` is between its test of
`running_` and its assignment, and `start()` is not about to spawn the worker)
and `MayStart` (no `stop()` is joining or freeing). The demos keep to both: their
host calls `start()` in `init()`, before any other thread knows the server, and
one thread stops it. Without them a thread is joined twice, which has no
outcome to model.

Every module has a section *Slips*: wrong variants of its definitions, used by
no specification. Put in place of the right definition, each makes the property
named with it fail; this is how the properties were tested against vacuity.

## 3. Runs

| Run | Constants | Distinct states | Shows |
|---|---|---|---|
| `event_queue` | 2 publishers and the loop, 2 pushes each, 1 clear | 249 152 | types and mutex, no lost wakeup, order, refinement of EventChannel, progress |
| `device_runtime` | 1 submitter, 3 requests, 2 starts | 19 661 | refinement of RequestService, once and in order, quiet after stop, fresh link, one late request, stop returns, every pending request answered unless the runtime is stopped, one in hand always |
| `http_client` | 2 requests, every url kind | 46 839 | one answer at most, no leaked context, stop settles what was accepted, no send after an answer, every accepted request answered |
| `host` | 2 threads, 2 runs, 2 stops each, 1 event per source | 879 479 | results before SHUTDOWN, nothing used after release, empty bus, the first run ends |
| `polling_runtime` | 2 submitters, 3 writes, 2 starts | 12 152 | order through retries and restarts, no step back to an older command, due polls served, stop returns |
| `master_adapters` | 2 addresses in 4 tables, words 0 and 2, three transports | 39 840 | refinement of RegisterBank, contexts balance |
| `message_flow` | 1 device and 1 unknown name, 2 requests, 2 samples, 2 messages, 1 client, 2 urls | 214 736 | requests in one place at a time and answered, commands not older than their messages, samples in order |
| `timers` | 2 timers with intervals 3 and 4, handlers up to 4, clock to 18 | 417 986 | spacing and delay of ticks |
| `http_server` | the builds and configurations of `InitBoot`, 2 connections, 2 threads that stop, 2 starts, 2 requests | 117 003 | an accepted configuration is built with a route to each device where names are distinct, manager and worker go together, replies of the right route, no client left hanging |
| `host_run_again` | as `host` | violation | section 6 |
| `http_client_stop_race` | as `http_client` | violation | section 6 |
| `demos_start` | the configurations of `InitBoot`, the three demos' among them | violation | section 6 |

Why the bounds are enough. In the queue the interesting cases are two threads
between unlock and notify with the consumer in each of its labels, and a clear
between a push and a pop: two publishers with two pushes and one clear reach
all of them, and the safety results are proved for every bound (section 5). In
the device runtime three requests give a failing one, one in the retry
delay behind it and one pending when `stop()` comes; two starts give
a restart with requests left over. In the HTTP client requests only meet in the
queue and in the order of a poll, so two are the smallest number with every
interaction. In the host two runs and two stops per thread give stop before
and during init, stop before run, stop in a handler, stop twice, and stop, run,
stop. In the polling runtime
three writes give one in hand, one behind it and one submitted during a retry or
after a stop. For the adapters two adjacent addresses are enough for a short
answer and for a write that must leave its neighbour alone. In the message flow
two requests may be to the same device, to a device and to none, or to a device
and to the HTTP client; two messages are what one `pending_command_` confuses.
In the timers the handlers may take longer than an interval, so that periods are
missed, and two timers delay each other within a pass. In the HTTP server two
connections keep a poll unfinished while either of two threads stops it, and a
second start shows that the first left nothing behind.

Deadlock checking is off: every bounded system here stops when its calls are
used up, the runtimes and the adapters stop when `stop()` has returned, and the
clock of the timers ends. That
they stop only where they should is what the liveness properties say.

## 4. Fairness

Every thread finishes the call it is in and the loops go on (weak fairness per
thread: the operating system schedules a runnable thread). Timed waits
expire where the code relies on it: in the device runtime `StopReturns` depends
on the 100 ms timeout, because `stop()` notifies without the mutex and can miss
the worker between its predicate and its wait. In the queue the timeout is left
unfair on purpose: events move through notifications alone. In the HTTP client
time passes (the deadline is reached) but the network owes nothing. In the
polling runtime `DuePollIsServed` has the assumption on the device in the
property itself, and `StopReturns` again depends on the timed wait. In the
message flow the loop runs and each device answers; in the HTTP server calls
that were begun go on and the worker polls, and clients owe nothing. No caller
ever has to call, no worker of the host has to publish, no wakeup is spurious
by right. Mutexes need no strong fairness here: the guards that wait for one
are held by threads that are themselves fair, and a thread that is overtaken
for ever would need unboundedly many calls of the others, which are bounded.

## 5. Proofs

The modules named `...Proofs` are checked by TLAPS: `CoreRuntimeProofs` (the
queue and the timers), `ModbusDeviceRuntimeProofs`, `ModbusPollingRuntimeProofs`,
`ModbusMasterAdaptersProofs`, `MongooseHttpClientAdapterProofs`,
`ApplicationHostProofs`, `MessageFlowProofs` and `HttpServerProofs` (with
`Bootstrap`). The theorems hold for every set of threads, devices, clients,
requests and register values and for every bound; they assume only the named
assumptions on the constants: bounds are naturals, the consumer is not a
publisher, the host's two threads are two, `NoOwner` is no thread, `NoRequest`
no request, `NoThread` no thread. `MessageFlow` needs none. Each theorem rests
on an inductive invariant that TLC confirmed on the instances of section 3
before it was proved.

*EventQueue.* `TypeOK` contains mutual exclusion (a thread in a critical section
owns `mutex_`). `NoLostWakeup` is not inductive: a step into the wait set must
know that the queue is still empty. `Inv` adds that what the predicate said
still holds where the consumer acts on it (`StillTrue`: nobody changes the
queue without the mutex), that threads about to push or clear are below their
bound (`Room`), and that a call is open exactly inside `wait_and_pop()`
(`CallIsOpen`). `InOrder` needs `Numbered`: no event so far has a number its
thread has not reached. The joined sequence `delivered \o queue` grows at its
end with a push, stays with a pop and is cut with a clear. From `Inv` each step
is a step of `EventChannel` or leaves its variables alone, which gives
`QueueImplementsChannel`.

*ModbusDeviceRuntime.* `Inv` adds to the types: a request is in hand exactly at
`connect` and `io` (`HandInv`); how the controller's place, `running_` and the
existence of a worker go together (`LifeInv`); that `connected_` agrees with
the adapter and no link outlives the worker (`LinkInv`); that after `stop()` the
worker passes `take` at most once more (`LateInv`); and that it blocks only on
an empty queue (`WaitInv`). All safety properties of the run follow from it except
`ExactlyOnceInOrder`, which is carried along `Inv`: a submit appends to both
sides, taking moves the head of the queue to the hand, answering moves the hand
to the end of the answers. `RuntimeImplementsService` uses the same three facts:
a submit appends to the line whatever is in hand, taking leaves the line alone,
publishing answers its first request; every other step stutters.

*MongooseHttpClientAdapter.* `AtMostOneAnswer` needs to know who may call back:
`AnswerInv` says that `completed` tells it for an open connection and that a
request still in a queue has no answer; `QueueInv`, that a request is in a queue
at most once and in the one `place` names; `PollInv`, that a poll only visits
open connections; `StopInv`, what the worker has done at each of its last labels
(nobody accepted is pending once it has taken the last look at the queue, and
every connection is closing while the manager is freed). The steps of a poll
that leave a connection open share one lemma (`VisitKeepsInv`), as do the two
ways in which the head of the worker's queue leaves it (`HeadKeepsInv`).

*ApplicationHost.* Three properties are about `stop()` calls that do not overlap,
and `ResultsBeforeShutdown` also about none that comes before `init()` is over.
`StopInv` says what that buys: one thread at most is at the modules, the modules
it has passed are quiet, a module being stopped is being stopped by the thread
that is there, and nobody is left there once `stopped_` is set. `ShutdownInv`
says the same of the queue: behind a SHUTDOWN there is no result. `DestroyInv`
orders `destroy()`, and `StartInv` covers a host destroyed before `init()`.

*ModbusPollingRuntime.* `OrderInv` places the write in hand and the queue behind
the last acknowledged number; taking, requeueing, acknowledging and submitting
are four lemmas about it. `RegisterInv` is one behind or level, because only the
write in hand reaches the device.

*TimerManager.* `TimersInv` bounds where the clock can be in each phase
(`ClockInv`), how far the last call and `next_run` of a timer lie apart (`SpacingInv`), and how
late a timer not yet looked at can be (`DelayInv`).

*ModbusMasterAdapters.* `AdaptersImplementTheBank` needs that coils are bits
(`BitInv`), so that converting them loses nothing, and that a request is in hand
and unanswered until its result (`RequestInv`). The lemmas `ReadOutcome` and
`WriteOutcome` say what an operation of any adapter may return.

*MessageFlow.* `RequestsKept` counts the places of a request, and a count is of
no use in an induction. `RequestInv` says instead that every request made and
not answered is somewhere (`SomewhereInv`), that ids on the bus (`BusInv`) and
with the devices (`DeviceInv`) are those of such requests and do not repeat, and
that the two do not meet (`ApartInv`); the set of places is then a singleton.
All handlers that move an event through the queue share the predicate `Moves`.
`ClientsSeeEverySample` needs to know where the samples are that a client has
not seen: a sample is three events in turn, and `OrderInv` says that of two
samples the older is further on its way, or as far and first; with
`Broadcast(n)` (the first `n` are with every client, all later ones on the bus)
the next broadcast can only be number `n + 1`. That clients connect before the
loop runs is used here: a late one would not start at the first sample.
`CommandNotOlder` rests on `CommandInv`: `pending_command_` is, field by field,
at least as new as any message in the queue, `copied` lies between the message
being handled and the field it was copied from, and no command is newer than
what it was copied from.

*Bootstrap.* `BootTypes` is the invariant: configurations are well-formed, with
any number of devices. `CreateBuilds` follows one `create()` from validation
through the factories to the routing map; that the last of several devices of
one name is routed to needs that a non-empty set of indices has a greatest one,
and that it is the device itself where names are distinct is `DevicesAreBuilt`.
The theorem is about every configuration in every build, not only those that
`InitBoot` combines; a corollary names these.

*HttpServer.* `ServerSafe` alone does not survive a step of `stop()`. `StopInv`
adds that one thread at most is inside `stop()` and what it has left of the
server at each of its labels; `StartInv`, what `start()` has built at each of
its; `QuietInv`, that between calls there is a server that runs, or none; and
`RepliesInv`, that the handler table is the one of the registered routes and
that a reply was looked up there. The preconditions `MayStop` and `MayStart`
(section 2) are guards of the model and with them part of what is proved.

Every safety invariant, action property and refinement that a passing run
checks is thereby a theorem. Only model-checked are the properties under fairness
(`EventsMove`, `StopReturns`, `PendingIsAnswered`, `AcceptedIsAnswered`,
`FirstRunEnds`, `DuePollIsServed`, `EveryRequestAnswered`, `RequestsSettled`),
since liveness is beyond the prover's backends, and the three disagreements of section 6 that a run shows,
which are counterexamples. `TypeOK` of the device runtime is only proved: its
run checks the refinement in its place.

## 6. Disagreements between code and documentation

- **A second `run()` cannot be stopped** (`host_run_again`).
  `ApplicationHost.h` says that `stop()` may be called repeatedly and `run()`
  entered again after it, and that `run()` blocks until `stop()` is called.
  `stopped_` is never reset, so the `stop()` of a second run returns at line 118
  without publishing SHUTDOWN.
- **A request can be left without an answer** (`http_client_stop_race`).
  `async_request()` tests `running_` and `mgr_` outside the lock and pushes
  later; when `stop()` and the worker's last look at the queue fall in between,
  neither callback runs. Requests accepted while the adapter still ran at the
  moment of the push are all answered (`StopSettlesAccepted`).
- **The default program does not start** (`demos_start`). The HTTP server demo
  configures only its HTTP part; `modbus_master` stays enabled by default and has
  no devices, which validation rejects, so `create()` returns no host, even in a
  build with every backend.

Others, which no run is about:

- A `stop()` before or during `init()` finds nothing to stop, publishes SHUTDOWN
  and sets `stopped_`. `init()` never looks at the flag and starts the Modbus
  workers and the HTTP server; the first `run()` returns at the SHUTDOWN, and
  every further `stop()` returns at line 118 with the workers up, until
  `destroy()` destructs their modules. `ApplicationHost.h:50` says that `stop()`
  stops all sub-modules and may be repeated. `ResultsBeforeShutdown` without
  `~early` fails by this.
- `AppConfig.h:79` calls a device's name the unique identifier that events are
  routed by. Validation accepts two devices of one name; the second replaces the
  first in the routing map, and the first has a runtime that is never started.
  `BuiltAsConfigured` without `DistinctNames` fails by this.
- The demo announces `POST /control` (`HttpServerDemoLauncher.h:53`) while its
  route answers 501 and the parser meant for it is never called.
- A WebSocket command may carry values of a later message than the one it is
  published for, because there is one `pending_command_` (`CommandNotOlder`
  states what does hold).

## 7. Not modelled

- Third-party code (mongoose, libmodbus) appears only as the adapters use it.
- Formatting of headers, bodies and log lines, the logger, and modules that only
  print have no state of their own. `SelfBuiltHttpServerAdapter` is an empty
  placeholder and `DemoControlCommandParser` is called by nobody.
- Undefined behaviour without an outcome to model: `destroy()` from another
  thread while the loop runs (`ApplicationHost.cpp:145`), a client that connects
  while the loop iterates over `clients_` (`WebSocketModule.h:28`), two `stop()`
  calls inside the HTTP server at once. The models state the precondition that
  excludes each.
- The width of a value: `ModbusPollingRuntime.cpp:205` cuts a command's value to
  16 bits without a word; a write is a number in the model, and no comment
  says which values are legal. Counts of a Modbus request below one or above
  what a frame holds are likewise outside.
- `adapter_` is assumed non-null in `start()` (the factories never hand out a
  null one). The data race on `mgr_` is an atomic read of either value.

## 8. What is left

1. A refinement from the bus of `ApplicationHost` and `MessageFlow` to
   `EventChannel`, so that the queue's theorem is used by name, as the one about
   `RequestService` is for the devices.
2. `MessageFlow` over the asynchronous HTTP adapter instead of the fake one.
3. Larger instances of `MessageFlow` (two devices) outside the time of a
   regular check.
