---------------------------- MODULE MessageFlow ----------------------------
(***************************************************************************)
(* The modules behind the bus, put together: ModbusMasterModule and its    *)
(* device runtimes, HttpClientModule over FakeHttpClientAdapter,           *)
(* ControlService and WebSocketModule.  Of the demos' modules only what    *)
(* they ask is here (Ask): an outcome they listen to they print.           *)
(*                                                                         *)
(* The bus is one queue and one loop dispatches it event by event; a       *)
(* handler is one step, except where it reads what another thread writes.  *)
(* Of a device runtime only the promise is here that ModbusDeviceRuntime   *)
(* implements (RequestService): a line answered once each from its front.  *)
(***************************************************************************)
EXTENDS Integers, Sequences, FiniteSets

CONSTANTS
  Devices,      \* names of the configured devices
  Unknown,      \* a name no device has
  Clients,      \* WebSocket clients
  MaxRequests,  \* bound: requests published
  MaxSamples,   \* bound: samples the polling runtime publishes
  MaxMessages,  \* bound: messages of WebSocket clients
  Urls,         \* urls asked for
  Backlog       \* bound: events in the queue when something new comes in

VARIABLES
  queue,    \* the bus
  running,  \* the loop has been started
  asked,    \* how many requests have been published
  pending,  \* requests submitted to each device runtime
  answered, \* ids of the requests whose outcome has been dispatched
  samples,  \* how many samples have been published
  clients,  \* clients_: order in which the clients connected
  got,      \* samples broadcast to each client
  spc,      \* the thread that simulates clients
  messages, \* messages it has begun
  cmd,      \* pending_command_: the message its addr and its value belong to
  lpc,      \* the loop: "idle", or "command" inside on_ws_message()
  copied,   \* the half of pending_command_ already copied there
  commands  \* CONTROL_COMMANDs published

flow == <<asked, pending, answered>>
telemetry == <<samples, clients, got>>
control == <<spc, messages, cmd, lpc, copied, commands>>
vars == <<queue, running, flow, telemetry, control>>

\* READ_REQUEST and WRITE_REQUEST name a device, HTTP_CLIENT_REQUESTED a url.
\* The id tells the requests of the model apart; request_id, which the asker
\* makes up and nobody in between looks at, is left out.
Requests(id) ==
  [id : {id}, type : {"READ_REQUEST", "WRITE_REQUEST"},
   to : Devices \cup {Unknown}] \cup
  [id : {id}, type : {"HTTP_CLIENT_REQUESTED"}, to : Urls]

Outcomes == {"READ_RESULT", "WRITE_RESULT", "OP_FAILED",
             "HTTP_CLIENT_RESPONSE_RECEIVED", "HTTP_CLIENT_REQUEST_FAILED"}

Event(type, data) == [type |-> type, data |-> data]

Init ==
  /\ queue = << >> /\ running = FALSE
  /\ asked = 0 /\ pending = [d \in Devices |-> << >>]
  /\ answered = {}
  /\ samples = 0 /\ clients = << >> /\ got = [c \in Clients |-> << >>]
  /\ spc = "idle" /\ messages = 0 /\ cmd = [addr |-> 0, value |-> 0]
  /\ lpc = "idle" /\ copied = 0 /\ commands = << >>

-----------------------------------------------------------------------------
(* EventBus and EventLoop                                                  *)

Publish(e) == queue' = Append(queue, e)

\* Bound: nothing new while the queue is long.
Room == Len(queue) < Backlog

\* The loop takes the first event and calls the handlers of its type.
Dispatch(type) ==
  /\ running /\ lpc = "idle"
  /\ queue # << >>
  /\ Head(queue).type = type

\* The handler publishes nothing, or one event.
Quiet == queue' = Tail(queue)
Reply(e) == queue' = Append(Tail(queue), e)

Run == ~running /\ running' = TRUE /\ UNCHANGED <<queue, flow, telemetry, control>>

-----------------------------------------------------------------------------
(* Slips: wrong variants of definitions below, each a mistake the code could *)
(* plausibly have made.  No specification uses them; put in the place of the *)
(* right definition, each makes the property named with it fail.             *)

\* A request for an unknown device is only logged (RequestsKept).
DropUnknown ==
  /\ \E type \in {"READ_REQUEST", "WRITE_REQUEST"} : Dispatch(type)
  /\ Head(queue).data.to \notin Devices
  /\ Quiet
  /\ UNCHANGED <<running, flow, telemetry, control>>

\* A runtime keeps the request in front of its queue (EveryRequestAnswered).
KeepFirst(d) ==
  /\ pending[d] # << >>
  /\ Head(pending[d]).id \notin answered
  /\ UNCHANGED vars

\* The message is announced between the two assignments (CommandNotOlder).
PublishEarly ==
  /\ spc = "addr" /\ Room
  /\ Publish(Event("WS_MESSAGE_RECEIVED", messages))
  /\ spc' = "value"
  /\ UNCHANGED <<running, flow, telemetry, messages, cmd, lpc, copied, commands>>

\* A broadcast still in the queue is replaced by the newer one
\* (ClientsSeeEverySample).
ReplaceBroadcast ==
  /\ Dispatch("TELEMETRY_UPDATED")
  /\ LET Other(e) == e.type # "WS_BROADCAST"
     IN queue' = Append(SelectSeq(Tail(queue), Other),
                        Event("WS_BROADCAST", Head(queue).data))
  /\ UNCHANGED <<running, flow, telemetry, control>>

-----------------------------------------------------------------------------
(* Requests                                                                *)

\* A handler, a timer or another thread asks for something.
Ask ==
  /\ asked < MaxRequests /\ Room
  /\ \E r \in Requests(asked + 1) : Publish(Event(r.type, r))
  /\ asked' = asked + 1
  /\ UNCHANGED <<running, pending, answered, telemetry, control>>

\* ModbusMasterModule::on_read_request() and on_write_request().
Route ==
  /\ \E type \in {"READ_REQUEST", "WRITE_REQUEST"} : Dispatch(type)
  /\ LET r == Head(queue).data
     IN /\ r.to \in Devices
        /\ pending' = [pending EXCEPT ![r.to] = Append(@, r)]
  /\ Quiet
  /\ UNCHANGED <<running, asked, answered, telemetry, control>>

\* publish_route_failure().
RouteFailure ==
  /\ \E type \in {"READ_REQUEST", "WRITE_REQUEST"} : Dispatch(type)
  /\ Head(queue).data.to \notin Devices
  /\ Reply(Event("OP_FAILED", Head(queue).data))
  /\ UNCHANGED <<running, flow, telemetry, control>>

\* The worker of device d has executed a request, or has failed to.
Answer(d) ==
  /\ pending[d] # << >>
  /\ \E type \in {"OP_FAILED", IF Head(pending[d]).type = "READ_REQUEST"
                               THEN "READ_RESULT" ELSE "WRITE_RESULT"} :
       Publish(Event(type, Head(pending[d])))
  /\ pending' = [pending EXCEPT ![d] = Tail(@)]
  /\ UNCHANGED <<running, asked, answered, telemetry, control>>

\* FakeHttpClientAdapter::async_request() calls back before it returns.
AsyncRequest(r) ==
  IF r.to \in {"", "fail"} THEN Event("HTTP_CLIENT_REQUEST_FAILED", r)
  ELSE Event("HTTP_CLIENT_RESPONSE_RECEIVED", r)

\* HttpClientModule::on_request().
OnHttpRequest ==
  /\ Dispatch("HTTP_CLIENT_REQUESTED")
  /\ Reply(AsyncRequest(Head(queue).data))
  /\ UNCHANGED <<running, flow, telemetry, control>>

\* An outcome is dispatched: those who listen to its type print it, and to
\* WRITE_RESULT nobody listens.
OnOutcome ==
  /\ \E type \in Outcomes : Dispatch(type)
  /\ answered' = answered \cup {Head(queue).data.id}
  /\ Quiet
  /\ UNCHANGED <<running, asked, pending, telemetry, control>>

-----------------------------------------------------------------------------
(* Telemetry                                                               *)

\* simulate_client_connect().  clients_ has no lock: only before the run.
ConnectClient(c) ==
  /\ ~running /\ Room
  /\ \A i \in DOMAIN clients : clients[i] # c
  /\ clients' = Append(clients, c)
  /\ Publish(Event("WS_CLIENT_CONNECTED", c))
  /\ UNCHANGED <<running, flow, samples, got, control>>

\* ModbusPollingRuntime publishes a sample.
Sample ==
  /\ samples < MaxSamples /\ Room
  /\ samples' = samples + 1
  /\ Publish(Event("MODBUS_SAMPLE_RECEIVED", samples'))
  /\ UNCHANGED <<running, flow, clients, got, control>>

\* ControlService::on_modbus_sample_received().
OnSample ==
  /\ Dispatch("MODBUS_SAMPLE_RECEIVED")
  /\ Reply(Event("TELEMETRY_UPDATED", Head(queue).data))
  /\ UNCHANGED <<running, flow, telemetry, control>>

\* WebSocketModule::on_telemetry_updated().
OnTelemetry ==
  /\ Dispatch("TELEMETRY_UPDATED")
  /\ Reply(Event("WS_BROADCAST", Head(queue).data))
  /\ UNCHANGED <<running, flow, telemetry, control>>

\* WebSocketModule::on_broadcast().
OnBroadcast ==
  /\ Dispatch("WS_BROADCAST")
  /\ LET connected == {clients[i] : i \in DOMAIN clients}
     IN got' = [c \in Clients |-> IF c \in connected
                                  THEN Append(got[c], Head(queue).data)
                                  ELSE got[c]]
  /\ Quiet
  /\ UNCHANGED <<running, flow, samples, clients, control>>

\* ControlService::on_ws_client_connected() logs; CONTROL_COMMAND has no
\* subscriber.
OnIgnored ==
  /\ \E type \in {"WS_CLIENT_CONNECTED", "CONTROL_COMMAND"} : Dispatch(type)
  /\ Quiet
  /\ UNCHANGED <<running, flow, telemetry, control>>

-----------------------------------------------------------------------------
(* Control commands                                                        *)

\* simulate_client_message(), on the thread of the caller: two assignments
\* without a lock, then the message.
SetAddr ==
  /\ spc = "idle" /\ messages < MaxMessages
  /\ messages' = messages + 1
  /\ cmd' = [cmd EXCEPT !.addr = messages']
  /\ spc' = "addr"
  /\ UNCHANGED <<queue, running, flow, telemetry, lpc, copied, commands>>

SetValue ==
  /\ spc = "addr"
  /\ cmd' = [cmd EXCEPT !.value = messages]
  /\ spc' = "value"
  /\ UNCHANGED <<queue, running, flow, telemetry, messages, lpc, copied, commands>>

PublishMessage ==
  /\ spc = "value" /\ Room
  /\ Publish(Event("WS_MESSAGE_RECEIVED", messages))
  /\ spc' = "idle"
  /\ UNCHANGED <<running, flow, telemetry, messages, cmd, lpc, copied, commands>>

\* WebSocketModule::on_ws_message() copies pending_command_ field by field
\* while the other thread may write it, and publishes the copy.
CopyAddr ==
  /\ Dispatch("WS_MESSAGE_RECEIVED")
  /\ copied' = cmd.addr
  /\ lpc' = "command"
  /\ UNCHANGED <<queue, running, flow, telemetry, spc, messages, cmd, commands>>

CopyValue ==
  /\ lpc = "command"
  /\ LET c == [msg |-> Head(queue).data, addr |-> copied, value |-> cmd.value]
     IN /\ commands' = Append(commands, c)
        /\ Reply(Event("CONTROL_COMMAND", c))
  /\ lpc' = "idle"
  /\ copied' = 0
  /\ UNCHANGED <<running, flow, telemetry, spc, messages, cmd>>

-----------------------------------------------------------------------------

Loop ==
  \/ Route \/ RouteFailure \/ OnHttpRequest \/ OnOutcome
  \/ OnSample \/ OnTelemetry \/ OnBroadcast \/ OnIgnored
  \/ CopyAddr \/ CopyValue

Next ==
  \/ Run \/ Loop \/ Ask \/ Sample
  \/ \E d \in Devices : Answer(d)
  \/ \E c \in Clients : ConnectClient(c)
  \/ SetAddr \/ SetValue \/ PublishMessage

Spec == Init /\ [][Next]_vars

\* The main thread gets to run() and the loop runs, and so do the workers;
\* nobody has to ask.
FairSpec ==
  /\ Spec
  /\ WF_vars(Run \/ Loop)
  /\ \A d \in Devices : WF_vars(Answer(d))

-----------------------------------------------------------------------------

\* Where request id is: in the queue as a request or as an outcome, with a
\* device, or done.
Places(id) ==
  {<<"bus", i>> : i \in {j \in DOMAIN queue :
     /\ queue[j].type \in Outcomes \cup
          {"READ_REQUEST", "WRITE_REQUEST", "HTTP_CLIENT_REQUESTED"}
     /\ queue[j].data.id = id}} \cup
  (UNION {{<<d, i>> : i \in {j \in DOMAIN pending[d] : pending[d][j].id = id}} :
            d \in Devices}) \cup
  (IF id \in answered THEN {<<"answered", 0>>} ELSE {})

\* On its way through the bus, ModbusMasterModule or HttpClientModule, a device
\* runtime and the bus again, no request is lost and none is answered twice,
\* whatever it asks for and whether or not its device exists.
RequestsKept == \A id \in 1 .. asked : Cardinality(Places(id)) = 1

\* Every request is answered in the end: as only so many are made
\* (MaxRequests), from some moment on all of them have been.
EveryRequestAnswered == <>[](answered = 1 .. asked)

\* A command published for a message is, field by field, never older than the
\* message, nor than the command before it.  It may be newer, and its fields
\* may belong to different messages (WebSocketModule keeps one
\* pending_command_ for all of them).
CommandNotOlder ==
  \A i \in DOMAIN commands :
    /\ commands[i].addr >= commands[i].msg
    /\ commands[i].value >= commands[i].msg
    /\ i > 1 => /\ commands[i].addr >= commands[i - 1].addr
                /\ commands[i].value >= commands[i - 1].value

\* A sample is three events on its way to the clients; they still see every
\* sample, in the order the polling runtime took them.
ClientsSeeEverySample ==
  \A i \in DOMAIN clients :
    \A k \in DOMAIN got[clients[i]] : got[clients[i]][k] = k
=============================================================================
