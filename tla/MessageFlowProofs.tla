------------------------- MODULE MessageFlowProofs -------------------------
(***************************************************************************)
(* Proofs about MessageFlow.tla, for any set of devices, clients and urls  *)
(* and any number of requests, samples and messages: no request is lost or *)
(* answered twice; a control command is never older than its message; and  *)
(* clients see every sample, in order.                                     *)
(***************************************************************************)
EXTENDS MessageFlow, SequenceTheorems, FiniteSetTheorems, TLAPS

USE DEF flow, telemetry, control, Event

-----------------------------------------------------------------------------
(* Types                                                                   *)

ModbusTypes == {"READ_REQUEST", "WRITE_REQUEST", "READ_RESULT",
                "WRITE_RESULT", "OP_FAILED"}
HttpTypes == {"HTTP_CLIENT_REQUESTED", "HTTP_CLIENT_RESPONSE_RECEIVED",
              "HTTP_CLIENT_REQUEST_FAILED"}
RequestTypes == ModbusTypes \cup HttpTypes
SampleTypes == {"MODBUS_SAMPLE_RECEIVED", "TELEMETRY_UPDATED", "WS_BROADCAST"}

ModbusRequest == [id : Nat, type : {"READ_REQUEST", "WRITE_REQUEST"},
                  to : Devices \cup {Unknown}]
HttpRequest == [id : Nat, type : {"HTTP_CLIENT_REQUESTED"}, to : Urls]
Command == [msg : Nat, addr : Nat, value : Nat]

\* What the data of an event is follows from its type.
BusEvent ==
  [type : ModbusTypes, data : ModbusRequest] \cup
  [type : HttpTypes, data : HttpRequest] \cup
  [type : SampleTypes \cup {"WS_MESSAGE_RECEIVED"}, data : Nat] \cup
  [type : {"WS_CLIENT_CONNECTED"}, data : Clients] \cup
  [type : {"CONTROL_COMMAND"}, data : Command]

BusTypes ==
  /\ queue \in Seq(BusEvent)
  /\ running \in BOOLEAN
  /\ lpc \in {"idle", "command"}

FlowTypes ==
  /\ asked \in Nat
  /\ pending \in [Devices -> Seq(ModbusRequest)]

TelemetryTypes ==
  /\ samples \in Nat
  /\ clients \in Seq(Clients)
  /\ got \in [Clients -> Seq(Nat)]

ControlTypes ==
  /\ spc \in {"idle", "addr", "value"}
  /\ messages \in Nat
  /\ cmd \in [addr : Nat, value : Nat]
  /\ copied \in Nat
  /\ commands \in Seq(Command)

Types == BusTypes /\ FlowTypes /\ TelemetryTypes /\ ControlTypes

-----------------------------------------------------------------------------
(* Where a request is: on the bus, with a device, or answered.             *)

OnBus(q, i) == q[i].type \in RequestTypes

\* Ids on the bus and with the devices are those of requests that have been
\* published and not been answered.
Open == 1 .. asked \ answered

BusInv ==
  \A i \in 1 .. Len(queue) : OnBus(queue, i) =>
    /\ queue[i].data.id \in Open
    /\ \A j \in 1 .. Len(queue) :
         OnBus(queue, j) /\ queue[j].data.id = queue[i].data.id => i = j

DeviceInv ==
  \A d \in Devices : \A i \in 1 .. Len(pending[d]) :
    /\ pending[d][i].id \in Open
    /\ \A e \in Devices : \A j \in 1 .. Len(pending[e]) :
         pending[e][j].id = pending[d][i].id => d = e /\ i = j

ApartInv ==
  \A i \in 1 .. Len(queue) : OnBus(queue, i) =>
    \A d \in Devices : \A j \in 1 .. Len(pending[d]) :
      pending[d][j].id # queue[i].data.id

SomewhereInv ==
  \A id \in Open :
    \/ \E i \in 1 .. Len(queue) : OnBus(queue, i) /\ queue[i].data.id = id
    \/ \E d \in Devices : \E j \in 1 .. Len(pending[d]) : pending[d][j].id = id

RequestInv ==
  /\ answered \subseteq 1 .. asked
  /\ BusInv /\ DeviceInv /\ ApartInv /\ SomewhereInv

-----------------------------------------------------------------------------
(* Where a sample is                                                       *)

IsSample(e) == e.type \in SampleTypes

\* How far an event of a sample is on its way.
Stage(e) == CASE e.type = "MODBUS_SAMPLE_RECEIVED" -> 1
              [] e.type = "TELEMETRY_UPDATED" -> 2
              [] e.type = "WS_BROADCAST" -> 3

\* An older sample is further on its way, or as far and before the younger one.
OrderInv ==
  \A i, j \in 1 .. Len(queue) :
    IsSample(queue[i]) /\ IsSample(queue[j]) /\ i # j =>
      /\ queue[i].data # queue[j].data
      /\ queue[i].data < queue[j].data =>
           Stage(queue[i]) > Stage(queue[j]) \/ (Stage(queue[i]) = Stage(queue[j]) /\ i < j)

\* The first n samples have been broadcast, the others are on the bus.
Broadcast(n) ==
  /\ \A c \in Clients : Len(got[c]) <= n /\ \A k \in 1 .. Len(got[c]) : got[c][k] = k
  /\ \A i \in 1 .. Len(clients) : Len(got[clients[i]]) = n
  /\ ~running => n = 0
  /\ \A i \in 1 .. Len(queue) : IsSample(queue[i]) => queue[i].data \in n + 1 .. samples
  /\ \A k \in n + 1 .. samples :
       \E i \in 1 .. Len(queue) : IsSample(queue[i]) /\ queue[i].data = k

SampleInv == OrderInv /\ \E n \in 0 .. samples : Broadcast(n)

-----------------------------------------------------------------------------
(* Commands                                                                *)

\* pending_command_ is never older than a message already published.
CommandInv ==
  /\ cmd.addr = messages
  /\ cmd.value = IF spc = "addr" THEN messages - 1 ELSE messages
  /\ spc = "addr" => messages > 0
  /\ \A i \in 1 .. Len(queue) :
       queue[i].type = "WS_MESSAGE_RECEIVED" => queue[i].data <= cmd.value
  /\ lpc = "command" =>
       /\ queue # << >> /\ queue[1].type = "WS_MESSAGE_RECEIVED"
       /\ queue[1].data <= copied /\ copied <= cmd.addr
  /\ \A i \in 1 .. Len(commands) :
       /\ commands[i].addr <= IF lpc = "command" THEN copied ELSE cmd.addr
       /\ commands[i].value <= cmd.value
  /\ CommandNotOlder

Inv == Types /\ RequestInv /\ SampleInv /\ CommandInv

-----------------------------------------------------------------------------
(* Events and the queue                                                    *)

\* q2 is q without its first m events and with e behind it if n is 1.
Moves(q, q2, m, n, e) ==
  /\ Len(q2) = Len(q) - m + n
  /\ \A i \in 1 .. Len(q) - m : q2[i] = q[i + m]
  /\ n = 1 => q2[Len(q2)] = e

LEMMA AppendMoves ==
  ASSUME NEW S, NEW q \in Seq(S), NEW e \in S
  PROVE  Append(q, e) \in Seq(S) /\ Moves(q, Append(q, e), 0, 1, e)
<1>1. Len(q) \in Nat
  BY LenProperties
<1>2. QED
  BY <1>1, AppendProperties DEF Moves

LEMMA TailMoves ==
  ASSUME NEW S, NEW q \in Seq(S), q # << >>, NEW e
  PROVE  Tail(q) \in Seq(S) /\ Moves(q, Tail(q), 1, 0, e)
<1>1. Len(q) \in Nat
  BY LenProperties
<1>2. QED
  BY <1>1, HeadTailProperties DEF Moves

LEMMA ReplyMoves ==
  ASSUME NEW S, NEW q \in Seq(S), q # << >>, NEW e \in S
  PROVE  /\ Append(Tail(q), e) \in Seq(S)
         /\ Moves(q, Append(Tail(q), e), 1, 1, e)
<1>1. Len(q) \in Nat \ {0}
  BY EmptySeq
<1>2. /\ Tail(q) \in Seq(S) /\ Len(Tail(q)) = Len(q) - 1
      /\ \A i \in 1 .. Len(Tail(q)) : Tail(q)[i] = q[i + 1]
  BY HeadTailProperties
<1>3. QED
  BY <1>1, <1>2, AppendProperties DEF Moves

\* The data of an event.
LEMMA EventData ==
  ASSUME NEW e \in BusEvent
  PROVE  /\ e.type \in ModbusTypes => e.data \in ModbusRequest
         /\ e.type \in HttpTypes => e.data \in HttpRequest
         /\ e.type \in SampleTypes \cup {"WS_MESSAGE_RECEIVED"} => e.data \in Nat
         /\ e.type \in RequestTypes => e.data.id \in Nat
BY DEF BusEvent, ModbusTypes, HttpTypes, SampleTypes, RequestTypes, ModbusRequest,
       HttpRequest

\* The first event of the queue.
LEMMA HeadEvent ==
  ASSUME Types, queue # << >>
  PROVE  /\ queue \in Seq(BusEvent)
         /\ Len(queue) \in Nat /\ Len(queue) > 0
         /\ Head(queue) = queue[1] /\ queue[1] \in BusEvent
<1>1. queue \in Seq(BusEvent)
  BY DEF Types, BusTypes
<1>2. Len(queue) \in Nat \ {0}
  BY <1>1, EmptySeq
<1>3. QED
  BY <1>1, <1>2, ElementOfSeq

\* A handler that replies, and one that does not.
LEMMA ReplyStep ==
  ASSUME Types, queue # << >>, NEW e \in BusEvent, Reply(e)
  PROVE  queue' \in Seq(BusEvent) /\ Moves(queue, queue', 1, 1, e)
BY HeadEvent, ReplyMoves DEF Reply

LEMMA QuietStep ==
  ASSUME Types, queue # << >>, Quiet, NEW e
  PROVE  queue' \in Seq(BusEvent) /\ Moves(queue, queue', 1, 0, e)
BY HeadEvent, TailMoves DEF Quiet

LEMMA PublishStep ==
  ASSUME Types, NEW e \in BusEvent, Publish(e)
  PROVE  queue' \in Seq(BusEvent) /\ Moves(queue, queue', 0, 1, e)
BY AppendMoves DEF Publish, Types, BusTypes

-----------------------------------------------------------------------------
(* What each action does to the bus: the events it takes and publishes.    *)

\* A request that is published.
LEMMA AskStep ==
  ASSUME Types, Ask
  PROVE  \E e \in BusEvent : /\ Moves(queue, queue', 0, 1, e)
                             /\ queue' \in Seq(BusEvent)
                             /\ e.type \in RequestTypes
                             /\ e.data.id = asked + 1
<1>1. PICK r \in Requests(asked + 1) : Publish(Event(r.type, r))
  BY DEF Ask
<1>2. asked + 1 \in Nat
  BY DEF Types, FlowTypes
<1>3. r.id = asked + 1
  BY DEF Requests
<1>4. \/ r.type \in {"READ_REQUEST", "WRITE_REQUEST"} /\ r \in ModbusRequest
      \/ r.type = "HTTP_CLIENT_REQUESTED" /\ r \in HttpRequest
  BY <1>2 DEF Requests, ModbusRequest, HttpRequest
<1>5. [type |-> r.type, data |-> r] \in BusEvent /\ r.type \in RequestTypes
  BY <1>4 DEF BusEvent, ModbusTypes, HttpTypes, RequestTypes
<1>6. QED
  BY <1>1, <1>3, <1>5, PublishStep

\* A handler that answers a request at once.
LEMMA AnswerAtOnceStep ==
  ASSUME Types, RouteFailure \/ OnHttpRequest
  PROVE  \E e \in BusEvent : /\ Moves(queue, queue', 1, 1, e)
                             /\ queue' \in Seq(BusEvent)
                             /\ queue # << >> /\ OnBus(queue, 1)
                             /\ e.type \in RequestTypes
                             /\ e.data = queue[1].data
<1>1. CASE RouteFailure
  <2>1. /\ queue # << >> /\ Head(queue).type \in {"READ_REQUEST", "WRITE_REQUEST"}
        /\ Reply([type |-> "OP_FAILED", data |-> Head(queue).data])
    BY <1>1 DEF RouteFailure, Dispatch
  <2>2. /\ queue[1].type \in ModbusTypes /\ Head(queue) = queue[1]
        /\ queue[1].data \in ModbusRequest
    BY <2>1, HeadEvent, EventData DEF ModbusTypes
  <2>3. [type |-> "OP_FAILED", data |-> queue[1].data] \in BusEvent
    BY <2>2 DEF BusEvent, ModbusTypes
  <2>4. QED
    BY <2>1, <2>2, <2>3, ReplyStep DEF OnBus, RequestTypes, ModbusTypes
<1>2. CASE OnHttpRequest
  <2>1. /\ queue # << >> /\ Head(queue).type = "HTTP_CLIENT_REQUESTED"
        /\ Reply(AsyncRequest(Head(queue).data))
    BY <1>2 DEF OnHttpRequest, Dispatch
  <2>2. /\ queue[1].type \in HttpTypes /\ Head(queue) = queue[1]
        /\ queue[1].data \in HttpRequest
    BY <2>1, HeadEvent, EventData DEF HttpTypes
  <2>3. /\ AsyncRequest(queue[1].data) \in BusEvent
        /\ AsyncRequest(queue[1].data).type \in HttpTypes
        /\ AsyncRequest(queue[1].data).data = queue[1].data
    BY <2>2 DEF BusEvent, HttpTypes, AsyncRequest
  <2>4. QED
    BY <2>1, <2>2, <2>3, ReplyStep DEF OnBus, RequestTypes
<1>3. QED
  BY <1>1, <1>2

\* A request that a device takes over.
LEMMA RouteStep ==
  ASSUME Types, Route
  PROVE  /\ queue # << >> /\ OnBus(queue, 1) /\ queue[1].data \in ModbusRequest
         /\ \A e : Moves(queue, queue', 1, 0, e)
         /\ queue' \in Seq(BusEvent)
         /\ queue[1].data.to \in Devices
         /\ pending' = [pending EXCEPT ![queue[1].data.to] =
                          Append(@, queue[1].data)]
<1>1. /\ queue # << >> /\ Head(queue).type \in {"READ_REQUEST", "WRITE_REQUEST"}
      /\ Quiet
  BY DEF Route, Dispatch
<1>2. /\ queue[1].type \in ModbusTypes /\ Head(queue) = queue[1]
      /\ queue[1].data \in ModbusRequest
  BY <1>1, HeadEvent, EventData DEF ModbusTypes
<1>3. QED
  BY <1>1, <1>2, QuietStep DEF Route, OnBus, RequestTypes

\* An answer of a device.
LEMMA AnswerStep ==
  ASSUME Types, NEW d \in Devices, Answer(d)
  PROVE  \E e \in BusEvent : /\ Moves(queue, queue', 0, 1, e)
                             /\ queue' \in Seq(BusEvent)
                             /\ pending[d] # << >>
                             /\ e.type \in RequestTypes
                             /\ e.data = pending[d][1]
<1>1. PICK type \in {"OP_FAILED", IF Head(pending[d]).type = "READ_REQUEST"
                                  THEN "READ_RESULT" ELSE "WRITE_RESULT"} :
        Publish(Event(type, Head(pending[d])))
  BY DEF Answer
<1>2. pending[d] \in Seq(ModbusRequest) /\ pending[d] # << >>
  BY DEF Types, FlowTypes, Answer
<1>3. Head(pending[d]) = pending[d][1] /\ pending[d][1] \in ModbusRequest
  BY <1>2, HeadTailProperties
<1>4. type \in ModbusTypes
  BY DEF ModbusTypes
<1>5. [type |-> type, data |-> pending[d][1]] \in BusEvent
  BY <1>3, <1>4 DEF BusEvent
<1>6. QED
  BY <1>1, <1>2, <1>3, <1>4, <1>5, PublishStep DEF RequestTypes

\* An outcome that is dispatched.
LEMMA OutcomeStep ==
  ASSUME Types, OnOutcome
  PROVE  /\ queue # << >> /\ OnBus(queue, 1)
         /\ \A e : Moves(queue, queue', 1, 0, e)
         /\ queue' \in Seq(BusEvent)
         /\ answered' = answered \cup {queue[1].data.id}
         /\ UNCHANGED <<asked, pending>>
<1>1. /\ queue # << >> /\ Head(queue).type \in Outcomes /\ Quiet
      /\ answered' = answered \cup {Head(queue).data.id}
      /\ UNCHANGED <<asked, pending>>
  BY DEF OnOutcome, Dispatch
<1>2. Head(queue) = queue[1]
  BY <1>1, HeadEvent
<1>3. OnBus(queue, 1)
  BY <1>1, <1>2 DEF OnBus, Outcomes, RequestTypes, ModbusTypes, HttpTypes
<1>4. QED
  BY <1>1, <1>2, <1>3, QuietStep

-----------------------------------------------------------------------------
(* The other steps                                                         *)

\* Steps that let requests alone: what they take and publish is none.
Aside ==
  \/ Run \/ Sample \/ (\E c \in Clients : ConnectClient(c))
  \/ OnSample \/ OnTelemetry \/ OnBroadcast \/ OnIgnored
  \/ SetAddr \/ SetValue \/ PublishMessage \/ CopyAddr \/ CopyValue
  \/ UNCHANGED vars

LEMMA SampleStep ==
  ASSUME Types, Sample
  PROVE  \E e \in BusEvent : /\ Moves(queue, queue', 0, 1, e)
                             /\ queue' \in Seq(BusEvent)
                             /\ e.type = "MODBUS_SAMPLE_RECEIVED"
                             /\ e.data = samples + 1
<1> DEFINE e == [type |-> "MODBUS_SAMPLE_RECEIVED", data |-> samples + 1]
<1>1. e \in BusEvent
  BY DEF Types, TelemetryTypes, BusEvent, SampleTypes
<1>2. Publish(e)
  BY DEF Sample
<1>3. QED
  BY <1>1, <1>2, PublishStep

\* A sample goes on as the next event of its way.
LEMMA ForwardStep ==
  ASSUME Types, OnSample \/ OnTelemetry
  PROVE  \E e \in BusEvent :
           /\ Moves(queue, queue', 1, 1, e)
           /\ queue' \in Seq(BusEvent)
           /\ queue # << >>
           /\ \/ /\ queue[1].type = "MODBUS_SAMPLE_RECEIVED"
                 /\ e.type = "TELEMETRY_UPDATED"
              \/ queue[1].type = "TELEMETRY_UPDATED" /\ e.type = "WS_BROADCAST"
           /\ e.data = queue[1].data
<1>1. PICK type \in {"TELEMETRY_UPDATED", "WS_BROADCAST"} :
        /\ queue # << >>
        /\ \/ /\ Head(queue).type = "MODBUS_SAMPLE_RECEIVED"
              /\ type = "TELEMETRY_UPDATED"
           \/ Head(queue).type = "TELEMETRY_UPDATED" /\ type = "WS_BROADCAST"
        /\ Reply([type |-> type, data |-> Head(queue).data])
  BY DEF OnSample, OnTelemetry, Dispatch
<1>2. Head(queue) = queue[1] /\ queue[1] \in BusEvent
  BY <1>1, HeadEvent
<1>3. queue[1].data \in Nat
  BY <1>1, <1>2, EventData DEF SampleTypes
<1>4. [type |-> type, data |-> queue[1].data] \in BusEvent
  BY <1>3 DEF BusEvent, SampleTypes
<1>5. QED
  BY <1>1, <1>2, <1>4, ReplyStep

LEMMA BroadcastStep ==
  ASSUME Types, OnBroadcast
  PROVE  /\ queue # << >> /\ queue[1].type = "WS_BROADCAST" /\ running
         /\ \A e : Moves(queue, queue', 1, 0, e)
         /\ queue' \in Seq(BusEvent)
         /\ queue[1].data \in Nat
         /\ got' = [c \in Clients |->
                      IF \E i \in 1 .. Len(clients) : clients[i] = c
                      THEN Append(got[c], queue[1].data) ELSE got[c]]
<1>1. /\ queue # << >> /\ Head(queue).type = "WS_BROADCAST" /\ running /\ Quiet
  BY DEF OnBroadcast, Dispatch
<1>2. Head(queue) = queue[1] /\ queue[1].data \in Nat
  BY <1>1, HeadEvent, EventData DEF SampleTypes
<1>3. DOMAIN clients = 1 .. Len(clients)
  BY LenProperties DEF Types, TelemetryTypes
<1>4. got' = [c \in Clients |-> IF c \in {clients[i] : i \in DOMAIN clients}
                               THEN Append(got[c], queue[1].data) ELSE got[c]]
  BY <1>2, Zenon DEF OnBroadcast
<1>5. QED
  BY <1>1, <1>2, <1>3, <1>4, QuietStep

LEMMA IgnoredStep ==
  ASSUME Types, OnIgnored
  PROVE  /\ queue # << >> /\ lpc = "idle"
         /\ queue[1].type \in {"WS_CLIENT_CONNECTED", "CONTROL_COMMAND"}
         /\ \A e : Moves(queue, queue', 1, 0, e)
         /\ queue' \in Seq(BusEvent)
BY HeadEvent, QuietStep DEF OnIgnored, Dispatch

LEMMA ConnectStep ==
  ASSUME Types, NEW c \in Clients, ConnectClient(c)
  PROVE  \E e \in BusEvent : /\ Moves(queue, queue', 0, 1, e)
                             /\ queue' \in Seq(BusEvent)
                             /\ e.type = "WS_CLIENT_CONNECTED"
<1> DEFINE e == [type |-> "WS_CLIENT_CONNECTED", data |-> c]
<1>1. e \in BusEvent
  BY DEF BusEvent
<1>2. Publish(e)
  BY DEF ConnectClient
<1>3. QED
  BY <1>1, <1>2, PublishStep

LEMMA MessageStep ==
  ASSUME Types, PublishMessage
  PROVE  \E e \in BusEvent : /\ Moves(queue, queue', 0, 1, e)
                             /\ queue' \in Seq(BusEvent)
                             /\ e.type = "WS_MESSAGE_RECEIVED"
                             /\ e.data = messages
<1> DEFINE e == [type |-> "WS_MESSAGE_RECEIVED", data |-> messages]
<1>1. e \in BusEvent
  BY DEF Types, ControlTypes, BusEvent
<1>2. Publish(e)
  BY DEF PublishMessage
<1>3. QED
  BY <1>1, <1>2, PublishStep

\* The loop's half of a command: the message is still the first event.
LEMMA CommandStep ==
  ASSUME Types, CommandInv, CopyValue
  PROVE  /\ queue # << >> /\ queue[1].type = "WS_MESSAGE_RECEIVED"
         /\ \E e \in BusEvent : /\ Moves(queue, queue', 1, 1, e)
                                /\ e.type = "CONTROL_COMMAND"
         /\ queue' \in Seq(BusEvent)
         /\ [msg |-> queue[1].data, addr |-> copied, value |-> cmd.value] \in Command
         /\ commands' = Append(commands, [msg |-> queue[1].data, addr |-> copied,
                                          value |-> cmd.value])
<1>1. queue # << >> /\ queue[1].type = "WS_MESSAGE_RECEIVED"
  BY DEF CopyValue, CommandInv
<1>2. Head(queue) = queue[1] /\ queue[1].data \in Nat
  BY <1>1, HeadEvent, EventData
<1> DEFINE c == [msg |-> queue[1].data, addr |-> copied, value |-> cmd.value]
           e == [type |-> "CONTROL_COMMAND", data |-> c]
<1>3. c \in Command /\ e \in BusEvent
  BY <1>2 DEF Types, ControlTypes, Command, BusEvent
<1>4. Reply(e) /\ commands' = Append(commands, c)
  BY <1>2 DEF CopyValue
<1>5. QED
  BY <1>1, <1>3, <1>4, ReplyStep

\* What all of these have in common, as requests see it.
LEMMA AsideStep ==
  ASSUME Types, CommandInv, Aside
  PROVE  /\ \E m, n \in {0, 1}, e \in BusEvent :
              /\ Moves(queue, queue', m, n, e)
              /\ m = 1 => queue # << >> /\ ~OnBus(queue, 1)
              /\ n = 1 => e.type \notin RequestTypes
         /\ queue' \in Seq(BusEvent)
         /\ UNCHANGED <<asked, pending, answered>>
<1> USE DEF OnBus, RequestTypes, ModbusTypes, HttpTypes
<1>1. CASE UNCHANGED queue /\ UNCHANGED <<asked, pending, answered>>
  <2>1. queue \in Seq(BusEvent) /\ Len(queue) \in Nat
    BY LenProperties DEF Types, BusTypes
  <2>2. \A e : Moves(queue, queue', 0, 0, e)
    BY <1>1, <2>1 DEF Moves
  <2>3. [type |-> "WS_MESSAGE_RECEIVED", data |-> 0] \in BusEvent
    BY DEF BusEvent
  <2>4. QED
    BY <1>1, <2>1, <2>2, <2>3
<1>2. CASE Sample
  BY <1>2, SampleStep DEF Sample
<1>3. ASSUME NEW c \in Clients, ConnectClient(c)
      PROVE  /\ \E m, n \in {0, 1}, e \in BusEvent :
                  /\ Moves(queue, queue', m, n, e)
                  /\ m = 1 => queue # << >> /\ ~OnBus(queue, 1)
                  /\ n = 1 => e.type \notin RequestTypes
             /\ queue' \in Seq(BusEvent)
             /\ UNCHANGED <<asked, pending, answered>>
  BY <1>3, ConnectStep DEF ConnectClient
<1>4. CASE OnSample \/ OnTelemetry
  BY <1>4, ForwardStep DEF OnSample, OnTelemetry
<1>5. CASE OnBroadcast \/ OnIgnored
  <2>1. queue # << >> /\ ~OnBus(queue, 1) /\ queue' \in Seq(BusEvent)
        /\ \A e : Moves(queue, queue', 1, 0, e)
    BY <1>5, BroadcastStep, IgnoredStep
  <2>2. queue[1] \in BusEvent
    BY <2>1, HeadEvent
  <2>3. QED
    BY <1>5, <2>1, <2>2 DEF OnBroadcast, OnIgnored
<1>6. CASE PublishMessage
  BY <1>6, MessageStep DEF PublishMessage
<1>7. CASE CopyValue
  BY <1>7, CommandStep DEF CopyValue
<1>8. QED
  BY <1>1, <1>2, <1>3, <1>4, <1>5, <1>6, <1>7
  DEF Aside, Run, SetAddr, SetValue, CopyAddr, vars

\* Every step is one of these.
LEMMA NextCases ==
  [Next]_vars => \/ Ask \/ Route \/ RouteFailure \/ OnHttpRequest \/ OnOutcome
                 \/ (\E d \in Devices : Answer(d))
                 \/ Aside
BY DEF Next, Loop, Aside

-----------------------------------------------------------------------------
(* Types                                                                   *)

LEMMA TypesNext ==
  ASSUME Types, CommandInv, [Next]_vars
  PROVE  Types'
<1>1. queue' \in Seq(BusEvent)
  BY NextCases, AskStep, RouteStep, AnswerAtOnceStep, OutcomeStep, AnswerStep,
     AsideStep
<1>2. running' \in BOOLEAN /\ lpc' \in {"idle", "command"}
  BY DEF Types, BusTypes, Next, Loop, Run, Ask, Route, RouteFailure, OnHttpRequest,
         Answer, OnOutcome, Sample,
         ConnectClient, OnSample, OnTelemetry, OnBroadcast, OnIgnored, SetAddr,
         SetValue, PublishMessage, CopyAddr, CopyValue, vars
<1>3. FlowTypes'
  <2>1. CASE Ask
    BY <2>1 DEF Ask, Types, FlowTypes
  <2>2. CASE Route
    <3>1. /\ queue[1].data \in ModbusRequest /\ queue[1].data.to \in Devices
          /\ pending' = [pending EXCEPT ![queue[1].data.to] =
                           Append(@, queue[1].data)]
      BY <2>2, RouteStep
    <3>2. Append(pending[queue[1].data.to], queue[1].data) \in Seq(ModbusRequest)
      BY <3>1, AppendProperties DEF Types, FlowTypes
    <3>3. QED
      BY <2>2, <3>1, <3>2 DEF Route, Types, FlowTypes
  <2>3. CASE RouteFailure \/ OnHttpRequest
    BY <2>3 DEF RouteFailure, OnHttpRequest, Types, FlowTypes
  <2>4. CASE OnOutcome
    BY <2>4, OutcomeStep DEF Types, FlowTypes
  <2>5. ASSUME NEW d \in Devices, Answer(d)
        PROVE  FlowTypes'
    <3>1. Tail(pending[d]) \in Seq(ModbusRequest)
      BY <2>5, HeadTailProperties DEF Answer, Types, FlowTypes
    <3>2. QED
      BY <2>5, <3>1 DEF Answer, Types, FlowTypes
  <2>6. CASE Aside
    BY <2>6, AsideStep DEF Types, FlowTypes
  <2>7. QED
    BY <2>1, <2>2, <2>3, <2>4, <2>5, <2>6, NextCases
<1>4. TelemetryTypes'
  <2>1. CASE Sample
    BY <2>1 DEF Sample, Types, TelemetryTypes
  <2>2. ASSUME NEW c \in Clients, ConnectClient(c)
        PROVE  TelemetryTypes'
    BY <2>2, AppendProperties DEF ConnectClient, Types, TelemetryTypes
  <2>3. CASE OnBroadcast
    <3>1. queue[1].data \in Nat
          /\ got' = [c \in Clients |->
                       IF \E i \in 1 .. Len(clients) : clients[i] = c
                       THEN Append(got[c], queue[1].data) ELSE got[c]]
      BY <2>3, BroadcastStep
    <3>2. \A c \in Clients : Append(got[c], queue[1].data) \in Seq(Nat)
      BY <3>1, AppendProperties DEF Types, TelemetryTypes
    <3>3. QED
      BY <2>3, <3>1, <3>2 DEF OnBroadcast, Types, TelemetryTypes
  <2>4. CASE UNCHANGED telemetry
    BY <2>4 DEF Types, TelemetryTypes
  <2>5. QED
    BY <2>1, <2>2, <2>3, <2>4
    DEF Next, Loop, Run, Ask, Route, RouteFailure, OnHttpRequest, Answer,
        OnOutcome, OnSample, OnTelemetry,
        OnIgnored, SetAddr, SetValue, PublishMessage, CopyAddr, CopyValue, vars
<1>5. ControlTypes'
  <2>1. CASE SetAddr \/ SetValue \/ PublishMessage \/ CopyAddr
    BY <2>1 DEF SetAddr, SetValue, PublishMessage, CopyAddr, Types, ControlTypes
  <2>2. CASE CopyValue
    BY <2>2, CommandStep, AppendProperties DEF CopyValue, Types, ControlTypes
  <2>3. CASE UNCHANGED control
    BY <2>3 DEF Types, ControlTypes
  <2>4. QED
    BY <2>1, <2>2, <2>3
    DEF Next, Loop, Run, Ask, Route, RouteFailure, OnHttpRequest, Answer,
        OnOutcome, Sample, ConnectClient,
        OnSample, OnTelemetry, OnBroadcast, OnIgnored, vars
<1>6. QED
  BY <1>1, <1>2, <1>3, <1>4, <1>5 DEF Types, BusTypes

-----------------------------------------------------------------------------
(* Requests                                                                *)

\* Where an event of the queue was before, and where it is now.
LEMMA Positions ==
  ASSUME queue \in Seq(BusEvent), queue' \in Seq(BusEvent),
         NEW m \in {0, 1}, NEW n \in {0, 1}, NEW e,
         Moves(queue, queue', m, n, e), m = 1 => queue # << >>
  PROVE  /\ Len(queue) \in Nat /\ Len(queue') \in Nat
         /\ Len(queue') = Len(queue) - m + n
         /\ \A i \in 1 .. Len(queue') :
              \/ /\ i \in 1 .. Len(queue) - m /\ i + m \in 1 .. Len(queue)
                 /\ queue'[i] = queue[i + m]
              \/ n = 1 /\ i = Len(queue') /\ queue'[i] = e
         /\ \A i \in 1 .. Len(queue) : i > m =>
              i - m \in 1 .. Len(queue') /\ queue'[i - m] = queue[i]
         /\ n = 1 => Len(queue') \in 1 .. Len(queue') /\ queue'[Len(queue')] = e
<1>1. Len(queue) \in Nat /\ Len(queue') \in Nat /\ (m = 1 => Len(queue) > 0)
  BY LenProperties, EmptySeq
<1>2. /\ Len(queue') = Len(queue) - m + n
      /\ \A i \in 1 .. Len(queue) - m : queue'[i] = queue[i + m]
      /\ n = 1 => queue'[Len(queue')] = e
  BY DEF Moves
<1>3. ASSUME NEW i \in 1 .. Len(queue), i > m
      PROVE  i - m \in 1 .. Len(queue') /\ queue'[i - m] = queue[i]
  BY <1>1, <1>2, <1>3
<1>4. QED
  BY <1>1, <1>2, <1>3

\* Events that are no requests pass by.
LEMMA AsideKeepsRequests ==
  ASSUME Types, RequestInv, CommandInv, Aside
  PROVE  RequestInv'
<1>1. PICK m \in {0, 1}, n \in {0, 1}, e \in BusEvent :
        /\ Moves(queue, queue', m, n, e)
        /\ m = 1 => queue # << >> /\ ~OnBus(queue, 1)
        /\ n = 1 => e.type \notin RequestTypes
  BY AsideStep
<1>2. UNCHANGED <<asked, pending, answered>> /\ queue' \in Seq(BusEvent)
      /\ queue \in Seq(BusEvent)
  BY AsideStep DEF Types, BusTypes
<1>3. /\ \A i \in 1 .. Len(queue') : OnBus(queue', i) =>
           i + m \in 1 .. Len(queue) /\ OnBus(queue, i + m) /\ queue'[i] = queue[i + m]
      /\ \A i \in 1 .. Len(queue) : OnBus(queue, i) =>
           i - m \in 1 .. Len(queue') /\ OnBus(queue', i - m) /\ queue'[i - m] = queue[i]
      /\ Len(queue) \in Nat /\ Len(queue') \in Nat
  <2>1. /\ Len(queue) \in Nat /\ Len(queue') \in Nat
        /\ \A i \in 1 .. Len(queue') :
             \/ i + m \in 1 .. Len(queue) /\ queue'[i] = queue[i + m]
             \/ n = 1 /\ queue'[i] = e
        /\ \A i \in 1 .. Len(queue) : i > m =>
             i - m \in 1 .. Len(queue') /\ queue'[i - m] = queue[i]
    BY <1>1, <1>2, Positions
  <2>2. \A i \in 1 .. Len(queue) : OnBus(queue, i) => i > m
    BY <1>1, <2>1
  <2>3. QED
    BY <1>1, <2>1, <2>2 DEF OnBus
<1>4. BusInv'
  <2>1. ASSUME NEW i \in 1 .. Len(queue'), OnBus(queue', i)
        PROVE  /\ i + m \in 1 .. Len(queue) /\ OnBus(queue, i + m)
               /\ queue'[i] = queue[i + m]
               /\ queue'[i].data.id \in Open'
    BY <1>2, <1>3, <2>1 DEF RequestInv, BusInv, Open
  <2>2. ASSUME NEW i \in 1 .. Len(queue'), OnBus(queue', i),
               NEW j \in 1 .. Len(queue'), OnBus(queue', j),
               queue'[j].data.id = queue'[i].data.id
        PROVE  i = j
    <3> DEFINE a == i + m
               b == j + m
    <3>1. /\ a \in 1 .. Len(queue) /\ OnBus(queue, a)
          /\ b \in 1 .. Len(queue) /\ OnBus(queue, b)
          /\ queue[a].data.id = queue[b].data.id
      BY <2>1, <2>2
    <3> HIDE DEF a, b
    <3>2. a = b
      BY <3>1 DEF RequestInv, BusInv
    <3>3. QED
      BY <3>2 DEF a, b
  <2>3. QED
    BY <2>1, <2>2 DEF BusInv
<1>5. DeviceInv'
  BY <1>2 DEF RequestInv, DeviceInv, Open
<1>6. ApartInv'
  <2> SUFFICES ASSUME NEW i \in 1 .. Len(queue'), OnBus(queue', i),
                      NEW d \in Devices, NEW j \in 1 .. Len(pending[d])
               PROVE  pending[d][j].id # queue'[i].data.id
    BY <1>2 DEF ApartInv
  <2>1. /\ i + m \in 1 .. Len(queue) /\ OnBus(queue, i + m)
        /\ queue'[i] = queue[i + m]
    BY <1>3
  <2>2. QED
    BY <2>1 DEF RequestInv, ApartInv
<1>7. SomewhereInv'
  <2> SUFFICES ASSUME NEW id \in Open,
                      \A d \in Devices : \A j \in 1 .. Len(pending[d]) :
                        pending[d][j].id # id
               PROVE  \E i \in 1 .. Len(queue') :
                        OnBus(queue', i) /\ queue'[i].data.id = id
    BY <1>2 DEF SomewhereInv, Open
  <2>1. PICK i \in 1 .. Len(queue) : OnBus(queue, i) /\ queue[i].data.id = id
    BY DEF RequestInv, SomewhereInv
  <2>2. /\ i - m \in 1 .. Len(queue') /\ OnBus(queue', i - m)
        /\ queue'[i - m] = queue[i]
    BY <1>3, <2>1
  <2>3. QED
    BY <2>1, <2>2
<1>8. QED
  BY <1>2, <1>4, <1>5, <1>6, <1>7 DEF RequestInv

\* A new request has a new id.
LEMMA AskKeepsRequests ==
  ASSUME Types, RequestInv, Ask
  PROVE  RequestInv'
<1>1. PICK e \in BusEvent : /\ Moves(queue, queue', 0, 1, e)
                            /\ e.type \in RequestTypes /\ e.data.id = asked + 1
  BY AskStep
<1>2. /\ queue \in Seq(BusEvent) /\ queue' \in Seq(BusEvent) /\ asked \in Nat
      /\ asked' = asked + 1 /\ UNCHANGED <<pending, answered>>
  BY AskStep DEF Ask, Types, BusTypes, FlowTypes
<1>3. /\ Len(queue) \in Nat /\ Len(queue') \in Nat
      /\ \A i \in 1 .. Len(queue') :
           \/ i \in 1 .. Len(queue) /\ queue'[i] = queue[i]
           \/ i = Len(queue') /\ queue'[i] = e
      /\ \A i \in 1 .. Len(queue) :
           i \in 1 .. Len(queue') /\ queue'[i] = queue[i]
      /\ Len(queue') \in 1 .. Len(queue') /\ queue'[Len(queue')] = e
  BY <1>1, <1>2, Positions
<1>4. Open' = Open \cup {asked + 1} /\ asked + 1 \notin Open
  BY <1>2 DEF Open, RequestInv
<1>5. /\ \A i \in 1 .. Len(queue) : OnBus(queue, i) => OnBus(queue', i)
      /\ \A i \in 1 .. Len(queue') : OnBus(queue', i) =>
           \/ i \in 1 .. Len(queue) /\ OnBus(queue, i) /\ queue'[i] = queue[i]
           \/ i = Len(queue') /\ queue'[i] = e
      /\ OnBus(queue', Len(queue'))
  BY <1>1, <1>3 DEF OnBus
<1>6. BusInv'
  BY <1>1, <1>3, <1>4, <1>5 DEF RequestInv, BusInv
<1>7. DeviceInv'
  BY <1>2, <1>4 DEF RequestInv, DeviceInv
<1>8. ApartInv'
  BY <1>1, <1>2, <1>3, <1>4, <1>5 DEF RequestInv, ApartInv, DeviceInv
<1>9. SomewhereInv'
  BY <1>1, <1>2, <1>3, <1>4, <1>5 DEF RequestInv, SomewhereInv
<1>10. answered' \subseteq 1 .. asked'
  BY <1>2 DEF RequestInv
<1>11. QED
  BY <1>6, <1>7, <1>8, <1>9, <1>10 DEF RequestInv

\* An answer at once is the request's place at the end of the queue.
LEMMA AnswerAtOnceKeepsRequests ==
  ASSUME Types, RequestInv, RouteFailure \/ OnHttpRequest
  PROVE  RequestInv'
<1>1. PICK e \in BusEvent : /\ Moves(queue, queue', 1, 1, e)
                            /\ queue # << >> /\ OnBus(queue, 1)
                            /\ e.type \in RequestTypes /\ e.data = queue[1].data
  BY AnswerAtOnceStep
<1>2. /\ queue \in Seq(BusEvent) /\ queue' \in Seq(BusEvent)
      /\ UNCHANGED <<asked, pending, answered>>
  BY AnswerAtOnceStep DEF RouteFailure, OnHttpRequest, Types, BusTypes
<1> DEFINE from(i) == IF i = Len(queue') THEN 1 ELSE i + 1
           to(i) == IF i = 1 THEN Len(queue') ELSE i - 1
<1>3. /\ Len(queue) \in Nat /\ Len(queue) > 0 /\ Len(queue') = Len(queue)
      /\ \A i \in 1 .. Len(queue') :
           \/ i \in 1 .. Len(queue) - 1 /\ queue'[i] = queue[i + 1]
           \/ i = Len(queue') /\ queue'[i] = e
      /\ \A i \in 1 .. Len(queue) : i > 1 => queue'[i - 1] = queue[i]
      /\ queue'[Len(queue')] = e
  <2>1. Len(queue) \in Nat /\ Len(queue) > 0
    BY <1>1, HeadEvent
  <2>2. QED
    BY <1>1, <1>2, <2>1, Positions
<1>4. ASSUME NEW i \in 1 .. Len(queue'), OnBus(queue', i)
      PROVE  from(i) \in 1 .. Len(queue) /\ OnBus(queue, from(i))
             /\ queue'[i].data = queue[from(i)].data
  BY <1>1, <1>3, <1>4 DEF OnBus
<1>5. ASSUME NEW i \in 1 .. Len(queue), OnBus(queue, i)
      PROVE  to(i) \in 1 .. Len(queue') /\ OnBus(queue', to(i))
             /\ queue'[to(i)].data = queue[i].data
  BY <1>1, <1>3, <1>5 DEF OnBus
<1>6. \A i, j \in 1 .. Len(queue') : from(i) = from(j) => i = j
  BY <1>3
<1> HIDE DEF from, to
<1>7. BusInv'
  <2>1. ASSUME NEW i \in 1 .. Len(queue'), OnBus(queue', i)
        PROVE  queue'[i].data.id \in Open'
    BY <1>2, <1>4, <2>1 DEF RequestInv, BusInv, Open
  <2>2. ASSUME NEW i \in 1 .. Len(queue'), OnBus(queue', i),
               NEW j \in 1 .. Len(queue'), OnBus(queue', j),
               queue'[j].data.id = queue'[i].data.id
        PROVE  i = j
    <3>1. from(i) = from(j)
      BY <1>4, <2>2 DEF RequestInv, BusInv
    <3>2. QED
      BY <1>6, <3>1
  <2>3. QED
    BY <2>1, <2>2 DEF BusInv
<1>8. DeviceInv'
  BY <1>2 DEF RequestInv, DeviceInv, Open
<1>9. ApartInv'
  BY <1>2, <1>4 DEF RequestInv, ApartInv
<1>10. SomewhereInv'
  BY <1>2, <1>5 DEF RequestInv, SomewhereInv, Open
<1>11. QED
  BY <1>2, <1>7, <1>8, <1>9, <1>10 DEF RequestInv

\* A request taken from the front of the queue leaves the others there.
LEMMA FrontRequestTaken ==
  ASSUME Types, RequestInv, queue # << >>, OnBus(queue, 1),
         queue' \in Seq(BusEvent), NEW e, Moves(queue, queue', 1, 0, e)
  PROVE  /\ queue[1].data.id \in Open
         /\ \A i \in 1 .. Len(queue') : OnBus(queue', i) =>
              /\ queue'[i].data.id \in Open
              /\ queue'[i].data.id # queue[1].data.id
              /\ i + 1 \in 1 .. Len(queue) /\ OnBus(queue, i + 1)
              /\ queue'[i] = queue[i + 1]
              /\ \A j \in 1 .. Len(queue') :
                   OnBus(queue', j) /\ queue'[j].data.id = queue'[i].data.id => i = j
         /\ \A i \in 1 .. Len(queue) : OnBus(queue, i) =>
              \/ i = 1
              \/ /\ i - 1 \in 1 .. Len(queue') /\ OnBus(queue', i - 1)
                 /\ queue'[i - 1] = queue[i]
<1>1. /\ Len(queue) \in Nat /\ Len(queue) > 0 /\ Len(queue') = Len(queue) - 1
      /\ \A i \in 1 .. Len(queue') :
           i + 1 \in 1 .. Len(queue) /\ queue'[i] = queue[i + 1]
      /\ \A i \in 1 .. Len(queue) : i > 1 =>
           i - 1 \in 1 .. Len(queue') /\ queue'[i - 1] = queue[i]
  <2>1. Len(queue) \in Nat /\ Len(queue) > 0 /\ queue \in Seq(BusEvent)
    BY HeadEvent
  <2>2. QED
    BY <2>1, Positions
<1>2. queue[1].data.id \in Open
  BY <1>1 DEF RequestInv, BusInv
<1>3. ASSUME NEW i \in 1 .. Len(queue'), OnBus(queue', i)
      PROVE  /\ i + 1 \in 1 .. Len(queue) /\ OnBus(queue, i + 1)
             /\ queue'[i] = queue[i + 1]
             /\ queue'[i].data.id \in Open
             /\ queue'[i].data.id # queue[1].data.id
  <2> DEFINE a == i + 1
  <2>1. a \in 1 .. Len(queue) /\ OnBus(queue, a) /\ queue'[i] = queue[a] /\ a # 1
        /\ 1 \in 1 .. Len(queue)
    BY <1>1, <1>3 DEF OnBus
  <2> HIDE DEF a
  <2>2. queue[a].data.id \in Open /\ queue[a].data.id # queue[1].data.id
    BY <2>1 DEF RequestInv, BusInv
  <2>3. QED
    BY <2>1, <2>2 DEF a
<1>4. ASSUME NEW i \in 1 .. Len(queue'), OnBus(queue', i),
             NEW j \in 1 .. Len(queue'), OnBus(queue', j),
             queue'[j].data.id = queue'[i].data.id
      PROVE  i = j
  <2> DEFINE a == i + 1
             b == j + 1
  <2>1. /\ a \in 1 .. Len(queue) /\ OnBus(queue, a)
        /\ b \in 1 .. Len(queue) /\ OnBus(queue, b)
        /\ queue[a].data.id = queue[b].data.id
    BY <1>3, <1>4
  <2> HIDE DEF a, b
  <2>2. a = b
    BY <2>1 DEF RequestInv, BusInv
  <2>3. QED
    BY <2>2 DEF a, b
<1>5. ASSUME NEW i \in 1 .. Len(queue), OnBus(queue, i), i # 1
      PROVE  /\ i - 1 \in 1 .. Len(queue') /\ OnBus(queue', i - 1)
             /\ queue'[i - 1] = queue[i]
  BY <1>1, <1>5 DEF OnBus
<1>6. QED
  BY <1>2, <1>3, <1>4, <1>5

\* From the bus to the end of a device's queue.
LEMMA RouteKeepsRequests ==
  ASSUME Types, RequestInv, Route
  PROVE  RequestInv'
<1> DEFINE r == queue[1].data
           d == r.to
           n == Len(pending[d]) + 1
<1>1. /\ queue # << >> /\ OnBus(queue, 1) /\ r \in ModbusRequest
      /\ queue' \in Seq(BusEvent) /\ Moves(queue, queue', 1, 0, 0)
      /\ d \in Devices
      /\ pending' = [pending EXCEPT ![d] = Append(@, r)]
      /\ UNCHANGED <<asked, answered>>
  BY RouteStep DEF Route
<1>2. /\ r.id \in Open
      /\ \A i \in 1 .. Len(queue') : OnBus(queue', i) =>
           /\ queue'[i].data.id \in Open
           /\ queue'[i].data.id # r.id
           /\ i + 1 \in 1 .. Len(queue) /\ OnBus(queue, i + 1)
           /\ queue'[i] = queue[i + 1]
           /\ \A j \in 1 .. Len(queue') :
                OnBus(queue', j) /\ queue'[j].data.id = queue'[i].data.id => i = j
      /\ \A i \in 1 .. Len(queue) : OnBus(queue, i) =>
           \/ i = 1
           \/ /\ i - 1 \in 1 .. Len(queue') /\ OnBus(queue', i - 1)
              /\ queue'[i - 1] = queue[i]
  BY <1>1, FrontRequestTaken
<1>3. \A c \in Devices :
        pending[c] \in Seq(ModbusRequest) /\ Len(pending[c]) \in Nat
  BY LenProperties DEF Types, FlowTypes
<1>4. /\ \A c \in Devices : c # d => pending'[c] = pending[c]
      /\ Len(pending'[d]) = n
      /\ \A j \in 1 .. Len(pending[d]) : pending'[d][j] = pending[d][j]
      /\ pending'[d][n] = r
  <2>1. pending'[d] = Append(pending[d], r)
        /\ \A c \in Devices : c # d => pending'[c] = pending[c]
    BY <1>1 DEF Types, FlowTypes
  <2>2. QED
    BY <1>1, <1>3, <2>1, AppendProperties
<1>5. ASSUME NEW c \in Devices, NEW j \in 1 .. Len(pending'[c])
      PROVE  \/ j \in 1 .. Len(pending[c]) /\ pending'[c][j] = pending[c][j]
             \/ c = d /\ j = n /\ pending'[c][j] = r
  BY <1>1, <1>3, <1>4
<1>6. ASSUME NEW c \in Devices, NEW j \in 1 .. Len(pending[c])
      PROVE  pending[c][j].id # r.id
  <2>1. 1 \in 1 .. Len(queue)
    BY <1>1, HeadEvent
  <2>2. QED
    BY <1>1, <1>6, <2>1 DEF RequestInv, ApartInv
<1>7. Open' = Open
  BY <1>1 DEF Open
<1> HIDE DEF r, d, n
<1>8. BusInv'
  BY <1>2, <1>7 DEF BusInv
<1>9. DeviceInv'
  <2>1. ASSUME NEW c \in Devices, NEW i \in 1 .. Len(pending'[c])
        PROVE  pending'[c][i].id \in Open
    BY <1>2, <1>5 DEF RequestInv, DeviceInv
  <2>2. ASSUME NEW c \in Devices, NEW i \in 1 .. Len(pending'[c]),
               NEW b \in Devices, NEW j \in 1 .. Len(pending'[b]),
               pending'[b][j].id = pending'[c][i].id
        PROVE  c = b /\ i = j
    <3>1. CASE i \in 1 .. Len(pending[c]) /\ pending'[c][i] = pending[c][i]
      <4>1. j \in 1 .. Len(pending[b]) /\ pending'[b][j] = pending[b][j]
        BY <1>5, <1>6, <2>2, <3>1
      <4>2. QED
        BY <2>2, <3>1, <4>1 DEF RequestInv, DeviceInv
    <3>2. CASE c = d /\ i = n /\ pending'[c][i] = r
      BY <1>5, <1>6, <2>2, <3>2
    <3>3. QED
      BY <1>5, <3>1, <3>2
  <2>3. QED
    BY <1>7, <2>1, <2>2 DEF DeviceInv
<1>10. ASSUME NEW i \in 1 .. Len(queue'), OnBus(queue', i),
              NEW c \in Devices, NEW j \in 1 .. Len(pending'[c])
       PROVE  pending'[c][j].id # queue'[i].data.id
  <2> DEFINE a == i + 1
  <2>1. /\ a \in 1 .. Len(queue) /\ OnBus(queue, a) /\ queue'[i] = queue[a]
        /\ queue[a].data.id # r.id
    BY <1>2, <1>10
  <2> HIDE DEF a
  <2>2. QED
    BY <1>5, <2>1 DEF RequestInv, ApartInv
<1>11. ApartInv'
  BY <1>10 DEF ApartInv
<1>12. SomewhereInv'
  <2> SUFFICES ASSUME NEW id \in Open
               PROVE
      \/ \E i \in 1 .. Len(queue') : OnBus(queue', i) /\ queue'[i].data.id = id
      \/ \E c \in Devices : \E j \in 1 .. Len(pending'[c]) : pending'[c][j].id = id
    BY <1>7 DEF SomewhereInv
  <2>1. CASE \E c \in Devices : \E j \in 1 .. Len(pending[c]) : pending[c][j].id = id
    <3>0. PICK c \in Devices :
            \E j \in 1 .. Len(pending[c]) : pending[c][j].id = id
      BY <2>1
    <3>1. PICK j \in 1 .. Len(pending[c]) : pending[c][j].id = id
      BY <3>0
    <3>2. j \in 1 .. Len(pending'[c]) /\ pending'[c][j] = pending[c][j]
      BY <1>3, <1>4 DEF n
    <3>3. QED
      BY <3>1, <3>2
  <2>2. ASSUME NEW i \in 1 .. Len(queue), OnBus(queue, i), queue[i].data.id = id
        PROVE
      \/ \E k \in 1 .. Len(queue') : OnBus(queue', k) /\ queue'[k].data.id = id
      \/ \E c \in Devices : \E j \in 1 .. Len(pending'[c]) : pending'[c][j].id = id
    <3>1. CASE i = 1
      <4>1. n \in 1 .. Len(pending'[d]) /\ pending'[d][n].id = id /\ d \in Devices
        BY <1>1, <1>3, <1>4, <2>2, <3>1 DEF n, r
      <4>2. QED
        BY <4>1
    <3>2. CASE i # 1
      BY <1>2, <2>2, <3>2
    <3>3. QED
      BY <3>1, <3>2
  <2>3. QED
    BY <2>1, <2>2 DEF RequestInv, SomewhereInv
<1>13. QED
  BY <1>1, <1>8, <1>9, <1>11, <1>12 DEF RequestInv

\* From the front of a device's queue to the end of the bus.
LEMMA AnswerKeepsRequests ==
  ASSUME Types, RequestInv, NEW d \in Devices, Answer(d)
  PROVE  RequestInv'
<1> DEFINE r == pending[d][1]
           n == Len(queue')
<1>1. PICK e \in BusEvent : /\ Moves(queue, queue', 0, 1, e)
                            /\ e.type \in RequestTypes /\ e.data = r
  BY AnswerStep
<1>2. /\ queue \in Seq(BusEvent) /\ queue' \in Seq(BusEvent)
      /\ pending[d] # << >>
      /\ pending' = [pending EXCEPT ![d] = Tail(@)]
      /\ UNCHANGED <<asked, answered>>
  BY AnswerStep DEF Answer, Types, BusTypes
<1>3. /\ Len(queue) \in Nat /\ n \in Nat
      /\ \A i \in 1 .. n : \/ i \in 1 .. Len(queue) /\ queue'[i] = queue[i]
                           \/ i = n /\ queue'[i] = e
      /\ \A i \in 1 .. Len(queue) : i \in 1 .. n /\ queue'[i] = queue[i]
      /\ n \in 1 .. n /\ queue'[n] = e
  BY <1>1, <1>2, Positions
<1>4. \A c \in Devices :
        pending[c] \in Seq(ModbusRequest) /\ Len(pending[c]) \in Nat
  BY LenProperties DEF Types, FlowTypes
<1>5. /\ \A c \in Devices : c # d => pending'[c] = pending[c]
      /\ Len(pending[d]) > 0 /\ Len(pending'[d]) = Len(pending[d]) - 1
      /\ \A j \in 1 .. Len(pending'[d]) : pending'[d][j] = pending[d][j + 1]
  <2>1. pending'[d] = Tail(pending[d])
        /\ \A c \in Devices : c # d => pending'[c] = pending[c]
    BY <1>2 DEF Types, FlowTypes
  <2>2. Len(pending[d]) \in Nat \ {0}
    BY <1>2, <1>4, EmptySeq
  <2>3. /\ Len(Tail(pending[d])) = Len(pending[d]) - 1
        /\ \A j \in 1 .. Len(Tail(pending[d])) :
             Tail(pending[d])[j] = pending[d][j + 1]
    BY <1>2, <1>4, HeadTailProperties
  <2>4. QED
    BY <2>1, <2>2, <2>3
<1> DEFINE was(c, j) == IF c = d THEN j + 1 ELSE j
<1>6. ASSUME NEW c \in Devices, NEW j \in 1 .. Len(pending'[c])
      PROVE  /\ was(c, j) \in 1 .. Len(pending[c])
             /\ pending'[c][j] = pending[c][was(c, j)]
             /\ c = d => was(c, j) # 1
  BY <1>4, <1>5
<1>7. ASSUME NEW c \in Devices, NEW j \in 1 .. Len(pending[c]), ~(c = d /\ j = 1)
      PROVE  \E k \in 1 .. Len(pending'[c]) : pending'[c][k] = pending[c][j]
  <2>1. CASE c = d
    <3>1. j - 1 \in 1 .. Len(pending'[d]) /\ pending'[d][j - 1] = pending[d][j]
      BY <1>4, <1>5, <1>7, <2>1
    <3>2. QED
      BY <2>1, <3>1
  <2>2. CASE c # d
    BY <1>5, <2>2
  <2>3. QED
    BY <2>1, <2>2
<1>8. \A c \in Devices : \A i, j \in 1 .. Len(pending'[c]) :
        was(c, i) = was(c, j) => i = j
  BY <1>4, <1>5
<1>9. Open' = Open /\ r.id \in Open /\ 1 \in 1 .. Len(pending[d])
  <2>1. 1 \in 1 .. Len(pending[d])
    BY <1>4, <1>5
  <2>2. r.id \in Open
    BY <2>1 DEF RequestInv, DeviceInv
  <2>3. QED
    BY <1>2, <2>1, <2>2 DEF Open
<1>10. /\ \A i \in 1 .. Len(queue) : OnBus(queue, i) =>
            /\ i \in 1 .. n /\ OnBus(queue', i) /\ queue'[i] = queue[i]
            /\ queue[i].data.id # r.id
       /\ \A i \in 1 .. n : OnBus(queue', i) =>
            \/ i \in 1 .. Len(queue) /\ OnBus(queue, i) /\ queue'[i] = queue[i]
            \/ i = n /\ queue'[i] = e
       /\ OnBus(queue', n)
  BY <1>1, <1>3, <1>9 DEF OnBus, RequestInv, ApartInv
<1> HIDE DEF r, n, was
<1>11. BusInv'
  <2> SUFFICES ASSUME NEW i \in 1 .. n, OnBus(queue', i)
               PROVE  /\ queue'[i].data.id \in Open
                      /\ \A j \in 1 .. n : OnBus(queue', j)
                           /\ queue'[j].data.id = queue'[i].data.id => i = j
    BY <1>9 DEF BusInv, n
  <2>1. QED
    BY <1>1, <1>9, <1>10 DEF RequestInv, BusInv
<1>12. DeviceInv'
  <2>1. ASSUME NEW c \in Devices, NEW i \in 1 .. Len(pending'[c])
        PROVE  pending'[c][i].id \in Open
    BY <1>6 DEF RequestInv, DeviceInv
  <2>2. ASSUME NEW c \in Devices, NEW i \in 1 .. Len(pending'[c]),
               NEW b \in Devices, NEW j \in 1 .. Len(pending'[b]),
               pending'[b][j].id = pending'[c][i].id
        PROVE  c = b /\ i = j
    <3>1. /\ was(c, i) \in 1 .. Len(pending[c])
          /\ was(b, j) \in 1 .. Len(pending[b])
          /\ pending[c][was(c, i)].id = pending[b][was(b, j)].id
      BY <1>6, <2>2
    <3>2. c = b /\ was(c, i) = was(b, j)
      BY <3>1 DEF RequestInv, DeviceInv
    <3>3. QED
      BY <1>8, <3>2
  <2>3. QED
    BY <1>9, <2>1, <2>2 DEF DeviceInv
<1>13. ASSUME NEW i \in 1 .. n, OnBus(queue', i),
              NEW c \in Devices, NEW j \in 1 .. Len(pending'[c])
       PROVE  pending'[c][j].id # queue'[i].data.id
  <2>1. /\ was(c, j) \in 1 .. Len(pending[c])
        /\ pending'[c][j] = pending[c][was(c, j)]
        /\ c = d => was(c, j) # 1
    BY <1>6
  <2>2. pending[c][was(c, j)].id # r.id
    BY <1>9, <2>1 DEF RequestInv, DeviceInv, r
  <2>3. QED
    BY <1>1, <1>10, <1>13, <2>1, <2>2 DEF RequestInv, ApartInv
<1>14. ApartInv'
  BY <1>13 DEF ApartInv, n
<1>15. SomewhereInv'
  <2> SUFFICES ASSUME NEW id \in Open
               PROVE
      \/ \E i \in 1 .. n : OnBus(queue', i) /\ queue'[i].data.id = id
      \/ \E c \in Devices : \E j \in 1 .. Len(pending'[c]) : pending'[c][j].id = id
    BY <1>9 DEF SomewhereInv, n
  <2>1. CASE \E i \in 1 .. Len(queue) : OnBus(queue, i) /\ queue[i].data.id = id
    BY <1>10, <2>1
  <2>2. ASSUME NEW c \in Devices, NEW j \in 1 .. Len(pending[c]),
               pending[c][j].id = id
        PROVE
      \/ \E i \in 1 .. n : OnBus(queue', i) /\ queue'[i].data.id = id
      \/ \E b \in Devices : \E k \in 1 .. Len(pending'[b]) : pending'[b][k].id = id
    <3>1. CASE c = d /\ j = 1
      BY <1>1, <1>3, <1>10, <2>2, <3>1 DEF r
    <3>2. CASE ~(c = d /\ j = 1)
      BY <1>7, <2>2, <3>2
    <3>3. QED
      BY <3>1, <3>2
  <2>3. QED
    BY <2>1, <2>2 DEF RequestInv, SomewhereInv
<1>16. QED
  BY <1>2, <1>11, <1>12, <1>14, <1>15 DEF RequestInv

\* The outcome of a request is the end of it.
LEMMA OutcomeKeepsRequests ==
  ASSUME Types, RequestInv, OnOutcome
  PROVE  RequestInv'
<1> DEFINE id0 == queue[1].data.id
<1>1. /\ queue # << >> /\ OnBus(queue, 1)
      /\ queue' \in Seq(BusEvent) /\ Moves(queue, queue', 1, 0, 0)
      /\ answered' = answered \cup {id0}
      /\ UNCHANGED <<asked, pending>>
  BY OutcomeStep
<1>2. /\ id0 \in Open
      /\ \A i \in 1 .. Len(queue') : OnBus(queue', i) =>
           /\ queue'[i].data.id \in Open
           /\ queue'[i].data.id # id0
           /\ i + 1 \in 1 .. Len(queue) /\ OnBus(queue, i + 1)
           /\ queue'[i] = queue[i + 1]
           /\ \A j \in 1 .. Len(queue') :
                OnBus(queue', j) /\ queue'[j].data.id = queue'[i].data.id => i = j
      /\ \A i \in 1 .. Len(queue) : OnBus(queue, i) =>
           \/ i = 1
           \/ /\ i - 1 \in 1 .. Len(queue') /\ OnBus(queue', i - 1)
              /\ queue'[i - 1] = queue[i]
  BY <1>1, FrontRequestTaken
<1>3. Open' = Open \ {id0} /\ answered' \subseteq 1 .. asked'
  BY <1>1, <1>2 DEF Open, RequestInv
<1>4. \A c \in Devices : \A j \in 1 .. Len(pending[c]) : pending[c][j].id # id0
  <2>1. 1 \in 1 .. Len(queue)
    BY <1>1, HeadEvent
  <2>2. QED
    BY <1>1, <2>1 DEF RequestInv, ApartInv
<1> HIDE DEF id0
<1>5. BusInv'
  BY <1>2, <1>3 DEF BusInv
<1>6. DeviceInv'
  BY <1>1, <1>3, <1>4 DEF RequestInv, DeviceInv
<1>7. ASSUME NEW i \in 1 .. Len(queue'), OnBus(queue', i),
             NEW c \in Devices, NEW j \in 1 .. Len(pending[c])
      PROVE  pending[c][j].id # queue'[i].data.id
  <2> DEFINE a == i + 1
  <2>1. a \in 1 .. Len(queue) /\ OnBus(queue, a) /\ queue'[i] = queue[a]
    BY <1>2, <1>7
  <2> HIDE DEF a
  <2>2. QED
    BY <2>1 DEF RequestInv, ApartInv
<1>8. ApartInv'
  BY <1>1, <1>7 DEF ApartInv
<1>9. SomewhereInv'
  <2> SUFFICES ASSUME NEW id \in Open, id # id0,
                      NEW i \in 1 .. Len(queue),
                      OnBus(queue, i), queue[i].data.id = id
               PROVE  \E k \in 1 .. Len(queue') :
                        OnBus(queue', k) /\ queue'[k].data.id = id
    BY <1>1, <1>3 DEF RequestInv, SomewhereInv
  <2>1. i # 1
    BY DEF id0
  <2>2. QED
    BY <1>2, <2>1
<1>10. QED
  BY <1>3, <1>5, <1>6, <1>8, <1>9 DEF RequestInv

-----------------------------------------------------------------------------
(* Samples                                                                 *)

\* The steps that move a sample.
OfSample == Sample \/ OnSample \/ OnTelemetry \/ OnBroadcast

\* What a step does to the bus, as samples and messages see it.
LEMMA BusStep ==
  ASSUME Types, CommandInv, [Next]_vars
  PROVE  \E m, n \in {0, 1}, e \in BusEvent :
           /\ Moves(queue, queue', m, n, e)
           /\ m = 1 => /\ queue # << >> /\ (lpc = "idle" \/ CopyValue)
                       /\ IsSample(queue[1]) => OfSample
           /\ n = 1 => /\ IsSample(e) => OfSample
                       /\ e.type = "WS_MESSAGE_RECEIVED" => PublishMessage
<1> DEFINE OK(m, n, e) ==
             /\ Moves(queue, queue', m, n, e)
             /\ m = 1 => /\ queue # << >> /\ (lpc = "idle" \/ CopyValue)
                         /\ IsSample(queue[1]) => OfSample
             /\ n = 1 => /\ IsSample(e) => OfSample
                         /\ e.type = "WS_MESSAGE_RECEIVED" => PublishMessage
<1> USE DEF IsSample, SampleTypes, OnBus, RequestTypes, ModbusTypes, HttpTypes
<1> SUFFICES \E m, n \in {0, 1}, e \in BusEvent : OK(m, n, e)
  OBVIOUS
<1>1. [type |-> "WS_MESSAGE_RECEIVED", data |-> 0] \in BusEvent
  BY DEF BusEvent
<1>2. CASE UNCHANGED queue
  <2>1. queue \in Seq(BusEvent) /\ Len(queue) \in Nat
    BY LenProperties DEF Types, BusTypes
  <2>2. \A e : OK(0, 0, e)
    BY <1>2, <2>1 DEF Moves
  <2>3. QED
    BY <1>1, <2>2
<1>3. CASE Ask
  BY <1>3, AskStep
<1>4. CASE RouteFailure \/ OnHttpRequest
  BY <1>4, AnswerAtOnceStep DEF RouteFailure, OnHttpRequest, Dispatch
<1>5. CASE Route
  BY <1>1, <1>5, RouteStep DEF Route, Dispatch
<1>6. CASE OnOutcome
  BY <1>1, <1>6, OutcomeStep
  DEF OnOutcome, Outcomes, Dispatch
<1>7. ASSUME NEW d \in Devices, Answer(d)
      PROVE  \E m, n \in {0, 1}, e \in BusEvent : OK(m, n, e)
  BY <1>7, AnswerStep
<1>8. CASE Sample
  BY <1>8, SampleStep DEF OfSample
<1>9. ASSUME NEW c \in Clients, ConnectClient(c)
      PROVE  \E m, n \in {0, 1}, e \in BusEvent : OK(m, n, e)
  BY <1>9, ConnectStep
<1>10. CASE OnSample \/ OnTelemetry
  BY <1>10, ForwardStep DEF OfSample, OnSample, OnTelemetry, Dispatch
<1>11. CASE OnBroadcast
  BY <1>1, <1>11, BroadcastStep DEF OfSample, OnBroadcast, Dispatch
<1>12. CASE OnIgnored
  BY <1>1, <1>12, IgnoredStep
<1>13. CASE PublishMessage
  BY <1>13, MessageStep
<1>14. CASE CopyValue
  BY <1>14, CommandStep
<1>15. QED
  BY <1>2, <1>3, <1>4, <1>5, <1>6, <1>7, <1>8, <1>9, <1>10, <1>11, <1>12, <1>13,
     <1>14, NextCases
  DEF Aside, Run, SetAddr, SetValue, CopyAddr, vars

\* The samples on the bus are numbered, and are at a stage of their way.
LEMMA SampleEvents ==
  ASSUME Types, NEW i \in 1 .. Len(queue), IsSample(queue[i])
  PROVE  queue[i].data \in Nat /\ Stage(queue[i]) \in 1 .. 3
<1>1. queue[i] \in BusEvent
  BY ElementOfSeq DEF Types, BusTypes
<1>2. QED
  BY <1>1, EventData DEF IsSample, Stage, SampleTypes

\* Steps that move no sample.
LEMMA OthersKeepSamples ==
  ASSUME Types, SampleInv, CommandInv, [Next]_vars, ~OfSample
  PROVE  SampleInv'
<1>1. PICK m \in {0, 1}, n \in {0, 1}, e \in BusEvent :
        /\ Moves(queue, queue', m, n, e)
        /\ m = 1 => queue # << >> /\ ~IsSample(queue[1])
        /\ n = 1 => ~IsSample(e)
  BY BusStep
<1>2. queue \in Seq(BusEvent) /\ queue' \in Seq(BusEvent)
  BY TypesNext DEF Types, BusTypes
<1>3. /\ \A i \in 1 .. Len(queue') : IsSample(queue'[i]) =>
           i + m \in 1 .. Len(queue) /\ queue'[i] = queue[i + m]
      /\ \A i \in 1 .. Len(queue) : IsSample(queue[i]) =>
           i - m \in 1 .. Len(queue') /\ queue'[i - m] = queue[i]
  <2>1. /\ Len(queue) \in Nat /\ Len(queue') \in Nat
        /\ \A i \in 1 .. Len(queue') :
             \/ i + m \in 1 .. Len(queue) /\ queue'[i] = queue[i + m]
             \/ n = 1 /\ queue'[i] = e
        /\ \A i \in 1 .. Len(queue) : i > m =>
             i - m \in 1 .. Len(queue') /\ queue'[i - m] = queue[i]
    BY <1>1, <1>2, Positions
  <2>2. \A i \in 1 .. Len(queue) : IsSample(queue[i]) => i > m
    BY <1>1, <2>1
  <2>3. QED
    BY <1>1, <2>1, <2>2
<1>4. OrderInv'
  <2> SUFFICES ASSUME NEW i \in 1 .. Len(queue'), NEW j \in 1 .. Len(queue'),
                      IsSample(queue'[i]), IsSample(queue'[j]), i # j
               PROVE  /\ queue'[i].data # queue'[j].data
                      /\ queue'[i].data < queue'[j].data =>
                           \/ Stage(queue'[i]) > Stage(queue'[j])
                           \/ Stage(queue'[i]) = Stage(queue'[j]) /\ i < j
    BY DEF OrderInv
  <2> DEFINE a == i + m
             b == j + m
  <2>1. /\ a \in 1 .. Len(queue) /\ queue'[i] = queue[a]
        /\ b \in 1 .. Len(queue) /\ queue'[j] = queue[b]
        /\ a # b /\ (a < b <=> i < j)
    BY <1>3
  <2> HIDE DEF a, b
  <2>2. QED
    BY <2>1 DEF SampleInv, OrderInv
<1>5. PICK n0 \in 0 .. samples : Broadcast(n0)
  BY DEF SampleInv
<1>6. /\ UNCHANGED <<samples, got>> /\ (running => running')
      /\ \/ UNCHANGED clients
         \/ ~running /\ \E c \in Clients : clients' = Append(clients, c)
  <2>1. CASE Run
    BY <2>1 DEF Run
  <2>2. ASSUME NEW c \in Clients, ConnectClient(c)
        PROVE  /\ ~running /\ clients' = Append(clients, c)
               /\ UNCHANGED <<samples, got, running>>
    BY <2>2 DEF ConnectClient
  <2>3. CASE UNCHANGED <<running, telemetry>>
    BY <2>3
  <2>4. QED
    BY <2>1, <2>2, <2>3
    DEF OfSample, Next, Loop, Ask, Route, RouteFailure, OnHttpRequest, Answer,
        OnOutcome, OnIgnored,
        SetAddr, SetValue, PublishMessage, CopyAddr, CopyValue, vars
<1>7. \A i \in 1 .. Len(clients') : Len(got[clients'[i]]) = n0
  <2>1. CASE UNCHANGED clients
    BY <1>5, <2>1 DEF Broadcast
  <2>2. ASSUME NEW c \in Clients, ~running, clients' = Append(clients, c)
        PROVE  \A i \in 1 .. Len(clients') : Len(got[clients'[i]]) = n0
    <3>1. n0 = 0 /\ Len(got[c]) = 0
      <4>1. Len(got[c]) \in Nat
        BY LenProperties DEF Types, TelemetryTypes
      <4>2. n0 = 0 /\ Len(got[c]) <= n0
        BY <1>5, <2>2 DEF Broadcast
      <4>3. QED
        BY <4>1, <4>2
    <3>2. clients \in Seq(Clients) /\ Len(clients) \in Nat
      BY LenProperties DEF Types, TelemetryTypes
    <3>3. /\ Len(clients') = Len(clients) + 1 /\ clients'[Len(clients) + 1] = c
          /\ \A i \in 1 .. Len(clients) : clients'[i] = clients[i]
      BY <2>2, <3>2, AppendProperties
    <3>4. QED
      BY <1>5, <3>1, <3>2, <3>3 DEF Broadcast
  <2>3. QED
    BY <1>6, <2>1, <2>2
<1>8. /\ \A i \in 1 .. Len(queue') : IsSample(queue'[i]) =>
           queue'[i].data \in n0 + 1 .. samples
      /\ \A k \in n0 + 1 .. samples : \E i \in 1 .. Len(queue') :
           IsSample(queue'[i]) /\ queue'[i].data = k
  <2>1. ASSUME NEW k \in n0 + 1 .. samples
        PROVE  \E i \in 1 .. Len(queue') : IsSample(queue'[i]) /\ queue'[i].data = k
    <3>1. PICK i \in 1 .. Len(queue) : IsSample(queue[i]) /\ queue[i].data = k
      BY <1>5 DEF Broadcast
    <3>2. QED
      BY <1>3, <3>1
  <2>2. QED
    BY <1>3, <1>5, <2>1 DEF Broadcast
<1>9. Broadcast(n0)'
  BY <1>5, <1>6, <1>7, <1>8 DEF Broadcast, Types, BusTypes
<1>10. QED
  BY <1>4, <1>6, <1>9 DEF SampleInv

\* A new sample is the youngest and at the beginning of its way.
LEMMA SampleKeepsSamples ==
  ASSUME Types, SampleInv, Sample
  PROVE  SampleInv'
<1>1. PICK e \in BusEvent : /\ Moves(queue, queue', 0, 1, e)
                            /\ queue' \in Seq(BusEvent)
                            /\ e.type = "MODBUS_SAMPLE_RECEIVED"
                            /\ e.data = samples + 1
  BY SampleStep
<1>2. /\ Len(queue) \in Nat /\ Len(queue') = Len(queue) + 1
      /\ \A i \in 1 .. Len(queue) : queue'[i] = queue[i]
      /\ queue'[Len(queue) + 1] = e
  <2>1. queue \in Seq(BusEvent) /\ Len(queue) \in Nat
    BY LenProperties DEF Types, BusTypes
  <2>2. QED
    BY <1>1, <2>1 DEF Moves
<1>3. IsSample(e) /\ Stage(e) = 1
  BY <1>1 DEF IsSample, Stage, SampleTypes
<1>4. PICK n \in 0 .. samples : Broadcast(n)
  BY DEF SampleInv
<1>5. /\ samples \in Nat /\ samples' = samples + 1
      /\ UNCHANGED <<clients, got, running>>
  BY DEF Sample, Types, TelemetryTypes
<1>6. \A i \in 1 .. Len(queue) : IsSample(queue[i]) =>
        /\ queue[i].data \in n + 1 .. samples /\ Stage(queue[i]) \in 1 .. 3
  BY <1>4, SampleEvents DEF Broadcast
<1>7. OrderInv'
  <2> SUFFICES ASSUME NEW i \in 1 .. Len(queue'), NEW j \in 1 .. Len(queue'),
                      IsSample(queue'[i]), IsSample(queue'[j]), i # j
               PROVE  /\ queue'[i].data # queue'[j].data
                      /\ queue'[i].data < queue'[j].data =>
                           \/ Stage(queue'[i]) > Stage(queue'[j])
                           \/ Stage(queue'[i]) = Stage(queue'[j]) /\ i < j
    BY DEF OrderInv
  <2>1. CASE i \in 1 .. Len(queue) /\ j \in 1 .. Len(queue)
    BY <1>2, <2>1 DEF SampleInv, OrderInv
  <2>2. CASE i = Len(queue) + 1
    BY <1>1, <1>2, <1>5, <1>6, <2>2
  <2>3. CASE j = Len(queue) + 1
    BY <1>1, <1>2, <1>3, <1>5, <1>6, <2>3
  <2>4. QED
    BY <1>2, <2>1, <2>2, <2>3
<1>8. /\ \A i \in 1 .. Len(queue') : IsSample(queue'[i]) =>
           queue'[i].data \in n + 1 .. samples'
      /\ \A k \in n + 1 .. samples' : \E i \in 1 .. Len(queue') :
           IsSample(queue'[i]) /\ queue'[i].data = k
  <2>1. ASSUME NEW k \in n + 1 .. samples'
        PROVE  \E i \in 1 .. Len(queue') : IsSample(queue'[i]) /\ queue'[i].data = k
    <3>1. CASE k = samples + 1
      BY <1>1, <1>2, <1>3, <3>1
    <3>2. CASE k # samples + 1
      <4>1. PICK i \in 1 .. Len(queue) : IsSample(queue[i]) /\ queue[i].data = k
        BY <1>4, <1>5, <3>2 DEF Broadcast
      <4>2. QED
        BY <1>2, <4>1
    <3>3. QED
      BY <3>1, <3>2
  <2>2. ASSUME NEW i \in 1 .. Len(queue'), IsSample(queue'[i])
        PROVE  queue'[i].data \in n + 1 .. samples'
    BY <1>1, <1>2, <1>4, <1>5, <1>6, <2>2
  <2>3. QED
    BY <2>1, <2>2
<1>9. Broadcast(n)'
  BY <1>4, <1>5, <1>8 DEF Broadcast
<1>10. QED
  BY <1>5, <1>7, <1>9 DEF SampleInv

\* A sample moves on to the end of the queue as the event of its next stage.
LEMMA ForwardKeepsSamples ==
  ASSUME Types, SampleInv, OnSample \/ OnTelemetry
  PROVE  SampleInv'
<1>1. PICK e \in BusEvent :
        /\ Moves(queue, queue', 1, 1, e)
        /\ queue' \in Seq(BusEvent)
        /\ queue # << >>
        /\ \/ /\ queue[1].type = "MODBUS_SAMPLE_RECEIVED"
              /\ e.type = "TELEMETRY_UPDATED"
           \/ queue[1].type = "TELEMETRY_UPDATED" /\ e.type = "WS_BROADCAST"
        /\ e.data = queue[1].data
  BY ForwardStep
<1>2. /\ IsSample(queue[1]) /\ IsSample(e) /\ Stage(e) = Stage(queue[1]) + 1
  BY <1>1 DEF IsSample, Stage, SampleTypes
<1> DEFINE n == Len(queue)
<1>3. /\ n \in Nat /\ n > 0 /\ Len(queue') = n
      /\ \A i \in 1 .. n - 1 : queue'[i] = queue[i + 1]
      /\ queue'[n] = e
  <2>1. n \in Nat /\ n > 0
    BY <1>1, HeadEvent
  <2>2. QED
    BY <1>1, <2>1 DEF Moves
<1> HIDE DEF n
<1>4. /\ samples \in Nat /\ UNCHANGED <<samples, clients, got, running>>
  BY DEF OnSample, OnTelemetry, Types, TelemetryTypes
<1> DEFINE from(i) == IF i = n THEN 1 ELSE i + 1
<1>5. \A i \in 1 .. n :
        /\ from(i) \in 1 .. n /\ queue'[i].data = queue[from(i)].data
        /\ IsSample(queue'[i]) <=> IsSample(queue[from(i)])
        /\ i # n => queue'[i] = queue[from(i)]
        /\ from(i) = 1 <=> i = n
  BY <1>1, <1>2, <1>3
<1>6. \A i, j \in 1 .. n : /\ i # j => from(i) # from(j)
                           /\ from(i) < from(j) /\ i # n /\ j # n => i < j
  BY <1>3
<1>7. \A i \in 1 .. n : IsSample(queue[i]) =>
        queue[i].data \in Nat /\ Stage(queue[i]) \in 1 .. 3
  BY SampleEvents DEF n
<1>8. \A i, j \in 1 .. n : IsSample(queue[i]) /\ IsSample(queue[j]) /\ i # j =>
        /\ queue[i].data # queue[j].data
        /\ queue[i].data < queue[j].data =>
             \/ Stage(queue[i]) > Stage(queue[j])
             \/ Stage(queue[i]) = Stage(queue[j]) /\ i < j
  BY DEF SampleInv, OrderInv, n
<1>9. OrderInv'
  <2> SUFFICES ASSUME NEW i \in 1 .. n, NEW j \in 1 .. n,
                      IsSample(queue'[i]), IsSample(queue'[j]), i # j
               PROVE  /\ queue'[i].data # queue'[j].data
                      /\ queue'[i].data < queue'[j].data =>
                           \/ Stage(queue'[i]) > Stage(queue'[j])
                           \/ Stage(queue'[i]) = Stage(queue'[j]) /\ i < j
    BY <1>3 DEF OrderInv
  <2> DEFINE a == from(i)
             b == from(j)
  <2>1. /\ a \in 1 .. n /\ b \in 1 .. n /\ a # b
        /\ IsSample(queue[a]) /\ IsSample(queue[b])
        /\ queue'[i].data = queue[a].data /\ queue'[j].data = queue[b].data
        /\ i # n => queue'[i] = queue[a]
        /\ j # n => queue'[j] = queue[b]
        /\ a = 1 <=> i = n
        /\ b = 1 <=> j = n
        /\ a < b /\ i # n /\ j # n => i < j
    BY <1>5, <1>6
  <2> HIDE DEF a, b, from
  <2>2. /\ queue[a].data # queue[b].data
        /\ queue[a].data < queue[b].data =>
             \/ Stage(queue[a]) > Stage(queue[b])
             \/ Stage(queue[a]) = Stage(queue[b]) /\ a < b
        /\ Stage(queue[a]) \in 1 .. 3 /\ Stage(queue[b]) \in 1 .. 3
    BY <1>7, <1>8, <2>1
  <2>3. CASE i = n
    BY <1>2, <1>3, <2>1, <2>2, <2>3
  <2>4. CASE j = n
    BY <1>2, <1>3, <2>1, <2>2, <2>4
  <2>5. CASE i # n /\ j # n
    BY <2>1, <2>2, <2>5
  <2>6. QED
    BY <2>3, <2>4, <2>5
<1>10. PICK k0 \in 0 .. samples : Broadcast(k0)
  BY DEF SampleInv
<1>11. \A i \in 1 .. Len(queue') : IsSample(queue'[i]) =>
         queue'[i].data \in k0 + 1 .. samples
  BY <1>3, <1>5, <1>10 DEF Broadcast, n
<1>12. ASSUME NEW k \in k0 + 1 .. samples
       PROVE  \E i \in 1 .. Len(queue') : IsSample(queue'[i]) /\ queue'[i].data = k
  <2>1. PICK i \in 1 .. n : IsSample(queue[i]) /\ queue[i].data = k
    BY <1>10 DEF Broadcast, n
  <2>2. CASE i = 1
    BY <1>1, <1>2, <1>3, <2>1, <2>2
  <2>3. CASE i # 1
    <3>1. i - 1 \in 1 .. n - 1 /\ queue'[i - 1] = queue[i]
      BY <1>3, <2>3
    <3>2. QED
      BY <1>3, <2>1, <3>1
  <2>4. QED
    BY <2>2, <2>3
<1>13. Broadcast(k0)'
  BY <1>4, <1>10, <1>11, <1>12 DEF Broadcast
<1>14. QED
  BY <1>4, <1>9, <1>13 DEF SampleInv

\* What is broadcast is the oldest sample on the bus.
LEMMA OldestIsBroadcast ==
  ASSUME Types, OrderInv, queue # << >>, queue[1].type = "WS_BROADCAST",
         NEW n \in 0 .. samples, Broadcast(n)
  PROVE  queue[1].data = n + 1 /\ n + 1 <= samples
<1>1. 1 \in 1 .. Len(queue) /\ Len(queue) \in Nat
  BY HeadEvent
<1>2. IsSample(queue[1]) /\ Stage(queue[1]) = 3
  BY DEF IsSample, Stage, SampleTypes
<1>3. queue[1].data \in n + 1 .. samples /\ samples \in Nat
  BY <1>1, <1>2 DEF Broadcast, Types, TelemetryTypes
<1>4. PICK i \in 1 .. Len(queue) : IsSample(queue[i]) /\ queue[i].data = n + 1
  BY <1>3 DEF Broadcast
<1>5. CASE i # 1
  <2>1. /\ queue[i].data < queue[1].data =>
             \/ Stage(queue[i]) > Stage(queue[1])
             \/ Stage(queue[i]) = Stage(queue[1]) /\ i < 1
        /\ queue[i].data # queue[1].data
    BY <1>1, <1>2, <1>4, <1>5 DEF OrderInv
  <2>2. Stage(queue[i]) \in 1 .. 3
    BY <1>4, SampleEvents
  <2>3. QED
    BY <1>2, <1>3, <1>4, <2>1, <2>2
<1>6. QED
  BY <1>3, <1>4, <1>5

\* Every connected client sees the oldest sample, and it leaves the bus.
LEMMA BroadcastKeepsSamples ==
  ASSUME Types, SampleInv, OnBroadcast
  PROVE  SampleInv'
<1>1. /\ queue # << >> /\ queue[1].type = "WS_BROADCAST" /\ running
      /\ Moves(queue, queue', 1, 0, 0)
      /\ got' = [c \in Clients |->
                   IF \E i \in 1 .. Len(clients) : clients[i] = c
                   THEN Append(got[c], queue[1].data) ELSE got[c]]
  BY BroadcastStep
<1>2. PICK n \in 0 .. samples : Broadcast(n)
  BY DEF SampleInv
<1>3. queue[1].data = n + 1 /\ n + 1 \in 0 .. samples
  BY <1>1, <1>2, OldestIsBroadcast DEF SampleInv, Types, TelemetryTypes
<1>4. /\ Len(queue) \in Nat /\ Len(queue) > 0 /\ Len(queue') = Len(queue) - 1
      /\ \A i \in 1 .. Len(queue') : queue'[i] = queue[i + 1]
      /\ \A i \in 1 .. Len(queue) : i # 1 =>
           i - 1 \in 1 .. Len(queue') /\ queue'[i - 1] = queue[i]
  <2>1. Len(queue) \in Nat /\ Len(queue) > 0
    BY <1>1, HeadEvent
  <2>2. /\ Len(queue') = Len(queue) - 1
        /\ \A i \in 1 .. Len(queue') : queue'[i] = queue[i + 1]
    BY <1>1, <2>1 DEF Moves
  <2>3. ASSUME NEW i \in 1 .. Len(queue), i # 1
        PROVE  i - 1 \in 1 .. Len(queue') /\ queue'[i - 1] = queue[i]
    BY <2>1, <2>2, <2>3
  <2>4. QED
    BY <2>1, <2>2, <2>3
<1>5. UNCHANGED <<running, samples, clients>> /\ samples \in Nat
  BY DEF OnBroadcast, Types, TelemetryTypes
<1>6. IsSample(queue[1])
  BY <1>1 DEF IsSample, SampleTypes
<1>7. OrderInv'
  <2> SUFFICES ASSUME NEW i \in 1 .. Len(queue'), NEW j \in 1 .. Len(queue'),
                      IsSample(queue'[i]), IsSample(queue'[j]), i # j
               PROVE  /\ queue'[i].data # queue'[j].data
                      /\ queue'[i].data < queue'[j].data =>
                           \/ Stage(queue'[i]) > Stage(queue'[j])
                           \/ Stage(queue'[i]) = Stage(queue'[j]) /\ i < j
    BY DEF OrderInv
  <2> DEFINE a == i + 1
             b == j + 1
  <2>1. /\ a \in 1 .. Len(queue) /\ queue'[i] = queue[a]
        /\ b \in 1 .. Len(queue) /\ queue'[j] = queue[b]
        /\ a # b /\ (a < b <=> i < j)
    BY <1>4
  <2> HIDE DEF a, b
  <2>2. QED
    BY <2>1 DEF SampleInv, OrderInv
<1>8. ASSUME NEW i \in 1 .. Len(queue'), IsSample(queue'[i])
      PROVE  queue'[i].data \in n + 2 .. samples
  <2> DEFINE a == i + 1
  <2>1. /\ a \in 1 .. Len(queue) /\ queue'[i] = queue[a] /\ a # 1
        /\ 1 \in 1 .. Len(queue)
    BY <1>4
  <2> HIDE DEF a
  <2>2. queue[a].data \in n + 1 .. samples /\ queue[a].data # n + 1
    BY <1>2, <1>3, <1>6, <1>8, <2>1 DEF SampleInv, OrderInv, Broadcast
  <2>3. QED
    BY <1>5, <2>1, <2>2
<1>9. ASSUME NEW k \in n + 2 .. samples
      PROVE  \E i \in 1 .. Len(queue') : IsSample(queue'[i]) /\ queue'[i].data = k
  <2>1. PICK i \in 1 .. Len(queue) : IsSample(queue[i]) /\ queue[i].data = k
    BY <1>2, <1>5 DEF Broadcast
  <2>2. i # 1
    BY <1>3, <2>1
  <2>3. QED
    BY <1>4, <2>1, <2>2
<1>10. ASSUME NEW c \in Clients
       PROVE  /\ got[c] \in Seq(Nat) /\ Len(got[c]) \in Nat /\ Len(got[c]) <= n
              /\ \A k \in 1 .. Len(got[c]) : got[c][k] = k
  BY <1>2, LenProperties DEF Broadcast, Types, TelemetryTypes
<1>11. ASSUME NEW c \in Clients, \E i \in 1 .. Len(clients) : clients[i] = c
       PROVE  /\ Len(got'[c]) = n + 1
              /\ \A k \in 1 .. Len(got'[c]) : got'[c][k] = k
  <2>1. got'[c] = Append(got[c], n + 1) /\ Len(got[c]) = n
    BY <1>1, <1>2, <1>3, <1>11 DEF Broadcast
  <2>2. /\ Len(got'[c]) = n + 1 /\ got'[c][n + 1] = n + 1
        /\ \A k \in 1 .. n : got'[c][k] = got[c][k]
    BY <1>3, <1>10, <2>1, AppendProperties
  <2>3. QED
    BY <1>10, <2>1, <2>2
<1>12. ASSUME NEW c \in Clients
       PROVE  /\ Len(got'[c]) <= n + 1
              /\ \A k \in 1 .. Len(got'[c]) : got'[c][k] = k
  <2>1. CASE \E i \in 1 .. Len(clients) : clients[i] = c
    BY <1>11, <2>1
  <2>2. CASE ~\E i \in 1 .. Len(clients) : clients[i] = c
    <3>1. got'[c] = got[c]
      BY <1>1, <2>2
    <3>2. QED
      BY <1>10, <3>1
  <2>3. QED
    BY <2>1, <2>2
<1>13. \A i \in 1 .. Len(clients) : Len(got'[clients[i]]) = n + 1
  <2>1. \A i \in 1 .. Len(clients) : clients[i] \in Clients
    BY ElementOfSeq DEF Types, TelemetryTypes
  <2>2. QED
    BY <1>11, <2>1
<1> DEFINE n1 == n + 1
<1>14. Broadcast(n1)'
  <2>1. n1 + 1 = n + 2
    OBVIOUS
  <2>2. QED
    BY <1>1, <1>5, <1>8, <1>9, <1>12, <1>13, <2>1 DEF Broadcast
<1>15. QED
  <2>1. n1 \in 0 .. samples'
    BY <1>3, <1>5
  <2> HIDE DEF n1
  <2>2. QED
    BY <1>7, <1>14, <2>1 DEF SampleInv

LEMMA SampleInvNext ==
  ASSUME Types, SampleInv, CommandInv, [Next]_vars
  PROVE  SampleInv'
BY OthersKeepSamples, SampleKeepsSamples, ForwardKeepsSamples,
   BroadcastKeepsSamples DEF OfSample

-----------------------------------------------------------------------------
(* Commands                                                                *)

\* Steps of others: messages on the bus stay in front, or are passed by.
LEMMA OthersKeepCommands ==
  ASSUME Types, CommandInv, [Next]_vars, UNCHANGED control
  PROVE  CommandInv'
<1>1. PICK m \in {0, 1}, n \in {0, 1}, e \in BusEvent :
        /\ Moves(queue, queue', m, n, e)
        /\ m = 1 => queue # << >> /\ lpc = "idle"
        /\ n = 1 => e.type # "WS_MESSAGE_RECEIVED"
  <2>1. ~PublishMessage /\ ~CopyValue
    BY DEF PublishMessage, CopyValue
  <2>2. QED
    BY <2>1, BusStep
<1>2. queue \in Seq(BusEvent) /\ queue' \in Seq(BusEvent)
  BY TypesNext DEF Types, BusTypes
<1>3. /\ Len(queue) \in Nat /\ Len(queue') \in Nat
      /\ \A i \in 1 .. Len(queue') :
           \/ i + m \in 1 .. Len(queue) /\ queue'[i] = queue[i + m]
           \/ n = 1 /\ queue'[i] = e
      /\ \A i \in 1 .. Len(queue) : i > m =>
           i - m \in 1 .. Len(queue') /\ queue'[i - m] = queue[i]
  BY <1>1, <1>2, Positions
<1>4. \A i \in 1 .. Len(queue') :
        queue'[i].type = "WS_MESSAGE_RECEIVED" => queue'[i].data <= cmd.value
  BY <1>1, <1>3 DEF CommandInv
<1>5. lpc = "command" => queue' # << >> /\ queue'[1] = queue[1]
  <2>1. ASSUME lpc = "command"
        PROVE  queue' # << >> /\ queue'[1] = queue[1]
    <3>1. m = 0 /\ queue # << >>
      BY <1>1, <2>1 DEF CommandInv
    <3>2. Len(queue) > 0
      BY <3>1, HeadEvent
    <3>3. 1 \in 1 .. Len(queue') /\ queue'[1] = queue[1]
      BY <1>3, <3>1, <3>2
    <3>4. QED
      BY <1>2, <3>3, EmptySeq
  <2>2. QED
    BY <2>1
<1>6. CommandNotOlder'
  BY DEF CommandInv, CommandNotOlder
<1>7. QED
  BY <1>4, <1>5, <1>6 DEF CommandInv

\* The thread that simulates clients: a new message makes the two halves newer.
LEMMA ClientKeepsCommands ==
  ASSUME Types, CommandInv, SetAddr \/ SetValue
  PROVE  CommandInv'
<1>1. /\ messages \in Nat /\ cmd \in [addr : Nat, value : Nat] /\ copied \in Nat
      /\ \A i \in 1 .. Len(commands) : commands[i].addr \in Nat
      /\ queue \in Seq(BusEvent)
  <2>1. \A i \in 1 .. Len(commands) : commands[i] \in Command
    BY ElementOfSeq DEF Types, ControlTypes
  <2>2. QED
    BY <2>1 DEF Types, BusTypes, ControlTypes, Command
<1>2. \A i \in 1 .. Len(queue) :
        queue[i].type = "WS_MESSAGE_RECEIVED" => queue[i].data \in Nat
  BY <1>1, ElementOfSeq, EventData
<1>3. \A i \in 1 .. Len(commands) : commands[i].value \in Nat
  <2>1. \A i \in 1 .. Len(commands) : commands[i] \in Command
    BY ElementOfSeq DEF Types, ControlTypes
  <2>2. QED
    BY <2>1 DEF Command
<1>4. UNCHANGED <<queue, lpc, copied, commands>>
  BY DEF SetAddr, SetValue
<1>5. CommandNotOlder'
  BY <1>4 DEF CommandInv, CommandNotOlder
<1>6. CASE SetAddr
  <2>1. /\ messages' = messages + 1 /\ cmd'.addr = messages + 1
        /\ cmd'.value = cmd.value /\ spc' = "addr" /\ cmd.value = messages
        /\ cmd.addr = messages
    BY <1>1, <1>6 DEF SetAddr, CommandInv
  <2>2. QED
    BY <1>1, <1>2, <1>3, <1>4, <1>5, <2>1 DEF CommandInv
<1>7. CASE SetValue
  <2>1. /\ messages' = messages /\ cmd'.addr = messages /\ cmd.addr = messages
        /\ cmd'.value = messages /\ spc' = "value" /\ cmd.value = messages - 1
    BY <1>1, <1>7 DEF SetValue, CommandInv
  <2>2. QED
    BY <1>1, <1>2, <1>3, <1>4, <1>5, <2>1 DEF CommandInv
<1>8. QED
  BY <1>6, <1>7

\* A message is published when both halves are its own.
LEMMA MessageKeepsCommands ==
  ASSUME Types, CommandInv, PublishMessage
  PROVE  CommandInv'
<1>1. PICK e \in BusEvent : /\ Moves(queue, queue', 0, 1, e)
                            /\ e.type = "WS_MESSAGE_RECEIVED" /\ e.data = messages
  BY MessageStep
<1>2. queue \in Seq(BusEvent) /\ queue' \in Seq(BusEvent) /\ messages \in Nat
  BY MessageStep DEF Types, BusTypes, ControlTypes
<1>3. /\ Len(queue) \in Nat
      /\ \A i \in 1 .. Len(queue') :
           \/ i \in 1 .. Len(queue) /\ queue'[i] = queue[i]
           \/ queue'[i] = e
      /\ \A i \in 1 .. Len(queue) : i \in 1 .. Len(queue') /\ queue'[i] = queue[i]
  BY <1>1, <1>2, Positions
<1>4. /\ spc = "value" /\ spc' = "idle"
      /\ UNCHANGED <<messages, cmd, lpc, copied, commands>>
  BY DEF PublishMessage
<1>5. \A i \in 1 .. Len(queue') :
        queue'[i].type = "WS_MESSAGE_RECEIVED" => queue'[i].data <= cmd.value
  <2>1. cmd.value = messages
    BY <1>4 DEF CommandInv
  <2>2. QED
    BY <1>1, <1>2, <1>3, <2>1 DEF CommandInv
<1>6. queue # << >> => queue' # << >> /\ queue'[1] = queue[1]
  <2>1. ASSUME queue # << >>
        PROVE  queue' # << >> /\ queue'[1] = queue[1]
    <3>1. 1 \in 1 .. Len(queue') /\ queue'[1] = queue[1]
      BY <1>3, <2>1, HeadEvent
    <3>2. QED
      BY <1>2, <3>1, EmptySeq
  <2>2. QED
    BY <2>1
<1>7. CommandNotOlder'
  BY <1>4 DEF CommandInv, CommandNotOlder
<1>8. QED
  BY <1>4, <1>5, <1>6, <1>7 DEF CommandInv

\* The loop reads the address while the message is in front.
LEMMA CopyAddrKeepsCommands ==
  ASSUME Types, CommandInv, CopyAddr
  PROVE  CommandInv'
<1>1. /\ queue # << >> /\ queue[1].type = "WS_MESSAGE_RECEIVED"
      /\ queue[1].data \in Nat /\ 1 \in 1 .. Len(queue)
  BY HeadEvent, EventData DEF CopyAddr, Dispatch
<1>2. /\ lpc = "idle" /\ lpc' = "command" /\ copied' = cmd.addr
      /\ UNCHANGED <<queue, spc, messages, cmd, commands>>
  BY DEF CopyAddr, Dispatch
<1>3. queue[1].data <= cmd.value /\ cmd.value <= cmd.addr
      /\ cmd.addr \in Nat /\ cmd.value \in Nat
  BY <1>1 DEF CommandInv, Types, ControlTypes
<1>4. CommandNotOlder'
  BY <1>2 DEF CommandInv, CommandNotOlder
<1>5. QED
  BY <1>1, <1>2, <1>3, <1>4 DEF CommandInv

\* The command is published: not older than its message nor the one before.
LEMMA CopyValueKeepsCommands ==
  ASSUME Types, CommandInv, CopyValue
  PROVE  CommandInv'
<1> DEFINE c == [msg |-> queue[1].data, addr |-> copied, value |-> cmd.value]
           n == Len(commands)
<1>1. /\ queue # << >> /\ queue[1].type = "WS_MESSAGE_RECEIVED"
      /\ c \in Command /\ commands' = Append(commands, c)
      /\ queue' \in Seq(BusEvent)
  BY CommandStep
<1>2. PICK e \in BusEvent : /\ Moves(queue, queue', 1, 1, e)
                            /\ e.type = "CONTROL_COMMAND"
  BY CommandStep
<1>3. queue \in Seq(BusEvent) /\ commands \in Seq(Command) /\ n \in Nat
      /\ cmd \in [addr : Nat, value : Nat] /\ copied \in Nat
  BY LenProperties DEF Types, BusTypes, ControlTypes
<1>4. \A i \in 1 .. Len(queue') :
        \/ i + 1 \in 1 .. Len(queue) /\ queue'[i] = queue[i + 1]
        \/ queue'[i] = e
  BY <1>1, <1>2, <1>3, Positions
<1>5. /\ lpc = "command" /\ lpc' = "idle" /\ UNCHANGED <<spc, messages, cmd>>
  BY DEF CopyValue
<1>6. /\ Len(commands') = n + 1 /\ commands'[n + 1] = c
      /\ \A i \in 1 .. n : commands'[i] = commands[i]
  BY <1>1, <1>3, AppendProperties
<1>7. /\ c.addr = copied /\ c.value = cmd.value /\ c.msg = queue[1].data
      /\ queue[1].data <= copied /\ copied <= cmd.addr
      /\ queue[1].data <= cmd.value /\ queue[1].data \in Nat
  <2>1. 1 \in 1 .. Len(queue)
    BY <1>1, HeadEvent
  <2>2. queue[1].data \in Nat
    BY <1>1 DEF Command
  <2>3. QED
    BY <1>1, <1>5, <2>1, <2>2 DEF CommandInv
<1>8. \A i \in 1 .. n : /\ commands[i].addr \in Nat /\ commands[i].value \in Nat
                        /\ commands[i].addr <= copied
                        /\ commands[i].value <= cmd.value
  <2>1. \A i \in 1 .. n : commands[i] \in Command
    BY <1>3, ElementOfSeq
  <2>2. QED
    BY <1>5, <2>1 DEF CommandInv, Command
<1>9. \A i \in 1 .. n : /\ commands[i].addr >= commands[i].msg
                        /\ commands[i].value >= commands[i].msg
                        /\ i > 1 => /\ commands[i].addr >= commands[i - 1].addr
                                    /\ commands[i].value >= commands[i - 1].value
  BY <1>3, LenProperties DEF CommandInv, CommandNotOlder
<1> HIDE DEF c, n
<1>10. ASSUME NEW i \in 1 .. n + 1
       PROVE  /\ commands'[i].addr >= commands'[i].msg
              /\ commands'[i].value >= commands'[i].msg
              /\ i > 1 => /\ commands'[i].addr >= commands'[i - 1].addr
                          /\ commands'[i].value >= commands'[i - 1].value
  <2>1. CASE i = n + 1
    <3>1. c.addr >= c.msg /\ c.value >= c.msg
      BY <1>3, <1>7
    <3>2. ASSUME i > 1
          PROVE  /\ c.addr >= commands'[i - 1].addr
                 /\ c.value >= commands'[i - 1].value
      <4>1. n \in 1 .. n /\ i - 1 = n
        BY <1>3, <2>1, <3>2
      <4>2. QED
        BY <1>3, <1>6, <1>7, <1>8, <4>1
    <3>3. QED
      BY <1>6, <2>1, <3>1, <3>2
  <2>2. CASE i \in 1 .. n
    <3>1. i > 1 => i - 1 \in 1 .. n
      BY <1>3, <2>2
    <3>2. QED
      BY <1>6, <1>9, <2>2, <3>1
  <2>3. QED
    BY <1>3, <2>1, <2>2
<1>11. CommandNotOlder'
  <2>1. DOMAIN commands' = 1 .. n + 1
    BY <1>1, <1>3, <1>6, AppendProperties, LenProperties
  <2>2. QED
    BY <1>10, <2>1 DEF CommandNotOlder
<1>12. \A i \in 1 .. Len(commands') :
         commands'[i].addr <= cmd.addr /\ commands'[i].value <= cmd.value
  <2> SUFFICES ASSUME NEW i \in 1 .. n + 1
               PROVE  /\ commands'[i].addr <= cmd.addr
                      /\ commands'[i].value <= cmd.value
    BY <1>6
  <2>1. CASE i = n + 1
    BY <1>3, <1>6, <1>7, <2>1
  <2>2. CASE i \in 1 .. n
    BY <1>3, <1>6, <1>7, <1>8, <2>2
  <2>3. QED
    BY <1>3, <2>1, <2>2
<1>13. \A i \in 1 .. Len(queue') :
         queue'[i].type = "WS_MESSAGE_RECEIVED" => queue'[i].data <= cmd.value
  BY <1>2, <1>4 DEF CommandInv
<1>14. QED
  BY <1>5, <1>11, <1>12, <1>13 DEF CommandInv

LEMMA CommandInvNext ==
  ASSUME Types, CommandInv, [Next]_vars
  PROVE  CommandInv'
<1>1. CASE UNCHANGED control
  BY <1>1, OthersKeepCommands
<1>2. CASE ~UNCHANGED control
  <2>1. SetAddr \/ SetValue \/ PublishMessage \/ CopyAddr \/ CopyValue
    BY <1>2
    DEF Next, Loop, Run, Ask, Route, RouteFailure, OnHttpRequest, Answer,
        OnOutcome, Sample, ConnectClient,
        OnSample, OnTelemetry, OnBroadcast, OnIgnored, vars
  <2>2. QED
    BY <2>1, ClientKeepsCommands, MessageKeepsCommands, CopyAddrKeepsCommands,
       CopyValueKeepsCommands
<1>3. QED
  BY <1>1, <1>2

-----------------------------------------------------------------------------
(* The invariant                                                           *)

LEMMA InvInit == Init => Inv
<1> SUFFICES ASSUME Init PROVE Inv
  OBVIOUS
<1> USE DEF Init
<1>1. queue = << >> /\ Len(queue) = 0 /\ \A d \in Devices : Len(pending[d]) = 0
  BY EmptySeq
<1>2. Types
  BY EmptySeq DEF Types, BusTypes, FlowTypes, TelemetryTypes, ControlTypes
<1>3. RequestInv
  <2>1. asked = 0 /\ answered = {} /\ Open = {}
    BY DEF Open
  <2>2. BusInv /\ DeviceInv /\ ApartInv /\ SomewhereInv
    BY <1>1, <2>1 DEF BusInv, DeviceInv, ApartInv, SomewhereInv
  <2>3. QED
    BY <2>1, <2>2 DEF RequestInv
<1>4. SampleInv
  <2>1. OrderInv
    BY <1>1 DEF OrderInv
  <2>2. Broadcast(0)
    <3>1. samples = 0 /\ Len(clients) = 0 /\ \A c \in Clients : Len(got[c]) = 0
      BY EmptySeq
    <3>2. QED
      BY <1>1, <3>1 DEF Broadcast
  <2>3. QED
    BY <2>1, <2>2 DEF SampleInv
<1>5. CommandInv
  <2>1. Len(commands) = 0 /\ DOMAIN commands = {}
    BY EmptySeq
  <2>2. QED
    BY <1>1, <2>1 DEF CommandInv, CommandNotOlder
<1>6. QED
  BY <1>2, <1>3, <1>4, <1>5 DEF Inv

LEMMA InvNext == Inv /\ [Next]_vars => Inv'
<1> SUFFICES ASSUME Inv, [Next]_vars PROVE Inv'
  OBVIOUS
<1>1. Types /\ RequestInv /\ SampleInv /\ CommandInv
  BY DEF Inv
<1>2. Types' /\ SampleInv' /\ CommandInv'
  BY <1>1, TypesNext, SampleInvNext, CommandInvNext
<1>3. RequestInv'
  BY <1>1, NextCases, AsideKeepsRequests, AskKeepsRequests, RouteKeepsRequests,
     AnswerAtOnceKeepsRequests, AnswerKeepsRequests, OutcomeKeepsRequests
<1>4. QED
  BY <1>2, <1>3 DEF Inv

LEMMA InvAlways == Spec => []Inv
BY InvInit, InvNext, PTL DEF Spec

-----------------------------------------------------------------------------
(* The theorems                                                            *)

\* A request that is published is on the bus, with a device or answered: in
\* one place, and in that once.
LEMMA OnePlace ==
  ASSUME Types, RequestInv, NEW id \in 1 .. asked
  PROVE  \E p : Places(id) = {p}
<1>1. /\ DOMAIN queue = 1 .. Len(queue)
      /\ \A d \in Devices : DOMAIN pending[d] = 1 .. Len(pending[d])
  BY LenProperties DEF Types, BusTypes, FlowTypes
<1>2. ASSUME NEW p
      PROVE  p \in Places(id) <=>
        \/ \E i \in 1 .. Len(queue) :
             OnBus(queue, i) /\ queue[i].data.id = id /\ p = <<"bus", i>>
        \/ \E d \in Devices : \E i \in 1 .. Len(pending[d]) :
             pending[d][i].id = id /\ p = <<d, i>>
        \/ id \in answered /\ p = <<"answered", 0>>
  <2> DEFINE OfBus == {<<"bus", i>> : i \in {j \in DOMAIN queue :
                         OnBus(queue, j) /\ queue[j].data.id = id}}
             Of(d) == {<<d, i>> : i \in {j \in DOMAIN pending[d] :
                                          pending[d][j].id = id}}
             OfDevices == UNION {Of(d) : d \in Devices}
             Done == IF id \in answered THEN {<<"answered", 0>>} ELSE {}
  <2>1. Places(id) = OfBus \cup OfDevices \cup Done
    <3>1. {j \in DOMAIN queue :
             /\ queue[j].type \in Outcomes \cup
                  {"READ_REQUEST", "WRITE_REQUEST", "HTTP_CLIENT_REQUESTED"}
             /\ queue[j].data.id = id}
          = {j \in DOMAIN queue : OnBus(queue, j) /\ queue[j].data.id = id}
      BY DEF OnBus, Outcomes, RequestTypes, ModbusTypes, HttpTypes
    <3>2. QED
      BY <3>1, Zenon DEF Places
  <2>2. p \in OfBus <=> \E i \in 1 .. Len(queue) :
          OnBus(queue, i) /\ queue[i].data.id = id /\ p = <<"bus", i>>
    BY <1>1
  <2>3. ASSUME NEW d \in Devices
        PROVE  p \in Of(d) <=> \E i \in 1 .. Len(pending[d]) :
                 pending[d][i].id = id /\ p = <<d, i>>
    BY <1>1
  <2> HIDE DEF Of
  <2>4. p \in OfDevices <=> \E d \in Devices : p \in Of(d)
    BY Zenon
  <2>5. p \in Done <=> id \in answered /\ p = <<"answered", 0>>
    OBVIOUS
  <2> HIDE DEF OfBus, OfDevices, Done
  <2>6. QED
    BY <2>1, <2>2, <2>3, <2>4, <2>5
<1>3. CASE id \in answered
  <2>1. id \notin Open
    BY <1>3 DEF Open
  <2>2. Places(id) = {<<"answered", 0>>}
    BY <1>2, <1>3, <2>1 DEF RequestInv, BusInv, DeviceInv
  <2>3. QED
    BY <2>2
<1>4. CASE id \notin answered
  <2>1. id \in Open
    BY <1>4 DEF Open
  <2>2. ASSUME NEW i \in 1 .. Len(queue), OnBus(queue, i), queue[i].data.id = id
        PROVE  Places(id) = {<<"bus", i>>}
    BY <1>2, <1>4, <2>2 DEF RequestInv, BusInv, ApartInv
  <2>3. ASSUME NEW d \in Devices, NEW i \in 1 .. Len(pending[d]),
               pending[d][i].id = id
        PROVE  Places(id) = {<<d, i>>}
    BY <1>2, <1>4, <2>3 DEF RequestInv, DeviceInv, ApartInv
  <2>4. QED
    BY <2>1, <2>2, <2>3 DEF RequestInv, SomewhereInv
<1>5. QED
  BY <1>3, <1>4

\* Whatever is asked for, over the modules and the two threads between the
\* publisher and the device, no request is lost and none is answered twice.
THEOREM RequestsAreKept == Spec => []RequestsKept
<1>1. Inv => RequestsKept
  BY OnePlace, FS_Singleton DEF RequestsKept, Inv
<1>2. QED
  BY <1>1, InvAlways, PTL

\* A control command is, field by field, never older than the message it is
\* published for, although the loop copies pending_command_ while another
\* thread writes it (WebSocketModule has no lock).
THEOREM CommandsAreNotOlder == Spec => []CommandNotOlder
<1>1. Inv => CommandNotOlder
  BY DEF Inv, CommandInv
<1>2. QED
  BY <1>1, InvAlways, PTL

\* Every client connected before the run sees the samples in the order the
\* polling runtime took them, without a gap.
THEOREM ClientsSeeAllSamples == Spec => []ClientsSeeEverySample
<1>1. Inv => ClientsSeeEverySample
  <2> SUFFICES ASSUME Inv PROVE ClientsSeeEverySample
    OBVIOUS
  <2>1. PICK n \in 0 .. samples : Broadcast(n)
    BY DEF Inv, SampleInv
  <2>2. /\ DOMAIN clients = 1 .. Len(clients)
        /\ \A i \in 1 .. Len(clients) : clients[i] \in Clients
        /\ \A c \in Clients : DOMAIN got[c] = 1 .. Len(got[c])
    BY LenProperties, ElementOfSeq DEF Inv, Types, TelemetryTypes
  <2>3. QED
    BY <2>1, <2>2 DEF ClientsSeeEverySample, Broadcast
<1>2. QED
  BY <1>1, InvAlways, PTL
=============================================================================
