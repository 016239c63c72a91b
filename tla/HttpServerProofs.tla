------------------------- MODULE HttpServerProofs ---------------------------
(***************************************************************************)
(* Proofs about Bootstrap.tla and HttpServer.tla: a configuration that is  *)
(* accepted is built as it says, however many devices it has; and start(), *)
(* stop() and the worker never use a manager that is freed, never leave    *)
(* one behind and answer as the routes say, for any number of connections, *)
(* of threads that stop the server and of starts.                          *)
(***************************************************************************)
EXTENDS HttpServer, SequenceTheorems, WellFoundedInduction, TLAPS

-----------------------------------------------------------------------------
(* The server's invariant                                                  *)

ServerTypes ==
  /\ backend \in {"none", "mongoose", "fake"}
  /\ running \in BOOLEAN
  /\ mgr \in Nat /\ starts \in Nat
  /\ wpc \in {"none", "test", "poll", "done"}
  /\ mpc \in {"create", "init", "idle", "listen", "spawn"}
  /\ spc \in [Stoppers -> {"idle", "store", "join", "free"}]
  /\ DOMAIN conn = Connections
  /\ \A c \in Connections : DOMAIN conn[c] = {"st", "key", "reply"}
  /\ \A c \in Connections : conn[c].key \in Keys

\* Where the main thread is, what there is of a server.
StartInv ==
  /\ backend = "none" => ~running /\ mpc \in {"create", "init"}
  /\ backend # "none" => mpc \in {"idle", "listen", "spawn"}
  /\ backend # "mongoose" => /\ mgr = 0 /\ wpc = "none" /\ mpc \notin {"listen", "spawn"}
                             /\ \A t \in Stoppers : spc[t] = "idle"
  /\ mpc = "listen" => ~running /\ mgr # 0 /\ wpc = "none"
  /\ mpc = "spawn" => running /\ mgr # 0 /\ wpc = "none"
  /\ mpc \in {"listen", "spawn"} => \A t \in Stoppers : spc[t] = "idle"

\* At most one thread is inside stop(), and what it has left of the server.
StopInv ==
  /\ \A t, u \in Stoppers : spc[t] # "idle" /\ spc[u] # "idle" => t = u
  /\ \A t \in Stoppers :
       /\ spc[t] = "store" => running /\ mgr # 0 /\ wpc \in {"test", "poll"}
       /\ spc[t] = "join" => ~running /\ mgr # 0 /\ wpc # "none"
       /\ spc[t] = "free" => ~running /\ mgr # 0 /\ wpc = "none"

\* Between two calls: a server that runs, or none.
QuietInv ==
  (backend = "mongoose" /\ mpc = "idle" /\ \A t \in Stoppers : spc[t] = "idle") =>
    IF running THEN mgr # 0 /\ wpc \in {"test", "poll"} ELSE mgr = 0 /\ wpc = "none"

RepliesInv ==
  /\ handlers = RegisterRoutes(provider)
  /\ provider \in {"none", "base", "demo"}
  /\ backend = "none" => \A c \in Connections : conn[c].reply = NoReply
  /\ \A c \in Connections :
       conn[c].reply \notin {NoReply, 503} => conn[c].reply = StatusOf(conn[c].key)

ServerInv ==
  /\ ServerTypes
  /\ alive = {mgr} \ {0}
  /\ StartInv /\ StopInv /\ QuietInv /\ RepliesInv

-----------------------------------------------------------------------------
(* Replies                                                                 *)

\* The status the model looks up is the one the routes promise.
LEMMA StatusOfRoutes ==
  ASSUME RepliesInv, NEW key \in Keys
  PROVE  StatusOf(key) =
           CASE key \in {"GET /ping", "GET /status"} /\ provider # "none" -> 200
             [] key = "POST /control" /\ provider # "none" -> 501
             [] key \in {"GET /demo/info", "GET /hello"} /\ provider = "demo" -> 200
             [] OTHER -> 404
<1> DEFINE base == {"GET /ping", "GET /status", "POST /control"}
           custom == {"GET /demo/info", "GET /hello"}
<1>1. CASE provider = "none"
  <2>1. handlers = << >> /\ DOMAIN handlers = {}
    BY <1>1 DEF RepliesInv, RegisterRoutes
  <2>2. QED
    BY <1>1, <2>1 DEF StatusOf
<1>2. CASE provider = "base"
  <2>1. handlers = [k \in base |-> IF k = "POST /control" THEN 501 ELSE 200]
    BY <1>2 DEF RepliesInv, RegisterRoutes, BaseRoutes
  <2>2. QED
    BY <1>2, <2>1 DEF StatusOf, Keys
<1>3. CASE provider = "demo"
  <2>1. /\ BaseRoutes = [k \in base |-> IF k = "POST /control" THEN 501 ELSE 200]
        /\ CustomRoutes = [k \in custom |-> 200]
    BY DEF BaseRoutes, CustomRoutes
  <2>2. handlers = [k \in DOMAIN BaseRoutes \cup DOMAIN CustomRoutes |->
                      IF k \in DOMAIN CustomRoutes THEN CustomRoutes[k]
                      ELSE BaseRoutes[k]]
    BY <1>3 DEF RepliesInv, RegisterRoutes
  <2>3. DOMAIN handlers = base \cup custom
    BY <2>1, <2>2
  <2>4. CASE key = "POST /control"
    BY <1>3, <2>1, <2>2, <2>4 DEF StatusOf
  <2>5. CASE key \in (base \cup custom) \ {"POST /control"}
    <3>1. handlers[key] = 200 /\ key \in DOMAIN handlers
      BY <2>1, <2>2, <2>5
    <3>2. QED
      BY <1>3, <2>5, <3>1, Zenon DEF StatusOf
  <2>6. CASE key = "GET /other"
    BY <1>3, <2>3, <2>6 DEF StatusOf
  <2>7. QED
    BY <2>4, <2>5, <2>6 DEF Keys
<1>4. QED
  BY <1>1, <1>2, <1>3 DEF RepliesInv

-----------------------------------------------------------------------------
(* From a configuration to a host                                          *)

DeviceRecord ==
  [name : DeviceNames \cup {"demo-device"}, backend : ModbusMasterBackendId,
   flaw : {"none", "address", "retry"}]

BootTypes ==
  /\ features \in Features
  /\ config \in [http : HttpConfig, http_client : HttpClientConfig,
                 modbus : [enabled : BOOLEAN, devices : Seq(DeviceRecord)]]

LEMMA DisabledHttp ==
  ASSUME NEW x \in HttpConfig
  PROVE  [x EXCEPT !.enabled = FALSE] \in HttpConfig
<1> DEFINE Ports == {0, 8080}
           Ids == HttpBackendId
<1>1. HttpConfig = [enabled : BOOLEAN, backend : Ids, port : Ports]
  BY DEF HttpConfig
<1> HIDE DEF Ports, Ids
<1>2. QED
  BY <1>1

LEMMA BootTypesInit == InitBoot => BootTypes
<1> SUFFICES ASSUME InitBoot PROVE BootTypes
  OBVIOUS
<1> USE DEF HttpBackendId, HttpClientBackendId, ModbusMasterBackendId
<1> DEFINE Modbus == [enabled : BOOLEAN, devices : Seq(DeviceRecord)]
<1>1. /\ DefaultHttp \in HttpConfig /\ DefaultHttpClient \in HttpClientConfig
      /\ Everything \in Features
  BY DEF DefaultHttp, DefaultHttpClient, HttpConfig, HttpClientConfig, Everything,
         Features
<1>2. ModbusMasterConfig \subseteq Modbus
  <2> SUFFICES ASSUME NEW n \in 0 .. MaxDevices, NEW s \in [1 .. n -> ModbusDeviceConfig]
               PROVE  s \in Seq(DeviceRecord)
    BY DEF ModbusMasterConfig
  <2>1. n \in Nat
    BY DevicesAssumption
  <2>2. ModbusDeviceConfig \subseteq DeviceRecord
    BY DEF ModbusDeviceConfig, DeviceRecord
  <2>3. s \in [1 .. n -> DeviceRecord]
    BY <2>2
  <2>4. QED
    BY <2>1, <2>3
<1>3. /\ DefaultModbus \in Modbus /\ TimerDemo.modbus \in Modbus
      /\ ModbusMasterDemo.modbus \in Modbus
  <2>1. << >> \in Seq(DeviceRecord)
    OBVIOUS
  <2>2. DefaultModbus = [enabled |-> TRUE, devices |-> << >>]
    BY DEF DefaultModbus
  <2>3. TimerDemo.modbus = [enabled |-> FALSE, devices |-> << >>]
    BY <2>2 DEF TimerDemo
  <2> DEFINE d == [name |-> "demo-device", backend |-> "rtu", flaw |-> "none"]
  <2>4. d \in DeviceRecord
    BY DEF DeviceRecord
  <2> HIDE DEF d
  <2>5. <<d>> \in Seq(DeviceRecord)
    BY <2>4
  <2>6. ModbusMasterDemo.modbus = [enabled |-> TRUE, devices |-> <<d>>]
    BY DEF ModbusMasterDemo, d
  <2>7. QED
    BY <2>1, <2>2, <2>3, <2>5, <2>6
<1> HIDE DEF Modbus
<1>4. CASE /\ features \in {[Everything EXCEPT !.modbus = b] :
                              b \in SUBSET {"fake", "tcp", "rtu"}}
           /\ config \in [http : {DefaultHttp}, http_client : {DefaultHttpClient},
                          modbus : ModbusMasterConfig]
  <2>1. features \in Features
    BY <1>4 DEF Everything, Features
  <2>2. QED
    BY <1>1, <1>2, <1>4, <2>1 DEF BootTypes, Modbus
<1>5. CASE /\ features \in Features
           /\ config \in [http : HttpConfig, http_client : HttpClientConfig,
                          modbus : {TimerDemo.modbus}]
  BY <1>3, <1>5 DEF BootTypes, Modbus
<1>6. CASE features = Everything /\ config \in Demos
  <2>1. HttpServerDemo \in [http : HttpConfig, http_client : HttpClientConfig,
                            modbus : Modbus]
    BY <1>1, <1>3 DEF HttpServerDemo
  <2>2. TimerDemo \in [http : HttpConfig, http_client : HttpClientConfig,
                       modbus : Modbus]
    <3>1. TimerDemo.http \in HttpConfig
      <4>1. TimerDemo.http = [DefaultHttp EXCEPT !.enabled = FALSE]
        BY DEF TimerDemo
      <4>2. QED
        BY <1>1, <4>1, DisabledHttp
    <3>2. TimerDemo.http_client \in HttpClientConfig
      BY DEF TimerDemo, HttpClientConfig
    <3>3. QED
      BY <1>3, <3>1, <3>2 DEF TimerDemo
  <2>3. ModbusMasterDemo \in [http : HttpConfig, http_client : HttpClientConfig,
                              modbus : Modbus]
    <3>1. /\ ModbusMasterDemo.http \in HttpConfig
          /\ ModbusMasterDemo.http_client \in HttpClientConfig
      BY <1>1 DEF ModbusMasterDemo, HttpConfig
    <3>2. QED
      BY <1>3, <3>1 DEF ModbusMasterDemo
  <2>4. QED
    BY <1>1, <1>6, <2>1, <2>2, <2>3 DEF BootTypes, Demos, Modbus
<1>7. QED
  BY <1>4, <1>5, <1>6 DEF InitBoot

\* Of the devices of one name there is a last one.
LEMMA LastExists ==
  ASSUME NEW n \in Nat, NEW S, S \subseteq 1 .. n, S # {}
  PROVE  \E i \in S : \A j \in S : j <= i
<1> DEFINE R == OpToRel(<, Nat)
           T == {n - i : i \in S}
<1>1. T \subseteq Nat /\ T # {}
  <2>1. \A i \in S : n - i \in Nat
    OBVIOUS
  <2>2. PICK i \in S : TRUE
    OBVIOUS
  <2>3. n - i \in T
    BY <2>2
  <2>4. QED
    BY <2>1, <2>3
<1>2. IsWellFoundedOn(R, Nat)
  BY NatLessThanWellFounded
<1> HIDE DEF T
<1>3. PICK x \in T : \A y \in T : ~(<<y, x>> \in R)
  BY <1>1, <1>2, WFMin
<1>4. \A y \in T : ~(y < x)
  BY <1>1, <1>3 DEF OpToRel
<1> USE DEF T
<1>5. PICK i \in S : x = n - i
  OBVIOUS
<1>6. ASSUME NEW j \in S
      PROVE  j <= i
  <2>1. n - j \in T /\ ~(n - j < n - i)
    BY <1>4, <1>5
  <2>2. QED
    BY <2>1
<1>7. QED
  BY <1>6

\* What the constructors of the modules make of the adapters: a runtime for
\* each device, and a route to the last of a name.
LEMMA RuntimesPaired ==
  ASSUME NEW c, c.modbus.devices \in Seq(DeviceRecord), c.modbus.enabled,
         NEW f, ValidModbus(f, c), NEW a \in InstallModbus(f, c)
  PROVE  Runtimes(a, c) =
           [i \in 1 .. Len(c.modbus.devices) |->
              [adapter |-> c.modbus.devices[i].backend,
               device |-> c.modbus.devices[i]]]
<1> DEFINE devices == c.modbus.devices
<1>1. DOMAIN devices = 1 .. Len(devices)
  BY LenProperties
<1>2. /\ a \in [DOMAIN devices -> ModbusMasterBackendId]
      /\ \A i \in DOMAIN devices : a[i] \in ModbusMasterBackend(f, devices[i])
  BY DEF InstallModbus
<1>3. \A i \in DOMAIN devices : a[i] = devices[i].backend
  BY <1>2 DEF ModbusMasterBackend
<1>4. DOMAIN devices \cap DOMAIN a = 1 .. Len(devices)
  BY <1>1, <1>2
<1>5. Runtimes(a, c) = [i \in DOMAIN devices \cap DOMAIN a |->
                          [adapter |-> a[i], device |-> devices[i]]]
  BY DEF Runtimes
<1>6. QED
  BY <1>1, <1>3, <1>4, <1>5

LEMMA RoutesReach ==
  ASSUME NEW n \in Nat, NEW runtimes, DOMAIN runtimes = 1 .. n
  PROVE  /\ DOMAIN Routes(runtimes) = {runtimes[i].device.name : i \in 1 .. n}
         /\ \A m \in DOMAIN Routes(runtimes) :
              runtimes[Routes(runtimes)[m]].device.name = m
         /\ \A m \in DOMAIN Routes(runtimes) : Routes(runtimes)[m] \in 1 .. n
<1> DEFINE Named(m) == {i \in DOMAIN runtimes : runtimes[i].device.name = m}
           Last(m) == CHOOSE i \in Named(m) : \A j \in Named(m) : j <= i
<1>1. Routes(runtimes) = [m \in {runtimes[i].device.name : i \in DOMAIN runtimes} |->
                            Last(m)]
  BY DEF Routes
<1>2. ASSUME NEW m \in {runtimes[i].device.name : i \in DOMAIN runtimes}
      PROVE  Last(m) \in Named(m)
  <2>1. Named(m) \subseteq 1 .. n /\ Named(m) # {}
    BY <1>2
  <2> HIDE DEF Named
  <2>2. \E i \in Named(m) : \A j \in Named(m) : j <= i
    BY <2>1, LastExists
  <2>3. QED
    BY <2>2
<1>3. \A m \in {runtimes[i].device.name : i \in DOMAIN runtimes} :
        runtimes[Last(m)].device.name = m /\ Last(m) \in 1 .. n
  BY <1>2
<1> HIDE DEF Last
<1>4. QED
  BY <1>1, <1>3

\* Validation accepts only what the factories can build.
LEMMA ValidIsBuilt ==
  ASSUME BootTypes, ValidModbus(features, config)
  PROVE  InstallModbus(features, config) # {}
<1> DEFINE devices == config.modbus.devices
           s == [i \in DOMAIN devices |-> devices[i].backend]
<1>1. CASE ~config.modbus.enabled
  BY <1>1 DEF InstallModbus
<1>2. CASE config.modbus.enabled
  <2>1. /\ features.modbus # {}
        /\ \A i \in DOMAIN devices : ValidDevice(features, devices[i])
    BY <1>2 DEF ValidModbus
  <2>2. \A i \in DOMAIN devices :
          /\ devices[i].backend \in ModbusMasterBackendId
          /\ devices[i].backend \in ModbusMasterBackend(features, devices[i])
    <3>1. devices \in Seq(DeviceRecord) /\ DOMAIN devices = 1 .. Len(devices)
      BY LenProperties DEF BootTypes
    <3>2. \A i \in DOMAIN devices : devices[i] \in DeviceRecord
      BY <3>1, ElementOfSeq
    <3>3. \A i \in DOMAIN devices : devices[i].backend \in ModbusMasterBackendId
      BY <3>2 DEF DeviceRecord
    <3>4. QED
      BY <2>1, <3>3 DEF ValidDevice, ModbusMasterBackend
  <2>3. s \in InstallModbus(features, config)
    BY <1>2, <2>2 DEF InstallModbus
  <2>4. QED
    BY <2>3
<1>3. QED
  BY <1>1, <1>2

LEMMA DevicesAreBuilt ==
  ASSUME NEW c, c.modbus.devices \in Seq(DeviceRecord), c.modbus.enabled,
         NEW f, ValidModbus(f, c), NEW a \in InstallModbus(f, c), NEW h,
         h.runtimes = Runtimes(a, c), h.routes = Routes(Runtimes(a, c))
  PROVE  /\ DevicesBuilt(c.modbus.devices, h)
         /\ DistinctNames(c.modbus.devices) => Routed(h)
<1> DEFINE devices == c.modbus.devices
           n == Len(devices)
<1>1. devices \in Seq(DeviceRecord) /\ n \in Nat /\ DOMAIN devices = 1 .. n
  BY LenProperties
<1>2. h.runtimes = [i \in 1 .. n |-> [adapter |-> devices[i].backend,
                                      device |-> devices[i]]]
  BY RuntimesPaired
<1>3. DOMAIN h.runtimes = 1 .. n
  BY <1>2
<1>4. /\ DOMAIN h.routes = {h.runtimes[i].device.name : i \in 1 .. n}
      /\ \A m \in DOMAIN h.routes : h.runtimes[h.routes[m]].device.name = m
      /\ \A m \in DOMAIN h.routes : h.routes[m] \in 1 .. n
  BY <1>1, <1>3, RoutesReach
<1>5. DevicesBuilt(devices, h)
  <2>1. \A i \in 1 .. n : h.runtimes[i] = [adapter |-> devices[i].backend,
                                           device |-> devices[i]]
    BY <1>2
  <2>2. \A i \in 1 .. n : h.runtimes[i].device.name = devices[i].name
    <3> SUFFICES ASSUME NEW i \in 1 .. n
                 PROVE  h.runtimes[i].device.name = devices[i].name
      OBVIOUS
    <3>1. h.runtimes[i].device = devices[i]
      BY <1>2
    <3>2. QED
      BY <3>1
  <2>3. DOMAIN h.routes = {devices[i].name : i \in 1 .. n}
    BY <1>4, <2>2
  <2>4. QED
    BY <1>1, <1>3, <1>4, <2>1, <2>3 DEF DevicesBuilt
<1>6. ASSUME DistinctNames(devices), NEW i \in 1 .. n
      PROVE  /\ h.runtimes[i].device.name \in DOMAIN h.routes
             /\ h.routes[h.runtimes[i].device.name] = i
  <2> DEFINE name == h.runtimes[i].device.name
             last == h.routes[name]
  <2>1. name \in DOMAIN h.routes /\ last \in 1 .. n
    BY <1>4
  <2>2. h.runtimes[last].device.name = name
    BY <1>4, <2>1
  <2> HIDE DEF last
  <2>3. /\ h.runtimes[i].device = devices[i]
        /\ h.runtimes[last].device = devices[last]
    BY <1>2, <2>1
  <2>4. devices[last].name = devices[i].name
    BY <2>2, <2>3
  <2>5. last = i
    BY <1>1, <1>6, <2>1, <2>4 DEF DistinctNames
  <2>6. QED
    BY <2>1, <2>5 DEF last
<1>7. DistinctNames(devices) => Routed(h)
  BY <1>3, <1>6 DEF Routed
<1>8. QED
  BY <1>5, <1>7

LEMMA CreateBuilds ==
  ASSUME BootTypes, Create
  PROVE  BuiltAsConfigured'
<1> DEFINE Built == {Host(a, features, config) : a \in InstallModbus(features, config)}
<1>1. /\ UNCHANGED <<features, config>> /\ stage' = "created"
      /\ host' = IF Valid(features, config) THEN Built ELSE {}
  BY DEF Create
<1>2. (host' # {}) = Valid(features, config)
  <2>1. Valid(features, config) => Built # {}
    BY ValidIsBuilt DEF Valid
  <2> HIDE DEF Built
  <2>2. (host' # {}) <=> Valid(features, config)
    BY <1>1, <2>1
  <2>3. Valid(features, config) \in BOOLEAN
    BY DEF Valid
  <2>4. QED
    BY <2>2, <2>3
<1>3. ASSUME NEW h \in host'
      PROVE  /\ h.http = Present(config.http)
             /\ h.http_client = Present(config.http_client)
             /\ config.modbus.enabled =>
                  /\ DevicesBuilt(config.modbus.devices, h)
                  /\ DistinctNames(config.modbus.devices) => Routed(h)
  <2>1. Valid(features, config) /\ h \in Built
    BY <1>1, <1>3
  <2>2. PICK a \in InstallModbus(features, config) : h = Host(a, features, config)
    BY <2>1
  <2>3. /\ h.runtimes = Runtimes(a, config)
        /\ h.routes = Routes(Runtimes(a, config))
        /\ h.http = InstallHttp(features, config)
        /\ h.http_client = InstallHttpClient(features, config)
    BY <2>2 DEF Host
  <2>4. h.http = Present(config.http) /\ h.http_client = Present(config.http_client)
    BY <2>1, <2>3 DEF Valid, ValidHttp, ValidHttpClient, ValidBackend, InstallHttp,
         InstallHttpClient, HttpBackend, HttpClientBackend, Present
  <2>5. ASSUME config.modbus.enabled
        PROVE  /\ DevicesBuilt(config.modbus.devices, h)
               /\ DistinctNames(config.modbus.devices) => Routed(h)
    <3>1. config.modbus.devices \in Seq(DeviceRecord) /\ ValidModbus(features, config)
      BY <2>1 DEF BootTypes, Valid
    <3>2. QED
      BY <2>3, <2>5, <3>1, DevicesAreBuilt
  <2>6. QED
    BY <2>4, <2>5
<1>4. QED
  BY <1>1, <1>2, <1>3 DEF BuiltAsConfigured

-----------------------------------------------------------------------------
(* The main thread builds the host                                         *)

BootInv ==
  /\ BootTypes /\ BuiltAsConfigured
  /\ mpc = "init" => stage = "created"

\* The HTTP backend of a host that was built is a real one.
LEMMA BackendBuilt ==
  ASSUME BootTypes, BuiltAsConfigured, stage = "created", NEW h \in host
  PROVE  h.http \subseteq {"mongoose", "fake"}
<1>1. Valid(features, config) /\ h.http = Present(config.http)
  BY DEF BuiltAsConfigured
<1>2. features.http \subseteq {"mongoose", "fake"}
  BY DEF BootTypes, Features
<1>3. config.http.enabled => config.http.backend \in features.http
  BY <1>1 DEF Valid, ValidHttp, ValidBackend
<1>4. QED
  BY <1>1, <1>2, <1>3 DEF Present

LEMMA BootInvNext ==
  ASSUME BootInv, [Next]_vars
  PROVE  BootInv'
<1>1. CASE Assemble
  BY <1>1, CreateBuilds DEF Assemble, Create, BootInv, BootTypes
<1>2. CASE InitModule
  <2>1. HttpServerDemo \in [http : HttpConfig, http_client : HttpClientConfig,
                            modbus : [enabled : BOOLEAN, devices : Seq(DeviceRecord)]]
    <3>1. << >> \in Seq(DeviceRecord)
      OBVIOUS
    <3>2. DefaultModbus \in [enabled : BOOLEAN, devices : Seq(DeviceRecord)]
      BY <3>1 DEF DefaultModbus
    <3>3. DefaultHttp \in HttpConfig /\ DefaultHttpClient \in HttpClientConfig
      BY DEF DefaultHttp, DefaultHttpClient, HttpConfig, HttpClientConfig,
             HttpBackendId, HttpClientBackendId
    <3>4. QED
      BY <3>2, <3>3 DEF HttpServerDemo
  <2>2. BootTypes'
    BY <1>2, <2>1 DEF InitModule, BootTypes, Features, Everything
  <2>3. stage' = "forgotten" /\ mpc' = "idle"
    BY <1>2 DEF InitModule
  <2>4. QED
    BY <2>2, <2>3 DEF BootInv, BuiltAsConfigured
<1>3. CASE UNCHANGED boot /\ (mpc' = "init" => mpc = "init")
  BY <1>3 DEF BootInv, BootTypes, BuiltAsConfigured, boot
<1>4. QED
  BY <1>1, <1>2, <1>3
  DEF Next, Start, FakeStart, Starting, Listen, ListenFails, Spawn, FakeStop,
      StopTest, Stopping, StopStore, StopJoin, StopFree, Serving, TestRunning,
      PollEnds, HandleHttpMessage, Ask, HangUp, SimulateRequest, vars

-----------------------------------------------------------------------------
(* start(), stop() and the worker                                          *)

\* The part of the invariant about the life of a server.
LifeInv == alive = {mgr} \ {0} /\ StartInv /\ StopInv /\ QuietInv

LEMMA TypesNext ==
  ASSUME BootInv, ServerTypes, [Next]_vars
  PROVE  ServerTypes'
<1> USE DEF ServerTypes
<1>1. CASE InitModule
  <2>1. PICK h \in host : h.http # {} /\ backend' = CHOOSE b \in h.http : TRUE
    BY <1>1 DEF InitModule
  <2>2. h.http \subseteq {"mongoose", "fake"}
    BY <1>1, BackendBuilt DEF InitModule, BootInv
  <2>3. backend' \in h.http
    BY <2>1
  <2>4. QED
    BY <1>1, <2>2, <2>3 DEF InitModule, server
<1>2. CASE Assemble \/ Start \/ FakeStart \/ Starting \/ FakeStop
  <2>1. CASE Assemble
    BY <2>1 DEF Assemble, adapter, server
  <2>2. CASE Start \/ FakeStart
    <3>1. /\ UNCHANGED <<backend, wpc, spc, conn>>
          /\ starts' = starts + 1 /\ mgr' \in {mgr, starts + 1}
          /\ running' \in BOOLEAN /\ mpc' \in {mpc, "listen"}
      BY <2>2 DEF Start, FakeStart, adapter
    <3>2. QED
      BY <3>1
  <2>3. CASE Starting \/ FakeStop
    <3>1. /\ UNCHANGED <<backend, starts, spc, conn>>
          /\ mgr' \in {mgr, 0} /\ running' \in BOOLEAN
          /\ wpc' \in {wpc, "test"} /\ mpc' \in {mpc, "idle", "spawn"}
      BY <2>3 DEF Starting, Listen, ListenFails, Spawn, FakeStop, adapter, server
    <3>2. QED
      BY <3>1
  <2>4. QED
    BY <1>2, <2>1, <2>2, <2>3
<1>9. CASE TestRunning \/ PollEnds
  BY <1>9 DEF TestRunning, PollEnds, adapter, server
<1>3. ASSUME NEW t \in Stoppers, StopTest(t) \/ StopStore(t) \/ StopJoin(t)
      PROVE  ServerTypes'
  BY <1>3 DEF StopTest, StopStore, StopJoin, adapter, server
<1>4. ASSUME NEW t \in Stoppers, StopFree(t)
      PROVE  ServerTypes'
  BY <1>4 DEF StopFree, adapter
<1>5. ASSUME NEW c \in Connections, HandleHttpMessage(c) \/ HangUp(c)
      PROVE  ServerTypes'
  BY <1>5 DEF HandleHttpMessage, HangUp, adapter, server
<1>6. ASSUME NEW c \in Connections, Ask(c) \/ SimulateRequest(c)
      PROVE  ServerTypes'
  BY <1>6 DEF Ask, SimulateRequest, adapter, server
<1>7. CASE UNCHANGED vars
  BY <1>7 DEF vars, adapter, server
<1>8. QED
  BY <1>1, <1>2, <1>3, <1>4, <1>5, <1>6, <1>7, <1>9 DEF Next, Stopping, Serving

LEMMA LifeInvNext ==
  ASSUME BootInv, ServerTypes, LifeInv, [Next]_vars
  PROVE  LifeInv'
<1> USE DEF LifeInv, StartInv, StopInv, QuietInv, ServerTypes
<1>1. CASE Assemble
  BY <1>1 DEF Assemble, adapter, server
<1>2. CASE InitModule
  <2>1. mpc = "init" /\ mpc' = "idle" /\ backend = "none"
    BY <1>2 DEF InitModule
  <2>2. backend' # "none"
    BY <1>2, TypesNext, BackendBuilt DEF InitModule, BootInv
  <2>3. QED
    BY <1>2, <2>1, <2>2 DEF InitModule, server
<1>3. CASE Start
  <2>1. \A t \in Stoppers : spc[t] = "idle"
    BY <1>3 DEF Start, MayStart
  <2>2. mgr = 0 /\ alive = {} /\ wpc = "none"
    BY <1>3, <2>1 DEF Start
  <2>3. /\ mgr' = starts + 1 /\ alive' = {starts + 1} /\ starts + 1 # 0
        /\ mpc' = "listen" /\ UNCHANGED <<backend, running, wpc, spc>>
    BY <1>3, <2>2 DEF Start, adapter
  <2>4. QED
    BY <1>3, <2>1, <2>2, <2>3 DEF Start
<1>4. CASE Listen \/ ListenFails \/ Spawn
  BY <1>4 DEF Listen, ListenFails, Spawn, adapter, server
<1>5. CASE FakeStart \/ FakeStop
  BY <1>5 DEF FakeStart, FakeStop, adapter, server
<1>6. ASSUME NEW t \in Stoppers, StopTest(t)
      PROVE  LifeInv'
  <2>1. /\ backend = "mongoose" /\ running /\ mpc = "idle"
        /\ spc' = [spc EXCEPT ![t] = "store"]
        /\ UNCHANGED <<backend, running, mgr, alive, wpc, mpc>>
    BY <1>6 DEF StopTest, MayStop, adapter, server
  <2>2. \A u \in Stoppers : spc[u] = "idle"
    BY <1>6, <2>1 DEF StopTest, MayStop
  <2>3. QED
    BY <2>1, <2>2
<1>7. ASSUME NEW t \in Stoppers, StopStore(t)
      PROVE  LifeInv'
  BY <1>7 DEF StopStore, adapter
<1>8. ASSUME NEW t \in Stoppers, StopJoin(t)
      PROVE  LifeInv'
  BY <1>8 DEF StopJoin, adapter, server
<1>9. ASSUME NEW t \in Stoppers, StopFree(t)
      PROVE  LifeInv'
  BY <1>9 DEF StopFree, adapter
<1>10. CASE TestRunning
  BY <1>10 DEF TestRunning, adapter, server
<1>11. CASE PollEnds
  BY <1>11 DEF PollEnds, adapter, server
<1>12. CASE UNCHANGED <<backend, running, mgr, alive, wpc, mpc, spc>>
  BY <1>12
<1>13. QED
  BY <1>1, <1>2, <1>3, <1>4, <1>5, <1>6, <1>7, <1>8, <1>9, <1>10, <1>11, <1>12
  DEF Next, Starting, Stopping, Serving, HandleHttpMessage, Ask, HangUp,
      SimulateRequest, adapter, server, vars

\* Replies are what the routes of the provider say.
LEMMA RepliesInvNext ==
  ASSUME ServerTypes, StartInv, RepliesInv, [Next]_vars
  PROVE  RepliesInv'
<1> USE DEF ServerTypes, StatusOf
<1>1. CASE InitModule
  <2>1. /\ handlers' = RegisterRoutes(provider')
        /\ provider' \in {"none", "base", "demo"}
        /\ UNCHANGED conn
    BY <1>1 DEF InitModule
  <2>2. backend = "none"
    BY <1>1 DEF InitModule, StartInv
  <2>3. \A c \in Connections : conn[c].reply = NoReply
    BY <2>2 DEF RepliesInv
  <2>4. QED
    BY <2>1, <2>3 DEF RepliesInv
<1>2. CASE UNCHANGED <<adapter, conn>>
  BY <1>2 DEF RepliesInv, adapter
<1>3. ASSUME NEW t \in Stoppers, StopFree(t)
      PROVE  RepliesInv'
  BY <1>3 DEF StopFree, RepliesInv, adapter
<1>4. ASSUME NEW c \in Connections, HandleHttpMessage(c)
      PROVE  RepliesInv'
  BY <1>4 DEF HandleHttpMessage, StartInv, RepliesInv, adapter
<1>5. ASSUME NEW c \in Connections, HangUp(c)
      PROVE  RepliesInv'
  BY <1>5 DEF HangUp, RepliesInv, adapter
<1>6. ASSUME NEW c \in Connections, Ask(c)
      PROVE  RepliesInv'
  BY <1>6 DEF Ask, RepliesInv, adapter
<1>7. ASSUME NEW c \in Connections, SimulateRequest(c)
      PROVE  RepliesInv'
  BY <1>7 DEF SimulateRequest, RepliesInv, adapter
<1>8. QED
  BY <1>1, <1>2, <1>3, <1>4, <1>5, <1>6, <1>7
  DEF Next, Assemble, Start, FakeStart, Starting, Listen, ListenFails, Spawn,
      FakeStop, StopTest, Stopping, StopStore, StopJoin, Serving, TestRunning,
      PollEnds, vars

-----------------------------------------------------------------------------
(* The invariant and the theorems                                          *)

Inv == BootInv /\ ServerInv

LEMMA InvInit == Init => Inv
<1> SUFFICES ASSUME Init PROVE Inv
  OBVIOUS
<1> USE DEF Init
<1>1. BootInv
  BY BootTypesInit DEF BootInv, InitBoot, BuiltAsConfigured
<1>2. ServerTypes /\ StartInv /\ StopInv /\ QuietInv /\ alive = {mgr} \ {0}
  BY DEF ServerTypes, StartInv, StopInv, QuietInv, Keys
<1>3. RepliesInv
  BY DEF RepliesInv, RegisterRoutes
<1>4. QED
  BY <1>1, <1>2, <1>3 DEF Inv, ServerInv

LEMMA InvNext == Inv /\ [Next]_vars => Inv'
BY BootInvNext, TypesNext, LifeInvNext, RepliesInvNext
DEF Inv, ServerInv, LifeInv

LEMMA InvAlways == Spec => []Inv
BY InvInit, InvNext, PTL DEF Spec

\* Any configuration in any build: BootSpec starts with some of them.
AnyBootSpec == BootTypes /\ stage = "configured" /\ [][Create]_boot

\* What validation accepts is built, and as it was configured: parts, adapters
\* of the devices and the routes to them, whatever is configured and compiled
\* in, however many devices there are and whatever their names
\* (validate_app_config() against the assemblies and the factories).
THEOREM AcceptedIsBuilt == AnyBootSpec => []BuiltAsConfigured
<1>1. BootTypes /\ stage = "configured" => BootTypes /\ BuiltAsConfigured
  BY DEF BuiltAsConfigured
<1>2. ASSUME BootTypes /\ BuiltAsConfigured, [Create]_boot
      PROVE  (BootTypes /\ BuiltAsConfigured)'
  <2>1. CASE Create
    BY <1>2, <2>1, CreateBuilds DEF Create, BootTypes
  <2>2. CASE UNCHANGED boot
    BY <1>2, <2>2 DEF boot, BootTypes, BuiltAsConfigured
  <2>3. QED
    BY <1>2, <2>1, <2>2
<1>3. QED
  BY <1>1, <1>2, PTL DEF AnyBootSpec

\* In particular from the configurations that TLC starts with.
COROLLARY InitialIsBuilt == BootSpec => []BuiltAsConfigured
<1>1. InitBoot => BootTypes /\ stage = "configured"
  BY BootTypesInit DEF InitBoot
<1>2. QED
  BY <1>1, AcceptedIsBuilt, PTL DEF BootSpec, AnyBootSpec

\* The same of the host that the HTTP server is started from.
THEOREM ServerIsBuilt == Spec => []BuiltAsConfigured
<1>1. Inv => BuiltAsConfigured
  BY DEF Inv, BootInv
<1>2. QED
  BY <1>1, InvAlways, PTL

\* Whichever thread stops the server and when, the worker polls only a manager
\* that is alive, none is left behind, and every reply is that of its route
\* (MongooseHttpServerAdapter, start(), stop() and handle_http_message()).
THEOREM ServerStaysSafe == Spec => []ServerSafe
<1>1. Inv => ServerSafe
  <2> SUFFICES ASSUME Inv PROVE ServerSafe
    OBVIOUS
  <2>1. alive = {mgr} \ {0} /\ ServerTypes /\ StartInv /\ StopInv /\ QuietInv
        /\ RepliesInv
    BY DEF Inv, ServerInv
  <2>2. wpc \in {"test", "poll"} => mgr \in alive
    <3>1. CASE mpc \in {"listen", "spawn"}
      BY <2>1, <3>1 DEF StartInv
    <3>2. CASE \A t \in Stoppers : spc[t] = "idle"
      BY <2>1, <3>2 DEF StartInv, QuietInv, ServerTypes
    <3>3. CASE \E t \in Stoppers : spc[t] # "idle"
      BY <2>1, <3>3 DEF StopInv, ServerTypes
    <3>4. QED
      BY <3>1, <3>2, <3>3
  <2>3. (backend = "mongoose" /\ mpc = "idle" /\ \A t \in Stoppers : spc[t] = "idle")
          => (wpc # "none") = running /\ (mgr # 0) = running
    BY <2>1 DEF QuietInv, ServerTypes
  <2>4. ASSUME NEW c \in Connections, conn[c].reply \notin {NoReply, 503}
        PROVE  conn[c].reply =
          (CASE conn[c].key \in {"GET /ping", "GET /status"} /\ provider # "none" -> 200
             [] conn[c].key = "POST /control" /\ provider # "none" -> 501
             [] conn[c].key \in {"GET /demo/info", "GET /hello"}
                  /\ provider = "demo" -> 200
             [] OTHER -> 404)
    <3>1. conn[c].reply = StatusOf(conn[c].key) /\ conn[c].key \in Keys
      BY <2>1, <2>4 DEF RepliesInv, ServerTypes
    <3>2. QED
      BY <2>1, <3>1, StatusOfRoutes, Zenon
  <2>5. QED
    BY <2>1, <2>2, <2>3, <2>4, Zenon DEF ServerSafe
<1>2. QED
  BY <1>1, InvAlways, PTL
=============================================================================
