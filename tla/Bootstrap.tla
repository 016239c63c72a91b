----------------------------- MODULE Bootstrap -----------------------------
(***************************************************************************)
(* From a configuration to a host: ApplicationBootstrap::create(), the     *)
(* validation, the assemblies, the backend factories, the constructors of  *)
(* ApplicationHost and ModbusMasterModule, and ApplicationHost::init() as  *)
(* far as it decides which parts start.                                    *)
(*                                                                         *)
(* A build is the set of backends compiled in, per subsystem; CMakeLists   *)
(* enables a subsystem exactly when it has one.  Of the fields validation  *)
(* looks at only the first wrong one is recorded (`flaw').                 *)
(***************************************************************************)
EXTENDS Integers, Sequences

CONSTANTS
  DeviceNames,  \* contains the empty name ""
  MaxDevices    \* bound: devices configured

ASSUME DevicesAssumption == MaxDevices \in Nat

VARIABLES
  features,  \* BuildFeatures.h: the backends compiled into the build
  config,    \* AppConfig
  stage,     \* "configured", "created"
  host       \* {} for nullptr, or the set of the host created

boot == <<features, config, stage, host>>

HttpBackendId == {"none", "fake", "mongoose"}
HttpClientBackendId == {"none", "fake", "mongoose"}
ModbusMasterBackendId == {"none", "fake", "tcp", "rtu"}

Features == [http : SUBSET {"fake", "mongoose"},
             http_client : SUBSET {"fake", "mongoose"},
             modbus : SUBSET {"fake", "tcp", "rtu"}]

\* flaw: tcp_host to stop_bits, whatever the backend uses, or retry_delay_ms.
ModbusDeviceConfig ==
  [name : DeviceNames, backend : ModbusMasterBackendId,
   flaw : {"none", "address", "retry"}]

HttpConfig == [enabled : BOOLEAN, backend : HttpBackendId, port : {0, 8080}]
HttpClientConfig == [enabled : BOOLEAN, backend : HttpClientBackendId]
ModbusMasterConfig ==
  [enabled : BOOLEAN,
   devices : UNION {[1 .. n -> ModbusDeviceConfig] : n \in 0 .. MaxDevices}]

\* The defaults of AppConfig.h.
DefaultHttp == [enabled |-> TRUE, backend |-> "mongoose", port |-> 8080]
DefaultHttpClient == [enabled |-> FALSE, backend |-> "fake"]
DefaultModbus == [enabled |-> TRUE, devices |-> << >>]

Everything == [http |-> {"fake", "mongoose"}, http_client |-> {"fake", "mongoose"},
               modbus |-> {"fake", "tcp", "rtu"}]

\* What the demo launchers configure.
HttpServerDemo ==
  [http |-> DefaultHttp, http_client |-> DefaultHttpClient, modbus |-> DefaultModbus]
TimerDemo ==
  [http |-> [DefaultHttp EXCEPT !.enabled = FALSE],
   http_client |-> [enabled |-> TRUE, backend |-> "mongoose"],
   modbus |-> [DefaultModbus EXCEPT !.enabled = FALSE]]
ModbusMasterDemo ==
  [http |-> [enabled |-> FALSE, backend |-> "fake", port |-> 8080],
   http_client |-> DefaultHttpClient,
   modbus |-> [enabled |-> TRUE, devices |->
     <<[name |-> "demo-device", backend |-> "rtu", flaw |-> "none"]>>]]
Demos == {HttpServerDemo, TimerDemo, ModbusMasterDemo}

\* The parts are validated and built independently of each other: all Modbus
\* configurations with the default HTTP ones, and the other way round.
InitBoot ==
  /\ \/ /\ features \in {[Everything EXCEPT !.modbus = b] :
                           b \in SUBSET {"fake", "tcp", "rtu"}}
        /\ config \in [http : {DefaultHttp}, http_client : {DefaultHttpClient},
                       modbus : ModbusMasterConfig]
     \/ /\ features \in Features
        /\ config \in [http : HttpConfig, http_client : HttpClientConfig,
                       modbus : {TimerDemo.modbus}]
     \/ features = Everything /\ config \in Demos
  /\ stage = "configured" /\ host = {}

-----------------------------------------------------------------------------
(* Slips: wrong variants of definitions below, each a mistake the code could *)
(* plausibly have made.  No specification uses them; put in the place of the *)
(* right definition, each makes the property named with it fail.             *)

\* Validation asks whether the subsystem is compiled in, and not for the
\* backend (BuiltAsConfigured).
ValidIfCompiled(part, compiled) ==
  part.enabled => compiled # {} /\ part.backend # "none"

-----------------------------------------------------------------------------
(* validate_app_config(): no errors                                        *)

ValidBackend(part, compiled) ==
  part.enabled => compiled # {} /\ part.backend \in compiled

ValidHttp(f, c) ==
  /\ ValidBackend(c.http, f.http)
  /\ c.http.enabled => c.http.port > 0

ValidHttpClient(f, c) == ValidBackend(c.http_client, f.http_client)

ValidDevice(f, device) ==
  /\ device.name # ""
  /\ device.backend \in f.modbus
  /\ device.backend \in {"tcp", "rtu"} => device.flaw # "address"
  /\ device.flaw # "retry"

ValidModbus(f, c) ==
  c.modbus.enabled =>
    /\ f.modbus # {}
    /\ c.modbus.devices # << >>
    /\ \A i \in DOMAIN c.modbus.devices : ValidDevice(f, c.modbus.devices[i])

Valid(f, c) == ValidHttp(f, c) /\ ValidHttpClient(f, c) /\ ValidModbus(f, c)

-----------------------------------------------------------------------------
(* Factories and assemblies                                                *)

\* is_compiled() and create() of the three factories: an adapter, or none.
HttpBackend(f, c) ==
  IF c.enabled /\ f.http # {} /\ c.backend \in f.http THEN {c.backend} ELSE {}

HttpClientBackend(f, c) ==
  IF c.enabled /\ f.http_client # {} /\ c.backend \in f.http_client
  THEN {c.backend} ELSE {}

ModbusMasterBackend(f, device) ==
  IF f.modbus # {} /\ device.backend \in f.modbus THEN {device.backend} ELSE {}

\* ModbusMasterAssembly::install(): one adapter per device, or failure.
InstallModbus(f, c) ==
  LET devices == c.modbus.devices
  IN IF ~c.modbus.enabled THEN {<< >>}
     ELSE {s \in [DOMAIN devices -> ModbusMasterBackendId] :
             \A i \in DOMAIN devices : s[i] \in ModbusMasterBackend(f, devices[i])}

\* HttpAssembly and HttpClientAssembly install a factory that builds the
\* module, or nothing when there is no adapter.
InstallHttp(f, c) == IF c.http.enabled THEN HttpBackend(f, c.http) ELSE {}
InstallHttpClient(f, c) ==
  IF c.http_client.enabled THEN HttpClientBackend(f, c.http_client) ELSE {}

-----------------------------------------------------------------------------
(* ApplicationHost and ModbusMasterModule                                  *)

\* The constructor pairs adapters and devices by their index.
Runtimes(adapters, c) ==
  IF ~c.modbus.enabled THEN << >>
  ELSE [i \in DOMAIN c.modbus.devices \cap DOMAIN adapters |->
          [adapter |-> adapters[i], device |-> c.modbus.devices[i]]]

\* runtimes_[device_name] = runtime: the last one of a name stays.
Routes(runtimes) ==
  LET Named(n) == {i \in DOMAIN runtimes : runtimes[i].device.name = n}
  IN [n \in {runtimes[i].device.name : i \in DOMAIN runtimes} |->
        CHOOSE i \in Named(n) : \A j \in Named(n) : j <= i]

\* ModbusMasterModule::start() starts the runtimes it routes to.
Host(adapters, f, c) ==
  LET runtimes == Runtimes(adapters, c)
  IN [runtimes |-> runtimes, routes |-> Routes(runtimes),
      http |-> InstallHttp(f, c), http_client |-> InstallHttpClient(f, c)]

-----------------------------------------------------------------------------

\* ApplicationBootstrap::create().
Create ==
  /\ stage = "configured"
  /\ stage' = "created"
  /\ host' = IF Valid(features, config)
             THEN {Host(a, features, config) : a \in InstallModbus(features, config)}
             ELSE {}
  /\ UNCHANGED <<features, config>>

BootSpec == InitBoot /\ [][Create]_boot

-----------------------------------------------------------------------------

Present(part) == IF part.enabled THEN {part.backend} ELSE {}

\* Each device of h has a runtime of its own, and the requests for its name go
\* to that runtime, which is also the one that is started: "a unique
\* identifier, events are routed by it", says AppConfig.h of a name.
Routed(h) ==
  \A i \in DOMAIN h.runtimes :
    LET name == h.runtimes[i].device.name
    IN name \in DOMAIN h.routes /\ h.routes[name] = i

DistinctNames(devices) ==
  \A i, j \in DOMAIN devices : devices[i].name = devices[j].name => i = j

\* A runtime for each device, with the adapter of its own backend, and routes
\* for the names of the devices and no others, each to a runtime of that name.
DevicesBuilt(devices, h) ==
  /\ DOMAIN h.runtimes = DOMAIN devices
  /\ \A i \in DOMAIN devices :
       h.runtimes[i] = [adapter |-> devices[i].backend, device |-> devices[i]]
  /\ DOMAIN h.routes = {devices[i].name : i \in DOMAIN devices}
  /\ \A n \in DOMAIN h.routes : h.runtimes[h.routes[n]].device.name = n

\* What validation accepts can be built, and is built as it was configured:
\* an enabled HTTP part is there, with its backend (a missing one would only
\* show as a module that is not there), so is every device; and when no two
\* devices have one name, the requests for each reach a runtime that is its
\* own and was started.  Validation accepts two of one name: then the first
\* has a runtime that is never started and that no request reaches.
BuiltAsConfigured ==
  stage = "created" =>
    /\ (host # {}) = Valid(features, config)
    /\ \A h \in host :
         /\ h.http = Present(config.http)
         /\ h.http_client = Present(config.http_client)
         /\ config.modbus.enabled =>
              /\ DevicesBuilt(config.modbus.devices, h)
              /\ DistinctNames(config.modbus.devices) => Routed(h)

\* Every demo of main.cpp starts in a build with everything in it: "HTTP
\* server ready", says HttpServerDemoLauncher.h once it has its host.
DemosStart ==
  stage = "created" /\ features = Everything /\ config \in Demos => host # {}
=============================================================================
