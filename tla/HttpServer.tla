----------------------------- MODULE HttpServer -----------------------------
(***************************************************************************)
(* The HTTP server as Bootstrap builds it: HttpModule, the routes of a     *)
(* BaseHttpRouteProvider or DemoHttpRouteProvider, and an adapter, either  *)
(* MongooseHttpServerAdapter with its polling worker or                    *)
(* FakeHttpServerAdapter.                                                  *)
(*                                                                         *)
(* The main thread calls init() and start(), any thread may call stop().   *)
(* stop() tests running_ and clears it later, so two calls can both pass   *)
(* the test and then join a thread and free a manager twice; and a start() *)
(* during a stop() overwrites what the stop() still needs.  MayStop and    *)
(* MayStart say which calls the model leaves out for that reason.          *)
(***************************************************************************)
EXTENDS Bootstrap

CONSTANTS
  Connections,
  Stoppers,   \* threads that call stop()
  NoReply,
  MaxStarts,  \* bound: calls of start()
  MaxSent     \* bound: requests

VARIABLES
  backend,   \* "mongoose" or "fake", once there is an HttpModule
  provider,  \* its route provider: "none" (nullptr), "base" or "demo"
  handlers,  \* handlers_: status of the answer of each registered key
  running,   \* running_; started_ of the fake adapter
  mgr,       \* mgr_: number of a manager, 0 for nullptr
  alive,     \* managers allocated and not freed
  wpc,       \* worker: "none", "test", "poll" or "done"
  ready,     \* connections the poll still has to serve
  mpc,       \* main thread: "create", "init", "idle", or inside start()
  spc,       \* each thread inside stop()
  conn,      \* each connection: state, key of its request, status of the reply
  starts, sent

adapter == <<backend, provider, handlers>>
server == <<running, mgr, alive, starts>>
vars == <<boot, adapter, server, wpc, ready, mpc, spc, conn, sent>>

Keys == {"GET /ping", "GET /status", "POST /control", "GET /demo/info",
         "GET /hello", "GET /other"}

Init ==
  /\ InitBoot
  /\ backend = "none" /\ provider = "none"
  /\ handlers = << >>
  /\ running = FALSE /\ mgr = 0 /\ alive = {}
  /\ wpc = "none" /\ ready = {}
  /\ mpc = "create" /\ spc = [t \in Stoppers |-> "idle"]
  /\ conn = [c \in Connections |->
              [st |-> "closed", key |-> "GET /ping", reply |-> NoReply]]
  /\ starts = 0 /\ sent = 0

-----------------------------------------------------------------------------
(* Slips: wrong variants of definitions below, each a mistake the code could *)
(* plausibly have made.  No specification uses them; put in the place of the *)
(* right definition, each makes the property named with it fail.             *)

\* stop() frees the manager without waiting for the worker (ServerSafe).
DetachWorker(t) ==
  /\ spc[t] = "join"
  /\ spc' = [spc EXCEPT ![t] = "free"]
  /\ UNCHANGED <<boot, adapter, server, wpc, ready, mpc, conn, sent>>

\* A request that no route matches gets no reply (RequestsSettled).
IgnoreUnknown(c) ==
  /\ wpc = "poll" /\ c \in ready
  /\ ready' = ready \ {c}
  /\ conn' = IF conn[c].key \in DOMAIN handlers
             THEN [conn EXCEPT ![c].st = "open",
                               ![c].reply = handlers[conn[c].key]]
             ELSE conn
  /\ UNCHANGED <<boot, adapter, server, wpc, mpc, spc, sent>>

-----------------------------------------------------------------------------
(* Routes                                                                  *)

BaseRoutes ==
  [key \in {"GET /ping", "GET /status", "POST /control"} |->
     IF key = "POST /control" THEN 501 ELSE 200]

CustomRoutes == [key \in {"GET /demo/info", "GET /hello"} |-> 200]

\* BaseHttpRouteProvider::register_routes(): handlers_[key] = handler, the
\* custom routes last.
RegisterRoutes(p) ==
  CASE p = "none" -> << >>
    [] p = "base" -> BaseRoutes
    [] p = "demo" -> [key \in DOMAIN BaseRoutes \cup DOMAIN CustomRoutes |->
                        IF key \in DOMAIN CustomRoutes THEN CustomRoutes[key]
                        ELSE BaseRoutes[key]]

\* handlers_.find(), or else 404.
StatusOf(key) == IF key \in DOMAIN handlers THEN handlers[key] ELSE 404

-----------------------------------------------------------------------------
(* The main thread: create(), HttpModule::init() and start()               *)

Assemble ==
  /\ mpc = "create"
  /\ Create
  /\ mpc' = "init"
  /\ UNCHANGED <<adapter, server, wpc, ready, spc, conn, sent>>

\* The host has an HttpModule.  The configuration is not looked at any more;
\* it is forgotten, so that it does not multiply the states.
InitModule ==
  /\ mpc = "init"
  /\ \E h \in host, p \in {"none", "base", "demo"} :
       /\ h.http # {}
       /\ backend' = CHOOSE b \in h.http : TRUE
       /\ provider' = p
       /\ handlers' = RegisterRoutes(p)
  /\ features' = Everything /\ config' = HttpServerDemo /\ host' = {}
  /\ stage' = "forgotten"
  /\ mpc' = "idle"
  /\ UNCHANGED <<server, wpc, ready, spc, conn, sent>>

\* No start() before a stop() has freed the old manager.
MayStart == \A t \in Stoppers : spc[t] \notin {"join", "free"}

\* start(), up to mg_http_listen(): a new manager.
Start ==
  /\ backend = "mongoose"
  /\ mpc = "idle" /\ ~running /\ starts < MaxStarts
  /\ starts' = starts + 1
  /\ MayStart
  /\ mgr' = starts'
  /\ alive' = alive \cup {starts'}
  /\ mpc' = "listen"
  /\ UNCHANGED <<boot, adapter, running, wpc, ready, spc, conn, sent>>

ListenFails ==
  /\ mpc = "listen"
  /\ alive' = alive \ {mgr}
  /\ mgr' = 0
  /\ mpc' = "idle"
  /\ UNCHANGED <<boot, adapter, running, starts, wpc, ready, spc, conn, sent>>

Listen ==
  /\ mpc = "listen"
  /\ running' = TRUE
  /\ mpc' = "spawn"
  /\ UNCHANGED <<boot, adapter, mgr, alive, starts, wpc, ready, spc, conn, sent>>

Spawn ==
  /\ mpc = "spawn"
  /\ wpc' = "test"
  /\ mpc' = "idle"
  /\ UNCHANGED <<boot, adapter, server, ready, spc, conn, sent>>

FakeStart ==
  /\ backend = "fake"
  /\ mpc = "idle" /\ starts < MaxStarts
  /\ starts' = starts + 1
  /\ running' = TRUE
  /\ UNCHANGED <<boot, adapter, mgr, alive, wpc, ready, mpc, spc, conn, sent>>

-----------------------------------------------------------------------------
(* stop(), called by HttpModule::stop() and by the destructor              *)

\* No stop() between the test and the assignment of another one, or before
\* start() has stored the worker.
MayStop == mpc # "spawn" /\ \A u \in Stoppers : spc[u] # "store"

\* if (!running_) return, otherwise on to the assignment below it.
StopTest(t) ==
  /\ backend = "mongoose"
  /\ spc[t] = "idle" /\ running
  /\ MayStop
  /\ spc' = [spc EXCEPT ![t] = "store"]
  /\ UNCHANGED <<boot, adapter, server, wpc, ready, mpc, conn, sent>>

StopStore(t) ==
  /\ spc[t] = "store"
  /\ running' = FALSE
  /\ spc' = [spc EXCEPT ![t] = "join"]
  /\ UNCHANGED <<boot, adapter, mgr, alive, starts, wpc, ready, mpc, conn, sent>>

StopJoin(t) ==
  /\ spc[t] = "join" /\ wpc = "done"
  /\ wpc' = "none"
  /\ spc' = [spc EXCEPT ![t] = "free"]
  /\ UNCHANGED <<boot, adapter, server, ready, mpc, conn, sent>>

\* mg_mgr_free() closes every connection.
StopFree(t) ==
  /\ spc[t] = "free"
  /\ alive' = alive \ {mgr}
  /\ mgr' = 0
  /\ conn' = [c \in Connections |-> [conn[c] EXCEPT !.st = "closed"]]
  /\ spc' = [spc EXCEPT ![t] = "idle"]
  /\ UNCHANGED <<boot, adapter, running, starts, wpc, ready, mpc, sent>>

FakeStop ==
  /\ backend = "fake" /\ running
  /\ running' = FALSE
  /\ UNCHANGED <<boot, adapter, mgr, alive, starts, wpc, ready, mpc, spc, conn, sent>>

-----------------------------------------------------------------------------
(* The worker                                                              *)

\* while (running_) mg_mgr_poll(): the poll serves what has arrived.
TestRunning ==
  /\ wpc = "test"
  /\ wpc' = IF running THEN "poll" ELSE "done"
  /\ ready' = IF running THEN {c \in Connections : conn[c].st = "asking"} ELSE {}
  /\ UNCHANGED <<boot, adapter, server, mpc, spc, conn, sent>>

\* on_mg_event() and handle_http_message().
HandleHttpMessage(c) ==
  /\ wpc = "poll" /\ c \in ready
  /\ ready' = ready \ {c}
  /\ conn' = [conn EXCEPT ![c].st = "open", ![c].reply = StatusOf(conn[c].key)]
  /\ UNCHANGED <<boot, adapter, server, wpc, mpc, spc, sent>>

PollEnds ==
  /\ wpc = "poll" /\ ready = {}
  /\ wpc' = "test"
  /\ UNCHANGED <<boot, adapter, server, ready, mpc, spc, conn, sent>>

-----------------------------------------------------------------------------
(* Clients                                                                 *)

\* A request on a new connection, or on one that has had its answer.
Ask(c) ==
  /\ backend = "mongoose" /\ sent < MaxSent
  /\ mgr # 0 /\ mpc # "listen" /\ conn[c].st \in {"open", "closed"}
  /\ \E k \in Keys :
       conn' = [conn EXCEPT ![c] = [st |-> "asking", key |-> k, reply |-> NoReply]]
  /\ sent' = sent + 1
  /\ UNCHANGED <<boot, adapter, server, wpc, ready, mpc, spc>>

HangUp(c) ==
  /\ conn[c].st = "asking"
  /\ conn' = [conn EXCEPT ![c].st = "closed"]
  /\ ready' = ready \ {c}
  /\ UNCHANGED <<boot, adapter, server, wpc, mpc, spc, sent>>

\* FakeHttpServerAdapter::simulate_request().
SimulateRequest(c) ==
  /\ backend = "fake" /\ sent < MaxSent
  /\ \E k \in Keys :
       conn' = [conn EXCEPT ![c] =
         [st |-> "closed", key |-> k,
          reply |-> IF ~running THEN 503 ELSE StatusOf(k)]]
  /\ sent' = sent + 1
  /\ UNCHANGED <<boot, adapter, server, wpc, ready, mpc, spc>>

-----------------------------------------------------------------------------

Starting == Listen \/ ListenFails \/ Spawn
Stopping(t) == StopStore(t) \/ StopJoin(t) \/ StopFree(t)
Serving == TestRunning \/ PollEnds \/ \E c \in Connections : HandleHttpMessage(c)

Next ==
  \/ Assemble \/ InitModule \/ Start \/ FakeStart \/ Starting
  \/ FakeStop \/ \E t \in Stoppers : StopTest(t) \/ Stopping(t)
  \/ Serving
  \/ \E c \in Connections : Ask(c) \/ HangUp(c) \/ SimulateRequest(c)

Spec == Init /\ [][Next]_vars

\* Calls that have begun go on, and so does the worker; clients owe nothing.
FairSpec ==
  /\ Spec
  /\ WF_vars(Starting)
  /\ \A t \in Stoppers : WF_vars(Stopping(t))
  /\ WF_vars(Serving)

-----------------------------------------------------------------------------

\* The worker polls a manager that is alive and the only one; managers are
\* freed when listening fails and when the server stops, so that none is left
\* behind; between two calls there is a worker exactly while the server runs;
\* and every reply is the one of the route, custom routes included, that the
\* request names (start() and stop() against the worker, lines 18-80).
ServerSafe ==
  /\ alive = {mgr} \ {0}
  /\ wpc \in {"test", "poll"} => mgr \in alive
  /\ (backend = "mongoose" /\ mpc = "idle" /\ \A t \in Stoppers : spc[t] = "idle")
       => (wpc # "none") = running /\ (mgr # 0) = running
  /\ \A c \in Connections : conn[c].reply \notin {NoReply, 503} =>
       conn[c].reply =
         (CASE conn[c].key \in {"GET /ping", "GET /status"} /\ provider # "none" -> 200
            [] conn[c].key = "POST /control" /\ provider # "none" -> 501
            [] conn[c].key \in {"GET /demo/info", "GET /hello"} /\ provider = "demo" -> 200
            [] OTHER -> 404)

\* A request is answered, also when no route matches it, or its connection is
\* closed by one side or the other: stop() leaves none hanging.
RequestsSettled ==
  \A c \in Connections :
    conn[c].st = "asking" ~> conn[c].st # "asking"
=============================================================================
