------------------------ MODULE ApplicationHostProofs ------------------------
(***************************************************************************)
(* Proofs about ApplicationHost.tla, for any number of runs, stop() calls  *)
(* and events: the types; that nothing is used after destroy() released it *)
(* and a destroyed host leaves an empty bus, for stop() calls that do not  *)
(* overlap; and that run() returns only after every result a worker        *)
(* published, for stop() calls that moreover leave the modules alone until *)
(* init() is over.                                                         *)
(***************************************************************************)
EXTENDS ApplicationHost, SequenceTheorems, TLAPS

USE DEF flags, counters, history, InLoop, Free, Threads, Modules, Sources

-----------------------------------------------------------------------------
(* The inductive invariant                                                 *)

Events == Sources \cup {"shutdown"}

\* No worker of module m publishes any more, or none does yet.
Quiet(m) == module[m] \notin {"up", "stopping"}

\* No stop() has gone further than its test before init() is over, unless it
\* is recorded as early.
StartInv ==
  /\ runs > 0 \/ InLoop => initialized
  /\ mpc \in {"init_modbus", "init_http"} => ~initialized
  /\ ~initialized /\ ~early =>
       /\ ~stopped /\ ~Contains(queue, "shutdown")
       /\ \A t \in Threads : spc[t] \in {"out", "test"}

\* The main thread is out of init(), the loop and stop() before it releases
\* anything, and the modules are freed by its last step but one.
DestroyInv ==
  /\ dpc # "out" \/ destroyed => mpc = "idle"
  /\ dpc = "business" /\ spc[Main] = "out" => stopped
  /\ dpc \in {"modules", "clear"} => spc[Main] = "out"
  /\ destroyed => spc[Main] \in {"out", "test"}
  /\ dpc \in {"modules", "clear"} \/ destroyed => stopped
  /\ ~business => dpc \in {"modules", "clear"} \/ destroyed
  /\ \A m \in Modules : module[m] = "freed" <=> dpc = "clear" \/ destroyed

\* Of stop() calls that do not overlap one at most is at the modules, and none
\* is there any more once stopped_ is set.
StopInv ==
  /\ ~(AtModules(Main) /\ AtModules(Other))
  /\ \A m \in Modules :
       module[m] = "stopping" => stopper[m] \in Threads /\ spc[stopper[m]] = m
  /\ stopped => spc[Other] \notin Modules \cup {"publish"}
  /\ destroyed => queue = << >>

\* Behind a SHUTDOWN there is no result, and there will be none.
Ordered(q) ==
  \A i, j \in 1 .. Len(q) : i < j /\ q[i] = "shutdown" => q[j] \notin Modules

\* The modules that a stop() has passed stay quiet if init() was over before.
ShutdownInv ==
  /\ \A t \in Threads :
       /\ spc[t] \in {"http_client", "modbus", "publish"} => Quiet("http")
       /\ spc[t] \in {"modbus", "publish"} => Quiet("http_client")
       /\ spc[t] = "publish" => Quiet("modbus")
  /\ Ordered(queue)
  /\ Contains(queue, "shutdown") => \A m \in Modules : Quiet(m)
  /\ runs > 0 /\ ~InLoop =>
       \A m \in Modules : Quiet(m) /\ ~Contains(queue, m)

Inv ==
  /\ TypeOK /\ StartInv /\ DestroyInv
  /\ ~overlapped => StopInv
  /\ ~overlapped /\ ~early => ShutdownInv

-----------------------------------------------------------------------------
(* The queue                                                               *)

LEMMA EmptyQueue ==
  << >> \in Seq(Events) /\ Ordered(<< >>) /\ \A x : ~Contains(<< >>, x)
<1>1. << >> \in Seq(Events) /\ Len(<< >>) = 0
  BY EmptySeq
<1>2. QED
  BY <1>1 DEF Ordered, Contains

\* An event that is no result, or that finds no SHUTDOWN, may be added.
LEMMA Published ==
  ASSUME NEW q \in Seq(Events), NEW e \in Events
  PROVE  /\ Append(q, e) \in Seq(Events)
         /\ \A x : Contains(Append(q, e), x) <=> Contains(q, x) \/ x = e
         /\ Ordered(q) /\ (e \in Modules => ~Contains(q, "shutdown")) =>
              Ordered(Append(q, e))
<1> DEFINE p == Append(q, e)
<1>1. /\ p \in Seq(Events) /\ Len(q) \in Nat /\ Len(p) = Len(q) + 1
      /\ \A i \in 1 .. Len(q) : p[i] = q[i]
      /\ p[Len(q) + 1] = e
  BY AppendProperties, LenProperties
<1> HIDE DEF p
<1>2. ASSUME NEW x
      PROVE  Contains(p, x) <=> Contains(q, x) \/ x = e
  <2>1. ASSUME Contains(p, x), x # e
        PROVE  Contains(q, x)
    <3>1. PICK i \in 1 .. Len(q) + 1 : p[i] = x
      BY <1>1, <2>1 DEF Contains
    <3>2. i \in 1 .. Len(q)
      BY <1>1, <2>1, <3>1
    <3>3. QED
      BY <1>1, <3>1, <3>2 DEF Contains
  <2>2. ASSUME Contains(q, x)
        PROVE  Contains(p, x)
    <3>1. PICK i \in 1 .. Len(q) : q[i] = x
      BY <2>2 DEF Contains
    <3>2. i \in 1 .. Len(p) /\ p[i] = x
      BY <1>1, <3>1
    <3>3. QED
      BY <3>2 DEF Contains
  <2>3. Contains(p, e)
    BY <1>1 DEF Contains
  <2>4. QED
    BY <2>1, <2>2, <2>3
<1>3. ASSUME Ordered(q), e \in Modules => ~Contains(q, "shutdown")
      PROVE  Ordered(p)
  <2> SUFFICES ASSUME NEW i \in 1 .. Len(p), NEW j \in 1 .. Len(p),
                      i < j, p[i] = "shutdown"
               PROVE  p[j] \notin Modules
    BY DEF Ordered
  <2>1. i \in 1 .. Len(q) /\ q[i] = "shutdown"
    BY <1>1
  <2>2. CASE j \in 1 .. Len(q)
    BY <1>1, <1>3, <2>1, <2>2 DEF Ordered
  <2>3. CASE j = Len(q) + 1
    <3>1. Contains(q, "shutdown")
      BY <2>1 DEF Contains
    <3>2. QED
      BY <1>1, <1>3, <2>3, <3>1
  <2>4. QED
    BY <1>1, <2>2, <2>3
<1>4. QED
  BY <1>1, <1>2, <1>3 DEF p

\* What is left when the head is taken.
LEMMA Taken ==
  ASSUME NEW q \in Seq(Events), q # << >>, Ordered(q)
  PROVE  /\ Tail(q) \in Seq(Events) /\ Ordered(Tail(q))
         /\ \A x : Contains(Tail(q), x) => Contains(q, x)
         /\ Head(q) = "shutdown" =>
              /\ Contains(q, "shutdown")
              /\ \A m \in Modules : ~Contains(Tail(q), m)
<1> DEFINE p == Tail(q)
<1>1. /\ p \in Seq(Events) /\ Head(q) = q[1]
      /\ Len(q) \in Nat \ {0} /\ Len(p) = Len(q) - 1
      /\ \A i \in 1 .. Len(p) : p[i] = q[i + 1]
  BY HeadTailProperties, LenProperties, EmptySeq
<1> HIDE DEF p
<1>2. Ordered(p)
  <2> SUFFICES ASSUME NEW i \in 1 .. Len(p), NEW j \in 1 .. Len(p),
                      i < j, p[i] = "shutdown"
               PROVE  p[j] \notin Modules
    BY DEF Ordered
  <2>1. /\ i + 1 \in 1 .. Len(q) /\ j + 1 \in 1 .. Len(q) /\ i + 1 < j + 1
        /\ q[i + 1] = "shutdown" /\ p[j] = q[j + 1]
    BY <1>1
  <2>2. QED
    BY <2>1 DEF Ordered
<1>3. ASSUME NEW x, Contains(p, x)
      PROVE  \E i \in 1 .. Len(q) : 1 < i /\ q[i] = x
  <2>1. PICK i \in 1 .. Len(p) : p[i] = x
    BY <1>3 DEF Contains
  <2>2. i + 1 \in 1 .. Len(q) /\ 1 < i + 1 /\ q[i + 1] = x
    BY <1>1, <2>1
  <2>3. QED
    BY <2>2
<1>4. \A x : Contains(p, x) => Contains(q, x)
  BY <1>3 DEF Contains
<1>5. ASSUME Head(q) = "shutdown"
      PROVE  Contains(q, "shutdown") /\ \A m \in Modules : ~Contains(p, m)
  <2>1. 1 \in 1 .. Len(q) /\ q[1] = "shutdown"
    BY <1>1, <1>5
  <2>2. Contains(q, "shutdown")
    BY <2>1 DEF Contains
  <2>3. ASSUME NEW m \in Modules
        PROVE  ~Contains(p, m)
    BY <1>3, <2>1 DEF Ordered
  <2>4. QED
    BY <2>2, <2>3
<1>6. QED
  BY <1>1, <1>2, <1>4, <1>5 DEF p

-----------------------------------------------------------------------------
(* init(), run() and the workers                                           *)

LEMMA InitHostKeepsInv ==
  ASSUME Inv, InitHost
  PROVE  Inv'
<1>1. /\ mpc = "idle" /\ mpc' = "init_modbus" /\ dpc = "out" /\ ~destroyed
      /\ ~initialized
      /\ UNCHANGED <<initialized, stopped, destroyed, module, stopper, business,
                     queue, spc, dpc, runs, stops, events, asked, overlapped,
                     early>>
  BY DEF InitHost
<1>2. TypeOK'
  BY <1>1 DEF Inv, TypeOK
<1>3. runs = 0
  BY <1>1, HostAssumption DEF Inv, StartInv, TypeOK
<1>4. StartInv' /\ DestroyInv'
  BY <1>1 DEF Inv, StartInv, DestroyInv
<1>5. ~overlapped' => StopInv'
  BY <1>1 DEF Inv, StopInv, AtModules
<1>6. ~overlapped' /\ ~early' => ShutdownInv'
  BY <1>1, <1>3 DEF Inv, ShutdownInv, Quiet
<1>7. QED
  BY <1>2, <1>4, <1>5, <1>6 DEF Inv

\* init() starts modules; without an early stop() nobody has passed them.
LEMMA StartsKeepInv ==
  ASSUME Inv, mpc \in {"init_modbus", "init_http"}, mpc' \in {"idle", "init_http"},
         initialized' \in BOOLEAN, mpc' = "idle" <=> initialized',
         NEW m \in Modules,
         module' \in [Modules -> {"built", "up", "stopping", "down", "freed"}],
         module'[m] \in {"up", "down"},
         \A n \in Modules \ {m} : module'[n] = module[n],
         UNCHANGED <<stopped, destroyed, stopper, business, queue, spc, dpc, runs,
                     stops, events, asked, overlapped, early>>
  PROVE  Inv'
<1>1. dpc = "out" /\ ~destroyed
  BY DEF Inv, DestroyInv, TypeOK
<1>2. runs = 0 /\ ~initialized
  BY HostAssumption DEF Inv, StartInv, TypeOK
<1>3. TypeOK'
  BY DEF Inv, TypeOK
<1>4. StartInv'
  BY <1>2 DEF Inv, StartInv
<1>5. DestroyInv'
  BY <1>1 DEF Inv, DestroyInv
<1>6. ~overlapped' => StopInv'
  BY DEF Inv, StopInv, AtModules
<1>7. ~overlapped' /\ ~early' => ShutdownInv'
  <2> SUFFICES ASSUME ~overlapped, ~early
               PROVE  ShutdownInv'
    OBVIOUS
  <2>1. /\ ~Contains(queue, "shutdown")
        /\ \A t \in Threads : spc[t] \in {"out", "test"}
    BY DEF Inv, StartInv
  <2>2. QED
    BY <1>2, <2>1 DEF Inv, ShutdownInv
<1>8. QED
  BY <1>3, <1>4, <1>5, <1>6, <1>7 DEF Inv

LEMMA InitModbusKeepsInv ==
  ASSUME Inv, InitModbus
  PROVE  Inv'
<1>1. /\ module' \in [Modules -> {"built", "up", "stopping", "down", "freed"}]
      /\ module'["modbus"] = "up"
      /\ \A n \in Modules \ {"modbus"} : module'[n] = module[n]
  BY DEF InitModbus, Inv, TypeOK
<1>2. /\ mpc = "init_modbus" /\ mpc' = "init_http"
      /\ UNCHANGED <<initialized, stopped, destroyed, stopper, business, queue,
                     spc, dpc, runs, stops, events, asked, overlapped, early>>
  BY DEF InitModbus
<1>3. initialized' = FALSE
  BY <1>2 DEF Inv, StartInv, TypeOK
<1>4. QED
  BY <1>1, <1>2, <1>3, StartsKeepInv

LEMMA InitHttpKeepsInv ==
  ASSUME Inv, InitHttp
  PROVE  Inv'
<1>1. /\ module' \in [Modules -> {"built", "up", "stopping", "down", "freed"}]
      /\ module'["http"] \in {"up", "down"}
      /\ \A n \in Modules \ {"http"} : module'[n] = module[n]
  BY DEF InitHttp, Inv, TypeOK
<1>2. QED
  BY <1>1, StartsKeepInv DEF InitHttp

LEMMA RunKeepsInv ==
  ASSUME Inv, Run
  PROVE  Inv'
<1>1. /\ initialized /\ ~destroyed /\ dpc = "out" /\ mpc' = "timers"
      /\ runs' = runs + 1 /\ runs < MaxRuns /\ asked' = FALSE
      /\ UNCHANGED <<initialized, stopped, destroyed, module, stopper, business,
                     queue, spc, dpc, stops, events, overlapped, early>>
  BY DEF Run
<1>2. TypeOK'
  <2>1. runs \in 0 .. MaxRuns
    BY DEF Inv, TypeOK
  <2>2. runs' \in 0 .. MaxRuns
    BY <1>1, <2>1, HostAssumption
  <2>3. QED
    BY <1>1, <2>2 DEF Inv, TypeOK
<1>3. StartInv' /\ DestroyInv'
  BY <1>1 DEF Inv, StartInv, DestroyInv
<1>4. (~overlapped' => StopInv') /\ (~overlapped' /\ ~early' => ShutdownInv')
  BY <1>1 DEF Inv, StopInv, AtModules, Quiet, ShutdownInv
<1>5. QED
  BY <1>2, <1>3, <1>4 DEF Inv

\* The types after a source has published.
LEMMA PublishTypes ==
  ASSUME Inv, NEW s \in Sources, Publish(s)
  PROVE  /\ queue' \in Seq(Events)
         /\ events' \in [Sources -> 0 .. MaxEvents]
         /\ \A x : Contains(queue', x) <=> Contains(queue, x) \/ x = s
         /\ Ordered(queue) /\ (s \in Modules => ~Contains(queue, "shutdown")) =>
              Ordered(queue')
<1>1. /\ queue \in Seq(Events) /\ s \in Events
      /\ events \in [Sources -> 0 .. MaxEvents]
  BY DEF Inv, TypeOK, Events
<1>2. queue' = Append(queue, s)
  BY DEF Publish
<1>3. events' \in [Sources -> 0 .. MaxEvents]
  BY <1>1, HostAssumption DEF Publish
<1>4. QED
  BY <1>1, <1>2, <1>3, Published

LEMMA TimersKeepsInv ==
  ASSUME Inv, Timers
  PROVE  Inv'
<1>1. /\ mpc = "timers" /\ mpc' = "wait"
      /\ Publish("loop") \/ UNCHANGED <<queue, events>>
      /\ UNCHANGED <<initialized, stopped, destroyed, module, stopper, business,
                     dpc, runs, asked, overlapped, early, spc, stops>>
  BY DEF Timers, loopUnchanged
<1>2. /\ queue' \in Seq(Events)
      /\ events' \in [Sources -> 0 .. MaxEvents]
      /\ \A x : Contains(queue', x) => Contains(queue, x) \/ x = "loop"
      /\ Ordered(queue) => Ordered(queue')
  BY <1>1, PublishTypes DEF Inv, TypeOK, Events
<1>3. TypeOK'
  BY <1>1, <1>2 DEF Inv, TypeOK, Events
<1>4. StartInv'
  BY <1>1, <1>2 DEF Inv, StartInv
<1>5. DestroyInv'
  BY <1>1 DEF Inv, DestroyInv
<1>6. ~overlapped' => StopInv'
  <2>1. ~destroyed
    BY <1>1 DEF Inv, DestroyInv
  <2>2. QED
    BY <1>1, <2>1 DEF Inv, StopInv, AtModules
<1>7. ~overlapped' /\ ~early' => ShutdownInv'
  BY <1>1, <1>2 DEF Inv, ShutdownInv, Quiet
<1>8. QED
  BY <1>3, <1>4, <1>5, <1>6, <1>7 DEF Inv

LEMMA WaitAndGetKeepsInv ==
  ASSUME Inv, WaitAndGet
  PROVE  Inv'
<1>1. /\ mpc = "wait" /\ mpc' \in {"idle", "timers", "dispatch"}
      /\ UNCHANGED <<initialized, stopped, destroyed, module, stopper, business,
                     dpc, runs, asked, overlapped, early, spc, stops, events>>
  BY DEF WaitAndGet, loopUnchanged
<1>2. initialized /\ dpc = "out" /\ ~destroyed /\ business
  BY <1>1 DEF Inv, StartInv, DestroyInv, TypeOK
<1>3. StartInv' /\ DestroyInv'
  BY <1>1, <1>2 DEF Inv, StartInv, DestroyInv
<1>4. ~overlapped' => StopInv'
  BY <1>1, <1>2 DEF Inv, StopInv, AtModules
<1>5. CASE queue = << >>
  <2>1. mpc' = "timers" /\ queue' = queue
    BY <1>5 DEF WaitAndGet
  <2>2. TypeOK'
    BY <1>1, <2>1 DEF Inv, TypeOK
  <2>3. ~overlapped' /\ ~early' => ShutdownInv'
    BY <1>1, <2>1 DEF Inv, ShutdownInv, Quiet
  <2>4. QED
    BY <1>3, <1>4, <2>2, <2>3 DEF Inv
<1>6. CASE queue # << >>
  <2>1. /\ queue' = Tail(queue)
        /\ mpc' \in {"idle", "dispatch"}
        /\ mpc' = "idle" => Head(queue) = "shutdown"
    BY <1>6 DEF WaitAndGet
  <2>2. queue \in Seq(Events)
    BY DEF Inv, TypeOK, Events
  <2>3. TypeOK'
    <3>1. queue' \in Seq(Events)
      BY <1>6, <2>1, <2>2, HeadTailProperties
    <3>2. QED
      BY <1>1, <2>1, <3>1 DEF Inv, TypeOK, Events
  <2>4. ASSUME ~overlapped', ~early'
        PROVE  ShutdownInv'
    <3>1. ShutdownInv
      BY <1>1, <2>4 DEF Inv
    <3>2. /\ Ordered(queue')
          /\ \A x : Contains(queue', x) => Contains(queue, x)
          /\ mpc' = "idle" => /\ Contains(queue, "shutdown")
                              /\ \A m \in Modules : ~Contains(queue', m)
      BY <1>6, <2>1, <2>2, <3>1, Taken DEF ShutdownInv
    <3>3. QED
      BY <1>1, <1>2, <3>1, <3>2 DEF ShutdownInv, Quiet
  <2>5. QED
    BY <1>3, <1>4, <2>3, <2>4 DEF Inv
<1>7. QED
  BY <1>5, <1>6

\* An event may be handled by a stop() of the main thread.
LEMMA DispatchKeepsInv ==
  ASSUME Inv, Dispatch
  PROVE  Inv'
<1>1. /\ mpc = "dispatch" /\ mpc' = "timers"
      /\ spc[Main] = "out" /\ dpc = "out"
      /\ UNCHANGED <<initialized, stopped, destroyed, module, stopper, business,
                     dpc, runs, asked, overlapped, early>>
  BY DEF Dispatch, loopUnchanged
<1>2. initialized /\ ~destroyed /\ business
  BY <1>1 DEF Inv, StartInv, DestroyInv, TypeOK
<1>3. /\ queue' \in Seq(Events)
      /\ events' \in [Sources -> 0 .. MaxEvents]
      /\ \A x : Contains(queue', x) => Contains(queue, x) \/ x = "loop"
      /\ Ordered(queue) => Ordered(queue')
  BY PublishTypes DEF Dispatch, Inv, TypeOK, Events
<1>4. /\ spc' \in [Threads -> Modules \cup {"out", "test", "publish", "flag"}]
      /\ spc'[Other] = spc[Other]
      /\ spc'[Main] \in {"out", "test"}
  BY <1>1, HostAssumption DEF Dispatch, Inv, TypeOK
<1>5. stops' \in [Threads -> 0 .. MaxStops]
  <2>1. stops \in [Threads -> 0 .. MaxStops]
    BY DEF Inv, TypeOK
  <2>2. QED
    BY <2>1, HostAssumption DEF Dispatch
<1>6. TypeOK'
  BY <1>1, <1>3, <1>4, <1>5 DEF Inv, TypeOK, Events
<1>7. StartInv' /\ DestroyInv'
  BY <1>1, <1>2, <1>4 DEF Inv, StartInv, DestroyInv
<1>8. ~overlapped' => StopInv'
  <2> SUFFICES ASSUME ~overlapped
               PROVE  StopInv'
    BY <1>1
  <2>1. StopInv
    BY DEF Inv
  <2>2. ASSUME NEW m \in Modules, module'[m] = "stopping"
        PROVE  stopper'[m] \in Threads /\ spc'[stopper'[m]] = m
    BY <1>1, <1>4, <2>1, <2>2 DEF StopInv
  <2>3. QED
    BY <1>1, <1>2, <1>4, <2>1, <2>2 DEF StopInv, AtModules
<1>9. ~overlapped' /\ ~early' => ShutdownInv'
  BY <1>1, <1>2, <1>3, <1>4 DEF Inv, ShutdownInv, Quiet
<1>10. QED
  BY <1>6, <1>7, <1>8, <1>9 DEF Inv

LEMMA WorkerPublishKeepsInv ==
  ASSUME Inv, NEW m \in Modules, WorkerPublish(m)
  PROVE  Inv'
<1>1. /\ module[m] \in {"up", "stopping"} /\ Publish(m)
      /\ UNCHANGED <<initialized, stopped, destroyed, module, stopper, business,
                     mpc, spc, dpc, runs, stops, asked, overlapped, early>>
  BY DEF WorkerPublish
<1>2. /\ queue' \in Seq(Events)
      /\ events' \in [Sources -> 0 .. MaxEvents]
      /\ \A x : Contains(queue', x) => Contains(queue, x) \/ x = m
      /\ Ordered(queue) /\ ~Contains(queue, "shutdown") => Ordered(queue')
  BY <1>1, PublishTypes
<1>3. TypeOK'
  BY <1>1, <1>2 DEF Inv, TypeOK, Events
<1>4. StartInv' /\ DestroyInv'
  BY <1>1, <1>2 DEF Inv, StartInv, DestroyInv
<1>5. ~overlapped' => StopInv'
  <2>1. ~destroyed
    BY <1>1 DEF Inv, DestroyInv
  <2>2. QED
    BY <1>1, <2>1 DEF Inv, StopInv, AtModules
<1>6. ~overlapped' /\ ~early' => ShutdownInv'
  BY <1>1, <1>2 DEF Inv, ShutdownInv, Quiet
<1>7. QED
  BY <1>3, <1>4, <1>5, <1>6 DEF Inv

-----------------------------------------------------------------------------
(* stop()                                                                  *)

LEMMA StopKeepsInv ==
  ASSUME Inv, NEW t \in Threads, Stop(t)
  PROVE  Inv'
<1>1. /\ spc[t] = "out" /\ (t = Main => dpc = "out" /\ mpc = "idle")
      /\ stops[t] < MaxStops
      /\ stops' = [stops EXCEPT ![t] = @ + 1]
      /\ spc' = [spc EXCEPT ![t] = "test"]
      /\ UNCHANGED <<initialized, stopped, destroyed, module, stopper, business,
                     queue, mpc, dpc, runs, events, asked, overlapped, early>>
  BY DEF Stop, GoStop
<1>2. /\ spc' \in [Threads -> Modules \cup {"out", "test", "publish", "flag"}]
      /\ spc'[t] = "test"
      /\ \A u \in Threads \ {t} : spc'[u] = spc[u]
  BY <1>1 DEF Inv, TypeOK
<1>3. stops' \in [Threads -> 0 .. MaxStops]
  <2>1. stops \in [Threads -> 0 .. MaxStops]
    BY DEF Inv, TypeOK
  <2>2. QED
    BY <1>1, <2>1, HostAssumption
<1>4. TypeOK'
  BY <1>1, <1>2, <1>3 DEF Inv, TypeOK
<1>5. StartInv'
  BY <1>1, <1>2 DEF Inv, StartInv
<1>6. DestroyInv'
  <2>1. t # Main => spc'[Main] = spc[Main]
    BY <1>2
  <2>2. t = Main => dpc = "out" /\ mpc = "idle" /\ spc'[Main] = "test"
    BY <1>1, <1>2
  <2>3. QED
    BY <1>1, <2>1, <2>2 DEF Inv, DestroyInv
<1>7. ~overlapped' => StopInv'
  <2> SUFFICES ASSUME ~overlapped
               PROVE  StopInv'
    BY <1>1
  <2>1. StopInv
    BY DEF Inv
  <2>2. ASSUME NEW m \in Modules, module'[m] = "stopping"
        PROVE  stopper'[m] \in Threads /\ spc'[stopper'[m]] = m
    BY <1>1, <1>2, <2>1, <2>2 DEF StopInv
  <2>3. QED
    BY <1>1, <1>2, <2>1, <2>2 DEF StopInv, AtModules
<1>8. ~overlapped' /\ ~early' => ShutdownInv'
  BY <1>1, <1>2 DEF Inv, ShutdownInv, Quiet
<1>9. QED
  BY <1>4, <1>5, <1>6, <1>7, <1>8 DEF Inv

LEMMA StopTestKeepsInv ==
  ASSUME Inv, NEW t \in Threads, StopTest(t)
  PROVE  Inv'
<1>1. /\ spc[t] = "test"
      /\ spc' = [spc EXCEPT ![t] = IF stopped THEN "out" ELSE "http"]
      /\ UNCHANGED <<initialized, stopped, destroyed, module, stopper, business,
                     queue, mpc, dpc, runs, stops, events>>
  BY DEF StopTest, GoStop, StopOrder
<1>2. /\ overlapped' \in BOOLEAN
      /\ ~overlapped' => ~overlapped
      /\ early' \in BOOLEAN
      /\ ~early' => ~early /\ (stopped \/ initialized)
      /\ ~overlapped' /\ ~stopped => \A u \in Threads \ {t} : ~AtModules(u)
  BY DEF StopTest, Inv, TypeOK
<1>3. /\ spc' \in [Threads -> Modules \cup {"out", "test", "publish", "flag"}]
      /\ spc'[t] = IF stopped THEN "out" ELSE "http"
      /\ \A u \in Threads \ {t} : spc'[u] = spc[u]
  BY <1>1 DEF Inv, TypeOK
<1>4. TypeOK'
  <2>1. asked' \in BOOLEAN
    <3>1. CASE stopped
      <4>1. asked' = InLoop
        BY <3>1 DEF StopTest
      <4>2. QED
        BY <4>1
    <3>2. CASE ~stopped
      BY <3>2 DEF StopTest, Inv, TypeOK
    <3>3. QED
      BY <3>1, <3>2
  <2>2. QED
    BY <1>1, <1>2, <1>3, <2>1 DEF Inv, TypeOK
<1>5. StartInv'
  BY <1>1, <1>2, <1>3 DEF Inv, StartInv
<1>6. DestroyInv'
  BY <1>1, <1>3 DEF Inv, DestroyInv
<1>7. ~overlapped' => StopInv'
  <2> SUFFICES ASSUME ~overlapped'
               PROVE  StopInv'
    OBVIOUS
  <2>1. StopInv
    BY <1>2 DEF Inv
  <2>2. ASSUME NEW m \in Modules, module'[m] = "stopping"
        PROVE  stopper'[m] \in Threads /\ spc'[stopper'[m]] = m
    BY <1>1, <1>3, <2>1, <2>2 DEF StopInv
  <2>3. ~(AtModules(Main) /\ AtModules(Other))'
    BY <1>1, <1>2, <1>3, <2>1, HostAssumption DEF StopInv, AtModules
  <2>4. QED
    BY <1>1, <1>3, <2>1, <2>2, <2>3 DEF StopInv
<1>8. ~overlapped' /\ ~early' => ShutdownInv'
  BY <1>1, <1>2, <1>3 DEF Inv, ShutdownInv, Quiet
<1>9. QED
  BY <1>4, <1>5, <1>6, <1>7, <1>8 DEF Inv

\* The step from one module to the next, when t leaves a quiet one.
LEMMA NextModule ==
  ASSUME Inv, NEW t \in Threads, NEW m \in Modules, spc[t] = m,
         spc' = [spc EXCEPT ![t] = StopOrder[m]],
         UNCHANGED <<initialized, stopped, destroyed, stopper, business, queue,
                     mpc, dpc, runs, stops, events, asked, overlapped, early>>,
         module' \in [Modules -> {"built", "up", "stopping", "down", "freed"}],
         ~overlapped => module'[m] \notin {"up", "stopping"},
         module'[m] = "freed" <=> module[m] = "freed",
         \A n \in Modules \ {m} : module'[n] = module[n]
  PROVE  Inv'
<1>1. /\ StopOrder[m] \in {"http_client", "modbus", "publish"}
      /\ m = "http" => StopOrder[m] = "http_client"
      /\ m = "http_client" => StopOrder[m] = "modbus"
      /\ m = "modbus" => StopOrder[m] = "publish"
  BY DEF StopOrder
<1>2. /\ spc' \in [Threads -> Modules \cup {"out", "test", "publish", "flag"}]
      /\ spc'[t] = StopOrder[m]
      /\ \A u \in Threads \ {t} : spc'[u] = spc[u]
  BY <1>1 DEF Inv, TypeOK
<1>3. TypeOK'
  BY <1>2 DEF Inv, TypeOK
<1>4. StartInv'
  BY <1>1, <1>2 DEF Inv, StartInv
<1>5. DestroyInv'
  BY <1>1, <1>2 DEF Inv, DestroyInv
<1>6. ASSUME ~overlapped, NEW n \in Modules, Quiet(n)
      PROVE  Quiet(n)'
  BY <1>6 DEF Quiet
<1>7. ~overlapped => Quiet(m)'
  BY DEF Quiet
<1>8. ~overlapped' => StopInv'
  <2> SUFFICES ASSUME ~overlapped
               PROVE  StopInv'
    OBVIOUS
  <2>1. StopInv
    BY DEF Inv
  <2>2. ASSUME NEW n \in Modules, module'[n] = "stopping"
        PROVE  stopper'[n] \in Threads /\ spc'[stopper'[n]] = n
    BY <1>2, <2>1, <2>2 DEF StopInv
  <2>3. ~(AtModules(Main) /\ AtModules(Other))'
    BY <1>1, <1>2, <2>1 DEF StopInv, AtModules
  <2>4. stopped' => spc'[Other] \notin Modules \cup {"publish"}
    BY <1>2, <2>1 DEF StopInv
  <2>5. QED
    BY <2>1, <2>2, <2>3, <2>4 DEF StopInv
<1>9. ~overlapped' /\ ~early' => ShutdownInv'
  <2> SUFFICES ASSUME ~overlapped, ~early
               PROVE  ShutdownInv'
    OBVIOUS
  <2>1. ShutdownInv
    BY DEF Inv
  <2>2. ASSUME NEW u \in Threads
        PROVE  /\ spc'[u] \in {"http_client", "modbus", "publish"} => Quiet("http")'
               /\ spc'[u] \in {"modbus", "publish"} => Quiet("http_client")'
               /\ spc'[u] = "publish" => Quiet("modbus")'
    <3>1. CASE u = t
      BY <1>1, <1>2, <1>6, <1>7, <2>1, <3>1 DEF ShutdownInv
    <3>2. CASE u # t
      BY <1>2, <1>6, <2>1, <3>2 DEF ShutdownInv
    <3>3. QED
      BY <3>1, <3>2
  <2>3. QED
    BY <1>6, <2>1, <2>2 DEF ShutdownInv
<1>10. QED
  BY <1>3, <1>4, <1>5, <1>8, <1>9 DEF Inv

LEMMA StopModuleKeepsInv ==
  ASSUME Inv, NEW t \in Threads, NEW m \in Modules, StopModule(t, m)
  PROVE  Inv'
<1>1. /\ spc[t] = m /\ module[m] = "up"
      /\ module' = [module EXCEPT ![m] = "stopping"]
      /\ stopper' = [stopper EXCEPT ![m] = t]
      /\ UNCHANGED <<initialized, stopped, destroyed, business, queue, mpc, spc,
                     dpc, runs, stops, events, asked, overlapped, early>>
  BY DEF StopModule
<1>2. /\ module' \in [Modules -> {"built", "up", "stopping", "down", "freed"}]
      /\ stopper' \in [Modules -> Threads \cup {NoThread}]
      /\ module'[m] = "stopping" /\ stopper'[m] = t
      /\ \A n \in Modules \ {m} :
           module'[n] = module[n] /\ stopper'[n] = stopper[n]
  BY <1>1 DEF Inv, TypeOK
<1>3. TypeOK'
  BY <1>1, <1>2 DEF Inv, TypeOK
<1>4. StartInv'
  BY <1>1 DEF Inv, StartInv
<1>5. DestroyInv'
  BY <1>1, <1>2 DEF Inv, DestroyInv
<1>6. ASSUME NEW n \in Modules, Quiet(n)
      PROVE  Quiet(n)'
  BY <1>1, <1>2, <1>6 DEF Quiet
<1>7. ~overlapped' => StopInv'
  <2> SUFFICES ASSUME ~overlapped
               PROVE  StopInv'
    BY <1>1
  <2>1. StopInv
    BY DEF Inv
  <2>2. ASSUME NEW n \in Modules, module'[n] = "stopping"
        PROVE  stopper'[n] \in Threads /\ spc'[stopper'[n]] = n
    BY <1>1, <1>2, <2>1, <2>2 DEF StopInv
  <2>3. ~(AtModules(Main) /\ AtModules(Other))'
    BY <1>1, <2>1 DEF StopInv, AtModules
  <2>4. QED
    BY <1>1, <2>1, <2>2, <2>3 DEF StopInv
<1>8. ~overlapped' /\ ~early' => ShutdownInv'
  BY <1>1, <1>6 DEF Inv, ShutdownInv
<1>9. QED
  BY <1>3, <1>4, <1>5, <1>7, <1>8 DEF Inv

LEMMA JoinModuleKeepsInv ==
  ASSUME Inv, NEW t \in Threads, NEW m \in Modules, JoinModule(t, m)
  PROVE  Inv'
<1>1. /\ spc[t] = m /\ module[m] = "stopping"
      /\ module' = [module EXCEPT ![m] = "down"]
      /\ spc' = [spc EXCEPT ![t] = StopOrder[m]]
      /\ UNCHANGED <<initialized, stopped, destroyed, stopper, business, queue,
                     mpc, dpc, runs, stops, events, asked, overlapped, early>>
  BY DEF JoinModule, GoStop
<1>2. /\ module' \in [Modules -> {"built", "up", "stopping", "down", "freed"}]
      /\ module'[m] = "down"
      /\ \A n \in Modules \ {m} : module'[n] = module[n]
  BY <1>1 DEF Inv, TypeOK
<1>3. QED
  BY <1>1, <1>2, NextModule

\* Without an overlap nobody passes a module that another is still joining.
LEMMA SkipModuleKeepsInv ==
  ASSUME Inv, NEW t \in Threads, NEW m \in Modules, SkipModule(t, m)
  PROVE  Inv'
<1>1. /\ spc[t] = m
      /\ \/ module[m] \in {"built", "down", "freed"}
         \/ module[m] = "stopping" /\ stopper[m] # t
      /\ spc' = [spc EXCEPT ![t] = StopOrder[m]]
      /\ UNCHANGED <<initialized, stopped, destroyed, module, stopper, business,
                     queue, mpc, dpc, runs, stops, events, asked, overlapped, early>>
  BY DEF SkipModule, GoStop
<1>2. ASSUME ~overlapped
      PROVE  module'[m] \notin {"up", "stopping"}
  <2>1. StopInv
    BY <1>2 DEF Inv
  <2>2. ASSUME module[m] = "stopping", stopper[m] # t
        PROVE  FALSE
    <3>1. stopper[m] \in Threads /\ spc[stopper[m]] = m
      BY <2>1, <2>2 DEF StopInv
    <3>2. AtModules(t) /\ AtModules(stopper[m])
      BY <1>1, <3>1 DEF AtModules
    <3>3. QED
      BY <2>1, <2>2, <3>1, <3>2 DEF StopInv
  <2>3. QED
    BY <1>1, <2>2
<1>3. module' \in [Modules -> {"built", "up", "stopping", "down", "freed"}]
  BY <1>1 DEF Inv, TypeOK
<1>4. QED
  BY <1>1, <1>2, <1>3, NextModule

LEMMA StopPublishKeepsInv ==
  ASSUME Inv, NEW t \in Threads, StopPublish(t)
  PROVE  Inv'
<1>1. /\ spc[t] = "publish"
      /\ queue' = Append(queue, "shutdown")
      /\ spc' = [spc EXCEPT ![t] = "flag"]
      /\ UNCHANGED <<initialized, stopped, destroyed, module, stopper, business,
                     mpc, dpc, runs, stops, events, asked, overlapped, early>>
  BY DEF StopPublish, GoStop
<1>2. queue \in Seq(Events) /\ "shutdown" \in Events \ Modules
  BY DEF Inv, TypeOK, Events
<1>3. /\ queue' \in Seq(Events)
      /\ \A x : Contains(queue', x) <=> Contains(queue, x) \/ x = "shutdown"
      /\ Ordered(queue) => Ordered(queue')
  BY <1>1, <1>2, Published
<1>4. /\ spc' \in [Threads -> Modules \cup {"out", "test", "publish", "flag"}]
      /\ spc'[t] = "flag"
      /\ \A u \in Threads \ {t} : spc'[u] = spc[u]
  BY <1>1 DEF Inv, TypeOK
<1>5. TypeOK'
  BY <1>1, <1>3, <1>4 DEF Inv, TypeOK, Events
<1>6. StartInv'
  BY <1>1, <1>3, <1>4 DEF Inv, StartInv
<1>7. DestroyInv'
  BY <1>1, <1>4 DEF Inv, DestroyInv
<1>8. ~overlapped' => StopInv'
  <2> SUFFICES ASSUME ~overlapped
               PROVE  StopInv'
    BY <1>1
  <2>1. StopInv
    BY DEF Inv
  <2>2. ASSUME NEW m \in Modules, module'[m] = "stopping"
        PROVE  stopper'[m] \in Threads /\ spc'[stopper'[m]] = m
    BY <1>1, <1>4, <2>1, <2>2 DEF StopInv
  <2>3. ~(AtModules(Main) /\ AtModules(Other))'
    BY <1>1, <1>4, <2>1 DEF StopInv, AtModules
  <2>4. ~destroyed
    <3>1. CASE t = Main
      BY <1>1, <3>1 DEF Inv, DestroyInv
    <3>2. CASE t = Other
      BY <1>1, <2>1, <3>2 DEF Inv, DestroyInv, StopInv
    <3>3. QED
      BY <3>1, <3>2
  <2>5. QED
    BY <1>1, <1>4, <2>1, <2>2, <2>3, <2>4 DEF StopInv
<1>9. ~overlapped' /\ ~early' => ShutdownInv'
  <2> SUFFICES ASSUME ~overlapped, ~early
               PROVE  ShutdownInv'
    BY <1>1
  <2>1. ShutdownInv
    BY DEF Inv
  <2>2. \A m \in Modules : Quiet(m)
    BY <1>1, <2>1 DEF ShutdownInv
  <2>3. QED
    BY <1>1, <1>2, <1>3, <1>4, <2>1, <2>2 DEF ShutdownInv, Quiet
<1>10. QED
  BY <1>5, <1>6, <1>7, <1>8, <1>9 DEF Inv

LEMMA StopFlagKeepsInv ==
  ASSUME Inv, NEW t \in Threads, StopFlag(t)
  PROVE  Inv'
<1>1. /\ spc[t] = "flag" /\ stopped' = TRUE /\ asked' \in BOOLEAN
      /\ spc' = [spc EXCEPT ![t] = "out"]
      /\ UNCHANGED <<initialized, destroyed, module, stopper, business, queue,
                     mpc, dpc, runs, stops, events, overlapped, early>>
  BY DEF StopFlag, GoStop
<1>2. /\ spc' \in [Threads -> Modules \cup {"out", "test", "publish", "flag"}]
      /\ spc'[t] = "out"
      /\ \A u \in Threads \ {t} : spc'[u] = spc[u]
  BY <1>1 DEF Inv, TypeOK
<1>3. TypeOK'
  BY <1>1, <1>2 DEF Inv, TypeOK
<1>4. StartInv'
  BY <1>1, <1>2 DEF Inv, StartInv
<1>5. DestroyInv'
  BY <1>1, <1>2 DEF Inv, DestroyInv
<1>6. ~overlapped' => StopInv'
  <2> SUFFICES ASSUME ~overlapped
               PROVE  StopInv'
    BY <1>1
  <2>1. StopInv
    BY DEF Inv
  <2>2. ASSUME NEW m \in Modules, module'[m] = "stopping"
        PROVE  stopper'[m] \in Threads /\ spc'[stopper'[m]] = m
    BY <1>1, <1>2, <2>1, <2>2 DEF StopInv
  <2>3. ~(AtModules(Main) /\ AtModules(Other))'
    BY <1>1, <1>2, <2>1 DEF StopInv, AtModules
  <2>4. spc'[Other] \notin Modules \cup {"publish"}
    <3>1. CASE t = Other
      BY <1>2, <3>1
    <3>2. CASE t = Main
      <4>1. AtModules(Main)
        BY <1>1, <3>2 DEF AtModules
      <4>2. QED
        BY <1>2, <2>1, <3>2, <4>1, HostAssumption DEF StopInv, AtModules
    <3>3. QED
      BY <3>1, <3>2
  <2>5. QED
    BY <1>1, <1>2, <2>1, <2>2, <2>3, <2>4 DEF StopInv
<1>7. ~overlapped' /\ ~early' => ShutdownInv'
  BY <1>1, <1>2 DEF Inv, ShutdownInv, Quiet
<1>8. QED
  BY <1>3, <1>4, <1>5, <1>6, <1>7 DEF Inv

-----------------------------------------------------------------------------
(* destroy()                                                               *)

LEMMA DestroyKeepsInv ==
  ASSUME Inv, Destroy
  PROVE  Inv'
<1>1. /\ spc[Main] = "out" /\ dpc = "out" /\ mpc = "idle" /\ ~destroyed
      /\ dpc' = "business"
      /\ spc' = [spc EXCEPT ![Main] = "test"]
      /\ UNCHANGED <<initialized, stopped, destroyed, module, stopper, business,
                     queue, mpc, runs, stops, events, asked, overlapped, early>>
  BY DEF Destroy, GoStop
<1>2. /\ spc' \in [Threads -> Modules \cup {"out", "test", "publish", "flag"}]
      /\ spc'[Main] = "test" /\ spc'[Other] = spc[Other]
  BY <1>1, HostAssumption DEF Inv, TypeOK
<1>3. TypeOK'
  BY <1>1, <1>2 DEF Inv, TypeOK
<1>4. StartInv'
  BY <1>1, <1>2 DEF Inv, StartInv
<1>5. DestroyInv'
  BY <1>1, <1>2 DEF Inv, DestroyInv
<1>6. ~overlapped' => StopInv'
  <2> SUFFICES ASSUME ~overlapped
               PROVE  StopInv'
    BY <1>1
  <2>1. StopInv
    BY DEF Inv
  <2>2. ASSUME NEW m \in Modules, module'[m] = "stopping"
        PROVE  stopper'[m] \in Threads /\ spc'[stopper'[m]] = m
    BY <1>1, <1>2, <2>1, <2>2 DEF StopInv
  <2>3. ~(AtModules(Main) /\ AtModules(Other))'
    BY <1>1, <1>2 DEF AtModules
  <2>4. QED
    BY <1>1, <1>2, <2>1, <2>2, <2>3 DEF StopInv, Quiet
<1>7. ~overlapped' /\ ~early' => ShutdownInv'
  BY <1>1, <1>2 DEF Inv, ShutdownInv, Quiet
<1>8. QED
  BY <1>3, <1>4, <1>5, <1>6, <1>7 DEF Inv

LEMMA DestroyBusinessKeepsInv ==
  ASSUME Inv, DestroyBusiness
  PROVE  Inv'
<1>1. /\ dpc = "business" /\ spc[Main] = "out"
      /\ business' = FALSE /\ dpc' = "modules"
      /\ UNCHANGED <<initialized, stopped, destroyed, module, stopper, queue,
                     mpc, spc, runs, stops, events, asked, overlapped, early>>
  BY DEF DestroyBusiness
<1>2. TypeOK'
  BY <1>1 DEF Inv, TypeOK
<1>3. StartInv' /\ DestroyInv'
  BY <1>1 DEF Inv, StartInv, DestroyInv
<1>4. (~overlapped' => StopInv') /\ (~overlapped' /\ ~early' => ShutdownInv')
  BY <1>1 DEF Inv, StopInv, AtModules, Quiet, ShutdownInv
<1>5. QED
  BY <1>2, <1>3, <1>4 DEF Inv

LEMMA DestroyModulesKeepsInv ==
  ASSUME Inv, DestroyModules
  PROVE  Inv'
<1>1. /\ dpc = "modules" /\ dpc' = "clear"
      /\ module' = [m \in Modules |-> "freed"]
      /\ UNCHANGED <<initialized, stopped, destroyed, stopper, business, queue,
                     mpc, spc, runs, stops, events, asked, overlapped, early>>
  BY DEF DestroyModules
<1>2. TypeOK'
  BY <1>1 DEF Inv, TypeOK
<1>3. StartInv' /\ DestroyInv'
  BY <1>1 DEF Inv, StartInv, DestroyInv
<1>4. (~overlapped' => StopInv') /\ (~overlapped' /\ ~early' => ShutdownInv')
  BY <1>1 DEF Inv, StopInv, AtModules, Quiet, ShutdownInv
<1>5. QED
  BY <1>2, <1>3, <1>4 DEF Inv

LEMMA DestroyClearKeepsInv ==
  ASSUME Inv, DestroyClear
  PROVE  Inv'
<1>1. /\ dpc = "clear" /\ dpc' = "out"
      /\ queue' = << >> /\ destroyed' = TRUE
      /\ UNCHANGED <<initialized, stopped, module, stopper, business, mpc, spc,
                     runs, stops, events, asked, overlapped, early>>
  BY DEF DestroyClear
<1>2. queue' \in Seq(Events) /\ Ordered(queue') /\ \A x : ~Contains(queue', x)
  BY <1>1, EmptyQueue
<1>3. TypeOK'
  BY <1>1, <1>2 DEF Inv, TypeOK, Events
<1>4. StartInv' /\ DestroyInv'
  BY <1>1, <1>2 DEF Inv, StartInv, DestroyInv
<1>5. ~overlapped' => StopInv'
  BY <1>1 DEF Inv, StopInv, AtModules, Quiet
<1>6. ~overlapped' /\ ~early' => ShutdownInv'
  BY <1>1, <1>2 DEF Inv, ShutdownInv, Quiet
<1>7. QED
  BY <1>3, <1>4, <1>5, <1>6 DEF Inv

-----------------------------------------------------------------------------
(* The theorems                                                            *)

LEMMA InitInv == Init => Inv
<1> SUFFICES ASSUME Init
             PROVE  Inv
  OBVIOUS
<1>1. queue \in Seq(Events) /\ Ordered(queue) /\ \A x : ~Contains(queue, x)
  BY EmptyQueue DEF Init
<1>2. TypeOK
  <2>1. 0 \in 0 .. MaxRuns /\ 0 \in 0 .. MaxStops /\ 0 \in 0 .. MaxEvents
    BY HostAssumption
  <2>2. /\ runs \in 0 .. MaxRuns
        /\ stops \in [Threads -> 0 .. MaxStops]
        /\ events \in [Sources -> 0 .. MaxEvents]
    BY <2>1 DEF Init
  <2>3. QED
    BY <1>1, <2>2 DEF Init, TypeOK, Events
<1>3. StartInv /\ DestroyInv
  BY <1>1 DEF Init, StartInv, DestroyInv
<1>4. StopInv
  BY DEF Init, StopInv, AtModules
<1>5. ShutdownInv
  BY <1>1 DEF Init, ShutdownInv
<1>6. QED
  BY <1>2, <1>3, <1>4, <1>5 DEF Inv

LEMMA StepInv == Inv /\ [Next]_vars => Inv'
<1> SUFFICES ASSUME Inv, [Next]_vars
             PROVE  Inv'
  OBVIOUS
<1>1. CASE InitHost \/ InitStep \/ Run \/ LoopStep
  BY <1>1, InitHostKeepsInv, InitModbusKeepsInv, InitHttpKeepsInv, RunKeepsInv, TimersKeepsInv, WaitAndGetKeepsInv,
     DispatchKeepsInv DEF InitStep, LoopStep
<1>2. CASE \E m \in Modules : WorkerPublish(m)
  BY <1>2, WorkerPublishKeepsInv
<1>3. CASE \E t \in Threads : Stop(t) \/ StopStep(t)
  BY <1>3, StopKeepsInv, StopTestKeepsInv, StopPublishKeepsInv, StopFlagKeepsInv,
     StopModuleKeepsInv, JoinModuleKeepsInv, SkipModuleKeepsInv DEF StopStep
<1>4. CASE Destroy \/ DestroyStep
  BY <1>4, DestroyKeepsInv, DestroyBusinessKeepsInv, DestroyModulesKeepsInv,
     DestroyClearKeepsInv DEF DestroyStep
<1>5. CASE UNCHANGED vars
  BY <1>5 DEF vars, Inv, TypeOK, StartInv, DestroyInv, StopInv, AtModules, Quiet,
     ShutdownInv
<1>6. QED
  BY <1>1, <1>2, <1>3, <1>4, <1>5 DEF Next

LEMMA Invariant == Spec => []Inv
BY InitInv, StepInv, PTL DEF Spec

\* The variables keep their types.
THEOREM TypeCorrect == Spec => []TypeOK
<1>1. Inv => TypeOK
  BY DEF Inv
<1>2. QED
  BY <1>1, Invariant, PTL

\* run() returns when every worker is quiet and no result is left on the bus,
\* for stop() calls that neither overlap nor go ahead of the end of init().
THEOREM ResultsComeFirst == Spec => []ResultsBeforeShutdown
<1>1. Inv => ResultsBeforeShutdown
  BY DEF Inv, ShutdownInv, Quiet, ResultsBeforeShutdown
<1>2. QED
  BY <1>1, Invariant, PTL

\* The loop does not run without its business modules, and no stop() is at a
\* module that was freed.
THEOREM ReleasedIsUnused == Spec => []NothingUsedAfterFree
<1>1. ASSUME Inv, ~overlapped, NEW t \in Threads, spc[t] \in Modules
      PROVE  module[spc[t]] # "freed"
  <2>1. ASSUME dpc = "clear" \/ destroyed
        PROVE  FALSE
    <3>1. CASE t = Main
      BY <1>1, <2>1, <3>1 DEF Inv, DestroyInv
    <3>2. CASE t = Other
      BY <1>1, <2>1, <3>2 DEF Inv, DestroyInv, StopInv
    <3>3. QED
      BY <3>1, <3>2
  <2>2. QED
    BY <1>1, <2>1 DEF Inv, DestroyInv
<1>2. Inv => (~business => ~InLoop)
  BY DEF Inv, DestroyInv
<1>3. Inv => NothingUsedAfterFree
  BY <1>1, <1>2 DEF NothingUsedAfterFree
<1>4. QED
  BY <1>3, Invariant, PTL

\* Nothing is published on the bus of a destroyed host.
THEOREM DestroyLeavesNothing == Spec => []DestroyedIsEmpty
<1>1. Inv => DestroyedIsEmpty
  BY DEF Inv, StopInv, DestroyedIsEmpty
<1>2. QED
  BY <1>1, Invariant, PTL
=============================================================================
