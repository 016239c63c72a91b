------------------------ MODULE ModbusMasterAdapters ------------------------
(***************************************************************************)
(* One request of a ModbusDeviceRuntime worker, from perform_read() or     *)
(* perform_write() down through the adapter to the slave, for the three    *)
(* adapters of core/infrastructure/transport/modbus/:                      *)
(* LibmodbusMasterTcpAdapter, LibmodbusMasterRtuAdapter and                *)
(* FakeModbusMasterAdapter.  The worker is the only thread that uses its   *)
(* adapter; ModbusDeviceRuntime.tla models when it does.                   *)
(*                                                                         *)
(* An operation of an adapter is the set of its possible outcomes; what    *)
(* libmodbus may answer is modelled from what the adapters check.          *)
(***************************************************************************)
EXTENDS ModbusRequests, FiniteSets

CONSTANT NoRequest

VARIABLES
  transport,  \* which adapter the device was configured with; never changes
  device,     \* the slave's tables; with the fake adapter, the adapter's own
  link,       \* "open" when context_ is not null (fake: when connected_)
  live,       \* libmodbus contexts allocated and not freed
  connected,  \* connected_ of the runtime
  req,        \* the request in the worker's hands
  wpc,        \* where the worker is
  result      \* what has been published about the request in hand

vars == <<transport, device, link, live, connected, req, wpc, result>>

\* The fake adapter starts with values in its tables.
FakeTables ==
  [t \in Tables |-> [a \in Addresses |->
     IF t \in BitTables THEN Bit(LastAddress - a)
     ELSE CHOOSE w \in Words : w # 0]]

Init ==
  /\ transport \in {"tcp", "rtu", "fake"}
  /\ device = IF transport = "fake" THEN FakeTables
              ELSE [t \in Tables |-> [a \in Addresses |-> 0]]
  /\ link = "closed" /\ live = 0 /\ connected = FALSE
  /\ req = NoRequest /\ wpc = "idle" /\ result = {}

-----------------------------------------------------------------------------
(* Slips: wrong variants of definitions below, each a mistake the code could *)
(* plausibly have made.  No specification uses them; put in the place of the *)
(* right definition, each makes the property named with it fail.             *)

\* A short answer counts as a success: rc == -1 instead of rc != count
\* (ImplementsRegisterBank).
AcceptShort(rc, n, values) ==
  IF rc = -1 THEN [ok |-> FALSE, values |-> << >>]
  ELSE [ok |-> TRUE, values |-> values]

\* The context of a failed connect is not freed (ContextsBalance).
LeakOnFailure ==
  IF link = "open" THEN {[ok |-> TRUE, link |-> "open", live |-> live]}
  ELSE {[ok |-> FALSE, link |-> "closed", live |-> live],
        [ok |-> FALSE, link |-> "closed", live |-> live + 1],
        [ok |-> TRUE, link |-> "open", live |-> live + 1]}

-----------------------------------------------------------------------------
(* libmodbus                                                               *)

\* modbus_read_*(): rc values arrive; where none does the buffer keeps the
\* zeros it was filled with.
ModbusRead(t, a, n) ==
  {[rc |-> k, data |-> [i \in 1 .. n |->
      IF i <= k THEN Contents(device, t, a, n)[i] ELSE 0]] : k \in -1 .. n}

\* modbus_write_*(): the answer of a write that was carried out may be lost.
ModbusWrite(t, a, vs) ==
  LET after == Stored(device, t, a, vs)
  IN {[rc |-> -1, device |-> device], [rc |-> -1, device |-> after],
      [rc |-> Len(vs), device |-> after]}

-----------------------------------------------------------------------------
(* LibmodbusMasterTcpAdapter                                               *)

NoValues == [ok |-> FALSE, values |-> << >>]
NotWritten == [ok |-> FALSE, device |-> device]

\* to_modbus_bits() and copy_modbus_bits().
ModbusBits(values) == [i \in DOMAIN values |-> Bit(values[i])]

\* modbus_new_tcp() or modbus_connect() may fail; after the second the
\* context is freed again.
TcpConnect ==
  LET allocated == live + 1
  IN IF link = "open" THEN {[ok |-> TRUE, link |-> "open", live |-> live]}
     ELSE {[ok |-> FALSE, link |-> "closed", live |-> live],
           [ok |-> FALSE, link |-> "closed", live |-> allocated - 1],
           [ok |-> TRUE, link |-> "open", live |-> allocated]}

TcpDisconnect ==
  IF link = "closed" THEN [link |-> link, live |-> live]
  ELSE [link |-> "closed", live |-> live - 1]

\* context_ == nullptr || !ensure_slave(slave_id): modbus_set_slave may fail.
EnsureSlave == IF link = "closed" THEN {FALSE} ELSE BOOLEAN

\* rc != count: the buffer is cleared, whatever has arrived.
Complete(rc, n, values) ==
  IF rc # n THEN NoValues ELSE [ok |-> TRUE, values |-> values]

\* read_coils() and read_discrete_inputs().
TcpReadBits(t, a, n) ==
  UNION {IF ready THEN {Complete(r.rc, n, ModbusBits(r.data)) :
                          r \in ModbusRead(t, a, n)}
         ELSE {NoValues} : ready \in EnsureSlave}

\* read_input_registers() and read_holding_registers().
TcpReadRegisters(t, a, n) ==
  UNION {IF ready THEN {Complete(r.rc, n, r.data) : r \in ModbusRead(t, a, n)}
         ELSE {NoValues} : ready \in EnsureSlave}

\* write_multiple_coils() and write_multiple_registers().
TcpWrite(t, a, vs) ==
  LET words == IF t \in BitTables THEN ModbusBits(vs) ELSE vs
  IN UNION {IF ready THEN {[ok |-> r.rc # -1, device |-> r.device] :
                             r \in ModbusWrite(t, a, words)}
            ELSE {NotWritten} : ready \in EnsureSlave}

\* write_single_coil() and write_single_register().
TcpWriteSingle(t, a, v) == TcpWrite(t, a, <<v>>)

-----------------------------------------------------------------------------
(* LibmodbusMasterRtuAdapter: the same operations, written out once more    *)

\* modbus_new_rtu(), modbus_connect().
RtuConnect == TcpConnect
RtuDisconnect == TcpDisconnect
RtuReadBits(t, a, n) == TcpReadBits(t, a, n)
RtuReadRegisters(t, a, n) == TcpReadRegisters(t, a, n)
RtuWriteSingle(t, a, v) == TcpWriteSingle(t, a, v)
RtuWrite(t, a, vs) == TcpWrite(t, a, vs)

-----------------------------------------------------------------------------
(* FakeModbusMasterAdapter                                                 *)

FakeConnect == {[ok |-> TRUE, link |-> "open", live |-> live]}
FakeDisconnect == [link |-> "closed", live |-> live]

FakeEnsureConnected == link = "open"

ReadValues(table, a, n) ==
  IF FakeEnsureConnected
  THEN {[ok |-> TRUE, values |-> [i \in 1 .. n |-> table[a + i - 1]]]}
  ELSE {NoValues}

\* The four reads, each from its own table.
FakeRead(t, a, n) == ReadValues(device[t], a, n)

\* write_multiple_coils() and write_multiple_registers().
FakeWrite(t, a, vs) ==
  IF FakeEnsureConnected
  THEN {[ok |-> TRUE, device |-> Stored(device, t, a, vs)]}
  ELSE {NotWritten}

\* write_single_coil() and write_single_register().
FakeWriteSingle(t, a, v) == FakeWrite(t, a, <<v>>)

-----------------------------------------------------------------------------
(* ModbusDeviceRuntime: choice of the operation                            *)

\* do_read().
DoRead(t, a, n) ==
  CASE transport = "fake" -> FakeRead(t, a, n)
    [] transport = "tcp" -> IF t \in BitTables THEN TcpReadBits(t, a, n)
                            ELSE TcpReadRegisters(t, a, n)
    [] transport = "rtu" -> IF t \in BitTables THEN RtuReadBits(t, a, n)
                            ELSE RtuReadRegisters(t, a, n)

\* do_write(), for a writable table.
WriteOne(t, a, v) ==
  CASE transport = "fake" -> FakeWriteSingle(t, a, v)
    [] transport = "tcp" -> TcpWriteSingle(t, a, v)
    [] transport = "rtu" -> RtuWriteSingle(t, a, v)

WriteMany(t, a, vs) ==
  CASE transport = "fake" -> FakeWrite(t, a, vs)
    [] transport = "tcp" -> TcpWrite(t, a, vs)
    [] transport = "rtu" -> RtuWrite(t, a, vs)

DoWrite(t, a, vs) ==
  CASE vs = << >> -> {NotWritten}
    [] Len(vs) = 1 -> WriteOne(t, a, vs[1])
    [] Len(vs) > 1 -> WriteMany(t, a, vs)

AdapterConnect == CASE transport = "fake" -> FakeConnect
                    [] transport = "tcp" -> TcpConnect
                    [] transport = "rtu" -> RtuConnect

AdapterDisconnect == CASE transport = "fake" -> FakeDisconnect
                       [] transport = "tcp" -> TcpDisconnect
                       [] transport = "rtu" -> RtuDisconnect

-----------------------------------------------------------------------------
(* The worker                                                              *)

Take ==
  /\ wpc = "idle"
  /\ req' \in Requests
  /\ wpc' = "connect"
  /\ UNCHANGED <<transport, device, link, live, connected, result>>

\* ensure_connected(); a failure is published at once.
EnsureConnected ==
  /\ wpc = "connect"
  /\ \E c \in IF connected THEN {[ok |-> TRUE, link |-> link, live |-> live]}
              ELSE AdapterConnect :
       /\ link' = c.link
       /\ live' = c.live
       /\ connected' = c.ok
       /\ wpc' = IF c.ok THEN "io" ELSE "failed"
       /\ result' = IF c.ok THEN result ELSE {Failure(req)}
  /\ UNCHANGED <<transport, device, req>>

PerformRead ==
  /\ wpc = "io" /\ req.op = "read"
  /\ \E r \in DoRead(req.table, req.addr, req.count) :
       /\ result' = {IF r.ok THEN Done(req, r.values) ELSE Failure(req)}
       /\ wpc' = IF r.ok THEN "done" ELSE "failed"
  /\ UNCHANGED <<transport, device, link, live, connected, req>>

PerformWrite ==
  /\ wpc = "io" /\ req.op = "write"
  /\ \E w \in IF req.table \in Writable
              THEN DoWrite(req.table, req.addr, req.values)
              ELSE {NotWritten} :
       /\ device' = w.device
       /\ result' = {IF w.ok THEN Done(req, << >>) ELSE Failure(req)}
       /\ wpc' = IF w.ok THEN "done" ELSE "failed"
  /\ UNCHANGED <<transport, link, live, connected, req>>

Finish ==
  /\ wpc = "done"
  /\ req' = NoRequest
  /\ wpc' = "idle"
  /\ result' = {}
  /\ UNCHANGED <<transport, device, link, live, connected>>

MarkDisconnected ==
  /\ connected' = FALSE
  /\ LET d == IF connected THEN AdapterDisconnect
              ELSE [link |-> link, live |-> live]
     IN link' = d.link /\ live' = d.live

\* After a failure, and when the worker leaves.
Failed ==
  /\ wpc = "failed"
  /\ MarkDisconnected
  /\ req' = NoRequest
  /\ wpc' = "idle"
  /\ result' = {}
  /\ UNCHANGED <<transport, device>>

Leave ==
  /\ wpc = "idle"
  /\ MarkDisconnected
  /\ wpc' = "left"
  /\ UNCHANGED <<transport, device, req, result>>

\* The runtime and its adapter are destroyed: disconnect() once more.
Destroy ==
  /\ wpc = "left"
  /\ link' = AdapterDisconnect.link
  /\ live' = AdapterDisconnect.live
  /\ wpc' = "gone"
  /\ UNCHANGED <<transport, device, connected, req, result>>

\* A slave's inputs change by themselves, here the first of each table; the
\* fake adapter's do not.
SlaveInputChanges ==
  /\ transport # "fake"
  /\ \E t \in Tables \ Writable, v \in Words :
       device' = Stored(device, t, 0, <<v>>)
  /\ UNCHANGED <<transport, link, live, connected, req, wpc, result>>

Next ==
  \/ Take \/ EnsureConnected \/ PerformRead \/ PerformWrite \/ Finish
  \/ Failed \/ Leave \/ Destroy \/ SlaveInputChanges

Spec == Init /\ [][Next]_vars

-----------------------------------------------------------------------------

\* The three adapters and the worker above them keep the promise of
\* RegisterBank: what is published as read is what the slave holds, never a
\* part of it filled up with zeros, and a write reported as done has been
\* done, for one value and for several, for coils and for registers.
Bank == INSTANCE RegisterBank WITH bank <- device
ImplementsRegisterBank == Bank!Spec

\* Every libmodbus context that is allocated is freed exactly once: there is
\* one while context_ is set and none otherwise, and the runtime's connected_
\* agrees with the adapter between two requests (connect and disconnect of
\* the adapters against ensure_connected and mark_disconnected).
ContextsBalance ==
  /\ live = IF transport # "fake" /\ link = "open" THEN 1 ELSE 0
  /\ connected = (link = "open")
  /\ wpc = "gone" => live = 0
=============================================================================
