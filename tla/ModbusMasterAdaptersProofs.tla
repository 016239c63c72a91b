--------------------- MODULE ModbusMasterAdaptersProofs ---------------------
(***************************************************************************)
(* Proofs about ModbusMasterAdapters.tla, for any size of the tables and   *)
(* any register values: the libmodbus contexts balance, and the adapters   *)
(* with the worker above them implement RegisterBank.                      *)
(***************************************************************************)
EXTENDS ModbusMasterAdapters, SequenceTheorems, TLAPS

-----------------------------------------------------------------------------
(* The inductive invariant                                                 *)

\* A request is in hand from Take to its result; nothing is published before.
RequestInv ==
  /\ transport \in {"tcp", "rtu", "fake"}
  /\ wpc \in {"idle", "connect", "io", "done", "failed", "left", "gone"}
  /\ wpc \in {"connect", "io"} => req \in Requests
  /\ wpc \in {"idle", "connect", "io"} => result = {}

\* Coils and discrete inputs are bits, so that to_modbus_bits() and
\* copy_modbus_bits() lose nothing of what the slave holds.
BitInv ==
  /\ DOMAIN device = Tables
  /\ \A t \in BitTables, a \in Addresses : device[t][a] \in {0, 1}

LinkInv ==
  /\ link \in {"open", "closed"}
  /\ connected \in BOOLEAN
  /\ connected <=> link = "open"
  /\ live = IF transport # "fake" /\ link = "open" THEN 1 ELSE 0
  /\ wpc \in {"left", "gone"} => link = "closed"

Inv == RequestInv /\ BitInv /\ LinkInv

-----------------------------------------------------------------------------
(* The terms of the abstract specification are those of the detailed one   *)

LEMMA SameTerms ==
  /\ Bank!Requests = Requests
  /\ Bank!Tables = Tables /\ Bank!Writable = Writable
  /\ Bank!Addresses = Addresses
  /\ \A r, values : Bank!Done(r, values) = Done(r, values)
  /\ \A r : Bank!Failure(r) = Failure(r)
  /\ \A b, t, a, n : Bank!Contents(b, t, a, n) = Contents(b, t, a, n)
  /\ \A b, t, a, vs : Bank!Stored(b, t, a, vs) = Stored(b, t, a, vs)
<1>1. /\ Bank!Tables = Tables /\ Bank!Writable = Writable
      /\ Bank!Addresses = Addresses /\ Bank!BitTables = BitTables
  BY DEF Bank!Tables, Tables, Bank!Writable, Writable, Bank!Addresses, Addresses,
     Bank!BitTables, BitTables
<1>2. Bank!ModbusReadRequest = ModbusReadRequest
  BY <1>1 DEF Bank!ModbusReadRequest, ModbusReadRequest
<1>3. Bank!ModbusWriteRequest = ModbusWriteRequest
  BY <1>1 DEF Bank!ModbusWriteRequest, ModbusWriteRequest
<1>4. Bank!Requests = Requests
  BY <1>2, <1>3 DEF Bank!Requests, Requests
<1>5. /\ \A r, values : Bank!Done(r, values) = Done(r, values)
      /\ \A r : Bank!Failure(r) = Failure(r)
  BY DEF Bank!Done, Done, Bank!Failure, Failure
<1>6. \A b, t, a, n : Bank!Contents(b, t, a, n) = Contents(b, t, a, n)
  BY DEF Bank!Contents, Contents
<1>7. ASSUME NEW b, NEW t, NEW a, NEW vs
      PROVE  Bank!Stored(b, t, a, vs) = Stored(b, t, a, vs)
  BY <1>1, Zenon DEF Bank!Stored, Stored, Bank!Bit, Bit
<1>8. QED
  BY <1>1, <1>4, <1>5, <1>6, <1>7

LEMMA RequestFields ==
  ASSUME NEW r \in Requests
  PROVE  \/ r.op = "read" /\ r.table \in Tables /\ r.count \in 1 .. 2
         \/ /\ r.op = "write" /\ r.table \in Tables
            /\ \E n \in 0 .. 2 : r.values \in [1 .. n -> Words]
BY DEF Requests, ModbusReadRequest, ModbusWriteRequest

\* Bits stay bits in a table that is written.
LEMMA StoredBits ==
  ASSUME BitInv, NEW t \in Tables, NEW a, NEW vs, device' = Stored(device, t, a, vs)
  PROVE  BitInv'
<1> DEFINE f == [x \in Addresses |->
                   IF x \notin a .. a + Len(vs) - 1 THEN device[t][x]
                   ELSE IF t \in BitTables THEN Bit(vs[x - a + 1])
                                           ELSE vs[x - a + 1]]
<1>1. device' = [device EXCEPT ![t] = f]
  BY Zenon DEF Stored
<1>2. ASSUME t \in BitTables, NEW x \in Addresses
      PROVE  f[x] \in {0, 1}
  BY <1>2 DEF BitInv, Bit
<1> HIDE DEF f
<1>3. QED
  BY <1>1, <1>2 DEF BitInv

-----------------------------------------------------------------------------
(* What the operations of the adapters may return                          *)

\* Where all n values have arrived, the buffer is what the slave holds.
LEMMA ReadBuffer ==
  ASSUME NEW t, NEW a, NEW n \in Nat, NEW r \in ModbusRead(t, a, n), r.rc = n
  PROVE  r.data = Contents(device, t, a, n)
<1>1. PICK k \in -1 .. n :
        r = [rc |-> k, data |-> [i \in 1 .. n |->
               IF i <= k THEN Contents(device, t, a, n)[i] ELSE 0]]
  BY DEF ModbusRead
<1>2. k = n
  BY <1>1
<1>3. r.data = [i \in 1 .. n |-> Contents(device, t, a, n)[i]]
  BY <1>1, <1>2
<1>4. QED
  BY <1>3 DEF Contents

\* The bits of a coil are the coil.
LEMMA BitsOfCoils ==
  ASSUME BitInv, NEW t \in BitTables, NEW a \in Addresses, NEW n \in Nat,
         a + n <= LastAddress + 1
  PROVE  ModbusBits(Contents(device, t, a, n)) = Contents(device, t, a, n)
<1>1. ASSUME NEW i \in 1 .. n
      PROVE  Bit(device[t][a + i - 1]) = device[t][a + i - 1]
  <2>1. a + i - 1 \in Addresses
    BY TablesAssumption DEF Addresses
  <2>2. QED
    BY <2>1 DEF BitInv, Bit
<1>2. QED
  BY <1>1 DEF ModbusBits, Contents

LEMMA TcpReadBitsOutcome ==
  ASSUME BitInv, NEW t \in BitTables, NEW a \in Addresses, NEW n \in Nat,
         a + n <= LastAddress + 1, NEW o \in TcpReadBits(t, a, n)
  PROVE  o.ok = FALSE \/ (o.ok = TRUE /\ o.values = Contents(device, t, a, n))
<1>1. o = NoValues
      \/ \E r \in ModbusRead(t, a, n) : o = Complete(r.rc, n, ModbusBits(r.data))
  BY DEF TcpReadBits, EnsureSlave
<1>2. CASE o = NoValues
  BY <1>2 DEF NoValues
<1>3. CASE \E r \in ModbusRead(t, a, n) :
             o = Complete(r.rc, n, ModbusBits(r.data))
  <2>1. PICK r \in ModbusRead(t, a, n) :
          o = Complete(r.rc, n, ModbusBits(r.data))
    BY <1>3
  <2>2. o.ok = FALSE \/ (o.ok = TRUE /\ r.rc = n /\ o.values = ModbusBits(r.data))
    BY <2>1 DEF Complete, NoValues
  <2>3. QED
    BY <2>2, ReadBuffer, BitsOfCoils
<1>4. QED
  BY <1>1, <1>2, <1>3

LEMMA TcpReadRegistersOutcome ==
  ASSUME NEW t, NEW a, NEW n \in Nat, NEW o \in TcpReadRegisters(t, a, n)
  PROVE  o.ok = FALSE \/ (o.ok = TRUE /\ o.values = Contents(device, t, a, n))
<1>1. o = NoValues
      \/ \E r \in ModbusRead(t, a, n) : o = Complete(r.rc, n, r.data)
  BY DEF TcpReadRegisters, EnsureSlave
<1>2. CASE o = NoValues
  BY <1>2 DEF NoValues
<1>3. CASE \E r \in ModbusRead(t, a, n) : o = Complete(r.rc, n, r.data)
  <2>1. PICK r \in ModbusRead(t, a, n) : o = Complete(r.rc, n, r.data)
    BY <1>3
  <2>2. o.ok = FALSE \/ (o.ok = TRUE /\ r.rc = n /\ o.values = r.data)
    BY <2>1 DEF Complete, NoValues
  <2>3. QED
    BY <2>2, ReadBuffer
<1>4. QED
  BY <1>1, <1>2, <1>3

LEMMA FakeReadOutcome ==
  ASSUME NEW t, NEW a, NEW n, NEW o \in FakeRead(t, a, n)
  PROVE  o.ok = FALSE \/ (o.ok = TRUE /\ o.values = Contents(device, t, a, n))
<1>1. o = NoValues \/ o = [ok |-> TRUE, values |-> Contents(device, t, a, n)]
  BY DEF FakeRead, ReadValues, Contents
<1>2. QED
  BY <1>1 DEF NoValues

\* A read of any adapter fails or returns what the slave holds.
LEMMA ReadOutcome ==
  ASSUME Inv, wpc = "io", req.op = "read",
         NEW o \in DoRead(req.table, req.addr, req.count)
  PROVE  \/ o.ok = FALSE
         \/ /\ o.ok = TRUE
            /\ o.values = Contents(device, req.table, req.addr, req.count)
<1> DEFINE t == req.table
           a == req.addr
           n == req.count
<1>1. t \in Tables /\ a \in Addresses /\ n \in Nat /\ a + n <= LastAddress + 1
  BY DEF Inv, RequestInv, Requests, ModbusReadRequest, ModbusWriteRequest
<1>2. transport \in {"tcp", "rtu", "fake"} /\ BitInv
  BY DEF Inv, RequestInv
<1> HIDE DEF t, a, n
<1>3. o \in DoRead(t, a, n)
  BY DEF t, a, n
<1>4. ASSUME transport = "fake"
      PROVE  o.ok = FALSE \/ (o.ok = TRUE /\ o.values = Contents(device, t, a, n))
  <2>1. o \in FakeRead(t, a, n)
    BY <1>3, <1>4 DEF DoRead
  <2>2. QED
    BY <2>1, FakeReadOutcome
<1>5. ASSUME transport # "fake" /\ t \in BitTables
      PROVE  o.ok = FALSE \/ (o.ok = TRUE /\ o.values = Contents(device, t, a, n))
  <2>1. o \in TcpReadBits(t, a, n)
    BY <1>2, <1>3, <1>5 DEF DoRead, RtuReadBits
  <2>2. QED
    BY <1>1, <1>2, <1>5, <2>1, TcpReadBitsOutcome
<1>6. ASSUME transport # "fake" /\ t \notin BitTables
      PROVE  o.ok = FALSE \/ (o.ok = TRUE /\ o.values = Contents(device, t, a, n))
  <2>1. o \in TcpReadRegisters(t, a, n)
    BY <1>2, <1>3, <1>6 DEF DoRead, RtuReadRegisters
  <2>2. QED
    BY <1>1, <2>1, TcpReadRegistersOutcome
<1>7. o.ok = FALSE \/ (o.ok = TRUE /\ o.values = Contents(device, t, a, n))
  BY <1>4, <1>5, <1>6
<1>8. QED
  BY <1>7 DEF t, a, n

\* Writing the bits of coil values writes the values.
LEMMA StoredBitsAreStored ==
  ASSUME NEW t \in BitTables, NEW a \in Addresses, NEW vs \in Seq(Words)
  PROVE  /\ Len(ModbusBits(vs)) = Len(vs)
         /\ Stored(device, t, a, ModbusBits(vs)) = Stored(device, t, a, vs)
<1> DEFINE bs == ModbusBits(vs)
<1>1. /\ DOMAIN vs = 1 .. Len(vs) /\ Len(vs) \in Nat
      /\ bs = [i \in 1 .. Len(vs) |-> Bit(vs[i])]
  BY LenProperties DEF ModbusBits
<1>2. bs \in Seq({0, 1}) /\ Len(bs) = Len(vs)
  BY <1>1 DEF Bit
<1> HIDE DEF bs
<1>3. ASSUME NEW x \in Addresses, x \in a .. a + Len(vs) - 1
      PROVE  Bit(bs[x - a + 1]) = Bit(vs[x - a + 1])
  <2>1. x - a + 1 \in 1 .. Len(vs)
    BY <1>1, <1>3, TablesAssumption DEF Addresses
  <2>2. QED
    BY <1>1, <2>1 DEF Bit
<1> DEFINE f(ws) == [x \in Addresses |->
                       IF x \notin a .. a + Len(ws) - 1 THEN device[t][x]
                       ELSE Bit(ws[x - a + 1])]
<1>4. f(bs) = f(vs)
  BY <1>2, <1>3
<1>5. Stored(device, t, a, bs) = [device EXCEPT ![t] = f(bs)]
  BY DEF Stored
<1>6. Stored(device, t, a, vs) = [device EXCEPT ![t] = f(vs)]
  BY DEF Stored
<1> HIDE DEF f
<1>7. QED
  BY <1>2, <1>4, <1>5, <1>6 DEF bs

LEMMA TcpWriteOutcome ==
  ASSUME NEW t \in Tables, NEW a \in Addresses, NEW vs \in Seq(Words),
         NEW o \in TcpWrite(t, a, vs)
  PROVE  /\ o.ok \in BOOLEAN
         /\ \/ o.device = Stored(device, t, a, vs)
            \/ o.ok = FALSE /\ o.device = device
<1> DEFINE words == IF t \in BitTables THEN ModbusBits(vs) ELSE vs
<1>1. Len(words) = Len(vs) /\ Stored(device, t, a, words) = Stored(device, t, a, vs)
  BY StoredBitsAreStored
<1>2. \/ o = NotWritten
      \/ \E r \in ModbusWrite(t, a, words) :
           o = [ok |-> r.rc # -1, device |-> r.device]
  BY Zenon DEF TcpWrite
<1> HIDE DEF words
<1>3. CASE o = NotWritten
  BY <1>3 DEF NotWritten
<1>4. CASE \E r \in ModbusWrite(t, a, words) :
             o = [ok |-> r.rc # -1, device |-> r.device]
  <2>1. PICK r \in ModbusWrite(t, a, words) :
          o = [ok |-> r.rc # -1, device |-> r.device]
    BY <1>4
  <2>2. \/ r.device = Stored(device, t, a, words)
        \/ r.rc = -1 /\ r.device = device
    BY DEF ModbusWrite
  <2>3. QED
    BY <1>1, <2>1, <2>2
<1>5. QED
  BY <1>2, <1>3, <1>4

LEMMA FakeWriteOutcome ==
  ASSUME NEW t, NEW a, NEW vs, NEW o \in FakeWrite(t, a, vs)
  PROVE  /\ o.ok \in BOOLEAN
         /\ \/ o.device = Stored(device, t, a, vs)
            \/ o.ok = FALSE /\ o.device = device
<1>1. \/ o = NotWritten
      \/ o = [ok |-> TRUE, device |-> Stored(device, t, a, vs)]
  BY DEF FakeWrite
<1>2. CASE o = NotWritten
  BY <1>2 DEF NotWritten
<1>3. CASE o = [ok |-> TRUE, device |-> Stored(device, t, a, vs)]
  BY <1>3
<1>4. QED
  BY <1>1, <1>2, <1>3

\* A write of any adapter is carried out, or it fails and nothing is changed;
\* an empty one always fails.
LEMMA WriteOutcome ==
  ASSUME transport \in {"tcp", "rtu", "fake"},
         NEW t \in Tables, NEW a \in Addresses,
         NEW n \in 0 .. 2, NEW vs \in [1 .. n -> Words],
         NEW o \in DoWrite(t, a, vs)
  PROVE  /\ o.ok \in BOOLEAN
         /\ \/ vs # << >> /\ o.device = Stored(device, t, a, vs)
            \/ o.ok = FALSE /\ o.device = device
<1>1. vs \in Seq(Words) /\ Len(vs) = n
  OBVIOUS
<1>2. CASE n = 0
  <2>1. vs = << >>
    BY <1>1, <1>2, EmptySeq
  <2>2. o = NotWritten
    BY <2>1, EmptySeq DEF DoWrite
  <2>3. QED
    BY <2>2 DEF NotWritten
<1>3. CASE n # 0
  <2>1. vs # << >> /\ Len(vs) \in {1, 2}
    BY <1>1, <1>3, EmptySeq
  <2>2. Len(vs) = 1 => <<vs[1]>> = vs
    BY <1>1
  <2>3. (Len(vs) = 1 /\ o \in WriteOne(t, a, vs[1])) \/ o \in WriteMany(t, a, vs)
    BY <2>1 DEF DoWrite
  <2>4. o \in FakeWrite(t, a, vs) \/ o \in TcpWrite(t, a, vs)
    BY <2>2, <2>3 DEF WriteOne, WriteMany, FakeWriteSingle, TcpWriteSingle,
       RtuWriteSingle, RtuWrite
  <2>5. CASE o \in FakeWrite(t, a, vs)
    BY <2>1, <2>5, FakeWriteOutcome
  <2>6. CASE o \in TcpWrite(t, a, vs)
    BY <1>1, <2>1, <2>6, TcpWriteOutcome
  <2>7. QED
    BY <2>4, <2>5, <2>6
<1>4. QED
  BY <1>2, <1>3

-----------------------------------------------------------------------------
(* The invariant                                                           *)

LEMMA InitInv == Init => Inv
<1> SUFFICES ASSUME Init
             PROVE  Inv
  OBVIOUS
<1>1. RequestInv /\ LinkInv
  BY DEF Init, RequestInv, LinkInv
<1>2. BitInv
  <2>1. BitTables \subseteq Tables
    BY DEF BitTables, Tables
  <2>2. CASE transport = "fake"
    BY <2>1, <2>2 DEF Init, FakeTables, BitInv, Bit
  <2>3. CASE transport # "fake"
    BY <2>1, <2>3 DEF Init, BitInv
  <2>4. QED
    BY <2>2, <2>3
<1>3. QED
  BY <1>1, <1>2 DEF Inv

\* What a write leaves in the tables.
LEMMA PerformWriteOutcome ==
  ASSUME Inv, PerformWrite
  PROVE  /\ req \in Requests /\ req.op = "write" /\ req.table \in Tables
         /\ result = {}
         /\ \/ /\ req.table \in Writable /\ req.values # << >>
               /\ device' = Stored(device, req.table, req.addr, req.values)
               /\ result' \in {{Done(req, << >>)}, {Failure(req)}}
            \/ device' = device /\ result' = {Failure(req)}
<1>1. /\ req \in Requests /\ req.op = "write" /\ result = {}
      /\ transport \in {"tcp", "rtu", "fake"}
  BY DEF PerformWrite, Inv, RequestInv
<1>2. /\ req.table \in Tables /\ req.addr \in Addresses
      /\ \E n \in 0 .. 2 : req.values \in [1 .. n -> Words]
  BY <1>1 DEF Requests, ModbusReadRequest, ModbusWriteRequest
<1>3. PICK w \in IF req.table \in Writable
                  THEN DoWrite(req.table, req.addr, req.values)
                  ELSE {NotWritten} :
        /\ device' = w.device
        /\ result' = {IF w.ok THEN Done(req, << >>) ELSE Failure(req)}
  BY DEF PerformWrite
<1>4. CASE req.table \in Writable
  <2>1. /\ w.ok \in BOOLEAN
        /\ \/ /\ req.values # << >>
              /\ w.device = Stored(device, req.table, req.addr, req.values)
           \/ w.ok = FALSE /\ w.device = device
    BY <1>1, <1>2, <1>3, <1>4, WriteOutcome
  <2>2. QED
    BY <1>1, <1>2, <1>3, <1>4, <2>1
<1>5. CASE req.table \notin Writable
  <2>1. w.ok = FALSE /\ w.device = device
    BY <1>3, <1>5 DEF NotWritten
  <2>2. QED
    BY <1>1, <1>2, <1>3, <2>1
<1>6. QED
  BY <1>4, <1>5

LEMMA StepBits == Inv /\ [Next]_vars => BitInv'
<1> SUFFICES ASSUME Inv, [Next]_vars
             PROVE  BitInv'
  OBVIOUS
<1>1. CASE PerformWrite
  <2>1. CASE device' = device
    BY <2>1 DEF Inv, BitInv
  <2>2. CASE device' = Stored(device, req.table, req.addr, req.values)
    BY <1>1, <2>2, PerformWriteOutcome, StoredBits DEF Inv
  <2>3. QED
    BY <1>1, <2>1, <2>2, PerformWriteOutcome
<1>2. CASE SlaveInputChanges
  <2>1. PICK t \in Tables \ Writable, v \in Words :
          device' = Stored(device, t, 0, <<v>>)
    BY <1>2 DEF SlaveInputChanges
  <2>2. QED
    BY <2>1, StoredBits DEF Inv
<1>3. ASSUME UNCHANGED device
      PROVE  BitInv'
  BY <1>3 DEF Inv, BitInv
<1>4. QED
  BY <1>1, <1>2, <1>3 DEF Next, vars, Take, EnsureConnected, PerformRead, Finish,
     Failed, Leave, Destroy

LEMMA StepRequest == Inv /\ [Next]_vars => RequestInv'
<1> SUFFICES ASSUME Inv, [Next]_vars
             PROVE  RequestInv'
  OBVIOUS
<1> USE DEF Inv, RequestInv
<1>1. CASE Take
  BY <1>1 DEF Take
<1>2. CASE EnsureConnected
  BY <1>2 DEF EnsureConnected
<1>3. CASE PerformRead \/ PerformWrite
  BY <1>3 DEF PerformRead, PerformWrite
<1>4. CASE Finish \/ Failed \/ Leave \/ Destroy
  BY <1>4 DEF Finish, Failed, Leave, Destroy
<1>5. CASE SlaveInputChanges \/ UNCHANGED vars
  BY <1>5 DEF SlaveInputChanges, vars
<1>6. QED
  BY <1>1, <1>2, <1>3, <1>4, <1>5 DEF Next

\* A context is allocated with the link opened and freed with it closed.
LEMMA ConnectOutcome ==
  ASSUME Inv, NEW c \in AdapterConnect, link = "closed"
  PROVE  /\ c.ok \in BOOLEAN /\ c.link \in {"open", "closed"}
         /\ c.ok <=> c.link = "open"
         /\ c.live = IF transport # "fake" /\ c.link = "open" THEN 1 ELSE 0
<1>1. transport \in {"tcp", "rtu", "fake"} /\ live = 0
  BY DEF Inv, RequestInv, LinkInv
<1>2. CASE transport = "fake"
  <2>1. c = [ok |-> TRUE, link |-> "open", live |-> 0]
    BY <1>1, <1>2 DEF AdapterConnect, FakeConnect
  <2>2. QED
    BY <1>2, <2>1
<1>3. CASE transport # "fake"
  <2>1. \/ c = [ok |-> FALSE, link |-> "closed", live |-> 0]
        \/ c = [ok |-> TRUE, link |-> "open", live |-> 1]
    BY <1>1, <1>3 DEF AdapterConnect, RtuConnect, TcpConnect
  <2>2. CASE c = [ok |-> FALSE, link |-> "closed", live |-> 0]
    BY <2>2
  <2>3. CASE c = [ok |-> TRUE, link |-> "open", live |-> 1]
    BY <1>3, <2>3
  <2>4. QED
    BY <2>1, <2>2, <2>3
<1>4. QED
  BY <1>2, <1>3

LEMMA DisconnectOutcome ==
  ASSUME Inv
  PROVE  AdapterDisconnect.link = "closed" /\ AdapterDisconnect.live = 0
<1>1. /\ transport \in {"tcp", "rtu", "fake"} /\ link \in {"open", "closed"}
      /\ live = IF transport # "fake" /\ link = "open" THEN 1 ELSE 0
  BY DEF Inv, RequestInv, LinkInv
<1>2. AdapterDisconnect = [link |-> "closed", live |-> 0]
  BY <1>1 DEF AdapterDisconnect, FakeDisconnect, RtuDisconnect, TcpDisconnect
<1>3. QED
  BY <1>2

LEMMA StepLink == Inv /\ [Next]_vars => LinkInv'
<1> SUFFICES ASSUME Inv, [Next]_vars
             PROVE  LinkInv'
  OBVIOUS
<1>1. LinkInv /\ RequestInv
  BY DEF Inv
<1>2. CASE EnsureConnected
  <2>1. CASE connected
    <3>1. /\ link' = link /\ live' = live /\ connected' = TRUE /\ wpc' = "io"
          /\ transport' = transport
      BY <1>2, <2>1 DEF EnsureConnected
    <3>2. QED
      BY <1>1, <2>1, <3>1 DEF LinkInv
  <2>2. CASE ~connected
    <3>1. link = "closed"
      BY <1>1, <2>2 DEF LinkInv
    <3>2. PICK c \in AdapterConnect :
            /\ link' = c.link /\ live' = c.live /\ connected' = c.ok
            /\ wpc' = IF c.ok THEN "io" ELSE "failed"
      BY <1>2, <2>2 DEF EnsureConnected
    <3>3. transport' = transport
      BY <1>2 DEF EnsureConnected
    <3>4. QED
      BY <3>1, <3>2, <3>3, ConnectOutcome DEF LinkInv
  <2>3. QED
    BY <2>1, <2>2
<1>3. ASSUME MarkDisconnected, transport' = transport
      PROVE  LinkInv'
  <2>1. connected' = FALSE /\ link' = "closed" /\ live' = 0
    <3>1. CASE connected
      BY <1>3, <3>1, DisconnectOutcome DEF MarkDisconnected
    <3>2. CASE ~connected
      BY <1>1, <1>3, <3>2 DEF MarkDisconnected, LinkInv
    <3>3. QED
      BY <3>1, <3>2
  <2>2. QED
    BY <2>1 DEF LinkInv
<1>4. CASE Failed \/ Leave
  BY <1>3, <1>4 DEF Failed, Leave
<1>5. CASE Destroy
  <2>1. /\ link' = "closed" /\ live' = 0 /\ wpc = "left"
        /\ connected' = connected /\ transport' = transport
    BY <1>5, DisconnectOutcome DEF Destroy
  <2>2. QED
    BY <1>1, <2>1 DEF LinkInv
<1>6. ASSUME UNCHANGED <<transport, link, live, connected>>,
             wpc' \notin {"left", "gone"} \/ wpc' = wpc
      PROVE  LinkInv'
  BY <1>1, <1>6 DEF LinkInv
<1>7. CASE \/ Take \/ PerformRead \/ PerformWrite \/ Finish
           \/ SlaveInputChanges \/ UNCHANGED vars
  BY <1>6, <1>7 DEF Take, PerformRead, PerformWrite, Finish, SlaveInputChanges, vars
<1>8. QED
  BY <1>2, <1>4, <1>5, <1>7 DEF Next

LEMMA Invariant == Spec => []Inv
<1>1. Inv /\ [Next]_vars => Inv'
  BY StepBits, StepRequest, StepLink DEF Inv
<1>2. QED
  BY <1>1, InitInv, PTL DEF Spec

-----------------------------------------------------------------------------
(* The theorems                                                            *)

\* Every libmodbus context is freed, once, and connected_ tells the truth.
THEOREM NoContextLeaks == Spec => []ContextsBalance
<1>1. Inv => ContextsBalance
  BY DEF Inv, LinkInv, ContextsBalance
<1>2. QED
  BY <1>1, Invariant, PTL

\* A step of the worker is a step of RegisterBank, or none.
LEMMA BankStep == Inv /\ [Next]_vars => [Bank!Next]_(<<device, result>>)
<1> SUFFICES ASSUME Inv, [Next]_vars
             PROVE  [Bank!Next]_(<<device, result>>)
  OBVIOUS
<1>1. ASSUME NEW r \in Requests, Bank!Read(r) \/ Bank!Write(r)
      PROVE  Bank!Next
  BY <1>1, SameTerms DEF Bank!Next
<1>2. CASE Take \/ Leave \/ Destroy \/ UNCHANGED vars
  BY <1>2 DEF Take, Leave, Destroy, vars
<1>3. CASE EnsureConnected
  <2>1. req \in Requests /\ result = {} /\ device' = device
    BY <1>3 DEF EnsureConnected, Inv, RequestInv
  <2>2. result' = result \/ result' = {Failure(req)}
    BY <1>3 DEF EnsureConnected
  <2>3. req.op = "read" \/ req.op = "write"
    BY <2>1, RequestFields
  <2>4. QED
    BY <1>1, <2>1, <2>2, <2>3, SameTerms DEF Bank!Read, Bank!Write
<1>4. CASE PerformRead
  <2>1. req \in Requests /\ result = {} /\ device' = device
        /\ wpc = "io" /\ req.op = "read"
    BY <1>4 DEF PerformRead, Inv, RequestInv
  <2>2. PICK o \in DoRead(req.table, req.addr, req.count) :
          result' = {IF o.ok THEN Done(req, o.values) ELSE Failure(req)}
    BY <1>4 DEF PerformRead
  <2>3. \/ o.ok = FALSE
        \/ /\ o.ok = TRUE
           /\ o.values = Contents(device, req.table, req.addr, req.count)
    BY <2>1, <2>2, ReadOutcome
  <2>4. \/ result' = {Failure(req)}
        \/ result' =
             {Done(req, Contents(device, req.table, req.addr, req.count))}
    BY <2>2, <2>3
  <2>5. Bank!Read(req)
    BY <2>1, <2>4, SameTerms DEF Bank!Read
  <2>6. QED
    BY <1>1, <2>1, <2>5
<1>5. CASE PerformWrite
  <2>1. req \in Requests
    BY <1>5, PerformWriteOutcome
  <2>2. Bank!Write(req)
    BY <1>5, PerformWriteOutcome, SameTerms DEF Bank!Write
  <2>3. QED
    BY <1>1, <2>1, <2>2
<1>6. CASE Finish \/ Failed
  <2>1. Bank!NextRequest
    BY <1>6 DEF Finish, Failed, Bank!NextRequest
  <2>2. QED
    BY <2>1 DEF Bank!Next
<1>7. CASE SlaveInputChanges
  <2>1. PICK t \in Tables \ Writable, v \in Words :
          device' = Stored(device, t, 0, <<v>>)
    BY <1>7 DEF SlaveInputChanges
  <2>2. 0 \in Addresses /\ result' = result
    BY <1>7, TablesAssumption DEF Addresses, SlaveInputChanges
  <2>3. Bank!InputChanges
    BY <2>1, <2>2, SameTerms DEF Bank!InputChanges
  <2>4. QED
    BY <2>3 DEF Bank!Next
<1>8. QED
  BY <1>2, <1>3, <1>4, <1>5, <1>6, <1>7 DEF Next

\* The adapters and the worker implement the promise of a register bank.
THEOREM AdaptersImplementTheBank == Spec => ImplementsRegisterBank
<1>1. Init => Bank!Init
  BY DEF Init, Bank!Init
<1>2. QED
  BY <1>1, BankStep, Invariant, PTL DEF Spec, ImplementsRegisterBank, Bank!Spec
=============================================================================
