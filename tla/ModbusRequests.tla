--------------------------- MODULE ModbusRequests ---------------------------
(***************************************************************************)
(* The Modbus payloads of core/domain/model/EventData.h and the register   *)
(* tables they speak of: requests of one or two values, their results, and *)
(* what reading and writing a table means.                                 *)
(***************************************************************************)
EXTENDS Integers, Sequences

CONSTANTS
  LastAddress,  \* each table has the addresses 0 to LastAddress
  Words         \* values of a request and of a 16-bit register

ASSUME TablesAssumption == LastAddress \in Nat

Addresses == 0 .. LastAddress

\* ModbusRegisterType.
Tables == {"COIL", "DISCRETE_INPUT", "INPUT_REGISTER", "HOLDING_REGISTER"}
BitTables == {"COIL", "DISCRETE_INPUT"}
Writable == {"COIL", "HOLDING_REGISTER"}

Bit(v) == IF v = 0 THEN 0 ELSE 1

ModbusReadRequest ==
  [op : {"read"}, table : Tables, addr : Addresses, count : 1 .. 2]

ModbusWriteRequest ==
  [op : {"write"}, table : Tables, addr : Addresses,
   values : UNION {[1 .. n -> Words] : n \in 0 .. 2}]

Requests ==
  {r \in ModbusReadRequest : r.addr + r.count <= LastAddress + 1} \cup
  {r \in ModbusWriteRequest : r.addr + Len(r.values) <= LastAddress + 1}

\* READ_RESULT and WRITE_RESULT carry what was asked and the values read;
\* OP_FAILED carries no values.
Done(r, values) == [req |-> r, ok |-> TRUE, values |-> values]
Failure(r) == [req |-> r, ok |-> FALSE, values |-> << >>]

\* n values of table t from address a on.
Contents(tables, t, a, n) == [i \in 1 .. n |-> tables[t][a + i - 1]]

\* The tables after a write of vs; a coil is 0 or 1.
Stored(tables, t, a, vs) ==
  LET At(x) == vs[x - a + 1]
  IN [tables EXCEPT ![t] = [x \in Addresses |->
        IF x \notin a .. a + Len(vs) - 1 THEN @[x]
        ELSE IF t \in BitTables THEN Bit(At(x)) ELSE At(x)]]
=============================================================================
