---------------------------- MODULE RegisterBank ----------------------------
(***************************************************************************)
(* What a Modbus master promises its users, whatever the transport: a read *)
(* that succeeds returns what the slave holds, every value of it; a write  *)
(* that succeeds has been carried out completely; a read that fails        *)
(* returns nothing; a write that fails may have been carried out,          *)
(* completely, or not at all.                                              *)
(***************************************************************************)
EXTENDS ModbusRequests

VARIABLES
  bank,   \* what the slave holds, for each table and address
  result  \* the result of the request in hand, once there is one

Init == result = {}

Read(r) ==
  /\ result = {} /\ r.op = "read"
  /\ result' \in {{Done(r, Contents(bank, r.table, r.addr, r.count))},
                  {Failure(r)}}
  /\ UNCHANGED bank

Write(r) ==
  /\ result = {} /\ r.op = "write"
  /\ \/ /\ r.table \in Writable /\ r.values # << >>
        /\ bank' = Stored(bank, r.table, r.addr, r.values)
        /\ result' \in {{Done(r, << >>)}, {Failure(r)}}
     \/ /\ result' = {Failure(r)}
        /\ UNCHANGED bank

\* The slave changes an input by itself.
InputChanges ==
  /\ \E t \in Tables \ Writable, a \in Addresses :
       \E v \in Words : bank' = Stored(bank, t, a, <<v>>)
  /\ UNCHANGED result

\* On to the next request.
NextRequest ==
  /\ result' = {}
  /\ UNCHANGED bank

Next == (\E r \in Requests : Read(r) \/ Write(r)) \/ InputChanges \/ NextRequest

Spec == Init /\ [][Next]_<<bank, result>>
=============================================================================
