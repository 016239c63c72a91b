---------------------------- MODULE EventChannel ----------------------------
(***************************************************************************)
(* What core/runtime/bus/EventQueue.h promises to the rest of the program, *)
(* with no lock and no condition variable: a FIFO backlog of events, a     *)
(* consumer whose call either takes the oldest event or reports a timeout, *)
(* the latter only at a moment when there is nothing to take.              *)
(***************************************************************************)
EXTENDS Sequences

CONSTANT Event

VARIABLES
  backlog,    \* events accepted and neither delivered nor cleared, oldest first
  delivered,  \* history: the events handed to the consumer, in order
  call        \* the consumer's call: "idle", "waiting", or how it returned

vars == <<backlog, delivered, call>>

Init ==
  /\ backlog = << >>
  /\ delivered = << >>
  /\ call = "idle"

Publish ==
  /\ \E e \in Event : backlog' = Append(backlog, e)
  /\ UNCHANGED <<delivered, call>>

Clear ==
  /\ backlog' = << >>
  /\ UNCHANGED <<delivered, call>>

Call ==
  /\ call # "waiting"
  /\ call' = "waiting"
  /\ UNCHANGED <<backlog, delivered>>

Deliver ==
  /\ call = "waiting"
  /\ backlog # << >>
  /\ delivered' = Append(delivered, Head(backlog))
  /\ backlog' = Tail(backlog)
  /\ call' = "event"

GiveUp ==
  /\ call = "waiting"
  /\ backlog = << >>
  /\ call' = "timeout"
  /\ UNCHANGED <<backlog, delivered>>

Next == Publish \/ Clear \/ Call \/ Deliver \/ GiveUp

Spec == Init /\ [][Next]_vars
=============================================================================
