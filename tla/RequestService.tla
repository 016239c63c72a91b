--------------------------- MODULE RequestService ---------------------------
(***************************************************************************)
(* What a device runtime promises to the modules that submit requests to   *)
(* it, with no worker, no connection and no stop(): the requests wait in   *)
(* one line, and the first of the line is the next to be answered, once,   *)
(* with a result or with a failure.  A request that no device could carry  *)
(* out is answered with a failure.                                         *)
(***************************************************************************)
EXTENDS Sequences

CONSTANTS
  Request,
  Possible  \* the requests a device may carry out

VARIABLES
  waiting,  \* requests submitted and not answered, oldest first
  outcomes  \* history: the answers, oldest first

vars == <<waiting, outcomes>>

Init ==
  /\ waiting = << >>
  /\ outcomes = << >>

Submit ==
  /\ \E r \in Request : waiting' = Append(waiting, r)
  /\ UNCHANGED outcomes

Answer ==
  /\ waiting # << >>
  /\ \E ok \in BOOLEAN :
       /\ ok => Head(waiting) \in Possible
       /\ outcomes' = Append(outcomes, [req |-> Head(waiting), ok |-> ok])
  /\ waiting' = Tail(waiting)

Next == Submit \/ Answer

Spec == Init /\ [][Next]_vars
=============================================================================
