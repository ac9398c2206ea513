------------------------------ MODULE Circuit ------------------------------
(***************************************************************************)
(* What a provider's circuit promises to everyone who only reads its       *)
(* state: the three modes of internal/circuitbreaker and the four moves    *)
(* between them.  A circuit that tripped is never trusted again before it  *)
(* has been half-open.  Module Breaker implements this specification, and  *)
(* module WorkQueue, whose throttle reads the state and never feeds it,    *)
(* uses it as its environment.                                             *)
(***************************************************************************)
VARIABLE circuit

CircuitStates == {"closed", "open", "half-open"}

\* The states one transition away from s.
CircuitSucc(s) ==
  CASE s = "closed"    -> {"open"}
    [] s = "open"      -> {"half-open"}
    [] s = "half-open" -> {"closed", "open"}

Init == circuit = "closed"

Next == circuit' \in CircuitSucc(circuit)

Spec == Init /\ [][Next]_circuit
=============================================================================
