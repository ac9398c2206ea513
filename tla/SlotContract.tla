---------------------------- MODULE SlotContract ----------------------------
(***************************************************************************)
(* What Engine.Run (internal/fanout/engine.go) promises its caller about   *)
(* the slots it was given: each slot is reported to the completion hook    *)
(* once, its result never changes after that, Run returns only when every  *)
(* slot has one, and it does return.                                       *)
(***************************************************************************)
CONSTANTS Units, Results, NoResult

VARIABLES final,     \* the result reported for each slot, or NoResult
          returned   \* Run has returned

vars == <<final, returned>>

Init ==
  /\ final = [u \in Units |-> NoResult]
  /\ returned = FALSE

Resolve(u) ==
  /\ ~returned
  /\ final[u] = NoResult
  /\ \E r \in Results : final' = [final EXCEPT ![u] = r]
  /\ UNCHANGED returned

Return ==
  /\ ~returned
  /\ \A u \in Units : final[u] # NoResult
  /\ returned' = TRUE
  /\ UNCHANGED final

Next == (\E u \in Units : Resolve(u)) \/ Return

\* What Run may do, and that it goes on doing it.
Safety == Init /\ [][Next]_vars
Spec == Safety /\ WF_vars(Next)
=============================================================================
