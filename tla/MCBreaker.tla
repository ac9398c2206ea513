----------------------------- MODULE MCBreaker -----------------------------
(***************************************************************************)
(* Model-checking instances of Breaker: the callers are model values.      *)
(***************************************************************************)
EXTENDS Breaker
=============================================================================
