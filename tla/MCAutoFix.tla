----------------------------- MODULE MCAutoFix -----------------------------
(***************************************************************************)
(* Model-checking instances of AutoFix: four findings, of which two fix    *)
(* the same file, and reviews without a fix, which only move their tree.   *)
(***************************************************************************)
EXTENDS AutoFix

FourFixes ==
  <<[path |-> "a", kind |-> "modify"], [path |-> "b", kind |-> "create"],
    [path |-> "a", kind |-> "modify"], [path |-> "c", kind |-> "delete"]>>

NoFixes == <<>>
=============================================================================
