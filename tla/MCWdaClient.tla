----------------------------- MODULE MCWdaClient -----------------------------
(***************************************************************************)
(* WdaClient for model checking: the callers run the same code, so they    *)
(* may be exchanged (safety and action properties only).                   *)
(***************************************************************************)
EXTENDS WdaClient, TLC

Symmetry == Permutations(Caller)
=============================================================================
