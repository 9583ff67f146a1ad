------------------------------ MODULE MCEngine ------------------------------
(***************************************************************************)
(* Engine for TLC: the configurations give every constant model values.    *)
(* Liveness is checked on the same instance, so no symmetry is declared.   *)
(***************************************************************************)
EXTENDS Engine
=============================================================================
