----------------------------- MODULE MCBaseMqtt -----------------------------
(***************************************************************************)
(* Model values for BaseMqtt.  Topics are not symmetric for the liveness   *)
(* property, so no symmetry is declared.                                   *)
(***************************************************************************)
EXTENDS BaseMqtt
=============================================================================
