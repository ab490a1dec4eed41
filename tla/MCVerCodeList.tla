--------------------------- MODULE MCVerCodeList ---------------------------
(* Small instances of VerCodeList for TLC. *)
EXTENDS VerCodeList, TLC
=============================================================================
