---------------------------- MODULE MCAppSession ----------------------------
(* A small instance of AppSession for TLC. *)
EXTENDS AppSession
=============================================================================
