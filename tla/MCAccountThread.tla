-------------------------- MODULE MCAccountThread --------------------------
(* Small instances of AccountThread for TLC. *)
EXTENDS AccountThread, TLC

CONSTANTS p1, p2, n1, y1, y2

\* "Y" and the phone.
MCGenerated == (p1 :> y1) @@ (p2 :> y2)
MCPhone == {p1, p2}
MCName == {n1, y1, y2}
=============================================================================
