---------------------------- MODULE MCCenterMan ----------------------------
(***************************************************************************)
(* Small instances of CenterMan: an application is new, or has two devices *)
(* and one of them in a group of its own, or has one device and an empty   *)
(* group, which a device of the other application may be moved to.         *)
(***************************************************************************)
EXTENDS CenterMan, TLC

CONSTANTS d1, d2, g1

Used == [devices |-> {d1, d2}, groups |-> All :> <<d1, d2>> @@ g1 :> <<d1>>]
Begun == [devices |-> {d2}, groups |-> All :> <<d2>> @@ g1 :> <<>>]
AllKinds == {NewTable, Used, Begun}
=============================================================================
