---------------------------- MODULE MCDeviceMqtt ----------------------------
(***************************************************************************)
(* Model values for DeviceMqtt.                                            *)
(***************************************************************************)
EXTENDS DeviceMqtt

ASSUME RoomForTwoAssumption == RoomForTwo

ASSUME AtMostOneLateAssumption == AtMostOneLate
=============================================================================
