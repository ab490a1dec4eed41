---------------------------- MODULE MCMembership ----------------------------
(***************************************************************************)
(* Model values for Membership.                                            *)
(***************************************************************************)
EXTENDS Membership

\* The instance is one whose commands do not use up the numbers.
ASSUME FewCommandsAssumption == FewCommands
=============================================================================
