--------------------------- MODULE MCClientTopics ---------------------------
(***************************************************************************)
(* Two fixed topics, as in MainInterface, and two applications.            *)
(***************************************************************************)
EXTENDS ClientTopics

CONSTANTS account, center, a1, a2

TwoFixed == <<account, center>>
AllTopics == {account, center, a1, a2, NoApp}
=============================================================================
