---------------------------- MODULE AppRegistry ----------------------------
(***************************************************************************)
(* What the table app_id_list promises to the rest of the system, whoever  *)
(* writes it: application ids are given out one after the other, without a *)
(* gap and never twice, each to one creator for ever, and no account ever  *)
(* creates more than Quota of them.                                        *)
(***************************************************************************)
EXTENDS Naturals, Sequences, FiniteSets

CONSTANTS Account,  \* the accounts that may create applications
          Quota     \* the most applications one account ever creates

VARIABLE creators   \* creators[i] is the account that owns the i-th id

CreatedBy(a) == {i \in DOMAIN creators : creators[i] = a}

Init == creators = <<>>

Create(a) ==
  /\ Cardinality(CreatedBy(a)) < Quota
  /\ creators' = Append(creators, a)

Next == \E a \in Account : Create(a)

Spec == Init /\ [][Next]_creators
=============================================================================
