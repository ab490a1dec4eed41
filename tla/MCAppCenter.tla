---------------------------- MODULE MCAppCenter ----------------------------
(* Small instances of AppCenter for TLC. *)
EXTENDS AppCenter, TLC

\* Accounts are only compared.
Symmetry == Permutations(Account)
=============================================================================
