-------------------------- MODULE MCVerCodeResend --------------------------
(* Small instances of VerCodeResend for TLC. *)
EXTENDS VerCodeResend, TLC

\* The instance is one that a code's backlog does not outlast.
ASSUME FewPhonesAssumption == FewPhones

\* Phones and views are only compared.
Symmetry == Permutations(Phone) \cup Permutations(View)
=============================================================================
