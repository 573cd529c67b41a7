---------------------------- MODULE MCSettlement ----------------------------
(* Finite instances of Settlement. *)
EXTENDS Settlement, TLC

Symmetry == Permutations(Payments) \cup Permutations(PaymentKeys) \cup Permutations(Editors)
=============================================================================
