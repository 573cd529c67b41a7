-------------------------- MODULE MCEmailDelivery ---------------------------
(* Finite instances of EmailDelivery. *)
EXTENDS EmailDelivery, TLC

=============================================================================
