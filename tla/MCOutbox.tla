------------------------------ MODULE MCOutbox ------------------------------
(* Finite instances of Outbox. *)
EXTENDS Outbox, TLC
=============================================================================
