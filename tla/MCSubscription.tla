--------------------------- MODULE MCSubscription ---------------------------
(* Small instances of SubscriptionBilling for TLC.                         *)
EXTENDS SubscriptionBilling, TLC

=============================================================================
