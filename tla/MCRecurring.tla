---- MODULE MCRecurring ----
(* Small instances of RecurringInvoices for TLC. *)
EXTENDS RecurringInvoices, TLC

====
