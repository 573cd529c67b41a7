---- MODULE MCBulkImport ----
(* Small instances of BulkImport for TLC. *)
EXTENDS BulkImport, TLC

====
