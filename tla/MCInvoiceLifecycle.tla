------------------------- MODULE MCInvoiceLifecycle -------------------------
(* Finite instances of InvoiceLifecycle. *)
EXTENDS InvoiceLifecycle, TLC

\* Two bills of supply that differ in their notes, one with other terms, and a
\* taxed invoice.
Plain1 == [head |-> 1, extra |-> 1, gst |-> FALSE]
Plain2 == [head |-> 2, extra |-> 1, gst |-> FALSE]
Terms  == [head |-> 2, extra |-> 2, gst |-> FALSE]
Taxed  == [head |-> 1, extra |-> 1, gst |-> TRUE]

PlainContents == {Plain1, Plain2}
MixedContents == {Plain1, Plain2, Terms, Taxed}

Symmetry == Permutations(Invoices) \cup Permutations(Requests)
            \cup Permutations(Keys) \cup Permutations(Scopes)
=============================================================================
