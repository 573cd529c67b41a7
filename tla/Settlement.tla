----------------------------- MODULE Settlement -----------------------------
(***************************************************************************)
(* Payments on one issued invoice.  Recording and reversing a payment are  *)
(* transactions that lock the invoice; the projection is told afterwards.  *)
(* An edit of the invoice's metadata reads the whole row, and later saves  *)
(* the whole row.                                                          *)
(*                                                                         *)
(* An amount is what a payment settles: the money and the tax withheld.    *)
(***************************************************************************)
EXTENDS Naturals, FiniteSets, FiniteSetsExt

CONSTANTS Payments,         \* payment identifiers
          PaymentKeys,      \* Idempotency-Key values
          Editors,          \* concurrent calls of UpdateByBusiness
          Total             \* the invoice total in minor units

ASSUME SettlementConstants == Total \in Nat \ {0}

VARIABLES
    paid, balance, status,  \* paid_amount, balance_due and status of the invoice
    amount, posted,         \* of each payment; posted is its status
    journal,                \* journals of each payment: original and reversal
    claims,                 \* api_idempotency_keys of the create command
    receipts,               \* results returned under each key (history)
    projected,              \* the same columns of the projection
    syncs,                  \* projections still to be written
    edit                    \* what each editor holds

invoiceVars == <<paid, balance, status>>
paymentVars == <<amount, posted, journal>>
settlementVars ==
    <<invoiceVars, paymentVars, claims, receipts, projected, syncs, edit>>

Unclaimed == <<>>
NoRow == <<>>

\* paymentAllowedForInvoiceStatus and, of what an issued invoice can be,
\* isInvoiceEditableStatus.
Payable == {"issued", "sent", "partially_paid", "overdue"}
Editable == {"sent", "partially_paid", "overdue"}

-----------------------------------------------------------------------------
(* Payments. *)

Settle(p, b, s) ==
    /\ paid' = p
    /\ balance' = b
    /\ status' = s
    /\ syncs' = syncs \cup {<<p, b, s>>}

WithinBalance(a) == a <= balance

\* Create: payment, invoice, journal and key in one transaction.
CreatePayment(k, p, a) ==
    /\ claims[k] = Unclaimed
    /\ posted[p] = "none"
    /\ status \in Payable
    /\ paid + balance = Total
    /\ WithinBalance(a)
    /\ amount' = [amount EXCEPT ![p] = a]
    /\ posted' = [posted EXCEPT ![p] = "posted"]
    /\ journal' = [journal EXCEPT ![p] = {"posted"}]
    /\ Settle(paid + a, balance - a, IF balance = a THEN "paid" ELSE "partially_paid")
    /\ claims' = [claims EXCEPT ![k] = <<a, p>>]
    /\ receipts' = [receipts EXCEPT ![k] = @ \cup {<<a, p>>}]
    /\ UNCHANGED <<projected, edit>>

\* Slip: the request hash is not compared.
ReplayPayment_AnyHash(k, a) ==
    /\ claims[k] # Unclaimed
    /\ receipts' = [receipts EXCEPT ![k] = @ \cup {<<a, claims[k][2]>>}]
    /\ UNCHANGED <<invoiceVars, paymentVars, claims, projected, syncs, edit>>

\* The key is complete: the same request gets the same payment again, another
\* one is refused.
ReplayPayment(k, a) ==
    /\ claims[k] # Unclaimed
    /\ claims[k][1] = a
    /\ receipts' = [receipts EXCEPT ![k] = @ \cup {<<a, claims[k][2]>>}]
    /\ UNCHANGED <<invoiceVars, paymentVars, claims, projected, syncs, edit>>

\* Slip: the payment keeps its status, and can be reversed again.
AfterReversal_Posted == "posted"

AfterReversal == "reversed"

\* Slip: with nothing paid the status of a part payment remains.
ReversedStatus_Partial(p, b) == IF b = 0 THEN {"paid"} ELSE {"partially_paid"}

\* An invoice with nothing paid is overdue or sent, depending on its due date.
ReversedStatus(p, b) ==
    IF b = 0 THEN {"paid"} ELSE IF p = 0 THEN {"overdue", "sent"} ELSE {"partially_paid"}

\* ReverseByBusiness.
Reverse(p) ==
    LET a == amount[p] IN
    /\ posted[p] = "posted"
    /\ "posted" \in journal[p]
    /\ paid + balance = Total
    /\ a <= paid /\ balance + a <= Total
    /\ \E s \in ReversedStatus(paid - a, balance + a) : Settle(paid - a, balance + a, s)
    /\ posted' = [posted EXCEPT ![p] = AfterReversal]
    /\ journal' = [journal EXCEPT ![p] = {"reversed", "reversal"}]
    /\ UNCHANGED <<amount, claims, receipts, projected, edit>>

\* SyncLegacyInvoicePayment after the commit, with what the caller settled.
SyncLegacyInvoicePayment(row) ==
    /\ row \in syncs
    /\ projected' = row
    /\ syncs' = syncs \ {row}
    /\ UNCHANGED <<invoiceVars, paymentVars, claims, receipts, edit>>

-----------------------------------------------------------------------------
(* Metadata edits of an issued invoice. *)

\* UpdateByBusiness reads the row.
MetadataRead(r) ==
    /\ edit[r] = NoRow
    /\ status \in Editable
    /\ edit' = [edit EXCEPT ![r] = <<paid, balance, status>>]
    /\ UNCHANGED <<invoiceVars, paymentVars, claims, receipts, projected, syncs>>

\* repo.Update saves every column; MirrorLegacyInvoice follows.
MetadataSave(r) ==
    /\ edit[r] # NoRow
    /\ Settle(edit[r][1], edit[r][2], edit[r][3])
    /\ edit' = [edit EXCEPT ![r] = NoRow]
    /\ UNCHANGED <<paymentVars, claims, receipts, projected>>

MetadataStop(r) ==
    /\ edit[r] # NoRow
    /\ edit' = [edit EXCEPT ![r] = NoRow]
    /\ UNCHANGED <<invoiceVars, paymentVars, claims, receipts, projected, syncs>>

-----------------------------------------------------------------------------
SettlementInit ==
    /\ paid = 0 /\ balance = Total /\ status = "issued"
    /\ amount = [p \in Payments |-> 0]
    /\ posted = [p \in Payments |-> "none"]
    /\ journal = [p \in Payments |-> {}]
    /\ claims = [k \in PaymentKeys |-> Unclaimed]
    /\ receipts = [k \in PaymentKeys |-> {}]
    /\ projected = <<0, Total, "issued">>
    /\ syncs = {}
    /\ edit = [r \in Editors |-> NoRow]

SettlementNext ==
    \/ \E k \in PaymentKeys, p \in Payments, a \in 1 .. Total : CreatePayment(k, p, a)
    \/ \E k \in PaymentKeys, a \in 1 .. Total : ReplayPayment(k, a)
    \/ \E p \in Payments : Reverse(p)
    \/ \E row \in syncs : SyncLegacyInvoicePayment(row)
    \/ \E r \in Editors : MetadataRead(r) \/ MetadataSave(r) \/ MetadataStop(r)

SettlementSpec == SettlementInit /\ [][SettlementNext]_settlementVars

-----------------------------------------------------------------------------
(* Properties. *)

Statuses == {"issued", "sent", "overdue", "partially_paid", "paid"}
SettledRows == (0 .. Total) \X (0 .. Total) \X Statuses

SettlementTypeOK ==
    /\ <<paid, balance, status>> \in SettledRows
    /\ amount \in [Payments -> 0 .. Total]
    /\ posted \in [Payments -> {"none", "posted", "reversed"}]
    /\ journal \in [Payments -> SUBSET {"posted", "reversed", "reversal"}]
    /\ DOMAIN claims = PaymentKeys /\ DOMAIN receipts = PaymentKeys
    /\ projected \in SettledRows
    /\ syncs \subseteq SettledRows
    /\ edit \in [Editors -> SettledRows \cup {NoRow}]

\* What a row says of the settlement: the balance is what is not paid, and the
\* status names the same condition as the amounts.
Coherent(row) ==
    /\ row[1] + row[2] = Total
    /\ row[3] = "paid" <=> row[2] = 0
    /\ row[3] = "partially_paid" <=> 0 < row[1] /\ row[1] < Total

\* The invoice is coherent after any mix of payments, reversals and saves of
\* rows read long before.
SettlementCoherent == Coherent(<<paid, balance, status>>)

\* Under one key at most one payment is ever created, and every retry gets it.
OnePaymentPerKey ==
    \A k \in PaymentKeys :
        /\ Cardinality(receipts[k]) <= 1
        /\ \A x \in receipts[k] : x[1] = amount[x[2]] /\ posted[x[2]] # "none"

PostedAmount ==
    MapThenSumSet(LAMBDA p : amount[p], {p \in Payments : posted[p] = "posted"})

\* Payments and reversals move the invoice's paid amount and the sum of its
\* posted payments together; only the whole-row save of a metadata edit can
\* take them apart.
OnlySavesUnsettle ==
    [][edit' = edit => paid' + PostedAmount = paid + PostedAmount']_settlementVars

-----------------------------------------------------------------------------
(* What the documents say and the code does not do. *)

\* Settlement is derived from durable payment and withholding facts: the
\* invoice's paid amount is the sum of its posted payments.  A row saved late
\* undoes a payment's effect.
PaidIsPosted == paid = PostedAmount

=============================================================================
