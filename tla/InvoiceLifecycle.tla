-------------------------- MODULE InvoiceLifecycle --------------------------
(***************************************************************************)
(* A sales invoice from draft to issued, and the Document projection that  *)
(* shares its identifier.  Creating and issuing are single transactions;   *)
(* editing, deleting and signing read first, write later, and then bring   *)
(* the projection up to date with MirrorLegacyInvoice outside of any       *)
(* transaction.  Several requests run these at once, and a request may     *)
(* end between any two of its steps.                                       *)
(*                                                                         *)
(* Content is what Validate compares.  Its fields are told apart by what   *)
(* the two ways of writing a projection do with them: "head" is copied by  *)
(* both, "extra" (terms, custom fields, discount and cess totals) only by  *)
(* Build, and "gst" says whether Build splits the tax of the lines.        *)
(***************************************************************************)
EXTENDS Naturals, FiniteSets

CONSTANTS Invoices,         \* invoice identifiers
          Requests,         \* concurrent callers of the multi-step operations
          Keys,             \* Idempotency-Key values
          Scopes,           \* document type, financial year and series
          Contents,         \* contents that callers submit
          MaxNumber,        \* 999999: the last number of a scope
          MaxVersion        \* bound on the edits of a draft

ASSUME LifecycleConstants ==
    /\ Contents \subseteq [head : Nat, extra : Nat, gst : BOOLEAN]
    /\ MaxNumber \in Nat
    /\ MaxVersion \in Nat \ {0}

VARIABLES
    inv,                    \* rows of invoices
    doc,                    \* rows of documents with the same identifiers
    seq,                    \* document_sequences.last_number
    final,                  \* the final render job of an invoice, with its snapshot
    idem,                   \* api_idempotency_keys
    answers,                \* results returned under each key (history)
    req                     \* what each request is doing

vars == <<inv, doc, seq, final, idem, answers, req>>

Commands == {"create", "issue"}
Projections == [head : Nat, extra : Nat, gst : BOOLEAN]
NoNumber == <<>>
NoFinal == <<>>
NoClaim == <<>>
NoContent == [head |-> 0, extra |-> 0, gst |-> FALSE]

NoInvoice == [status |-> "absent", version |-> 0, content |-> NoContent,
              number |-> NoNumber, signed |-> FALSE, deleted |-> FALSE]
NoDocument == [status |-> "absent", projection |-> NoContent,
               number |-> NoNumber, deleted |-> FALSE]
Idle == [pc |-> "idle"]

Live(i) == inv[i].status # "absent" /\ ~inv[i].deleted

-----------------------------------------------------------------------------
(* The two ways of writing a projection. *)

\* invoiceprojection.Build, used when the draft is created.
Build(c) == c

\* MirrorLegacyInvoice starts from the stored document and overwrites part of it.
Mirrored(p, c) == [head |-> c.head, extra |-> p.extra, gst |-> FALSE]

\* invoiceprojection.Validate.
Validate(i) == doc[i].projection = Build(inv[i].content)

-----------------------------------------------------------------------------
(* Transactions under an idempotency key. *)

Hash(body) == body

\* claimInvoiceIssueIdempotency finds the key unused: the command runs, and
\* its result is stored by the same transaction.
Claim(cmd, k, body, result) ==
    /\ idem[<<cmd, k>>] = NoClaim
    /\ idem' = [idem EXCEPT ![<<cmd, k>>] = <<Hash(body), result>>]
    /\ answers' = [answers EXCEPT ![<<cmd, k>>] = @ \cup {<<body, result>>}]

\* Slip: the stored request hash is not compared.
Replay_AnyHash(cmd, k, body) ==
    /\ idem[<<cmd, k>>] # NoClaim
    /\ answers' = [answers EXCEPT ![<<cmd, k>>] = @ \cup {<<body, idem[<<cmd, k>>][2]>>}]
    /\ UNCHANGED <<inv, doc, seq, final, idem, req>>

\* The key holds the result of the same request: it is returned again.  A
\* different request under the key is refused and changes nothing.
Replay(cmd, k, body) ==
    /\ idem[<<cmd, k>>] # NoClaim
    /\ idem[<<cmd, k>>][1] = Hash(body)
    /\ answers' = [answers EXCEPT ![<<cmd, k>>] = @ \cup {<<body, idem[<<cmd, k>>][2]>>}]
    /\ UNCHANGED <<inv, doc, seq, final, idem, req>>

\* CreateDraftAtomic: invoice and projection in one transaction.
CreateDraftAtomic(k, i, c) ==
    /\ inv[i].status = "absent"
    /\ Claim("create", k, c, i)
    /\ inv' = [inv EXCEPT ![i] = [NoInvoice EXCEPT !.status = "draft", !.version = 1,
                                                  !.content = c]]
    /\ doc' = [doc EXCEPT ![i] = [NoDocument EXCEPT !.status = "draft",
                                                   !.projection = Build(c)]]
    /\ UNCHANGED <<seq, final, req>>

\* Slip: issuing keeps the version of the draft.
IssueVersion_Kept(v) == v

\* Issuing advances the version, so that an edit which read the draft before
\* cannot commit after.
IssueVersion(v) == v + 1

\* Slip: the number is the one after the count of all invoices ever issued.
NextNumber_Global(s) == Cardinality({i \in Invoices : inv[i].number # NoNumber}) + 1

\* The upsert of document_sequences.
NextNumber(s) == seq[s] + 1

\* The upsert's condition on the row it updates.
SequenceOpen(s) == seq[s] < MaxNumber

\* IssueDraftAtomic, under row locks on the invoice and its document.
IssueDraftAtomic(k, i, v, s) ==
    /\ Live(i)
    /\ inv[i].status = "draft"
    /\ inv[i].version = v
    /\ doc[i].status = "draft" /\ ~doc[i].deleted
    /\ Validate(i)
    /\ SequenceOpen(s)
    /\ Claim("issue", k, <<i, v, s>>, i)
    /\ seq' = [seq EXCEPT ![s] = NextNumber(s)]
    /\ inv' = [inv EXCEPT ![i] = [@ EXCEPT !.status = "issued",
                                             !.number = <<s, NextNumber(s)>>,
                                             !.version = IssueVersion(v)]]
    /\ doc' = [doc EXCEPT ![i] = [@ EXCEPT !.status = "issued",
                                             !.number = <<s, NextNumber(s)>>]]
    /\ final' = [final EXCEPT ![i] = [version |-> IssueVersion(v),
                                      projection |-> doc[i].projection]]
    /\ UNCHANGED req

-----------------------------------------------------------------------------
(* Requests that work in several steps.  A step that finds its precondition *)
(* gone returns an error to the caller.                                     *)

Start(r, task) ==
    /\ req[r] = Idle
    /\ req' = [req EXCEPT ![r] = task]
    /\ UNCHANGED <<inv, doc, seq, final, idem, answers>>

Become(r, task) == req' = [req EXCEPT ![r] = task]

\* UpdateDraftByBusiness reads an unsigned draft of the version it was told.
UpdateDraftRead(r, i, c) ==
    /\ Live(i) /\ inv[i].status = "draft" /\ ~inv[i].signed
    /\ Start(r, [pc |-> "commit_draft", i |-> i, version |-> inv[i].version, content |-> c])

\* The condition of the UPDATE statements of both kinds of edit.
VersionUnchanged(r) == Live(req[r].i) /\ inv[req[r].i].version = req[r].version

EditVersion(v) == v + 1

\* Its UPDATE compares the version only.
UpdateDraftCommit(r) ==
    /\ req[r].pc = "commit_draft"
    /\ IF VersionUnchanged(r) /\ inv[req[r].i].version < MaxVersion
       THEN /\ inv' = [inv EXCEPT ![req[r].i] = [@ EXCEPT !.content = req[r].content,
                                                            !.version = EditVersion(inv[req[r].i].version)]]
            /\ Become(r, [pc |-> "reread", i |-> req[r].i])
       ELSE /\ Become(r, Idle)
            /\ UNCHANGED inv
    /\ UNCHANGED <<doc, seq, final, idem, answers>>

\* After the commit the invoice is read again, as it is by then.
UpdateDraftReread(r) ==
    /\ req[r].pc = "reread"
    /\ Become(r, IF Live(req[r].i)
                 THEN [pc |-> "mirror", i |-> req[r].i, row |-> inv[req[r].i]]
                 ELSE Idle)
    /\ UNCHANGED <<inv, doc, seq, final, idem, answers>>

\* UpdateByBusiness on a draft: everything but the lines and totals.
UpdateRead(r, i, c) ==
    /\ Live(i) /\ inv[i].status = "draft" /\ ~inv[i].signed
    /\ c.gst = inv[i].content.gst
    /\ Start(r, [pc |-> "commit_metadata", i |-> i, version |-> inv[i].version,
                 row |-> [inv[i] EXCEPT !.content = c, !.version = EditVersion(@)]])

\* UpdateDraftMetadataVersioned; the row it wrote is what is mirrored.
UpdateDraftMetadataVersioned(r) ==
    /\ req[r].pc = "commit_metadata"
    /\ IF VersionUnchanged(r) /\ inv[req[r].i].status = "draft" /\ req[r].version < MaxVersion
       THEN /\ inv' = [inv EXCEPT ![req[r].i] = [@ EXCEPT !.content = req[r].row.content,
                                                            !.version = req[r].row.version]]
            /\ Become(r, [pc |-> "mirror", i |-> req[r].i, row |-> req[r].row])
       ELSE /\ Become(r, Idle)
            /\ UNCHANGED inv
    /\ UNCHANGED <<doc, seq, final, idem, answers>>

\* SignInvoice reads an unsigned invoice and later writes the signature only.
SignRead(r, i) ==
    /\ Live(i) /\ ~inv[i].signed
    /\ Start(r, [pc |-> "sign", i |-> i, row |-> [inv[i] EXCEPT !.signed = TRUE]])

SignCommit(r) ==
    /\ req[r].pc = "sign"
    /\ inv' = IF Live(req[r].i) THEN [inv EXCEPT ![req[r].i] = [@ EXCEPT !.signed = TRUE]] ELSE inv
    /\ Become(r, [pc |-> "mirror", i |-> req[r].i, row |-> req[r].row])
    /\ UNCHANGED <<doc, seq, final, idem, answers>>

\* MirrorLegacyInvoice writes the row the request holds over the stored
\* document, whatever has become of either since the row was read.
MirrorLegacyInvoice(r) ==
    /\ req[r].pc = "mirror"
    /\ doc' = IF doc[req[r].i].deleted
              THEN doc
              ELSE [doc EXCEPT ![req[r].i] =
                       [@ EXCEPT !.status = req[r].row.status,
                                 !.projection = Mirrored(doc[req[r].i].projection,
                                                         req[r].row.content),
                                 !.number = req[r].row.number]]
    /\ Become(r, Idle)
    /\ UNCHANGED <<inv, seq, final, idem, answers>>

\* DeleteByBusiness reads an unsigned draft, then deletes by identifier.
DeleteRead(r, i) ==
    /\ Live(i) /\ inv[i].status = "draft" /\ ~inv[i].signed
    /\ Start(r, [pc |-> "delete", i |-> i])

DeleteCommit(r) ==
    /\ req[r].pc = "delete"
    /\ inv' = [inv EXCEPT ![req[r].i] = [@ EXCEPT !.deleted = TRUE]]
    /\ Become(r, [pc |-> "delete_document", i |-> req[r].i])
    /\ UNCHANGED <<doc, seq, final, idem, answers>>

\* DeleteByType takes the projection along while it is a draft.
DeleteDocument(r) ==
    /\ req[r].pc = "delete_document"
    /\ doc' = IF doc[req[r].i].status = "draft"
              THEN [doc EXCEPT ![req[r].i] = [@ EXCEPT !.deleted = TRUE]]
              ELSE doc
    /\ Become(r, Idle)
    /\ UNCHANGED <<inv, seq, final, idem, answers>>

\* The request ends early: its next statement fails or the process stops.
RequestStop(r) ==
    /\ req[r] # Idle
    /\ Become(r, Idle)
    /\ UNCHANGED <<inv, doc, seq, final, idem, answers>>

-----------------------------------------------------------------------------
Init ==
    /\ inv = [i \in Invoices |-> NoInvoice]
    /\ doc = [i \in Invoices |-> NoDocument]
    /\ seq = [s \in Scopes |-> 0]
    /\ final = [i \in Invoices |-> NoFinal]
    /\ idem = [ck \in Commands \X Keys |-> NoClaim]
    /\ answers = [ck \in Commands \X Keys |-> {}]
    /\ req = [r \in Requests |-> Idle]

Create(k) ==
    \/ \E i \in Invoices, c \in Contents : CreateDraftAtomic(k, i, c)
    \/ \E c \in Contents : Replay("create", k, c)

Issue(k) ==
    \E i \in Invoices, v \in 1 .. MaxVersion, s \in Scopes :
        IssueDraftAtomic(k, i, v, s) \/ Replay("issue", k, <<i, v, s>>)

Begin(r) ==
    \E i \in Invoices :
        \/ \E c \in Contents : UpdateDraftRead(r, i, c) \/ UpdateRead(r, i, c)
        \/ SignRead(r, i)
        \/ DeleteRead(r, i)

Continue(r) ==
    \/ UpdateDraftCommit(r) \/ UpdateDraftReread(r) \/ UpdateDraftMetadataVersioned(r)
    \/ SignCommit(r)
    \/ MirrorLegacyInvoice(r)
    \/ DeleteCommit(r) \/ DeleteDocument(r)

Next ==
    \/ \E k \in Keys : Create(k) \/ Issue(k)
    \/ \E r \in Requests : Begin(r) \/ Continue(r) \/ RequestStop(r)

Spec == Init /\ [][Next]_vars

-----------------------------------------------------------------------------
(* Properties. *)

Numbers == (Scopes \X (1 .. MaxNumber)) \cup {NoNumber}
Rows == [status : {"draft", "issued"}, version : Nat, content : Projections,
         number : Numbers, signed : BOOLEAN, deleted : BOOLEAN]
Tasks ==
    {Idle}
    \cup [pc : {"commit_draft"}, i : Invoices, version : Nat, content : Projections]
    \cup [pc : {"commit_metadata"}, i : Invoices, version : Nat, row : Rows]
    \cup [pc : {"reread", "delete", "delete_document"}, i : Invoices]
    \cup [pc : {"sign", "mirror"}, i : Invoices, row : Rows]

TypeOK ==
    /\ inv \in [Invoices -> Rows \cup {NoInvoice}]
    /\ doc \in [Invoices -> [status : {"draft", "issued"}, projection : Projections,
                             number : Numbers, deleted : BOOLEAN] \cup {NoDocument}]
    /\ seq \in [Scopes -> 0 .. MaxNumber]
    /\ final \in [Invoices -> [version : Nat, projection : Projections] \cup {NoFinal}]
    /\ DOMAIN idem = Commands \X Keys /\ DOMAIN answers = Commands \X Keys
    /\ req \in [Requests -> Tasks]

\* Numbers are allocated without gap or repetition: the issued invoices of a
\* scope carry exactly the numbers up to the last one of its sequence.
NumbersGapless ==
    \A s \in Scopes :
        LET issued == {i \in Invoices : inv[i].number # NoNumber /\ inv[i].number[1] = s}
        IN  /\ {inv[i].number[2] : i \in issued} = 1 .. seq[s]
            /\ Cardinality(issued) = seq[s]

\* The final render was requested for exactly the version and the content
\* that the issued invoice has, whatever edits were under way when
\* IssueDraftAtomic committed.
FinalRenderIsOfIssuedVersion ==
    \A i \in Invoices :
        IF inv[i].status = "issued"
        THEN final[i] = [version |-> inv[i].version, projection |-> Build(inv[i].content)]
        ELSE final[i] = NoFinal

\* Under one key a command has one result: a retry gets the invoice of the
\* first request, and no other request gets an answer under that key.
OneAnswerPerKey ==
    \A ck \in Commands \X Keys : Cardinality(answers[ck]) <= 1

-----------------------------------------------------------------------------
(* What the documents and the code say and the code does not do. *)

\* DeleteByBusiness refuses anything but a draft, so only drafts are deleted.
\* The check and the delete are two statements.
OnlyDraftsDeleted == \A i \in Invoices : inv[i].deleted => inv[i].status = "draft"

\* A projection cannot move on its own: once issued together with its invoice
\* it stays issued.  A request that mirrors late writes the draft back.
IssuedProjectionStands ==
    [][\A i \in Invoices : doc[i].status = "issued" => doc'[i].status = "issued"]_vars

\* A projection can be rebuilt from its invoice: mirroring the present row of
\* an invoice yields what Validate expects.
MirrorsNow(r, i) == req[r].pc = "mirror" /\ req[r].i = i /\ req[r].row = inv[i]
MirrorValidates ==
    [][\A r \in Requests, i \in Invoices :
          MirrorsNow(r, i) /\ doc'[i] # doc[i] => Validate(i)']_vars

=============================================================================
