----------------------- MODULE InvoiceLifecycleProofs -----------------------
(***************************************************************************)
(* Numbers, keys and final renders of invoices, for any numbers of         *)
(* invoices, concurrent requests, keys and number scopes, any contents and *)
(* any last number of a scope; and the settlement of an issued invoice,    *)
(* for any total, any payments, keys and editors.                          *)
(***************************************************************************)
EXTENDS InvoiceLifecycle, Settlement, FiniteSetTheorems, TLAPS

\* First-order reasoning is left to Zenon; leaves with arithmetic name SMT.
USE Zenon

-----------------------------------------------------------------------------
(* The inductive invariant.                                                *)

\* Only an issued invoice has a number.
DraftsUnnumbered == \A i \in Invoices : inv[i].status # "issued" => inv[i].number = NoNumber

\* A request under way is about an invoice that exists, and an edit that is to
\* commit read a version that is still there or gone: it is gone for certain
\* once the invoice is issued.
EditPending(r) == req[r].pc \in {"commit_draft", "commit_metadata"}
Pending(r) ==
  /\ req[r].pc # "idle" => inv[req[r].i].status # "absent"
  /\ EditPending(r) => /\ req[r].version <= inv[req[r].i].version
                       /\ inv[req[r].i].status = "issued" => req[r].version < inv[req[r].i].version
  /\ req[r].pc = "commit_metadata" => req[r].row.version = EditVersion(req[r].version)

\* The issued invoices of a scope, and their count.
IssuedOf(s) == {i \in Invoices : inv[i].number # NoNumber /\ inv[i].number[1] = s}
Gapless(s) ==
  /\ {inv[i].number[2] : i \in IssuedOf(s)} = 1 .. seq[s]
  /\ IsFiniteSet(IssuedOf(s)) /\ Cardinality(IssuedOf(s)) = seq[s]

\* What was answered under a key is what the key holds.
Answer(ck) ==
  \/ idem[ck] = NoClaim /\ answers[ck] = {}
  \/ \E body, result : idem[ck] = <<body, result>> /\ answers[ck] = {<<body, result>>}

LifecycleInv ==
  /\ TypeOK
  /\ DraftsUnnumbered
  /\ \A r \in Requests : Pending(r)
  /\ \A s \in Scopes : Gapless(s)
  /\ FinalRenderIsOfIssuedVersion
  /\ \A ck \in Commands \X Keys : Answer(ck)

-----------------------------------------------------------------------------
(* Types.                                                                  *)

DocRows == [status : {"draft", "issued"}, projection : Projections,
            number : Numbers, deleted : BOOLEAN]

\* What the type says of a row, field by field.
LEMMA RowFacts ==
  ASSUME LifecycleInv, NEW i \in Invoices
  PROVE  /\ inv[i] \in Rows \cup {NoInvoice} /\ doc[i] \in DocRows \cup {NoDocument}
         /\ inv[i].status # "absent" => inv[i] \in Rows
         /\ inv[i].status = "absent" => inv[i] = NoInvoice
         /\ inv[i].status \in {"absent", "draft", "issued"}
         /\ inv[i].version \in Nat /\ inv[i].content \in Projections
         /\ inv[i].number \in Numbers /\ doc[i].projection \in Projections
         /\ doc[i].deleted \in BOOLEAN
<1>1. inv[i] \in Rows \cup {NoInvoice} /\ doc[i] \in DocRows \cup {NoDocument}
  BY DEF LifecycleInv, TypeOK, DocRows
<1>2. inv[i] \in Rows => /\ inv[i].status \in {"draft", "issued"} /\ inv[i].version \in Nat
                        /\ inv[i].content \in Projections /\ inv[i].number \in Numbers
  BY DEF Rows
<1>3. NoContent \in Projections /\ 0 \in Nat
  BY SMT DEF NoContent, Projections
<1>4. NoNumber \in Numbers
  BY DEF Numbers
<1>5. inv[i] = NoInvoice => /\ inv[i].status = "absent" /\ inv[i].version = 0
                            /\ inv[i].content = NoContent /\ inv[i].number = NoNumber
  BY SMT DEF NoInvoice
<1>6. /\ inv[i].status \in {"absent", "draft", "issued"}
      /\ inv[i].status # "absent" => inv[i] \in Rows
      /\ inv[i].status = "absent" => inv[i] = NoInvoice
  BY <1>1, <1>2, <1>5
<1>7. /\ inv[i].version \in Nat /\ inv[i].content \in Projections /\ inv[i].number \in Numbers
  BY <1>1, <1>2, <1>3, <1>4, <1>5
<1>8. doc[i] \in DocRows => doc[i].projection \in Projections /\ doc[i].deleted \in BOOLEAN
  BY DEF DocRows
<1>9. doc[i] = NoDocument => doc[i].projection = NoContent /\ doc[i].deleted = FALSE
  BY SMT DEF NoDocument
<1> QED BY <1>1, <1>3, <1>6, <1>7, <1>8, <1>9

\* What the type says of a task, by what the request is about to do.
LEMMA TaskFacts ==
  ASSUME LifecycleInv, NEW r \in Requests
  PROVE  /\ req[r] \in Tasks /\ Pending(r)
         /\ req[r].pc = "idle" <=> req[r] = Idle
         /\ req[r].pc # "idle" => req[r].i \in Invoices
         /\ req[r].pc = "commit_draft" => req[r].version \in Nat /\ req[r].content \in Projections
         /\ req[r].pc = "commit_metadata" => req[r].version \in Nat /\ req[r].row \in Rows
         /\ req[r].pc \in {"sign", "mirror"} => req[r].row \in Rows
<1>1. req[r] \in Tasks /\ Pending(r)
  BY DEF LifecycleInv, TypeOK
<1>2. Idle.pc = "idle"
  BY DEF Idle
<1>3. req[r] \in [pc : {"commit_draft"}, i : Invoices, version : Nat, content : Projections]
         => /\ req[r].pc = "commit_draft" /\ req[r].i \in Invoices
            /\ req[r].version \in Nat /\ req[r].content \in Projections
  OBVIOUS
<1>4. req[r] \in [pc : {"commit_metadata"}, i : Invoices, version : Nat, row : Rows]
         => /\ req[r].pc = "commit_metadata" /\ req[r].i \in Invoices
            /\ req[r].version \in Nat /\ req[r].row \in Rows
  OBVIOUS
<1>5. req[r] \in [pc : {"reread", "delete", "delete_document"}, i : Invoices]
         => req[r].pc \in {"reread", "delete", "delete_document"} /\ req[r].i \in Invoices
  OBVIOUS
<1>6. req[r] \in [pc : {"sign", "mirror"}, i : Invoices, row : Rows]
         => req[r].pc \in {"sign", "mirror"} /\ req[r].i \in Invoices /\ req[r].row \in Rows
  OBVIOUS
<1>7. \/ req[r] = Idle
      \/ req[r] \in [pc : {"commit_draft"}, i : Invoices, version : Nat, content : Projections]
      \/ req[r] \in [pc : {"commit_metadata"}, i : Invoices, version : Nat, row : Rows]
      \/ req[r] \in [pc : {"reread", "delete", "delete_document"}, i : Invoices]
      \/ req[r] \in [pc : {"sign", "mirror"}, i : Invoices, row : Rows]
  BY <1>1 DEF Tasks
<1> QED BY <1>1, <1>2, <1>3, <1>4, <1>5, <1>6, <1>7

\* The rows before anything is written are records of the same fields.
AnyRows == [status : {"absent", "draft", "issued"}, version : Nat, content : Projections,
            number : Numbers, signed : BOOLEAN, deleted : BOOLEAN]
AnyDocRows == [status : {"absent", "draft", "issued"}, projection : Projections,
               number : Numbers, deleted : BOOLEAN]

\* What there is before an invoice is created.
LEMMA EmptyRows == NoInvoice \in AnyRows /\ NoDocument \in AnyDocRows
<1>1. NoContent \in Projections /\ NoNumber \in Numbers /\ 0 \in Nat
  BY SMT DEF NoContent, Projections, Numbers
<1>2. NoInvoice \in AnyRows
  BY SMT, <1>1 DEF NoInvoice, AnyRows
<1>3. NoDocument \in AnyDocRows
  BY SMT, <1>1 DEF NoDocument, AnyDocRows
<1> QED BY <1>2, <1>3

\* Contents that callers submit are projections.
LEMMA ContentFacts == \A c \in Contents : c \in Projections
BY LifecycleConstants DEF Projections

\* The transactions under a key are no part of the requests of several steps.
LEMMA KeyedStepsLeaveRequests ==
  ASSUME NEW k \in Keys, Create(k) \/ Issue(k)
  PROVE  UNCHANGED req
<1>1. (\E i \in Invoices, c \in Contents : CreateDraftAtomic(k, i, c)) => UNCHANGED req
  BY SMT DEF CreateDraftAtomic
<1>2. (\E c \in Contents : Replay("create", k, c)) => UNCHANGED req
  BY SMT DEF Replay
<1>3. (\E i \in Invoices, v \in 1 .. MaxVersion, s \in Scopes : IssueDraftAtomic(k, i, v, s))
        => UNCHANGED req
  BY ZenonT(60) DEF IssueDraftAtomic
<1>4. (\E i \in Invoices, v \in 1 .. MaxVersion, s \in Scopes : Replay("issue", k, <<i, v, s>>))
        => UNCHANGED req
  BY SMT DEF Replay
<1> QED BY <1>1, <1>2, <1>3, <1>4 DEF Create, Issue

\* The requests keep their types.
LEMMA RequestsKeepTypes ==
  ASSUME LifecycleInv, Next
  PROVE  req' \in [Requests -> Tasks]
<1>0. req \in [Requests -> Tasks]
  BY DEF LifecycleInv, TypeOK
<1>1. ASSUME NEW r \in Requests, NEW task \in Tasks, Become(r, task)
      PROVE  req' \in [Requests -> Tasks]
  BY <1>0, <1>1 DEF Become
<1>2. CASE \E k \in Keys : Create(k) \/ Issue(k)
  <2>1. UNCHANGED req
    BY <1>2, KeyedStepsLeaveRequests
  <2> QED BY <1>0, <2>1
<1>3. Idle \in Tasks
  BY DEF Tasks
<1>4. ASSUME NEW r \in Requests, Begin(r)
      PROVE  \E task \in Tasks : Become(r, task)
  <2>1. PICK i \in Invoices : \/ \E c \in Contents : UpdateDraftRead(r, i, c) \/ UpdateRead(r, i, c)
                              \/ SignRead(r, i) \/ DeleteRead(r, i)
    BY <1>4 DEF Begin
  <2>2. Live(i) => inv[i] \in Rows
    BY RowFacts DEF Live
  <2>3. CASE \E c \in Contents : UpdateDraftRead(r, i, c)
    <3> PICK c \in Contents : UpdateDraftRead(r, i, c)
      BY <2>3
    <3>1. inv[i].version \in Nat /\ c \in Projections
      BY RowFacts, ContentFacts
    <3>2. [pc |-> "commit_draft", i |-> i, version |-> inv[i].version, content |-> c] \in Tasks
      BY <3>1 DEF Tasks
    <3> QED BY <3>2 DEF UpdateDraftRead, Start, Become
  <2>4. CASE \E c \in Contents : UpdateRead(r, i, c)
    <3> PICK c \in Contents : UpdateRead(r, i, c)
      BY <2>4
    <3> DEFINE row == [inv[i] EXCEPT !.content = c, !.version = EditVersion(@)]
    <3>1. inv[i].version \in Nat /\ c \in Projections /\ inv[i] \in Rows
      BY <2>2, RowFacts, ContentFacts DEF UpdateRead
    <3>2. EditVersion(inv[i].version) \in Nat
      BY SMT, <3>1 DEF EditVersion
    <3>3. row \in Rows
      BY <3>1, <3>2 DEF Rows
    <3>4. Become(r, [pc |-> "commit_metadata", i |-> i, version |-> inv[i].version, row |-> row])
      BY DEF UpdateRead, Start, Become
    <3> HIDE DEF row
    <3>5. [pc |-> "commit_metadata", i |-> i, version |-> inv[i].version, row |-> row] \in Tasks
      BY <3>1, <3>3 DEF Tasks
    <3> QED BY <3>4, <3>5
  <2>5. CASE SignRead(r, i)
    <3> DEFINE row == [inv[i] EXCEPT !.signed = TRUE]
    <3>1. row \in Rows
      BY <2>2, <2>5 DEF SignRead, Rows
    <3>2. Become(r, [pc |-> "sign", i |-> i, row |-> row])
      BY <2>5 DEF SignRead, Start, Become
    <3> HIDE DEF row
    <3>3. [pc |-> "sign", i |-> i, row |-> row] \in Tasks
      BY <3>1 DEF Tasks
    <3> QED BY <3>2, <3>3
  <2>6. CASE DeleteRead(r, i)
    <3>1. [pc |-> "delete", i |-> i] \in Tasks
      BY DEF Tasks
    <3> QED BY <2>6, <3>1 DEF DeleteRead, Start, Become
  <2> QED BY <2>1, <2>3, <2>4, <2>5, <2>6
<1>5. ASSUME NEW r \in Requests, Continue(r)
      PROVE  \E task \in Tasks : Become(r, task)
  <2>0. /\ req[r].pc # "idle" => req[r].i \in Invoices
        /\ req[r].pc \in {"commit_metadata", "sign"} => req[r].row \in Rows
    BY TaskFacts
  <2>1. CASE UpdateDraftCommit(r)
    <3>1. [pc |-> "reread", i |-> req[r].i] \in Tasks
      BY <2>0, <2>1 DEF UpdateDraftCommit, Tasks
    <3> QED BY <1>3, <2>1, <3>1 DEF UpdateDraftCommit
  <2>2. CASE UpdateDraftReread(r)
    <3>1. CASE Live(req[r].i)
      <4>1. req[r].i \in Invoices /\ inv[req[r].i] \in Rows
        BY <2>0, <2>2, <3>1, RowFacts DEF UpdateDraftReread, Live
      <4>2. [pc |-> "mirror", i |-> req[r].i, row |-> inv[req[r].i]] \in Tasks
        BY <4>1 DEF Tasks
      <4> QED BY <2>2, <3>1, <4>2 DEF UpdateDraftReread
    <3>2. CASE ~Live(req[r].i)
      BY <1>3, <2>2, <3>2 DEF UpdateDraftReread
    <3> QED BY <3>1, <3>2
  <2>3. CASE UpdateDraftMetadataVersioned(r) \/ SignCommit(r)
    <3>1. [pc |-> "mirror", i |-> req[r].i, row |-> req[r].row] \in Tasks
      BY <2>0, <2>3 DEF UpdateDraftMetadataVersioned, SignCommit, Tasks
    <3> QED BY <1>3, <2>3, <3>1 DEF UpdateDraftMetadataVersioned, SignCommit
  <2>4. CASE DeleteCommit(r)
    <3>1. [pc |-> "delete_document", i |-> req[r].i] \in Tasks
      BY <2>0, <2>4 DEF DeleteCommit, Tasks
    <3> QED BY <2>4, <3>1 DEF DeleteCommit
  <2>5. CASE MirrorLegacyInvoice(r) \/ DeleteDocument(r)
    BY <1>3, <2>5 DEF MirrorLegacyInvoice, DeleteDocument
  <2> QED BY <1>5, <2>1, <2>2, <2>3, <2>4, <2>5 DEF Continue
<1>6. ASSUME NEW r \in Requests, RequestStop(r)
      PROVE  \E task \in Tasks : Become(r, task)
  BY <1>3, <1>6 DEF RequestStop
<1> QED BY <1>1, <1>2, <1>4, <1>5, <1>6 DEF Next

-----------------------------------------------------------------------------
(* What a step may do to a row of invoices.                                *)

Created(i) == /\ inv[i].status = "absent"
              /\ inv'[i] \in Rows /\ inv'[i].status = "draft" /\ inv'[i].number = NoNumber

\* An edit finds the version its request read, so the invoice is still a draft.
Edited(i) == /\ inv[i].status = "draft"
             /\ inv'[i] \in Rows /\ inv'[i].status = "draft" /\ inv'[i].number = inv[i].number
             /\ inv'[i].version = inv[i].version + 1

\* Signing and deleting leave everything else.
Marked(i) == /\ inv[i].status # "absent"
             /\ inv'[i] \in Rows /\ inv'[i].status = inv[i].status
             /\ inv'[i].number = inv[i].number /\ inv'[i].version = inv[i].version
             /\ inv'[i].content = inv[i].content

\* The table has a row for each identifier after the step.
Tabled == inv' = [j \in Invoices |-> inv'[j]]

NoIssue == /\ UNCHANGED <<seq, final>> /\ Tabled
           /\ \A i \in Invoices : inv'[i] = inv[i] \/ Created(i) \/ Edited(i) \/ Marked(i)

IssueOf(i, s) ==
  /\ inv[i].status = "draft"
  /\ inv'[i] \in Rows /\ inv'[i].status = "issued" /\ inv'[i].number = <<s, seq[s] + 1>>
  /\ inv'[i].version = inv[i].version + 1 /\ inv'[i].content = inv[i].content
  /\ Tabled /\ \A j \in Invoices \ {i} : inv'[j] = inv[j]
  /\ seq[s] + 1 \in 1 .. MaxNumber /\ seq' = [seq EXCEPT ![s] = seq[s] + 1]
  /\ final' = [final EXCEPT ![i] = [version |-> inv[i].version + 1, projection |-> inv[i].content]]

\* IssueDraftAtomic numbers one draft, and renders what Validate compared.
LEMMA Issuing ==
  ASSUME LifecycleInv, NEW k \in Keys, NEW i \in Invoices, NEW v \in 1 .. MaxVersion,
         NEW s \in Scopes, IssueDraftAtomic(k, i, v, s)
  PROVE  IssueOf(i, s) /\ UNCHANGED req
<1> DEFINE n == <<s, seq[s] + 1>>
<1>1. /\ inv[i].status = "draft" /\ inv[i].version = v /\ doc[i].projection = inv[i].content
      /\ seq[s] < MaxNumber /\ UNCHANGED req
  BY DEF IssueDraftAtomic, Validate, Build, SequenceOpen
<1>2. inv[i] \in Rows /\ v \in Nat /\ inv \in [Invoices -> Rows \cup {NoInvoice}]
  BY <1>1, RowFacts DEF LifecycleInv, TypeOK
<1>3. seq[s] \in 0 .. MaxNumber
  BY DEF LifecycleInv, TypeOK
<1>4. seq[s] + 1 \in 1 .. MaxNumber /\ v + 1 \in Nat
  BY SMT, <1>1, <1>2, <1>3, LifecycleConstants
<1>5. n \in Numbers
  BY <1>4 DEF Numbers
<1>6. inv' = [inv EXCEPT ![i] = [inv[i] EXCEPT !.status = "issued", !.number = n, !.version = v + 1]]
  BY DEF IssueDraftAtomic, NextNumber, IssueVersion
<1>7. /\ seq' = [seq EXCEPT ![s] = seq[s] + 1]
      /\ final' = [final EXCEPT ![i] = [version |-> v + 1, projection |-> doc[i].projection]]
  BY DEF IssueDraftAtomic, NextNumber, IssueVersion
<1> HIDE DEF n
<1>8. inv'[i] = [inv[i] EXCEPT !.status = "issued", !.number = n, !.version = v + 1]
  BY <1>2, <1>6
<1>9. Tabled /\ \A j \in Invoices \ {i} : inv'[j] = inv[j]
  BY <1>2, <1>6 DEF Tabled
<1>10. /\ inv'[i] \in Rows /\ inv'[i].status = "issued" /\ inv'[i].number = n
       /\ inv'[i].version = v + 1 /\ inv'[i].content = inv[i].content
  <2>1. [inv[i] EXCEPT !.status = "issued", !.number = n, !.version = v + 1] \in Rows
    BY <1>2, <1>4, <1>5 DEF Rows
  <2>2. inv'[i].status = "issued" /\ inv'[i].number = n
    BY <1>2, <1>8 DEF Rows
  <2>3. inv'[i].version = v + 1 /\ inv'[i].content = inv[i].content
    BY <1>2, <1>8 DEF Rows
  <2> QED BY <1>8, <2>1, <2>2, <2>3
<1> QED BY <1>1, <1>4, <1>7, <1>9, <1>10 DEF IssueOf, n

\* An edit commits on the version it read, which an issued invoice has left.
LEMMA EditsMeetDrafts ==
  ASSUME LifecycleInv, NEW r \in Requests, EditPending(r), VersionUnchanged(r)
  PROVE  /\ req[r].i \in Invoices /\ inv[req[r].i].status = "draft" /\ inv[req[r].i] \in Rows
         /\ inv[req[r].i].version = req[r].version
<1>1. /\ req[r].pc # "idle" /\ req[r].version \in Nat /\ Pending(r) /\ req[r].i \in Invoices
  BY TaskFacts DEF EditPending
<1>2. /\ inv[req[r].i].version = req[r].version
      /\ inv[req[r].i].status = "issued" => req[r].version < inv[req[r].i].version
  BY <1>1 DEF Pending, VersionUnchanged
<1>3. inv[req[r].i].status # "issued"
  BY SMT, <1>1, <1>2
<1> QED BY <1>1, <1>2, <1>3, RowFacts DEF VersionUnchanged, Live

\* The steps that commit to invoices, other than issuing.
LEMMA Committing ==
  ASSUME LifecycleInv, NEW r \in Requests,
         UpdateDraftCommit(r) \/ UpdateDraftMetadataVersioned(r) \/ SignCommit(r) \/ DeleteCommit(r)
  PROVE  NoIssue
<1> DEFINE i == req[r].i
<1>0. /\ inv \in [Invoices -> Rows \cup {NoInvoice}] /\ req[r].pc # "idle"
      /\ UNCHANGED <<seq, final>>
  <2>1. inv \in [Invoices -> Rows \cup {NoInvoice}]
    BY DEF LifecycleInv, TypeOK
  <2>2. req[r].pc # "idle"
    BY DEF UpdateDraftCommit, UpdateDraftMetadataVersioned, SignCommit, DeleteCommit
  <2>3. UNCHANGED <<seq, final>>
    BY SMT DEF UpdateDraftCommit, UpdateDraftMetadataVersioned, SignCommit, DeleteCommit
  <2> QED BY <2>1, <2>2, <2>3
<1>1. i \in Invoices /\ inv[i] \in Rows
  BY <1>0, TaskFacts, RowFacts DEF Pending
<1>2. ASSUME Tabled, \A j \in Invoices \ {i} : inv'[j] = inv[j], Edited(i) \/ Marked(i)
      PROVE  NoIssue
  BY <1>0, <1>2 DEF NoIssue
<1>3. UNCHANGED inv => NoIssue
  BY <1>0 DEF NoIssue, Tabled
<1>4. ASSUME NEW c \in Projections, NEW v, EditPending(r), VersionUnchanged(r),
             v = EditVersion(inv[i].version),
             inv' = [inv EXCEPT ![i] = [inv[i] EXCEPT !.content = c, !.version = v]]
      PROVE  NoIssue
  <2> HIDE DEF i
  <2>1. inv[i].status = "draft"
    BY <1>4, EditsMeetDrafts DEF i
  <2>2. v \in Nat /\ v = inv[i].version + 1
    BY SMT, <1>1, <1>4 DEF EditVersion, Rows
  <2>3. /\ inv'[i] = [inv[i] EXCEPT !.content = c, !.version = v]
        /\ Tabled /\ \A j \in Invoices \ {i} : inv'[j] = inv[j]
    BY <1>0, <1>1, <1>4 DEF Tabled
  <2>4. /\ inv'[i] \in Rows /\ inv'[i].status = inv[i].status /\ inv'[i].number = inv[i].number
        /\ inv'[i].version = v
    <3>1. [inv[i] EXCEPT !.content = c, !.version = v] \in Rows
      BY <1>1, <1>4, <2>2 DEF Rows
    <3>2. inv'[i].status = inv[i].status /\ inv'[i].number = inv[i].number /\ inv'[i].version = v
      BY <1>1, <2>3 DEF Rows
    <3> QED BY <2>3, <3>1, <3>2
  <2> QED BY <1>2, <2>1, <2>2, <2>3, <2>4 DEF Edited
<1>5. CASE UpdateDraftCommit(r)
  <2>1. req[r].content \in Projections /\ EditPending(r)
    BY <1>5, TaskFacts DEF UpdateDraftCommit, EditPending
  <2>2. CASE VersionUnchanged(r) /\ inv[i].version < MaxVersion
    <3>1. inv' = [inv EXCEPT ![i] = [inv[i] EXCEPT !.content = req[r].content,
                                                   !.version = EditVersion(inv[i].version)]]
      BY <1>5, <2>2 DEF UpdateDraftCommit
    <3> QED BY <1>4, <2>1, <2>2, <3>1
  <2>3. CASE ~(VersionUnchanged(r) /\ inv[i].version < MaxVersion)
    BY <1>3, <1>5, <2>3 DEF UpdateDraftCommit
  <2> QED BY <2>2, <2>3
<1>6. CASE UpdateDraftMetadataVersioned(r)
  <2>1. req[r].row \in Rows /\ req[r].row.version = EditVersion(req[r].version) /\ EditPending(r)
    BY <1>6, TaskFacts DEF UpdateDraftMetadataVersioned, EditPending, Pending
  <2>2. req[r].row.content \in Projections
    BY <2>1 DEF Rows
  <2>3. CASE VersionUnchanged(r) /\ inv[i].status = "draft" /\ req[r].version < MaxVersion
    <3>1. inv' = [inv EXCEPT ![i] = [inv[i] EXCEPT !.content = req[r].row.content,
                                                   !.version = req[r].row.version]]
      BY <1>6, <2>3 DEF UpdateDraftMetadataVersioned
    <3>2. req[r].row.version = EditVersion(inv[i].version)
      BY <2>1, <2>3 DEF VersionUnchanged
    <3> QED BY <1>4, <2>1, <2>2, <2>3, <3>1, <3>2
  <2>4. CASE ~(VersionUnchanged(r) /\ inv[i].status = "draft" /\ req[r].version < MaxVersion)
    BY <1>3, <1>6, <2>4 DEF UpdateDraftMetadataVersioned
  <2> QED BY <2>3, <2>4
<1>7. CASE SignCommit(r)
  <2>1. CASE Live(i)
    <3>1. inv' = [inv EXCEPT ![i] = [inv[i] EXCEPT !.signed = TRUE]]
      BY <1>7, <2>1 DEF SignCommit
    <3> HIDE DEF i
    <3>2. inv'[i] = [inv[i] EXCEPT !.signed = TRUE] /\ Tabled /\ \A j \in Invoices \ {i} : inv'[j] = inv[j]
      BY <1>0, <1>1, <3>1 DEF Tabled
    <3>3. Marked(i)
      <4>1. [inv[i] EXCEPT !.signed = TRUE] \in Rows
        BY <1>1 DEF Rows
      <4>2. /\ inv'[i].status = inv[i].status /\ inv'[i].number = inv[i].number
            /\ inv'[i].version = inv[i].version /\ inv'[i].content = inv[i].content
        BY <1>1, <3>2 DEF Rows
      <4>3. inv[i].status # "absent"
        BY <1>1 DEF Rows
      <4> QED BY <3>2, <4>1, <4>2, <4>3 DEF Marked
    <3> QED BY <1>2, <3>2, <3>3
  <2>2. CASE ~Live(i)
    BY <1>3, <1>7, <2>2 DEF SignCommit
  <2> QED BY <2>1, <2>2
<1>8. CASE DeleteCommit(r)
  <2>1. inv' = [inv EXCEPT ![i] = [inv[i] EXCEPT !.deleted = TRUE]]
    BY <1>8 DEF DeleteCommit
  <2> HIDE DEF i
  <2>2. inv'[i] = [inv[i] EXCEPT !.deleted = TRUE] /\ Tabled /\ \A j \in Invoices \ {i} : inv'[j] = inv[j]
    BY <1>0, <1>1, <2>1 DEF Tabled
  <2>3. Marked(i)
    <3>1. [inv[i] EXCEPT !.deleted = TRUE] \in Rows
      BY <1>1 DEF Rows
    <3>2. /\ inv'[i].status = inv[i].status /\ inv'[i].number = inv[i].number
          /\ inv'[i].version = inv[i].version /\ inv'[i].content = inv[i].content
      BY <1>1, <2>2 DEF Rows
    <3>3. inv[i].status # "absent"
      BY <1>1 DEF Rows
    <3> QED BY <2>2, <3>1, <3>2, <3>3 DEF Marked
  <2> QED BY <1>2, <2>2, <2>3
<1> QED BY <1>5, <1>6, <1>7, <1>8

\* CreateDraftAtomic fills one absent row.
LEMMA Creating ==
  ASSUME LifecycleInv, NEW k \in Keys, NEW i \in Invoices, NEW c \in Contents,
         CreateDraftAtomic(k, i, c)
  PROVE  NoIssue
<1>1. /\ inv[i].status = "absent" /\ UNCHANGED <<seq, final>>
      /\ inv' = [inv EXCEPT ![i] = [NoInvoice EXCEPT !.status = "draft", !.version = 1, !.content = c]]
  BY SMT DEF CreateDraftAtomic
<1>2. inv \in [Invoices -> Rows \cup {NoInvoice}] /\ c \in Projections
  BY ContentFacts DEF LifecycleInv, TypeOK
<1>3. /\ inv'[i] = [NoInvoice EXCEPT !.status = "draft", !.version = 1, !.content = c]
      /\ Tabled /\ \A j \in Invoices \ {i} : inv'[j] = inv[j]
  BY <1>1, <1>2 DEF Tabled
<1>4. NoNumber \in Numbers /\ 1 \in Nat
  BY SMT DEF Numbers
<1>5. NoInvoice \in AnyRows
  BY EmptyRows
<1>6. [NoInvoice EXCEPT !.status = "draft", !.version = 1, !.content = c] \in Rows
  BY <1>2, <1>4, <1>5 DEF Rows, AnyRows
<1>7. inv'[i].status = "draft" /\ inv'[i].number = NoNumber
  <2>1. inv'[i].number = NoInvoice.number /\ inv'[i].status = "draft"
    BY <1>3, <1>5 DEF AnyRows
  <2> QED BY <2>1 DEF NoInvoice
<1>8. Created(i)
  BY <1>1, <1>3, <1>6, <1>7 DEF Created
<1> QED BY <1>1, <1>3, <1>8 DEF NoIssue

\* A step issues one invoice or none.
LEMMA StepCases ==
  ASSUME LifecycleInv, Next
  PROVE  NoIssue \/ \E i \in Invoices, s \in Scopes : IssueOf(i, s) /\ UNCHANGED req
<1>0. inv = [j \in Invoices |-> inv[j]]
  BY DEF LifecycleInv, TypeOK
<1>1. UNCHANGED <<inv, seq, final>> => NoIssue
  BY SMT, <1>0 DEF NoIssue, Tabled
<1>2. ASSUME NEW k \in Keys, Create(k)
      PROVE  NoIssue
  <2>1. CASE \E i \in Invoices, c \in Contents : CreateDraftAtomic(k, i, c)
    BY <2>1, Creating
  <2>2. CASE \E c \in Contents : Replay("create", k, c)
    BY SMT, <1>1, <2>2 DEF Replay
  <2> QED BY <1>2, <2>1, <2>2 DEF Create
<1>3. ASSUME NEW k \in Keys, Issue(k)
      PROVE  NoIssue \/ \E i \in Invoices, s \in Scopes : IssueOf(i, s) /\ UNCHANGED req
  <2>1. PICK i \in Invoices, v \in 1 .. MaxVersion, s \in Scopes :
           IssueDraftAtomic(k, i, v, s) \/ Replay("issue", k, <<i, v, s>>)
    BY <1>3 DEF Issue
  <2>2. CASE IssueDraftAtomic(k, i, v, s)
    BY <2>2, Issuing
  <2>3. CASE Replay("issue", k, <<i, v, s>>)
    BY SMT, <1>1, <2>3 DEF Replay
  <2> QED BY <2>1, <2>2, <2>3
<1>4. ASSUME NEW r \in Requests, Begin(r)
      PROVE  UNCHANGED <<inv, seq, final>>
  <2>1. \E task : Start(r, task)
    BY <1>4 DEF Begin, UpdateDraftRead, UpdateRead, SignRead, DeleteRead
  <2> QED BY SMT, <2>1 DEF Start
<1>5. ASSUME NEW r \in Requests, Continue(r)
      PROVE  NoIssue
  <2>1. CASE UpdateDraftReread(r) \/ MirrorLegacyInvoice(r) \/ DeleteDocument(r)
    <3>1. UNCHANGED <<inv, seq, final>>
      BY SMT, <2>1 DEF UpdateDraftReread, MirrorLegacyInvoice, DeleteDocument
    <3> QED BY <1>1, <3>1
  <2> QED BY <1>5, <2>1, Committing DEF Continue
<1>6. ASSUME NEW r \in Requests, RequestStop(r)
      PROVE  UNCHANGED <<inv, seq, final>>
  BY SMT, <1>6 DEF RequestStop
<1> QED BY <1>1, <1>2, <1>3, <1>4, <1>5, <1>6 DEF Next

-----------------------------------------------------------------------------
(* The types of the tables.                                                *)

\* A step keeps the rows of invoices, the sequences and the render jobs typed.
LEMMA TablesKeepTypes ==
  ASSUME LifecycleInv, Next
  PROVE  /\ inv' \in [Invoices -> Rows \cup {NoInvoice}]
         /\ seq' \in [Scopes -> 0 .. MaxNumber]
         /\ final' \in [Invoices -> [version : Nat, projection : Projections] \cup {NoFinal}]
<1>0. /\ inv \in [Invoices -> Rows \cup {NoInvoice}]
      /\ seq \in [Scopes -> 0 .. MaxNumber]
      /\ final \in [Invoices -> [version : Nat, projection : Projections] \cup {NoFinal}]
  BY DEF LifecycleInv, TypeOK
<1>1. ASSUME Tabled, \A i \in Invoices : inv'[i] = inv[i] \/ inv'[i] \in Rows
      PROVE  inv' \in [Invoices -> Rows \cup {NoInvoice}]
  <2>1. \A i \in Invoices : inv'[i] \in Rows \cup {NoInvoice}
    BY <1>0, <1>1
  <2> QED BY <1>1, <2>1 DEF Tabled
<1>2. CASE NoIssue
  <2>1. \A i \in Invoices : inv'[i] = inv[i] \/ inv'[i] \in Rows
    BY <1>2 DEF NoIssue, Created, Edited, Marked
  <2>2. UNCHANGED seq /\ UNCHANGED final /\ Tabled
    BY SMT, <1>2 DEF NoIssue
  <2> QED BY <1>0, <1>1, <2>1, <2>2
<1>3. ASSUME NEW i \in Invoices, NEW s \in Scopes, IssueOf(i, s)
      PROVE  /\ inv' \in [Invoices -> Rows \cup {NoInvoice}]
             /\ seq' \in [Scopes -> 0 .. MaxNumber]
             /\ final' \in [Invoices -> [version : Nat, projection : Projections] \cup {NoFinal}]
  <2>1. inv' \in [Invoices -> Rows \cup {NoInvoice}]
    BY <1>1, <1>3 DEF IssueOf
  <2>2. seq[s] + 1 \in 0 .. MaxNumber
    BY SMT, <1>0, <1>3 DEF IssueOf
  <2>3. inv[i].version + 1 \in Nat /\ inv[i].content \in Projections
    <3>1. inv[i].version \in Nat /\ inv[i].content \in Projections
      BY RowFacts
    <3> QED BY SMT, <3>1
  <2> QED BY <1>0, <1>3, <2>1, <2>2, <2>3 DEF IssueOf
<1> QED BY <1>2, <1>3, StepCases

\* A step keeps the rows of documents typed.
LEMMA DocumentsKeepTypes ==
  ASSUME LifecycleInv, Next
  PROVE  doc' \in [Invoices -> DocRows \cup {NoDocument}]
<1>0. doc \in [Invoices -> DocRows \cup {NoDocument}]
  BY DEF LifecycleInv, TypeOK, DocRows
<1>1. UNCHANGED doc => doc' \in [Invoices -> DocRows \cup {NoDocument}]
  BY <1>0
<1>2. ASSUME NEW k \in Keys, Create(k)
      PROVE  doc' \in [Invoices -> DocRows \cup {NoDocument}]
  <2>1. CASE \E c \in Contents : Replay("create", k, c)
    <3>1. UNCHANGED doc
      BY SMT, <2>1 DEF Replay
    <3> QED BY <1>1, <3>1
  <2>2. ASSUME NEW i \in Invoices, NEW c \in Contents, CreateDraftAtomic(k, i, c)
        PROVE  doc' \in [Invoices -> DocRows \cup {NoDocument}]
    <3>1. doc' = [doc EXCEPT ![i] = [NoDocument EXCEPT !.status = "draft", !.projection = c]]
      BY <2>2 DEF CreateDraftAtomic, Build
    <3>2. c \in Projections
      BY ContentFacts
    <3>3. [NoDocument EXCEPT !.status = "draft", !.projection = c] \in DocRows
      BY <3>2, EmptyRows DEF DocRows, AnyDocRows
    <3> QED BY <1>0, <3>1, <3>3
  <2> QED BY <1>2, <2>1, <2>2 DEF Create
<1>3. ASSUME NEW k \in Keys, Issue(k)
      PROVE  doc' \in [Invoices -> DocRows \cup {NoDocument}]
  <2>1. PICK i \in Invoices, v \in 1 .. MaxVersion, s \in Scopes :
           IssueDraftAtomic(k, i, v, s) \/ Replay("issue", k, <<i, v, s>>)
    BY <1>3 DEF Issue
  <2>2. CASE Replay("issue", k, <<i, v, s>>)
    <3>1. UNCHANGED doc
      BY SMT, <2>2 DEF Replay
    <3> QED BY <1>1, <3>1
  <2>3. CASE IssueDraftAtomic(k, i, v, s)
    <3> DEFINE n == <<s, seq[s] + 1>>
    <3>1. /\ doc' = [doc EXCEPT ![i] = [doc[i] EXCEPT !.status = "issued", !.number = n]]
          /\ doc[i].status = "draft"
      BY <2>3 DEF IssueDraftAtomic, NextNumber
    <3>2. n \in Numbers
      BY <2>3, Issuing DEF IssueOf, Numbers
    <3> HIDE DEF n
    <3>3. doc[i] \in DocRows
      <4>1. NoDocument.status # "draft" /\ doc[i] \in DocRows \cup {NoDocument}
        BY <1>0 DEF NoDocument
      <4> QED BY <3>1, <4>1
    <3>4. [doc[i] EXCEPT !.status = "issued", !.number = n] \in DocRows
      BY <3>2, <3>3 DEF DocRows
    <3> QED BY <1>0, <3>1, <3>4
  <2> QED BY <2>1, <2>2, <2>3
<1>4. ASSUME NEW r \in Requests, Begin(r)
      PROVE  UNCHANGED doc
  <2>1. \E task : Start(r, task)
    BY <1>4 DEF Begin, UpdateDraftRead, UpdateRead, SignRead, DeleteRead
  <2> QED BY SMT, <2>1 DEF Start
<1>5. ASSUME NEW r \in Requests, Continue(r)
      PROVE  doc' \in [Invoices -> DocRows \cup {NoDocument}]
  <2> DEFINE i == req[r].i
  <2>1. CASE \/ UpdateDraftCommit(r) \/ UpdateDraftReread(r) \/ UpdateDraftMetadataVersioned(r)
             \/ SignCommit(r) \/ DeleteCommit(r)
    <3>1. UNCHANGED doc
      BY SMT, <2>1 DEF UpdateDraftCommit, UpdateDraftReread, UpdateDraftMetadataVersioned,
         SignCommit, DeleteCommit
    <3> QED BY <1>1, <3>1
  <2>2. CASE MirrorLegacyInvoice(r)
    <3>1. CASE doc[i].deleted
      BY <1>1, <2>2, <3>1 DEF MirrorLegacyInvoice
    <3>2. CASE ~doc[i].deleted
      <4>1. req[r].row \in Rows /\ i \in Invoices
        BY <2>2, TaskFacts DEF MirrorLegacyInvoice
      <4> DEFINE m == Mirrored(doc[i].projection, req[r].row.content)
                 st == req[r].row.status
                 n == req[r].row.number
      <4>2. st \in {"draft", "issued"} /\ n \in Numbers /\ req[r].row.content \in Projections
        BY <4>1 DEF Rows
      <4>3. doc[i].projection \in Projections /\ doc[i] \in DocRows \cup {NoDocument}
        BY <4>1, RowFacts
      <4>4. m \in Projections
        BY SMT, <4>2, <4>3 DEF Mirrored, Projections
      <4>5. doc' = [doc EXCEPT ![i] = [doc[i] EXCEPT !.status = st, !.projection = m, !.number = n]]
        BY <2>2, <3>2 DEF MirrorLegacyInvoice
      <4> HIDE DEF m, n, st, i
      <4>6. doc[i] \in AnyDocRows
        <5>1. doc[i] \in DocRows => doc[i] \in AnyDocRows
          BY DEF DocRows, AnyDocRows
        <5> QED BY <4>3, <5>1, EmptyRows
      <4>7. [doc[i] EXCEPT !.status = st, !.projection = m, !.number = n] \in DocRows
        BY <4>2, <4>4, <4>6 DEF DocRows, AnyDocRows
      <4> QED BY <1>0, <4>5, <4>7
    <3> QED BY <3>1, <3>2
  <2>3. CASE DeleteDocument(r)
    <3>1. CASE doc[i].status = "draft"
      <4>1. i \in Invoices /\ doc' = [doc EXCEPT ![i] = [doc[i] EXCEPT !.deleted = TRUE]]
        BY <2>3, <3>1, TaskFacts DEF DeleteDocument
      <4> HIDE DEF i
      <4>2. doc[i] \in DocRows
        <5>1. NoDocument.status # "draft" /\ doc[i] \in DocRows \cup {NoDocument}
          BY <1>0, <4>1 DEF NoDocument
        <5> QED BY <3>1, <5>1
      <4>3. [doc[i] EXCEPT !.deleted = TRUE] \in DocRows
        BY <4>2 DEF DocRows
      <4> QED BY <1>0, <4>1, <4>3
    <3>2. CASE doc[i].status # "draft"
      BY <1>1, <2>3, <3>2 DEF DeleteDocument
    <3> QED BY <3>1, <3>2
  <2> QED BY <1>5, <2>1, <2>2, <2>3 DEF Continue
<1>6. ASSUME NEW r \in Requests, RequestStop(r)
      PROVE  UNCHANGED doc
  BY SMT, <1>6 DEF RequestStop
<1> QED BY <1>1, <1>2, <1>3, <1>4, <1>5, <1>6 DEF Next

-----------------------------------------------------------------------------
(* Requests under way.                                                     *)

\* Rows stay, versions do not go back, and issuing advances the version.
LEMMA RowsGrow ==
  ASSUME LifecycleInv, Next, NEW i \in Invoices, inv[i].status # "absent"
  PROVE  /\ inv'[i].status # "absent"
         /\ inv[i].version \in Nat /\ inv'[i].version \in Nat
         /\ inv'[i].version >= inv[i].version
         /\ inv[i].status = "issued" => inv'[i].status = "issued"
         /\ inv'[i].status = "issued" /\ inv[i].status # "issued"
               => inv'[i].version > inv[i].version
<1>1. inv[i].version \in Nat
  BY RowFacts
<1>2. \/ inv'[i] = inv[i] \/ Edited(i) \/ Marked(i) \/ \E s \in Scopes : IssueOf(i, s)
  <2>1. CASE NoIssue
    BY <2>1 DEF NoIssue, Created
  <2>2. CASE \E j \in Invoices, s \in Scopes : IssueOf(j, s)
    BY ZenonT(60), <2>2 DEF IssueOf
  <2> QED BY <2>1, <2>2, StepCases
<1>3. CASE inv'[i] = inv[i]
  BY SMT, <1>1, <1>3
<1>4. CASE Edited(i)
  BY SMT, <1>1, <1>4 DEF Edited
<1>5. CASE Marked(i)
  BY SMT, <1>1, <1>5 DEF Marked
<1>6. CASE \E s \in Scopes : IssueOf(i, s)
  BY SMT, <1>1, <1>6 DEF IssueOf
<1> QED BY <1>2, <1>3, <1>4, <1>5, <1>6

\* What a step may do to a request: leave it, end it, carry it on to a step
\* that is not the commit of an edit, or begin it with what it reads.
Carried(r) == /\ req[r].pc # "idle" /\ req'[r].i = req[r].i
              /\ req'[r].pc \notin {"commit_draft", "commit_metadata"}
Begun(r) ==
  /\ UNCHANGED inv /\ req'[r].i \in Invoices /\ inv[req'[r].i].status # "absent"
  /\ req'[r].pc \in {"commit_draft", "commit_metadata"}
        => inv[req'[r].i].status = "draft" /\ req'[r].version = inv[req'[r].i].version
  /\ req'[r].pc = "commit_metadata" => req'[r].row.version = EditVersion(req'[r].version)

\* Begin reads the row it is about.
LEMMA Beginning ==
  ASSUME LifecycleInv, NEW r \in Requests, Begin(r)
  PROVE  Begun(r) /\ \A q \in Requests \ {r} : req'[q] = req[q]
<1>0. req \in [Requests -> Tasks]
  BY DEF LifecycleInv, TypeOK
<1>1. PICK i \in Invoices : \/ \E c \in Contents : UpdateDraftRead(r, i, c) \/ UpdateRead(r, i, c)
                            \/ SignRead(r, i) \/ DeleteRead(r, i)
  BY DEF Begin
<1>2. inv[i].status # "absent"
  BY <1>1 DEF UpdateDraftRead, UpdateRead, SignRead, DeleteRead, Live
<1>3. ASSUME NEW task, Start(r, task)
      PROVE  UNCHANGED inv /\ req'[r] = task /\ \A q \in Requests \ {r} : req'[q] = req[q]
  <2>1. req' = [req EXCEPT ![r] = task]
    BY <1>3 DEF Start
  <2>2. UNCHANGED inv
    BY SMT, <1>3 DEF Start
  <2> QED BY <1>0, <2>1, <2>2
<1>4. CASE \E c \in Contents : UpdateDraftRead(r, i, c)
  <2> PICK c \in Contents : UpdateDraftRead(r, i, c)
    BY <1>4
  <2> DEFINE task == [pc |-> "commit_draft", i |-> i, version |-> inv[i].version, content |-> c]
  <2>1. Start(r, task) /\ inv[i].status = "draft"
    BY DEF UpdateDraftRead
  <2>2. task.pc = "commit_draft" /\ task.i = i /\ task.version = inv[i].version
    OBVIOUS
  <2> HIDE DEF task
  <2> QED BY <1>2, <1>3, <2>1, <2>2 DEF Begun
<1>5. CASE \E c \in Contents : UpdateRead(r, i, c)
  <2> PICK c \in Contents : UpdateRead(r, i, c)
    BY <1>5
  <2> DEFINE row == [inv[i] EXCEPT !.content = c, !.version = EditVersion(inv[i].version)]
             task == [pc |-> "commit_metadata", i |-> i, version |-> inv[i].version, row |-> row]
  <2>1. Start(r, task) /\ inv[i].status = "draft"
    BY DEF UpdateRead
  <2>2. inv[i] \in Rows
    BY <1>2, RowFacts
  <2>3. row.version = EditVersion(inv[i].version)
    BY <2>2 DEF Rows
  <2> HIDE DEF row
  <2>4. task.pc = "commit_metadata" /\ task.i = i /\ task.version = inv[i].version /\ task.row = row
    OBVIOUS
  <2> HIDE DEF task
  <2> QED BY <1>2, <1>3, <2>1, <2>3, <2>4 DEF Begun
<1>6. CASE SignRead(r, i) \/ DeleteRead(r, i)
  <2>1. PICK task : Start(r, task) /\ task.i = i /\ task.pc \in {"sign", "delete"}
    <3>1. CASE SignRead(r, i)
      <4> DEFINE task == [pc |-> "sign", i |-> i, row |-> [inv[i] EXCEPT !.signed = TRUE]]
      <4>1. Start(r, task) /\ task.i = i /\ task.pc = "sign"
        BY <3>1 DEF SignRead
      <4> HIDE DEF task
      <4> QED BY <4>1
    <3>2. CASE DeleteRead(r, i)
      <4> DEFINE task == [pc |-> "delete", i |-> i]
      <4>1. Start(r, task) /\ task.i = i /\ task.pc = "delete"
        BY <3>2 DEF DeleteRead
      <4> HIDE DEF task
      <4> QED BY <4>1
    <3> QED BY <1>6, <3>1, <3>2
  <2> QED BY <1>2, <1>3, <2>1 DEF Begun
<1> QED BY <1>1, <1>4, <1>5, <1>6

\* A step of a request ends it or carries it on.
LEMMA Continuing ==
  ASSUME LifecycleInv, NEW r \in Requests, Continue(r) \/ RequestStop(r)
  PROVE  /\ req'[r] = Idle \/ Carried(r)
         /\ \A q \in Requests \ {r} : req'[q] = req[q]
<1>0. req \in [Requests -> Tasks] /\ Idle.pc = "idle"
  BY DEF LifecycleInv, TypeOK, Idle
<1> DEFINE i == req[r].i
<1>1. PICK task : /\ Become(r, task)
                  /\ task = Idle \/ (/\ req[r].pc # "idle" /\ task.i = i
                                     /\ task.pc \notin {"commit_draft", "commit_metadata"})
  <2>1. CASE UpdateDraftCommit(r)
    <3>1. [pc |-> "reread", i |-> i].i = i /\ [pc |-> "reread", i |-> i].pc = "reread"
      OBVIOUS
    <3>2. req[r].pc # "idle" /\ (Become(r, Idle) \/ Become(r, [pc |-> "reread", i |-> i]))
      BY <2>1 DEF UpdateDraftCommit
    <3> QED BY <3>1, <3>2
  <2>2. CASE UpdateDraftReread(r)
    <3> DEFINE next == [pc |-> "mirror", i |-> i, row |-> inv[i]]
    <3>1. next.i = i /\ next.pc = "mirror"
      OBVIOUS
    <3>2. req[r].pc # "idle" /\ Become(r, IF Live(i) THEN next ELSE Idle)
      BY <2>2 DEF UpdateDraftReread
    <3> HIDE DEF next
    <3> QED BY <3>1, <3>2
  <2>3. CASE UpdateDraftMetadataVersioned(r) \/ SignCommit(r)
    <3> DEFINE next == [pc |-> "mirror", i |-> i, row |-> req[r].row]
    <3>1. next.i = i /\ next.pc = "mirror"
      OBVIOUS
    <3>2. req[r].pc # "idle" /\ (Become(r, Idle) \/ Become(r, next))
      BY <2>3 DEF UpdateDraftMetadataVersioned, SignCommit
    <3> HIDE DEF next
    <3> QED BY <3>1, <3>2
  <2>4. CASE DeleteCommit(r)
    <3>1. [pc |-> "delete_document", i |-> i].i = i /\ [pc |-> "delete_document", i |-> i].pc = "delete_document"
      OBVIOUS
    <3>2. req[r].pc # "idle" /\ Become(r, [pc |-> "delete_document", i |-> i])
      BY <2>4 DEF DeleteCommit
    <3> QED BY <3>1, <3>2
  <2>5. CASE MirrorLegacyInvoice(r) \/ DeleteDocument(r) \/ RequestStop(r)
    BY <2>5 DEF MirrorLegacyInvoice, DeleteDocument, RequestStop
  <2> QED BY <2>1, <2>2, <2>3, <2>4, <2>5 DEF Continue
<1>2. req'[r] = task /\ \A q \in Requests \ {r} : req'[q] = req[q]
  BY <1>0, <1>1 DEF Become
<1> QED BY <1>1, <1>2 DEF Carried

\* What a step does to each request.
LEMMA RequestCases ==
  ASSUME LifecycleInv, Next, NEW q \in Requests
  PROVE  req'[q] = req[q] \/ req'[q] = Idle \/ Carried(q) \/ Begun(q)
<1>1. CASE \E k \in Keys : Create(k) \/ Issue(k)
  <2>1. UNCHANGED req
    BY <1>1, KeyedStepsLeaveRequests
  <2> QED BY <2>1
<1>2. CASE \E r \in Requests : Begin(r) \/ Continue(r) \/ RequestStop(r)
  BY <1>2, Beginning, Continuing
<1> QED BY <1>1, <1>2 DEF Next

\* The facts about requests under way are kept, for every step of every request.
LEMMA PendingKept ==
  ASSUME LifecycleInv, Next, NEW r \in Requests
  PROVE  Pending(r)'
<1>0. Pending(r) /\ (req[r].pc # "idle" => req[r].i \in Invoices)
      /\ (EditPending(r) => req[r].version \in Nat) /\ Idle.pc = "idle"
  BY TaskFacts DEF EditPending, Idle
<1>1. CASE req'[r] = req[r]
  <2>1. CASE req[r].pc = "idle"
    BY <1>1, <2>1 DEF Pending, EditPending
  <2>2. CASE req[r].pc # "idle"
    <3> DEFINE i == req[r].i
               v == inv[i].version
               w == inv'[i].version
    <3>1. i \in Invoices /\ inv[i].status # "absent"
      BY <1>0, <2>2 DEF Pending
    <3>2. /\ inv'[i].status # "absent" /\ v \in Nat /\ w \in Nat /\ w >= v
          /\ inv[i].status = "issued" => inv'[i].status = "issued"
          /\ inv'[i].status = "issued" /\ inv[i].status # "issued" => w > v
      BY <3>1, RowsGrow
    <3>3. ASSUME EditPending(r)
          PROVE  req[r].version <= w /\ (inv'[i].status = "issued" => req[r].version < w)
      <4>1. /\ req[r].version \in Nat /\ req[r].version <= v
            /\ inv[i].status = "issued" => req[r].version < v
        BY <1>0, <3>3 DEF Pending
      <4> HIDE DEF v, w, i
      <4> QED BY SMT, <3>2, <4>1
    <3> QED BY <1>0, <1>1, <3>2, <3>3 DEF Pending, EditPending
  <2> QED BY <2>1, <2>2
<1>2. CASE req'[r] = Idle
  BY <1>0, <1>2 DEF Pending, EditPending
<1>3. CASE Carried(r)
  <2>1. req[r].i \in Invoices /\ inv[req[r].i].status # "absent"
    BY <1>0, <1>3 DEF Carried, Pending
  <2>2. inv'[req[r].i].status # "absent"
    BY <2>1, RowsGrow
  <2> QED BY <1>3, <2>2 DEF Carried, Pending, EditPending
<1>4. CASE Begun(r)
  <2>1. inv[req'[r].i].version \in Nat
    BY <1>4, RowFacts DEF Begun
  <2>2. inv[req'[r].i].version <= inv[req'[r].i].version
    BY SMT, <2>1
  <2> QED BY <1>4, <2>2 DEF Begun, Pending, EditPending
<1> QED BY <1>1, <1>2, <1>3, <1>4, RequestCases

-----------------------------------------------------------------------------
(* Numbers, renders and answers.                                           *)

\* Only issuing gives a number.
LEMMA NumbersStay ==
  ASSUME LifecycleInv, NoIssue, NEW i \in Invoices
  PROVE  inv'[i].number = inv[i].number
<1>1. inv[i].status = "absent" => inv[i].number = NoNumber
  BY DEF LifecycleInv, DraftsUnnumbered
<1> QED BY <1>1 DEF NoIssue, Created, Edited, Marked

\* Drafts stay without a number.
LEMMA DraftsUnnumberedKept ==
  ASSUME LifecycleInv, Next
  PROVE  DraftsUnnumbered'
<1> SUFFICES ASSUME NEW i \in Invoices, inv'[i].status # "issued"
             PROVE  inv'[i].number = NoNumber
  BY DEF DraftsUnnumbered
<1>1. inv[i].status # "issued" => inv[i].number = NoNumber
  BY DEF LifecycleInv, DraftsUnnumbered
<1>2. CASE NoIssue
  BY <1>1, <1>2 DEF NoIssue, Created, Edited, Marked
<1>3. CASE \E j \in Invoices, s \in Scopes : IssueOf(j, s)
  BY <1>1, <1>3 DEF IssueOf
<1> QED BY <1>2, <1>3, StepCases

\* The sequence of a scope and the numbers of its invoices advance together.
LEMMA GaplessKept ==
  ASSUME LifecycleInv, Next, NEW t \in Scopes
  PROVE  Gapless(t)'
<1>0. Gapless(t) /\ seq \in [Scopes -> 0 .. MaxNumber]
  BY DEF LifecycleInv, TypeOK
<1>1. ASSUME IssuedOf(t)' = IssuedOf(t), \A j \in IssuedOf(t) : inv'[j].number = inv[j].number,
             seq'[t] = seq[t]
      PROVE  Gapless(t)'
  <2>1. {inv'[j].number[2] : j \in IssuedOf(t)} = {inv[j].number[2] : j \in IssuedOf(t)}
    BY <1>1
  <2> QED BY <1>0, <1>1, <2>1 DEF Gapless
<1>2. CASE NoIssue
  <2>1. \A j \in Invoices : inv'[j].number = inv[j].number
    BY <1>2, NumbersStay
  <2>2. IssuedOf(t)' = IssuedOf(t)
    BY <2>1 DEF IssuedOf
  <2>3. seq'[t] = seq[t]
    BY SMT, <1>2 DEF NoIssue
  <2> QED BY <1>1, <2>1, <2>2, <2>3 DEF IssuedOf
<1>3. ASSUME NEW i \in Invoices, NEW s \in Scopes, IssueOf(i, s)
      PROVE  Gapless(t)'
  <2> DEFINE n == seq[s] + 1
  <2>1. /\ inv[i].number = NoNumber /\ inv'[i].number = <<s, n>>
        /\ \A j \in Invoices \ {i} : inv'[j] = inv[j]
        /\ n \in 1 .. MaxNumber /\ seq' = [seq EXCEPT ![s] = n]
    BY <1>3 DEF IssueOf, LifecycleInv, DraftsUnnumbered
  <2> HIDE DEF n
  <2>2. <<s, n>> # NoNumber /\ <<s, n>>[1] = s /\ <<s, n>>[2] = n
    BY SMT DEF NoNumber
  <2>3. CASE t # s
    <3>1. IssuedOf(t)' = IssuedOf(t)
      BY ZenonT(60), <2>1, <2>2, <2>3 DEF IssuedOf
    <3>2. \A j \in IssuedOf(t) : inv'[j].number = inv[j].number
      BY <2>1 DEF IssuedOf
    <3>3. seq'[t] = seq[t]
      BY <1>0, <2>1, <2>3
    <3> QED BY <1>1, <3>1, <3>2, <3>3
  <2>4. CASE t = s
    <3>1. IssuedOf(t)' = IssuedOf(t) \cup {i} /\ i \notin IssuedOf(t)
      BY <2>1, <2>2, <2>4 DEF IssuedOf
    <3>2. seq'[t] = n /\ n = seq[t] + 1 /\ seq[t] \in Nat
      <4>1. seq[t] \in Nat
        BY SMT, <1>0
      <4> QED BY <1>0, <2>1, <2>4, <4>1 DEF n
    <3>3. {inv'[j].number[2] : j \in IssuedOf(t)'} = {inv[j].number[2] : j \in IssuedOf(t)} \cup {n}
      <4>1. \A j \in IssuedOf(t) : inv'[j].number[2] = inv[j].number[2]
        BY <2>1, <3>1 DEF IssuedOf
      <4>2. inv'[i].number[2] = n
        BY <2>1, <2>2
      <4> QED BY SMT, <3>1, <4>1, <4>2
    <3>4. {inv'[j].number[2] : j \in IssuedOf(t)'} = 1 .. n
      <4>1. (1 .. seq[t]) \cup {n} = 1 .. n
        BY SMT, <3>2
      <4> QED BY <1>0, <3>3, <4>1 DEF Gapless
    <3>5. IsFiniteSet(IssuedOf(t)') /\ Cardinality(IssuedOf(t)') = n
      <4>1. IsFiniteSet(IssuedOf(t)) /\ Cardinality(IssuedOf(t)) = seq[t]
        BY <1>0 DEF Gapless
      <4>2. /\ IsFiniteSet(IssuedOf(t) \cup {i})
            /\ Cardinality(IssuedOf(t) \cup {i}) = Cardinality(IssuedOf(t)) + 1
        BY <3>1, <4>1, FS_AddElement
      <4> QED BY <3>1, <3>2, <4>1, <4>2
    <3> QED BY <3>2, <3>4, <3>5 DEF Gapless
  <2> QED BY <2>3, <2>4
<1> QED BY <1>2, <1>3, StepCases

\* No step changes the version or the content of an issued invoice, and
\* issuing stores the render of what it validated.
LEMMA FinalKept ==
  ASSUME LifecycleInv, Next
  PROVE  FinalRenderIsOfIssuedVersion'
<1> DEFINE Rendered(i) == [version |-> inv[i].version, projection |-> inv[i].content]
<1>0. \A i \in Invoices : /\ inv[i].status = "issued" => final[i] = Rendered(i)
                          /\ inv[i].status # "issued" => final[i] = NoFinal
  BY DEF LifecycleInv, FinalRenderIsOfIssuedVersion, Build
<1> SUFFICES ASSUME NEW i \in Invoices
             PROVE  /\ inv'[i].status = "issued"
                         => final'[i] = [version |-> inv'[i].version, projection |-> inv'[i].content]
                    /\ inv'[i].status # "issued" => final'[i] = NoFinal
  BY DEF FinalRenderIsOfIssuedVersion, Build
<1>1. final \in [Invoices -> [version : Nat, projection : Projections] \cup {NoFinal}]
  BY DEF LifecycleInv, TypeOK
<1>2. CASE NoIssue
  <2>1. final'[i] = final[i]
    BY SMT, <1>2 DEF NoIssue
  <2> QED BY <1>0, <1>2, <2>1 DEF NoIssue, Created, Edited, Marked
<1>3. ASSUME NEW j \in Invoices, NEW s \in Scopes, IssueOf(j, s)
      PROVE  /\ inv'[i].status = "issued"
                  => final'[i] = [version |-> inv'[i].version, projection |-> inv'[i].content]
             /\ inv'[i].status # "issued" => final'[i] = NoFinal
  <2>1. CASE i = j
    BY <1>1, <1>3, <2>1 DEF IssueOf
  <2>2. CASE i # j
    BY <1>0, <1>1, <1>3, <2>2 DEF IssueOf
  <2> QED BY <2>1, <2>2
<1> QED BY <1>2, <1>3, StepCases

\* A key is claimed once, and from then on every answer under it is the first.
LEMMA AnswersKept ==
  ASSUME LifecycleInv, Next
  PROVE  /\ DOMAIN idem' = Commands \X Keys /\ DOMAIN answers' = Commands \X Keys
         /\ \A ck \in Commands \X Keys : Answer(ck)'
<1> DEFINE Kept == /\ DOMAIN idem' = Commands \X Keys /\ DOMAIN answers' = Commands \X Keys
                   /\ \A ck \in Commands \X Keys : Answer(ck)'
<1>0. /\ DOMAIN idem = Commands \X Keys /\ DOMAIN answers = Commands \X Keys
      /\ \A ck \in Commands \X Keys : Answer(ck)
  BY DEF LifecycleInv, TypeOK
<1>1. ASSUME UNCHANGED <<idem, answers>>
      PROVE  Kept
  <2>1. idem' = idem /\ answers' = answers
    BY SMT, <1>1
  <2> QED BY ZenonT(60), <1>0, <2>1 DEF Answer
<1>2. ASSUME NEW cmd \in Commands, NEW k \in Keys, NEW body, NEW result, Claim(cmd, k, body, result)
      PROVE  Kept
  <2> DEFINE x == <<cmd, k>>
             y == <<body, result>>
  <2>1. /\ x \in Commands \X Keys /\ idem[x] = NoClaim /\ idem' = [idem EXCEPT ![x] = y]
        /\ answers' = [answers EXCEPT ![x] = answers[x] \cup {y}]
    BY <1>2 DEF Claim, Hash
  <2>2. y # NoClaim
    BY SMT DEF NoClaim
  <2>3. \A b, z : <<b, z>> # NoClaim
    BY SMT DEF NoClaim
  <2> HIDE DEF x
  <2>4. answers[x] = {}
    <3>1. Answer(x)
      BY <1>0, <2>1
    <3>2. ~ \E b, z : idem[x] = <<b, z>> /\ answers[x] = {<<b, z>>}
      BY <2>1, <2>3
    <3> QED BY <3>1, <3>2 DEF Answer
  <2>5. idem'[x] = y /\ answers'[x] = {y}
    BY <1>0, <2>1, <2>4
  <2>6. \A ck \in Commands \X Keys : ck # x => idem'[ck] = idem[ck] /\ answers'[ck] = answers[ck]
    BY <1>0, <2>1
  <2>7. DOMAIN idem' = Commands \X Keys /\ DOMAIN answers' = Commands \X Keys
    BY <1>0, <2>1
  <2>8. Answer(x)'
    BY <2>5 DEF Answer
  <2>9. ASSUME NEW ck \in Commands \X Keys, ck # x
        PROVE  Answer(ck)'
    <3>1. Answer(ck) /\ idem'[ck] = idem[ck] /\ answers'[ck] = answers[ck]
      BY <1>0, <2>6, <2>9
    <3> QED BY <3>1 DEF Answer
  <2> QED BY <2>7, <2>8, <2>9
<1>3. ASSUME NEW cmd \in Commands, NEW k \in Keys, NEW body, Replay(cmd, k, body)
      PROVE  Kept
  <2> DEFINE x == <<cmd, k>>
  <2>1. /\ x \in Commands \X Keys /\ idem[x] # NoClaim /\ idem[x][1] = body
        /\ answers' = [answers EXCEPT ![x] = answers[x] \cup {<<body, idem[x][2]>>}]
    BY <1>3 DEF Replay, Hash
  <2>2. idem' = idem
    BY SMT, <1>3 DEF Replay
  <2> HIDE DEF x
  <2>3. PICK b, z : idem[x] = <<b, z>> /\ answers[x] = {<<b, z>>}
    BY <1>0, <2>1 DEF Answer
  <2>4. body = b /\ idem[x][2] = z
    BY SMT, <2>1, <2>3
  <2>5. answers[x] \cup {<<body, idem[x][2]>>} = answers[x]
    BY <2>3, <2>4
  <2>6. \A ck \in Commands \X Keys : answers'[ck] = answers[ck]
    BY <1>0, <2>1, <2>5
  <2>7. DOMAIN answers' = Commands \X Keys
    BY <1>0, <2>1
  <2>8. ASSUME NEW ck \in Commands \X Keys
        PROVE  Answer(ck)'
    <3>1. Answer(ck) /\ idem'[ck] = idem[ck] /\ answers'[ck] = answers[ck]
      BY <1>0, <2>2, <2>6
    <3> QED BY <3>1 DEF Answer
  <2> QED BY <1>0, <2>2, <2>7, <2>8
<1> HIDE DEF Kept
<1>4. ASSUME NEW k \in Keys, Create(k)
      PROVE  Kept
  <2>1. "create" \in Commands
    BY DEF Commands
  <2> QED BY <1>2, <1>3, <1>4, <2>1 DEF Create, CreateDraftAtomic
<1>5. ASSUME NEW k \in Keys, Issue(k)
      PROVE  Kept
  <2>1. "issue" \in Commands
    BY DEF Commands
  <2>2. PICK i \in Invoices, v \in 1 .. MaxVersion, s \in Scopes :
           IssueDraftAtomic(k, i, v, s) \/ Replay("issue", k, <<i, v, s>>)
    BY <1>5 DEF Issue
  <2>3. IssueDraftAtomic(k, i, v, s) => Claim("issue", k, <<i, v, s>>, i)
    BY DEF IssueDraftAtomic
  <2> QED BY <1>2, <1>3, <2>1, <2>2, <2>3
<1>6. ASSUME NEW r \in Requests, Begin(r)
      PROVE  UNCHANGED <<idem, answers>>
  <2>1. \E task : Start(r, task)
    BY ZenonT(60), <1>6 DEF Begin, UpdateDraftRead, UpdateRead, SignRead, DeleteRead
  <2> QED BY SMT, <2>1 DEF Start
<1>7. ASSUME NEW r \in Requests, Continue(r) \/ RequestStop(r)
      PROVE  UNCHANGED <<idem, answers>>
  BY SMT, <1>7 DEF Continue, UpdateDraftCommit, UpdateDraftReread, UpdateDraftMetadataVersioned,
     SignCommit, DeleteCommit, MirrorLegacyInvoice, DeleteDocument, RequestStop
<1>8. Kept
  BY <1>1, <1>4, <1>5, <1>6, <1>7 DEF Next
<1> QED BY <1>8 DEF Kept

-----------------------------------------------------------------------------
(* The theorems.                                                           *)

\* The empty tables satisfy the invariant.
LEMMA InitEstablishes == Init => LifecycleInv
<1> SUFFICES ASSUME Init PROVE LifecycleInv
  OBVIOUS
<1>1. /\ \A i \in Invoices : inv[i] = NoInvoice /\ final[i] = NoFinal
      /\ \A r \in Requests : req[r] = Idle
      /\ \A s \in Scopes : seq[s] = 0
      /\ \A ck \in Commands \X Keys : idem[ck] = NoClaim /\ answers[ck] = {}
  BY DEF Init
<1>2. NoInvoice.status = "absent" /\ NoInvoice.number = NoNumber /\ Idle.pc = "idle"
  BY DEF NoInvoice, Idle
<1>3. TypeOK
  <2>1. 0 \in 0 .. MaxNumber
    BY SMT, LifecycleConstants
  <2>2. Idle \in Tasks
    BY DEF Tasks
  <2>3. seq \in [Scopes -> 0 .. MaxNumber] /\ req \in [Requests -> Tasks]
    BY <2>1, <2>2 DEF Init
  <2>4. /\ inv \in [Invoices -> Rows \cup {NoInvoice}]
        /\ doc \in [Invoices -> DocRows \cup {NoDocument}]
        /\ final \in [Invoices -> [version : Nat, projection : Projections] \cup {NoFinal}]
    BY DEF Init
  <2>5. DOMAIN idem = Commands \X Keys /\ DOMAIN answers = Commands \X Keys
    BY DEF Init
  <2> QED BY <2>3, <2>4, <2>5 DEF TypeOK, DocRows
<1>4. DraftsUnnumbered
  BY <1>1, <1>2 DEF DraftsUnnumbered
<1>5. ASSUME NEW r \in Requests
      PROVE  Pending(r)
  BY <1>1, <1>2 DEF Pending, EditPending
<1>6. ASSUME NEW s \in Scopes
      PROVE  Gapless(s)
  <2>1. IssuedOf(s) = {}
    BY <1>1, <1>2 DEF IssuedOf
  <2>2. 1 .. 0 = {}
    BY SMT
  <2> QED BY <1>1, <2>1, <2>2, FS_EmptySet DEF Gapless
<1>7. FinalRenderIsOfIssuedVersion
  BY <1>1, <1>2 DEF FinalRenderIsOfIssuedVersion
<1>8. \A ck \in Commands \X Keys : Answer(ck)
  BY <1>1 DEF Answer
<1> QED BY <1>3, <1>4, <1>5, <1>6, <1>7, <1>8 DEF LifecycleInv

\* Every step keeps the invariant.
LEMMA InvInductive == LifecycleInv /\ [Next]_vars => LifecycleInv'
<1>1. LifecycleInv /\ UNCHANGED vars => LifecycleInv'
  <2> SUFFICES ASSUME LifecycleInv, UNCHANGED vars PROVE LifecycleInv'
    OBVIOUS
  <2>1. /\ inv' = inv /\ doc' = doc /\ seq' = seq /\ final' = final /\ idem' = idem
        /\ answers' = answers /\ req' = req
    BY SMT DEF vars
  <2>2. TypeOK' /\ DraftsUnnumbered' /\ FinalRenderIsOfIssuedVersion'
    BY <2>1 DEF LifecycleInv, TypeOK, DraftsUnnumbered, FinalRenderIsOfIssuedVersion
  <2>3. \A r \in Requests : Pending(r)'
    BY <2>1 DEF LifecycleInv, Pending, EditPending
  <2>4. \A s \in Scopes : Gapless(s)'
    BY <2>1 DEF LifecycleInv, Gapless, IssuedOf
  <2>5. \A ck \in Commands \X Keys : Answer(ck)'
    BY ZenonT(60), <2>1 DEF LifecycleInv, Answer
  <2> QED BY <2>2, <2>3, <2>4, <2>5 DEF LifecycleInv
<1>2. LifecycleInv /\ Next => LifecycleInv'
  <2> SUFFICES ASSUME LifecycleInv, Next PROVE LifecycleInv'
    OBVIOUS
  <2>1. TypeOK'
    BY RequestsKeepTypes, TablesKeepTypes, DocumentsKeepTypes, AnswersKept DEF TypeOK, DocRows
  <2>2. DraftsUnnumbered' /\ FinalRenderIsOfIssuedVersion'
    BY DraftsUnnumberedKept, FinalKept
  <2>3. (\A r \in Requests : Pending(r))' /\ (\A s \in Scopes : Gapless(s))'
    BY PendingKept, GaplessKept
  <2>4. (\A ck \in Commands \X Keys : Answer(ck))'
    BY AnswersKept
  <2> QED BY <2>1, <2>2, <2>3, <2>4 DEF LifecycleInv
<1> QED BY <1>1, <1>2

\* The invariant holds throughout.
LEMMA InvHolds == Spec => []LifecycleInv
BY InitEstablishes, InvInductive, PTL DEF Spec

\* The tables, the sequences, the keys and the requests keep their types.
THEOREM LifecycleTypes == Spec => []TypeOK
<1>1. LifecycleInv => TypeOK
  BY DEF LifecycleInv
<1> QED BY InvHolds, <1>1, PTL

\* The invoices issued in a scope carry the numbers 1, 2, ... up to the last
\* one of its sequence, each once, however many callers issue at the same time
\* and whatever is edited, signed or deleted meanwhile (IssueDraftAtomic).
THEOREM InvoiceNumbersHaveNoGap == Spec => []NumbersGapless
<1>1. LifecycleInv => NumbersGapless
  BY DEF LifecycleInv, Gapless, IssuedOf, NumbersGapless
<1> QED BY InvHolds, <1>1, PTL

\* The snapshot of the final render is the issued invoice itself, and no edit
\* that was under way can still change that invoice (UpdateDraftByBusiness,
\* UpdateDraftMetadataVersioned).
THEOREM IssuedInvoiceIsWhatIsRendered == Spec => []FinalRenderIsOfIssuedVersion
<1>1. LifecycleInv => FinalRenderIsOfIssuedVersion
  BY DEF LifecycleInv
<1> QED BY InvHolds, <1>1, PTL

\* However often a create or an issue is repeated under a key, it has one
\* result (claimInvoiceIssueIdempotency).
THEOREM KeysHaveOneAnswer == Spec => []OneAnswerPerKey
<1>1. LifecycleInv => OneAnswerPerKey
  <2> SUFFICES ASSUME LifecycleInv, NEW ck \in Commands \X Keys
               PROVE  Cardinality(answers[ck]) <= 1
    BY DEF OneAnswerPerKey
  <2>1. Answer(ck)
    BY DEF LifecycleInv
  <2>2. answers[ck] = {} \/ \E y : answers[ck] = {y}
    BY <2>1 DEF Answer
  <2>3. Cardinality(answers[ck]) \in {0, 1}
    BY <2>2, FS_EmptySet, FS_Singleton
  <2> QED BY SMT, <2>3
<1> QED BY InvHolds, <1>1, PTL

\* An issued invoice is settled: it keeps its number, its version and its
\* content and stays issued, in every step of every request.  The one thing
\* that can still happen to it is a late signature or a late delete, the race
\* that OnlyDraftsDeleted shows.
IssuedInvoiceStands ==
  \A i \in Invoices : inv[i].status = "issued" =>
      /\ inv'[i].status = "issued" /\ inv'[i].number = inv[i].number
      /\ inv'[i].version = inv[i].version /\ inv'[i].content = inv[i].content

\* No step renumbers, edits or reopens an issued invoice.
THEOREM IssuedInvoicesStand == Spec => [][IssuedInvoiceStands]_vars
<1>1. LifecycleInv /\ Next => IssuedInvoiceStands
  <2> SUFFICES ASSUME LifecycleInv, Next, NEW i \in Invoices, inv[i].status = "issued"
               PROVE  /\ inv'[i].status = "issued" /\ inv'[i].number = inv[i].number
                      /\ inv'[i].version = inv[i].version /\ inv'[i].content = inv[i].content
    BY DEF IssuedInvoiceStands
  <2>1. CASE NoIssue
    BY <2>1 DEF NoIssue, Created, Edited, Marked
  <2>2. CASE \E j \in Invoices, s \in Scopes : IssueOf(j, s)
    BY <2>2 DEF IssueOf
  <2> QED BY <2>1, <2>2, StepCases
<1>2. LifecycleInv /\ [Next]_vars => [IssuedInvoiceStands]_vars
  BY <1>1
<1> QED BY InvHolds, <1>2, PTL DEF Spec

-----------------------------------------------------------------------------
(* The settlement of an issued invoice.                                    *)

\* A row some editor holds will be saved as it is, so it has to be coherent
\* from the moment it is read.
EditsCoherent == \A r \in Editors : edit[r] # NoRow => Coherent(edit[r])

CoherentInv == SettlementTypeOK /\ SettlementCoherent /\ EditsCoherent

\* An issued invoice with nothing paid is coherent.
LEMMA InitCoherent == SettlementInit => CoherentInv
BY SMT, SettlementConstants
   DEF SettlementInit, CoherentInv, SettlementTypeOK, SettlementCoherent, EditsCoherent,
       Coherent, SettledRows, Statuses, NoRow

\* Settle writes a coherent row to the invoice and to the projections to come.
LEMMA SettleCoherent ==
    ASSUME CoherentInv,
           NEW p \in 0 .. Total, NEW b \in 0 .. Total, NEW s \in Statuses,
           Coherent(<<p, b, s>>), Settle(p, b, s)
    PROVE  /\ <<paid, balance, status>>' \in SettledRows
           /\ syncs' \subseteq SettledRows
           /\ SettlementCoherent'
<1>1. <<p, b, s>> \in SettledRows
  BY DEF SettledRows
<1>2. syncs \subseteq SettledRows
  BY DEF CoherentInv, SettlementTypeOK
<1> QED
  BY <1>1, <1>2 DEF Settle, SettlementCoherent, Coherent

\* A payment within the balance keeps the row coherent.
LEMMA CreateCoherent ==
    ASSUME CoherentInv,
           NEW k \in PaymentKeys, NEW p \in Payments, NEW a \in 1 .. Total, CreatePayment(k, p, a)
    PROVE  CoherentInv'
<1> DEFINE s == IF balance = a THEN "paid" ELSE "partially_paid"
<1>1. /\ paid \in 0 .. Total /\ balance \in 0 .. Total /\ paid + balance = Total
      /\ Total \in Nat \ {0}
  BY SettlementConstants DEF CoherentInv, SettlementTypeOK, SettledRows, SettlementCoherent, Coherent
<1>2. a <= balance /\ Settle(paid + a, balance - a, s)
  BY DEF CreatePayment, WithinBalance
<1>3. paid + a \in 0 .. Total /\ balance - a \in 0 .. Total /\ s \in Statuses
  BY SMT, <1>1, <1>2 DEF Statuses
<1>4. Coherent(<<paid + a, balance - a, s>>)
  BY SMT, <1>1, <1>2 DEF Coherent
<1> HIDE DEF s
<1>5. <<paid, balance, status>>' \in SettledRows /\ syncs' \subseteq SettledRows /\ SettlementCoherent'
  BY <1>2, <1>3, <1>4, SettleCoherent
<1>6. EditsCoherent'
  BY DEF CoherentInv, EditsCoherent, CreatePayment, Coherent
<1>7. /\ amount' \in [Payments -> 0 .. Total]
      /\ posted' \in [Payments -> {"none", "posted", "reversed"}]
      /\ journal' \in [Payments -> SUBSET {"posted", "reversed", "reversal"}]
  BY SMT, <1>1 DEF CoherentInv, SettlementTypeOK, CreatePayment
<1>8. /\ DOMAIN claims' = PaymentKeys /\ DOMAIN receipts' = PaymentKeys
      /\ projected' \in SettledRows /\ edit' \in [Editors -> SettledRows \cup {NoRow}]
  BY DEF CoherentInv, SettlementTypeOK, CreatePayment
<1> QED
  BY <1>5, <1>6, <1>7, <1>8 DEF CoherentInv, SettlementTypeOK

\* The statuses a reversal may leave, by what is still paid.
LEMMA ReversedStatusCases ==
    ASSUME NEW x, NEW y, NEW s \in ReversedStatus(x, y)
    PROVE  \/ y = 0 /\ s = "paid"
           \/ y # 0 /\ x = 0 /\ (s = "overdue" \/ s = "sent")
           \/ y # 0 /\ x # 0 /\ s = "partially_paid"
BY DEF ReversedStatus

\* A reversal keeps the row coherent.
LEMMA ReverseCoherent ==
    ASSUME CoherentInv, NEW p \in Payments, Reverse(p)
    PROVE  CoherentInv'
<1> DEFINE a == amount[p]
<1>1. /\ paid \in 0 .. Total /\ balance \in 0 .. Total /\ paid + balance = Total
      /\ Total \in Nat \ {0} /\ a \in 0 .. Total
  BY SettlementConstants DEF CoherentInv, SettlementTypeOK, SettledRows, SettlementCoherent, Coherent
<1>2. PICK s \in ReversedStatus(paid - a, balance + a) : Settle(paid - a, balance + a, s)
  BY DEF Reverse
<1>3. a <= paid /\ paid - a \in Nat /\ balance + a \in Nat
  BY SMT, <1>1 DEF Reverse
<1>10. \/ balance + a = 0 /\ s = "paid"
       \/ balance + a # 0 /\ paid - a = 0 /\ (s = "overdue" \/ s = "sent")
       \/ balance + a # 0 /\ paid - a # 0 /\ s = "partially_paid"
  <2> HIDE DEF a
  <2> DEFINE x == paid - a
             y == balance + a
  <2>1. s \in ReversedStatus(x, y)
    BY <1>2
  <2> HIDE DEF x, y
  <2>2. \/ y = 0 /\ s = "paid"
        \/ y # 0 /\ x = 0 /\ (s = "overdue" \/ s = "sent")
        \/ y # 0 /\ x # 0 /\ s = "partially_paid"
    BY <2>1, ReversedStatusCases
  <2> QED
    BY <2>2 DEF x, y
<1>4. paid - a \in 0 .. Total /\ balance + a \in 0 .. Total /\ s \in Statuses
  BY SMT, <1>1, <1>3, <1>10 DEF Statuses
<1>5. Coherent(<<paid - a, balance + a, s>>)
  BY SMT, <1>1, <1>3, <1>10 DEF Coherent
<1>6. <<paid, balance, status>>' \in SettledRows /\ syncs' \subseteq SettledRows /\ SettlementCoherent'
  BY <1>2, <1>4, <1>5, SettleCoherent
<1>7. EditsCoherent'
  BY DEF CoherentInv, EditsCoherent, Reverse, Coherent
<1>8. /\ amount' \in [Payments -> 0 .. Total]
      /\ posted' \in [Payments -> {"none", "posted", "reversed"}]
      /\ journal' \in [Payments -> SUBSET {"posted", "reversed", "reversal"}]
  BY DEF CoherentInv, SettlementTypeOK, Reverse, AfterReversal
<1>9. /\ DOMAIN claims' = PaymentKeys /\ DOMAIN receipts' = PaymentKeys
      /\ projected' \in SettledRows /\ edit' \in [Editors -> SettledRows \cup {NoRow}]
  BY DEF CoherentInv, SettlementTypeOK, Reverse
<1> QED
  BY <1>6, <1>7, <1>8, <1>9 DEF CoherentInv, SettlementTypeOK

\* Saving a row that was coherent when read leaves a coherent row.
LEMMA MetadataSaveCoherent ==
    ASSUME CoherentInv, NEW r \in Editors, MetadataSave(r)
    PROVE  CoherentInv'
<1>1. edit[r] \in SettledRows /\ Coherent(edit[r])
  BY DEF CoherentInv, SettlementTypeOK, EditsCoherent, MetadataSave
<1>2. PICK p \in 0 .. Total, b \in 0 .. Total, s \in Statuses : edit[r] = <<p, b, s>>
  BY SMT, <1>1 DEF SettledRows
<1>3. Settle(p, b, s)
  BY SMT, <1>2 DEF MetadataSave
<1>4. <<paid, balance, status>>' \in SettledRows /\ syncs' \subseteq SettledRows /\ SettlementCoherent'
  BY <1>1, <1>2, <1>3, SettleCoherent
<1>5. /\ edit' \in [Editors -> SettledRows \cup {NoRow}]
      /\ EditsCoherent'
  BY DEF CoherentInv, SettlementTypeOK, EditsCoherent, MetadataSave, Coherent
<1>6. UNCHANGED <<paymentVars, claims, receipts, projected>>
  BY DEF MetadataSave
<1> QED
  BY <1>4, <1>5, <1>6 DEF CoherentInv, SettlementTypeOK, paymentVars

\* Every step keeps the invoice and every row in flight coherent.
LEMMA NextCoherent ==
    CoherentInv /\ [SettlementNext]_settlementVars => CoherentInv'
<1> SUFFICES ASSUME CoherentInv, [SettlementNext]_settlementVars PROVE CoherentInv'
  OBVIOUS
<1>1. ASSUME NEW k \in PaymentKeys, NEW p \in Payments, NEW a \in 1 .. Total, CreatePayment(k, p, a)
      PROVE  CoherentInv'
  BY <1>1, CreateCoherent
<1>2. ASSUME NEW k \in PaymentKeys, NEW a \in 1 .. Total, ReplayPayment(k, a)
      PROVE  CoherentInv'
  BY <1>2 DEF CoherentInv, SettlementTypeOK, SettlementCoherent, EditsCoherent, Coherent,
             ReplayPayment, invoiceVars, paymentVars
<1>3. ASSUME NEW p \in Payments, Reverse(p) PROVE CoherentInv'
  BY <1>3, ReverseCoherent
<1>4. ASSUME NEW row \in syncs, SyncLegacyInvoicePayment(row) PROVE CoherentInv'
  BY <1>4 DEF CoherentInv, SettlementTypeOK, SettlementCoherent, EditsCoherent, Coherent,
             SyncLegacyInvoicePayment, invoiceVars, paymentVars
<1>5. ASSUME NEW r \in Editors, MetadataRead(r) PROVE CoherentInv'
  BY <1>5 DEF CoherentInv, SettlementTypeOK, SettlementCoherent, EditsCoherent, Coherent,
             MetadataRead, invoiceVars, paymentVars
<1>6. ASSUME NEW r \in Editors, MetadataSave(r) PROVE CoherentInv'
  BY <1>6, MetadataSaveCoherent
<1>7. ASSUME NEW r \in Editors, MetadataStop(r) PROVE CoherentInv'
  BY <1>7 DEF CoherentInv, SettlementTypeOK, SettlementCoherent, EditsCoherent, Coherent,
             MetadataStop, invoiceVars, paymentVars
<1>8. CASE UNCHANGED settlementVars
  BY <1>8 DEF CoherentInv, SettlementTypeOK, SettlementCoherent, EditsCoherent, Coherent,
             settlementVars, invoiceVars, paymentVars
<1> QED
  BY <1>1, <1>2, <1>3, <1>4, <1>5, <1>6, <1>7, <1>8 DEF SettlementNext

\* The variables of the settlement keep their types.
THEOREM SettlementTypes == SettlementSpec => []SettlementTypeOK
<1>1. CoherentInv => SettlementTypeOK
  BY DEF CoherentInv
<1> QED
  BY <1>1, InitCoherent, NextCoherent, PTL DEF SettlementSpec

\* Paid amount, balance and status of the invoice agree at all times, although
\* UpdateByBusiness saves rows that payments have overtaken.
THEOREM SettlementStaysCoherent ==
    SettlementSpec => []SettlementCoherent
<1>1. CoherentInv => SettlementCoherent
  BY DEF CoherentInv
<1> QED
  BY <1>1, InitCoherent, NextCoherent, PTL DEF SettlementSpec

-----------------------------------------------------------------------------
(* One payment per key. *)

\* A completed key holds the request and its payment, and nothing else was
\* ever answered under it.
KeyInv ==
    \A k \in PaymentKeys :
        \/ claims[k] = Unclaimed /\ receipts[k] = {}
        \/ \E p \in Payments :
              /\ claims[k] = <<amount[p], p>>
              /\ receipts[k] = {claims[k]}
              /\ posted[p] # "none"

\* What KeyInv's steps need to know of the types; it needs nothing of amounts.
KeyTypes ==
    /\ DOMAIN claims = PaymentKeys /\ DOMAIN receipts = PaymentKeys
    /\ claims = [k \in PaymentKeys |-> claims[k]]
    /\ receipts = [k \in PaymentKeys |-> receipts[k]]
    /\ amount = [p \in Payments |-> amount[p]]
    /\ posted = [p \in Payments |-> posted[p]]

OneInv == KeyTypes /\ KeyInv

\* No key has an answer at first.
LEMMA InitOne == SettlementInit => OneInv
BY DEF SettlementInit, OneInv, KeyTypes, KeyInv

\* A first request under a key gives it its one answer.
LEMMA CreateOne ==
    ASSUME OneInv,
           NEW k \in PaymentKeys, NEW p \in Payments, NEW a \in 1 .. Total, CreatePayment(k, p, a)
    PROVE  OneInv'
<1>1. KeyTypes'
  BY DEF OneInv, KeyTypes, CreatePayment
<1>2. claims'[k] = <<amount'[p], p>> /\ receipts'[k] = {claims'[k]} /\ posted'[p] # "none"
  <2>1. receipts[k] = {}
    BY SMTT(60) DEF OneInv, KeyInv, CreatePayment, Unclaimed
  <2> QED
    BY <2>1 DEF OneInv, KeyTypes, CreatePayment
<1>3. ASSUME NEW j \in PaymentKeys, j # k
      PROVE  \/ claims'[j] = Unclaimed /\ receipts'[j] = {}
             \/ \E q \in Payments : /\ claims'[j] = <<amount'[q], q>>
                                    /\ receipts'[j] = {claims'[j]}
                                    /\ posted'[q] # "none"
  <2>1. claims'[j] = claims[j] /\ receipts'[j] = receipts[j]
    BY <1>3 DEF OneInv, KeyTypes, CreatePayment
  <2>2. CASE claims[j] = Unclaimed /\ receipts[j] = {}
    BY <2>1, <2>2
  <2>3. ASSUME NEW q \in Payments,
               claims[j] = <<amount[q], q>>, receipts[j] = {claims[j]}, posted[q] # "none"
        PROVE  /\ claims'[j] = <<amount'[q], q>>
               /\ receipts'[j] = {claims'[j]}
               /\ posted'[q] # "none"
    <3>1. q # p
      BY <2>3 DEF CreatePayment
    <3> QED
      BY <2>1, <2>3, <3>1 DEF OneInv, KeyTypes, CreatePayment
  <2> QED
    BY <2>2, <2>3 DEF OneInv, KeyInv
<1> QED
  BY <1>1, <1>2, <1>3 DEF OneInv, KeyInv

\* A retry is answered with the payment there is.
LEMMA ReplayOne ==
    ASSUME OneInv, NEW k \in PaymentKeys, NEW a \in 1 .. Total, ReplayPayment(k, a)
    PROVE  OneInv'
<1>1. KeyTypes'
  BY DEF OneInv, KeyTypes, ReplayPayment, paymentVars
<1>2. PICK p \in Payments :
          claims[k] = <<amount[p], p>> /\ receipts[k] = {claims[k]} /\ posted[p] # "none"
  BY DEF OneInv, KeyInv, ReplayPayment
<1>3. <<a, claims[k][2]>> = claims[k]
  BY SMT, <1>2 DEF ReplayPayment
<1>4. receipts'[k] = receipts[k]
  BY <1>2, <1>3 DEF OneInv, KeyTypes, ReplayPayment
<1>5. receipts' = receipts
  BY <1>4 DEF OneInv, KeyTypes, ReplayPayment
<1> QED
  BY <1>1, <1>5 DEF OneInv, KeyInv, ReplayPayment, paymentVars

\* A reversal leaves answers and amounts alone.
LEMMA ReverseOne ==
    ASSUME OneInv, NEW p \in Payments, Reverse(p)
    PROVE  OneInv'
<1>1. KeyTypes'
  BY DEF OneInv, KeyTypes, Reverse
<1>2. \A q \in Payments : posted[q] # "none" => posted'[q] # "none"
  BY DEF OneInv, KeyTypes, Reverse, AfterReversal
<1> QED
  BY <1>1, <1>2 DEF OneInv, KeyInv, Reverse

\* Every step keeps one answer for each key.
LEMMA NextOne == OneInv /\ [SettlementNext]_settlementVars => OneInv'
<1> SUFFICES ASSUME OneInv, [SettlementNext]_settlementVars PROVE OneInv'
  OBVIOUS
<1>1. ASSUME NEW k \in PaymentKeys, NEW p \in Payments, NEW a \in 1 .. Total, CreatePayment(k, p, a)
      PROVE  OneInv'
  BY <1>1, CreateOne
<1>2. ASSUME NEW k \in PaymentKeys, NEW a \in 1 .. Total, ReplayPayment(k, a)
      PROVE  OneInv'
  BY <1>2, ReplayOne
<1>3. ASSUME NEW p \in Payments, Reverse(p) PROVE OneInv'
  BY <1>3, ReverseOne
<1>4. CASE UNCHANGED <<paymentVars, claims, receipts>>
  BY <1>4 DEF OneInv, KeyTypes, KeyInv, paymentVars
<1> QED
  BY <1>1, <1>2, <1>3, <1>4
  DEF SettlementNext, settlementVars, SyncLegacyInvoicePayment, MetadataRead, MetadataSave, MetadataStop

\* A create command retried under its Idempotency-Key never records a second
\* payment: everything answered under the key is one payment, of the amount asked.
THEOREM KeysPayOnce == SettlementSpec => []OnePaymentPerKey
<1>1. OneInv => OnePaymentPerKey
  <2> SUFFICES ASSUME OneInv, NEW k \in PaymentKeys
               PROVE  /\ Cardinality(receipts[k]) <= 1
                      /\ \A x \in receipts[k] : x[1] = amount[x[2]] /\ posted[x[2]] # "none"
    BY DEF OnePaymentPerKey
  <2>1. CASE receipts[k] = {}
    BY SMT, <2>1, FS_EmptySet
  <2>2. ASSUME NEW p \in Payments,
               claims[k] = <<amount[p], p>>, receipts[k] = {claims[k]}, posted[p] # "none"
        PROVE  /\ Cardinality(receipts[k]) <= 1
               /\ \A x \in receipts[k] : x[1] = amount[x[2]] /\ posted[x[2]] # "none"
    <3>1. Cardinality({claims[k]}) = 1
      BY FS_Singleton
    <3> QED
      BY SMT, <2>2, <3>1
  <2> QED
    BY <2>1, <2>2 DEF OneInv, KeyInv
<1> QED
  BY <1>1, InitOne, NextOne, PTL DEF SettlementSpec

-----------------------------------------------------------------------------
(* What the posted payments amount to.                                     *)

\* The units of money of a set of payments: the sum of their amounts is their
\* number, and a payment more or less is its own units more or less.
Units(w, T) == {y \in T \X (1 .. Total) : y[2] <= w[y[1]]}

\* The fold of a sum, with its payments taken in the order of CHOOSE.
Folds(g, w, T) ==
    g = [s \in SUBSET T |->
            IF s = {} THEN 0
            ELSE w[CHOOSE x \in s : TRUE] + g[s \ {CHOOSE x \in s : TRUE}]]
SumOf(w, T) == (CHOOSE g : Folds(g, w, T))[T]

\* The units of finitely many payments can be counted.
LEMMA UnitsFinite ==
    ASSUME Total \in Nat, NEW w, NEW T, IsFiniteSet(T)
    PROVE  IsFiniteSet(Units(w, T)) /\ Cardinality(Units(w, T)) \in Nat
<1>1. IsFiniteSet(1 .. Total)
  <2>1. 1 \in Int /\ Total \in Int
    BY SMT
  <2> QED BY <2>1, FS_Interval
<1>2. IsFiniteSet(T \X (1 .. Total))
  BY <1>1, FS_Product
<1>3. Units(w, T) \in SUBSET (T \X (1 .. Total))
  BY DEF Units
<1>4. IsFiniteSet(Units(w, T))
  BY <1>2, <1>3, FS_Subset
<1> QED BY <1>4, FS_CardinalityType

\* One payment more adds its amount.
LEMMA UnitsAdd ==
    ASSUME Total \in Nat, NEW w, NEW T, IsFiniteSet(T), NEW x, x \notin T, w[x] \in 0 .. Total
    PROVE  Cardinality(Units(w, T \cup {x})) = w[x] + Cardinality(Units(w, T))
<1> DEFINE A == Units(w, T)
           B == {x} \X (1 .. w[x])
<1>1. IsFiniteSet(A) /\ Cardinality(A) \in Nat
  BY UnitsFinite
<1>2. IsFiniteSet(B) /\ Cardinality(B) = w[x]
  <2>1. 1 \in Int /\ w[x] \in Int /\ w[x] \in Nat
    BY SMT
  <2>2. IsFiniteSet(1 .. w[x]) /\ Cardinality(1 .. w[x]) = IF 1 > w[x] THEN 0 ELSE w[x] - 1 + 1
    BY <2>1, FS_Interval
  <2>3. IsFiniteSet({x}) /\ Cardinality({x}) = 1
    BY FS_Singleton
  <2>4. IsFiniteSet(B) /\ Cardinality(B) = Cardinality({x}) * Cardinality(1 .. w[x])
    BY <2>2, <2>3, FS_Product
  <2> QED BY SMT, <2>1, <2>2, <2>3, <2>4
<1>3. A \cap B = {}
  BY SMT DEF Units
<1>4. Units(w, T \cup {x}) = A \cup B
  BY SMT DEF Units
<1>5. Cardinality(A \cup B) = Cardinality(A) + Cardinality(B) - Cardinality(A \cap B)
  BY <1>1, <1>2, FS_Union
<1>6. Cardinality(A \cap B) = 0
  BY <1>3, FS_EmptySet
<1>7. w[x] \in Nat /\ \A m, n \in Nat : m + n - 0 = n + m
  BY SMT
<1>8. Cardinality(A) + w[x] - 0 = w[x] + Cardinality(A)
  BY <1>1, <1>7
<1> QED BY <1>2, <1>4, <1>5, <1>6, <1>8

\* The sum of a finite set of payments is the number of its units.
LEMMA SumIsUnits ==
    ASSUME Total \in Nat, NEW w, NEW T, IsFiniteSet(T), \A x \in T : w[x] \in 0 .. Total
    PROVE  SumOf(w, T) = Cardinality(Units(w, T))
<1> DEFINE U == [s \in SUBSET T |-> Cardinality(Units(w, s))]
           First(s) == CHOOSE x \in s : TRUE
<1>1. ASSUME NEW s \in SUBSET T
      PROVE  Cardinality(Units(w, s)) = IF s = {} THEN 0 ELSE w[First(s)] + U[s \ {First(s)}]
  <2>1. CASE s = {}
    <3>1. Units(w, s) = {}
      BY SMT, <2>1 DEF Units
    <3> QED BY <2>1, <3>1, FS_EmptySet
  <2>2. CASE s # {}
    <3>1. First(s) \in s
      BY <2>2
    <3> HIDE DEF First
    <3>2. s = (s \ {First(s)}) \cup {First(s)} /\ s \ {First(s)} \in SUBSET T
      BY <3>1
    <3>3. IsFiniteSet(s \ {First(s)})
      BY <3>2, FS_Subset
    <3>4. Cardinality(Units(w, s)) = w[First(s)] + Cardinality(Units(w, s \ {First(s)}))
      BY <3>1, <3>2, <3>3, UnitsAdd
    <3> QED BY <2>2, <3>2, <3>4
  <2> QED BY <2>1, <2>2
<1>2. Folds(U, w, T)
  BY <1>1 DEF Folds
<1>3. ASSUME NEW g, Folds(g, w, T), NEW s \in SUBSET T, g[s] # U[s] PROVE FALSE
  <2> DEFINE Bad == {t \in SUBSET T : g[t] # U[t]}
  <2>1. Bad \subseteq FiniteSubsetsOf(T) /\ Bad # {}
    BY <1>3, FS_Subset DEF FiniteSubsetsOf
  <2>2. PICK t \in Bad : \A u \in Bad : ~ (<<u, t>> \in StrictSubsetOrdering(T))
    <3> HIDE DEF Bad
    <3> QED BY <2>1, FS_StrictSubsetOrderingWellFounded, WFMin
  <2>3. t \in SUBSET T /\ g[t] # U[t]
    BY <2>2
  <2>4. t # {}
    BY <1>2, <1>3, <2>3 DEF Folds
  <2>5. First(t) \in t
    BY <2>4
  <2> HIDE DEF U, First
  <2>6. g[t \ {First(t)}] = U[t \ {First(t)}]
    <3> DEFINE u == t \ {First(t)}
    <3>1. u \in SUBSET T /\ u \subseteq t /\ u # t
      BY <2>3, <2>5
    <3> HIDE DEF u
    <3>2. <<u, t>> \in StrictSubsetOrdering(T)
      BY SMT, <2>3, <3>1 DEF StrictSubsetOrdering
    <3>3. g[u] = U[u]
      BY <2>2, <3>1, <3>2
    <3> QED BY <3>3 DEF u
  <2>7. g[t] = w[First(t)] + g[t \ {First(t)}]
    BY <1>3, <2>3, <2>4 DEF Folds, First
  <2>8. U[t] = w[First(t)] + U[t \ {First(t)}]
    BY <1>2, <2>3, <2>4 DEF Folds, First
  <2> QED BY <2>3, <2>6, <2>7, <2>8
<1>4. Folds(CHOOSE g : Folds(g, w, T), w, T)
  BY <1>2
<1>5. SumOf(w, T) = U[T]
  BY <1>3, <1>4 DEF SumOf
<1> QED BY <1>5

Posted == {p \in Payments : posted[p] = "posted"}

\* Payments are recorded one at a time, so those that are posted are finitely many.
PostedInv == CoherentInv /\ IsFiniteSet(Posted)

\* The sum the model writes is the fold above.
LEMMA PostedAmountIs ==
    /\ PostedAmount = SumOf(amount, Posted)
    /\ PostedAmount' = SumOf(amount', Posted')
BY DEF PostedAmount, MapThenSumSet, MapThenFoldSet, SumOf, Folds, Posted

\* Recording a payment adds one posted payment and leaves the others' amounts.
LEMMA CreateAdds ==
    ASSUME PostedInv,
           NEW k \in PaymentKeys, NEW p \in Payments, NEW a \in 1 .. Total, CreatePayment(k, p, a)
    PROVE  /\ IsFiniteSet(Posted') /\ paid' = paid + a
           /\ Cardinality(Units(amount', Posted')) = a + Cardinality(Units(amount, Posted))
<1>1. posted \in [Payments -> {"none", "posted", "reversed"}] /\ amount \in [Payments -> 0 .. Total]
  BY DEF PostedInv, CoherentInv, SettlementTypeOK
<1>2. Posted' = Posted \cup {p} /\ p \notin Posted
  BY <1>1 DEF CreatePayment, Posted
<1>3. IsFiniteSet(Posted) /\ IsFiniteSet(Posted')
  BY <1>2, FS_AddElement DEF PostedInv
<1>4. amount'[p] = a /\ \A q \in Posted : amount'[q] = amount[q]
  BY <1>1, <1>2 DEF CreatePayment, Posted
<1>5. Units(amount', Posted) = Units(amount, Posted)
  BY SMT, <1>4 DEF Units
<1>6. Total \in Nat /\ amount'[p] \in 0 .. Total
  BY SMT, <1>4, SettlementConstants
<1>7. Cardinality(Units(amount', Posted \cup {p})) = amount'[p] + Cardinality(Units(amount', Posted))
  BY <1>2, <1>3, <1>6, UnitsAdd
<1> QED BY <1>2, <1>3, <1>4, <1>5, <1>7 DEF CreatePayment, Settle

\* Reversing a payment takes one posted payment away.
LEMMA ReverseTakes ==
    ASSUME PostedInv, NEW p \in Payments, Reverse(p)
    PROVE  /\ IsFiniteSet(Posted') /\ paid' = paid - amount[p]
           /\ Cardinality(Units(amount, Posted)) = amount[p] + Cardinality(Units(amount', Posted'))
<1>1. posted \in [Payments -> {"none", "posted", "reversed"}] /\ amount \in [Payments -> 0 .. Total]
  BY DEF PostedInv, CoherentInv, SettlementTypeOK
<1>2. Posted' = Posted \ {p} /\ Posted = Posted' \cup {p} /\ p \notin Posted'
  BY <1>1 DEF Reverse, AfterReversal, Posted
<1>3. IsFiniteSet(Posted')
  BY <1>2, FS_RemoveElement DEF PostedInv
<1>4. Total \in Nat /\ amount[p] \in 0 .. Total
  BY <1>1, SettlementConstants
<1>5. Cardinality(Units(amount, Posted' \cup {p})) = amount[p] + Cardinality(Units(amount, Posted'))
  BY <1>2, <1>3, <1>4, UnitsAdd
<1> QED BY <1>2, <1>3, <1>5 DEF Reverse, Settle

\* Every step keeps the posted payments finite, and one that leaves the editors
\* alone moves the paid amount with their sum.
LEMMA StepSettles ==
    ASSUME PostedInv, [SettlementNext]_settlementVars
    PROVE  /\ PostedInv'
           /\ edit' = edit => paid' + PostedAmount = paid + PostedAmount'
<1>1. CoherentInv /\ CoherentInv'
  BY NextCoherent DEF PostedInv
<1>2. /\ Total \in Nat /\ paid \in Nat
      /\ \A q \in Posted : amount[q] \in 0 .. Total
      /\ \A q \in Posted' : amount'[q] \in 0 .. Total
  BY SMT, <1>1, SettlementConstants DEF CoherentInv, SettlementTypeOK, SettledRows, Posted
<1> DEFINE c == Cardinality(Units(amount, Posted))
           d == Cardinality(Units(amount', Posted'))
<1>3. ASSUME IsFiniteSet(Posted')
      PROVE  /\ c \in Nat /\ d \in Nat
             /\ PostedAmount = c /\ PostedAmount' = d
  BY <1>2, <1>3, UnitsFinite, SumIsUnits, PostedAmountIs DEF PostedInv
<1> HIDE DEF c, d
<1>4. ASSUME NEW k \in PaymentKeys, NEW p \in Payments, NEW a \in 1 .. Total, CreatePayment(k, p, a)
      PROVE  IsFiniteSet(Posted') /\ paid' + PostedAmount = paid + PostedAmount'
  <2>1. IsFiniteSet(Posted') /\ paid' = paid + a /\ d = a + c
    BY <1>4, CreateAdds DEF c, d
  <2>2. (paid + a) + c = paid + (a + c)
    BY SMT, <1>2, <1>3, <2>1
  <2> QED BY <1>3, <2>1, <2>2
<1>5. ASSUME NEW p \in Payments, Reverse(p)
      PROVE  IsFiniteSet(Posted') /\ paid' + PostedAmount = paid + PostedAmount'
  <2>1. IsFiniteSet(Posted') /\ paid' = paid - amount[p] /\ c = amount[p] + d
    BY <1>5, ReverseTakes DEF c, d
  <2>2. amount[p] \in Nat
    BY SMT, <1>1 DEF CoherentInv, SettlementTypeOK
  <2>3. (paid - amount[p]) + (amount[p] + d) = paid + d
    BY SMT, <1>2, <1>3, <2>1, <2>2
  <2> QED BY <1>3, <2>1, <2>3
<1>6. CASE /\ UNCHANGED <<amount, posted>>
           /\ UNCHANGED paid \/ \E r \in Editors : MetadataSave(r)
  <2>1. Posted' = Posted /\ amount' = amount
    BY <1>6 DEF Posted
  <2>2. IsFiniteSet(Posted')
    BY <2>1 DEF PostedInv
  <2>3. PostedAmount' = PostedAmount
    BY <2>1, PostedAmountIs
  <2>4. edit' = edit => paid' = paid
    <3>1. ASSUME NEW r \in Editors, MetadataSave(r) PROVE edit' # edit
      BY <1>1, <3>1 DEF MetadataSave, CoherentInv, SettlementTypeOK
    <3> QED BY <1>6, <3>1
  <2> QED BY <1>1, <2>2, <2>3, <2>4 DEF PostedInv
<1>7. \/ \E k \in PaymentKeys, p \in Payments, a \in 1 .. Total : CreatePayment(k, p, a)
      \/ \E p \in Payments : Reverse(p)
      \/ /\ UNCHANGED <<amount, posted>>
         /\ UNCHANGED paid \/ \E r \in Editors : MetadataSave(r)
  BY DEF SettlementNext, settlementVars, invoiceVars, paymentVars, ReplayPayment, SyncLegacyInvoicePayment,
         MetadataRead, MetadataSave, MetadataStop
<1> QED BY <1>1, <1>4, <1>5, <1>6, <1>7 DEF PostedInv

\* Whatever mix of payments, reversals, retries and projections runs, the paid
\* amount of the invoice and the sum of its posted payments move together; only
\* a save of UpdateByBusiness takes them apart.
THEOREM OnlyEditsUnsettle ==
    SettlementSpec => OnlySavesUnsettle
<1>1. SettlementInit => PostedInv
  <2> SUFFICES ASSUME SettlementInit PROVE PostedInv
    OBVIOUS
  <2>1. Posted = {}
    BY DEF SettlementInit, Posted
  <2> QED BY <2>1, InitCoherent, FS_EmptySet DEF PostedInv
<1>2. PostedInv /\ [SettlementNext]_settlementVars => PostedInv'
  BY StepSettles
<1>3. PostedInv /\ [SettlementNext]_settlementVars =>
         [edit' = edit => paid' + PostedAmount = paid + PostedAmount']_settlementVars
  BY StepSettles
<1> QED BY <1>1, <1>2, <1>3, PTL DEF SettlementSpec, OnlySavesUnsettle

\* CONTEXT.md's rule that settlement derives from the payments holds of an invoice
\* whose metadata nobody edits: its paid amount is the sum of its posted payments
\* (with an editor it fails, SettlementStaleSave.cfg).
THEOREM PaymentsAloneSettle ==
    ASSUME Editors = {} PROVE SettlementSpec => []PaidIsPosted
<1>1. ASSUME SettlementInit PROVE PostedInv /\ PaidIsPosted
  <2>1. Posted = {} /\ paid = 0
    BY <1>1 DEF SettlementInit, Posted
  <2>2. IsFiniteSet(Posted) /\ \A q \in Posted : amount[q] \in 0 .. Total
    BY <2>1, FS_EmptySet
  <2>3. Units(amount, Posted) = {}
    BY SMT, <2>1 DEF Units
  <2>4. PostedAmount = 0
    BY <2>2, <2>3, SumIsUnits, PostedAmountIs, FS_EmptySet, SettlementConstants
  <2> QED BY <1>1, <2>1, <2>2, <2>4, InitCoherent DEF PostedInv, PaidIsPosted
<1>2. ASSUME PostedInv, PaidIsPosted, [SettlementNext]_settlementVars PROVE PostedInv' /\ PaidIsPosted'
  <2>1. edit' = edit
    BY <1>2 DEF SettlementNext, settlementVars, CreatePayment, ReplayPayment, Reverse, SyncLegacyInvoicePayment
  <2>2. PostedInv' /\ paid' + PostedAmount = paid + PostedAmount'
    BY <1>2, <2>1, StepSettles
  <2>3. Total \in Nat /\ \A q \in Posted' : amount'[q] \in 0 .. Total
    BY <2>2, SettlementConstants DEF PostedInv, CoherentInv, SettlementTypeOK, Posted
  <2>4. PostedAmount' \in Nat
    BY <2>2, <2>3, UnitsFinite, SumIsUnits, PostedAmountIs DEF PostedInv
  <2>5. paid \in Nat /\ paid' \in Nat
    BY SMT, <1>2, <2>2 DEF PostedInv, CoherentInv, SettlementTypeOK, SettledRows
  <2>6. \A x, y, z \in Nat : x + y = y + z => x = z
    BY SMT
  <2> QED BY <1>2, <2>2, <2>4, <2>5, <2>6 DEF PaidIsPosted
<1>3. SettlementInit => PostedInv /\ PaidIsPosted
  BY <1>1
<1>4. PostedInv /\ PaidIsPosted /\ [SettlementNext]_settlementVars => PostedInv' /\ PaidIsPosted'
  BY <1>2
<1> QED BY <1>3, <1>4, PTL DEF SettlementSpec

=============================================================================
