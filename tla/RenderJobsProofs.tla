-------------------------- MODULE RenderJobsProofs --------------------------
(***************************************************************************)
(* What the renders of an invoice show and when its deliveries go out, for *)
(* any numbers of workers, previews and deliveries, any profiles, lease    *)
(* time and number of edits.                                               *)
(***************************************************************************)
EXTENDS RenderJobs, TLAPS

\* First-order reasoning is left to Zenon; leaves with arithmetic name SMT.
USE Zenon

-----------------------------------------------------------------------------
(* Types.                                                                  *)

InvoiceTypes ==
  /\ version \in 1 .. MaxVersion + 1 /\ issued \in BOOLEAN
  /\ projection \in 1 .. MaxVersion /\ mirrors \subseteq 1 .. MaxVersion
  /\ frozen \in 0 .. MaxVersion
  /\ profile \in Profiles \cup {NoProfile}

JobStatus == {"none", "queued", "processing", "completed", "failed", "obsolete"}
JobTypes ==
  /\ status \in [Jobs -> JobStatus]
  /\ source \in [Jobs -> 0 .. MaxVersion + 1]
  /\ owner \in [Jobs -> Workers \cup {NoOwner}]
  /\ lease \in [Jobs -> 0 .. LeaseTime]

OutputTypes ==
  /\ object \in [Jobs -> Images]
  /\ delivery \in [Deliveries -> {"none", "waiting_for_render", "queued"}]
  /\ events \in [Deliveries -> Nat]

Pcs == {"idle", "claim", "check", "render", "verify", "upload", "recheck", "complete"}
WorkerTypes ==
  /\ pc \in [Workers -> Pcs]
  /\ job \in [Workers -> Jobs \cup {NoJob}]
  /\ loaded \in [Workers -> 0 .. MaxVersion]
  /\ bytes \in [Workers -> Images]

\* A worker that is not idle has a job.
Assigned == \A w \in Workers : pc[w] # "idle" => job[w] \in Jobs

\* The four parts are the whole type.
LEMMA TypeParts == TypeOK <=> InvoiceTypes /\ JobTypes /\ OutputTypes /\ WorkerTypes
BY DEF TypeOK, InvoiceTypes, JobTypes, JobStatus, OutputTypes, WorkerTypes, Pcs

\* A request queues its job.
LEMMA QueueTypes ==
  ASSUME JobTypes, NEW j \in Jobs, NEW v \in 0 .. MaxVersion + 1, Queue(j, v)
  PROVE  JobTypes'
BY DEF JobTypes, JobStatus, Queue

\* A claim that ends leaves a job without an owner.
LEMMA SettleTypes ==
  ASSUME JobTypes, NEW w \in Workers, job[w] \in Jobs, NEW s \in JobStatus, Settle(w, s)
  PROVE  JobTypes'
<1>1. 0 \in 0 .. LeaseTime
  BY SMT, RenderConstants
<1> QED BY <1>1 DEF JobTypes, Settle

\* A worker that returns is idle.
LEMMA ReturnTypes ==
  ASSUME WorkerTypes, Assigned, NEW w \in Workers, Return(w)
  PROVE  WorkerTypes' /\ Assigned'
<1>1. 0 \in 0 .. MaxVersion /\ NoBytes \in Images
  BY SMT, RenderConstants DEF Images
<1>2. /\ pc' = [pc EXCEPT ![w] = "idle"] /\ job' = [job EXCEPT ![w] = NoJob]
      /\ loaded' = [loaded EXCEPT ![w] = 0] /\ bytes' = [bytes EXCEPT ![w] = NoBytes]
  BY DEF Return, Goto
<1>3. WorkerTypes'
  BY <1>1, <1>2 DEF WorkerTypes, Pcs
<1>4. Assigned'
  BY <1>2 DEF WorkerTypes, Assigned
<1> QED BY <1>3, <1>4

\* A worker that goes on keeps its job.
LEMMA GotoTypes ==
  ASSUME WorkerTypes, Assigned, NEW w \in Workers, NEW l \in Pcs, Goto(w, l), pc[w] # "idle",
         UNCHANGED <<job, loaded>>, bytes' \in [Workers -> Images]
  PROVE  WorkerTypes' /\ Assigned'
<1>1. WorkerTypes'
  BY DEF WorkerTypes, Goto
<1>2. Assigned'
  BY DEF WorkerTypes, Assigned, Goto
<1> QED BY <1>1, <1>2

\* The invoice stays within its bounds.
LEMMA InvoiceKeepsTypes ==
  ASSUME InvoiceTypes, ~issued => version <= MaxVersion, Next
  PROVE  InvoiceTypes' /\ (~issued' => version' <= MaxVersion)
<1> USE RenderConstants DEF InvoiceTypes
<1>1. CASE EditDraft
  BY SMT, <1>1 DEF EditDraft
<1>2. CASE \E v \in 1 .. MaxVersion : MirrorLegacyInvoice(v)
  BY SMT, <1>2 DEF MirrorLegacyInvoice
<1>3. CASE \E p \in Profiles \cup {NoProfile} : UpdateRenderProfile(p)
  BY SMT, <1>3 DEF UpdateRenderProfile, invoiceVars
<1>4. CASE IssueDraftAtomic
  BY SMT, <1>4 DEF IssueDraftAtomic
<1>5. CASE UNCHANGED <<invoiceVars, profile>>
  BY <1>5 DEF invoiceVars
<1>6. ASSUME NEW w \in Workers, Attempt(w) \/ FailRender(w) \/ WorkerStop(w)
      PROVE  UNCHANGED <<invoiceVars, profile>>
  BY <1>6 DEF Attempt, ClaimRender, CheckVersion, ObsoletePreviewRender, Render, VerifyRenderLease,
              Upload, CompletePreviewRender, CompleteFinalRender, FailRender, WorkerStop
<1>7. ASSUME \/ \E p \in Previews : RequestPreviewAtomic(p)
             \/ \E d \in Deliveries : CreateDeliveryAtomic(d)
             \/ \E w \in Workers, j \in Jobs : Load(w, j)
             \/ Tick
      PROVE  UNCHANGED <<invoiceVars, profile>>
  BY <1>7 DEF RequestPreviewAtomic, CreateDeliveryAtomic, Load, Tick
<1> QED
  BY <1>1, <1>2, <1>3, <1>4, <1>5, <1>6, <1>7 DEF Next, Surroundings, DeleteRenderProfile

\* The rows of the jobs keep their types.
LEMMA JobsKeepTypes ==
  ASSUME InvoiceTypes, JobTypes, Assigned, Next
  PROVE  JobTypes'
<1>0. Final \in Jobs /\ Previews \subseteq Jobs
  BY DEF Jobs
<1>1. CASE UNCHANGED jobVars
  BY <1>1 DEF JobTypes, jobVars
<1>2. CASE \E p \in Previews : RequestPreviewAtomic(p)
  <2>1. version \in 0 .. MaxVersion + 1
    BY SMT DEF InvoiceTypes
  <2> QED BY <1>0, <1>2, <2>1, QueueTypes DEF RequestPreviewAtomic
<1>3. CASE IssueDraftAtomic
  <2>1. version + 1 \in 0 .. MaxVersion + 1
    BY SMT, <1>3, RenderConstants DEF InvoiceTypes, IssueDraftAtomic
  <2> QED BY <1>0, <1>3, <2>1, QueueTypes DEF IssueDraftAtomic
<1>4. CASE Tick
  <2>1. lease' \in [Jobs -> 0 .. LeaseTime]
    BY SMT, <1>4, RenderConstants DEF Tick, JobTypes
  <2> QED BY <1>4, <2>1 DEF Tick, JobTypes
<1>5. ASSUME NEW w \in Workers, ClaimRender(w)
      PROVE  JobTypes'
  <2>1. job[w] \in Jobs
    BY <1>5 DEF ClaimRender, Assigned
  <2>2. LeaseGranted \in 0 .. LeaseTime
    BY SMT, RenderConstants DEF LeaseGranted
  <2>3. CASE Claimable(job[w])
    <3>1. /\ status' = [status EXCEPT ![job[w]] = "processing"] /\ UNCHANGED source
          /\ owner' = [owner EXCEPT ![job[w]] = w]
          /\ lease' = [lease EXCEPT ![job[w]] = LeaseGranted]
      BY <1>5, <2>3 DEF ClaimRender
    <3> QED BY <2>1, <2>2, <3>1 DEF JobTypes, JobStatus
  <2>4. CASE ~Claimable(job[w])
    BY <1>1, <1>5, <2>4 DEF ClaimRender
  <2> QED BY <2>3, <2>4
<1>6. ASSUME NEW w \in Workers,
             \/ FailRender(w) \/ CompletePreviewRender(w) \/ CompleteFinalRender(w)
             \/ pc[w] \in {"check", "recheck"} /\ ObsoletePreviewRender(w)
      PROVE  JobTypes'
  <2>1. job[w] \in Jobs
    BY <1>6 DEF FailRender, CompletePreviewRender, CompleteFinalRender, Assigned
  <2>2. UNCHANGED jobVars \/ \E s \in JobStatus : Settle(w, s)
    BY <1>6 DEF FailRender, CompletePreviewRender, CompleteFinalRender, ObsoletePreviewRender, JobStatus
  <2> QED BY <1>1, <2>1, <2>2, SettleTypes
<1>7. ASSUME NEW w \in Workers,
             \/ CheckVersion(w, "check", "render") \/ CheckVersion(w, "recheck", "complete")
      PROVE  JobTypes'
  BY <1>1, <1>6, <1>7 DEF CheckVersion
<1>8. ASSUME NEW w \in Workers,
             Render(w) \/ VerifyRenderLease(w) \/ Upload(w) \/ WorkerStop(w)
      PROVE  UNCHANGED jobVars
  BY <1>8 DEF Render, VerifyRenderLease, Upload, WorkerStop
<1>9. ASSUME \/ EditDraft
             \/ \E v \in 1 .. MaxVersion : MirrorLegacyInvoice(v)
             \/ \E p \in Profiles \cup {NoProfile} : UpdateRenderProfile(p)
             \/ \E d \in Deliveries : CreateDeliveryAtomic(d)
             \/ \E w \in Workers, j \in Jobs : Load(w, j)
      PROVE  UNCHANGED jobVars
  BY <1>9 DEF EditDraft, MirrorLegacyInvoice, UpdateRenderProfile, CreateDeliveryAtomic, Load
<1> QED
  BY <1>1, <1>2, <1>3, <1>4, <1>5, <1>6, <1>7, <1>8, <1>9
     DEF Next, Surroundings, DeleteRenderProfile, Attempt

\* Objects and deliveries keep their types.
LEMMA OutputsKeepTypes ==
  ASSUME OutputTypes, WorkerTypes, Assigned, Next
  PROVE  OutputTypes'
<1>0. Final \in Jobs /\ \A w \in Workers : bytes[w] \in Images
  BY DEF Jobs, WorkerTypes
<1>1. CASE UNCHANGED <<object, deliveryVars>>
  BY <1>1 DEF OutputTypes, deliveryVars
<1>2. CASE \E d \in Deliveries : CreateDeliveryAtomic(d)
  <2> PICK d \in Deliveries : CreateDeliveryAtomic(d)
    BY <1>2
  <2>1. delivery' \in [Deliveries -> {"none", "waiting_for_render", "queued"}] /\ object' = object
    BY DEF OutputTypes, CreateDeliveryAtomic
  <2>2. events' \in [Deliveries -> Nat]
    BY SMT DEF OutputTypes, CreateDeliveryAtomic
  <2> QED BY <2>1, <2>2 DEF OutputTypes
<1>3. ASSUME NEW w \in Workers, Upload(w)
      PROVE  OutputTypes'
  BY <1>0, <1>3 DEF Upload, UploadFinal, OutputTypes, deliveryVars
<1>4. ASSUME NEW w \in Workers, CompletePreviewRender(w)
      PROVE  OutputTypes'
  <2>1. job[w] \in Jobs
    BY <1>4 DEF CompletePreviewRender, Assigned
  <2> QED BY <1>0, <1>4, <2>1 DEF CompletePreviewRender, OutputTypes, deliveryVars
<1>5. ASSUME NEW w \in Workers, CompleteFinalRender(w)
      PROVE  OutputTypes'
  <2>1. delivery' \in [Deliveries -> {"none", "waiting_for_render", "queued"}] /\ object' = object
    BY <1>5 DEF OutputTypes, CompleteFinalRender
  <2>2. events' \in [Deliveries -> Nat]
    BY SMT, <1>5 DEF OutputTypes, CompleteFinalRender
  <2> QED BY <2>1, <2>2 DEF OutputTypes
<1>6. ASSUME NEW w \in Workers,
             \/ ClaimRender(w) \/ CheckVersion(w, "check", "render") \/ Render(w)
             \/ VerifyRenderLease(w) \/ CheckVersion(w, "recheck", "complete")
             \/ FailRender(w) \/ WorkerStop(w)
      PROVE  UNCHANGED <<object, deliveryVars>>
  BY <1>6 DEF ClaimRender, CheckVersion, ObsoletePreviewRender, Render, VerifyRenderLease,
              FailRender, WorkerStop
<1>7. ASSUME \/ EditDraft \/ IssueDraftAtomic \/ Tick
             \/ \E v \in 1 .. MaxVersion : MirrorLegacyInvoice(v)
             \/ \E p \in Profiles \cup {NoProfile} : UpdateRenderProfile(p)
             \/ \E p \in Previews : RequestPreviewAtomic(p)
             \/ \E w \in Workers, j \in Jobs : Load(w, j)
      PROVE  UNCHANGED <<object, deliveryVars>>
  BY <1>7 DEF EditDraft, IssueDraftAtomic, Tick, MirrorLegacyInvoice, UpdateRenderProfile,
              RequestPreviewAtomic, Load
<1> QED
  BY <1>1, <1>2, <1>3, <1>4, <1>5, <1>6, <1>7 DEF Next, Surroundings, DeleteRenderProfile, Attempt

\* The workers keep their types, and a job while they are not idle.
LEMMA WorkersKeepTypes ==
  ASSUME InvoiceTypes, WorkerTypes, Assigned, Next
  PROVE  WorkerTypes' /\ Assigned'
<1>1. CASE UNCHANGED workerVars
  BY <1>1 DEF WorkerTypes, Assigned, workerVars
<1>2. ASSUME NEW w \in Workers, Return(w)
      PROVE  WorkerTypes' /\ Assigned'
  BY <1>2, ReturnTypes
<1>3. ASSUME NEW w \in Workers, NEW l \in Pcs, pc[w] # "idle", Goto(w, l), UNCHANGED <<job, loaded, bytes>>
      PROVE  WorkerTypes' /\ Assigned'
  <2>1. bytes' \in [Workers -> Images]
    BY <1>3 DEF WorkerTypes
  <2> QED BY <1>3, <2>1, GotoTypes
<1>4. ASSUME NEW w \in Workers, NEW j \in Jobs, Load(w, j)
      PROVE  WorkerTypes' /\ Assigned'
  <2>1. /\ pc' = [pc EXCEPT ![w] = "claim"] /\ job' = [job EXCEPT ![w] = j]
        /\ loaded' = [loaded EXCEPT ![w] = projection] /\ bytes' = bytes
    BY <1>4 DEF Load, Goto
  <2>2. projection \in 0 .. MaxVersion
    BY SMT DEF InvoiceTypes
  <2>3. WorkerTypes'
    BY <2>1, <2>2 DEF WorkerTypes, Pcs
  <2>4. Assigned'
    BY <2>1 DEF WorkerTypes, Assigned
  <2> QED BY <2>3, <2>4
<1>5. ASSUME NEW w \in Workers, Render(w)
      PROVE  WorkerTypes' /\ Assigned'
  <2>1. RenderedContent(w) \in 0 .. MaxVersion /\ profile \in Profiles
    BY <1>5 DEF RenderedContent, Render, InvoiceTypes, WorkerTypes
  <2>2. <<RenderedContent(w), profile>> \in Images
    BY <2>1 DEF Images
  <2>3. bytes' \in [Workers -> Images]
    BY <1>5, <2>2 DEF Render, WorkerTypes
  <2>4. Goto(w, "verify") /\ pc[w] # "idle" /\ UNCHANGED <<job, loaded>>
    BY <1>5 DEF Render
  <2> QED BY <2>3, <2>4, GotoTypes DEF Pcs
<1>6. ASSUME NEW w \in Workers,
             \/ ClaimRender(w) \/ CheckVersion(w, "check", "render")
             \/ CheckVersion(w, "recheck", "complete") \/ VerifyRenderLease(w)
             \/ Upload(w) \/ CompletePreviewRender(w) \/ CompleteFinalRender(w)
             \/ FailRender(w) \/ WorkerStop(w)
      PROVE  \/ Return(w)
             \/ \E l \in Pcs : Goto(w, l) /\ pc[w] # "idle" /\ UNCHANGED <<job, loaded, bytes>>
  BY <1>6 DEF ClaimRender, CheckVersion, ObsoletePreviewRender, VerifyRenderLease, Upload,
              CompletePreviewRender, CompleteFinalRender, FailRender, WorkerStop, Pcs
<1>7. ASSUME Surroundings \/ Tick
      PROVE  UNCHANGED workerVars
  BY <1>7 DEF Surroundings, EditDraft, IssueDraftAtomic, Tick, MirrorLegacyInvoice, UpdateRenderProfile,
              DeleteRenderProfile, RequestPreviewAtomic, CreateDeliveryAtomic
<1> QED
  BY <1>1, <1>2, <1>3, <1>4, <1>5, <1>6, <1>7 DEF Next, Attempt

-----------------------------------------------------------------------------
(* The inductive invariant.                                                *)

\* Nothing is known of a final job before the invoice is issued.
NoFinalBeforeIssue == ~issued => version <= MaxVersion /\ status[Final] = "none"

\* The document is never ahead of the invoice it mirrors.
NothingAhead == projection <= version /\ \A v \in mirrors : v <= version

\* What a worker holds: a job that was requested, a document that is not ahead,
\* rendered bytes of the right content, and the object once it is uploaded.
Holds(w) ==
  /\ pc[w] # "idle" => job[w] \in Jobs /\ status[job[w]] # "none"
  /\ loaded[w] <= version
  /\ pc[w] \in {"verify", "upload", "recheck", "complete"} =>
        /\ bytes[w] # NoBytes
        /\ job[w] = Final => bytes[w][1] = frozen
        /\ job[w] # Final => bytes[w][1] <= version
  /\ pc[w] \in {"recheck", "complete"} /\ job[w] = Final => object[Final] # NoBytes

\* The object of the final render is that of an issued invoice.
ObjectIsOfIssued == object[Final] # NoBytes => issued

\* A delivery that was not created has no outbox event.
NoEarlyEvent == \A d \in Deliveries : delivery[d] = "none" => events[d] = 0

RenderInv ==
  /\ TypeOK
  /\ NoFinalBeforeIssue
  /\ NothingAhead
  /\ \A w \in Workers : Holds(w)
  /\ ObjectIsOfIssued
  /\ NoEarlyEvent
  /\ FinalShowsIssuedContent
  /\ PreviewShowsNoLaterEdit
  /\ DeliveriesFollowFinal

\* The types and the parts of the invariant, as the step lemmas use them.
LEMMA InvFacts ==
  ASSUME RenderInv
  PROVE  /\ InvoiceTypes /\ JobTypes /\ OutputTypes /\ WorkerTypes /\ Assigned
         /\ Final \in Jobs /\ Previews \subseteq Jobs
         /\ version \in Nat /\ projection \in Nat /\ frozen \in Nat
         /\ \A w \in Workers : loaded[w] \in Nat
         /\ \A w \in Workers : bytes[w] # NoBytes => bytes[w][1] \in Nat
<1>1. InvoiceTypes /\ JobTypes /\ OutputTypes /\ WorkerTypes
  BY TypeParts DEF RenderInv
<1>2. Assigned
  BY DEF RenderInv, Holds, Assigned
<1>3. Final \in Jobs /\ Previews \subseteq Jobs
  BY DEF Jobs
<1>4. version \in Nat /\ projection \in Nat /\ frozen \in Nat
  BY SMT, <1>1, RenderConstants DEF InvoiceTypes
<1>5. \A w \in Workers : loaded[w] \in Nat
  BY SMT, <1>1, RenderConstants DEF WorkerTypes
<1>6. \A w \in Workers : bytes[w] # NoBytes => bytes[w][1] \in Nat
  BY SMT, <1>1, RenderConstants DEF WorkerTypes, Images
<1> QED BY <1>1, <1>2, <1>3, <1>4, <1>5, <1>6

-----------------------------------------------------------------------------
(* What no step undoes.                                                    *)

\* Of the invoice: the version never decreases, and what is issued is frozen.
LEMMA InvoiceMonotone ==
  ASSUME RenderInv, Next
  PROVE  /\ version' >= version
         /\ issued => issued' /\ UNCHANGED <<version, frozen>>
         /\ NothingAhead'
         /\ UNCHANGED <<issued, frozen>> \/ IssueDraftAtomic
<1>0. /\ version \in Nat /\ projection \in Nat /\ \A v \in mirrors : v \in Nat
      /\ NothingAhead
  BY SMT, InvFacts DEF RenderInv, InvoiceTypes
<1>1. CASE EditDraft
  BY SMT, <1>0, <1>1 DEF EditDraft, NothingAhead
<1>2. CASE \E v \in 1 .. MaxVersion : MirrorLegacyInvoice(v)
  <2> PICK v \in 1 .. MaxVersion : MirrorLegacyInvoice(v)
    BY <1>2
  <2>1. /\ v \in mirrors /\ projection' = v /\ mirrors' = mirrors \ {v}
        /\ UNCHANGED <<version, issued, frozen>>
    BY DEF MirrorLegacyInvoice
  <2>2. NothingAhead'
    BY <1>0, <2>1 DEF NothingAhead
  <2> QED BY SMT, <1>0, <2>1, <2>2
<1>3. CASE IssueDraftAtomic
  <2>1. ~issued /\ issued' /\ version' = version + 1 /\ UNCHANGED <<projection, mirrors>>
    BY <1>3 DEF IssueDraftAtomic
  <2>2. version' >= version /\ \A v \in Nat : v <= version => v <= version'
    BY SMT, <1>0, <2>1
  <2>3. NothingAhead'
    BY <1>0, <2>1, <2>2 DEF NothingAhead
  <2> QED BY <1>3, <2>1, <2>2, <2>3
<1>4. CASE UNCHANGED invoiceVars
  BY SMT, <1>0, <1>4 DEF invoiceVars, NothingAhead
<1>5. ASSUME NEW w \in Workers, Attempt(w) \/ FailRender(w) \/ WorkerStop(w)
      PROVE  UNCHANGED invoiceVars
  BY <1>5 DEF Attempt, ClaimRender, CheckVersion, ObsoletePreviewRender, Render, VerifyRenderLease,
              Upload, CompletePreviewRender, CompleteFinalRender, FailRender, WorkerStop
<1>6. ASSUME \/ \E p \in Profiles \cup {NoProfile} : UpdateRenderProfile(p)
             \/ \E p \in Previews : RequestPreviewAtomic(p)
             \/ \E d \in Deliveries : CreateDeliveryAtomic(d)
             \/ \E w \in Workers, j \in Jobs : Load(w, j)
             \/ Tick
      PROVE  UNCHANGED invoiceVars
  BY <1>6 DEF UpdateRenderProfile, RequestPreviewAtomic, CreateDeliveryAtomic, Load, Tick
<1> QED
  BY <1>1, <1>2, <1>3, <1>4, <1>5, <1>6 DEF Next, Surroundings, DeleteRenderProfile

\* What a step may do to the status of a job: nothing, request it, or be the
\* claim or the settlement of a worker that has it.
LEMMA StatusSteps ==
  ASSUME RenderInv, Next, NEW j \in Jobs
  PROVE  \/ UNCHANGED <<status[j], source[j]>>
         \/ RequestPreviewAtomic(j) /\ j \in Previews
         \/ IssueDraftAtomic /\ j = Final
         \/ /\ Claimable(j) /\ status'[j] = "processing" /\ UNCHANGED source[j]
         \/ \E w \in Workers :
               /\ job[w] = j /\ OwnsJob(w) /\ UNCHANGED source[j]
               /\ status'[j] \in {"failed", "obsolete", "completed"}
               /\ status'[j] = "completed" => CompletePreviewRender(w) \/ CompleteFinalRender(w)
<1>0. /\ JobTypes /\ Assigned /\ Final \in Jobs /\ Previews \subseteq Jobs
  BY InvFacts
<1>1. CASE UNCHANGED <<status, source>>
  BY SMT, <1>1
<1>2. ASSUME NEW p \in Previews, RequestPreviewAtomic(p)
      PROVE  \/ UNCHANGED <<status[j], source[j]>>
             \/ RequestPreviewAtomic(j) /\ j \in Previews
  <2>1. CASE p = j
    BY <1>2, <2>1
  <2>2. CASE p # j
    <3>1. /\ status' = [status EXCEPT ![p] = "queued"]
          /\ source' = [source EXCEPT ![p] = version]
      BY <1>2 DEF RequestPreviewAtomic, Queue
    <3> QED BY SMT, <1>0, <2>2, <3>1 DEF JobTypes
  <2> QED BY <2>1, <2>2
<1>3. CASE IssueDraftAtomic
  BY <1>0, <1>3 DEF IssueDraftAtomic, Queue, JobTypes
<1>4. ASSUME NEW w \in Workers, ClaimRender(w)
      PROVE  \/ UNCHANGED <<status[j], source[j]>>
             \/ Claimable(j) /\ status'[j] = "processing" /\ UNCHANGED source[j]
  <2>1. job[w] \in Jobs
    BY <1>0, <1>4 DEF ClaimRender, Assigned
  <2>2. CASE Claimable(job[w])
    <3>1. status' = [status EXCEPT ![job[w]] = "processing"] /\ UNCHANGED source
      BY <1>4, <2>2 DEF ClaimRender
    <3> QED BY <1>0, <2>1, <2>2, <3>1 DEF JobTypes
  <2>3. CASE ~Claimable(job[w])
    BY <1>4, <2>3 DEF ClaimRender, jobVars
  <2> QED BY <2>2, <2>3
<1>5. ASSUME NEW w \in Workers, pc[w] # "idle", NEW s \in {"failed", "obsolete", "completed"}, Settle(w, s),
             s = "completed" => CompletePreviewRender(w) \/ CompleteFinalRender(w)
      PROVE  \/ UNCHANGED <<status[j], source[j]>>
             \/ /\ job[w] = j /\ OwnsJob(w) /\ UNCHANGED source[j]
                /\ status'[j] \in {"failed", "obsolete", "completed"}
                /\ status'[j] = "completed" => CompletePreviewRender(w) \/ CompleteFinalRender(w)
  <2>1. job[w] \in Jobs
    BY <1>0, <1>5 DEF Assigned
  <2>2. status' = [status EXCEPT ![job[w]] = s] /\ UNCHANGED source /\ OwnsJob(w)
    BY <1>5 DEF Settle
  <2>3. CASE job[w] = j
    BY <1>0, <1>5, <2>2, <2>3 DEF JobTypes
  <2>4. CASE job[w] # j
    BY <1>0, <2>2, <2>4 DEF JobTypes
  <2> QED BY <2>3, <2>4
<1>6. ASSUME NEW w \in Workers,
             \/ FailRender(w) \/ CompletePreviewRender(w) \/ CompleteFinalRender(w)
             \/ CheckVersion(w, "check", "render") \/ CheckVersion(w, "recheck", "complete")
      PROVE  /\ pc[w] # "idle"
             /\ \/ UNCHANGED jobVars
                \/ Settle(w, "failed") \/ Settle(w, "obsolete")
                \/ Settle(w, "completed") /\ (CompletePreviewRender(w) \/ CompleteFinalRender(w))
  BY <1>6 DEF FailRender, CompletePreviewRender, CompleteFinalRender, CheckVersion, ObsoletePreviewRender
<1>7. ASSUME NEW w \in Workers,
             Render(w) \/ VerifyRenderLease(w) \/ Upload(w) \/ WorkerStop(w)
      PROVE  UNCHANGED jobVars
  BY <1>7 DEF Render, VerifyRenderLease, Upload, WorkerStop
<1>8. ASSUME \/ EditDraft
             \/ \E v \in 1 .. MaxVersion : MirrorLegacyInvoice(v)
             \/ \E p \in Profiles \cup {NoProfile} : UpdateRenderProfile(p)
             \/ \E d \in Deliveries : CreateDeliveryAtomic(d)
             \/ \E w \in Workers, i \in Jobs : Load(w, i)
             \/ Tick
      PROVE  UNCHANGED <<status, source>>
  BY <1>8 DEF EditDraft, MirrorLegacyInvoice, UpdateRenderProfile, CreateDeliveryAtomic, Load, Tick, jobVars
<1>9. CASE \E w \in Workers : Attempt(w) \/ FailRender(w) \/ WorkerStop(w)
  <2> PICK w \in Workers : Attempt(w) \/ FailRender(w) \/ WorkerStop(w)
    BY <1>9
  <2>1. CASE ClaimRender(w)
    BY <1>4, <2>1
  <2>2. CASE \/ FailRender(w) \/ CompletePreviewRender(w) \/ CompleteFinalRender(w)
             \/ CheckVersion(w, "check", "render") \/ CheckVersion(w, "recheck", "complete")
    BY <1>1, <1>5, <1>6, <2>2 DEF jobVars
  <2>3. CASE Render(w) \/ VerifyRenderLease(w) \/ Upload(w) \/ WorkerStop(w)
    BY <1>1, <1>7, <2>3 DEF jobVars
  <2> QED BY <2>1, <2>2, <2>3 DEF Attempt
<1> QED
  BY <1>1, <1>2, <1>3, <1>8, <1>9 DEF Next, Surroundings, DeleteRenderProfile

\* A job that was requested stays requested, a completed one stays completed.
LEMMA StatusMonotone ==
  ASSUME RenderInv, Next, NEW j \in Jobs
  PROVE  /\ status[j] # "none" => status'[j] # "none"
         /\ status[j] = "completed" => status'[j] = "completed" /\ UNCHANGED source[j]
<1>1. IssueDraftAtomic => status[Final] = "none"
  BY DEF RenderInv, NoFinalBeforeIssue, IssueDraftAtomic
<1>2. RequestPreviewAtomic(j) => status[j] = "none"
  BY DEF RequestPreviewAtomic
<1> QED BY <1>1, <1>2, StatusSteps DEF Claimable, OwnsJob

\* What a step may do to the object of a job.
LEMMA ObjectSteps ==
  ASSUME RenderInv, Next, NEW j \in Jobs
  PROVE  \/ UNCHANGED object[j]
         \/ \E w \in Workers : /\ job[w] = j /\ j # Final /\ CompletePreviewRender(w)
                               /\ object'[j] = bytes[w] /\ Settle(w, "completed") /\ VersionIsSource(j)
         \/ \E w \in Workers : /\ job[w] = j /\ j = Final /\ Upload(w)
                               /\ object[Final] = NoBytes /\ object'[Final] = bytes[w]
<1>0. OutputTypes /\ Assigned /\ Final \in Jobs
  BY InvFacts
<1>1. CASE UNCHANGED object
  BY <1>1
<1>2. ASSUME NEW w \in Workers, CompletePreviewRender(w)
      PROVE  \/ UNCHANGED object[j]
             \/ /\ job[w] = j /\ j # Final /\ object'[j] = bytes[w] /\ Settle(w, "completed")
                /\ VersionIsSource(j)
  <2>1. CASE VersionIsSource(job[w])
    <3>1. object' = [object EXCEPT ![job[w]] = bytes[w]] /\ Settle(w, "completed") /\ job[w] # Final
      BY <1>2, <2>1 DEF CompletePreviewRender
    <3> QED BY <1>0, <2>1, <3>1 DEF OutputTypes
  <2>2. CASE ~VersionIsSource(job[w])
    BY <1>2, <2>2 DEF CompletePreviewRender
  <2> QED BY <2>1, <2>2
<1>3. ASSUME NEW w \in Workers, Upload(w)
      PROVE  \/ UNCHANGED object[j]
             \/ /\ job[w] = j /\ j = Final
                /\ object[Final] = NoBytes /\ object'[Final] = bytes[w]
  <2>1. CASE job[w] = Final
    <3>1. object[Final] \in {NoBytes, bytes[w]} /\ object' = [object EXCEPT ![Final] = bytes[w]]
      BY <1>3, <2>1 DEF Upload, UploadFinal
    <3> QED BY <1>0, <2>1, <3>1 DEF OutputTypes
  <2>2. CASE job[w] # Final
    BY <1>3, <2>2 DEF Upload
  <2> QED BY <2>1, <2>2
<1>4. ASSUME NEW w \in Workers,
             \/ ClaimRender(w) \/ CheckVersion(w, "check", "render") \/ Render(w)
             \/ VerifyRenderLease(w) \/ CheckVersion(w, "recheck", "complete")
             \/ CompleteFinalRender(w) \/ FailRender(w) \/ WorkerStop(w)
      PROVE  UNCHANGED object
  BY <1>4 DEF ClaimRender, CheckVersion, ObsoletePreviewRender, Render, VerifyRenderLease,
              CompleteFinalRender, FailRender, WorkerStop
<1>5. ASSUME Surroundings \/ Tick \/ \E w \in Workers, i \in Jobs : Load(w, i)
      PROVE  UNCHANGED object
  BY <1>5 DEF Surroundings, EditDraft, IssueDraftAtomic, Tick, MirrorLegacyInvoice, UpdateRenderProfile,
              DeleteRenderProfile, RequestPreviewAtomic, CreateDeliveryAtomic, Load
<1> QED
  BY <1>1, <1>2, <1>3, <1>4, <1>5 DEF Next, Attempt

-----------------------------------------------------------------------------
(* The workers.                                                            *)

\* A worker that no step touches keeps what it holds, and so does one that
\* goes on without rendering or uploading.
LEMMA HoldsKept ==
  ASSUME RenderInv, Next, NEW w \in Workers,
         UNCHANGED <<job[w], loaded[w], bytes[w]>>, pc[w] # "idle" \/ UNCHANGED pc[w],
         pc'[w] \in {"verify", "upload", "recheck", "complete"} =>
            pc[w] \in {"verify", "upload", "recheck", "complete"},
         pc'[w] \in {"recheck", "complete"} /\ job[w] = Final => object'[Final] # NoBytes
  PROVE  Holds(w)'
<1>0. /\ Holds(w) /\ version \in Nat /\ version' >= version /\ version' \in Nat
      /\ loaded[w] \in Nat /\ (bytes[w] # NoBytes => bytes[w][1] \in Nat)
  <2>1. Holds(w) /\ InvoiceTypes /\ (~issued => version <= MaxVersion)
    BY InvFacts DEF RenderInv, NoFinalBeforeIssue
  <2>2. InvoiceTypes'
    BY <2>1, InvoiceKeepsTypes
  <2>3. version' \in Nat
    BY SMT, <2>2, RenderConstants DEF InvoiceTypes
  <2> QED BY <2>1, <2>3, InvFacts, InvoiceMonotone
<1>1. pc'[w] # "idle" => job'[w] \in Jobs /\ status'[job'[w]] # "none"
  <2> SUFFICES ASSUME pc'[w] # "idle" PROVE job'[w] \in Jobs /\ status'[job'[w]] # "none"
    OBVIOUS
  <2>1. job[w] \in Jobs /\ status[job[w]] # "none"
    BY <1>0 DEF Holds
  <2>2. status'[job[w]] # "none"
    BY <2>1, StatusMonotone
  <2> QED BY <2>1, <2>2
<1>2. loaded'[w] <= version'
  <2>1. loaded[w] <= version
    BY <1>0 DEF Holds
  <2> QED BY SMT, <1>0, <2>1
<1>3. ASSUME pc'[w] \in {"verify", "upload", "recheck", "complete"}
      PROVE  /\ bytes'[w] # NoBytes
             /\ job'[w] = Final => bytes'[w][1] = frozen'
             /\ job'[w] # Final => bytes'[w][1] <= version'
  <2>1. /\ bytes[w] # NoBytes /\ (job[w] = Final => bytes[w][1] = frozen)
        /\ (job[w] # Final => bytes[w][1] <= version) /\ pc[w] # "idle"
    BY <1>0, <1>3 DEF Holds
  <2>2. job[w] = Final => frozen' = frozen
    <3>1. job[w] = Final => status[Final] # "none"
      BY <1>0, <2>1 DEF Holds
    <3> QED BY <3>1, InvoiceMonotone DEF RenderInv, NoFinalBeforeIssue
  <2>3. bytes[w][1] <= version => bytes[w][1] <= version'
    BY SMT, <1>0, <2>1
  <2> QED BY <2>1, <2>2, <2>3
<1> QED BY <1>1, <1>2, <1>3 DEF Holds

\* Every worker holds what it should after any step.
LEMMA WorkersHold ==
  ASSUME RenderInv, Next, NEW w \in Workers
  PROVE  Holds(w)'
<1>0. /\ Holds(w) /\ WorkerTypes /\ InvoiceTypes /\ Assigned /\ version \in Nat
      /\ NothingAhead /\ projection \in Nat
  BY InvFacts DEF RenderInv
<1>1. ASSUME NEW u \in Workers, u # w,
             \/ \E j \in Jobs : Load(u, j)
             \/ Attempt(u) \/ FailRender(u) \/ WorkerStop(u)
      PROVE  UNCHANGED <<pc[w], job[w], loaded[w], bytes[w]>>
  <2>1. CASE Return(u)
    BY <1>0, <1>1, <2>1 DEF Return, Goto, WorkerTypes
  <2>2. CASE \E l \in Pcs : Goto(u, l) /\ UNCHANGED <<job, loaded, bytes>>
    BY <1>0, <1>1, <2>2 DEF Goto, WorkerTypes
  <2>3. CASE Render(u)
    BY <1>0, <1>1, <2>3 DEF Render, Goto, WorkerTypes
  <2>4. CASE \E j \in Jobs : Load(u, j)
    BY <1>0, <1>1, <2>4 DEF Load, Goto, WorkerTypes
  <2>5. CASE ClaimRender(u) \/ VerifyRenderLease(u) \/ Upload(u) \/ FailRender(u) \/ WorkerStop(u)
    BY <2>1, <2>2, <2>5 DEF ClaimRender, VerifyRenderLease, Upload, FailRender, WorkerStop, Pcs
  <2>6. CASE CheckVersion(u, "check", "render") \/ CheckVersion(u, "recheck", "complete")
    BY <2>1, <2>2, <2>6 DEF CheckVersion, ObsoletePreviewRender, Pcs
  <2>7. CASE CompletePreviewRender(u) \/ CompleteFinalRender(u)
    BY <2>1, <2>7 DEF CompletePreviewRender, CompleteFinalRender
  <2> QED BY <1>1, <2>3, <2>4, <2>5, <2>6, <2>7 DEF Attempt
<1>2. CASE UNCHANGED <<pc[w], job[w], loaded[w], bytes[w]>>
  <2>1. object[Final] # NoBytes => object'[Final] # NoBytes
    BY ObjectSteps, InvFacts
  <2>2. pc[w] \in {"recheck", "complete"} /\ job[w] = Final => object[Final] # NoBytes
    BY <1>0 DEF Holds
  <2> QED BY <1>2, <2>1, <2>2, HoldsKept
<1>3. ASSUME Surroundings \/ Tick
      PROVE  UNCHANGED <<pc[w], job[w], loaded[w], bytes[w]>>
  <2>1. UNCHANGED workerVars
    BY <1>3 DEF Surroundings, EditDraft, IssueDraftAtomic, Tick, MirrorLegacyInvoice, UpdateRenderProfile,
                DeleteRenderProfile, RequestPreviewAtomic, CreateDeliveryAtomic
  <2> QED BY SMT, <2>1 DEF workerVars
<1>4. ASSUME Return(w)
      PROVE  Holds(w)'
  <2>1. pc'[w] = "idle" /\ loaded'[w] = 0
    BY <1>0, <1>4 DEF Return, Goto, WorkerTypes
  <2>2. 0 <= version'
    BY SMT, <1>0, InvoiceMonotone, InvoiceKeepsTypes DEF InvoiceTypes, RenderInv, NoFinalBeforeIssue
  <2> QED BY <2>1, <2>2 DEF Holds
<1>5. ASSUME NEW l \in Pcs, Goto(w, l), UNCHANGED <<job, loaded, bytes>>
      PROVE  UNCHANGED <<job[w], loaded[w], bytes[w]>> /\ pc'[w] = l
  BY <1>0, <1>5 DEF Goto, WorkerTypes
<1>6. ASSUME NEW j \in Jobs, Load(w, j)
      PROVE  Holds(w)'
  <2>1. /\ pc'[w] = "claim" /\ job'[w] = j /\ loaded'[w] = projection
        /\ status[j] # "none" /\ UNCHANGED invoiceVars
    BY <1>0, <1>6 DEF Load, Goto, WorkerTypes
  <2>2. status'[j] # "none"
    BY <2>1, StatusMonotone
  <2>3. projection <= version'
    BY <1>0, <2>1 DEF NothingAhead, invoiceVars
  <2> QED BY <2>1, <2>2, <2>3 DEF Holds
<1>7. CASE ClaimRender(w)
  <2>1. CASE Goto(w, "check") /\ UNCHANGED <<job, loaded, bytes>>
    BY <1>5, <1>7, <2>1, HoldsKept DEF ClaimRender, Pcs
  <2> QED BY <1>4, <1>7, <2>1 DEF ClaimRender
<1>8. CASE CheckVersion(w, "check", "render")
  <2>1. CASE Goto(w, "render") /\ UNCHANGED <<job, loaded, bytes>>
    BY <1>5, <1>8, <2>1, HoldsKept DEF CheckVersion, Pcs
  <2> QED BY <1>4, <1>8, <2>1 DEF CheckVersion, ObsoletePreviewRender
<1>9. CASE CheckVersion(w, "recheck", "complete")
  <2>1. CASE Goto(w, "complete") /\ UNCHANGED <<job, loaded, bytes, object>>
    <3>1. job[w] = Final => object'[Final] # NoBytes
      BY <1>0, <1>9, <2>1 DEF CheckVersion, Holds
    <3> QED BY <1>5, <1>9, <2>1, <3>1, HoldsKept DEF CheckVersion, Pcs
  <2> QED BY <1>4, <1>9, <2>1 DEF CheckVersion, ObsoletePreviewRender
<1>10. CASE Render(w)
  <2>1. /\ pc[w] = "render" /\ pc'[w] = "verify" /\ UNCHANGED <<job, loaded, status, invoiceVars>>
        /\ bytes'[w] = <<RenderedContent(w), profile>> /\ profile \in Profiles
    BY <1>0, <1>10 DEF Render, Goto, WorkerTypes, InvoiceTypes, jobVars
  <2>2. RenderedContent(w) \in 0 .. MaxVersion
    BY <1>0 DEF RenderedContent, WorkerTypes, InvoiceTypes
  <2>3. bytes'[w] # NoBytes /\ bytes'[w][1] = RenderedContent(w)
    BY SMT, <2>1, <2>2, RenderConstants
  <2> QED BY <1>0, <2>1, <2>3 DEF Holds, RenderedContent, invoiceVars
<1>11. CASE VerifyRenderLease(w)
  <2>1. CASE Goto(w, "upload") /\ UNCHANGED <<job, loaded, bytes>>
    BY <1>5, <1>11, <2>1, HoldsKept DEF VerifyRenderLease, Pcs
  <2> QED BY <1>4, <1>11, <2>1 DEF VerifyRenderLease
<1>12. CASE Upload(w)
  <2>1. pc[w] = "upload" /\ Goto(w, "recheck") /\ UNCHANGED <<job, loaded, bytes>>
    BY <1>12 DEF Upload
  <2>2. job[w] = Final => object'[Final] # NoBytes
    <3>1. bytes[w] # NoBytes
      BY <1>0, <2>1 DEF Holds
    <3> QED BY <1>12, <3>1, InvFacts DEF Upload, UploadFinal, OutputTypes
  <2> QED BY <1>5, <2>1, <2>2, HoldsKept DEF Pcs
<1>13. CASE CompletePreviewRender(w) \/ CompleteFinalRender(w) \/ FailRender(w) \/ WorkerStop(w)
  BY <1>4, <1>13 DEF CompletePreviewRender, CompleteFinalRender, FailRender, WorkerStop
<1>14. ASSUME NEW u \in Workers,
             \/ \E j \in Jobs : Load(u, j)
             \/ Attempt(u) \/ FailRender(u) \/ WorkerStop(u)
      PROVE  Holds(w)'
  <2>1. CASE u = w
    BY <1>6, <1>7, <1>8, <1>9, <1>10, <1>11, <1>12, <1>13, <1>14, <2>1 DEF Attempt
  <2>2. CASE u # w
    BY <1>1, <1>2, <1>14, <2>2
  <2> QED BY <2>1, <2>2
<1> QED BY <1>2, <1>3, <1>14 DEF Next

-----------------------------------------------------------------------------
(* The results.                                                            *)

\* The final job is requested by the issue, and its object uploaded later.
LEMMA IssueComesFirst ==
  ASSUME RenderInv, Next
  PROVE  NoFinalBeforeIssue' /\ ObjectIsOfIssued'
<1>0. Final \in Jobs /\ Final \notin Previews
  BY RenderConstants DEF Jobs
<1>1. NoFinalBeforeIssue'
  <2>1. ~issued' => version' <= MaxVersion
    BY InvFacts, InvoiceKeepsTypes DEF RenderInv, NoFinalBeforeIssue
  <2>2. ASSUME ~issued' PROVE status'[Final] = "none"
    <3>1. ~issued /\ ~IssueDraftAtomic /\ status[Final] = "none"
      BY <2>2, InvoiceMonotone DEF RenderInv, NoFinalBeforeIssue, IssueDraftAtomic
    <3> QED BY <1>0, <3>1, StatusSteps DEF Claimable, OwnsJob
  <2> QED BY <2>1, <2>2 DEF NoFinalBeforeIssue
<1>2. ObjectIsOfIssued'
  <2> SUFFICES ASSUME object'[Final] # NoBytes PROVE issued'
    BY DEF ObjectIsOfIssued
  <2>1. CASE UNCHANGED object[Final]
    BY <2>1, InvoiceMonotone DEF RenderInv, ObjectIsOfIssued
  <2>2. CASE \E w \in Workers : job[w] = Final /\ Upload(w)
    <3> PICK w \in Workers : job[w] = Final /\ Upload(w)
      BY <2>2
    <3>1. status[Final] # "none"
      BY DEF RenderInv, Holds, Upload
    <3> QED BY <3>1, InvoiceMonotone DEF RenderInv, NoFinalBeforeIssue
  <2> QED BY <1>0, <2>1, <2>2, ObjectSteps
<1> QED BY <1>1, <1>2

\* A job becomes completed by the completion of a worker that has it.
LEMMA CompletedBy ==
  ASSUME RenderInv, Next, NEW j \in Jobs, status[j] # "completed", status'[j] = "completed"
  PROVE  \E w \in Workers : job[w] = j /\ (CompletePreviewRender(w) \/ CompleteFinalRender(w))
<1>0. JobTypes
  BY InvFacts
<1>1. RequestPreviewAtomic(j) => status'[j] = "queued"
  BY <1>0 DEF RequestPreviewAtomic, Queue, JobTypes
<1>2. IssueDraftAtomic /\ j = Final => status'[j] = "queued"
  BY <1>0 DEF IssueDraftAtomic, Queue, JobTypes
<1> QED BY <1>1, <1>2, StatusSteps

\* The step that completes the final job finds the object uploaded.
LEMMA FinalKeepsContent ==
  ASSUME RenderInv, Next
  PROVE  FinalShowsIssuedContent'
<1>0. Final \in Jobs
  BY DEF Jobs
<1>1. object[Final] # NoBytes => object'[Final] = object[Final]
  BY <1>0, ObjectSteps
<1>2. ASSUME object'[Final] # NoBytes PROVE object'[Final][1] = frozen'
  <2>1. CASE UNCHANGED object[Final]
    <3>1. object[Final][1] = frozen /\ issued
      BY <1>2, <2>1 DEF RenderInv, FinalShowsIssuedContent, ObjectIsOfIssued
    <3> QED BY <2>1, <3>1, InvoiceMonotone
  <2>2. CASE \E w \in Workers : job[w] = Final /\ Upload(w) /\ object'[Final] = bytes[w]
    <3> PICK w \in Workers : job[w] = Final /\ Upload(w) /\ object'[Final] = bytes[w]
      BY <2>2
    <3>1. bytes[w][1] = frozen /\ frozen' = frozen
      BY DEF RenderInv, Holds, Upload, invoiceVars
    <3> QED BY <3>1
  <2> QED BY <1>0, <2>1, <2>2, ObjectSteps
<1>3. ASSUME status'[Final] = "completed" PROVE object'[Final] # NoBytes
  <2>1. CASE status[Final] = "completed"
    BY <1>1, <2>1 DEF RenderInv, FinalShowsIssuedContent
  <2>2. CASE status[Final] # "completed"
    <3>1. PICK w \in Workers : job[w] = Final /\ (CompletePreviewRender(w) \/ CompleteFinalRender(w))
      BY <1>0, <1>3, <2>2, CompletedBy
    <3>2. object[Final] # NoBytes
      BY <3>1 DEF RenderInv, Holds, CompletePreviewRender, CompleteFinalRender
    <3> QED BY <1>1, <3>2
  <2> QED BY <2>1, <2>2
<1> QED BY <1>2, <1>3 DEF FinalShowsIssuedContent

\* The step that completes a preview selects bytes that are not ahead of it.
LEMMA PreviewKeepsContent ==
  ASSUME RenderInv, Next
  PROVE  PreviewShowsNoLaterEdit'
<1> SUFFICES ASSUME NEW p \in Previews, status'[p] = "completed"
             PROVE  object'[p][1] <= source'[p]
  BY DEF PreviewShowsNoLaterEdit
<1>0. p \in Jobs /\ p # Final /\ JobTypes /\ OutputTypes /\ Assigned
  BY RenderConstants, InvFacts DEF Jobs
<1>1. CASE status[p] = "completed"
  <2>1. object[p][1] <= source[p] /\ UNCHANGED source[p]
    BY <1>0, <1>1, StatusMonotone DEF RenderInv, PreviewShowsNoLaterEdit
  <2>2. \A w \in Workers : job[w] = p => ~Settle(w, "completed")
    BY <1>1 DEF Settle, OwnsJob
  <2>3. UNCHANGED object[p]
    BY <1>0, <2>2, ObjectSteps
  <2> QED BY <2>1, <2>3
<1>2. CASE status[p] # "completed"
  <2>1. PICK w \in Workers : job[w] = p /\ CompletePreviewRender(w)
    <3>1. PICK w \in Workers : job[w] = p /\ (CompletePreviewRender(w) \/ CompleteFinalRender(w))
      BY <1>0, <1>2, CompletedBy
    <3> QED BY <1>0, <3>1 DEF CompleteFinalRender
  <2>2. /\ VersionIsSource(p) /\ object' = [object EXCEPT ![p] = bytes[w]] /\ UNCHANGED source
    <3>1. CASE Settle(w, "obsolete")
      BY <1>0, <2>1, <3>1 DEF Settle, JobTypes
    <3> QED BY <2>1, <3>1 DEF CompletePreviewRender, Settle
  <2>3. bytes[w][1] <= version
    BY <1>0, <2>1 DEF RenderInv, Holds, CompletePreviewRender
  <2> QED BY <1>0, <2>2, <2>3 DEF VersionIsSource, OutputTypes
<1> QED BY <1>1, <1>2

\* Deliveries are queued with the completion of the final job or after it.
LEMMA DeliveriesKeepOrder ==
  ASSUME RenderInv, Next
  PROVE  DeliveriesFollowFinal' /\ NoEarlyEvent'
<1>0. OutputTypes /\ JobTypes /\ Assigned /\ Final \in Jobs
  BY InvFacts
<1>1. CASE (\E w \in Workers : CompleteFinalRender(w))
  <2> PICK w \in Workers : CompleteFinalRender(w)
    BY <1>1
  <2>1. status'[Final] = "completed" /\ status[Final] = "processing"
    BY <1>0 DEF CompleteFinalRender, Settle, OwnsJob, JobTypes
  <2> SUFFICES ASSUME NEW d \in Deliveries
               PROVE  /\ delivery'[d] # "waiting_for_render"
                      /\ delivery'[d] = "queued" => events'[d] = 1
                      /\ delivery'[d] = "none" => events'[d] = 0
    BY <2>1 DEF DeliveriesFollowFinal, NoEarlyEvent
  <2>2. CASE d \in Waiting
    <3>1. events[d] = 0 /\ events'[d] = events[d] + 1 /\ delivery'[d] = "queued"
      BY <2>2 DEF RenderInv, DeliveriesFollowFinal, Waiting, CompleteFinalRender
    <3> QED BY SMT, <3>1
  <2>3. CASE d \notin Waiting
    <3>1. delivery'[d] = delivery[d] /\ events'[d] = events[d] /\ delivery[d] # "waiting_for_render"
      BY <2>3 DEF Waiting, CompleteFinalRender
    <3> QED BY <2>1, <3>1 DEF RenderInv, DeliveriesFollowFinal, NoEarlyEvent
  <2> QED BY <2>2, <2>3
<1>2. CASE \E d \in Deliveries : CreateDeliveryAtomic(d)
  <2> PICK e \in Deliveries : CreateDeliveryAtomic(e)
    BY <1>2
  <2>1. UNCHANGED status
    BY DEF CreateDeliveryAtomic, jobVars
  <2>2. events[e] = 0
    BY DEF CreateDeliveryAtomic, RenderInv, NoEarlyEvent
  <2>3. CASE /\ status[Final] \in {"queued", "processing", "failed"}
             /\ delivery' = [delivery EXCEPT ![e] = "waiting_for_render"] /\ UNCHANGED events
    BY <1>0, <2>1, <2>2, <2>3 DEF RenderInv, DeliveriesFollowFinal, NoEarlyEvent, OutputTypes
  <2>4. CASE /\ status[Final] = "completed"
             /\ delivery' = [delivery EXCEPT ![e] = "queued"]
             /\ events' = [events EXCEPT ![e] = @ + 1]
    <3>1. events[e] + 1 = 1
      BY SMT, <2>2
    <3> QED BY <1>0, <2>1, <2>4, <3>1 DEF RenderInv, DeliveriesFollowFinal, NoEarlyEvent, OutputTypes
  <2> QED BY <2>3, <2>4 DEF CreateDeliveryAtomic
<1>3. ASSUME UNCHANGED deliveryVars, \A w \in Workers : ~CompleteFinalRender(w)
      PROVE  DeliveriesFollowFinal' /\ NoEarlyEvent'
  <2>1. status'[Final] = "completed" <=> status[Final] = "completed"
    BY <1>0, <1>3, StatusMonotone, CompletedBy DEF CompletePreviewRender
  <2> QED BY <1>3, <2>1 DEF RenderInv, DeliveriesFollowFinal, NoEarlyEvent, deliveryVars
<1>4. ASSUME NEW w \in Workers, Attempt(w) \/ FailRender(w) \/ WorkerStop(w), ~CompleteFinalRender(w)
      PROVE  UNCHANGED deliveryVars
  BY <1>4 DEF Attempt, ClaimRender, CheckVersion, ObsoletePreviewRender, Render, VerifyRenderLease,
              Upload, CompletePreviewRender, FailRender, WorkerStop
<1>5. ASSUME \/ EditDraft \/ IssueDraftAtomic \/ Tick
             \/ \E v \in 1 .. MaxVersion : MirrorLegacyInvoice(v)
             \/ \E p \in Profiles \cup {NoProfile} : UpdateRenderProfile(p)
             \/ \E p \in Previews : RequestPreviewAtomic(p)
             \/ \E w \in Workers, j \in Jobs : Load(w, j)
      PROVE  UNCHANGED deliveryVars
  BY <1>5 DEF EditDraft, IssueDraftAtomic, Tick, MirrorLegacyInvoice, UpdateRenderProfile,
              RequestPreviewAtomic, Load
<1> QED
  BY <1>1, <1>2, <1>3, <1>4, <1>5 DEF Next, Surroundings, DeleteRenderProfile

\* Initially nothing was requested.
LEMMA InitInv == Init => RenderInv
<1> SUFFICES ASSUME Init PROVE RenderInv
  OBVIOUS
<1>0. Final \in Jobs /\ Previews \subseteq Jobs
  BY DEF Jobs
<1>1. InvoiceTypes /\ NothingAhead /\ NoFinalBeforeIssue
  <2>1. 1 \in 1 .. MaxVersion + 1 /\ 1 \in 1 .. MaxVersion /\ 0 \in 0 .. MaxVersion /\ 1 <= 1 /\ 1 <= MaxVersion
    BY SMT, RenderConstants
  <2> QED BY <1>0, <2>1 DEF Init, InvoiceTypes, NothingAhead, NoFinalBeforeIssue
<1>2. JobTypes
  BY SMT, RenderConstants DEF Init, JobTypes, JobStatus
<1>3. OutputTypes
  BY SMT DEF Init, OutputTypes, Images
<1>4. WorkerTypes
  BY SMT, RenderConstants DEF Init, WorkerTypes, Pcs, Images
<1>5. \A w \in Workers : Holds(w)
  BY SMT DEF Init, Holds
<1>6. ObjectIsOfIssued /\ NoEarlyEvent
  BY <1>0 DEF Init, ObjectIsOfIssued, NoEarlyEvent
<1>7. FinalShowsIssuedContent /\ PreviewShowsNoLaterEdit /\ DeliveriesFollowFinal
  BY <1>0 DEF Init, FinalShowsIssuedContent, PreviewShowsNoLaterEdit, DeliveriesFollowFinal
<1> QED BY <1>1, <1>2, <1>3, <1>4, <1>5, <1>6, <1>7, TypeParts DEF RenderInv

\* Every step keeps the invariant.
LEMMA StepInv == RenderInv /\ [Next]_vars => RenderInv'
<1> SUFFICES ASSUME RenderInv, [Next]_vars PROVE RenderInv'
  OBVIOUS
<1>1. CASE Next
  <2>1. TypeOK'
    <3>1. InvoiceTypes' /\ JobTypes' /\ OutputTypes' /\ WorkerTypes'
      BY <1>1, InvFacts, InvoiceKeepsTypes, JobsKeepTypes, OutputsKeepTypes, WorkersKeepTypes
         DEF RenderInv, NoFinalBeforeIssue
    <3> QED BY <3>1 DEF TypeOK, InvoiceTypes, JobTypes, JobStatus, OutputTypes, WorkerTypes, Pcs
  <2>2. NoFinalBeforeIssue' /\ ObjectIsOfIssued' /\ NothingAhead'
    BY <1>1, IssueComesFirst, InvoiceMonotone
  <2>3. \A w \in Workers : Holds(w)'
    BY <1>1, WorkersHold
  <2>4. FinalShowsIssuedContent' /\ PreviewShowsNoLaterEdit' /\ DeliveriesFollowFinal' /\ NoEarlyEvent'
    BY <1>1, FinalKeepsContent, PreviewKeepsContent, DeliveriesKeepOrder
  <2> QED BY <2>1, <2>2, <2>3, <2>4 DEF RenderInv
<1>2. CASE UNCHANGED vars
  BY <1>2 DEF vars, invoiceVars, jobVars, deliveryVars, workerVars, RenderInv, TypeOK, Jobs,
              NoFinalBeforeIssue, NothingAhead, Holds, ObjectIsOfIssued, NoEarlyEvent,
              FinalShowsIssuedContent, PreviewShowsNoLaterEdit, DeliveriesFollowFinal
<1> QED BY <1>1, <1>2

\* The invariant holds throughout.
LEMMA InvHolds == Spec => []RenderInv
BY InitInv, StepInv, PTL DEF Spec

\* Every variable of the render jobs keeps its type.
THEOREM RenderTypes == Spec => []TypeOK
<1>1. RenderInv => TypeOK
  BY DEF RenderInv
<1> QED BY InvHolds, <1>1, PTL

\* The final PDF shows the issued content, and a completed final job has its
\* PDF (generateDocumentPDF, CompleteFinalRender).
THEOREM FinalPdfIsOfTheIssue == Spec => []FinalShowsIssuedContent
<1>1. RenderInv => FinalShowsIssuedContent
  BY DEF RenderInv
<1> QED BY InvHolds, <1>1, PTL

\* A preview shows no edit later than its version (CompletePreviewRender).
THEOREM PreviewsAreNotAhead == Spec => []PreviewShowsNoLaterEdit
<1>1. RenderInv => PreviewShowsNoLaterEdit
  BY DEF RenderInv
<1> QED BY InvHolds, <1>1, PTL

\* Deliveries wait exactly as long as the final render is missing, and each is
\* queued with one event (CreateDeliveryAtomic, queueWaitingInvoiceDeliveries).
THEOREM DeliveriesWaitForFinal == Spec => []DeliveriesFollowFinal
<1>1. RenderInv => DeliveriesFollowFinal
  BY DEF RenderInv
<1> QED BY InvHolds, <1>1, PTL

\* What SES may have sent cannot change afterwards: a final PDF once stored is
\* never replaced, and a completed job never leaves that state, whatever the
\* later attempts render (UploadIfAbsent, ClaimFinalRender).
FinalPdfIsPermanent ==
  /\ object[Final] # NoBytes => object'[Final] = object[Final]
  /\ \A j \in Jobs : status[j] = "completed" => status'[j] = "completed" /\ object'[j] = object[j]

\* No step replaces a final PDF or reopens a completed job.
THEOREM PdfsArePermanent == Spec => [][FinalPdfIsPermanent]_vars
<1>1. RenderInv /\ [Next]_vars => [FinalPdfIsPermanent]_vars
  <2> SUFFICES ASSUME RenderInv, Next PROVE FinalPdfIsPermanent
    OBVIOUS
  <2>1. object[Final] # NoBytes => object'[Final] = object[Final]
    BY ObjectSteps, InvFacts
  <2>2. ASSUME NEW j \in Jobs, status[j] = "completed"
        PROVE  status'[j] = "completed" /\ object'[j] = object[j]
    <3>1. j = Final => object[Final] # NoBytes
      BY <2>2 DEF RenderInv, FinalShowsIssuedContent
    <3>2. \A w \in Workers : job[w] = j => ~Settle(w, "completed")
      BY <2>2 DEF Settle, OwnsJob
    <3> QED BY <2>2, <3>1, <3>2, StatusMonotone, ObjectSteps
  <2> QED BY <2>1, <2>2 DEF FinalPdfIsPermanent
<1> QED BY InvHolds, <1>1, PTL DEF Spec

=============================================================================
