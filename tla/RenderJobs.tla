----------------------------- MODULE RenderJobs -----------------------------
(***************************************************************************)
(* Preview and final renders of one invoice, from the request to the PDF   *)
(* object, and the deliveries that wait for the final one.  A worker is    *)
(* one execution of the queue handler with a lease owner of its own; a job *)
(* message may be delivered at any time and any number of times.  Edits of *)
(* the draft, of its projection and of the render profile go on meanwhile. *)
(*                                                                         *)
(* The content of a draft is named by the version that introduced it.      *)
(***************************************************************************)
EXTENDS Naturals, FiniteSets

CONSTANTS Workers,          \* executions of the invoice queue handler
          Previews,         \* preview jobs
          Final,            \* the final job
          Deliveries,       \* delivery attempts
          Profiles,         \* what the render profile may say
          NoProfile,        \* the render profile is deleted
          NoOwner, NoJob, NoBytes,
          LeaseTime,        \* canonicalRenderLeaseDuration
          MaxVersion        \* bound on the edits of the draft

ASSUME RenderConstants ==
    /\ Final \notin Previews
    /\ NoProfile \notin Profiles
    /\ NoOwner \notin Workers
    /\ NoJob \notin Previews \cup {Final}
    /\ NoBytes \notin (0 .. MaxVersion) \X Profiles
    /\ LeaseTime \in Nat \ {0}
    /\ MaxVersion \in Nat \ {0}

VARIABLES
    version, issued,        \* of the invoice
    projection,             \* content of its document
    mirrors,                \* edits whose mirroring is still to come
    profile,                \* content of the render profile
    frozen,                 \* content of the final_render_snapshot revision
    status, source, owner, lease, object,   \* rows of document_render_jobs
    delivery, events,       \* email_deliveries, and their outbox events
    pc, job, loaded, bytes  \* of each worker

invoiceVars == <<version, issued, projection, mirrors, frozen>>
jobVars == <<status, source, owner, lease>>
deliveryVars == <<delivery, events>>
workerVars == <<pc, job, loaded, bytes>>
vars == <<invoiceVars, profile, jobVars, object, deliveryVars, workerVars>>

Jobs == Previews \cup {Final}

-----------------------------------------------------------------------------
(* The invoice and its surroundings. *)

\* A committed edit of the draft; MirrorLegacyInvoice follows outside of the
\* transaction, or never.
EditDraft ==
    /\ ~issued
    /\ version < MaxVersion
    /\ version' = version + 1
    /\ mirrors' = mirrors \cup {version + 1}
    /\ UNCHANGED <<issued, projection, frozen, profile, jobVars, object, deliveryVars, workerVars>>

MirrorLegacyInvoice(v) ==
    /\ v \in mirrors
    /\ projection' = v
    /\ mirrors' = mirrors \ {v}
    /\ UNCHANGED <<version, issued, frozen, profile, jobVars, object, deliveryVars, workerVars>>

\* UpdateRenderProfileByBusiness changes the row the jobs refer to.
UpdateRenderProfile(p) ==
    /\ profile # NoProfile
    /\ profile' = p
    /\ UNCHANGED <<invoiceVars, jobVars, object, deliveryVars, workerVars>>

DeleteRenderProfile == UpdateRenderProfile(NoProfile)

Queue(j, v) ==
    /\ status' = [status EXCEPT ![j] = "queued"]
    /\ source' = [source EXCEPT ![j] = v]
    /\ UNCHANGED <<owner, lease>>

\* RequestPreviewAtomic validates the projection first.
RequestPreviewAtomic(p) ==
    /\ ~issued /\ projection = version
    /\ status[p] = "none"
    /\ Queue(p, version)
    /\ UNCHANGED <<invoiceVars, profile, object, deliveryVars, workerVars>>

\* IssueDraftAtomic freezes the projection it validated.
IssueDraftAtomic ==
    /\ ~issued /\ projection = version
    /\ issued' = TRUE
    /\ version' = version + 1
    /\ frozen' = projection
    /\ Queue(Final, version + 1)
    /\ UNCHANGED <<projection, mirrors, profile, object, deliveryVars, workerVars>>

\* Slip: the delivery waits without looking at the state of the job.
CreateDeliveryAtomic_Waits(d) ==
    /\ delivery[d] = "none"
    /\ status[Final] \in {"queued", "processing", "failed", "completed"}
    /\ delivery' = [delivery EXCEPT ![d] = "waiting_for_render"]
    /\ UNCHANGED <<events, invoiceVars, profile, jobVars, object, workerVars>>

\* CreateDeliveryAtomic decides under a lock on the final job's row whether
\* the delivery waits or is queued together with its outbox event.
CreateDeliveryAtomic(d) ==
    /\ delivery[d] = "none"
    /\ source[Final] = version
    /\ \/ /\ status[Final] \in {"queued", "processing", "failed"}
          /\ delivery' = [delivery EXCEPT ![d] = "waiting_for_render"]
          /\ UNCHANGED events
       \/ /\ status[Final] = "completed"
          /\ delivery' = [delivery EXCEPT ![d] = "queued"]
          /\ events' = [events EXCEPT ![d] = @ + 1]
    /\ UNCHANGED <<invoiceVars, profile, jobVars, object, workerVars>>

-----------------------------------------------------------------------------
(* The worker. *)

Goto(w, l) == pc' = [pc EXCEPT ![w] = l]

Return(w) ==
    /\ Goto(w, "idle")
    /\ job' = [job EXCEPT ![w] = NoJob]
    /\ loaded' = [loaded EXCEPT ![w] = 0]
    /\ bytes' = [bytes EXCEPT ![w] = NoBytes]

\* generateDocumentPDF loads the document before it knows anything of the job.
Load(w, j) ==
    /\ pc[w] = "idle"
    /\ status[j] # "none"
    /\ Goto(w, "claim")
    /\ job' = [job EXCEPT ![w] = j]
    /\ loaded' = [loaded EXCEPT ![w] = projection]
    /\ UNCHANGED <<bytes, invoiceVars, profile, jobVars, object, deliveryVars>>

\* Slip: a job left in processing is never taken over.
Claimable_NeverExpires(j) == status[j] \in {"queued", "failed"}

Claimable(j) ==
    \/ status[j] \in {"queued", "failed"}
    \/ status[j] = "processing" /\ lease[j] = 0

LeaseGranted == LeaseTime

\* ClaimFinalRender and ClaimPreviewRender.  A job that is completed, obsolete
\* or held by another worker ends the call.
ClaimRender(w) ==
    /\ pc[w] = "claim"
    /\ IF Claimable(job[w])
       THEN /\ status' = [status EXCEPT ![job[w]] = "processing"]
            /\ owner' = [owner EXCEPT ![job[w]] = w]
            /\ lease' = [lease EXCEPT ![job[w]] = LeaseGranted]
            /\ Goto(w, "check")
            /\ UNCHANGED <<source, job, loaded, bytes>>
       ELSE Return(w) /\ UNCHANGED jobVars
    /\ UNCHANGED <<invoiceVars, profile, object, deliveryVars>>

\* The condition of every statement that ends a claim; none of them looks at
\* the expiry of the lease.
OwnsJob(w) == status[job[w]] = "processing" /\ owner[job[w]] = w

\* Ends the claim with status s.
Settle(w, s) ==
    /\ OwnsJob(w)
    /\ status' = [status EXCEPT ![job[w]] = s]
    /\ owner' = [owner EXCEPT ![job[w]] = NoOwner]
    /\ lease' = [lease EXCEPT ![job[w]] = 0]
    /\ UNCHANGED source

\* FailFinalRender and FailPreviewRender; their own error is dropped.
FailRender(w) ==
    /\ pc[w] \in {"check", "render", "upload", "recheck", "complete"}
    /\ Settle(w, "failed") \/ UNCHANGED jobVars
    /\ Return(w)
    /\ UNCHANGED <<invoiceVars, profile, object, deliveryVars>>

\* Slip: the invoice is not looked at again.
VersionIsSource_Assumed(j) == TRUE

VersionIsSource(j) == version = source[j]

\* A final render of another version fails, a preview becomes obsolete.
ObsoletePreviewRender(w) ==
    /\ job[w] # Final
    /\ Settle(w, "obsolete") \/ (~OwnsJob(w) /\ UNCHANGED jobVars)
    /\ Return(w)
    /\ UNCHANGED <<invoiceVars, profile, object, deliveryVars>>

\* currentInvoiceVersion, after the claim and again after the upload.
CheckVersion(w, here, next) ==
    /\ pc[w] = here
    /\ \/ /\ VersionIsSource(job[w])
          /\ Goto(w, next)
          /\ UNCHANGED <<job, loaded, bytes, invoiceVars, profile, jobVars, object, deliveryVars>>
       \/ ~VersionIsSource(job[w]) /\ ObsoletePreviewRender(w)

\* Slip: the final render shows the document that was loaded.
RenderedContent_Loaded(w) == loaded[w]

\* A preview shows the document as loaded, a final render the frozen snapshot.
RenderedContent(w) == IF job[w] = Final THEN frozen ELSE loaded[w]

\* The profile is loaded by its identifier at the time of rendering.
Render(w) ==
    /\ pc[w] = "render"
    /\ profile # NoProfile
    /\ bytes' = [bytes EXCEPT ![w] = <<RenderedContent(w), profile>>]
    /\ Goto(w, "verify")
    /\ UNCHANGED <<job, loaded, invoiceVars, profile, jobVars, object, deliveryVars>>

\* VerifyRenderLease; without the lease nothing is written, not even a failure.
VerifyRenderLease(w) ==
    /\ pc[w] = "verify"
    /\ IF OwnsJob(w) /\ lease[job[w]] > 0
       THEN Goto(w, "upload") /\ UNCHANGED <<job, loaded, bytes>>
       ELSE Return(w)
    /\ UNCHANGED <<invoiceVars, profile, jobVars, object, deliveryVars>>

\* UploadIfAbsent: an existing object must have the same bytes.
UploadFinal(w) ==
    /\ object[Final] \in {NoBytes, bytes[w]}
    /\ object' = [object EXCEPT ![Final] = bytes[w]]

\* A preview goes to a key of its own attempt, which stays with the worker.
Upload(w) ==
    /\ pc[w] = "upload"
    /\ IF job[w] = Final THEN UploadFinal(w) ELSE UNCHANGED object
    /\ Goto(w, "recheck")
    /\ UNCHANGED <<job, loaded, bytes, invoiceVars, profile, jobVars, deliveryVars>>

\* CompletePreviewRender selects the attempt's object.
CompletePreviewRender(w) ==
    /\ pc[w] = "complete" /\ job[w] # Final
    /\ IF VersionIsSource(job[w])
       THEN Settle(w, "completed") /\ object' = [object EXCEPT ![job[w]] = bytes[w]]
       ELSE Settle(w, "obsolete") /\ UNCHANGED object
    /\ Return(w)
    /\ UNCHANGED <<invoiceVars, profile, deliveryVars>>

Waiting == {d \in Deliveries : delivery[d] = "waiting_for_render"}

\* CompleteFinalRender queues the waiting deliveries in its transaction.
CompleteFinalRender(w) ==
    /\ pc[w] = "complete" /\ job[w] = Final
    /\ VersionIsSource(Final)
    /\ Settle(w, "completed")
    /\ delivery' = [d \in Deliveries |-> IF d \in Waiting THEN "queued" ELSE delivery[d]]
    /\ events' = [d \in Deliveries |-> IF d \in Waiting THEN events[d] + 1 ELSE events[d]]
    /\ Return(w)
    /\ UNCHANGED <<invoiceVars, profile, object>>

\* The process stops or the context ends.
WorkerStop(w) ==
    /\ pc[w] # "idle"
    /\ Return(w)
    /\ UNCHANGED <<invoiceVars, profile, jobVars, object, deliveryVars>>

Tick ==
    /\ \E j \in Jobs : lease[j] > 0
    /\ lease' = [j \in Jobs |-> IF lease[j] > 0 THEN lease[j] - 1 ELSE 0]
    /\ UNCHANGED <<invoiceVars, profile, status, source, owner, object, deliveryVars, workerVars>>

-----------------------------------------------------------------------------
Init ==
    /\ version = 1 /\ issued = FALSE
    /\ projection = 1 /\ mirrors = {} /\ frozen = 0
    /\ profile \in Profiles
    /\ status = [j \in Jobs |-> "none"]
    /\ source = [j \in Jobs |-> 0]
    /\ owner = [j \in Jobs |-> NoOwner]
    /\ lease = [j \in Jobs |-> 0]
    /\ object = [j \in Jobs |-> NoBytes]
    /\ delivery = [d \in Deliveries |-> "none"]
    /\ events = [d \in Deliveries |-> 0]
    /\ pc = [w \in Workers |-> "idle"]
    /\ job = [w \in Workers |-> NoJob]
    /\ loaded = [w \in Workers |-> 0]
    /\ bytes = [w \in Workers |-> NoBytes]

Attempt(w) ==
    \/ ClaimRender(w)
    \/ CheckVersion(w, "check", "render")
    \/ Render(w)
    \/ VerifyRenderLease(w)
    \/ Upload(w)
    \/ CheckVersion(w, "recheck", "complete")
    \/ CompletePreviewRender(w)
    \/ CompleteFinalRender(w)

Surroundings ==
    \/ EditDraft
    \/ \E v \in 1 .. MaxVersion : MirrorLegacyInvoice(v)
    \/ \E p \in Profiles : UpdateRenderProfile(p)
    \/ DeleteRenderProfile
    \/ \E p \in Previews : RequestPreviewAtomic(p)
    \/ IssueDraftAtomic
    \/ \E d \in Deliveries : CreateDeliveryAtomic(d)

Next ==
    \/ Surroundings
    \/ \E w \in Workers, j \in Jobs : Load(w, j)
    \/ \E w \in Workers : Attempt(w) \/ FailRender(w) \/ WorkerStop(w)
    \/ Tick

Spec == Init /\ [][Next]_vars

\* Worker w holds an unexpired lease on the final job.
InTime(w) == job[w] = Final /\ OwnsJob(w) /\ lease[Final] > 0

\* A message that was not acknowledged is delivered again, leases run out, and
\* some attempt gets through each of its steps uninterrupted and in time.
Fairness ==
    /\ WF_vars(Tick)
    /\ SF_vars(\E w \in Workers : Load(w, Final))
    /\ SF_vars(\E w \in Workers : job[w] = Final /\ ClaimRender(w))
    /\ WF_vars(\E w \in Workers : Attempt(w) \/ FailRender(w))
    /\ SF_vars(\E w \in Workers : InTime(w) /\ CheckVersion(w, "check", "render"))
    /\ SF_vars(\E w \in Workers : InTime(w) /\ Render(w))
    /\ SF_vars(\E w \in Workers : InTime(w) /\ VerifyRenderLease(w))
    /\ SF_vars(\E w \in Workers : InTime(w) /\ Upload(w))
    /\ SF_vars(\E w \in Workers : InTime(w) /\ CheckVersion(w, "recheck", "complete"))
    /\ SF_vars(\E w \in Workers : InTime(w) /\ CompleteFinalRender(w))

FairSpec == Spec /\ Fairness

-----------------------------------------------------------------------------
(* Properties. *)

Images == ((0 .. MaxVersion) \X Profiles) \cup {NoBytes}

TypeOK ==
    /\ version \in 1 .. MaxVersion + 1 /\ issued \in BOOLEAN
    /\ projection \in 1 .. MaxVersion /\ mirrors \subseteq 1 .. MaxVersion
    /\ frozen \in 0 .. MaxVersion
    /\ profile \in Profiles \cup {NoProfile}
    /\ status \in [Jobs -> {"none", "queued", "processing", "completed", "failed", "obsolete"}]
    /\ source \in [Jobs -> 0 .. MaxVersion + 1]
    /\ owner \in [Jobs -> Workers \cup {NoOwner}]
    /\ lease \in [Jobs -> 0 .. LeaseTime]
    /\ object \in [Jobs -> Images]
    /\ delivery \in [Deliveries -> {"none", "waiting_for_render", "queued"}]
    /\ events \in [Deliveries -> Nat]
    /\ pc \in [Workers -> {"idle", "claim", "check", "render", "verify", "upload",
                           "recheck", "complete"}]
    /\ job \in [Workers -> Jobs \cup {NoJob}]
    /\ loaded \in [Workers -> 0 .. MaxVersion]
    /\ bytes \in [Workers -> Images]

\* The final PDF shows the content that was issued, and a completed job has
\* its PDF, whatever was mirrored late and however the attempts interleaved.
FinalShowsIssuedContent ==
    /\ object[Final] # NoBytes => object[Final][1] = frozen
    /\ status[Final] = "completed" => object[Final] # NoBytes

\* A preview never shows an edit later than the version it is a preview of,
\* although the document was loaded before the job was claimed.
PreviewShowsNoLaterEdit ==
    \A p \in Previews : status[p] = "completed" => object[p][1] <= source[p]

\* No delivery waits for a final render that is already there, none is queued
\* before it is, and each queued one has exactly one outbox event.
DeliveriesFollowFinal ==
    \A d \in Deliveries :
        /\ delivery[d] = "waiting_for_render" => status[Final] # "completed" /\ events[d] = 0
        /\ delivery[d] = "queued" => status[Final] = "completed" /\ events[d] = 1

\* Once issued the final render completes, unless its profile is deleted or an
\* earlier attempt left an object that the present profile does not reproduce.
FinalCompletes ==
    <>[](issued /\ profile # NoProfile /\ object[Final] \in {NoBytes, <<frozen, profile>>})
        => <>(status[Final] = "completed")

-----------------------------------------------------------------------------
(* What the documents say and the code does not do. *)

\* A failed final render remains recoverable work: with a render profile that
\* is no longer edited it completes.
FinalRemainsRecoverable ==
    (\E p \in Profiles : <>[](issued /\ profile = p)) => <>(status[Final] = "completed")

=============================================================================
