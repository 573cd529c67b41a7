------------------------------ MODULE BulkImport ------------------------------
(***************************************************************************)
(* One two-phase CSV import: validation, commit, worker batches, result    *)
(* file and completion notice (internal/services/bulk_import_service.go,   *)
(* internal/workers/bulk_import_worker.go).                                *)
(*                                                                         *)
(* A job is committed by queue deliveries under a lease, a batch of rows   *)
(* at a time; a maintenance pass republishes what was left behind.  The    *)
(* queue delivers at least once and drops a message after MaxReceive       *)
(* deliveries.  Time is not counted, but whatever waits for a timer (a      *)
(* retry time, a lease, the visibility of a message) counts as a fault when *)
(* it happens while a delivery is at work: deliveries are short.            *)
(***************************************************************************)
EXTENDS Naturals, FiniteSets

CONSTANTS
    NumRows,       \* rows of the file
    BatchSize,     \* bulkImportBatchSize
    MaxAttempts,   \* bulkImportMaxAttempts
    MaxReceive,    \* maxReceiveCount of the queue
    MaxFaults,     \* bound on crashes, failed calls, lost answers and slow owners
    Validators,    \* validation requests that may run at the same time
    Requests,      \* commit requests, all with the job's one command
    Recoverer,     \* the maintenance pass
    Workers,       \* queue deliveries that may run at the same time
    NoOwner        \* lease_owner is empty

ASSUME BulkImportAssumption ==
    /\ NumRows \in Nat /\ BatchSize \in Nat \ {0}
    /\ MaxAttempts \in Nat \ {0} /\ MaxReceive \in Nat \ {0} /\ MaxFaults \in Nat
    /\ NoOwner \notin Workers /\ Recoverer \notin Requests

VARIABLES
    job,       \* the bulk_jobs row
    rows,      \* status of each bulk_job_rows row
    imported,  \* rows whose entity this job has created
    existing,  \* rows whose entity somebody else has created
    goodFile,  \* the file has a valid header, size and digest
    object,    \* the result file in the bucket
    queue,     \* queue[n]: visible messages that were received n times
    val,       \* validation requests
    pub,       \* commit requests and the maintenance pass
    wrk,       \* queue deliveries
    faults     \* faults so far

vars == <<job, rows, imported, existing, goodFile, object, queue, val, pub, wrk, faults>>

Rows       == 1 .. NumRows
RowStatus  == {"absent", "validated", "invalid", "succeeded"}
Statuses   == {"none", "validating", "validated", "commit_queued", "committing",
               "completed", "failed", "canceled"}
Ended      == {"completed", "failed", "canceled"}
NoReport   == [r \in Rows |-> "absent"]
Publishers == Requests \cup {Recoverer}

RestingWorker == [pc |-> "idle", got |-> 0, todo |-> {}, report |-> NoReport]

JobRows ==
    [status : Statuses, command : BOOLEAN, attempts : 0 .. MaxAttempts,
     retry : {"none", "now", "later"}, owner : Workers \cup {NoOwner},
     lease : {"none", "live", "over"}, total : Nat, failed : Nat, succeeded : Nat,
     artifact : {"none", "pending", "ready"}, notice : {"pending", "sent", "failed"}]
ValStates  == [pc : {"idle", "reset", "rows"}, at : 1 .. NumRows + 1]
WorkStates ==
    [pc : {"idle", "claim", "rows", "count", "requeue", "publish", "report",
           "open", "upload", "ready", "complete", "notify", "retry"},
     got : 0 .. MaxReceive, todo : SUBSET Rows, report : [Rows -> RowStatus]]

TypeOK ==
    /\ job \in JobRows
    /\ job.attempts = MaxAttempts => job.status = "failed"
    /\ rows \in [Rows -> RowStatus]
    /\ imported \subseteq Rows /\ existing \subseteq Rows
    /\ goodFile \in BOOLEAN
    /\ object \in [Rows -> RowStatus]
    /\ queue \in [0 .. MaxReceive - 1 -> Nat]
    /\ val \in [Validators -> ValStates]
    /\ pub \in [Publishers -> {"idle", "publish", "clear", "retry"}]
    /\ wrk \in [Workers -> WorkStates]
    /\ faults \in 0 .. MaxFaults

Init ==
    /\ job = [status |-> "none", command |-> FALSE, attempts |-> 0, retry |-> "none",
              owner |-> NoOwner, lease |-> "none", total |-> 0, failed |-> 0,
              succeeded |-> 0, artifact |-> "none", notice |-> "pending"]
    /\ rows = NoReport
    /\ imported = {} /\ existing = {}
    /\ goodFile \in BOOLEAN
    /\ object = NoReport
    /\ queue = [n \in 0 .. MaxReceive - 1 |-> 0]
    /\ val = [v \in Validators |-> [pc |-> "idle", at |-> 1]]
    /\ pub = [p \in Publishers |-> "idle"]
    /\ wrk = [w \in Workers |-> RestingWorker]
    /\ faults = 0

Fault == faults < MaxFaults /\ faults' = faults + 1

\* Something that is a fault only when p holds.
FaultIf(p) == IF p THEN Fault ELSE UNCHANGED faults
Busy     == \E w \in Workers : wrk[w].pc # "idle"

-------------------------------------------------------------------------------
(* ValidatePreview.  A first request creates the job; a repeated one for a  *)
(* job still validating deletes its rows and starts over.                   *)

ValStart(v) ==
    /\ val[v].pc = "idle"
    /\ \/ /\ job.status = "none"
          /\ job' = [job EXCEPT !.status = "validating"]
          /\ val' = [val EXCEPT ![v] = [pc |-> "rows", at |-> 1]]
       \/ /\ job.status = "validating"
          /\ val' = [val EXCEPT ![v] = [pc |-> "reset", at |-> 1]]
          /\ UNCHANGED job
    /\ UNCHANGED <<rows, imported, existing, goodFile, object, queue, pub, wrk, faults>>

\* The job was seen validating before this transaction, which does not look again.
ValReset(v) ==
    /\ val[v].pc = "reset"
    /\ rows' = NoReport
    /\ job' = [job EXCEPT !.total = 0, !.failed = 0, !.succeeded = 0]
    /\ val' = [val EXCEPT ![v] = [@ EXCEPT !.pc = "rows"]]
    /\ UNCHANGED <<imported, existing, goodFile, object, queue, pub, wrk, faults>>

Idled(v) == [val EXCEPT ![v] = [pc |-> "idle", at |-> 1]]

\* validateBulkImportRow and persistValidationRow; a row number that is taken
\* breaks the unique index and ends the request.
ValRow(v) ==
    LET r == val[v].at IN
    /\ val[v].pc = "rows" /\ r \in Rows
    /\ IF rows[r] # "absent"
       THEN val' = Idled(v) /\ UNCHANGED <<job, rows>>
       ELSE \E s \in {"validated", "invalid"} :
              /\ r \in existing \cup imported => s = "invalid"
              /\ rows' = [rows EXCEPT ![r] = s]
              /\ job' = [job EXCEPT !.total = @ + 1,
                                    !.failed = IF s = "invalid" THEN @ + 1 ELSE @]
              /\ val' = [val EXCEPT ![v] = [@ EXCEPT !.at = r + 1]]
    /\ UNCHANGED <<imported, existing, goodFile, object, queue, pub, wrk, faults>>

\* End of the file, or failValidation, which writes whatever the status is.
ValEnd(v) ==
    /\ val[v].pc = "rows"
    /\ \/ /\ goodFile /\ val[v].at = NumRows + 1
          /\ job' = IF job.status = "validating"
                    THEN [job EXCEPT !.status = "validated"] ELSE job
       \/ /\ ~goodFile
          /\ job' = [job EXCEPT !.status = "failed"]
    /\ val' = Idled(v)
    /\ UNCHANGED <<rows, imported, existing, goodFile, object, queue, pub, wrk, faults>>

ValCrash(v) ==
    /\ val[v].pc # "idle" /\ Fault
    /\ val' = Idled(v)
    /\ UNCHANGED <<job, rows, imported, existing, goodFile, object, queue, pub, wrk>>

-------------------------------------------------------------------------------
(* recordRetry, and the calls that publish a message and may have to use it. *)

Retried(j) ==
    LET n == j.attempts + 1 IN
    IF j.status \notin {"commit_queued", "committing"} THEN j
    ELSE [j EXCEPT !.status = IF n >= MaxAttempts THEN "failed" ELSE "commit_queued",
                   !.attempts = n, !.retry = IF n < MaxAttempts THEN "later" ELSE "none",
                   !.owner = NoOwner, !.lease = "none"]

Sent == queue' = [queue EXCEPT ![0] = @ + 1]

\* EnqueueBulkImport: the send succeeds, fails, or succeeds with its answer lost.
EnqueueOK      == Sent /\ UNCHANGED faults
EnqueueFails   == Fault /\ (Sent \/ UNCHANGED queue)

\* A command that is there is published again: a repeated request.
QueueCommit(q) ==
    /\ pub[q] = "idle"
    /\ \/ job.command /\ UNCHANGED job
       \/ /\ ~job.command
          /\ job.status = "validated" /\ job.failed = 0
          /\ job' = [job EXCEPT !.status = "commit_queued", !.command = TRUE, !.retry = "now"]
    /\ FaultIf(job.command)
    /\ pub' = [pub EXCEPT ![q] = "publish"]
    /\ UNCHANGED <<rows, imported, existing, goodFile, object, queue, val, wrk>>

\* Slip: the maintenance pass looks for expired leases only.
Due_LeaseOnly == job.status = "committing" /\ job.lease = "over"

Due ==
    \/ job.status = "commit_queued" /\ job.retry # "none"
    \/ job.status = "committing" /\ job.lease = "over"

\* RecoverPending: the due job is taken over under its lock, then republished.
RecoverPending ==
    /\ pub[Recoverer] = "idle" /\ Due
    /\ job' = [job EXCEPT !.status = "commit_queued", !.retry = "later",
                          !.owner = NoOwner, !.lease = "none"]
    /\ FaultIf(Busy /\ job.status = "commit_queued" /\ job.retry = "later")
    /\ pub' = [pub EXCEPT ![Recoverer] = "publish"]
    /\ UNCHANGED <<rows, imported, existing, goodFile, object, queue, val, wrk>>

Returned(p) == [pub EXCEPT ![p] = "idle"]

Publish(p) ==
    /\ pub[p] = "publish"
    /\ \/ EnqueueOK    /\ pub' = [pub EXCEPT ![p] = "clear"]
       \/ EnqueueFails /\ pub' = [pub EXCEPT ![p] = "retry"]
    /\ UNCHANGED <<job, rows, imported, existing, goodFile, object, val, wrk>>

\* clearBulkImportDispatchDue: the retry time is dropped, whoever set it.
ClearDue(p) ==
    /\ pub[p] = "clear"
    /\ job' = IF job.status = "commit_queued" THEN [job EXCEPT !.retry = "none"] ELSE job
    /\ pub' = Returned(p)
    /\ UNCHANGED <<rows, imported, existing, goodFile, object, queue, val, wrk, faults>>

PublishRetry(p) ==
    /\ pub[p] = "retry"
    /\ job' = Retried(job)
    /\ pub' = Returned(p)
    /\ UNCHANGED <<rows, imported, existing, goodFile, object, queue, val, wrk, faults>>

PublishCrash(p) ==
    /\ pub[p] \in {"publish", "clear", "retry"} /\ Fault
    /\ pub' = Returned(p)
    /\ UNCHANGED <<job, rows, imported, existing, goodFile, object, queue, val, wrk>>

Cancel ==
    /\ job.status \in {"validating", "validated", "commit_queued", "committing"}
    /\ job' = [job EXCEPT !.status = "canceled", !.owner = NoOwner, !.lease = "none"]
    /\ UNCHANGED <<rows, imported, existing, goodFile, object, queue, val, pub, wrk, faults>>

-------------------------------------------------------------------------------
(* One queue delivery: ProcessBulkImportBatch.                               *)

AtRest(w) == [wrk EXCEPT ![w] = RestingWorker]
Goto(w, l) == [wrk EXCEPT ![w] = [@ EXCEPT !.pc = l]]

\* The message is visible again after an error, until its last delivery.
Nacked(w) == IF wrk[w].got < MaxReceive
             THEN queue' = [queue EXCEPT ![wrk[w].got] = @ + 1]
             ELSE UNCHANGED queue

\* A message comes back after twelve minutes, and a lease lasts two.  A message
\* that overtakes the clearing statement after its send is early too.
Receive(w) ==
    /\ wrk[w].pc = "idle"
    /\ \E n \in 0 .. MaxReceive - 1 :
         /\ queue[n] > 0
         /\ FaultIf(\/ n > 0 /\ (Busy \/ job.lease = "live")
                    \/ \E p \in Publishers : pub[p] = "clear")
         /\ queue' = [queue EXCEPT ![n] = @ - 1]
         /\ wrk' = [wrk EXCEPT ![w] = [RestingWorker EXCEPT !.pc = "claim", !.got = n + 1]]
    /\ UNCHANGED <<job, rows, imported, existing, goodFile, object, val, pub>>

Claimable == \/ job.status = "commit_queued"
             \/ job.status = "committing" /\ job.lease # "live"

\* The first BatchSize rows that are still validated.
Batch == {r \in Rows : /\ rows[r] = "validated"
                       /\ Cardinality({q \in 1 .. r : rows[q] = "validated"}) <= BatchSize}

\* Slip: a delivery that finds the job completed forgets about the notice.
ClaimBatch_NoNotice(w) ==
    /\ wrk[w].pc = "claim"
    /\ \/ /\ job.status \in {"completed", "canceled"}
          /\ wrk' = AtRest(w) /\ UNCHANGED <<job, queue>>
       \/ /\ Claimable
          /\ job' = [job EXCEPT !.status = "committing", !.owner = w, !.lease = "live"]
          /\ wrk' = [wrk EXCEPT ![w] = [@ EXCEPT !.pc = "rows", !.todo = Batch]]
          /\ UNCHANGED queue
       \/ /\ job.status \notin {"completed", "canceled"} /\ ~Claimable
          /\ wrk' = AtRest(w) /\ Nacked(w) /\ UNCHANGED job
    /\ UNCHANGED <<rows, imported, existing, goodFile, object, val, pub, faults>>

ClaimBatch(w) ==
    /\ wrk[w].pc = "claim"
    /\ \/ /\ job.status = "completed"
          /\ wrk' = Goto(w, "notify") /\ UNCHANGED <<job, queue>>
       \/ /\ job.status = "canceled"
          /\ wrk' = AtRest(w) /\ UNCHANGED <<job, queue>>
       \/ /\ Claimable
          /\ job' = [job EXCEPT !.status = "committing", !.owner = w, !.lease = "live"]
          /\ wrk' = [wrk EXCEPT ![w] = [@ EXCEPT !.pc = "rows", !.todo = Batch]]
          /\ UNCHANGED queue
       \/ /\ job.status \notin {"completed", "canceled"} /\ ~Claimable
          /\ wrk' = AtRest(w) /\ Nacked(w) /\ UNCHANGED job
    /\ UNCHANGED <<rows, imported, existing, goodFile, object, val, pub, faults>>

First(S) == CHOOSE r \in S : \A q \in S : r <= q

Owned(w) == job.status = "committing" /\ job.owner = w

\* Slip: commitRow creates the entity without looking at the row under its lock.
CommitRow_Unlocked(w) ==
    LET r == First(wrk[w].todo) IN
    /\ wrk[w].pc = "rows" /\ wrk[w].todo # {}
    /\ job.status # "canceled"
    /\ rows' = [rows EXCEPT ![r] = "succeeded"]
    /\ imported' = imported \cup {r}
    /\ job' = [job EXCEPT !.succeeded = @ + 1]
    /\ wrk' = [wrk EXCEPT ![w] = [@ EXCEPT !.todo = wrk[w].todo \ {r}]]
    /\ UNCHANGED <<existing, goodFile, object, queue, val, pub, faults>>

\* commitRow: job and row are read under their locks; the entity is created
\* and the row settled in the same transaction.
CommitRow(w) ==
    LET r   == First(wrk[w].todo)
        dup == rows[r] = "validated" /\ r \in existing \cup imported
        new == rows[r] = "validated" /\ r \notin existing \cup imported
    IN
    /\ wrk[w].pc = "rows" /\ wrk[w].todo # {}
    /\ \/ /\ job.status = "canceled"
          /\ wrk' = AtRest(w) /\ UNCHANGED <<job, rows, imported>>
       \/ /\ job.status # "canceled"
          /\ ~Owned(w) \/ rows[r] \in {"absent", "invalid"}
          /\ wrk' = Goto(w, "retry") /\ UNCHANGED <<job, rows, imported>>
       \/ /\ Owned(w) /\ rows[r] \in {"validated", "succeeded"}
          /\ rows' = IF dup THEN [rows EXCEPT ![r] = "invalid"] ELSE [rows EXCEPT ![r] = "succeeded"]
          /\ imported' = IF new THEN imported \cup {r} ELSE imported
          /\ job' = [job EXCEPT !.failed = IF dup THEN @ + 1 ELSE @,
                                !.succeeded = IF new THEN @ + 1 ELSE @]
          /\ wrk' = [wrk EXCEPT ![w] = [@ EXCEPT !.todo = wrk[w].todo \ {r}]]
    /\ UNCHANGED <<existing, goodFile, object, queue, val, pub, faults>>

\* The batch is through: its success gives the attempts back.
Settle(w) ==
    /\ wrk[w].pc = "rows" /\ wrk[w].todo = {}
    /\ job' = IF Owned(w) THEN [job EXCEPT !.attempts = 0] ELSE job
    /\ wrk' = Goto(w, "count")
    /\ UNCHANGED <<rows, imported, existing, goodFile, object, queue, val, pub, faults>>

\* Slip: a batch that is through counts as the whole file.
CountRemaining_Skipped(w) ==
    /\ wrk[w].pc = "count"
    /\ wrk' = Goto(w, "report")
    /\ UNCHANGED <<job, rows, imported, existing, goodFile, object, queue, val, pub, faults>>

CountRemaining(w) ==
    /\ wrk[w].pc = "count"
    /\ wrk' = Goto(w, IF \E r \in Rows : rows[r] = "validated" THEN "requeue" ELSE "report")
    /\ UNCHANGED <<job, rows, imported, existing, goodFile, object, queue, val, pub, faults>>

\* More rows remain: the job goes back to the queue with a new message.
Requeue(w) ==
    /\ wrk[w].pc = "requeue"
    /\ IF Owned(w)
       THEN /\ job' = [job EXCEPT !.status = "commit_queued", !.owner = NoOwner, !.lease = "none"]
            /\ wrk' = Goto(w, "publish")
       ELSE wrk' = AtRest(w) /\ UNCHANGED job
    /\ UNCHANGED <<rows, imported, existing, goodFile, object, queue, val, pub, faults>>

PublishNext(w) ==
    /\ wrk[w].pc = "publish"
    /\ \/ EnqueueOK    /\ wrk' = AtRest(w)
       \/ EnqueueFails /\ wrk' = Goto(w, "retry")
    /\ UNCHANGED <<job, rows, imported, existing, goodFile, object, val, pub>>

\* finalizeBulkImport, in the order of its statements.
ReadReport(w) ==
    /\ wrk[w].pc = "report"
    /\ wrk' = [wrk EXCEPT ![w] = [@ EXCEPT !.pc = "open", !.report = rows]]
    /\ UNCHANGED <<job, rows, imported, existing, goodFile, object, queue, val, pub, faults>>

OpenArtifact(w) ==
    /\ wrk[w].pc = "open"
    /\ \/ /\ job.status = "canceled"
          /\ wrk' = AtRest(w) /\ UNCHANGED job
       \/ /\ job.status \notin {"canceled", "committing"}
          /\ wrk' = Goto(w, "retry") /\ UNCHANGED job
       \/ /\ job.status = "committing"
          /\ job' = [job EXCEPT !.artifact = IF @ = "none" THEN "pending" ELSE @]
          /\ wrk' = Goto(w, "upload")
    /\ UNCHANGED <<rows, imported, existing, goodFile, object, queue, val, pub, faults>>

\* UploadIfAbsent: a file that is there must have the same content.
Upload(w) ==
    /\ wrk[w].pc = "upload"
    /\ IF object \in {NoReport, wrk[w].report}
       THEN object' = wrk[w].report /\ wrk' = Goto(w, "ready")
       ELSE UNCHANGED object /\ wrk' = Goto(w, "retry")
    /\ UNCHANGED <<job, rows, imported, existing, goodFile, queue, val, pub, faults>>

MarkReady(w) ==
    /\ wrk[w].pc = "ready"
    /\ job' = [job EXCEPT !.artifact = "ready"]
    /\ wrk' = Goto(w, "complete")
    /\ UNCHANGED <<rows, imported, existing, goodFile, object, queue, val, pub, faults>>

\* Slip: the completing update does not ask for the committing status.
Complete_Unguarded(w) ==
    /\ wrk[w].pc = "complete"
    /\ job' = [job EXCEPT !.status = "completed", !.retry = "none",
                          !.owner = NoOwner, !.lease = "none"]
    /\ wrk' = Goto(w, "notify")
    /\ UNCHANGED <<rows, imported, existing, goodFile, object, queue, val, pub, faults>>

\* The completing update asks for the status and the command, not for the owner.
Complete(w) ==
    /\ wrk[w].pc = "complete"
    /\ IF job.status = "committing"
       THEN /\ job' = [job EXCEPT !.status = "completed", !.retry = "none",
                                  !.owner = NoOwner, !.lease = "none"]
            /\ wrk' = Goto(w, "notify")
       ELSE wrk' = AtRest(w) /\ UNCHANGED job
    /\ UNCHANGED <<rows, imported, existing, goodFile, object, queue, val, pub, faults>>

\* sendBulkImportCompletionNotification; the notice has one key per job.
Notify(w) ==
    /\ wrk[w].pc = "notify"
    /\ \/ /\ job' = [job EXCEPT !.notice = IF job.status = "completed" THEN "sent" ELSE @]
          /\ UNCHANGED <<queue, faults>>
       \/ /\ job.notice # "sent" /\ Fault /\ Nacked(w)
          /\ job' = [job EXCEPT !.notice = IF job.status = "completed" THEN "failed" ELSE @]
    /\ wrk' = AtRest(w)
    /\ UNCHANGED <<rows, imported, existing, goodFile, object, val, pub>>

\* A failed row, publication or finalization is recorded, and the message kept.
WorkRetry(w) ==
    /\ wrk[w].pc = "retry"
    /\ job' = Retried(job)
    /\ wrk' = AtRest(w) /\ Nacked(w)
    /\ UNCHANGED <<rows, imported, existing, goodFile, object, val, pub, faults>>

\* The row's transaction or the bucket fails.
WorkFails(w) ==
    /\ (wrk[w].pc = "rows" /\ wrk[w].todo # {}) \/ wrk[w].pc = "upload"
    /\ Fault
    /\ wrk' = Goto(w, "retry")
    /\ UNCHANGED <<job, rows, imported, existing, goodFile, object, queue, val, pub>>

\* The delivery dies, or a statement that records no retry fails.
WorkCrash(w) ==
    /\ wrk[w].pc # "idle" /\ Fault
    /\ wrk' = AtRest(w) /\ Nacked(w)
    /\ UNCHANGED <<job, rows, imported, existing, goodFile, object, val, pub>>

-------------------------------------------------------------------------------

LeaseRunsOut ==
    /\ job.lease = "live"
    /\ job' = [job EXCEPT !.lease = "over"]
    /\ FaultIf(Busy)
    /\ UNCHANGED <<rows, imported, existing, goodFile, object, queue, val, pub, wrk>>

\* Another user creates the entity a row describes.
OtherCreates ==
    /\ \E r \in Rows \ (existing \cup imported) : existing' = existing \cup {r}
    /\ UNCHANGED <<job, rows, imported, goodFile, object, queue, val, pub, wrk, faults>>

Validate(v) == ValStart(v) \/ ValReset(v) \/ ValRow(v) \/ ValEnd(v) \/ ValCrash(v)

Dispatch(p) == Publish(p) \/ ClearDue(p) \/ PublishRetry(p)

Work(w) ==
    \/ Receive(w) \/ ClaimBatch(w) \/ CommitRow(w) \/ Settle(w) \/ CountRemaining(w)
    \/ Requeue(w) \/ PublishNext(w) \/ ReadReport(w) \/ OpenArtifact(w) \/ Upload(w)
    \/ MarkReady(w) \/ Complete(w) \/ Notify(w) \/ WorkRetry(w)

Next ==
    \/ \E v \in Validators : Validate(v)
    \/ \E q \in Requests : QueueCommit(q)
    \/ RecoverPending
    \/ \E p \in Publishers : Dispatch(p) \/ PublishCrash(p)
    \/ Cancel
    \/ \E w \in Workers : Work(w) \/ WorkFails(w) \/ WorkCrash(w)
    \/ LeaseRunsOut
    \/ OtherCreates

Spec == Init /\ [][Next]_vars

\* Lambda keeps running deliveries that have a message and the five-minute
\* schedule keeps running the maintenance pass.  A request that is running goes
\* on or crashes; nobody is asked to start one.
Fairness ==
    /\ \A w \in Workers : WF_vars(Work(w))
    /\ WF_vars(RecoverPending)
    /\ \A p \in Publishers : WF_vars(Dispatch(p))
    /\ WF_vars(LeaseRunsOut)

FairSpec == Spec /\ Fairness

-------------------------------------------------------------------------------
(* Properties.                                                               *)

\* The job's counters agree with its rows, and a row is succeeded exactly when
\* the import created its entity, however many deliveries worked on the row.
TallyIsExact ==
    /\ job.total = Cardinality({r \in Rows : rows[r] # "absent"})
    /\ job.failed = Cardinality({r \in Rows : rows[r] = "invalid"})
    /\ job.succeeded = Cardinality(imported)
    /\ imported = {r \in Rows : rows[r] = "succeeded"}

\* A completed job has settled every row of its file, and the result file that
\* is offered for download is the report of exactly those rows.  One validation
\* of the upload is in flight at a time: BulkReplay.cfg shows what a second one
\* that overlaps the commit does.
CompletedIsWhole ==
    job.status = "completed" =>
        /\ \A r \in Rows : rows[r] \in {"succeeded", "invalid"}
        /\ job.artifact = "ready" /\ object = rows

\* Once canceled, a job imports no further row and is never queued, committed or
\* completed, whatever its deliveries, publishers and maintenance were doing; an
\* error that is recorded late, without a look at the status, may mark it failed.
CanceledStays ==
    [][job.status = "canceled" => job'.status \in {"canceled", "failed"} /\ imported' = imported]_vars

\* bulk_import_service.go:420-422: RecoverPending republishes what queue failures
\* and crashes left behind.  So a queued job is never forgotten: it has a retry
\* time for the maintenance pass, or a message, or a process that is about to
\* publish or to record one.  True of one failure, not of two (BulkForgotten.cfg).
NeverForgotten ==
    job.status = "commit_queued" =>
        \/ job.retry # "none"
        \/ \E n \in DOMAIN queue : queue[n] > 0
        \/ \E p \in Publishers : pub[p] \in {"publish", "retry"}
        \/ \E w \in Workers : wrk[w].pc # "idle"

\* Every queued import ends, completed, failed or canceled, when no more than
\* one call fails or process dies on the way.
EveryImportEnds == job.status = "commit_queued" ~> job.status \in Ended \/ faults > 1

\* The uploader of a completed import is told.
CompletionIsTold == job.status = "completed" ~> job.notice = "sent"

===============================================================================
