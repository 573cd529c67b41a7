--------------------------- MODULE BackgroundProofs ---------------------------
(***************************************************************************)
(* What is proved of the two works that run in the background: the bulk    *)
(* import (BulkImport) and the recurring invoice (RecurringInvoices).      *)
(***************************************************************************)
EXTENDS BulkImport, RecurringInvoices, FiniteSetTheorems, NaturalsInduction,
        WellFoundedInduction, TLAPS

USE Zenon

-------------------------------------------------------------------------------
(* The bulk import.  A second validation of the upload may delete the rows   *)
(* under a commit (BulkReplay.cfg), so the invariant is about one at a time. *)

OneValidation == \A u, v \in Validators : u = v

Settled == \A r \in Rows : rows[r] \in {"succeeded", "invalid"}
Whole   == \A r \in Rows : rows[r] # "absent"

\* Before the commit command there is a validation or none, and nothing is
\* imported; with it no validation runs and every row of the file is there.
PhasesApart ==
    /\ job.status \in {"commit_queued", "committing", "completed"} => job.command
    /\ job.command =>
          /\ job.status \in {"commit_queued", "committing"} \cup Ended
          /\ \A v \in Validators : val[v].pc = "idle"
    /\ \A v \in Validators : val[v].pc # "idle" => job.status \in {"validating", "canceled"}
    /\ ~job.command => imported = {}

\* A validation has written the rows before the one it is at.
RowsWritten ==
    /\ job.command \/ job.status = "validated" => Whole
    /\ \A v \in Validators :
          /\ val[v].pc = "reset" => val[v].at = 1
          /\ val[v].pc = "rows" => \A r \in Rows : r < val[v].at => rows[r] # "absent"

\* A delivery that is past the count has seen the last row settled; what it
\* reports, and what is uploaded, is the rows as they are from then on.
Reported(w) ==
    /\ wrk[w].pc \in {"rows", "count", "report", "open", "upload", "ready", "complete"} => job.command
    /\ wrk[w].pc \in {"report", "open", "upload", "ready", "complete"} => Settled
    /\ wrk[w].pc \in {"open", "upload", "ready", "complete"} => wrk[w].report = rows
    /\ wrk[w].pc \in {"ready", "complete"} => object = rows
    /\ wrk[w].pc = "complete" => job.artifact = "ready"

ReportIsFinal ==
    /\ \A w \in Workers : Reported(w)
    /\ object # NoReport => job.command /\ Settled /\ object = rows

ImportInv ==
    /\ TypeOK
    /\ PhasesApart
    /\ RowsWritten
    /\ ReportIsFinal
    /\ TallyIsExact
    /\ CompletedIsWhole

-------------------------------------------------------------------------------
(* Types.                                                                    *)

WorkPcs == {"idle", "claim", "rows", "count", "requeue", "publish", "report",
            "open", "upload", "ready", "complete", "notify", "retry"}

\* The constants, as the proofs use them.
LEMMA BulkConstants ==
    /\ NumRows \in Nat /\ MaxAttempts \in Nat \ {0} /\ MaxReceive \in Nat \ {0} /\ MaxFaults \in Nat
    /\ NoOwner \notin Workers
    /\ Rows = 1 .. NumRows
BY BulkImportAssumption DEF BulkImportAssumption, Rows

\* A fault is counted up to the bound.
LEMMA FaultTyped == ASSUME faults \in 0 .. MaxFaults, Fault PROVE faults' \in 0 .. MaxFaults
BY SMT, BulkConstants DEF Fault

\* What a delivery may become at its next step.
LEMMA WorkerTyped ==
    ASSUME NEW x \in WorkStates
    PROVE  /\ x.got \in 0 .. MaxReceive
           /\ x.todo \in SUBSET Rows
           /\ x.report \in [Rows -> RowStatus]
           /\ x.pc \in WorkPcs
           /\ \A l \in WorkPcs : [x EXCEPT !.pc = l] \in WorkStates
           /\ \A S \in SUBSET Rows : [x EXCEPT !.pc = "rows", !.todo = S] \in WorkStates
           /\ \A S \in SUBSET Rows : [x EXCEPT !.todo = S] \in WorkStates
           /\ \A f \in [Rows -> RowStatus] : [x EXCEPT !.pc = "open", !.report = f] \in WorkStates
           /\ \A n \in 0 .. MaxReceive : [x EXCEPT !.pc = "claim", !.got = n] \in WorkStates
<1>. WorkStates = [pc : WorkPcs, got : 0 .. MaxReceive, todo : SUBSET Rows, report : [Rows -> RowStatus]]
  BY DEF WorkStates, WorkPcs
<1>. "rows" \in WorkPcs /\ "open" \in WorkPcs /\ "claim" \in WorkPcs
  BY DEF WorkPcs
<1>1. x.got \in 0 .. MaxReceive /\ x.todo \in SUBSET Rows /\ x.report \in [Rows -> RowStatus] /\ x.pc \in WorkPcs
  OBVIOUS
<1>2. \A l \in WorkPcs : [x EXCEPT !.pc = l] \in WorkStates
  OBVIOUS
<1>3. \A S \in SUBSET Rows : [x EXCEPT !.pc = "rows", !.todo = S] \in WorkStates
  OBVIOUS
<1>4. \A S \in SUBSET Rows : [x EXCEPT !.todo = S] \in WorkStates
  OBVIOUS
<1>5. \A f \in [Rows -> RowStatus] : [x EXCEPT !.pc = "open", !.report = f] \in WorkStates
  OBVIOUS
<1>6. \A n \in 0 .. MaxReceive : [x EXCEPT !.pc = "claim", !.got = n] \in WorkStates
  OBVIOUS
<1>. QED  BY <1>1, <1>2, <1>3, <1>4, <1>5, <1>6

\* A delivery at rest, and one that has just got its message.
LEMMA RestTyped ==
    /\ NoReport \in [Rows -> RowStatus]
    /\ RestingWorker \in WorkStates
    /\ \A n \in 0 .. MaxReceive - 1 :
          [RestingWorker EXCEPT !.pc = "claim", !.got = n + 1] \in WorkStates
<1>1. NoReport \in [Rows -> RowStatus]
  BY DEF NoReport, RowStatus
<1>2. RestingWorker \in WorkStates
  BY SMT, <1>1, BulkConstants DEF RestingWorker, WorkStates
<1>3. ASSUME NEW n \in 0 .. MaxReceive - 1
      PROVE  [RestingWorker EXCEPT !.pc = "claim", !.got = n + 1] \in WorkStates
  <2>1. n + 1 \in 0 .. MaxReceive
    BY SMT, BulkConstants
  <2>. QED  BY <2>1, <1>2, WorkerTyped
<1>. QED  BY <1>1, <1>2, <1>3

\* The messages a delivery or a publisher puts back, and the one it takes.
LEMMA QueueTyped ==
    ASSUME TypeOK, queue' = queue \/ Sent \/ \E w \in Workers : Nacked(w)
    PROVE  queue' \in [0 .. MaxReceive - 1 -> Nat]
<1>1. CASE queue' = queue
  BY <1>1 DEF TypeOK
<1>2. CASE Sent
  BY SMTT(30), <1>2, BulkConstants DEF TypeOK, Sent
<1>3. CASE \E w \in Workers : Nacked(w)
  <2>1. PICK w \in Workers : Nacked(w)
    BY <1>3
  <2>2. wrk[w].got \in 0 .. MaxReceive
    BY WorkerTyped DEF TypeOK
  <2>3. CASE wrk[w].got < MaxReceive
    <3>1. queue' = [queue EXCEPT ![wrk[w].got] = queue[wrk[w].got] + 1]
      BY <2>1, <2>3 DEF Nacked
    <3>2. wrk[w].got \in 0 .. MaxReceive - 1
      BY SMT, <2>2, <2>3, BulkConstants
    <3>3. queue[wrk[w].got] + 1 \in Nat
      BY SMT, <3>2 DEF TypeOK
    <3>. QED  BY <3>1, <3>2, <3>3 DEF TypeOK
  <2>4. CASE ~ (wrk[w].got < MaxReceive)
    BY <2>1, <2>4 DEF Nacked, TypeOK
  <2>. QED  BY <2>3, <2>4
<1>. QED  BY <1>1, <1>2, <1>3

\* The workers, after the delivery of one of them moved on or ended.
LEMMA WorkersTyped ==
    ASSUME wrk \in [Workers -> WorkStates], NEW w \in Workers
    PROVE  /\ AtRest(w) \in [Workers -> WorkStates]
           /\ \A l \in WorkPcs : Goto(w, l) \in [Workers -> WorkStates]
<1>1. wrk[w] \in WorkStates
  OBVIOUS
<1>. QED  BY <1>1, RestTyped, WorkerTyped DEF AtRest, Goto

\* Two job rows that differ in status, retry time, lease and notice at most.
Alike(j, k) ==
    /\ k.command = j.command /\ k.artifact = j.artifact /\ k.attempts = j.attempts
    /\ k.total = j.total /\ k.failed = j.failed /\ k.succeeded = j.succeeded

\* The fields of a job row.
LEMMA JobFields ==
    ASSUME NEW j \in JobRows
    PROVE  /\ j.status \in Statuses /\ j.command \in BOOLEAN /\ j.attempts \in 0 .. MaxAttempts
           /\ j.total \in Nat /\ j.failed \in Nat /\ j.succeeded \in Nat
           /\ j.artifact \in {"none", "pending", "ready"}
BY DEF JobRows

\* The updates of the job row that leave command, counters and artifact alone:
\* a new status,
LEMMA JobStatus ==
    ASSUME NEW j \in JobRows, NEW s \in Statuses
    PROVE  LET k == [j EXCEPT !.status = s]
           IN  k \in JobRows /\ k.status = s /\ Alike(j, k)
BY DEF JobRows, Alike

\* no retry time any more,
LEMMA JobNotDue ==
    ASSUME NEW j \in JobRows
    PROVE  LET k == [j EXCEPT !.retry = "none"]
           IN  k \in JobRows /\ k.status = j.status /\ Alike(j, k)
BY DEF JobRows, Alike

\* the lease ran out,
LEMMA JobExpired ==
    ASSUME NEW j \in JobRows
    PROVE  LET k == [j EXCEPT !.lease = "over"]
           IN  k \in JobRows /\ k.status = j.status /\ Alike(j, k)
BY DEF JobRows, Alike

\* the notice was sent or failed,
LEMMA JobNotice ==
    ASSUME NEW j \in JobRows, NEW n \in {"pending", "sent", "failed"}
    PROVE  LET k == [j EXCEPT !.notice = n]
           IN  k \in JobRows /\ k.status = j.status /\ Alike(j, k)
BY DEF JobRows, Alike

\* the lease was given back,
LEMMA JobReleased ==
    ASSUME NEW j \in JobRows, NEW s \in Statuses
    PROVE  LET k == [j EXCEPT !.status = s, !.owner = NoOwner, !.lease = "none"]
           IN  k \in JobRows /\ k.status = s /\ Alike(j, k)
BY DEF JobRows, Alike

\* and the retry time set,
LEMMA JobRetimed ==
    ASSUME NEW j \in JobRows, NEW s \in Statuses, NEW r \in {"none", "now", "later"}
    PROVE  LET k == [j EXCEPT !.status = s, !.retry = r, !.owner = NoOwner, !.lease = "none"]
           IN  k \in JobRows /\ k.status = s /\ Alike(j, k)
BY DEF JobRows, Alike

\* a delivery took the lease.
LEMMA JobClaimed ==
    ASSUME NEW j \in JobRows, NEW w \in Workers
    PROVE  LET k == [j EXCEPT !.status = "committing", !.owner = w, !.lease = "live"]
           IN  k \in JobRows /\ k.status = "committing" /\ Alike(j, k)
BY DEF JobRows, Alike, Statuses

\* The updates that count rows, give the command or settle the artifact: a
\* validation starts over,
LEMMA JobReset ==
    ASSUME NEW j \in JobRows
    PROVE  LET k == [j EXCEPT !.total = 0, !.failed = 0, !.succeeded = 0]
           IN  /\ k \in JobRows /\ k.total = 0 /\ k.failed = 0 /\ k.succeeded = 0
               /\ k.status = j.status /\ k.command = j.command
               /\ k.artifact = j.artifact /\ k.attempts = j.attempts
<1>1. 0 \in Nat
  BY SMT
<1>. QED  BY <1>1 DEF JobRows

\* the commit was asked for,
LEMMA JobCommanded ==
    ASSUME NEW j \in JobRows
    PROVE  LET k == [j EXCEPT !.status = "commit_queued", !.command = TRUE, !.retry = "now"]
           IN  /\ k \in JobRows /\ k.total = j.total /\ k.failed = j.failed /\ k.succeeded = j.succeeded
               /\ k.status = "commit_queued" /\ k.command = TRUE
               /\ k.artifact = j.artifact /\ k.attempts = j.attempts
BY DEF JobRows, Statuses

\* the artifact got a row of its own, or was marked ready,
LEMMA JobArtifact ==
    ASSUME NEW j \in JobRows, NEW a \in {"none", "pending", "ready"}
    PROVE  LET k == [j EXCEPT !.artifact = a]
           IN  /\ k \in JobRows /\ k.total = j.total /\ k.failed = j.failed /\ k.succeeded = j.succeeded
               /\ k.status = j.status /\ k.command = j.command
               /\ k.artifact = a /\ k.attempts = j.attempts
BY DEF JobRows

\* or was left alone.
LEMMA JobArtifactKept == ASSUME NEW j \in JobRows PROVE [j EXCEPT !.artifact = j.artifact] = j
BY DEF JobRows

\* The updates of the attempts: the batch that gives them back, and recordRetry.
LEMMA JobAttempts ==
    ASSUME NEW j \in JobRows, j.attempts = MaxAttempts => j.status = "failed"
    PROVE  /\ LET k == [j EXCEPT !.attempts = 0]
              IN  /\ k \in JobRows /\ k.status = j.status /\ k.command = j.command
                  /\ k.total = j.total /\ k.failed = j.failed /\ k.succeeded = j.succeeded
                  /\ k.artifact = j.artifact /\ k.attempts # MaxAttempts
           /\ LET k == Retried(j)
              IN  /\ k \in JobRows /\ k.command = j.command
                  /\ k.total = j.total /\ k.failed = j.failed /\ k.succeeded = j.succeeded
                  /\ k.artifact = j.artifact
                  /\ k.attempts = MaxAttempts => k.status = "failed"
                  /\ \/ k = j
                     \/ /\ j.status \in {"commit_queued", "committing"}
                        /\ k.status \in {"commit_queued", "failed"}
<1>0. 0 \in 0 .. MaxAttempts /\ 0 # MaxAttempts
  BY SMT, BulkConstants
<1>1. LET k == [j EXCEPT !.attempts = 0]
      IN  /\ k \in JobRows /\ k.status = j.status /\ k.command = j.command
          /\ k.total = j.total /\ k.failed = j.failed /\ k.succeeded = j.succeeded
          /\ k.artifact = j.artifact /\ k.attempts # MaxAttempts
  BY <1>0 DEF JobRows
<1>2. CASE j.status \notin {"commit_queued", "committing"}
  <2>1. Retried(j) = j
    BY <1>2 DEF Retried
  <2>. QED  BY <1>1, <2>1
<1>3. CASE j.status \in {"commit_queued", "committing"}
  <2>. DEFINE n == j.attempts + 1
              s == IF n >= MaxAttempts THEN "failed" ELSE "commit_queued"
              r == IF n < MaxAttempts THEN "later" ELSE "none"
              k == [j EXCEPT !.status = s, !.attempts = n, !.retry = r,
                             !.owner = NoOwner, !.lease = "none"]
  <2>1. Retried(j) = k
    BY <1>3 DEF Retried
  <2>2. j.attempts \in 0 .. MaxAttempts /\ j.attempts # MaxAttempts
    BY <1>3, JobFields
  <2>3. n \in 0 .. MaxAttempts /\ (n = MaxAttempts => n >= MaxAttempts)
    BY SMT, <2>2, BulkConstants
  <2>4. s \in Statuses /\ s \in {"commit_queued", "failed"} /\ r \in {"none", "now", "later"}
    BY DEF Statuses
  <2>5. n = MaxAttempts => s = "failed"
    BY <2>3
  <2>. HIDE DEF n, s, r
  <2>6. /\ k \in JobRows /\ k.command = j.command /\ k.status = s /\ k.attempts = n
        /\ k.total = j.total /\ k.failed = j.failed /\ k.succeeded = j.succeeded
        /\ k.artifact = j.artifact
    BY <2>3, <2>4 DEF JobRows
  <2>. HIDE DEF k
  <2>. QED  BY <1>1, <1>3, <2>1, <2>4, <2>5, <2>6
<1>. QED  BY <1>2, <1>3

\* What most steps do to the job: at most its status moves, from a commit that is
\* under way to one that is queued, running or given up, or to canceled.
JobQuiet ==
    /\ job' \in JobRows
    /\ job'.attempts = MaxAttempts => job'.status = "failed"
    /\ job'.command = job.command /\ job'.artifact = job.artifact
    /\ job'.total = job.total /\ job'.failed = job.failed /\ job'.succeeded = job.succeeded
    /\ \/ job'.status = job.status
       \/ /\ job.status \in {"commit_queued", "committing"}
          /\ job'.status \in {"commit_queued", "committing", "failed", "canceled"}
       \/ job.status \in {"validating", "validated"} /\ job'.status = "canceled"

\* What they do to the deliveries: none gets past the count of its batch or
\* changes its report, and one that claims a batch finds the job claimable.
WorkQuiet ==
    /\ wrk' \in [Workers -> WorkStates]
    /\ \A w \in Workers :
          /\ wrk'[w].pc \in {"report", "open", "upload", "ready", "complete"} =>
                wrk'[w].pc = wrk[w].pc /\ wrk'[w].report = wrk[w].report
          /\ wrk'[w].pc \in {"rows", "count"} => wrk[w].pc \in {"rows", "count"} \/ Claimable

Quiet == JobQuiet /\ WorkQuiet /\ UNCHANGED <<rows, imported, goodFile, object, val>>

\* A job row that is like the old one is quiet when its status is.
LEMMA AlikeIsQuiet ==
    ASSUME TypeOK, job' \in JobRows, Alike(job, job'),
           \/ job'.status = job.status
           \/ /\ job.status \in {"commit_queued", "committing"}
              /\ job'.status \in {"commit_queued", "committing", "failed", "canceled"}
           \/ job.status \in {"validating", "validated"} /\ job'.status = "canceled"
    PROVE  JobQuiet
BY DEF TypeOK, Alike, JobQuiet

\* A step that does not touch the job is quiet about it,
LEMMA JobUnchanged == ASSUME TypeOK, job' = job PROVE JobQuiet
BY DEF TypeOK, JobQuiet

\* and one that does not touch the deliveries about them.
LEMMA WorkUnchanged == ASSUME TypeOK, wrk' = wrk PROVE WorkQuiet
BY DEF TypeOK, WorkQuiet

\* A delivery ends, or goes to a place before the report.
LEMMA WorkMoves ==
    ASSUME TypeOK, NEW w \in Workers, NEW l \in {"count", "requeue", "publish", "notify", "retry"},
           wrk' = AtRest(w) \/ wrk' = Goto(w, l), l = "count" => wrk[w].pc = "rows"
    PROVE  WorkQuiet
<1>1. wrk' \in [Workers -> WorkStates]
  BY WorkersTyped DEF TypeOK, WorkPcs
<1>2. ASSUME NEW u \in Workers, u # w
      PROVE  wrk'[u] = wrk[u]
  BY <1>2 DEF TypeOK, AtRest, Goto
<1>3. wrk'[w].pc = "idle" \/ wrk'[w].pc = l
  <2>1. wrk[w] \in WorkStates
    BY DEF TypeOK
  <2>2. wrk'[w] = RestingWorker \/ wrk'[w] = [wrk[w] EXCEPT !.pc = l]
    BY DEF TypeOK, AtRest, Goto
  <2>3. RestingWorker.pc = "idle"
    BY DEF RestingWorker
  <2>4. [wrk[w] EXCEPT !.pc = l].pc = l
    BY <2>1 DEF WorkStates
  <2>. QED  BY <2>2, <2>3, <2>4
<1>. QED  BY <1>1, <1>2, <1>3 DEF WorkQuiet

\* The variables the invariant only gives a type.
Frame ==
    /\ existing' \subseteq Rows
    /\ queue' \in [0 .. MaxReceive - 1 -> Nat]
    /\ pub' \in [Publishers -> {"idle", "publish", "clear", "retry"}]
    /\ faults' \in 0 .. MaxFaults

\* A quiet step keeps the types.
LEMMA QuietTyped == ASSUME TypeOK, Quiet, Frame PROVE TypeOK'
BY DEF TypeOK, Quiet, JobQuiet, WorkQuiet, Frame

\* recordRetry is quiet: it queues the job again or gives it up.
LEMMA RetriedIsQuiet == ASSUME TypeOK, job' = Retried(job) PROVE JobQuiet
BY JobAttempts DEF TypeOK, JobQuiet

\* The requests, the maintenance pass and the clock.
LEMMA DispatchQuiet ==
    ASSUME TypeOK,
           \/ \E q \in Requests : QueueCommit(q) /\ job.command
           \/ RecoverPending \/ Cancel \/ LeaseRunsOut \/ OtherCreates \/ UNCHANGED vars
           \/ \E p \in Publishers : Dispatch(p) \/ PublishCrash(p)
    PROVE  Quiet /\ Frame
<1>. USE DEF TypeOK
<1>1. ASSUME NEW q \in Requests, QueueCommit(q), job.command
      PROVE  Quiet /\ Frame
  <2>1. JobQuiet /\ WorkQuiet
    BY <1>1, JobUnchanged, WorkUnchanged DEF QueueCommit
  <2>2. faults' \in 0 .. MaxFaults
    BY <1>1, FaultTyped DEF QueueCommit, FaultIf
  <2>. QED  BY <1>1, <2>1, <2>2 DEF QueueCommit, Quiet, Frame, Publishers
<1>2. ASSUME RecoverPending
      PROVE  Quiet /\ Frame
  <2>1. JobQuiet
    <3>1. job' \in JobRows /\ job'.status = "commit_queued" /\ Alike(job, job')
      <4>1. "commit_queued" \in Statuses
        BY DEF Statuses
      <4>2. job' = [job EXCEPT !.status = "commit_queued", !.retry = "later",
                               !.owner = NoOwner, !.lease = "none"]
        BY <1>2 DEF RecoverPending
      <4>. QED  BY <4>1, <4>2, JobRetimed
    <3>. QED  BY <1>2, <3>1, AlikeIsQuiet DEF RecoverPending, Due
  <2>2. faults' \in 0 .. MaxFaults
    BY <1>2, FaultTyped DEF RecoverPending, FaultIf
  <2>. QED  BY <1>2, <2>1, <2>2, WorkUnchanged DEF RecoverPending, Quiet, Frame, Publishers
<1>3. ASSUME Cancel
      PROVE  Quiet /\ Frame
  <2>1. job' \in JobRows /\ job'.status = "canceled" /\ Alike(job, job')
    <3>1. "canceled" \in Statuses
      BY DEF Statuses
    <3>. QED  BY <1>3, <3>1, JobReleased DEF Cancel
  <2>2. JobQuiet
    BY <1>3, <2>1, AlikeIsQuiet DEF Cancel
  <2>. QED  BY <1>3, <2>2, WorkUnchanged DEF Cancel, Quiet, Frame
<1>4. ASSUME LeaseRunsOut
      PROVE  Quiet /\ Frame
  <2>1. job' \in JobRows /\ job'.status = job.status /\ Alike(job, job')
    BY <1>4, JobExpired DEF LeaseRunsOut
  <2>2. JobQuiet
    BY <2>1, AlikeIsQuiet
  <2>3. faults' \in 0 .. MaxFaults
    BY <1>4, FaultTyped DEF LeaseRunsOut, FaultIf
  <2>. QED  BY <1>4, <2>2, <2>3, WorkUnchanged DEF LeaseRunsOut, Quiet, Frame
<1>5. ASSUME OtherCreates
      PROVE  Quiet /\ Frame
  BY <1>5, JobUnchanged, WorkUnchanged DEF OtherCreates, Quiet, Frame
<1>6. ASSUME UNCHANGED vars
      PROVE  Quiet /\ Frame
  BY <1>6, JobUnchanged, WorkUnchanged DEF vars, Quiet, Frame
<1>7. ASSUME NEW p \in Publishers, Publish(p)
      PROVE  Quiet /\ Frame
  <2>1. queue' \in [0 .. MaxReceive - 1 -> Nat]
    BY <1>7, QueueTyped DEF Publish, EnqueueOK, EnqueueFails
  <2>2. faults' \in 0 .. MaxFaults
    BY <1>7, FaultTyped DEF Publish, EnqueueOK, EnqueueFails
  <2>3. pub' \in [Publishers -> {"idle", "publish", "clear", "retry"}]
    BY <1>7 DEF Publish
  <2>. QED  BY <1>7, <2>1, <2>2, <2>3, JobUnchanged, WorkUnchanged DEF Publish, Quiet, Frame
<1>8. ASSUME NEW p \in Publishers, ClearDue(p)
      PROVE  Quiet /\ Frame
  <2>1. job' \in JobRows /\ job'.status = job.status /\ Alike(job, job')
    BY <1>8, JobNotDue DEF ClearDue, Alike
  <2>2. JobQuiet
    BY <2>1, AlikeIsQuiet
  <2>. QED  BY <1>8, <2>2, WorkUnchanged DEF ClearDue, Quiet, Frame, Returned
<1>9. ASSUME NEW p \in Publishers, PublishRetry(p)
      PROVE  Quiet /\ Frame
  <2>1. JobQuiet
    BY <1>9, RetriedIsQuiet DEF PublishRetry
  <2>. QED  BY <1>9, <2>1, WorkUnchanged DEF PublishRetry, Quiet, Frame, Returned
<1>10. ASSUME NEW p \in Publishers, PublishCrash(p)
       PROVE  Quiet /\ Frame
  BY <1>10, FaultTyped, JobUnchanged, WorkUnchanged DEF PublishCrash, Quiet, Frame, Returned
<1>. QED  BY <1>1, <1>2, <1>3, <1>4, <1>5, <1>6, <1>7, <1>8, <1>9, <1>10 DEF Dispatch

\* The deliveries, but for the step that settles a row and the finalization.
LEMMA WorkIsQuiet ==
    ASSUME TypeOK, NEW w \in Workers,
           \/ Receive(w) \/ ClaimBatch(w) \/ Settle(w) \/ Requeue(w) \/ PublishNext(w)
           \/ Notify(w) \/ WorkRetry(w) \/ WorkFails(w) \/ WorkCrash(w)
    PROVE  Quiet /\ Frame
<1>. USE DEF TypeOK
<1>1. ASSUME Receive(w)
      PROVE  Quiet /\ Frame
  <2>1. PICK n \in 0 .. MaxReceive - 1 :
          /\ queue[n] > 0
          /\ faults' = faults \/ Fault
          /\ queue' = [queue EXCEPT ![n] = @ - 1]
          /\ wrk' = [wrk EXCEPT ![w] = [RestingWorker EXCEPT !.pc = "claim", !.got = n + 1]]
    BY <1>1 DEF Receive, FaultIf
  <2>2. queue' \in [0 .. MaxReceive - 1 -> Nat]
    <3>1. queue[n] - 1 \in Nat
      BY SMT, <2>1
    <3>. QED  BY <2>1, <3>1
  <2>3. faults' \in 0 .. MaxFaults
    BY <2>1, FaultTyped
  <2>4. WorkQuiet
    <3>1. wrk' \in [Workers -> WorkStates]
      BY <2>1, RestTyped
    <3>2. wrk'[w].pc = "claim"
      BY <2>1 DEF RestingWorker
    <3>3. \A u \in Workers : u # w => wrk'[u] = wrk[u]
      BY <2>1
    <3>. QED  BY <3>1, <3>2, <3>3 DEF WorkQuiet
  <2>. QED  BY <1>1, <2>2, <2>3, <2>4, JobUnchanged DEF Receive, Quiet, Frame
<1>2. ASSUME ClaimBatch(w)
      PROVE  Quiet /\ Frame
  <2>1. CASE job' = job /\ (wrk' = AtRest(w) \/ wrk' = Goto(w, "notify")) /\ (queue' = queue \/ Nacked(w))
    <3>1. WorkQuiet
      BY <2>1, WorkMoves
    <3>2. queue' \in [0 .. MaxReceive - 1 -> Nat]
      BY <2>1, QueueTyped
    <3>. QED  BY <1>2, <2>1, <3>1, <3>2, JobUnchanged DEF ClaimBatch, Quiet, Frame
  <2>2. CASE /\ Claimable
             /\ job' = [job EXCEPT !.status = "committing", !.owner = w, !.lease = "live"]
             /\ wrk' = [wrk EXCEPT ![w] = [@ EXCEPT !.pc = "rows", !.todo = Batch]]
             /\ queue' = queue
    <3>1. JobQuiet
      <4>1. job' \in JobRows /\ job'.status = "committing" /\ Alike(job, job')
        BY <2>2, JobClaimed
      <4>. QED  BY <2>2, <4>1, AlikeIsQuiet DEF Claimable
    <3>2. WorkQuiet
      <4>1. Batch \in SUBSET Rows
        BY DEF Batch
      <4>2. [wrk[w] EXCEPT !.pc = "rows", !.todo = Batch] \in WorkStates
        BY <4>1, WorkerTyped
      <4>3. wrk' \in [Workers -> WorkStates]
        BY <2>2, <4>2
      <4>4. wrk'[w].pc = "rows"
        BY <2>2 DEF WorkStates
      <4>5. \A u \in Workers : u # w => wrk'[u] = wrk[u]
        BY <2>2
      <4>. QED  BY <2>2, <4>3, <4>4, <4>5 DEF WorkQuiet
    <3>. QED  BY <1>2, <2>2, <3>1, <3>2 DEF ClaimBatch, Quiet, Frame
  <2>. QED  BY <1>2, <2>1, <2>2 DEF ClaimBatch
<1>3. ASSUME Settle(w)
      PROVE  Quiet /\ Frame
  <2>1. JobQuiet
    BY <1>3, JobUnchanged, JobAttempts DEF Settle, JobQuiet
  <2>2. WorkQuiet
    BY <1>3, WorkMoves DEF Settle
  <2>. QED  BY <1>3, <2>1, <2>2 DEF Settle, Quiet, Frame
<1>4. ASSUME Requeue(w)
      PROVE  Quiet /\ Frame
  <2>1. JobQuiet
    <3>1. CASE Owned(w)
      <4>1. "commit_queued" \in Statuses
        BY DEF Statuses
      <4>2. job' \in JobRows /\ job'.status = "commit_queued" /\ Alike(job, job')
        <5>1. job' = [job EXCEPT !.status = "commit_queued", !.owner = NoOwner, !.lease = "none"]
          BY <1>4, <3>1 DEF Requeue
        <5>. QED  BY <4>1, <5>1, JobReleased
      <4>. QED  BY <3>1, <4>2, AlikeIsQuiet DEF Owned
    <3>. QED  BY <1>4, <3>1, JobUnchanged DEF Requeue
  <2>2. WorkQuiet
    BY <1>4, WorkMoves DEF Requeue
  <2>. QED  BY <1>4, <2>1, <2>2 DEF Requeue, Quiet, Frame
<1>5. ASSUME PublishNext(w)
      PROVE  Quiet /\ Frame
  <2>1. WorkQuiet
    BY <1>5, WorkMoves DEF PublishNext
  <2>2. queue' \in [0 .. MaxReceive - 1 -> Nat]
    BY <1>5, QueueTyped DEF PublishNext, EnqueueOK, EnqueueFails
  <2>3. faults' \in 0 .. MaxFaults
    BY <1>5, FaultTyped DEF PublishNext, EnqueueOK, EnqueueFails
  <2>. QED  BY <1>5, <2>1, <2>2, <2>3, JobUnchanged DEF PublishNext, Quiet, Frame
<1>6. ASSUME Notify(w)
      PROVE  Quiet /\ Frame
  <2>1. JobQuiet
    <3>1. PICK n \in {"pending", "sent", "failed"} : job' = [job EXCEPT !.notice = n]
      BY <1>6 DEF Notify, JobRows
    <3>2. job' \in JobRows /\ job'.status = job.status /\ Alike(job, job')
      BY <3>1, JobNotice
    <3>. QED  BY <3>2, AlikeIsQuiet
  <2>2. WorkQuiet
    BY <1>6, WorkMoves DEF Notify
  <2>3. queue' \in [0 .. MaxReceive - 1 -> Nat]
    BY <1>6, QueueTyped DEF Notify
  <2>4. faults' \in 0 .. MaxFaults
    BY <1>6, FaultTyped DEF Notify
  <2>. QED  BY <1>6, <2>1, <2>2, <2>3, <2>4 DEF Notify, Quiet, Frame
<1>7. ASSUME WorkRetry(w)
      PROVE  Quiet /\ Frame
  <2>1. JobQuiet
    BY <1>7, RetriedIsQuiet DEF WorkRetry
  <2>2. WorkQuiet
    BY <1>7, WorkMoves DEF WorkRetry
  <2>3. queue' \in [0 .. MaxReceive - 1 -> Nat]
    BY <1>7, QueueTyped DEF WorkRetry
  <2>. QED  BY <1>7, <2>1, <2>2, <2>3 DEF WorkRetry, Quiet, Frame
<1>8. ASSUME WorkFails(w)
      PROVE  Quiet /\ Frame
  <2>1. WorkQuiet
    BY <1>8, WorkMoves DEF WorkFails
  <2>2. faults' \in 0 .. MaxFaults
    BY <1>8, FaultTyped DEF WorkFails
  <2>. QED  BY <1>8, <2>1, <2>2, JobUnchanged DEF WorkFails, Quiet, Frame
<1>9. ASSUME WorkCrash(w)
      PROVE  Quiet /\ Frame
  <2>1. WorkQuiet
    BY <1>9, WorkMoves DEF WorkCrash
  <2>2. queue' \in [0 .. MaxReceive - 1 -> Nat]
    BY <1>9, QueueTyped DEF WorkCrash
  <2>3. faults' \in 0 .. MaxFaults
    BY <1>9, FaultTyped DEF WorkCrash
  <2>. QED  BY <1>9, <2>1, <2>2, <2>3, JobUnchanged DEF WorkCrash, Quiet, Frame
<1>. QED  BY <1>1, <1>2, <1>3, <1>4, <1>5, <1>6, <1>7, <1>8, <1>9

-------------------------------------------------------------------------------
(* The steps that leave the rows alone.                                      *)

\* Neither rows nor imports nor validations change, and the job goes on with its
\* commit, or ends.
Calm ==
    /\ UNCHANGED <<rows, imported, val>>
    /\ job'.command = job.command
    /\ job'.total = job.total /\ job'.failed = job.failed /\ job'.succeeded = job.succeeded
    /\ \/ job'.status = job.status
       \/ /\ job.status \in {"commit_queued", "committing"}
          /\ job'.status \in {"commit_queued", "committing", "completed", "failed", "canceled"}
       \/ job.status \in {"validating", "validated"} /\ job'.status = "canceled"

\* A quiet step is calm.
LEMMA QuietIsCalm == ASSUME Quiet PROVE Calm
BY DEF Quiet, JobQuiet, Calm

\* Phases, written rows and tally do not depend on anything else.
LEMMA CalmKeeps ==
    ASSUME Calm, PhasesApart, RowsWritten, TallyIsExact
    PROVE  PhasesApart' /\ RowsWritten' /\ TallyIsExact'
<1>1. PhasesApart'
  BY DEF Calm, PhasesApart, Ended
<1>2. RowsWritten'
  BY DEF Calm, RowsWritten, Whole, PhasesApart
<1>3. TallyIsExact'
  BY DEF Calm, TallyIsExact
<1>. QED  BY <1>1, <1>2, <1>3

\* A quiet step brings no delivery past the count and completes nothing.
LEMMA QuietKeeps ==
    ASSUME ImportInv, Quiet
    PROVE  PhasesApart' /\ RowsWritten' /\ ReportIsFinal' /\ TallyIsExact' /\ CompletedIsWhole'
<1>1. PhasesApart' /\ RowsWritten' /\ TallyIsExact'
  BY QuietIsCalm, CalmKeeps DEF ImportInv
<1>2. ReportIsFinal'
  <2>1. ASSUME NEW w \in Workers
        PROVE  Reported(w)'
    <3>1. wrk'[w].pc \in {"rows", "count"} => job.command
      BY DEF Quiet, WorkQuiet, Claimable, ImportInv, ReportIsFinal, Reported, PhasesApart
    <3>2. wrk'[w].pc \in {"report", "open", "upload", "ready", "complete"} =>
             wrk'[w].pc = wrk[w].pc /\ wrk'[w].report = wrk[w].report
      BY DEF Quiet, WorkQuiet
    <3>3. Settled' = Settled /\ rows' = rows /\ object' = object
          /\ job'.command = job.command /\ job'.artifact = job.artifact
      BY DEF Quiet, JobQuiet, Settled
    <3>. QED  BY <3>1, <3>2, <3>3 DEF ImportInv, ReportIsFinal, Reported
  <2>2. (object # NoReport => job.command /\ Settled /\ object = rows)'
    BY DEF Quiet, JobQuiet, ImportInv, ReportIsFinal, Settled, NoReport
  <2>. QED  BY <2>1, <2>2 DEF ReportIsFinal
<1>3. CompletedIsWhole'
  BY DEF Quiet, JobQuiet, ImportInv, CompletedIsWhole
<1>. QED  BY <1>1, <1>2, <1>3

\* One delivery moves and the others stay.
LEMMA Moved ==
    ASSUME TypeOK, NEW w \in Workers, NEW l \in WorkPcs
    PROVE  /\ wrk' = Goto(w, l) =>
                 /\ wrk'[w].pc = l /\ wrk'[w].report = wrk[w].report
                 /\ \A u \in Workers : u # w => wrk'[u] = wrk[u]
           /\ wrk' = AtRest(w) =>
                 wrk'[w].pc = "idle" /\ \A u \in Workers : u # w => wrk'[u] = wrk[u]
           /\ wrk' = [wrk EXCEPT ![w] = [@ EXCEPT !.pc = "open", !.report = rows]] =>
                 /\ wrk'[w].pc = "open" /\ wrk'[w].report = rows
                 /\ \A u \in Workers : u # w => wrk'[u] = wrk[u]
<1>1. wrk[w] \in WorkStates /\ wrk \in [Workers -> WorkStates]
  BY DEF TypeOK
<1>2. ASSUME wrk' = Goto(w, l)
      PROVE  /\ wrk'[w].pc = l /\ wrk'[w].report = wrk[w].report
             /\ \A u \in Workers : u # w => wrk'[u] = wrk[u]
  BY <1>1, <1>2 DEF Goto, WorkStates
<1>3. ASSUME wrk' = AtRest(w)
      PROVE  wrk'[w].pc = "idle" /\ \A u \in Workers : u # w => wrk'[u] = wrk[u]
  BY <1>1, <1>3 DEF AtRest, RestingWorker
<1>4. ASSUME wrk' = [wrk EXCEPT ![w] = [@ EXCEPT !.pc = "open", !.report = rows]]
      PROVE  /\ wrk'[w].pc = "open" /\ wrk'[w].report = rows
             /\ \A u \in Workers : u # w => wrk'[u] = wrk[u]
  BY <1>1, <1>4 DEF WorkStates
<1>. QED  BY <1>2, <1>3, <1>4

LateStep(w) ==
    \/ CountRemaining(w) \/ ReadReport(w) \/ OpenArtifact(w)
    \/ Upload(w) \/ MarkReady(w) \/ Complete(w)

\* The count and the finalization keep the types, and the rows as they are.
LEMMA LateIsCalm ==
    ASSUME TypeOK, NEW w \in Workers, LateStep(w)
    PROVE  TypeOK' /\ Calm
<1>. USE DEF TypeOK
<1>0. /\ \A l \in {"requeue", "report", "upload", "ready", "complete", "notify", "retry"} :
            Goto(w, l) \in [Workers -> WorkStates]
      /\ AtRest(w) \in [Workers -> WorkStates]
      /\ [wrk EXCEPT ![w] = [@ EXCEPT !.pc = "open", !.report = rows]] \in [Workers -> WorkStates]
  BY WorkersTyped, WorkerTyped DEF WorkPcs
<1>1. ASSUME CountRemaining(w)
      PROVE  TypeOK' /\ Calm
  BY <1>0, <1>1 DEF CountRemaining, Calm
<1>2. ASSUME ReadReport(w)
      PROVE  TypeOK' /\ Calm
  BY <1>0, <1>2 DEF ReadReport, Calm
<1>3. ASSUME OpenArtifact(w)
      PROVE  TypeOK' /\ Calm
  <2>1. job' = job \/ job' = [job EXCEPT !.artifact = "pending"]
                   \/ job' = [job EXCEPT !.artifact = job.artifact]
    BY <1>3 DEF OpenArtifact
  <2>2. /\ job' \in JobRows /\ job'.total = job.total /\ job'.failed = job.failed
        /\ job'.succeeded = job.succeeded /\ job'.status = job.status /\ job'.command = job.command
        /\ job'.attempts = job.attempts
    <3>1. CASE job' = job
      BY <3>1
    <3>2. CASE job' = [job EXCEPT !.artifact = "pending"]
      BY <3>2, JobArtifact
    <3>3. CASE job' = [job EXCEPT !.artifact = job.artifact]
      BY <3>3, JobArtifactKept
    <3>. QED  BY <2>1, <3>1, <3>2, <3>3
  <2>3. wrk' \in [Workers -> WorkStates]
    BY <1>0, <1>3 DEF OpenArtifact
  <2>. QED  BY <1>3, <2>2, <2>3 DEF OpenArtifact, Calm
<1>4. ASSUME Upload(w)
      PROVE  TypeOK' /\ Calm
  <2>1. object' \in [Rows -> RowStatus]
    BY <1>4, WorkerTyped DEF Upload
  <2>. QED  BY <1>0, <1>4, <2>1 DEF Upload, Calm
<1>5. ASSUME MarkReady(w)
      PROVE  TypeOK' /\ Calm
  <2>1. /\ job' \in JobRows /\ job'.total = job.total /\ job'.failed = job.failed
        /\ job'.succeeded = job.succeeded /\ job'.status = job.status /\ job'.command = job.command
        /\ job'.attempts = job.attempts
    BY <1>5, JobArtifact DEF MarkReady
  <2>. QED  BY <1>0, <1>5, <2>1 DEF MarkReady, Calm
<1>6. ASSUME Complete(w)
      PROVE  TypeOK' /\ Calm
  <2>1. CASE job.status = "committing"
    <3>1. "completed" \in Statuses
      BY DEF Statuses
    <3>2. job' = [job EXCEPT !.status = "completed", !.retry = "none",
                             !.owner = NoOwner, !.lease = "none"]
      BY <1>6, <2>1 DEF Complete
    <3>3. job' \in JobRows /\ job'.status = "completed" /\ Alike(job, job')
      BY <3>1, <3>2, JobRetimed
    <3>4. wrk' \in [Workers -> WorkStates]
      BY <1>0, <1>6 DEF Complete
    <3>. QED  BY <1>6, <2>1, <3>3, <3>4 DEF Complete, Calm, Alike
  <2>2. CASE job.status # "committing"
    BY <1>0, <1>6, <2>2 DEF Complete, Calm
  <2>. QED  BY <2>1, <2>2
<1>. QED  BY <1>1, <1>2, <1>3, <1>4, <1>5, <1>6 DEF LateStep

\* A step of the finalization establishes what the next one relies on.
LEMMA LateKeeps ==
    ASSUME ImportInv, NEW w \in Workers, LateStep(w)
    PROVE  PhasesApart' /\ RowsWritten' /\ ReportIsFinal' /\ TallyIsExact' /\ CompletedIsWhole'
<1>0. TypeOK /\ TypeOK' /\ Calm /\ Reported(w)
  BY LateIsCalm DEF ImportInv, ReportIsFinal
<1>1. PhasesApart' /\ RowsWritten' /\ TallyIsExact'
  BY <1>0, CalmKeeps DEF ImportInv
<1>2. rows' = rows /\ job'.command = job.command /\ (Settled' <=> Settled) /\ NoReport' = NoReport
  BY <1>0 DEF Calm, Settled, NoReport
\* The other deliveries are not disturbed when the object and the artifact are kept.
<1>3. ASSUME \A u \in Workers : u # w => wrk'[u] = wrk[u],
             object' = object \/ object' = rows,
             job.artifact = "ready" => job'.artifact = "ready",
             Reported(w)',
             object' # object => job.command /\ Settled
      PROVE  ReportIsFinal'
  <2>1. ASSUME NEW u \in Workers, u # w
        PROVE  Reported(u)'
    BY <1>2, <1>3, <2>1 DEF ImportInv, ReportIsFinal, Reported
  <2>2. (object # NoReport => job.command /\ Settled /\ object = rows)'
    BY <1>2, <1>3 DEF ImportInv, ReportIsFinal
  <2>. QED  BY <1>3, <2>1, <2>2 DEF ReportIsFinal
<1>. USE DEF WorkPcs
<1>4. ASSUME CountRemaining(w)
      PROVE  ReportIsFinal' /\ CompletedIsWhole'
  <2>. DEFINE l == IF \E r \in Rows : rows[r] = "validated" THEN "requeue" ELSE "report"
  <2>0. l \in WorkPcs /\ wrk' = Goto(w, l)
    BY <1>4 DEF CountRemaining
  <2>1. wrk'[w].pc = l /\ \A u \in Workers : u # w => wrk'[u] = wrk[u]
    BY <1>0, <2>0, Moved
  <2>2. l = "report" => Settled
    <3>1. Whole
      BY <1>0, <1>4 DEF CountRemaining, Reported, ImportInv, RowsWritten
    <3>. QED  BY <1>0, <3>1 DEF TypeOK, Settled, Whole, RowStatus
  <2>3. Reported(w)'
    BY <1>0, <1>2, <1>4, <2>1, <2>2 DEF CountRemaining, Reported
  <2>4. ReportIsFinal'
    BY <1>3, <1>4, <2>1, <2>3 DEF CountRemaining
  <2>. QED  BY <1>4, <2>4 DEF CountRemaining, ImportInv, CompletedIsWhole
<1>5. ASSUME ReadReport(w)
      PROVE  ReportIsFinal' /\ CompletedIsWhole'
  <2>1. wrk'[w].pc = "open" /\ wrk'[w].report = rows /\ \A u \in Workers : u # w => wrk'[u] = wrk[u]
    BY <1>0, <1>5, Moved DEF ReadReport
  <2>2. Reported(w)'
    BY <1>0, <1>2, <1>5, <2>1 DEF ReadReport, Reported
  <2>3. ReportIsFinal'
    BY <1>3, <1>5, <2>1, <2>2 DEF ReadReport
  <2>. QED  BY <1>5, <2>3 DEF ReadReport, ImportInv, CompletedIsWhole
<1>6. ASSUME OpenArtifact(w)
      PROVE  ReportIsFinal' /\ CompletedIsWhole'
  <2>1. /\ \/ wrk'[w].pc \in {"idle", "retry"}
           \/ wrk'[w].pc = "upload" /\ wrk'[w].report = wrk[w].report
        /\ \A u \in Workers : u # w => wrk'[u] = wrk[u]
    <3>1. wrk' = AtRest(w) \/ wrk' = Goto(w, "retry") \/ wrk' = Goto(w, "upload")
      BY <1>6 DEF OpenArtifact
    <3>2. CASE wrk' = AtRest(w)
      BY <1>0, <3>2, Moved
    <3>3. CASE wrk' = Goto(w, "retry")
      BY <1>0, <3>3, Moved
    <3>4. CASE wrk' = Goto(w, "upload")
      BY <1>0, <3>4, Moved
    <3>. QED  BY <3>1, <3>2, <3>3, <3>4
  <2>2. (job.artifact = "ready" => job'.artifact = "ready") /\ job'.status = job.status
    BY <1>0, <1>6 DEF OpenArtifact, TypeOK, JobRows
  <2>3. Reported(w)'
    <3>1. wrk[w].pc = "open"
      BY <1>6 DEF OpenArtifact
    <3>. QED  BY <1>0, <1>2, <2>1, <3>1 DEF Reported
  <2>4. ReportIsFinal'
    BY <1>3, <1>6, <2>1, <2>2, <2>3 DEF OpenArtifact
  <2>5. CompletedIsWhole'
    BY <1>6, <2>2 DEF OpenArtifact, ImportInv, CompletedIsWhole
  <2>. QED  BY <2>4, <2>5
<1>7. ASSUME Upload(w)
      PROVE  ReportIsFinal' /\ CompletedIsWhole'
  <2>1. /\ \/ wrk'[w].pc = "retry" /\ object' = object
           \/ wrk'[w].pc = "ready" /\ wrk'[w].report = wrk[w].report /\ object' = rows
        /\ \A u \in Workers : u # w => wrk'[u] = wrk[u]
    <3>1. \/ wrk' = Goto(w, "retry") /\ object' = object
          \/ wrk' = Goto(w, "ready") /\ object' = rows
      BY <1>0, <1>7 DEF Upload, Reported
    <3>2. CASE wrk' = Goto(w, "retry") /\ object' = object
      BY <1>0, <3>2, Moved
    <3>3. CASE wrk' = Goto(w, "ready") /\ object' = rows
      BY <1>0, <3>3, Moved
    <3>. QED  BY <3>1, <3>2, <3>3
  <2>2. job.command /\ Settled
    BY <1>0, <1>7 DEF Upload, Reported
  <2>3. Reported(w)'
    BY <1>0, <1>2, <1>7, <2>1, <2>2 DEF Upload, Reported
  <2>4. ReportIsFinal'
    BY <1>3, <1>7, <2>1, <2>2, <2>3 DEF Upload
  <2>5. CompletedIsWhole'
    BY <1>7, <2>1 DEF Upload, ImportInv, CompletedIsWhole
  <2>. QED  BY <2>4, <2>5
<1>8. ASSUME MarkReady(w)
      PROVE  ReportIsFinal' /\ CompletedIsWhole'
  <2>1. /\ wrk'[w].pc = "complete" /\ wrk'[w].report = wrk[w].report
        /\ \A u \in Workers : u # w => wrk'[u] = wrk[u]
    BY <1>0, <1>8, Moved DEF MarkReady
  <2>2. job'.artifact = "ready" /\ job'.status = job.status
    BY <1>0, <1>8, JobArtifact DEF MarkReady, TypeOK
  <2>3. Reported(w)'
    BY <1>0, <1>2, <1>8, <2>1, <2>2 DEF MarkReady, Reported
  <2>4. ReportIsFinal'
    BY <1>3, <1>8, <2>1, <2>2, <2>3 DEF MarkReady
  <2>5. CompletedIsWhole'
    BY <1>8, <2>2 DEF MarkReady, ImportInv, CompletedIsWhole
  <2>. QED  BY <2>4, <2>5
<1>9. ASSUME Complete(w)
      PROVE  ReportIsFinal' /\ CompletedIsWhole'
  <2>1. /\ wrk'[w].pc \in {"idle", "notify"}
        /\ \A u \in Workers : u # w => wrk'[u] = wrk[u]
    BY <1>0, <1>9, Moved DEF Complete
  <2>2. job'.artifact = job.artifact
    BY <1>0, <1>9 DEF Complete, TypeOK, JobRows
  <2>3. Reported(w)'
    BY <2>1 DEF Reported
  <2>4. ReportIsFinal'
    BY <1>3, <1>9, <2>1, <2>2, <2>3 DEF Complete
  <2>5. CompletedIsWhole'
    BY <1>0, <1>9, <2>2 DEF Complete, CompletedIsWhole, Reported, Settled
  <2>. QED  BY <2>4, <2>5
<1>. QED  BY <1>1, <1>4, <1>5, <1>6, <1>7, <1>8, <1>9 DEF LateStep

-------------------------------------------------------------------------------
(* The steps that write rows.                                                *)

\* The next row of a batch is a row of it.
LEMMA FirstIsIn == ASSUME NEW S \in SUBSET Rows, S # {} PROVE First(S) \in S
<1>1. S \subseteq Nat
  BY SMT, BulkConstants
<1>2. PICK x \in S : \A y \in S : ~ (<<y, x>> \in OpToRel(<, Nat))
  BY <1>1, NatLessThanWellFounded, WFMin
<1>3. ASSUME NEW y \in S
      PROVE  x <= y
  <2>1. x \in Nat /\ y \in Nat
    BY <1>1
  <2>2. ~ (y < x)
    BY <1>2, <2>1 DEF OpToRel
  <2>. QED  BY SMT, <2>1, <2>2
<1>. QED  BY <1>3 DEF First

\* Sets of rows are finite.
LEMMA RowsAreFinite ==
    ASSUME NEW S \in SUBSET Rows
    PROVE  IsFiniteSet(S) /\ Cardinality(S) \in Nat
<1>1. 1 \in Int /\ NumRows \in Int
  BY SMT, BulkConstants
<1>2. IsFiniteSet(Rows)
  BY <1>1, FS_Interval DEF Rows
<1>3. IsFiniteSet(S)
  BY <1>2, FS_Subset
<1>. QED  BY <1>3, FS_CardinalityType

\* How many rows have a status, after one row got a new one.
LEMMA CountAfter ==
    ASSUME NEW f \in [Rows -> RowStatus], NEW r \in Rows, NEW s \in RowStatus, NEW c \in RowStatus,
           f[r] # c, NEW g, g = [f EXCEPT ![r] = s]
    PROVE  /\ s # c => {q \in Rows : g[q] = c} = {q \in Rows : f[q] = c}
           /\ s = c => /\ {q \in Rows : g[q] = c} = {q \in Rows : f[q] = c} \cup {r}
                       /\ Cardinality({q \in Rows : g[q] = c}) =
                             Cardinality({q \in Rows : f[q] = c}) + 1
<1>. DEFINE A == {q \in Rows : f[q] = c}
            B == {q \in Rows : g[q] = c}
<1>1. A \in SUBSET Rows /\ r \notin A
  OBVIOUS
<1>2. ASSUME s = c
      PROVE  B = A \cup {r} /\ Cardinality(B) = Cardinality(A) + 1
  <2>1. B = A \cup {r}
    BY <1>2
  <2>. QED  BY <1>1, <2>1, RowsAreFinite, FS_AddElement
<1>3. ASSUME s # c
      PROVE  B = A
  BY <1>3
<1>. QED  BY <1>2, <1>3

\* How many rows are written, after one row was.
LEMMA WrittenAfter ==
    ASSUME NEW f \in [Rows -> RowStatus], NEW r \in Rows, NEW s \in RowStatus, s # "absent",
           NEW g, g = [f EXCEPT ![r] = s]
    PROVE  /\ f[r] # "absent" => {q \in Rows : g[q] # "absent"} = {q \in Rows : f[q] # "absent"}
           /\ f[r] = "absent" => Cardinality({q \in Rows : g[q] # "absent"}) =
                                    Cardinality({q \in Rows : f[q] # "absent"}) + 1
<1>. DEFINE A == {q \in Rows : f[q] # "absent"}
            B == {q \in Rows : g[q] # "absent"}
<1>1. A \in SUBSET Rows
  OBVIOUS
<1>2. ASSUME f[r] = "absent"
      PROVE  Cardinality(B) = Cardinality(A) + 1
  <2>1. B = A \cup {r} /\ r \notin A
    BY <1>2
  <2>. QED  BY <1>1, <2>1, RowsAreFinite, FS_AddElement
<1>3. ASSUME f[r] # "absent"
      PROVE  B = A
  BY <1>3
<1>. QED  BY <1>2, <1>3

\* A delivery settles row r: it is found a duplicate, or its entity is created.
RowSettled(r) ==
    /\ job.status = "committing" /\ rows[r] = "validated"
    /\ \/ /\ rows' = [rows EXCEPT ![r] = "invalid"] /\ imported' = imported
          /\ job'.failed = job.failed + 1 /\ job'.succeeded = job.succeeded
       \/ /\ rows' = [rows EXCEPT ![r] = "succeeded"] /\ imported' = imported \cup {r}
          /\ job'.failed = job.failed /\ job'.succeeded = job.succeeded + 1
    /\ job'.total = job.total /\ job'.status = job.status /\ job'.command = job.command
    /\ job'.artifact = job.artifact
    /\ \A u \in Workers : wrk'[u].pc = wrk[u].pc
    /\ UNCHANGED <<object, val>>

\* commitRow does that, or nothing the invariant notices.
LEMMA CommitRowCases ==
    ASSUME TypeOK, NEW w \in Workers, CommitRow(w)
    PROVE  TypeOK' /\ (Quiet \/ \E r \in Rows : RowSettled(r))
<1>. DEFINE r   == First(wrk[w].todo)
            dup == rows[r] = "validated" /\ r \in existing \cup imported
            new == rows[r] = "validated" /\ r \notin existing \cup imported
<1>0. wrk[w] \in WorkStates /\ wrk[w].todo \in SUBSET Rows
  BY WorkerTyped DEF TypeOK
<1>1. r \in Rows
  BY <1>0, FirstIsIn DEF CommitRow
<1>2. Frame
  BY DEF CommitRow, Frame, TypeOK
<1>3. CASE UNCHANGED <<job, rows, imported>> /\ (wrk' = AtRest(w) \/ wrk' = Goto(w, "retry"))
  <2>1. WorkQuiet
    BY <1>3, WorkMoves
  <2>2. Quiet
    BY <1>3, <2>1, JobUnchanged DEF CommitRow, Quiet
  <2>. QED  BY <1>2, <2>2, QuietTyped
<1>4. CASE /\ Owned(w) /\ rows[r] \in {"validated", "succeeded"}
           /\ rows' = IF dup THEN [rows EXCEPT ![r] = "invalid"] ELSE [rows EXCEPT ![r] = "succeeded"]
           /\ imported' = IF new THEN imported \cup {r} ELSE imported
           /\ job' = [job EXCEPT !.failed = IF dup THEN job.failed + 1 ELSE job.failed,
                                 !.succeeded = IF new THEN job.succeeded + 1 ELSE job.succeeded]
           /\ wrk' = [wrk EXCEPT ![w] = [@ EXCEPT !.todo = wrk[w].todo \ {r}]]
  <2>. DEFINE f == IF dup THEN job.failed + 1 ELSE job.failed
              g == IF new THEN job.succeeded + 1 ELSE job.succeeded
  <2>1. job \in JobRows /\ job.failed \in Nat /\ job.succeeded \in Nat
    BY JobFields DEF TypeOK
  <2>2. f \in Nat /\ g \in Nat
    BY SMT, <2>1
  <2>3. job' = [job EXCEPT !.failed = f, !.succeeded = g]
    BY <1>4
  <2>. HIDE DEF f, g
  <2>4. /\ job' \in JobRows /\ job'.total = job.total /\ job'.failed = f /\ job'.succeeded = g
        /\ job'.status = job.status /\ job'.command = job.command
        /\ job'.artifact = job.artifact /\ job'.attempts = job.attempts
    BY <2>1, <2>2, <2>3 DEF JobRows
  <2>. USE DEF f, g
  <2>. HIDE DEF r
  <2>5. /\ wrk' \in [Workers -> WorkStates]
        /\ \A u \in Workers : wrk'[u].pc = wrk[u].pc /\ wrk'[u].report = wrk[u].report
    <3>1. wrk[w].todo \ {r} \in SUBSET Rows
      BY <1>0
    <3>2. [wrk[w] EXCEPT !.todo = wrk[w].todo \ {r}] \in WorkStates
      BY <1>0, <3>1, WorkerTyped
    <3>3. wrk' \in [Workers -> WorkStates]
      BY <1>4, <3>2 DEF TypeOK
    <3>4. /\ wrk'[w].pc = wrk[w].pc /\ wrk'[w].report = wrk[w].report
          /\ \A u \in Workers : u # w => wrk'[u] = wrk[u]
      BY <1>0, <1>4 DEF TypeOK, WorkStates
    <3>. QED  BY <3>3, <3>4
  <2>6. rows' \in [Rows -> RowStatus] /\ imported' \subseteq Rows
    BY <1>1, <1>4 DEF TypeOK, RowStatus
  <2>7. TypeOK'
    BY <1>2, <2>4, <2>5, <2>6 DEF CommitRow, TypeOK, Frame
  <2>8. CASE rows[r] = "succeeded"
    <3>1. ~ dup /\ ~ new
      BY <2>8
    <3>2. rows' = rows /\ imported' = imported
      BY <1>1, <1>4, <2>8, <3>1 DEF TypeOK
    <3>3. JobQuiet
      BY <2>4, <3>1 DEF JobQuiet, TypeOK
    <3>4. WorkQuiet
      BY <2>5 DEF WorkQuiet
    <3>. QED  BY <2>7, <3>2, <3>3, <3>4 DEF CommitRow, Quiet
  <2>9. CASE rows[r] = "validated"
    <3>1. (dup /\ ~ new) \/ (new /\ ~ dup)
      BY <2>9
    <3>2. RowSettled(r)
      BY <1>4, <2>4, <2>5, <2>9, <3>1 DEF CommitRow, RowSettled, Owned
    <3>. QED  BY <1>1, <2>7, <3>2
  <2>. QED  BY <1>4, <2>8, <2>9
<1>. QED  BY <1>3, <1>4 DEF CommitRow

\* A row is settled under the commit, by a job that has no report yet.
LEMMA RowSettledKeeps ==
    ASSUME ImportInv, NEW r \in Rows, RowSettled(r)
    PROVE  PhasesApart' /\ RowsWritten' /\ ReportIsFinal' /\ TallyIsExact' /\ CompletedIsWhole'
<1>0. TypeOK /\ rows \in [Rows -> RowStatus] /\ job.command /\ ~ Settled
  BY DEF ImportInv, TypeOK, PhasesApart, RowSettled, Settled
<1>1. PhasesApart'
  BY <1>0 DEF ImportInv, PhasesApart, RowSettled
<1>2. RowsWritten'
  BY <1>0 DEF ImportInv, RowsWritten, Whole, RowSettled, PhasesApart
<1>3. ReportIsFinal'
  <2>1. ASSUME NEW u \in Workers
        PROVE  Reported(u)'
    BY <1>0 DEF ImportInv, ReportIsFinal, Reported, RowSettled
  <2>2. (object # NoReport => job.command /\ Settled /\ object = rows)'
    BY <1>0 DEF ImportInv, ReportIsFinal, RowSettled, NoReport
  <2>. QED  BY <2>1, <2>2 DEF ReportIsFinal
<1>4. CompletedIsWhole'
  BY DEF RowSettled, CompletedIsWhole
<1>5. TallyIsExact'
  <2>1. PICK f \in [Rows -> RowStatus] : f = rows
    BY <1>0
  <2>2. f[r] = "validated" /\ "invalid" \in RowStatus /\ "succeeded" \in RowStatus /\ "absent" \in RowStatus
    BY <2>1 DEF RowSettled, RowStatus
  <2>3. /\ job.total = Cardinality({q \in Rows : f[q] # "absent"})
        /\ job.failed = Cardinality({q \in Rows : f[q] = "invalid"})
        /\ job.succeeded = Cardinality(imported)
        /\ imported = {q \in Rows : f[q] = "succeeded"}
    BY <2>1 DEF ImportInv, TallyIsExact
  <2>5. CASE /\ rows' = [f EXCEPT ![r] = "invalid"] /\ imported' = imported
             /\ job'.failed = job.failed + 1 /\ job'.succeeded = job.succeeded
    <3>1. Cardinality({q \in Rows : rows'[q] # "absent"}) = job.total
      BY <2>2, <2>3, <2>5, WrittenAfter
    <3>2. Cardinality({q \in Rows : rows'[q] = "invalid"}) = job.failed + 1
      <4>1. Cardinality({q \in Rows : rows'[q] = "invalid"}) =
              Cardinality({q \in Rows : f[q] = "invalid"}) + 1
        BY SMT, <2>2, <2>5, CountAfter
      <4>. QED  BY <2>3, <4>1
    <3>3. imported' = {q \in Rows : rows'[q] = "succeeded"}
      BY <2>2, <2>3, <2>5
    <3>. QED  BY <2>3, <2>5, <3>1, <3>2, <3>3 DEF TallyIsExact, RowSettled
  <2>6. CASE /\ rows' = [f EXCEPT ![r] = "succeeded"] /\ imported' = imported \cup {r}
             /\ job'.failed = job.failed /\ job'.succeeded = job.succeeded + 1
    <3>1. Cardinality({q \in Rows : rows'[q] # "absent"}) = job.total
      BY <2>2, <2>3, <2>6, WrittenAfter
    <3>2. Cardinality({q \in Rows : rows'[q] = "invalid"}) = job.failed
      BY <2>2, <2>3, <2>6, CountAfter
    <3>3. imported' = {q \in Rows : rows'[q] = "succeeded"}
      BY <2>2, <2>3, <2>6
    <3>4. Cardinality(imported') = job.succeeded + 1
      <4>1. Cardinality({q \in Rows : rows'[q] = "succeeded"}) =
              Cardinality({q \in Rows : f[q] = "succeeded"}) + 1
        BY SMT, <2>2, <2>6, CountAfter
      <4>. QED  BY <2>3, <3>3, <4>1
    <3>. QED  BY <2>6, <3>1, <3>2, <3>3, <3>4 DEF TallyIsExact, RowSettled
  <2>. QED  BY <2>1, <2>5, <2>6 DEF RowSettled
<1>. QED  BY <1>1, <1>2, <1>3, <1>4, <1>5

\* What a validation may become.
LEMMA ValTyped ==
    /\ [pc |-> "idle", at |-> 1] \in ValStates
    /\ [pc |-> "rows", at |-> 1] \in ValStates
    /\ [pc |-> "reset", at |-> 1] \in ValStates
    /\ \A x \in ValStates :
          /\ [x EXCEPT !.pc = "rows"] \in ValStates
          /\ x.at \in Rows => [x EXCEPT !.at = x.at + 1] \in ValStates
<1>1. 1 \in 1 .. NumRows + 1
  BY SMT, BulkConstants
<1>2. ASSUME NEW x \in ValStates, x.at \in Rows
      PROVE  x.at + 1 \in 1 .. NumRows + 1
  BY SMT, <1>2, BulkConstants
<1>. QED  BY <1>1, <1>2 DEF ValStates

\* A validation that is started, reset, ended or dead leaves the job typed.
LEMMA ValidationTyped ==
    ASSUME TypeOK, NEW v \in Validators, Validate(v)
    PROVE  TypeOK'
<1>. USE DEF TypeOK
<1>1. ASSUME ValStart(v)
      PROVE  TypeOK'
  <2>1. val' \in [Validators -> ValStates]
    BY <1>1, ValTyped DEF ValStart
  <2>2. job' \in JobRows /\ (job'.attempts = MaxAttempts => job'.status = "failed")
    <3>1. CASE job' = job
      BY <3>1
    <3>2. CASE job.status = "none" /\ job' = [job EXCEPT !.status = "validating"]
      BY <3>2, JobStatus DEF Alike, Statuses
    <3>. QED  BY <1>1, <3>1, <3>2 DEF ValStart
  <2>. QED  BY <1>1, <2>1, <2>2 DEF ValStart
<1>2. ASSUME ValReset(v)
      PROVE  TypeOK'
  <2>1. val' \in [Validators -> ValStates]
    BY <1>2, ValTyped DEF ValReset
  <2>2. job' \in JobRows /\ (job'.attempts = MaxAttempts => job'.status = "failed")
    BY <1>2, JobReset DEF ValReset
  <2>. QED  BY <1>2, <2>1, <2>2, RestTyped DEF ValReset
<1>3. ASSUME ValRow(v)
      PROVE  TypeOK'
  <2>1. CASE rows[val[v].at] # "absent"
    <3>1. val' = Idled(v) /\ UNCHANGED <<job, rows>>
      BY <1>3, <2>1 DEF ValRow
    <3>2. val' \in [Validators -> ValStates]
      BY <3>1, ValTyped DEF Idled
    <3>. QED  BY <1>3, <3>1, <3>2 DEF ValRow
  <2>2. CASE rows[val[v].at] = "absent"
    <3>1. PICK s \in {"validated", "invalid"} :
            /\ rows' = [rows EXCEPT ![val[v].at] = s]
            /\ job' = [job EXCEPT !.total = job.total + 1,
                                  !.failed = IF s = "invalid" THEN job.failed + 1 ELSE job.failed]
            /\ val' = [val EXCEPT ![v] = [@ EXCEPT !.at = val[v].at + 1]]
      BY <1>3, <2>2 DEF ValRow
    <3>2. val' \in [Validators -> ValStates]
      BY <1>3, <3>1, ValTyped DEF ValRow
    <3>3. rows' \in [Rows -> RowStatus]
      BY <3>1 DEF RowStatus
    <3>4. job' \in JobRows /\ (job'.attempts = MaxAttempts => job'.status = "failed")
      <4>. DEFINE f == IF s = "invalid" THEN job.failed + 1 ELSE job.failed
      <4>1. job.total \in Nat /\ job.failed \in Nat
        BY JobFields
      <4>2. job.total + 1 \in Nat /\ f \in Nat
        BY SMT, <4>1
      <4>3. job' = [job EXCEPT !.total = job.total + 1, !.failed = f]
        BY <3>1
      <4>. HIDE DEF f
      <4>. QED  BY <4>2, <4>3 DEF JobRows
    <3>. QED  BY <1>3, <3>2, <3>3, <3>4 DEF ValRow
  <2>. QED  BY <2>1, <2>2
<1>4. ASSUME ValEnd(v)
      PROVE  TypeOK'
  <2>1. val' \in [Validators -> ValStates]
    BY <1>4, ValTyped DEF ValEnd, Idled
  <2>2. job' \in JobRows /\ (job'.attempts = MaxAttempts => job'.status = "failed")
    <3>1. CASE job' = job
      BY <3>1
    <3>2. CASE job.status = "validating" /\ job' = [job EXCEPT !.status = "validated"]
      BY <3>2, JobStatus DEF Alike, Statuses
    <3>3. CASE job' = [job EXCEPT !.status = "failed"]
      BY <3>3, JobStatus DEF Alike, Statuses
    <3>. QED  BY <1>4, <3>1, <3>2, <3>3 DEF ValEnd
  <2>. QED  BY <1>4, <2>1, <2>2 DEF ValEnd
<1>5. ASSUME ValCrash(v)
      PROVE  TypeOK'
  BY <1>5, ValTyped, FaultTyped DEF ValCrash, Idled
<1>. QED  BY <1>1, <1>2, <1>3, <1>4, <1>5 DEF Validate

\* The commit is asked for.
LEMMA CommandCases ==
    ASSUME TypeOK, NEW q \in Requests, QueueCommit(q)
    PROVE  \/ Quiet /\ Frame
           \/ /\ TypeOK' /\ ~ job.command
              /\ job.status = "validated" /\ job'.status = "commit_queued" /\ job'.command = TRUE
              /\ job'.artifact = job.artifact
              /\ job'.total = job.total /\ job'.failed = job.failed /\ job'.succeeded = job.succeeded
              /\ UNCHANGED <<rows, imported, object, val, wrk>>
<1>1. CASE job.command
  BY <1>1, DispatchQuiet
<1>2. CASE ~ job.command
  <2>1. job' = [job EXCEPT !.status = "commit_queued", !.command = TRUE, !.retry = "now"]
    BY <1>2 DEF QueueCommit
  <2>2. /\ job' \in JobRows /\ job'.total = job.total /\ job'.failed = job.failed
        /\ job'.succeeded = job.succeeded /\ job'.status = "commit_queued" /\ job'.command = TRUE
        /\ job'.artifact = job.artifact /\ job'.attempts = job.attempts
    BY <2>1, JobCommanded DEF TypeOK
  <2>3. faults' \in 0 .. MaxFaults
    BY FaultTyped DEF QueueCommit, FaultIf, TypeOK
  <2>4. pub' \in [Publishers -> {"idle", "publish", "clear", "retry"}]
    BY DEF QueueCommit, TypeOK
  <2>5. job.status = "validated"
    BY <1>2 DEF QueueCommit
  <2>6. TypeOK'
    BY <2>2, <2>3, <2>4, <2>5 DEF QueueCommit, TypeOK
  <2>. QED  BY <1>2, <2>2, <2>5, <2>6 DEF QueueCommit
<1>. QED  BY <1>1, <1>2

\* A commit starts from a file that is wholly validated, with no validation left.
LEMMA CommandKeeps ==
    ASSUME ImportInv, NEW q \in Requests, QueueCommit(q)
    PROVE  PhasesApart' /\ RowsWritten' /\ ReportIsFinal' /\ TallyIsExact' /\ CompletedIsWhole'
<1>0. TypeOK
  BY DEF ImportInv
<1>1. CASE Quiet
  BY <1>1, QuietKeeps
<1>2. CASE /\ ~ job.command
           /\ job.status = "validated" /\ job'.status = "commit_queued" /\ job'.command = TRUE
           /\ job'.artifact = job.artifact
           /\ job'.total = job.total /\ job'.failed = job.failed /\ job'.succeeded = job.succeeded
           /\ UNCHANGED <<rows, imported, object, val, wrk>>
  <2>1. PhasesApart'
    BY <1>2 DEF ImportInv, PhasesApart
  <2>2. RowsWritten'
    BY <1>2 DEF ImportInv, RowsWritten, Whole
  <2>3. ReportIsFinal'
    <3>1. ASSUME NEW u \in Workers
          PROVE  Reported(u)'
      BY <1>2 DEF ImportInv, ReportIsFinal, Reported
    <3>2. (object # NoReport => job.command /\ Settled /\ object = rows)'
      BY <1>2 DEF ImportInv, ReportIsFinal, NoReport
    <3>. QED  BY <3>1, <3>2 DEF ReportIsFinal
  <2>4. TallyIsExact'
    BY <1>2 DEF ImportInv, TallyIsExact
  <2>5. CompletedIsWhole'
    BY <1>2 DEF CompletedIsWhole
  <2>. QED  BY <2>1, <2>2, <2>3, <2>4, <2>5
<1>. QED  BY <1>0, <1>1, <1>2, CommandCases

\* While a validation runs nothing is committed, reported or imported.
LEMMA ValidationAlone ==
    ASSUME ImportInv, NEW v \in Validators, val[v].pc # "idle"
    PROVE  /\ job.status \in {"validating", "canceled"} /\ ~ job.command /\ imported = {}
           /\ object = NoReport
           /\ \A u \in Workers :
                 wrk[u].pc \notin {"rows", "count", "report", "open", "upload", "ready", "complete"}
BY DEF ImportInv, PhasesApart, ReportIsFinal, Reported

\* So a step that leaves command, object and deliveries alone keeps the reports.
LEMMA ReportsUntouched ==
    ASSUME ImportInv, NEW v \in Validators, val[v].pc # "idle", UNCHANGED <<object, wrk>>
    PROVE  ReportIsFinal'
<1>1. ASSUME NEW u \in Workers
      PROVE  Reported(u)'
  BY ValidationAlone DEF Reported
<1>2. object' = NoReport'
  BY ValidationAlone DEF NoReport
<1>. QED  BY <1>1, <1>2 DEF ReportIsFinal

\* Nor does a validation that is abandoned change anything.
LEMMA ValEnded ==
    ASSUME ImportInv, NEW v \in Validators, \A u \in Validators : u = v,
           job.status \in {"validating", "canceled"}, ~ job.command,
           UNCHANGED <<job, rows, imported>>, val'[v].pc = "idle"
    PROVE  PhasesApart' /\ RowsWritten' /\ TallyIsExact' /\ CompletedIsWhole'
<1>1. PhasesApart'
  BY DEF ImportInv, PhasesApart
<1>2. RowsWritten'
  BY DEF ImportInv, RowsWritten
<1>3. TallyIsExact'
  BY DEF ImportInv, TallyIsExact
<1>. QED  BY <1>1, <1>2, <1>3 DEF CompletedIsWhole

\* The steps of the one validation.
LEMMA ValidationKeeps ==
    ASSUME OneValidation, ImportInv, NEW v \in Validators, Validate(v)
    PROVE  PhasesApart' /\ RowsWritten' /\ ReportIsFinal' /\ TallyIsExact' /\ CompletedIsWhole'
<1>0. /\ TypeOK /\ job \in JobRows /\ rows \in [Rows -> RowStatus]
      /\ val \in [Validators -> ValStates] /\ val[v] \in ValStates
      /\ \A u \in Validators : u = v
      /\ \A r \in Rows : ~ (r < 1)
  <2>1. \A r \in Rows : ~ (r < 1)
    BY SMT, BulkConstants
  <2>. QED  BY <2>1 DEF ImportInv, TypeOK, OneValidation
<1>1. ASSUME ValStart(v)
      PROVE  PhasesApart' /\ RowsWritten' /\ ReportIsFinal' /\ TallyIsExact' /\ CompletedIsWhole'
  <2>1. /\ val'[v].pc \in {"rows", "reset"} /\ val'[v].at = 1
        /\ job.status \in {"none", "validating"} /\ job'.status = "validating"
        /\ job'.command = job.command /\ job'.artifact = job.artifact
        /\ job'.total = job.total /\ job'.failed = job.failed /\ job'.succeeded = job.succeeded
    <3>1. CASE /\ job.status = "none" /\ job' = [job EXCEPT !.status = "validating"]
               /\ val' = [val EXCEPT ![v] = [pc |-> "rows", at |-> 1]]
      BY <1>0, <3>1 DEF JobRows
    <3>2. CASE /\ job.status = "validating" /\ job' = job
               /\ val' = [val EXCEPT ![v] = [pc |-> "reset", at |-> 1]]
      BY <1>0, <3>2
    <3>. QED  BY <1>1, <3>1, <3>2 DEF ValStart
  <2>2. UNCHANGED <<rows, imported, object, wrk>>
    BY <1>1 DEF ValStart
  <2>3. ~ job.command
    BY <2>1 DEF ImportInv, PhasesApart, Ended
  <2>4. PhasesApart'
    BY <1>0, <2>1, <2>2, <2>3 DEF ImportInv, PhasesApart
  <2>5. RowsWritten'
    BY <1>0, <2>1, <2>3 DEF RowsWritten
  <2>6. ReportIsFinal'
    <3>1. ASSUME NEW u \in Workers
          PROVE  Reported(u)'
      BY <2>2, <2>3 DEF ImportInv, ReportIsFinal, Reported
    <3>2. object' = NoReport'
      BY <2>2, <2>3 DEF ImportInv, ReportIsFinal, NoReport
    <3>. QED  BY <3>1, <3>2 DEF ReportIsFinal
  <2>7. TallyIsExact'
    BY <2>1, <2>2 DEF ImportInv, TallyIsExact
  <2>. QED  BY <2>1, <2>4, <2>5, <2>6, <2>7 DEF CompletedIsWhole
<1>. SUFFICES ASSUME val[v].pc # "idle", ~ ValStart(v)
              PROVE  PhasesApart' /\ RowsWritten' /\ ReportIsFinal' /\ TallyIsExact' /\ CompletedIsWhole'
  BY <1>1 DEF Validate, ValReset, ValRow, ValEnd, ValCrash
<1>2. /\ job.status \in {"validating", "canceled"} /\ ~ job.command /\ imported = {}
      /\ imported' = imported /\ UNCHANGED <<object, wrk>>
  BY ValidationAlone DEF Validate, ValReset, ValRow, ValEnd, ValCrash
<1>3. ReportIsFinal'
  BY <1>2, ReportsUntouched
<1>4. ASSUME ValReset(v)
      PROVE  PhasesApart' /\ RowsWritten' /\ TallyIsExact' /\ CompletedIsWhole'
  <2>1. /\ job'.status = job.status /\ job'.command = job.command
        /\ job'.total = 0 /\ job'.failed = 0 /\ job'.succeeded = 0
    BY <1>0, <1>4, JobReset DEF ValReset
  <2>2. val'[v].pc = "rows" /\ val'[v].at = 1
    <3>1. val[v].at = 1
      BY <1>4 DEF ValReset, ImportInv, RowsWritten
    <3>. QED  BY <1>0, <1>4, <3>1 DEF ValReset, ValStates
  <2>3. PhasesApart'
    BY <1>0, <1>2, <2>1 DEF PhasesApart
  <2>4. RowsWritten'
    BY <1>0, <1>2, <2>1, <2>2 DEF RowsWritten
  <2>5. TallyIsExact'
    <3>1. /\ {r \in Rows : rows'[r] # "absent"} = {} /\ {r \in Rows : rows'[r] = "invalid"} = {}
          /\ {r \in Rows : rows'[r] = "succeeded"} = {}
      BY <1>4 DEF ValReset, NoReport
    <3>. QED  BY <1>2, <2>1, <3>1, FS_EmptySet DEF TallyIsExact
  <2>. QED  BY <1>2, <2>1, <2>3, <2>4, <2>5 DEF CompletedIsWhole
<1>5. ASSUME ValRow(v)
      PROVE  PhasesApart' /\ RowsWritten' /\ TallyIsExact' /\ CompletedIsWhole'
  <2>1. CASE rows[val[v].at] # "absent"
    <3>1. UNCHANGED <<job, rows>> /\ val' = Idled(v)
      BY <1>5, <2>1 DEF ValRow
    <3>2. val'[v].pc = "idle"
      BY <1>0, <3>1 DEF Idled
    <3>. QED  BY <1>0, <1>2, <3>1, <3>2, ValEnded
  <2>2. CASE rows[val[v].at] = "absent"
    <3>. DEFINE r == val[v].at
    <3>1. PICK s \in {"validated", "invalid"} :
            /\ rows' = [rows EXCEPT ![r] = s]
            /\ job' = [job EXCEPT !.total = job.total + 1,
                                  !.failed = IF s = "invalid" THEN job.failed + 1 ELSE job.failed]
            /\ val' = [val EXCEPT ![v] = [@ EXCEPT !.at = r + 1]]
      BY <1>5, <2>2 DEF ValRow
    <3>2. r \in Rows /\ val[v].pc = "rows"
      BY <1>5 DEF ValRow
    <3>3. val'[v].pc = "rows" /\ val'[v].at = r + 1
      BY <1>0, <3>1, <3>2 DEF ValStates
    <3>4. /\ job'.status = job.status /\ job'.command = job.command /\ job'.succeeded = job.succeeded
          /\ job'.total = job.total + 1
          /\ job'.failed = IF s = "invalid" THEN job.failed + 1 ELSE job.failed
      BY <1>0, <3>1 DEF JobRows
    <3>5. PhasesApart'
      BY <1>0, <1>2, <3>4 DEF PhasesApart
    <3>6. RowsWritten'
      <4>1. \A p \in Rows : p < r + 1 => p < r \/ p = r
        BY SMT, <3>2, BulkConstants
      <4>2. \A p \in Rows : p < r => rows[p] # "absent"
        BY <3>2 DEF ImportInv, RowsWritten
      <4>3. \A p \in Rows : p < r + 1 => rows'[p] # "absent"
        BY <1>0, <3>1, <3>2, <4>1, <4>2
      <4>. QED  BY <1>0, <1>2, <3>3, <3>4, <4>3 DEF RowsWritten
    <3>7. TallyIsExact'
      <4>1. PICK f \in [Rows -> RowStatus] : f = rows
        BY <1>0
      <4>2. /\ job.total = Cardinality({p \in Rows : f[p] # "absent"})
            /\ job.failed = Cardinality({p \in Rows : f[p] = "invalid"})
            /\ job.succeeded = Cardinality(imported)
            /\ imported = {p \in Rows : f[p] = "succeeded"}
        BY <4>1 DEF ImportInv, TallyIsExact
      <4>3. /\ f[r] = "absent" /\ s \in RowStatus /\ s # "absent" /\ s # "succeeded"
            /\ rows' = [f EXCEPT ![r] = s]
            /\ "invalid" \in RowStatus /\ "succeeded" \in RowStatus
        BY <2>2, <3>1, <4>1 DEF RowStatus
      <4>. HIDE DEF r
      <4>4. Cardinality({p \in Rows : rows'[p] # "absent"}) =
              Cardinality({p \in Rows : f[p] # "absent"}) + 1
        BY SMT, <3>2, <4>3, WrittenAfter
      <4>5. {p \in Rows : rows'[p] = "succeeded"} = {p \in Rows : f[p] = "succeeded"}
        BY <3>2, <4>3
      <4>6. CASE s = "invalid"
        <5>1. Cardinality({p \in Rows : rows'[p] = "invalid"}) =
                Cardinality({p \in Rows : f[p] = "invalid"}) + 1
          BY SMT, <3>2, <4>3, <4>6, CountAfter
        <5>. QED  BY <1>2, <3>4, <4>2, <4>4, <4>5, <4>6, <5>1 DEF TallyIsExact
      <4>7. CASE s # "invalid"
        <5>1. {p \in Rows : rows'[p] = "invalid"} = {p \in Rows : f[p] = "invalid"}
          BY <3>2, <4>3, <4>7
        <5>. QED  BY <1>2, <3>4, <4>2, <4>4, <4>5, <4>7, <5>1 DEF TallyIsExact
      <4>. QED  BY <4>6, <4>7
    <3>. QED  BY <1>2, <3>4, <3>5, <3>6, <3>7 DEF CompletedIsWhole
  <2>. QED  BY <2>1, <2>2
<1>6. ASSUME ValEnd(v)
      PROVE  PhasesApart' /\ RowsWritten' /\ TallyIsExact' /\ CompletedIsWhole'
  <2>1. rows' = rows /\ val'[v].pc = "idle"
    BY <1>0, <1>6 DEF ValEnd, Idled
  <2>2. /\ job'.command = job.command
        /\ job'.total = job.total /\ job'.failed = job.failed /\ job'.succeeded = job.succeeded
        /\ job'.status \in {"validated", "canceled", "failed"}
        /\ job'.status = "validated" => val[v].at = NumRows + 1
    BY <1>0, <1>2, <1>6 DEF ValEnd, JobRows
  <2>3. PhasesApart'
    BY <1>0, <1>2, <2>1, <2>2 DEF PhasesApart
  <2>4. job'.status = "validated" => Whole
    <3>1. \A r \in Rows : r < NumRows + 1
      BY SMT, BulkConstants
    <3>. QED  BY <1>6, <2>2, <3>1 DEF ValEnd, ImportInv, RowsWritten, Whole
  <2>5. RowsWritten'
    BY <1>0, <1>2, <2>1, <2>2, <2>4 DEF RowsWritten, Whole
  <2>6. TallyIsExact'
    BY <1>2, <2>1, <2>2 DEF ImportInv, TallyIsExact
  <2>. QED  BY <2>2, <2>3, <2>5, <2>6 DEF CompletedIsWhole
<1>7. ASSUME ValCrash(v)
      PROVE  PhasesApart' /\ RowsWritten' /\ TallyIsExact' /\ CompletedIsWhole'
  <2>1. UNCHANGED <<job, rows>> /\ val'[v].pc = "idle"
    BY <1>0, <1>7 DEF ValCrash, Idled
  <2>. QED  BY <1>0, <1>2, <2>1, ValEnded
<1>. QED  BY <1>3, <1>4, <1>5, <1>6, <1>7 DEF Validate

-------------------------------------------------------------------------------
(* The invariant, and what follows.                                          *)

\* The steps, sorted by what they do to the rows.
LEMMA ImportSteps ==
    ASSUME TypeOK, [Next]_vars
    PROVE  \/ Quiet /\ Frame
           \/ \E w \in Workers : LateStep(w)
           \/ \E w \in Workers : CommitRow(w)
           \/ \E q \in Requests : QueueCommit(q)
           \/ \E v \in Validators : Validate(v)
<1>1. CASE \E w \in Workers : Work(w) \/ WorkFails(w) \/ WorkCrash(w)
  <2>1. PICK w \in Workers : Work(w) \/ WorkFails(w) \/ WorkCrash(w)
    BY <1>1
  <2>. QED  BY <2>1, WorkIsQuiet DEF Work, LateStep
<1>2. CASE \/ RecoverPending \/ Cancel \/ LeaseRunsOut \/ OtherCreates \/ UNCHANGED vars
           \/ \E p \in Publishers : Dispatch(p) \/ PublishCrash(p)
  BY <1>2, DispatchQuiet
<1>. QED  BY <1>1, <1>2 DEF Next

\* Every step keeps the types, whether one validation runs or several.
LEMMA ImportTypesKept == ASSUME TypeOK, [Next]_vars PROVE TypeOK'
BY ImportSteps, QuietTyped, LateIsCalm, CommitRowCases, CommandCases, ValidationTyped

\* Before the upload there is nothing to count.
LEMMA ImportInit == Init => ImportInv
<1>. SUFFICES ASSUME Init PROVE ImportInv
  OBVIOUS
<1>1. TypeOK
  <2>1. job \in JobRows /\ job.attempts # MaxAttempts
    BY SMT, BulkConstants DEF Init, JobRows, Statuses
  <2>2. queue \in [0 .. MaxReceive - 1 -> Nat] /\ faults \in 0 .. MaxFaults
    BY SMT, BulkConstants DEF Init
  <2>3. val \in [Validators -> ValStates]
    BY ValTyped DEF Init
  <2>4. wrk \in [Workers -> WorkStates]
    BY RestTyped DEF Init
  <2>. QED  BY <2>1, <2>2, <2>3, <2>4, RestTyped DEF Init, TypeOK
<1>2. /\ job.status = "none" /\ ~ job.command
      /\ job.total = 0 /\ job.failed = 0 /\ job.succeeded = 0
      /\ \A v \in Validators : val[v].pc = "idle"
      /\ \A w \in Workers : wrk[w].pc = "idle"
  BY DEF Init, RestingWorker
<1>3. PhasesApart /\ RowsWritten /\ ReportIsFinal /\ CompletedIsWhole
  BY <1>2 DEF Init, PhasesApart, RowsWritten, ReportIsFinal, Reported, CompletedIsWhole
<1>4. TallyIsExact
  <2>1. /\ {r \in Rows : rows[r] # "absent"} = {} /\ {r \in Rows : rows[r] = "invalid"} = {}
        /\ {r \in Rows : rows[r] = "succeeded"} = {} /\ imported = {}
    BY DEF Init, NoReport
  <2>. QED  BY <1>2, <2>1, FS_EmptySet DEF TallyIsExact
<1>. QED  BY <1>1, <1>3, <1>4 DEF ImportInv

\* Every step keeps the invariant.
LEMMA ImportInductive == ASSUME OneValidation, ImportInv, [Next]_vars PROVE ImportInv'
<1>0. TypeOK /\ TypeOK'
  BY ImportTypesKept DEF ImportInv
<1>1. CASE Quiet
  BY <1>0, <1>1, QuietKeeps DEF ImportInv
<1>2. CASE \E w \in Workers : LateStep(w)
  BY <1>0, <1>2, LateKeeps DEF ImportInv
<1>3. CASE \E w \in Workers : CommitRow(w)
  <2>1. Quiet \/ \E r \in Rows : RowSettled(r)
    BY <1>0, <1>3, CommitRowCases
  <2>. QED  BY <1>0, <1>1, <2>1, RowSettledKeeps DEF ImportInv
<1>4. CASE \E q \in Requests : QueueCommit(q)
  BY <1>0, <1>4, CommandKeeps DEF ImportInv
<1>5. CASE \E v \in Validators : Validate(v)
  BY <1>0, <1>5, ValidationKeeps DEF ImportInv
<1>. QED  BY <1>0, <1>1, <1>2, <1>3, <1>4, <1>5, ImportSteps

\* The model's state has its types, however many validations overlap; the counters
\* of attempts, deliveries and faults stay within their limits.
THEOREM ImportTypes == Spec => []TypeOK
<1>1. Init => TypeOK
  BY ImportInit DEF ImportInv
<1>2. TypeOK /\ [Next]_vars => TypeOK'
  BY ImportTypesKept
<1>. QED  BY <1>1, <1>2, PTL DEF Spec

\* The counters the uploader sees are those of the rows, and a row is succeeded
\* exactly when commitRow created its entity, for any number of deliveries of
\* the job's messages, of lost leases, crashes and retries.
THEOREM TallyAlwaysExact == ASSUME OneValidation PROVE Spec => []TallyIsExact
<1>1. ImportInv /\ [Next]_vars => ImportInv'
  BY ImportInductive
<1>2. ImportInv => TallyIsExact
  BY DEF ImportInv
<1>. QED  BY <1>1, <1>2, ImportInit, PTL DEF Spec

\* A completed import has settled every row, and its result file is the report of
\* those rows although finalizeBulkImport does not hold the lease it started with.
THEOREM CompletedAlwaysWhole == ASSUME OneValidation PROVE Spec => []CompletedIsWhole
<1>1. ImportInv /\ [Next]_vars => ImportInv'
  BY ImportInductive
<1>2. ImportInv => CompletedIsWhole
  BY DEF ImportInv
<1>. QED  BY <1>1, <1>2, ImportInit, PTL DEF Spec

\* Cancel is final for the rows and for the commit, whatever was under way.
THEOREM CancelIsFinal == Spec => CanceledStays
<1>1. ASSUME TypeOK, [Next]_vars
      PROVE  [job.status = "canceled" =>
                 job'.status \in {"canceled", "failed"} /\ imported' = imported]_vars
  <2>. SUFFICES ASSUME job.status = "canceled"
                PROVE  job'.status \in {"canceled", "failed"} /\ imported' = imported
    OBVIOUS
  <2>1. CASE Quiet
    BY <2>1 DEF Quiet, JobQuiet
  <2>2. CASE \E w \in Workers : LateStep(w)
    <3>1. Calm
      BY <1>1, <2>2, LateIsCalm
    <3>. QED  BY <3>1 DEF Calm
  <2>3. CASE \E w \in Workers : CommitRow(w)
    <3>1. Quiet \/ \E r \in Rows : RowSettled(r)
      BY <1>1, <2>3, CommitRowCases
    <3>. QED  BY <2>1, <3>1 DEF RowSettled
  <2>4. CASE \E q \in Requests : QueueCommit(q)
    <3>1. Quiet
      BY <1>1, <2>4, CommandCases
    <3>. QED  BY <2>1, <3>1
  <2>5. ASSUME NEW v \in Validators, Validate(v)
        PROVE  job'.status \in {"canceled", "failed"} /\ imported' = imported
    <3>0. job \in JobRows
      BY <1>1 DEF TypeOK
    <3>1. imported' = imported /\ ~ ValStart(v)
      BY <2>5 DEF Validate, ValStart, ValReset, ValRow, ValEnd, ValCrash
    <3>2. CASE ValReset(v)
      BY <3>0, <3>1, <3>2, JobReset DEF ValReset
    <3>3. CASE ValRow(v)
      <4>1. job'.status = job.status
        BY <3>0, <3>3 DEF ValRow, JobRows
      <4>. QED  BY <3>1, <4>1
    <3>4. CASE ValEnd(v)
      BY <3>0, <3>1, <3>4 DEF ValEnd, JobRows
    <3>5. CASE ValCrash(v)
      BY <3>1, <3>5 DEF ValCrash
    <3>. QED  BY <2>5, <3>1, <3>2, <3>3, <3>4, <3>5 DEF Validate
  <2>. QED  BY <1>1, <2>1, <2>2, <2>3, <2>4, <2>5, ImportSteps
<1>2. TypeOK /\ [Next]_vars =>
         [job.status = "canceled" =>
             job'.status \in {"canceled", "failed"} /\ imported' = imported]_vars
  BY <1>1
<1>. QED  BY <1>2, ImportTypes, PTL DEF Spec, CanceledStays

\* A completed import stands: its status, its rows, what it imported and the result
\* file stay as they are, whatever deliveries, uploads, publishers or cancellations
\* of it are still under way.
CompletedImportStays ==
    [][job.status = "completed" =>
          /\ job'.status = "completed" /\ job'.artifact = job.artifact
          /\ UNCHANGED <<rows, imported, object>>]_vars

\* Completion is final: a delivery that finalizes late uploads the same file and
\* marks the same artifact, and Cancel and recordRetry leave the job alone.
THEOREM CompletionIsFinal == ASSUME OneValidation PROVE Spec => CompletedImportStays
<1>1. ASSUME ImportInv, [Next]_vars, job.status = "completed"
      PROVE  /\ job'.status = "completed" /\ job'.artifact = job.artifact
             /\ UNCHANGED <<rows, imported, object>>
  <2>0. TypeOK /\ ImportInv'
    BY <1>1, ImportInductive DEF ImportInv
  <2>1. Calm
    <3>1. ASSUME NEW w \in Workers, CommitRow(w) PROVE Calm
      <4>1. Quiet \/ \E r \in Rows : RowSettled(r)
        BY <2>0, <3>1, CommitRowCases
      <4>. QED  BY <1>1, <4>1, QuietIsCalm DEF RowSettled
    <3>2. ASSUME NEW q \in Requests, QueueCommit(q) PROVE Calm
      <4>1. Quiet
        BY <1>1, <2>0, <3>2, CommandCases
      <4>. QED  BY <4>1, QuietIsCalm
    <3>3. ASSUME NEW v \in Validators, Validate(v) PROVE FALSE
      <4>1. val[v].pc = "idle"
        BY <1>1 DEF ImportInv, PhasesApart
      <4>. QED  BY <1>1, <3>3, <4>1 DEF Validate, ValStart, ValReset, ValRow, ValEnd, ValCrash
    <3>. QED  BY <1>1, <2>0, <3>1, <3>2, <3>3, ImportSteps, QuietIsCalm, LateIsCalm
  <2>2. job'.status = "completed" /\ rows' = rows /\ imported' = imported
    BY <1>1, <2>1 DEF Calm
  <2>3. job.artifact = "ready" /\ object = rows /\ job'.artifact = "ready" /\ object' = rows'
    BY <1>1, <2>0, <2>2 DEF ImportInv, CompletedIsWhole
  <2>. QED  BY <2>2, <2>3
<1>2. ImportInv /\ [Next]_vars =>
         [job.status = "completed" =>
             /\ job'.status = "completed" /\ job'.artifact = job.artifact
             /\ UNCHANGED <<rows, imported, object>>]_vars
  BY <1>1
<1>3. ImportInv /\ [Next]_vars => ImportInv'
  BY ImportInductive
<1>. QED  BY <1>2, <1>3, ImportInit, PTL DEF Spec, CompletedImportStays

-------------------------------------------------------------------------------
(* The recurring invoice.                                                    *)

Holding == {"create", "complete", "fail"}
Working == {"begin"} \cup Holding

\* The transaction that generates has the subscription locked.
LockIsHeld == \A p \in Procs : proc[p].pc \in Holding <=> lock = p

\* The dispatcher's runs are keyed by slots and the requests' by their own keys.
KeysApart ==
    /\ proc[Dispatcher].pc \in Working => proc[Dispatcher].key \in Times
    /\ \A c \in Clients : proc[c].pc \in Working => proc[c].key \in Keys

\* Under the lock the subscription stays active and the run open; a slot's run is
\* for that slot, and one that is about to be completed has its draft.
GenerationHolds ==
    \A p \in Procs : proc[p].pc \in Holding =>
        /\ sub.status = "active"
        /\ runs[proc[p].key].status # "completed"
        /\ proc[p].key \in Times => proc[p].at = proc[p].key
        /\ proc[p].pc = "complete" =>
              invoices[proc[p].key].made /\ invoices[proc[p].key].at = proc[p].at

RunsDated == \A k \in Times : runs[k].status # "none" => runs[k].at = k

RecurringInv ==
    /\ RecurringTypeOK
    /\ LockIsHeld
    /\ KeysApart
    /\ GenerationHolds
    /\ RunsDated
    /\ CompletedRunHasItsDraft

\* The constants, as the proofs use them.
LEMMA RecurringConstants ==
    /\ MaxTime \in Nat /\ MaxFailures \in Nat
    /\ Dispatcher \notin Clients /\ Nobody \notin Procs
    /\ Procs = Clients \cup {Dispatcher}
    /\ RunKeys = Times \cup Keys
    /\ \A k \in Keys : k \notin Times
    /\ 0 \in Times
BY SMT, RecurringAssumption DEF Procs, RunKeys, Times

\* What a process may be doing, by its place.
LEMMA ProcFields ==
    ASSUME NEW x \in ProcStates
    PROVE  /\ x.pc = "begin" => x.key \in RunKeys
           /\ x.pc \in Holding => x.key \in RunKeys /\ x.at \in Times
           /\ x.pc \in Holding => \A l \in Holding :
                 /\ [x EXCEPT !.pc = l] \in ProcStates
                 /\ [x EXCEPT !.pc = l].pc = l
                 /\ [x EXCEPT !.pc = l].key = x.key
                 /\ [x EXCEPT !.pc = l].at = x.at
           /\ x.pc = "save" => x.row \in SubRows
           /\ x = Resting \/ x.pc \in Working \cup {"save"}
<1>. USE DEF Holding, Working
<1>1. CASE x = Resting
  BY <1>1 DEF Resting
<1>2. CASE x \in [pc : {"begin"}, key : RunKeys]
  BY <1>2
<1>3. CASE x \in [pc : Holding, key : RunKeys, at : Times]
  <2>1. x.pc \in Holding /\ x.key \in RunKeys /\ x.at \in Times
    BY <1>3
  <2>2. ASSUME NEW l \in Holding
        PROVE  /\ [x EXCEPT !.pc = l] \in [pc : Holding, key : RunKeys, at : Times]
               /\ [x EXCEPT !.pc = l].pc = l
               /\ [x EXCEPT !.pc = l].key = x.key
               /\ [x EXCEPT !.pc = l].at = x.at
    <3>. HIDE DEF Holding
    <3>. QED  BY <1>3
  <2>. QED  BY <2>1, <2>2 DEF ProcStates
<1>4. CASE x \in [pc : {"save"}, row : SubRows]
  BY <1>4
<1>. QED  BY <1>1, <1>2, <1>3, <1>4 DEF ProcStates

\* The states a process starts from or rests in.
LEMMA ProcBuilt ==
    /\ Resting \in ProcStates /\ Resting.pc = "idle"
    /\ \A k \in RunKeys : [pc |-> "begin", key |-> k] \in ProcStates
    /\ \A k \in RunKeys, t \in Times : [pc |-> "create", key |-> k, at |-> t] \in ProcStates
    /\ \A s \in SubRows : [pc |-> "save", row |-> s] \in ProcStates
BY DEF ProcStates, Resting

\* One process moves: the others are where they were.
LEMMA ProcMoved ==
    ASSUME RecurringTypeOK, NEW p \in Procs, NEW x \in ProcStates, proc' = [proc EXCEPT ![p] = x]
    PROVE  /\ proc' \in [Procs -> ProcStates]
           /\ proc'[p] = x
           /\ \A u \in Procs : u # p => proc'[u] = proc[u]
BY DEF RecurringTypeOK

\* A process at rest starts a generation, or has read the row it will save.
LEMMA StartKeeps ==
    ASSUME RecurringInv, NEW p \in Procs, NEW x \in ProcStates,
           proc[p] = Resting, proc' = [proc EXCEPT ![p] = x],
           \/ x.pc = "save"
           \/ x.pc = "begin" /\ p = Dispatcher /\ x.key \in Times
           \/ x.pc = "begin" /\ p \in Clients /\ x.key \in Keys,
           UNCHANGED <<now, sub, runs, invoices, lock, failures, pool>>
    PROVE  RecurringInv'
<1>0. /\ proc' \in [Procs -> ProcStates] /\ proc'[p] = x
      /\ \A u \in Procs : u # p => proc'[u] = proc[u]
  BY ProcMoved DEF RecurringInv
<1>1. x.pc \notin Holding /\ proc[p].pc \notin Holding
  BY ProcBuilt DEF Holding
<1>2. RecurringTypeOK'
  BY <1>0 DEF RecurringInv, RecurringTypeOK
<1>3. LockIsHeld'
  BY <1>0, <1>1 DEF RecurringInv, LockIsHeld
<1>4. KeysApart'
  BY <1>0, RecurringConstants DEF RecurringInv, KeysApart, Working, Holding
<1>5. GenerationHolds'
  BY <1>0, <1>1 DEF RecurringInv, GenerationHolds
<1>6. RunsDated' /\ CompletedRunHasItsDraft'
  BY DEF RecurringInv, RunsDated, CompletedRunHasItsDraft
<1>. QED  BY <1>2, <1>3, <1>4, <1>5, <1>6 DEF RecurringInv

\* The requests that read, and the dispatcher that lists what is due.
LEMMA StartsKeep ==
    ASSUME RecurringInv,
           \/ DispatchDueInvoiceSubscriptions
           \/ \E c \in Clients :
                 \/ \E k \in Keys : GenerateInvoiceSubscriptionNow(c, k)
                 \/ PauseInvoiceSubscription(c) \/ ResumeInvoiceSubscription(c)
                 \/ \E content \in Contents, start \in Times \cup {Unset} :
                       UpdateInvoiceSubscription(c, content, start)
    PROVE  RecurringInv'
<1>0. sub \in SubRows /\ now \in Times
  BY DEF RecurringInv, RecurringTypeOK
<1>1. CASE DispatchDueInvoiceSubscriptions
  <2>1. sub.next \in Times
    <3>1. sub.next \in 0 .. Unset
      BY <1>0 DEF SubRows
    <3>2. sub.next <= now
      BY <1>1 DEF DispatchDueInvoiceSubscriptions, RunIsDue
    <3>. QED  BY SMT, <1>0, <3>1, <3>2, RecurringConstants DEF Times, Unset
  <2>2. sub.next \in RunKeys /\ Dispatcher \in Procs
    BY <2>1, RecurringConstants
  <2>3. PICK x \in ProcStates : x = [pc |-> "begin", key |-> sub.next]
    BY <2>2, ProcBuilt
  <2>4. x.pc = "begin" /\ x.key = sub.next
    BY <2>3
  <2>5. /\ proc[Dispatcher] = Resting /\ proc' = [proc EXCEPT ![Dispatcher] = x]
        /\ UNCHANGED <<now, sub, runs, invoices, lock, failures, pool>>
    BY <1>1, <2>3 DEF DispatchDueInvoiceSubscriptions
  <2>. QED  BY <2>1, <2>2, <2>4, <2>5, StartKeeps
<1>2. ASSUME NEW c \in Clients, NEW k \in Keys, GenerateInvoiceSubscriptionNow(c, k)
      PROVE  RecurringInv'
  <2>1. k \in RunKeys /\ c \in Procs
    BY RecurringConstants
  <2>2. PICK x \in ProcStates : x = [pc |-> "begin", key |-> k]
    BY <2>1, ProcBuilt
  <2>3. x.pc = "begin" /\ x.key = k
    BY <2>2
  <2>4. /\ proc[c] = Resting /\ proc' = [proc EXCEPT ![c] = x]
        /\ UNCHANGED <<now, sub, runs, invoices, lock, failures, pool>>
    BY <1>2, <2>2 DEF GenerateInvoiceSubscriptionNow
  <2>. QED  BY <2>1, <2>3, <2>4, StartKeeps
<1>3. ASSUME NEW c \in Clients, NEW row \in SubRows, Saving(c, row)
      PROVE  RecurringInv'
  <2>1. c \in Procs
    BY RecurringConstants
  <2>2. PICK x \in ProcStates : x = [pc |-> "save", row |-> row]
    BY ProcBuilt
  <2>3. x.pc = "save"
    BY <2>2
  <2>4. /\ proc[c] = Resting /\ proc' = [proc EXCEPT ![c] = x]
        /\ UNCHANGED <<now, sub, runs, invoices, lock, failures, pool>>
    BY <1>3, <2>2 DEF Saving
  <2>. QED  BY <2>1, <2>3, <2>4, StartKeeps
<1>4. /\ Unset \in 0 .. Unset
      /\ \A t \in Times : t \in 0 .. Unset
  BY SMT, RecurringConstants DEF Times, Unset
<1>5. ASSUME NEW c \in Clients, PauseInvoiceSubscription(c)
      PROVE  RecurringInv'
  <2>1. [sub EXCEPT !.status = "paused", !.next = Unset] \in SubRows
    BY <1>0, <1>4 DEF SubRows
  <2>. QED  BY <1>3, <1>5, <2>1 DEF PauseInvoiceSubscription
<1>6. ASSUME NEW c \in Clients, ResumeInvoiceSubscription(c)
      PROVE  RecurringInv'
  <2>1. [sub EXCEPT !.status = "active", !.next = IF @ = Unset THEN now ELSE @] \in SubRows
    BY <1>0, <1>4 DEF SubRows
  <2>. QED  BY <1>3, <1>6, <2>1 DEF ResumeInvoiceSubscription
<1>7. ASSUME NEW c \in Clients, NEW content \in Contents, NEW start \in Times \cup {Unset},
             UpdateInvoiceSubscription(c, content, start)
      PROVE  RecurringInv'
  <2>1. [sub EXCEPT !.content = content, !.next = IF @ = Unset THEN start ELSE @] \in SubRows
    BY <1>0, <1>4 DEF SubRows
  <2>. QED  BY <1>3, <1>7, <2>1 DEF UpdateInvoiceSubscription
<1>. QED  BY <1>1, <1>2, <1>5, <1>6, <1>7

\* The lock has at most one holder, and without it nobody generates.
LEMMA OneHolder ==
    ASSUME RecurringInv
    PROVE  /\ lock = Nobody => \A u \in Procs : proc[u].pc \notin Holding
           /\ \A p, u \in Procs : proc[p].pc \in Holding /\ u # p => proc[u].pc \notin Holding
BY RecurringConstants DEF RecurringInv, LockIsHeld

\* A process that comes to rest gives up the lock it may have.  The row and the
\* runs change only with the lock.
LEMMA LeaveKeeps ==
    ASSUME RecurringInv, NEW p \in Procs,
           proc' = [proc EXCEPT ![p] = Resting],
           lock' = IF lock = p THEN Nobody ELSE lock,
           lock \in {p, Nobody} \/ UNCHANGED <<sub, runs>>,
           UNCHANGED <<now, invoices, pool>>,
           sub' \in SubRows, failures' \in 0 .. MaxFailures,
           runs' \in [RunKeys -> [status : {"none", "completed", "failed"}, at : Times]],
           RunsDated', CompletedRunHasItsDraft'
    PROVE  RecurringInv'
<1>0. /\ proc' \in [Procs -> ProcStates] /\ proc'[p] = Resting
      /\ \A u \in Procs : u # p => proc'[u] = proc[u]
  BY ProcMoved, ProcBuilt DEF RecurringInv
<1>1. proc'[p].pc = "idle"
  BY <1>0, ProcBuilt
<1>2. RecurringTypeOK'
  BY <1>0 DEF RecurringInv, RecurringTypeOK
<1>3. LockIsHeld'
  BY <1>0, <1>1, RecurringConstants DEF RecurringInv, LockIsHeld, Holding
<1>4. KeysApart'
  BY <1>0, <1>1, RecurringConstants DEF RecurringInv, KeysApart, Working, Holding
<1>5. GenerationHolds'
  <2>1. CASE lock \in {p, Nobody}
    <3>1. lock' = Nobody
      BY <2>1
    <3>. QED  BY <1>3, <3>1, RecurringConstants DEF LockIsHeld, GenerationHolds
  <2>2. CASE UNCHANGED <<sub, runs>>
    BY <1>0, <1>1, <2>2 DEF RecurringInv, GenerationHolds, Holding
  <2>. QED  BY <2>1, <2>2
<1>. QED  BY <1>2, <1>3, <1>4, <1>5 DEF RecurringInv

\* A generation that found its run completed, ended without one, or was rolled back.
LEMMA QuietLeaveKeeps ==
    ASSUME RecurringInv, NEW p \in Procs,
           proc' = [proc EXCEPT ![p] = Resting],
           lock' = IF lock = p THEN Nobody ELSE lock,
           UNCHANGED <<now, sub, runs, invoices, pool>>, failures' \in 0 .. MaxFailures
    PROVE  RecurringInv'
<1>1. RunsDated' /\ CompletedRunHasItsDraft'
  BY DEF RecurringInv, RunsDated, CompletedRunHasItsDraft
<1>. QED  BY <1>1, LeaveKeeps DEF RecurringInv, RecurringTypeOK

\* The lock is taken for an open run of an active subscription.
LEMMA ClaimKeeps ==
    ASSUME RecurringInv, NEW p \in Procs, Claim(p)
    PROVE  RecurringInv'
<1>0. lock = Nobody /\ lock # p /\ proc[p].pc = "begin" /\ proc[p] \in ProcStates
  BY RecurringConstants DEF Claim, RecurringInv, RecurringTypeOK
<1>1. CASE Answered(p)
  <2>1. /\ proc' = [proc EXCEPT ![p] = Resting] /\ lock' = lock
        /\ UNCHANGED <<now, sub, runs, invoices, pool>> /\ failures' = failures
    BY <1>0, <1>1 DEF Claim
  <2>. QED  BY <1>0, <2>1, QuietLeaveKeeps DEF RecurringInv, RecurringTypeOK
<1>2. CASE ~ Answered(p)
  <2>. DEFINE k == proc[p].key
              t == ScheduledFor(p)
  <2>1. k \in RunKeys /\ (p = Dispatcher => k \in Times) /\ (p \in Clients => k \in Keys)
    BY <1>0, ProcFields, RecurringConstants DEF RecurringInv, KeysApart, Working
  <2>2. runs[k].at \in Times /\ now \in Times
    BY <2>1 DEF RecurringInv, RecurringTypeOK
  <2>3. t \in Times
    BY <2>1, <2>2 DEF ScheduledFor
  <2>4. k \in Times => t = k
    BY <2>1, RecurringConstants DEF ScheduledFor, RecurringInv, RunsDated
  <2>5. runs[k].status # "completed" /\ sub.status = "active"
    BY <1>2 DEF Answered
  <2>6. PICK x \in ProcStates : x = [pc |-> "create", key |-> k, at |-> t]
    BY <2>1, <2>3, ProcBuilt
  <2>7. x.pc = "create" /\ x.key = k /\ x.at = t
    BY <2>6
  <2>8. /\ proc' = [proc EXCEPT ![p] = x] /\ lock' = p
        /\ UNCHANGED <<now, sub, runs, invoices, failures, pool>>
    BY <1>2, <2>6 DEF Claim
  <2>. HIDE DEF t, k
  <2>9. /\ proc' \in [Procs -> ProcStates] /\ proc'[p] = x
        /\ \A u \in Procs : u # p => proc'[u] = proc[u]
    BY <2>8, ProcMoved DEF RecurringInv
  <2>10. RecurringTypeOK'
    BY <2>8, <2>9 DEF RecurringInv, RecurringTypeOK
  <2>11. LockIsHeld'
    BY <1>0, <2>7, <2>8, <2>9, OneHolder DEF LockIsHeld, Holding
  <2>12. KeysApart'
    BY <2>1, <2>7, <2>9, RecurringConstants DEF RecurringInv, KeysApart
  <2>13. GenerationHolds'
    BY <1>0, <2>4, <2>5, <2>7, <2>8, <2>9, OneHolder DEF GenerationHolds
  <2>14. RunsDated' /\ CompletedRunHasItsDraft'
    BY <2>8 DEF RecurringInv, RunsDated, CompletedRunHasItsDraft
  <2>. QED  BY <2>10, <2>11, <2>12, <2>13, <2>14 DEF RecurringInv
<1>. QED  BY <1>1, <1>2

\* The draft is created, found, in conflict or not created: the generation goes to
\* its completion only with a draft of its own request.
LEMMA CreateKeeps ==
    ASSUME RecurringInv, NEW p \in Procs, Creates(p)
    PROVE  RecurringInv'
<1>. DEFINE k == proc[p].key
<1>0. proc[p].pc = "create" /\ proc[p] \in ProcStates /\ lock = p
  BY DEF Creates, CreateByBusiness, CreateFails, RecurringInv, RecurringTypeOK, LockIsHeld, Holding
<1>1. k \in RunKeys /\ proc[p].at \in Times
  BY <1>0, ProcFields DEF Holding
<1>2. PICK d \in Drafts : d = Request(p)
  <2>1. sub.content \in Contents
    BY DEF RecurringInv, RecurringTypeOK, SubRows
  <2>. QED  BY <1>1, <2>1 DEF Request, Drafts
<1>3. d.made /\ d.at = proc[p].at
  BY <1>2 DEF Request
<1>4. PICK l \in {"complete", "fail"} :
        /\ proc' = [proc EXCEPT ![p] = [proc[p] EXCEPT !.pc = l]]
        /\ invoices' \in [RunKeys -> {NoInvoice} \cup Drafts]
        /\ \A j \in RunKeys : invoices[j] # NoInvoice => invoices'[j] = invoices[j]
        /\ l = "complete" => invoices'[k] = d
  <2>1. invoices \in [RunKeys -> {NoInvoice} \cup Drafts]
    BY DEF RecurringInv, RecurringTypeOK
  <2>2. CASE CreateFails(p)
    <3>1. proc' = [proc EXCEPT ![p] = [proc[p] EXCEPT !.pc = "fail"]] /\ invoices' = invoices
      BY <2>2 DEF CreateFails
    <3>. QED  BY <2>1, <3>1
  <2>3. CASE CreateByBusiness(p)
    <3>. DEFINE m == IF invoices[k] \in {NoInvoice, d} THEN "complete" ELSE "fail"
    <3>1. /\ proc' = [proc EXCEPT ![p] = [proc[p] EXCEPT !.pc = m]]
          /\ invoices' = [invoices EXCEPT ![k] = IF invoices[k] = NoInvoice THEN d ELSE invoices[k]]
      BY <1>2, <2>3 DEF CreateByBusiness
    <3>2. m \in {"complete", "fail"}
      OBVIOUS
    <3>3. /\ invoices' \in [RunKeys -> {NoInvoice} \cup Drafts]
          /\ \A j \in RunKeys : invoices[j] # NoInvoice => invoices'[j] = invoices[j]
          /\ m = "complete" => invoices'[k] = d
      BY <1>1, <2>1, <3>1
    <3>. HIDE DEF m
    <3>. QED  BY <3>1, <3>2, <3>3
  <2>. QED  BY <2>2, <2>3 DEF Creates
<1>5. PICK x \in ProcStates : /\ x = [proc[p] EXCEPT !.pc = l] /\ x.pc = l
                                /\ x.key = k /\ x.at = proc[p].at
  <2>1. proc[p].pc \in Holding /\ l \in Holding
    BY <1>0 DEF Holding
  <2>2. PICK y \in ProcStates : y = proc[p]
    BY <1>0
  <2>3. /\ [y EXCEPT !.pc = l] \in ProcStates /\ [y EXCEPT !.pc = l].pc = l
        /\ [y EXCEPT !.pc = l].key = y.key /\ [y EXCEPT !.pc = l].at = y.at
    <3>1. y.pc \in Holding
      BY <2>1, <2>2
    <3>. QED  BY <2>1, <3>1, ProcFields
  <2>. QED  BY <2>2, <2>3
<1>6. proc' = [proc EXCEPT ![p] = x]
  BY <1>4, <1>5
<1>7. /\ proc' \in [Procs -> ProcStates] /\ proc'[p] = x
      /\ \A u \in Procs : u # p => proc'[u] = proc[u]
  BY <1>6, ProcMoved DEF RecurringInv
<1>8. /\ UNCHANGED <<now, sub, runs, lock, pool>>
      /\ failures' = failures \/ Failure
  BY DEF Creates, CreateByBusiness, CreateFails
<1>9. failures' \in 0 .. MaxFailures
  BY SMT, <1>8, RecurringConstants DEF Failure, RecurringInv, RecurringTypeOK
<1>. HIDE DEF k
<1>10. RecurringTypeOK'
  BY <1>7, <1>4, <1>8, <1>9 DEF RecurringInv, RecurringTypeOK
<1>11. LockIsHeld'
  BY <1>0, <1>4, <1>5, <1>7, <1>8 DEF RecurringInv, LockIsHeld, Holding
<1>12. KeysApart'
  BY <1>0, <1>5, <1>7, RecurringConstants DEF RecurringInv, KeysApart, Working, Holding, k
<1>13. GenerationHolds'
  <2>1. ASSUME NEW u \in Procs, proc'[u].pc \in Holding
        PROVE  u = p
    BY <1>0, <1>7, <2>1, OneHolder DEF Holding
  <2>2. /\ sub.status = "active" /\ runs[k].status # "completed"
        /\ k \in Times => proc[p].at = k
    BY <1>0 DEF RecurringInv, GenerationHolds, Holding, k
  <2>3. proc'[p].key = k /\ proc'[p].at = proc[p].at /\ proc'[p].pc = l
    BY <1>5, <1>7
  <2>4. proc'[p].pc = "complete" => invoices'[k].made /\ invoices'[k].at = proc[p].at
    BY <1>3, <1>4, <2>3
  <2>. QED  BY <1>8, <2>1, <2>2, <2>3, <2>4 DEF GenerationHolds
<1>14. RunsDated'
  BY <1>8 DEF RecurringInv, RunsDated
<1>15. CompletedRunHasItsDraft'
  <2>1. NoInvoice.made = FALSE
    BY DEF NoInvoice
  <2>. QED  BY <1>4, <1>8, <2>1 DEF RecurringInv, CompletedRunHasItsDraft
<1>. QED  BY <1>10, <1>11, <1>12, <1>13, <1>14, <1>15 DEF RecurringInv

\* The run is recorded under the lock, completed with its draft or failed.
LEMMA RecordKeeps ==
    ASSUME RecurringInv, NEW p \in Procs, CompleteRun(p) \/ FailRun(p)
    PROVE  RecurringInv'
<1>. DEFINE k == proc[p].key
<1>0. proc[p].pc \in {"complete", "fail"} /\ proc[p] \in ProcStates /\ lock = p
  BY DEF CompleteRun, FailRun, RecurringInv, RecurringTypeOK, LockIsHeld, Holding
<1>1. k \in RunKeys /\ proc[p].at \in Times
  BY <1>0, ProcFields DEF Holding
<1>2. /\ k \in Times => proc[p].at = k
      /\ proc[p].pc = "complete" => invoices[k].made /\ invoices[k].at = proc[p].at
  BY <1>0 DEF RecurringInv, GenerationHolds, Holding
<1>3. PICK s \in {"completed", "failed"} :
        /\ runs' = [runs EXCEPT ![k] = [status |-> s, at |-> proc[p].at]]
        /\ s = "completed" => proc[p].pc = "complete"
  BY DEF CompleteRun, FailRun, Record
<1>4. /\ proc' = [proc EXCEPT ![p] = Resting] /\ lock' = Nobody
      /\ UNCHANGED <<now, invoices, failures, pool>>
      /\ sub' = sub \/ sub' = [sub EXCEPT !.next = proc[p].at + 1]
  BY DEF CompleteRun, FailRun, Leave
<1>5. PICK e \in [status : {"none", "completed", "failed"}, at : Times] :
        e = [status |-> s, at |-> proc[p].at]
  BY <1>1
<1>6. e.status = s /\ e.at = proc[p].at
  BY <1>5
<1>. HIDE DEF k
<1>7. /\ runs' \in [RunKeys -> [status : {"none", "completed", "failed"}, at : Times]]
      /\ runs'[k] = e
      /\ \A j \in RunKeys : j # k => runs'[j] = runs[j]
  BY <1>1, <1>3, <1>5 DEF RecurringInv, RecurringTypeOK
<1>8. sub' \in SubRows
  <2>1. proc[p].at + 1 \in 0 .. Unset
    BY SMT, <1>1, RecurringConstants DEF Times, Unset
  <2>. QED  BY <1>4, <2>1 DEF RecurringInv, RecurringTypeOK, SubRows
<1>9. RunsDated'
  BY <1>2, <1>6, <1>7, RecurringConstants DEF RecurringInv, RunsDated
<1>10. CompletedRunHasItsDraft'
  BY <1>2, <1>3, <1>4, <1>6, <1>7 DEF RecurringInv, CompletedRunHasItsDraft
<1>. QED  BY <1>0, <1>4, <1>7, <1>8, <1>9, <1>10, LeaveKeeps DEF RecurringInv, RecurringTypeOK

\* A generation is rolled back, or its deadline expires.
LEMMA EndKeeps ==
    ASSUME RecurringInv, NEW p \in Procs,
           RollBack(p) \/ DeadlineExpires(p)
    PROVE  RecurringInv'
<1>1. CASE RollBack(p)
  <2>1. failures' \in 0 .. MaxFailures
    BY SMT, <1>1, RecurringConstants DEF RollBack, Failure, RecurringInv, RecurringTypeOK
  <2>. QED  BY <1>1, <2>1, QuietLeaveKeeps DEF RollBack
<1>2. CASE DeadlineExpires(p)
  <2>1. lock = p
    BY <1>2 DEF DeadlineExpires, RecurringInv, LockIsHeld, Holding
  <2>. QED  BY <1>2, <2>1, QuietLeaveKeeps DEF DeadlineExpires, Leave, RecurringInv, RecurringTypeOK
<1>. QED  BY <1>1, <1>2

\* A request saves the row it read: nobody generates meanwhile.
LEMMA SaveKeeps ==
    ASSUME RecurringInv, NEW c \in Clients, Save(c)
    PROVE  RecurringInv'
<1>1. c \in Procs /\ lock = Nobody /\ lock # c
  BY RecurringConstants DEF Save
<1>2. sub' \in SubRows
  <2>1. proc[c] \in ProcStates /\ proc[c].pc = "save"
    BY <1>1 DEF RecurringInv, RecurringTypeOK, Save
  <2>2. proc[c].row \in SubRows
    BY <2>1, ProcFields
  <2>. QED  BY <2>2 DEF Save
<1>3. RunsDated' /\ CompletedRunHasItsDraft'
  BY DEF Save, RecurringInv, RunsDated, CompletedRunHasItsDraft
<1>. QED  BY <1>1, <1>2, <1>3, LeaveKeeps DEF Save, RecurringInv, RecurringTypeOK

\* The clock, and steps of others.
LEMMA TickKeeps ==
    ASSUME RecurringInv, Tick \/ UNCHANGED recurringVars
    PROVE  RecurringInv'
<1>1. now' \in Times
  BY SMT, RecurringConstants DEF Tick, recurringVars, RecurringInv, RecurringTypeOK, Times
<1>2. UNCHANGED <<sub, runs, invoices, lock, proc, failures, pool>>
  BY DEF Tick, recurringVars
<1>3. RecurringTypeOK'
  BY <1>1, <1>2 DEF RecurringInv, RecurringTypeOK
<1>4. LockIsHeld' /\ KeysApart' /\ GenerationHolds'
  BY <1>2 DEF RecurringInv, LockIsHeld, KeysApart, GenerationHolds
<1>5. RunsDated' /\ CompletedRunHasItsDraft'
  BY <1>2 DEF RecurringInv, RunsDated, CompletedRunHasItsDraft
<1>. QED  BY <1>3, <1>4, <1>5 DEF RecurringInv

\* A new subscription has no run.
LEMMA RecurringStarts == ASSUME RecurringInit PROVE RecurringInv
<1>1. RecurringTypeOK
  <2>1. now \in Times /\ failures \in 0 .. MaxFailures
    BY SMT, RecurringConstants DEF RecurringInit, Times
  <2>2. sub \in SubRows
    <3>1. \A t \in Times : t \in 0 .. Unset
      BY SMT, RecurringConstants DEF Times, Unset
    <3>2. PICK start \in Times, c \in Contents :
            sub = [status |-> "active", next |-> start, content |-> c]
      BY DEF RecurringInit
    <3>. QED  BY <3>1, <3>2 DEF SubRows
  <2>3. runs \in [RunKeys -> [status : {"none", "completed", "failed"}, at : Times]]
    <3>1. 0 \in Times
      BY RecurringConstants
    <3>2. NoRun \in [status : {"none", "completed", "failed"}, at : Times]
      BY <3>1 DEF NoRun
    <3>. QED  BY <3>2 DEF RecurringInit
  <2>4. pool \in [Procs -> DispatcherPools \cup RequestPools]
    <3>1. PICK d \in DispatcherPools, r \in RequestPools :
            pool = [p \in Procs |-> IF p = Dispatcher THEN d ELSE r]
      BY DEF RecurringInit
    <3>. QED  BY <3>1
  <2>. QED  BY <2>1, <2>2, <2>3, <2>4, ProcBuilt DEF RecurringInit, RecurringTypeOK
<1>2. \A p \in Procs : proc[p].pc = "idle" /\ lock # p
  BY RecurringConstants, ProcBuilt DEF RecurringInit
<1>3. LockIsHeld /\ KeysApart /\ GenerationHolds
  BY <1>2, RecurringConstants DEF LockIsHeld, KeysApart, GenerationHolds, Holding, Working
<1>4. \A k \in RunKeys : runs[k].status = "none"
  BY DEF RecurringInit, NoRun
<1>5. RunsDated /\ CompletedRunHasItsDraft
  BY <1>4, RecurringConstants DEF RunsDated, CompletedRunHasItsDraft
<1>. QED  BY <1>1, <1>3, <1>5 DEF RecurringInv

\* Every step keeps the invariant of the recurring invoice.
LEMMA RecurringInductive ==
    ASSUME RecurringInv, [RecurringNext]_recurringVars
    PROVE  RecurringInv'
<1>1. ASSUME NEW c \in Clients, Edits(c) \/ \E k \in Keys : GenerateInvoiceSubscriptionNow(c, k)
      PROVE  RecurringInv'
  BY <1>1, StartsKeep, SaveKeeps DEF Edits
<1>2. ASSUME NEW p \in Procs, Claim(p) \/ Creates(p) \/ Finishes(p) \/ RollBack(p)
      PROVE  RecurringInv'
  BY <1>2, ClaimKeeps, CreateKeeps, RecordKeeps, EndKeeps DEF Finishes
<1>. QED  BY <1>1, <1>2, StartsKeep, TickKeeps DEF RecurringNext

\* The model of the recurring invoice has its types.
THEOREM RecurringTypes == RecurringSpec => []RecurringTypeOK
<1>1. RecurringInit => RecurringInv
  BY RecurringStarts
<1>2. RecurringInv /\ [RecurringNext]_recurringVars => RecurringInv'
  BY RecurringInductive
<1>3. RecurringInv => RecurringTypeOK
  BY DEF RecurringInv
<1>. QED  BY <1>1, <1>2, <1>3, PTL DEF RecurringSpec

\* A completed run has its own draft, dated from the run's time, and a slot's run
\* is dated at its slot: for any number of requests, keys, slots and crashes
\* between the draft's commit and the run's.
THEOREM CompletedRunsHaveTheirDrafts ==
    RecurringSpec => []CompletedRunHasItsDraft
<1>1. RecurringInit => RecurringInv
  BY RecurringStarts
<1>2. RecurringInv /\ [RecurringNext]_recurringVars => RecurringInv'
  BY RecurringInductive
<1>3. RecurringInv => CompletedRunHasItsDraft
  BY DEF RecurringInv
<1>. QED  BY <1>1, <1>2, <1>3, PTL DEF RecurringSpec

\* A draft is only made of a subscription that is active at that moment, although
\* the draft's own transaction reads no status (generateInvoiceSubscription holds
\* the row FOR UPDATE around it).
THEOREM PausedNeverInvoiced ==
    RecurringSpec => PausedMakesNothing
<1>. DEFINE Made == \A k \in RunKeys :
        invoices[k] = NoInvoice /\ invoices'[k] # NoInvoice => sub.status = "active"
<1>1. RecurringInit => RecurringInv
  BY RecurringStarts
<1>2. RecurringInv /\ [RecurringNext]_recurringVars => RecurringInv'
  BY RecurringInductive
<1>3. ASSUME RecurringInv, [RecurringNext]_recurringVars PROVE [Made]_recurringVars
  <2>1. CASE UNCHANGED invoices
    BY <2>1
  <2>2. CASE \E p \in Procs : CreateByBusiness(p)
    BY <1>3, <2>2 DEF CreateByBusiness, RecurringInv, GenerationHolds, Holding
  <2>3. (\E p \in Procs : CreateByBusiness(p)) \/ UNCHANGED invoices
    BY <1>3 DEF RecurringNext, recurringVars, DispatchDueInvoiceSubscriptions, Edits, PauseInvoiceSubscription,
       ResumeInvoiceSubscription, UpdateInvoiceSubscription, Saving, Save,
       GenerateInvoiceSubscriptionNow, Claim, Creates, CreateFails,
       Finishes, CompleteRun, FailRun, DeadlineExpires, RollBack, Tick
  <2>. QED  BY <2>1, <2>2, <2>3
<1>4. RecurringInv /\ [RecurringNext]_recurringVars => [Made]_recurringVars
  BY <1>3
<1>. QED  BY <1>1, <1>2, <1>4, PTL DEF RecurringSpec, PausedMakesNothing

\* A completed run is never written again: a retry is answered from it.
CompletedRunsStay ==
    [][\A k \in RunKeys : runs[k].status = "completed" => runs'[k] = runs[k]]_recurringVars

\* No retry, late generation or crash changes a completed run.
THEOREM CompletedRunsAreKept == RecurringSpec => CompletedRunsStay
<1>. DEFINE Kept == \A k \in RunKeys : runs[k].status = "completed" => runs'[k] = runs[k]
<1>1. RecurringInit => RecurringInv
  BY RecurringStarts
<1>2. RecurringInv /\ [RecurringNext]_recurringVars => RecurringInv'
  BY RecurringInductive
<1>3. ASSUME RecurringInv, [RecurringNext]_recurringVars PROVE [Kept]_recurringVars
  <2>1. CASE UNCHANGED runs
    BY <2>1
  <2>2. CASE \E p \in Procs : CompleteRun(p) \/ FailRun(p)
    <3>1. PICK p \in Procs : CompleteRun(p) \/ FailRun(p)
      BY <2>2
    <3>2. runs[proc[p].key].status # "completed"
      BY <1>3, <3>1 DEF CompleteRun, FailRun, RecurringInv, GenerationHolds, Holding
    <3>3. \A k \in RunKeys : k # proc[p].key => runs'[k] = runs[k]
      BY <1>3, <3>1 DEF CompleteRun, FailRun, Record, RecurringInv, RecurringTypeOK
    <3>. QED  BY <3>2, <3>3
  <2>3. (\E p \in Procs : CompleteRun(p) \/ FailRun(p)) \/ UNCHANGED runs
    BY <1>3 DEF RecurringNext, recurringVars, DispatchDueInvoiceSubscriptions, Edits, PauseInvoiceSubscription,
       ResumeInvoiceSubscription, UpdateInvoiceSubscription, Saving, Save,
       GenerateInvoiceSubscriptionNow, Claim, Creates, CreateByBusiness,
       CreateFails, Finishes, DeadlineExpires, RollBack, Tick
  <2>. QED  BY <2>1, <2>2, <2>3
<1>4. RecurringInv /\ [RecurringNext]_recurringVars => [Kept]_recurringVars
  BY <1>3
<1>. QED  BY <1>1, <1>2, <1>4, PTL DEF RecurringSpec, CompletedRunsStay

===============================================================================
