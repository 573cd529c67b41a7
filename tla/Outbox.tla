------------------------------- MODULE Outbox -------------------------------
(***************************************************************************)
(* The transactional outbox (internal/outbox, outbox_repo.go).  A business *)
(* transaction inserts a row in outbox_events; after the commit the        *)
(* request tries to publish it at once; a scheduled dispatcher claims      *)
(* overdue rows under a lease, publishes them and settles each one.  The   *)
(* request and any number of dispatcher invocations interleave, and each   *)
(* may stop between two of its steps.                                      *)
(*                                                                         *)
(* Time is counted in minutes and kept as countdowns: wait[e] is           *)
(* available_at minus the present and lease[e] is lease_expires_at minus   *)
(* the present, both cut off at zero.                                      *)
(***************************************************************************)
EXTENDS Naturals, FiniteSets

CONSTANTS Events,           \* outbox_events rows
          Dispatchers,      \* dispatcher invocations; the name is the lease owner
          NoOwner,          \* lease_owner IS NULL
          BatchSize,        \* rows one invocation claims at most
          LeaseTime,        \* defaultLeaseDuration, in minutes
          MaxRetryDelay,    \* maxRetryDelay, in minutes
          MaxAttempts       \* bound on publish_attempts

ASSUME OutboxConstants ==
    /\ BatchSize \in Nat \ {0}
    /\ LeaseTime \in Nat \ {0}
    /\ MaxRetryDelay \in Nat \ {0}
    /\ MaxAttempts \in Nat \ {0}
    /\ NoOwner \notin Dispatchers
    /\ IsFiniteSet(Dispatchers)

VARIABLES
    status,                 \* "absent", "pending" (published_at IS NULL) or "published"
    wait,                   \* minutes until available_at
    owner,                  \* lease_owner
    lease,                  \* minutes until lease_expires_at, 0 once it has expired
    attempts,               \* publish_attempts
    sent,                   \* messages the queue has accepted for the event
    imm,                    \* where the committing request is in TryPublish
    pc,                     \* where a dispatcher is in Dispatch
    todo,                   \* claimed rows it has not published yet
    cur,                    \* the row it has just tried to publish
    age                     \* minutes since its claim, saturating at MaxRetryDelay

row  == <<status, wait, owner, lease, attempts>>
disp == <<pc, todo, cur, age>>
vars == <<row, sent, imm, disp>>

Owners == Dispatchers \cup {NoOwner}

Min2(a, b) == IF a < b THEN a ELSE b
Minus(a, b) == IF a > b THEN a - b ELSE 0

TypeOK ==
    /\ status \in [Events -> {"absent", "pending", "published"}]
    /\ wait \in [Events -> Nat]
    /\ owner \in [Events -> Owners]
    /\ lease \in [Events -> Nat]
    /\ attempts \in [Events -> Nat]
    /\ sent \in [Events -> Nat]
    /\ imm \in [Events -> {"none", "publish", "mark"}]
    /\ pc \in [Dispatchers -> {"idle", "publish", "complete", "retry"}]
    /\ todo \in [Dispatchers -> SUBSET Events]
    /\ cur \in [Dispatchers -> SUBSET Events]
    /\ age \in [Dispatchers -> Nat]
    /\ \A d \in Dispatchers : pc[d] = "idle" => todo[d] = {} /\ cur[d] = {}

Init ==
    /\ status = [e \in Events |-> "absent"]
    /\ wait = [e \in Events |-> 0]
    /\ owner = [e \in Events |-> NoOwner]
    /\ lease = [e \in Events |-> 0]
    /\ attempts = [e \in Events |-> 0]
    /\ sent = [e \in Events |-> 0]
    /\ imm = [e \in Events |-> "none"]
    /\ pc = [d \in Dispatchers |-> "idle"]
    /\ todo = [d \in Dispatchers |-> {}]
    /\ cur = [d \in Dispatchers |-> {}]
    /\ age = [d \in Dispatchers |-> 0]

-----------------------------------------------------------------------------
(* The request that records the event. *)

\* The business transaction commits with its event, due at once.  Only some
\* writers go on to TryPublish; the render worker, for one, does not.
Record(e) ==
    /\ status[e] = "absent"
    /\ status' = [status EXCEPT ![e] = "pending"]
    /\ imm' \in {imm, [imm EXCEPT ![e] = "publish"]}
    /\ UNCHANGED <<wait, owner, lease, attempts, sent, disp>>

\* TryPublish: the queue accepts the message.
ImmediateSend(e) ==
    /\ imm[e] = "publish"
    /\ sent' = [sent EXCEPT ![e] = @ + 1]
    /\ imm' = [imm EXCEPT ![e] = "mark"]
    /\ UNCHANGED <<row, disp>>

\* Slip: the error of Publish is dropped and the row is marked all the same.
ImmediateStop_ErrorDropped(e) ==
    /\ imm[e] = "publish"
    /\ imm' = [imm EXCEPT ![e] = "mark"]
    /\ UNCHANGED <<row, sent, disp>>

\* The queue refuses the message, or the request ends before its next step.
ImmediateStop(e) ==
    /\ imm[e] # "none"
    /\ imm' = [imm EXCEPT ![e] = "none"]
    /\ UNCHANGED <<row, sent, disp>>

\* MarkOutboxPublished: only a pending row that nobody has leased is marked.
MarkOutboxPublished(e) ==
    /\ imm[e] = "mark"
    /\ imm' = [imm EXCEPT ![e] = "none"]
    /\ IF status[e] = "pending" /\ owner[e] = NoOwner
       THEN status' = [status EXCEPT ![e] = "published"]
       ELSE UNCHANGED status
    /\ UNCHANGED <<wait, owner, lease, attempts, sent, disp>>

-----------------------------------------------------------------------------
(* The dispatcher. *)

\* Slip: only rows without a lease are ready, an expired lease is not taken over.
Ready_NeverExpires == {e \in Events : /\ status[e] = "pending"
                                      /\ wait[e] = 0
                                      /\ owner[e] = NoOwner
                                      /\ attempts[e] < MaxAttempts}

\* The WHERE clause of ClaimOutboxEvents: a null lease has expired too.
Ready == {e \in Events : /\ status[e] = "pending"
                         /\ wait[e] = 0
                         /\ lease[e] = 0
                         /\ attempts[e] < MaxAttempts}

\* Slip: the claim does not count the attempt.
ClaimOutboxEvents_Uncounted(d, B) ==
    /\ pc[d] = "idle"
    /\ B \subseteq Ready
    /\ B # {}
    /\ Cardinality(B) <= BatchSize
    /\ owner' = [e \in Events |-> IF e \in B THEN d ELSE owner[e]]
    /\ lease' = [e \in Events |-> IF e \in B THEN LeaseTime ELSE lease[e]]
    /\ todo' = [todo EXCEPT ![d] = B]
    /\ pc' = [pc EXCEPT ![d] = "publish"]
    /\ age' = [age EXCEPT ![d] = 0]
    /\ UNCHANGED <<status, wait, attempts, sent, imm, cur>>

\* One claim takes a batch of ready rows.  SKIP LOCKED may leave out rows that
\* another claim is taking, so any batch within the limit may be returned.
ClaimOutboxEvents(d, B) ==
    /\ pc[d] = "idle"
    /\ B \subseteq Ready
    /\ B # {}
    /\ Cardinality(B) <= BatchSize
    /\ owner' = [e \in Events |-> IF e \in B THEN d ELSE owner[e]]
    /\ lease' = [e \in Events |-> IF e \in B THEN LeaseTime ELSE lease[e]]
    /\ attempts' = [e \in Events |-> IF e \in B THEN attempts[e] + 1 ELSE attempts[e]]
    /\ todo' = [todo EXCEPT ![d] = B]
    /\ pc' = [pc EXCEPT ![d] = "publish"]
    /\ age' = [age EXCEPT ![d] = 0]
    /\ UNCHANGED <<status, wait, sent, imm, cur>>

\* The loop takes the next claimed row; the queue accepts the message or not.
Publish(d, e) ==
    /\ pc[d] = "publish"
    /\ e \in todo[d]
    /\ todo' = [todo EXCEPT ![d] = @ \ {e}]
    /\ cur' = [cur EXCEPT ![d] = {e}]
    /\ \/ /\ sent' = [sent EXCEPT ![e] = @ + 1]
          /\ pc' = [pc EXCEPT ![d] = "complete"]
       \/ /\ pc' = [pc EXCEPT ![d] = "retry"]
          /\ UNCHANGED sent
    /\ UNCHANGED <<row, imm, age>>

\* After a row is settled the loop goes on, or the invocation returns.
NextRow(d) ==
    /\ pc' = [pc EXCEPT ![d] = IF todo[d] = {} THEN "idle" ELSE "publish"]
    /\ cur' = [cur EXCEPT ![d] = {}]
    /\ UNCHANGED <<todo, age>>

\* The WHERE clause of CompleteOutboxEvent and RetryOutboxEvent.  It compares
\* the owner and not the expiry of the lease.
HoldsLease(d, e) == status[e] = "pending" /\ owner[e] = d

CompleteOutboxEvent(d, e) ==
    /\ pc[d] = "complete"
    /\ e \in cur[d]
    /\ IF HoldsLease(d, e)
       THEN /\ status' = [status EXCEPT ![e] = "published"]
            /\ owner' = [owner EXCEPT ![e] = NoOwner]
            /\ lease' = [lease EXCEPT ![e] = 0]
       ELSE UNCHANGED <<status, owner, lease>>
    /\ NextRow(d)
    /\ UNCHANGED <<wait, attempts, sent, imm>>

\* outboxRetryDelay: one minute, doubled for each further attempt, at most
\* MaxRetryDelay.
outboxRetryDelay(n) ==
    LET doubled == 2 ^ (IF n < 1 THEN 0 ELSE n - 1)
    IN  IF doubled \in 1 .. MaxRetryDelay THEN doubled ELSE MaxRetryDelay

\* The delay runs from the time of the claim, not from the failed publish.
RetryOutboxEvent(d, e) ==
    /\ pc[d] = "retry"
    /\ e \in cur[d]
    /\ IF HoldsLease(d, e)
       THEN /\ wait' = [wait EXCEPT ![e] = Minus(outboxRetryDelay(attempts[e]), age[d])]
            /\ owner' = [owner EXCEPT ![e] = NoOwner]
            /\ lease' = [lease EXCEPT ![e] = 0]
       ELSE UNCHANGED <<wait, owner, lease>>
    /\ NextRow(d)
    /\ UNCHANGED <<status, attempts, sent, imm>>

\* The statement that settles the row fails: the row keeps its lease and the
\* loop goes on.
SettleError(d) ==
    /\ pc[d] \in {"complete", "retry"}
    /\ NextRow(d)
    /\ UNCHANGED <<row, sent, imm>>

\* The invocation is stopped; the rows it claimed keep its lease.
DispatcherStop(d) ==
    /\ pc[d] # "idle"
    /\ pc' = [pc EXCEPT ![d] = "idle"]
    /\ todo' = [todo EXCEPT ![d] = {}]
    /\ cur' = [cur EXCEPT ![d] = {}]
    /\ UNCHANGED <<row, sent, imm, age>>

\* One minute passes.
Tick ==
    /\ wait' = [e \in Events |-> Minus(wait[e], 1)]
    /\ lease' = [e \in Events |-> Minus(lease[e], 1)]
    /\ age' = [d \in Dispatchers |-> Min2(age[d] + 1, MaxRetryDelay)]
    /\ UNCHANGED <<status, owner, attempts, sent, imm, pc, todo, cur>>

-----------------------------------------------------------------------------
RequestStep(e) == ImmediateSend(e) \/ ImmediateStop(e) \/ MarkOutboxPublished(e)

DispatchStep(d) ==
    \/ \E e \in Events : Publish(d, e) \/ CompleteOutboxEvent(d, e) \/ RetryOutboxEvent(d, e)
    \/ SettleError(d)

Next ==
    \/ \E e \in Events : Record(e) \/ RequestStep(e)
    \/ \E d \in Dispatchers, B \in SUBSET Events : ClaimOutboxEvents(d, B)
    \/ \E d \in Dispatchers : DispatchStep(d) \/ DispatcherStop(d)
    \/ Tick

Spec == Init /\ [][Next]_vars

\* A dispatcher is started every minute and runs until it returns or is
\* stopped, and time passes.  Ready rows are claimed oldest first, so no row
\* that keeps being ready is passed over for ever.
FairSpec ==
    /\ Spec
    /\ WF_vars(Tick)
    /\ \A d \in Dispatchers : WF_vars(DispatchStep(d))
    /\ \A e \in Events : SF_vars(\E d \in Dispatchers, B \in SUBSET Events :
                                    e \in B /\ ClaimOutboxEvents(d, B))

-----------------------------------------------------------------------------
(* Properties. *)

\* A row is marked published only after the queue has accepted it at least
\* once, whichever of the request and the dispatchers marked it.
PublishedWasSent == \A e \in Events : status[e] = "published" => sent[e] > 0

\* Duplicates are bounded by the claims: an event reaches the queue at most
\* once per claim, plus once from the request that recorded it.
DuplicatesBounded == \A e \in Events : sent[e] <= attempts[e] + 1

\* Whoever is about to mark a row has sent it, and nothing is sent or claimed
\* for a row that was never recorded.
SentBeforeMarked ==
    /\ \A e \in Events : imm[e] = "mark" => sent[e] > 0
    /\ \A e \in Events : imm[e] # "none" => status[e] # "absent"
    /\ \A d \in Dispatchers : pc[d] = "complete" => \A e \in cur[d] : sent[e] > 0
    /\ \A d \in Dispatchers : \A e \in todo[d] : status[e] # "absent"

\* The rights to send: a claim gives its dispatcher one for each row, the
\* commit gives the request one, and sending uses one up.
Claimants(e) == {d \in Dispatchers : e \in todo[d]}
RequestRight(e) == IF imm[e] = "publish" THEN 1 ELSE 0
SendRights ==
    \A e \in Events :
        sent[e] + Cardinality(Claimants(e)) + RequestRight(e)
            <= attempts[e] + (IF status[e] = "absent" THEN 0 ELSE 1)

\* The inductive invariant behind PublishedWasSent and DuplicatesBounded: the
\* sends already made and still owed never exceed the claims and the commit.
OutboxInv == TypeOK /\ PublishedWasSent /\ SentBeforeMarked /\ SendRights

\* A published row is final: no later step of a dispatcher whose lease was
\* taken over, nor of the request, changes it.
PublishedIsFinal ==
    [][\A e \in Events : status[e] = "published" =>
          /\ status'[e] = "published"
          /\ owner'[e] = NoOwner
          /\ attempts'[e] = attempts[e]]_vars

\* Every recorded event is published, unless as many attempts as the model
\* allows have been used up by failures.
EventuallyPublished ==
    \A e \in Events :
        status[e] = "pending" ~> (status[e] = "published" \/ attempts[e] = MaxAttempts)

\* The outbox implements its contract.
Contract == INSTANCE OutboxContract WITH Events <- Events, status <- status, sent <- sent
ImplementsContract == Contract!Spec
=============================================================================
