---------------------------- MODULE EmailDelivery ---------------------------
(***************************************************************************)
(* Sending the final PDF of an invoice through SES, and applying the       *)
(* feedback SES reports later.  A worker is one execution of the queue     *)
(* handler; queue messages are repeated freely.  SES has no idempotency    *)
(* token: what it accepts is an email sent, whether or not the worker      *)
(* learns of it.                                                           *)
(***************************************************************************)
EXTENDS Naturals, FiniteSets

CONSTANTS Deliveries,       \* delivery attempts, rows of email_deliveries
          Workers,          \* executions of the email delivery handler
          Messages,         \* provider message identifiers, a bound on emails
          NoOwner, NoDelivery, NoMessage,
          LeaseTime,        \* deliveryLeaseDuration, two minutes
          WorkerTime,       \* the handler's deadline, at most a minute
          MaxTime           \* bound on the times at which SES reports events

ASSUME DeliveryConstants ==
    /\ NoOwner \notin Workers
    /\ NoDelivery \notin Deliveries
    /\ NoMessage \notin Messages
    /\ LeaseTime \in Nat \ {0}
    /\ WorkerTime \in Nat
    /\ MaxTime \in Nat \ {0}

VARIABLES
    status, owner, lease,   \* of each delivery
    provider,               \* provider_message_id
    deliveredAt, failedAt,  \* 0 is NULL
    accepted,               \* emails SES took for the delivery (history)
    lost,                   \* those of which no worker recorded it (history)
    applied,                \* feedback applied to the delivery (history)
    pc, claim, msg, age     \* of each worker

leaseVars == <<status, owner, lease>>
recordVars == <<provider, deliveredAt, failedAt>>
history == <<accepted, lost, applied>>
workerVars == <<pc, claim, msg, age>>
vars == <<leaseVars, recordVars, history, workerVars>>

Times == 1 .. MaxTime
EventTypes == {"Delivery", "Bounce", "Complaint"}
Sent == {"sent", "delivered", "bounced", "complained"}

-----------------------------------------------------------------------------
(* The worker. *)

\* queueWaitingInvoiceDeliveries, when the final render completes.
QueueWaiting(d) ==
    /\ status[d] = "waiting_for_render"
    /\ status' = [status EXCEPT ![d] = "queued"]
    /\ UNCHANGED <<owner, lease, recordVars, history, workerVars>>

Goto(w, l) == pc' = [pc EXCEPT ![w] = l]

Return(w) ==
    /\ Goto(w, "idle")
    /\ claim' = [claim EXCEPT ![w] = NoDelivery]
    /\ msg' = [msg EXCEPT ![w] = NoMessage]
    /\ age' = [age EXCEPT ![w] = 0]

\* Slip: the lease of another worker is not respected.
Claimable_Leased(d) == status[d] \in {"queued", "failed", "processing"}

\* Slip: a delivery left in processing is not taken over.
Claimable_NotTakenOver(d) == status[d] \in {"queued", "failed"}

\* The candidate query of Claim.
Claimable(d) == status[d] \in {"queued", "failed", "processing"} /\ lease[d] = 0

\* Any other message changes nothing: it is acknowledged when the delivery is
\* sent already, and delivered again otherwise.
Claim(w, d) ==
    /\ pc[w] = "idle"
    /\ Claimable(d)
    /\ status' = [status EXCEPT ![d] = "processing"]
    /\ owner' = [owner EXCEPT ![d] = w]
    /\ lease' = [lease EXCEPT ![d] = LeaseTime]
    /\ Goto(w, "prepare")
    /\ claim' = [claim EXCEPT ![w] = d]
    /\ UNCHANGED <<msg, age, recordVars, history>>

\* Slip: the statements only name the delivery.
HoldsLease_Dropped(w) == TRUE

\* The condition of VerifyLease, MarkSent and MarkFailed.
HoldsLease(w) ==
    /\ status[claim[w]] = "processing"
    /\ owner[claim[w]] = w
    /\ lease[claim[w]] > 0

\* The PDF is downloaded and the message built, then the lease is verified.
VerifyLease(w) ==
    /\ pc[w] = "prepare"
    /\ IF HoldsLease(w) THEN Goto(w, "send") /\ UNCHANGED <<claim, msg, age>>
                        ELSE Return(w)
    /\ UNCHANGED <<leaseVars, recordVars, history>>

Lose(w) == lost' = [lost EXCEPT ![claim[w]] = @ + 1]

\* SES accepts the email, and its answer arrives or not.
SendRawEmail(w, m) ==
    /\ pc[w] = "send"
    /\ \A d \in Deliveries : m \notin accepted[d]
    /\ accepted' = [accepted EXCEPT ![claim[w]] = @ \cup {m}]
    /\ \/ /\ Goto(w, "mark")
          /\ msg' = [msg EXCEPT ![w] = m]
          /\ UNCHANGED lost
       \/ Goto(w, "fail") /\ Lose(w) /\ UNCHANGED msg
    /\ UNCHANGED <<claim, age, applied, leaseVars, recordVars>>

\* The download, the message or the sending fails.
SendError(w) ==
    /\ pc[w] \in {"prepare", "send"}
    /\ Goto(w, "fail")
    /\ UNCHANGED <<claim, msg, age, leaseVars, recordVars, history>>

Release(w, s) ==
    /\ status' = [status EXCEPT ![claim[w]] = s]
    /\ owner' = [owner EXCEPT ![claim[w]] = NoOwner]
    /\ lease' = [lease EXCEPT ![claim[w]] = 0]

\* MarkSent; without the lease the email stays unrecorded.
MarkSent(w) ==
    /\ pc[w] = "mark"
    /\ IF HoldsLease(w)
       THEN /\ Release(w, "sent")
            /\ provider' = [provider EXCEPT ![claim[w]] = msg[w]]
            /\ failedAt' = [failedAt EXCEPT ![claim[w]] = 0]
            /\ UNCHANGED <<deliveredAt, lost>>
       ELSE Lose(w) /\ UNCHANGED <<leaseVars, recordVars>>
    /\ Return(w)
    /\ UNCHANGED <<accepted, applied>>

\* failClaim; the message is delivered again whatever MarkFailed does.
MarkFailed(w) ==
    /\ pc[w] = "fail"
    /\ IF HoldsLease(w)
       THEN /\ Release(w, "failed")
            /\ \E t \in Times : failedAt' = [failedAt EXCEPT ![claim[w]] = t]
       ELSE UNCHANGED <<leaseVars, failedAt>>
    /\ Return(w)
    /\ UNCHANGED <<provider, deliveredAt, history>>

\* The handler exits, its deadline passes, or it loses the database.
WorkerStop(w) ==
    /\ pc[w] # "idle"
    /\ IF pc[w] = "mark" THEN Lose(w) ELSE UNCHANGED lost
    /\ Return(w)
    /\ UNCHANGED <<leaseVars, recordVars, accepted, applied>>

\* No handler lives past its deadline.
Tick ==
    /\ \A w \in Workers : pc[w] # "idle" => age[w] < WorkerTime
    /\ \E d \in Deliveries : lease[d] > 0
    /\ lease' = [d \in Deliveries |-> IF lease[d] > 0 THEN lease[d] - 1 ELSE 0]
    /\ age' = [w \in Workers |-> IF pc[w] = "idle" THEN 0 ELSE age[w] + 1]
    /\ UNCHANGED <<status, owner, recordVars, history, pc, claim, msg>>

-----------------------------------------------------------------------------
(* Feedback. *)

\* Slip: a delivery event replaces a bounce.
ResolveTransition_Latest(current, type) ==
    IF type = "Complaint" \/ current = "complained" THEN "complained"
    ELSE IF type = "Bounce" THEN "bounced"
    ELSE "delivered"

\* The status after an event: a complaint outweighs a bounce, which outweighs
\* a delivery.
ResolveTransition(current, type) ==
    IF type = "Complaint" \/ current = "complained" THEN "complained"
    ELSE IF type = "Bounce" \/ current = "bounced" THEN "bounced"
    ELSE "delivered"

Earliest(old, t) == IF old = 0 \/ t < old THEN t ELSE old

\* ApplyFeedback finds the delivery by the message it has recorded.  Feedback
\* on a lost email is refused, and so is feedback that overtakes MarkSent; the
\* queue delivers it again.
ApplyFeedback(d, m, type, t) ==
    /\ m \in accepted[d]
    /\ provider[d] = m
    /\ status[d] \in Sent
    /\ status' = [status EXCEPT ![d] = ResolveTransition(@, type)]
    /\ IF type = "Delivery"
       THEN /\ deliveredAt' = [deliveredAt EXCEPT ![d] = Earliest(@, t)]
            /\ UNCHANGED failedAt
       ELSE /\ failedAt' = [failedAt EXCEPT ![d] = Earliest(@, t)]
            /\ UNCHANGED deliveredAt
    /\ applied' = [applied EXCEPT ![d] = @ \cup {<<type, t>>}]
    /\ UNCHANGED <<owner, lease, provider, accepted, lost, workerVars>>

-----------------------------------------------------------------------------
Init ==
    /\ status \in [Deliveries -> {"waiting_for_render", "queued"}]
    /\ owner = [d \in Deliveries |-> NoOwner]
    /\ lease = [d \in Deliveries |-> 0]
    /\ provider = [d \in Deliveries |-> NoMessage]
    /\ deliveredAt = [d \in Deliveries |-> 0]
    /\ failedAt = [d \in Deliveries |-> 0]
    /\ accepted = [d \in Deliveries |-> {}]
    /\ lost = [d \in Deliveries |-> 0]
    /\ applied = [d \in Deliveries |-> {}]
    /\ pc = [w \in Workers |-> "idle"]
    /\ claim = [w \in Workers |-> NoDelivery]
    /\ msg = [w \in Workers |-> NoMessage]
    /\ age = [w \in Workers |-> 0]

Work(w) ==
    \/ VerifyLease(w)
    \/ \E m \in Messages : SendRawEmail(w, m)
    \/ MarkSent(w)
    \/ MarkFailed(w)

Next ==
    \/ \E d \in Deliveries : QueueWaiting(d)
    \/ \E w \in Workers, d \in Deliveries : Claim(w, d)
    \/ \E w \in Workers : Work(w) \/ SendError(w) \/ WorkerStop(w)
    \/ \E d \in Deliveries, m \in Messages, type \in EventTypes, t \in Times :
          ApplyFeedback(d, m, type, t)
    \/ Tick

Spec == Init /\ [][Next]_vars

\* Worker w holds an unexpired lease on the delivery it claimed.
InTime(w) == claim[w] # NoDelivery /\ HoldsLease(w)

\* Messages are delivered until acknowledged, leases run out, handlers go on,
\* and some attempt gets through each of its steps uninterrupted and in time.
Fairness ==
    /\ WF_vars(Tick)
    /\ \A d \in Deliveries : WF_vars(QueueWaiting(d))
    /\ \A w \in Workers :
          /\ \A d \in Deliveries : SF_vars(Claim(w, d))
          /\ WF_vars(Work(w) \/ SendError(w))
          /\ SF_vars(InTime(w) /\ VerifyLease(w))
          /\ SF_vars(InTime(w) /\ \E m \in Messages : SendRawEmail(w, m) /\ pc'[w] = "mark")
          /\ SF_vars(InTime(w) /\ MarkSent(w))

FairSpec == Spec /\ Fairness

-----------------------------------------------------------------------------
(* Properties. *)

TypeOK ==
    /\ status \in [Deliveries -> {"waiting_for_render", "queued", "processing", "failed"} \cup Sent]
    /\ owner \in [Deliveries -> Workers \cup {NoOwner}]
    /\ lease \in [Deliveries -> 0 .. LeaseTime]
    /\ provider \in [Deliveries -> Messages \cup {NoMessage}]
    /\ deliveredAt \in [Deliveries -> 0 .. MaxTime]
    /\ failedAt \in [Deliveries -> 0 .. MaxTime]
    /\ accepted \in [Deliveries -> SUBSET Messages]
    /\ lost \in [Deliveries -> Nat]
    /\ applied \in [Deliveries -> SUBSET (EventTypes \X Times)]
    /\ pc \in [Workers -> {"idle", "prepare", "send", "mark", "fail"}]
    /\ claim \in [Workers -> Deliveries \cup {NoDelivery}]
    /\ msg \in [Workers -> Messages \cup {NoMessage}]
    /\ age \in [Workers -> 0 .. WorkerTime]

\* The email a worker is about to record.
InFlight(d) == {w \in Workers : pc[w] = "mark" /\ claim[w] = d}

\* Every email accepted for a delivery is the recorded one, one that a worker
\* is about to record, or one whose acceptance was lost between SES and
\* MarkSent, even if handlers outlived their leases.
OnlyLostEmailsRepeat ==
    \A d \in Deliveries :
        Cardinality(accepted[d]) =
            lost[d] + Cardinality(InFlight(d)) + (IF status[d] \in Sent THEN 1 ELSE 0)

\* The lease prevents concurrent duplicates: of the handlers that are within
\* the lease time of their claim at most one is between VerifyLease and
\* MarkSent, and none once an email is on record.
OneSender ==
    \A d \in Deliveries :
        LET senders == {w \in Workers : /\ pc[w] \in {"send", "mark"} /\ claim[w] = d
                                       /\ age[w] < LeaseTime}
        IN  /\ Cardinality(senders) <= 1
            /\ senders # {} => status[d] = "processing"

Earlier(d, types) == {t \in Times : \E ty \in types : <<ty, t>> \in applied[d]}
EarliestOf(T) == IF T = {} THEN 0 ELSE CHOOSE t \in T : \A u \in T : t <= u
Worst(d) ==
    IF Earlier(d, {"Complaint"}) # {} THEN "complained"
    ELSE IF Earlier(d, {"Bounce"}) # {} THEN "bounced"
    ELSE IF Earlier(d, {"Delivery"}) # {} THEN "delivered"
    ELSE "sent"

\* Status and times depend on which feedback was applied, not on its order or
\* on how often it was delivered.
FeedbackOrderIrrelevant ==
    \A d \in Deliveries : status[d] \in Sent =>
        /\ status[d] = Worst(d)
        /\ deliveredAt[d] = EarliestOf(Earlier(d, {"Delivery"}))
        /\ failedAt[d] = EarliestOf(Earlier(d, {"Bounce", "Complaint"}))

\* A delivery is eventually recorded as sent, unless every attempt there is
\* room for in the model was lost.
EventuallySent ==
    \A d \in Deliveries :
        <>(status[d] \in Sent \/ UNION {accepted[e] : e \in Deliveries} = Messages)

=============================================================================
