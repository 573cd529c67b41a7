------------------------ MODULE SubscriptionBilling ------------------------
(***************************************************************************)
(* The renewable subscription of one business                              *)
(* (internal/services/subscription_lifecycle_service.go): the row the      *)
(* service keeps, the commands that first save an intention, then call the *)
(* payment provider outside the transaction and then record the outcome,   *)
(* the provider's signed events delivered late, out of order and again,    *)
(* and the five-minute maintenance that re-observes a subscription whose   *)
(* state is in doubt.                                                      *)
(*                                                                         *)
(* A paid period is named by its number: the n-th charge pays for the      *)
(* period that starts at n - 1 and ends at n.  The row's period, boundary  *)
(* and effective dates are such numbers, 0 for a NULL date.  A business    *)
(* without a row and one on the free row behave alike: both may start, and *)
(* a rejected start leaves the free row.                                   *)
(***************************************************************************)
EXTENDS Naturals, Sequences, FiniteSets

CONSTANTS
  Paid,        \* the paid plans of the catalogue
  Free,        \* the free plan
  NoPlan,      \* an empty plan identity
  Calls,       \* one command each, under its own idempotency key
  MaxSubs,     \* bound: subscriptions the provider creates
  TotalCount,  \* cycles of a provider subscription (config.TotalCount)
  MaxEvents,   \* bound: events the provider sends
  MaxFaults    \* bound: crashed calls and lost provider answers

ASSUME PlansDiffer == Free \notin Paid /\ NoPlan \notin Paid /\ Free # NoPlan
ASSUME SubscriptionBounds ==
  MaxSubs \in Nat /\ TotalCount \in Nat /\ MaxEvents \in Nat /\ MaxFaults \in Nat

VARIABLES
  sub,       \* the business's row in subscriptions
  call,      \* per command: how far it is and what it remembers
  provider,  \* the provider's subscriptions
  events,    \* the events sent, in the provider's order
  seen,      \* the event inbox: indices of the events it has recorded
  fetched,   \* what the maintenance read from the provider, if anything
  records,   \* billing records: <<subscription, charge, origin>>
  faults,    \* crashes and lost answers so far
  late       \* history: what commands that ended late have done to a newer row

vars == <<sub, call, provider, events, seen, fetched, records, faults, late>>

Subs == 1..MaxSubs
Cycles == 1..TotalCount

Status == {"pending_payment", "active", "renewal_pending", "past_due",
           "cancellation_scheduled", "cancelled", "expired", "suspended",
           "reconciliation_required"}
Terminal == {"cancelled", "expired"}

FreeRow == [status |-> "active", mode |-> "free", prov |-> 0, plan |-> Free,
            provPlan |-> NoPlan, pend |-> NoPlan, pendAt |-> 0, paid |-> 0,
            lastAt |-> 0, end |-> 0, cancelAtEnd |-> FALSE, grace |-> FALSE]

Rows == [status : Status, mode : {"free", "renewable"}, prov : 0..MaxSubs,
         plan : Paid \cup {Free}, provPlan : Paid \cup {NoPlan},
         pend : Paid \cup {NoPlan}, pendAt : 0..TotalCount, paid : 0..TotalCount,
         lastAt : 0..MaxEvents, end : 0..TotalCount, cancelAtEnd : BOOLEAN,
         grace : BOOLEAN]

NoCall == [pc |-> "none", action |-> "none", plan |-> NoPlan, prev |-> FreeRow, made |-> 0]
NoSub == [status |-> "none", charges |-> <<>>, plan |-> NoPlan, sched |-> NoPlan,
          cancelAtEnd |-> FALSE]
NoFetch == [sub |-> 0]

Init ==
  /\ sub = FreeRow
  /\ call = [c \in Calls |-> NoCall]
  /\ provider = [i \in Subs |-> NoSub]
  /\ events = <<>>
  /\ seen = {}
  /\ fetched = NoFetch
  /\ records = {}
  /\ faults = 0
  /\ late = {}

Fault == faults < MaxFaults /\ faults' = faults + 1

-----------------------------------------------------------------------------
(* The provider.                                                           *)

Live(i) == provider[i].status \in {"created", "active", "pending", "halted"}

\* Sends an event with the subscription as it now is.  Event times have the
\* resolution of a second: an event may carry the time of the one before it.
Emit(i, type, now) ==
  /\ Len(events) < MaxEvents
  /\ \E tick \in {0, 1} :
       LET last == IF events = <<>> THEN 0 ELSE events[Len(events)].at
       IN  /\ last + tick > 0
           /\ events' = Append(events, [sub |-> i, type |-> type, at |-> last + tick,
                                        paid |-> Len(now.charges), plan |-> now.plan])

Becomes(i, type, now) ==
  /\ provider' = [provider EXCEPT ![i] = now]
  /\ Emit(i, type, now)
  /\ UNCHANGED <<sub, call, seen, fetched, records, faults, late>>

\* The customer authorises a subscription at the address the completed start
\* command answered with; nothing happens to a subscription before that.
Activate(i) ==
  /\ provider[i].status = "created"
  /\ \E c \in Calls : call[c].pc = "completed" /\ call[c].made = i
  /\ Becomes(i, "activated", [provider[i] EXCEPT !.status = "active"])

\* A cycle is charged; a scheduled plan takes effect with it.
Charge(i) ==
  LET p == provider[i]
      plan == IF p.sched # NoPlan /\ p.charges # <<>> THEN p.sched ELSE p.plan
  IN  /\ p.status \in {"active", "pending"} /\ ~ p.cancelAtEnd
      /\ Len(p.charges) < TotalCount
      /\ Becomes(i, "charged",
           [p EXCEPT !.status = "active", !.charges = Append(@, plan), !.plan = plan,
                     !.sched = IF plan = p.sched THEN NoPlan ELSE @])

ChargeFails(i) ==
  /\ provider[i].status = "active" /\ provider[i].charges # <<>>
  /\ Becomes(i, "pending", [provider[i] EXCEPT !.status = "pending"])

Halt(i) ==
  /\ provider[i].status = "pending"
  /\ Becomes(i, "halted", [provider[i] EXCEPT !.status = "halted"])

\* At the end of a cycle after a scheduled cancellation, or by the provider.
ProviderCancels(i) ==
  /\ provider[i].status \in {"active", "pending", "halted"}
  /\ Becomes(i, "cancelled", [provider[i] EXCEPT !.status = "cancelled"])

AllCyclesPaid(i) ==
  /\ provider[i].status = "active" /\ Len(provider[i].charges) = TotalCount
  /\ Becomes(i, "completed", [provider[i] EXCEPT !.status = "completed"])

-----------------------------------------------------------------------------
(* Commands.  The first transaction checks the row, remembers it and saves *)
(* the intention together with a command row in status "initializing".     *)

Begin(c, action, plan, row) ==
  /\ call[c].pc = "none"
  /\ call' = [call EXCEPT ![c] = [pc |-> "calling", action |-> action, plan |-> plan,
                                  prev |-> sub, made |-> 0]]
  /\ sub' = row
  /\ UNCHANGED <<provider, events, seen, fetched, records, faults, late>>

StartRow(row, plan) ==
  [FreeRow EXCEPT !.status = "pending_payment", !.mode = "renewable", !.pend = plan]

PlanRow(row, plan) ==
  [row EXCEPT !.pend = plan, !.pendAt = row.end, !.status = "renewal_pending"]

CancelRow(row) ==
  [row EXCEPT !.status = "cancellation_scheduled", !.cancelAtEnd = TRUE]

\* Slip: only an active subscription stands in the way of a new one.
StartRenewable_WhenNotActive(c, plan) ==
  /\ sub.mode = "renewable" => sub.status # "active"
  /\ Begin(c, "start", plan, StartRow(sub, plan))

StartRenewable(c, plan) ==
  /\ sub.mode = "renewable" => sub.status \in Terminal
  /\ Begin(c, "start", plan, StartRow(sub, plan))

Changeable ==
  /\ sub.mode = "renewable" /\ sub.prov # 0 /\ sub.end # 0 /\ sub.status = "active"
  /\ ~ sub.cancelAtEnd /\ sub.pend = NoPlan

SchedulePlanChange(c, plan) ==
  /\ Changeable /\ sub.plan # plan
  /\ Begin(c, "plan", plan, PlanRow(sub, plan))

ScheduleCancellation(c) ==
  /\ Changeable
  /\ Begin(c, "cancel", NoPlan, CancelRow(sub))

-----------------------------------------------------------------------------
(* The provider call.  An accepted mutation may be answered or not; a      *)
(* rejection (a 4xx answer) changes nothing; a transport failure tells     *)
(* nothing.                                                                *)

\* The answer to an applied mutation arrives, or is lost.
Answer(c, answer, i) ==
  \/ /\ call' = [call EXCEPT ![c] = [@ EXCEPT !.pc = answer, !.made = i]]
     /\ UNCHANGED faults
  \/ /\ Fault
     /\ call' = [call EXCEPT ![c] = [@ EXCEPT !.pc = "unknown"]]

Calling(c, action) ==
  /\ call[c].pc = "calling" /\ call[c].action = action
  /\ UNCHANGED <<sub, seen, fetched, records, late>>

CreateSubscription(c) ==
  \E i \in Subs :
    /\ Calling(c, "start")
    /\ provider[i].status = "none" /\ \A j \in 1..(i - 1) : provider[j].status # "none"
    /\ provider' = [provider EXCEPT ![i] = [NoSub EXCEPT !.status = "created",
                                                         !.plan = call[c].plan]]
    /\ Answer(c, "accepted", i)
    /\ UNCHANGED events

UpdateSubscription(c) ==
  LET i == call[c].prev.prov
  IN  /\ Calling(c, "plan")
      /\ provider[i].status = "active" /\ ~ provider[i].cancelAtEnd
      /\ provider' = [provider EXCEPT ![i] = [@ EXCEPT !.sched = call[c].plan]]
      /\ Emit(i, "updated", provider[i])
      /\ Answer(c, "accepted", i)

CancelAtCycleEnd(c) ==
  LET i == call[c].prev.prov
  IN  /\ Calling(c, "cancel")
      /\ provider[i].status = "active"
      /\ provider' = [provider EXCEPT ![i] = [@ EXCEPT !.cancelAtEnd = TRUE]]
      /\ Answer(c, "accepted", i)
      /\ UNCHANGED events

CancelNow(c) ==
  LET i == call[c].prev.prov
  IN  /\ Calling(c, "cancel")
      /\ provider[i].status = "active"
      /\ provider' = [provider EXCEPT ![i] = [@ EXCEPT !.status = "cancelled"]]
      /\ Emit(i, "cancelled", provider[i])
      /\ Answer(c, "ended", i)

ProviderRejects(c) ==
  /\ call[c].pc = "calling"
  /\ call' = [call EXCEPT ![c] = [@ EXCEPT !.pc = "refused"]]
  /\ UNCHANGED <<sub, provider, events, seen, fetched, records, faults, late>>

\* The request never arrives, or the transaction after its answer fails.
NoAnswer(c) ==
  /\ call[c].pc \in {"calling", "accepted"}
  /\ Fault
  /\ call' = [call EXCEPT ![c] = [@ EXCEPT !.pc = "unknown"]]
  /\ UNCHANGED <<sub, provider, events, seen, fetched, records, late>>

\* The process dies; the command row stays in status "initializing".
Crash(c) ==
  /\ call[c].pc \in {"calling", "accepted", "ended", "unknown", "refused"}
  /\ Fault
  /\ call' = [call EXCEPT ![c] = [NoCall EXCEPT !.pc = "initializing"]]
  /\ UNCHANGED <<sub, provider, events, seen, fetched, records, late>>

-----------------------------------------------------------------------------
(* The transaction that records the outcome.                               *)

Ends(c, status) ==
  /\ call' = [call EXCEPT ![c] = [NoCall EXCEPT !.pc = status, !.made = call[c].made]]
  /\ UNCHANGED <<provider, events, seen, fetched, records, faults>>

FinishStart(c) ==
  /\ call[c].pc = "accepted" /\ call[c].action = "start"
  /\ sub' = [sub EXCEPT !.prov = call[c].made, !.provPlan = call[c].plan,
                        !.status = "pending_payment"]
  /\ Ends(c, "completed")
  /\ UNCHANGED late

CompleteCommand(c) ==
  /\ call[c].pc = "accepted" /\ call[c].action # "start"
  /\ Ends(c, "completed")
  /\ UNCHANGED <<sub, late>>

\* An immediate cancellation is final only while it is still scheduled;
\* otherwise the transaction conflicts and the command stays initializing.
\* The transaction finds the row by the row's own identity, which a restarted
\* subscription keeps, and does not compare the provider subscription.
FinalizeImmediateCancellation(c) ==
  /\ call[c].pc = "ended"
  /\ IF sub.status = "cancellation_scheduled"
       THEN /\ sub' = [sub EXCEPT !.status = "cancelled", !.cancelAtEnd = FALSE]
            /\ late' = IF sub.prov = call[c].made THEN late ELSE late \cup {"ended"}
            /\ Ends(c, "completed")
       ELSE Ends(c, "initializing") /\ UNCHANGED <<sub, late>>

MarkCommandUnknown(c) ==
  /\ call[c].pc = "unknown"
  /\ sub' = [sub EXCEPT !.status = "reconciliation_required"]
  /\ Ends(c, "reconciliation_required")
  /\ UNCHANGED late

SavedBy(c) ==
  CASE call[c].action = "start" -> StartRow(call[c].prev, call[c].plan)
    [] call[c].action = "plan" -> PlanRow(call[c].prev, call[c].plan)
    [] OTHER -> CancelRow(call[c].prev)

\* The row the command remembered replaces the row as a whole.
RejectProviderMutation(c) ==
  /\ call[c].pc = "refused"
  /\ sub' = call[c].prev
  /\ late' = IF sub = SavedBy(c) THEN late ELSE late \cup {"restored"}
  /\ Ends(c, "rejected")

-----------------------------------------------------------------------------
(* Provider events (HandleWebhook).  The inbox records every event once; a *)
(* delivery it has recorded repeats the earlier answer and changes nothing.*)

Stale(e) ==
  /\ sub.lastAt # 0
  /\ \/ e.at < sub.lastAt
     \/ /\ e.at = sub.lastAt
        /\ CASE e.type = "charged" -> e.paid <= sub.paid
             [] e.type \in {"cancelled", "completed"} -> FALSE
             [] OTHER -> TRUE

\* validateProviderSubscriptionPlan
PlanKnown(p) == p.plan \in {sub.provPlan, sub.pend}

\* validatePaidPeriodAdvance: the charge continues the period of the row.
PaidPeriodAdvances(p) ==
  sub.paid > 0 => /\ sub.pend = p.plan => p.paid - 1 = sub.pendAt
                  /\ sub.end # 0 /\ p.paid - 1 = sub.end

TerminalIgnores(e) == sub.status \in Terminal /\ e.type \notin {"cancelled", "completed"}

\* Slip: the paid count of the event is not compared with the row's.
Chargeable_AnyCount(e) ==
  sub.status # "cancellation_scheduled" /\ PaidPeriodAdvances(e)

Chargeable(e) ==
  sub.status # "cancellation_scheduled" /\ e.paid > sub.paid /\ PaidPeriodAdvances(e)

\* Slip: the first charge after a plan change applies the pending plan,
\* whichever plan was charged.
PaidRow_Pending(p) ==
  LET plan == IF sub.pend = NoPlan THEN p.plan ELSE sub.pend
  IN  [sub EXCEPT !.status = "active", !.mode = "renewable", !.plan = plan,
                  !.provPlan = plan, !.paid = p.paid, !.end = p.paid, !.grace = FALSE,
                  !.pend = NoPlan, !.pendAt = 0]

\* What a charge, observed in an event or by the maintenance, does to a row.
PaidRow(p) ==
  [sub EXCEPT !.status = "active", !.mode = "renewable", !.plan = p.plan,
              !.provPlan = p.plan, !.paid = p.paid, !.end = p.paid, !.grace = FALSE,
              !.pend = IF @ = p.plan THEN NoPlan ELSE @,
              !.pendAt = IF sub.pend = p.plan THEN 0 ELSE @]

EventRow(e) ==
  LET row == CASE e.type = "activated" -> [sub EXCEPT !.status = "renewal_pending"]
               [] e.type = "charged" -> PaidRow(e)
               [] e.type = "pending" -> [sub EXCEPT !.status = "past_due", !.grace = TRUE]
               [] e.type = "halted" -> [sub EXCEPT !.status = "suspended"]
               [] e.type = "cancelled" -> [sub EXCEPT !.status = "cancelled",
                                                      !.cancelAtEnd = FALSE]
               [] e.type = "completed" -> [sub EXCEPT !.status = "expired"]
               [] OTHER -> [sub EXCEPT !.status = IF sub.pend = NoPlan THEN @
                                                  ELSE "renewal_pending"]
  IN  [row EXCEPT !.lastAt = e.at, !.end = IF e.paid > 0 THEN e.paid ELSE @]

Receive(id) ==
  /\ id \in (1..Len(events)) \ seen
  /\ seen' = seen \cup {id}
  /\ UNCHANGED <<call, provider, events, fetched, faults, late>>

IgnoreEvent(id) ==
  LET e == events[id]
  IN  /\ Receive(id)
      /\ e.sub = sub.prov
      /\ Stale(e) \/ (PlanKnown(e) /\ TerminalIgnores(e))
      /\ UNCHANGED <<sub, records>>

\* An event of another subscription of the business, of an unexpected plan,
\* or a charge that does not continue the row puts the row in doubt.
DoubtEvent(id) ==
  LET e == events[id]
  IN  /\ Receive(id)
      /\ \/ e.sub # sub.prov
         \/ e.sub = sub.prov /\ ~ Stale(e) /\ ~ PlanKnown(e)
         \/ /\ e.sub = sub.prov /\ ~ Stale(e) /\ PlanKnown(e)
            /\ ~ TerminalIgnores(e) /\ e.type = "charged" /\ ~ Chargeable(e)
      /\ sub' = [sub EXCEPT !.status = "reconciliation_required"]
      /\ UNCHANGED records

ApplyEvent(id) ==
  LET e == events[id]
  IN  /\ Receive(id)
      /\ e.sub = sub.prov /\ ~ Stale(e) /\ PlanKnown(e) /\ ~ TerminalIgnores(e)
      /\ e.type = "charged" => Chargeable(e)
      /\ sub' = EventRow(e)
      /\ records' = IF e.type = "charged"
                      THEN records \cup {<<e.sub, e.paid, "event">>} ELSE records

HandleWebhook(id) == IgnoreEvent(id) \/ DoubtEvent(id) \/ ApplyEvent(id)

-----------------------------------------------------------------------------
(* Maintenance: it lists the rows in doubt that name a provider            *)
(* subscription, fetches that subscription, and decides in a transaction   *)
(* that reads the row again.                                               *)

FetchSubscription ==
  /\ sub.status = "reconciliation_required" /\ sub.prov # 0 /\ fetched = NoFetch
  /\ LET p == provider[sub.prov]
     IN  fetched' = [sub |-> sub.prov, status |-> p.status, paid |-> Len(p.charges),
                     plan |-> p.plan, changes |-> p.sched # NoPlan]
  /\ UNCHANGED <<sub, call, provider, events, seen, records, faults, late>>

Verified ==
  sub.status = "reconciliation_required" /\ fetched.sub = sub.prov /\ PlanKnown(fetched)

Reconcile(row, billed) ==
  /\ fetched # NoFetch
  /\ sub' = row
  /\ records' = records \cup billed
  /\ fetched' = NoFetch
  /\ UNCHANGED <<call, provider, events, seen, faults, late>>

Observes(case) ==
  /\ Verified
  /\ case = IF fetched.status = "cancelled" THEN "cancelled"
            ELSE IF fetched.paid > sub.paid
                 THEN IF PaidPeriodAdvances(fetched) THEN "paid" ELSE "unknown"
            ELSE IF fetched.changes /\ sub.pend # NoPlan THEN "changes"
            ELSE IF fetched.status = "active" /\ sub.cancelAtEnd THEN "ending"
            ELSE "unknown"

\* Slip: the maintenance repairs charges and scheduled changes only.
ReconcileCancelled_Never ==
  /\ fetched # NoFetch /\ Observes("cancelled")
  /\ Reconcile(sub, {})

ReconcileCancelled ==
  /\ fetched # NoFetch /\ Observes("cancelled")
  /\ Reconcile([sub EXCEPT !.status = "cancelled", !.cancelAtEnd = FALSE], {})

ReconcilePaid ==
  /\ fetched # NoFetch /\ Observes("paid")
  /\ Reconcile(PaidRow(fetched), {<<fetched.sub, fetched.paid, "reconciliation">>})

ReconcileScheduled ==
  /\ fetched # NoFetch
  /\ \/ Observes("changes") /\ Reconcile([sub EXCEPT !.status = "renewal_pending"], {})
     \/ Observes("ending") /\ Reconcile([sub EXCEPT !.status = "cancellation_scheduled"], {})

StaysInDoubt ==
  /\ fetched # NoFetch /\ (~ Verified \/ Observes("unknown"))
  /\ Reconcile(sub, {})

SuspendExpiredGrace ==
  /\ sub.status = "past_due" /\ sub.grace
  /\ sub' = [sub EXCEPT !.status = "suspended"]
  /\ UNCHANGED <<call, provider, events, seen, fetched, records, faults, late>>

-----------------------------------------------------------------------------
Provider ==
  \E i \in Subs : \/ Activate(i) \/ Charge(i) \/ ChargeFails(i) \/ Halt(i)
                  \/ ProviderCancels(i) \/ AllCyclesPaid(i)

Request(c) == \/ \E p \in Paid : StartRenewable(c, p) \/ SchedulePlanChange(c, p)
              \/ ScheduleCancellation(c)

CallsProvider(c) == \/ CreateSubscription(c) \/ UpdateSubscription(c)
                     \/ CancelAtCycleEnd(c) \/ CancelNow(c)
                     \/ ProviderRejects(c) \/ NoAnswer(c)

Record(c) == \/ FinishStart(c) \/ CompleteCommand(c) \/ FinalizeImmediateCancellation(c)
             \/ MarkCommandUnknown(c) \/ RejectProviderMutation(c)

RunMaintenance == \/ FetchSubscription \/ ReconcileCancelled \/ ReconcilePaid
                  \/ ReconcileScheduled \/ StaysInDoubt

Next == \/ Provider
        \/ \E c \in Calls : Request(c) \/ CallsProvider(c) \/ Record(c) \/ Crash(c)
        \/ \E id \in 1..Len(events) : HandleWebhook(id)
        \/ RunMaintenance
        \/ SuspendExpiredGrace

Spec == Init /\ [][Next]_vars

\* Calls end, the provider delivers each event at least once, and the
\* five-minute schedule runs the maintenance again and again.
Fairness ==
  /\ \A c \in Calls : WF_vars(CallsProvider(c) \/ Record(c))
  /\ \A id \in 1..MaxEvents : WF_vars(HandleWebhook(id))
  /\ WF_vars(RunMaintenance)

FairSpec == Spec /\ Fairness

-----------------------------------------------------------------------------
(* Properties.                                                             *)

\* Types, and the shape resetSubscriptionForRenewableRestart gives a row
\* that names no provider subscription: nothing of an earlier one is left.
TypeOK ==
  /\ sub \in Rows
  /\ sub.prov = 0 => sub.paid = 0 /\ sub.end = 0 /\ sub.plan = Free /\ sub.lastAt = 0
  /\ \A c \in Calls : call[c].prev \in Rows /\ call[c].made \in 0..MaxSubs
  /\ seen \subseteq 1..Len(events)
  /\ records \subseteq Subs \X Cycles \X {"event", "reconciliation"}
  /\ faults \in 0..MaxFaults

\* The plan a business has is the plan of a charge the provider made: the
\* paid count of the row names a charge of its provider subscription and the
\* plan is the one that charge paid for.  No order of events, commands and
\* reconciliation grants a plan early or keeps one of an earlier subscription,
\* unless a rejected command has put an old row over newer changes.
EntitlementIsPaid ==
  "restored" \notin late =>
    IF sub.plan = Free THEN sub.paid = 0
    ELSE /\ sub.prov # 0 /\ sub.paid \in 1..Len(provider[sub.prov].charges)
         /\ provider[sub.prov].charges[sub.paid] = sub.plan

\* A business never has two provider subscriptions that can be charged, even
\* when answers of the provider are lost or the service dies after a create:
\* an unknown outcome is not retried as a new subscription.  Two late commands
\* are excepted, for they can free the row of a subscription that is live: a
\* rejection that puts an old row over newer changes, and an immediate
\* cancellation that ends the row of a later subscription.
OneLiveSubscription == late = {} => \A i, j \in Subs : Live(i) /\ Live(j) => i = j

\* The charge a row stands on has its billing record, and no charge has a
\* record from its event and another from the maintenance, unless a rejected
\* command has put an old row over newer changes.
ChargeBilledOnce ==
  /\ sub.paid > 0 /\ "restored" \notin late =>
       \E origin \in {"event", "reconciliation"} : <<sub.prov, sub.paid, origin>> \in records
  /\ "restored" \in late \/ \A i \in Subs, n \in Cycles :
       ~ ({<<i, n, "event">>, <<i, n, "reconciliation">>} \subseteq records)

\* A subscription the provider has cancelled ends here too: the row reaches
\* "cancelled" or is reused for another subscription, whatever commands and
\* earlier events are still on their way.
CancellationIsLearned ==
  \A i \in Subs :
    (sub.prov = i /\ provider[i].status = "cancelled")
      ~> (sub.status = "cancelled" \/ sub.prov # i \/ "restored" \in late)

\* An event sent before a charge that the row already reflects changes
\* nothing: a stale event cannot regress the subscription.
StaleEventCannotRegress ==
  [][\A id \in seen' \ seen :
       LET e == events[id]
       IN  e.sub = sub.prov /\ e.paid < sub.paid + (IF e.type = "charged" THEN 1 ELSE 0)
             => sub' = sub]_vars
=============================================================================
