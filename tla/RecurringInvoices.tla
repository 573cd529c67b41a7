--------------------------- MODULE RecurringInvoices ---------------------------
(***************************************************************************)
(* One recurring invoice (an invoice subscription of                       *)
(* internal/services/billing_ops_service.go): the scheduled dispatcher,    *)
(* the requests that generate a draft now, pause, resume or update it, and *)
(* the creation of the draft.                                              *)
(*                                                                         *)
(* A generation is one transaction that locks the subscription row, but    *)
(* the draft is created inside it through InvoiceService, in a transaction *)
(* of its own on a second connection of the same pool.  Pause, Resume and  *)
(* Update read the row and later save all of it.                           *)
(*                                                                         *)
(* Each process is one Lambda instance, which serves one request at a time *)
(* with a connection pool of its own.  A slot of the schedule is a tick,   *)
(* and the cadence is one tick.  The lines of the subscription and its     *)
(* other template fields are one content.                                  *)
(***************************************************************************)
EXTENDS Naturals

CONSTANTS
    Clients,              \* API requests in flight
    Dispatcher, Nobody,   \* the scheduled Lambda; no process
    Keys,                 \* idempotency keys of generate-now requests
    Contents,             \* what an invoice of this subscription may say
    DispatcherPools,      \* sizes the dispatcher's connection pool may have
    RequestPools,         \* sizes the pool of an API instance may have
    MaxTime,              \* bound on the clock
    MaxFailures           \* bound on crashes and failed calls

\* scheduledInvoiceSubscriptionCommandKey hashes a text of its own, with the slot
\* in it, to a UUID; a client brings a UUID it made itself.
ASSUME RecurringAssumption ==
    /\ \A k \in Keys : k \notin 0 .. MaxTime
    /\ Dispatcher \notin Clients /\ Nobody \notin Clients \cup {Dispatcher}
    /\ DispatcherPools \cup RequestPools \subseteq Nat \ {0}
    /\ MaxTime \in Nat /\ MaxFailures \in Nat

VARIABLES
    now,        \* the clock
    sub,        \* the subscription row
    runs,       \* its runs, by key
    invoices,   \* the drafts, by idempotency key: the identifier of the run
    lock,       \* who holds the subscription row FOR UPDATE
    proc,       \* what each process is doing
    failures,   \* crashes and failed calls so far
    pool        \* SetMaxOpenConns of each process, fixed when it starts

recurringVars == <<now, sub, runs, invoices, lock, proc, failures, pool>>

Procs   == Clients \cup {Dispatcher}
Times   == 0 .. MaxTime
Unset   == MaxTime + 2        \* next_run_at IS NULL
\* A scheduled run's key is derived from its slot, any other is the client's.
RunKeys == Times \cup Keys

NoRun     == [status |-> "none", at |-> 0]
NoInvoice == [made |-> FALSE]
Resting   == [pc |-> "idle"]

SubRows    == [status : {"active", "paused"}, next : 0 .. Unset, content : Contents]
Drafts     == [made : {TRUE}, at : Times, content : Contents]
ProcStates ==
    {Resting}
        \cup [pc : {"begin"}, key : RunKeys]
        \cup [pc : {"create", "complete", "fail"}, key : RunKeys, at : Times]
        \cup [pc : {"save"}, row : SubRows]

RecurringTypeOK ==
    /\ now \in Times
    /\ sub \in SubRows
    /\ runs \in [RunKeys -> [status : {"none", "completed", "failed"}, at : Times]]
    /\ invoices \in [RunKeys -> {NoInvoice} \cup Drafts]
    /\ lock \in Procs \cup {Nobody}
    /\ proc \in [Procs -> ProcStates]
    /\ failures \in 0 .. MaxFailures
    /\ pool \in [Procs -> DispatcherPools \cup RequestPools]

\* CreateInvoiceSubscription: active, first due at its start date.
RecurringInit ==
    /\ now = 0
    /\ \E start \in Times, c \in Contents :
          sub = [status |-> "active", next |-> start, content |-> c]
    /\ runs = [k \in RunKeys |-> NoRun]
    /\ invoices = [k \in RunKeys |-> NoInvoice]
    /\ lock = Nobody
    /\ proc = [p \in Procs |-> Resting]
    /\ failures = 0
    /\ \E d \in DispatcherPools, r \in RequestPools :
          pool = [p \in Procs |-> IF p = Dispatcher THEN d ELSE r]

Failure == failures < MaxFailures /\ failures' = failures + 1

-------------------------------------------------------------------------------
(* Starting a generation.                                                    *)

\* DispatchDueInvoiceSubscriptions lists the due row; the slot it saw names the
\* run, whatever happens to the row before the generation locks it.
RunIsDue == sub.status = "active" /\ sub.next <= now

DispatchDueInvoiceSubscriptions ==
    /\ proc[Dispatcher] = Resting
    /\ RunIsDue
    /\ proc' = [proc EXCEPT ![Dispatcher] = [pc |-> "begin", key |-> sub.next]]
    /\ UNCHANGED <<now, sub, runs, invoices, lock, failures, pool>>

GenerateInvoiceSubscriptionNow(c, k) ==
    /\ proc[c] = Resting
    /\ proc' = [proc EXCEPT ![c] = [pc |-> "begin", key |-> k]]
    /\ UNCHANGED <<now, sub, runs, invoices, lock, failures, pool>>

-------------------------------------------------------------------------------
(* generateInvoiceSubscription.                                              *)

\* A run that is there keeps its time; a new one is for its slot, or for now.
ScheduledFor(p) ==
    LET k == proc[p].key
    IN  IF runs[k].status # "none" THEN runs[k].at
        ELSE IF p = Dispatcher THEN k ELSE now

\* Slip: a run that failed is returned like a completed one.
Answered_Failed(p) == runs[proc[p].key].status # "none" \/ sub.status # "active"

\* A completed run is returned as it is, and only an active subscription
\* generates; in both cases the transaction changes nothing.
Answered(p) == runs[proc[p].key].status = "completed" \/ sub.status # "active"

\* Slip: the row is read without FOR UPDATE.
Claim_Unlocked(p) ==
    /\ proc[p].pc = "begin" /\ lock = Nobody
    /\ proc' = [proc EXCEPT ![p] = IF Answered(p) THEN Resting
                                   ELSE [pc |-> "create", key |-> @.key, at |-> ScheduledFor(p)]]
    /\ UNCHANGED <<now, sub, runs, invoices, lock, failures, pool>>

\* The transaction locks the subscription, then inserts or finds the run.
Claim(p) ==
    /\ proc[p].pc = "begin" /\ lock = Nobody
    /\ lock' = IF Answered(p) THEN Nobody ELSE p
    /\ proc' = [proc EXCEPT ![p] = IF Answered(p) THEN Resting
                                   ELSE [pc |-> "create", key |-> @.key, at |-> ScheduledFor(p)]]
    /\ UNCHANGED <<now, sub, runs, invoices, failures, pool>>

\* The transaction holds one connection of the pool; the draft needs another.
Spare(p) == pool[p] > 1

\* What the request hash of the draft covers: the due date follows the run's
\* time, the rest is the subscription's content.
Request(p) == [made |-> TRUE, at |-> proc[p].at, content |-> sub.content]

\* Slip: a draft under the same key is taken for the answer, whatever its hash.
CreateByBusiness_AnyHash(p) ==
    LET k == proc[p].key
    IN  /\ proc[p].pc = "create" /\ Spare(p)
        /\ invoices' = [invoices EXCEPT ![k] = IF @ = NoInvoice THEN Request(p) ELSE @]
        /\ proc' = [proc EXCEPT ![p] = [@ EXCEPT !.pc = "complete"]]
        /\ UNCHANGED <<now, sub, runs, lock, failures, pool>>

\* The draft commits on its own, or is found under the run's key; one with
\* another hash is a conflict.
CreateByBusiness(p) ==
    LET k == proc[p].key
    IN  /\ proc[p].pc = "create" /\ Spare(p)
        /\ invoices' = [invoices EXCEPT ![k] = IF @ = NoInvoice THEN Request(p) ELSE @]
        /\ proc' = [proc EXCEPT ![p] = [@ EXCEPT !.pc =
                      IF invoices[k] \in {NoInvoice, Request(p)} THEN "complete" ELSE "fail"]]
        /\ UNCHANGED <<now, sub, runs, lock, failures, pool>>

\* Any error of the creation that leaves no draft.
CreateFails(p) ==
    /\ proc[p].pc = "create" /\ Spare(p)
    /\ Failure
    /\ proc' = [proc EXCEPT ![p] = [@ EXCEPT !.pc = "fail"]]
    /\ UNCHANGED <<now, sub, runs, invoices, lock, pool>>

Leave(p) == lock' = Nobody /\ proc' = [proc EXCEPT ![p] = Resting]

Record(p, status) ==
    runs' = [runs EXCEPT ![proc[p].key] = [status |-> status, at |-> proc[p].at]]

\* The run is completed and the schedule goes to the slot after the run's.
CompleteRun(p) ==
    /\ proc[p].pc = "complete"
    /\ Record(p, "completed")
    /\ sub' = [sub EXCEPT !.next = proc[p].at + 1]
    /\ Leave(p)
    /\ UNCHANGED <<now, invoices, failures, pool>>

\* The run is kept as failed and the schedule stays.
FailRun(p) ==
    /\ proc[p].pc = "fail"
    /\ Record(p, "failed")
    /\ Leave(p)
    /\ UNCHANGED <<now, sub, invoices, failures, pool>>

\* A crash or a lost connection: the transaction is rolled back, the draft is not.
RollBack(p) ==
    /\ proc[p].pc \in {"begin", "create", "complete", "fail"}
    /\ Failure
    /\ proc' = [proc EXCEPT ![p] = Resting]
    /\ lock' = IF lock = p THEN Nobody ELSE lock
    /\ UNCHANGED <<now, sub, runs, invoices, pool>>

\* No connection will come free: the wait ends with the deadline of the request,
\* and nothing can be saved after it.
DeadlineExpires(p) ==
    /\ proc[p].pc = "create" /\ ~ Spare(p)
    /\ Leave(p)
    /\ UNCHANGED <<now, sub, runs, invoices, failures, pool>>

-------------------------------------------------------------------------------
(* Requests that read the row and save all of it.                            *)

Saving(c, row) ==
    /\ proc[c] = Resting
    /\ proc' = [proc EXCEPT ![c] = [pc |-> "save", row |-> row]]
    /\ UNCHANGED <<now, sub, runs, invoices, lock, failures, pool>>

PauseInvoiceSubscription(c) ==
    Saving(c, [sub EXCEPT !.status = "paused", !.next = Unset])

ResumeInvoiceSubscription(c) ==
    Saving(c, [sub EXCEPT !.status = "active", !.next = IF @ = Unset THEN now ELSE @])

\* A start date is the next run only of a subscription that has none.
UpdateInvoiceSubscription(c, content, start) ==
    Saving(c, [sub EXCEPT !.content = content, !.next = IF @ = Unset THEN start ELSE @])

\* The update waits for whoever has the row locked.
Save(c) ==
    /\ proc[c].pc = "save" /\ lock = Nobody
    /\ sub' = proc[c].row
    /\ proc' = [proc EXCEPT ![c] = Resting]
    /\ UNCHANGED <<now, runs, invoices, lock, failures, pool>>

-------------------------------------------------------------------------------
Tick == now < MaxTime /\ now' = now + 1 /\ UNCHANGED <<sub, runs, invoices, lock, proc, failures, pool>>

Creates(p)  == CreateByBusiness(p) \/ CreateFails(p)
Finishes(p) == CompleteRun(p) \/ FailRun(p) \/ DeadlineExpires(p)

Edits(c) ==
    \/ PauseInvoiceSubscription(c)
    \/ ResumeInvoiceSubscription(c)
    \/ \E content \in Contents, start \in Times \cup {Unset} :
          UpdateInvoiceSubscription(c, content, start)
    \/ Save(c)

RecurringNext ==
    \/ DispatchDueInvoiceSubscriptions
    \/ \E c \in Clients : Edits(c) \/ \E k \in Keys : GenerateInvoiceSubscriptionNow(c, k)
    \/ \E p \in Procs : Claim(p) \/ Creates(p) \/ Finishes(p) \/ RollBack(p)
    \/ Tick

RecurringSpec == RecurringInit /\ [][RecurringNext]_recurringVars

\* The schedule invokes the dispatcher every minute, the row lock is granted in
\* turn, and a process that has it goes on: failures are bounded, and a wait for a
\* connection ends with the deadline.
RecurringFairness ==
    /\ WF_recurringVars(DispatchDueInvoiceSubscriptions)
    /\ \A p \in Procs : /\ SF_recurringVars(Claim(p))
                       /\ WF_recurringVars(Creates(p))
                       /\ WF_recurringVars(Finishes(p))

RecurringFairSpec == RecurringSpec /\ RecurringFairness

-------------------------------------------------------------------------------
(* Properties.                                                               *)

\* A paused subscription makes no draft: when one is created the subscription is
\* active, although it was checked in another transaction's lock and Pause may
\* have been waiting to save (generateInvoiceSubscription, FOR UPDATE).
PausedMakesNothing ==
    [][\A k \in RunKeys :
          invoices[k] = NoInvoice /\ invoices'[k] # NoInvoice => sub.status = "active"]_recurringVars

\* A completed run has its own draft, dated from the run's time, and the run of a
\* slot is dated at that slot, after any crash between the draft and the run, any
\* retry and any edit (run.ID as idempotency key, request hash).
CompletedRunHasItsDraft ==
    \A k \in RunKeys : runs[k].status = "completed" =>
        /\ invoices[k].made /\ invoices[k].at = runs[k].at
        /\ k \in Times => runs[k].at = k

\* A slot that is due gets its draft, unless the subscription is paused or moved
\* to another slot first.
DueIsInvoiced ==
    \A t \in Times :
        (sub.status = "active" /\ sub.next = t /\ t <= now)
            ~> (invoices[t].made \/ sub.status # "active" \/ sub.next # t)

\* With a connection to spare the dispatcher makes the drafts of the schedule, in
\* spite of crashes, failed creations and requests that hold the row.
SpareConnectionSuffices == Spare(Dispatcher) => DueIsInvoiced

===============================================================================
