--------------------------- MODULE ToolGovernance ---------------------------
(***************************************************************************)
(* Governed execution of agent tools: AgentGovernanceService.ExecuteTool   *)
(* (internal/services/agent_governance_service.go) over the transactions   *)
(* of internal/repositories/postgres/agent_governance_repo.go.             *)
(*                                                                         *)
(* A request is an idempotency key: its run, its tool execution and its    *)
(* spend reservation are rows named after it.  A worker is one call of     *)
(* ExecuteTool; two workers with one request are a call and its retry.     *)
(* Each step of a worker is one transaction or the tool call itself, and a *)
(* process may die between any two.  Times are abstracted to what has      *)
(* passed: a run's deadline, a breaker's cooldown, a probe's lease.        *)
(***************************************************************************)
EXTENDS Naturals, FiniteSets

CONSTANTS
  Requests,       \* idempotency keys
  Agents,         \* the agents of the business
  AgentOf,        \* the agent of each request
  ReadOnly,       \* requests whose tool has the class "read-only"
  Workers,        \* calls of ExecuteTool
  None,           \* no request, no probe token
  Cost,           \* ExpectedCostMicros, what an authorization reserves
  Costs,          \* what an invocation may report
  BusinessLimit,  \* BusinessSpendCeilingMicros
  AgentLimit,     \* AgentDailySpendLimitMicros
  Threshold,      \* ProviderFailureThreshold
  MaxFaults       \* bound: crashes, deadlines, cancellations and gate changes

ASSUME ConstantsFit ==
  /\ Cost \in Nat \ {0} /\ Costs \subseteq Nat \ {0}
  /\ BusinessLimit \in Nat /\ AgentLimit \in Nat
  /\ Threshold \in Nat \ {0} /\ MaxFaults \in Nat
  /\ IsFiniteSet(Requests) /\ AgentOf \in [Requests -> Agents] /\ ReadOnly \subseteq Requests
  /\ None \notin Workers \cup Requests /\ "global" \notin Agents

VARIABLES
  gate,      \* ai_governance_controls: execution enabled, per scope
  run,       \* ai_agent_runs: status and whether cancellation is requested
  expired,   \* the runs whose deadline has passed
  exec,      \* ai_tool_executions: status
  resv,      \* ai_spend_reservations: status
  business,  \* ai_budget_periods of the business: reserved and settled
  agent,     \* ai_budget_periods of the agents
  breaker,   \* ai_provider_circuit_breakers
  worker,    \* the calls in progress
  invoked,   \* how often the tool of a request has been dispatched
  faults     \* outside events so far

vars == <<gate, run, expired, exec, resv, business, agent, breaker, worker, invoked, faults>>

Scopes == {"global"} \cup Agents
RunStatus == {"none", "running", "completed", "failed", "cancelled", "timed_out",
              "blocked", "reconciliation_required"}
ToolStatus == {"none", "authorized", "succeeded", "failed", "cancelled", "timed_out",
               "reconciliation_required"}
ResvStatus == {"none", "reserved", "settled", "released", "reconciliation_required"}
Outcomes == {"succeeded", "failed", "cancelled", "timed_out", "reconciliation_required"}

\* Where a call of ExecuteTool stands; from "check" on it owns the execution.
Before == {"idle", "start", "authorize"}
Owning == {"check", "admit", "invoking", "recheck", "outcome", "complete", "end"}

Resting == [pc |-> "idle", req |-> None, epoch |-> 0,
            status |-> "failed", ctx |-> "none", watch |-> "none",
            unknown |-> FALSE, charge |-> FALSE, cost |-> 0]

Init ==
  /\ gate = [s \in Scopes |-> TRUE]
  /\ run = [r \in Requests |-> [status |-> "none", cancel |-> FALSE]]
  /\ expired = {}
  /\ exec = [r \in Requests |-> "none"]
  /\ resv = [r \in Requests |-> "none"]
  /\ business = [reserved |-> 0, settled |-> 0]
  /\ agent = [a \in Agents |-> [reserved |-> 0, settled |-> 0]]
  /\ breaker = [state |-> "closed", failures |-> 0, probe |-> None, due |-> FALSE, epoch |-> 0]
  /\ worker = [w \in Workers |-> Resting]
  /\ invoked = [r \in Requests |-> 0]
  /\ faults = 0

Fault == faults < MaxFaults /\ faults' = faults + 1

At(w, pc) == worker[w].pc = pc
Goto(w, pc) == worker' = [worker EXCEPT ![w].pc = pc]
Ending(w) ==
  worker' = [worker EXCEPT ![w] = [Resting EXCEPT !.pc = "end", !.req = worker[w].req,
                                                  !.status = worker[w].status]]
Leave(w) == worker' = [worker EXCEPT ![w] = [Resting EXCEPT !.pc = "done"]]

-----------------------------------------------------------------------------
(* What a transaction checks before it lets a run go on.                   *)

\* requireExecutionGates
GatesOpen(r) == gate["global"] /\ gate[AgentOf[r]]

\* activeRunError
RunActive(r) == run[r].status = "running" /\ ~ run[r].cancel /\ r \notin expired

\* CheckExecution, and the status its error leads to
CheckPasses(r) == GatesOpen(r) /\ RunActive(r)

ControlFailureStatus(r) ==
  IF ~ GatesOpen(r) \/ run[r].cancel THEN "cancelled"
  ELSE IF r \in expired THEN "timed_out" ELSE "failed"

-----------------------------------------------------------------------------
(* ExecuteTool up to the dispatch of the tool.                             *)

\* FindToolExecutionReplay: a recorded execution is answered, not repeated.
Lookup(w, r) ==
  /\ At(w, "idle")
  /\ IF exec[r] # "none" \/ r \in expired THEN Leave(w)
     ELSE worker' = [worker EXCEPT ![w].req = r, ![w].pc = "start"]
  /\ UNCHANGED <<gate, run, expired, exec, resv, business, agent, breaker, invoked, faults>>

\* Slip: the gates are read before the transaction that creates the run.
StartRun_Ungated(w) ==
  LET r == worker[w].req
  IN  /\ At(w, "start")
      /\ run' = IF run[r].status = "none"
                  THEN [run EXCEPT ![r].status = "running"] ELSE run
      /\ Goto(w, "authorize")
      /\ UNCHANGED <<gate, expired, exec, resv, business, agent, breaker, invoked, faults>>

StartRun(w) ==
  LET r == worker[w].req
  IN  /\ At(w, "start") /\ GatesOpen(r)
      /\ run' = IF run[r].status = "none"
                  THEN [run EXCEPT ![r].status = "running"] ELSE run
      /\ Goto(w, "authorize")
      /\ UNCHANGED <<gate, expired, exec, resv, business, agent, breaker, invoked, faults>>

\* Slip: what is reserved for calls in progress is not counted.
Fits_IgnoresReserved(b, limit) == b.settled + Cost <= limit

\* reserveToolCapacityTx: both budgets have room for the expected cost.
Fits(b, limit) == b.reserved + b.settled + Cost <= limit

Reserved(b) == [b EXCEPT !.reserved = @ + Cost]

Authorizable(r) ==
  /\ GatesOpen(r) /\ RunActive(r)
  /\ Fits(business, BusinessLimit) /\ Fits(agent[AgentOf[r]], AgentLimit)

\* Slip: a call whose authorization is a replay goes on with it.
AuthorizeToolExecution_Again(w) ==
  LET r == worker[w].req
      new == exec[r] = "none"
  IN  /\ At(w, "authorize") /\ (new => Authorizable(r))
      /\ exec' = IF new THEN [exec EXCEPT ![r] = "authorized"] ELSE exec
      /\ resv' = IF new THEN [resv EXCEPT ![r] = "reserved"] ELSE resv
      /\ business' = IF new THEN Reserved(business) ELSE business
      /\ agent' = IF new THEN [agent EXCEPT ![AgentOf[r]] = Reserved(@)] ELSE agent
      /\ Goto(w, "check")
      /\ UNCHANGED <<gate, run, expired, breaker, invoked, faults>>

AuthorizeToolExecution(w) ==
  LET r == worker[w].req
  IN  /\ At(w, "authorize") /\ exec[r] = "none" /\ Authorizable(r)
      /\ exec' = [exec EXCEPT ![r] = "authorized"]
      /\ resv' = [resv EXCEPT ![r] = "reserved"]
      /\ business' = Reserved(business)
      /\ agent' = [agent EXCEPT ![AgentOf[r]] = Reserved(@)]
      /\ Goto(w, "check")
      /\ UNCHANGED <<gate, run, expired, breaker, invoked, faults>>

\* A closed gate, a replayed execution or a refused authorization ends the
\* call; the run it may have started stays "running".
Denied(w) ==
  LET r == worker[w].req
  IN  /\ \/ At(w, "start") /\ ~ GatesOpen(r)
         \/ At(w, "authorize") /\ (exec[r] # "none" \/ ~ Authorizable(r))
      /\ Leave(w)
      /\ UNCHANGED <<gate, run, expired, exec, resv, business, agent, breaker, invoked, faults>>

\* The verdict a call carries to CompleteToolExecution.
Verdict(w, pc, status) ==
  worker' = [worker EXCEPT ![w].pc = pc, ![w].status = status]

CheckExecution(w) ==
  LET r == worker[w].req
  IN  /\ At(w, "check")
      /\ IF CheckPasses(r) THEN Goto(w, "admit")
         ELSE Verdict(w, "complete", ControlFailureStatus(r))
      /\ UNCHANGED <<gate, run, expired, exec, resv, business, agent, breaker, invoked, faults>>

\* AdmitProvider: a closed circuit admits; an open one admits a probe after
\* its cooldown; a half-open one admits a probe when the lease of the last
\* one has run out.  An admitted call dispatches its tool.
AdmitProvider(w) ==
  LET probing == breaker.state # "closed"
  IN  /\ At(w, "admit")
      /\ IF probing /\ ~ breaker.due
           THEN Verdict(w, "complete", "blocked") /\ UNCHANGED <<breaker, invoked>>
           ELSE /\ worker' = [worker EXCEPT ![w].pc = "invoking", ![w].epoch = breaker.epoch]
                /\ breaker' = IF probing THEN [breaker EXCEPT !.state = "half_open", !.probe = w,
                                                              !.due = FALSE]
                              ELSE breaker
                /\ invoked' = [invoked EXCEPT ![worker[w].req] = @ + 1]
      /\ UNCHANGED <<gate, run, expired, exec, resv, business, agent, faults>>

-----------------------------------------------------------------------------
(* The tool call and what follows it.                                      *)

\* How the context of a call may have ended when the tool returns: by the
\* deadline, or cancelled by the caller or the watcher; and what the watcher's
\* periodic check found: the run stopped, or an error of its own.
ContextEnds(r) == {"none", "cancelled"} \cup (IF r \in expired THEN {"timed_out"} ELSE {})
Watched(r) == {"none", "failed"} \cup (IF CheckPasses(r) THEN {} ELSE {ControlFailureStatus(r)})

Returns(w, status, charge, cost, ctx, watch) ==
  /\ watch # "none" => ctx = "cancelled"
  /\ status = "succeeded" => charge
  /\ worker' = [worker EXCEPT ![w].pc = "recheck", ![w].ctx = ctx, ![w].watch = watch,
                  ![w].status = status, ![w].charge = charge, ![w].cost = cost]
  /\ IF ctx = "cancelled" /\ watch \in {"none", "failed"} THEN Fault ELSE UNCHANGED faults
  /\ UNCHANGED <<gate, run, expired, exec, resv, business, agent, breaker, invoked>>

Return(w) ==
  /\ At(w, "invoking")
  /\ \E status \in {"succeeded", "failed"}, charge \in BOOLEAN, cost \in Costs,
        ctx \in ContextEnds(worker[w].req), watch \in Watched(worker[w].req) :
       Returns(w, status, charge, cost, ctx, watch)

\* The final check; with the context's and the watcher's verdict it decides
\* the status.  After a dispatch, what may have had an effect is unknown.
Decided(r, status, ctx, control) ==
  IF (ctx # "none" \/ control # "none") /\ r \notin ReadOnly THEN "reconciliation_required"
  ELSE IF control # "none" THEN control
  ELSE IF ctx # "none" THEN ctx ELSE status

Recheck(w) ==
  LET r == worker[w].req
      control == IF CheckPasses(r) THEN worker[w].watch ELSE ControlFailureStatus(r)
      status == Decided(r, worker[w].status, worker[w].ctx, control)
  IN  /\ At(w, "recheck")
      /\ worker' = [worker EXCEPT ![w].pc = "outcome",
                      ![w].ctx = IF worker[w].status = "succeeded" /\ worker[w].ctx = "none"
                                   THEN "success" ELSE "failure",
                      ![w].status = status,
                      ![w].unknown = (status = "reconciliation_required"),
                      ![w].watch = "none"]
      /\ UNCHANGED <<gate, run, expired, exec, resv, business, agent, breaker, invoked, faults>>

\* Slip: the probe's token is not compared.
Refuses_AnyToken(w) == breaker.state = "half_open" /\ breaker.due

\* While the circuit is half open, the outcome of any call but the current
\* probe is refused.
Refuses(w) == breaker.state = "half_open" /\ (breaker.probe # w \/ breaker.due)

Opened == [breaker EXCEPT !.state = "open", !.probe = None, !.due = FALSE,
                          !.epoch = IF breaker.state = "open" THEN @ ELSE @ + 1]

Failed ==
  LET n == IF breaker.failures < Threshold THEN breaker.failures + 1 ELSE Threshold
  IN  IF breaker.state = "half_open" \/ n = Threshold
        THEN [Opened EXCEPT !.failures = n] ELSE [breaker EXCEPT !.failures = n]

Succeeded ==
  IF breaker.state = "open" THEN breaker
  ELSE [breaker EXCEPT !.state = "closed", !.failures = 0, !.probe = None, !.due = FALSE]

RecordProviderOutcome(w) ==
  /\ At(w, "outcome")
  /\ breaker' = IF Refuses(w) THEN breaker
                ELSE IF worker[w].ctx = "success" THEN Succeeded ELSE Failed
  /\ worker' = [worker EXCEPT ![w].pc = "complete", ![w].epoch = 0, ![w].ctx = "none",
                  ![w].status = IF Refuses(w) /\ ~ worker[w].unknown THEN "failed" ELSE @]
  /\ UNCHANGED <<gate, run, expired, exec, resv, business, agent, invoked, faults>>

-----------------------------------------------------------------------------
(* The end of an execution.                                                *)

\* The stored status: an unknown effect or a cost above the reservation must
\* be reconciled; a call the circuit blocked has failed.
ToolOutcome(w) ==
  IF worker[w].unknown \/ worker[w].cost > Cost THEN "reconciliation_required"
  ELSE IF worker[w].status = "blocked" THEN "failed" ELSE worker[w].status

\* Slip: the reservation of an unknown outcome is released with the others.
FinalReservation_Released(w) ==
  IF ToolOutcome(w) = "succeeded" \/ worker[w].charge THEN "settled" ELSE "released"

FinalReservation(w) ==
  IF ToolOutcome(w) = "reconciliation_required" THEN "reconciliation_required"
  ELSE IF ToolOutcome(w) = "succeeded" \/ worker[w].charge THEN "settled" ELSE "released"

\* Slip: the cost is settled and what was reserved for it is kept.
Finalized_KeepsReserve(b, final, cost) ==
  IF final = "settled" THEN [b EXCEPT !.settled = @ + cost]
  ELSE IF final = "released" THEN [b EXCEPT !.reserved = @ - Cost] ELSE b

\* finalizeSpendReservation on one budget
Finalized(b, final, cost) ==
  IF final \in {"settled", "released"}
    THEN [b EXCEPT !.reserved = @ - Cost,
                   !.settled = IF final = "settled" THEN @ + cost ELSE @]
    ELSE b

\* The transaction stores the status and finalizes the reservation; a stored
\* outcome, a finalized reservation or a budget below the reservation stops
\* it.  When the stored status is not the one the call asked for, the call
\* ends in an error and leaves its run "running".
CompleteToolExecution(w) ==
  LET r == worker[w].req
      final == FinalReservation(w)
      asked == IF worker[w].status = "blocked" THEN "failed" ELSE worker[w].status
  IN  /\ At(w, "complete")
      /\ IF /\ exec[r] = "authorized" /\ resv[r] = "reserved"
            /\ business.reserved >= Cost /\ agent[AgentOf[r]].reserved >= Cost
           THEN /\ exec' = [exec EXCEPT ![r] = ToolOutcome(w)]
                /\ resv' = [resv EXCEPT ![r] = final]
                /\ business' = Finalized(business, final, worker[w].cost)
                /\ agent' = [agent EXCEPT ![AgentOf[r]] = Finalized(@, final, worker[w].cost)]
                /\ IF ToolOutcome(w) = asked THEN Ending(w) ELSE Leave(w)
           ELSE Leave(w) /\ UNCHANGED <<exec, resv, business, agent>>
      /\ UNCHANGED <<gate, run, expired, breaker, invoked, faults>>

TerminalRunStatus(status) ==
  CASE status = "succeeded" -> "completed"
    [] status \in {"cancelled", "timed_out", "reconciliation_required", "blocked"} -> status
    [] OTHER -> "failed"

\* A run that has ended stays as it is, and none is completed over an
\* execution or a reservation in doubt.
CompleteRun(w) ==
  LET r == worker[w].req
      unresolved == exec[r] = "reconciliation_required"
                      \/ resv[r] \in {"reserved", "reconciliation_required"}
      status == TerminalRunStatus(worker[w].status)
  IN  /\ At(w, "end")
      /\ run' = IF run[r].status # "running" \/ (status = "completed" /\ unresolved) THEN run
                ELSE [run EXCEPT ![r].status = status]
      /\ Leave(w)
      /\ UNCHANGED <<gate, expired, exec, resv, business, agent, breaker, invoked, faults>>

-----------------------------------------------------------------------------
(* What happens around the calls.                                          *)

Crash(w) ==
  /\ worker[w].pc \notin {"idle", "done"}
  /\ Fault
  /\ Leave(w)
  /\ UNCHANGED <<gate, run, expired, exec, resv, business, agent, breaker, invoked>>

RequestCancellation(r) ==
  /\ run[r].status = "running" /\ ~ run[r].cancel
  /\ Fault
  /\ run' = [run EXCEPT ![r].cancel = TRUE]
  /\ UNCHANGED <<gate, expired, exec, resv, business, agent, breaker, worker, invoked>>

DeadlinePasses(r) ==
  /\ r \notin expired
  /\ Fault
  /\ expired' = expired \cup {r}
  /\ UNCHANGED <<gate, run, exec, resv, business, agent, breaker, worker, invoked>>

InScope(r, s) == s = "global" \/ s = AgentOf[r]

\* Disabling a gate requests the cancellation of every run in its scope, in
\* the transaction that disables it.
SetExecutionGate(s) ==
  /\ Fault
  /\ gate' = [gate EXCEPT ![s] = ~ @]
  /\ run' = IF gate[s]
              THEN [r \in Requests |-> IF InScope(r, s) /\ run[r].status = "running"
                                         THEN [run[r] EXCEPT !.cancel = TRUE] ELSE run[r]]
              ELSE run
  /\ UNCHANGED <<expired, exec, resv, business, agent, breaker, worker, invoked>>

\* The cooldown of an open circuit, or the lease of a probe, runs out.
TimeRunsOut ==
  /\ breaker.state # "closed" /\ ~ breaker.due
  /\ breaker' = [breaker EXCEPT !.due = TRUE]
  /\ UNCHANGED <<gate, run, expired, exec, resv, business, agent, worker, invoked, faults>>

Call(w) == \/ \E r \in Requests : Lookup(w, r)
           \/ StartRun(w) \/ AuthorizeToolExecution(w) \/ Denied(w) \/ CheckExecution(w)
           \/ AdmitProvider(w) \/ Return(w) \/ Recheck(w)
           \/ RecordProviderOutcome(w) \/ CompleteToolExecution(w) \/ CompleteRun(w)
           \/ Crash(w)

Control == \/ \E r \in Requests : RequestCancellation(r) \/ DeadlinePasses(r)
           \/ \E s \in Scopes : SetExecutionGate(s)
           \/ TimeRunsOut

Next == (\E w \in Workers : Call(w)) \/ Control

Spec == Init /\ [][Next]_vars

-----------------------------------------------------------------------------
(* Properties.                                                             *)

Budgets == [reserved : Nat, settled : Nat]
Breakers == [state : {"closed", "open", "half_open"}, failures : 0..Threshold,
             probe : Workers \cup {None}, due : BOOLEAN, epoch : Nat]
Calls == [pc : Before \cup Owning \cup {"done"}, req : Requests \cup {None}, epoch : Nat,
          status : Outcomes \cup {"blocked"},
          ctx : {"none", "cancelled", "timed_out", "success", "failure"},
          watch : {"none", "failed", "cancelled", "timed_out"},
          unknown : BOOLEAN, charge : BOOLEAN, cost : Costs \cup {0}]

\* Types.  A run's status is one the check constraint of its table admits,
\* and a call that has looked up its request carries it.
TypeOK ==
  /\ gate \in [Scopes -> BOOLEAN]
  /\ run \in [Requests -> [status : RunStatus, cancel : BOOLEAN]]
  /\ expired \subseteq Requests
  /\ exec \in [Requests -> ToolStatus] /\ resv \in [Requests -> ResvStatus]
  /\ business \in Budgets /\ agent \in [Agents -> Budgets]
  /\ breaker \in Breakers
  /\ worker \in [Workers -> Calls]
  /\ \A w \in Workers : worker[w].pc \notin {"idle", "done"} => worker[w].req \in Requests
  /\ invoked \in [Requests -> Nat] /\ faults \in 0..MaxFaults

\* What is reserved and settled never exceeds the ceiling of the business or
\* the daily limit of an agent, whatever calls run at the same time, die, or
\* report a cost above what was reserved for them (agent_governance_repo.go,
\* reserveToolCapacityTx and finalizeSpendReservation).
SpendWithinLimits ==
  /\ business.reserved + business.settled <= BusinessLimit
  /\ \A a \in Agents : agent[a].reserved + agent[a].settled <= AgentLimit

Held(S) == {r \in S : resv[r] \in {"reserved", "reconciliation_required"}}

\* The reserved amount of every budget is that of the reservations still
\* held: nothing is leaked by a finished call and nothing given back twice.
ReservedIsHeld ==
  /\ business.reserved = Cost * Cardinality(Held(Requests))
  /\ \A a \in Agents :
       agent[a].reserved = Cost * Cardinality(Held({r \in Requests : AgentOf[r] = a}))

\* The tool of an idempotency key is dispatched at most once: a retry, a
\* concurrent duplicate or a call after a crash finds the execution and is
\* answered from it.
InvokedOnce == \A r \in Requests : invoked[r] <= 1

\* A timeout, cancellation or ambiguous end after the dispatch of a tool that
\* may have had an effect is neither a success nor a release: the execution
\* and its reservation wait for reconciliation and the run is not completed.
AmbiguityIsKept ==
  \A r \in Requests :
    /\ exec[r] = "reconciliation_required" =>
         resv[r] = "reconciliation_required" /\ run[r].status # "completed"
    /\ invoked[r] > 0 /\ r \notin ReadOnly => exec[r] \notin {"cancelled", "timed_out"}

\* No run goes on under a closed gate: while a gate is disabled, every run of
\* its scope that is still running has its cancellation requested, also when
\* it was started while the gate was being closed.
NoRunUnderClosedGate ==
  \A r \in Requests : run[r].status = "running" /\ ~ GatesOpen(r) => run[r].cancel

\* A circuit closes only on the outcome of a call admitted since it last
\* opened: the late success of an older call cannot close it.
LateSuccessCannotClose ==
  [][breaker.state # "closed" /\ breaker'.state = "closed" =>
       \E w \in Workers : /\ worker[w].pc = "outcome" /\ worker'[w].pc = "complete"
                          /\ worker[w].epoch = breaker.epoch]_vars
=============================================================================
