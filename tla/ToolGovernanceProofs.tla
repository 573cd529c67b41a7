------------------------ MODULE ToolGovernanceProofs ------------------------
(***************************************************************************)
(* What holds of governed tool execution for any number of requests,       *)
(* agents and concurrent calls, any costs, limits and thresholds.          *)
(***************************************************************************)
EXTENDS ToolGovernance, FiniteSetTheorems, TLAPS

\* First-order reasoning is left to Zenon; leaves with arithmetic name SMT.
USE Zenon

-----------------------------------------------------------------------------
(* Types, and the shape of one step of one call.                           *)

\* What a call in progress carries.
Carries(x) ==
  /\ x.pc \notin {"idle", "done"} => x.req \in Requests
  /\ x.pc = "recheck" => /\ x.status \in {"succeeded", "failed"}
                         /\ x.ctx \in {"none", "cancelled", "timed_out"}

Typed == TypeOK /\ \A w \in Workers : Carries(worker[w])

\* A step replaces the record of its call by x.
Moves(w, x) ==
  /\ x \in Calls /\ Carries(x)
  /\ worker' = [worker EXCEPT ![w] = x]

\* A step that keeps its call going, on the same request, up to pc.
Continues(w, x, pc) == Moves(w, x) /\ x.pc = pc /\ x.req = worker[w].req

\* A call in flight has the fields of a call.
LEMMA CallIsTyped ==
  ASSUME Typed, NEW w \in Workers
  PROVE  /\ worker[w] \in Calls
         /\ worker[w].pc \notin {"idle", "done"} => worker[w].req \in Requests
BY DEF Typed, TypeOK, Carries

\* Every request belongs to an agent.
LEMMA AgentOfRequest == \A r \in Requests : AgentOf[r] \in Agents
BY ConstantsFit

\* A reported cost is a natural number.
LEMMA CostsAreNat == \A c \in Costs \cup {0} : c \in Nat
<1>1. \A c \in Costs : c \in Nat
  BY ConstantsFit
<1> QED BY SMT, <1>1

\* A call that leaves is a typed call.
LEMMA LeaveMoves ==
  ASSUME Typed, NEW w \in Workers, Leave(w)
  PROVE  \E x \in Calls : Moves(w, x) /\ x.pc = "done"
<1> DEFINE x == [Resting EXCEPT !.pc = "done"]
<1>1. x \in Calls /\ x.pc = "done"
  BY DEF Resting, Calls, Before, Owning, Outcomes
<1>2. worker' = [worker EXCEPT ![w] = x]
  BY DEF Leave
<1> HIDE DEF x
<1> QED BY <1>1, <1>2 DEF Moves, Carries

\* A lookup gives the call its request.
LEMMA LookupMoves ==
  ASSUME Typed, NEW w \in Workers, NEW r \in Requests, Lookup(w, r)
  PROVE  \E x \in Calls : Moves(w, x) /\ x.pc \in {"start", "done"}
<1>1. CASE Leave(w)
  BY <1>1, LeaveMoves
<1>2. CASE worker' = [worker EXCEPT ![w].req = r, ![w].pc = "start"]
  <2> DEFINE x == [worker[w] EXCEPT !.req = r, !.pc = "start"]
  <2>1. x \in Calls /\ x.pc = "start" /\ x.req \in Requests
    BY ZenonT(60), CallIsTyped DEF Calls, Before
  <2>2. worker' = [worker EXCEPT ![w] = x]
    BY <1>2 DEF Typed, TypeOK
  <2> HIDE DEF x
  <2> QED BY <2>1, <2>2 DEF Moves, Carries
<1> QED BY <1>1, <1>2 DEF Lookup

\* Going to another step keeps the rest of a call.
LEMMA GotoMoves ==
  ASSUME Typed, NEW w \in Workers, worker[w].pc \notin {"idle", "done"},
         NEW p \in {"authorize", "check", "admit"}, Goto(w, p)
  PROVE  \E x \in Calls : Continues(w, x, p)
<1> DEFINE x == [worker[w] EXCEPT !.pc = p]
<1>1. x \in Calls /\ x.pc = p /\ x.req = worker[w].req
  BY ZenonT(60), CallIsTyped DEF Calls, Before, Owning
<1>2. worker' = [worker EXCEPT ![w] = x]
  BY DEF Goto, Typed, TypeOK
<1> HIDE DEF x
<1> QED BY <1>1, <1>2, CallIsTyped DEF Continues, Moves, Carries

\* A failed control check leaves a typed call.
LEMMA VerdictMoves ==
  ASSUME Typed, NEW w \in Workers, worker[w].pc \notin {"idle", "done"},
         NEW s \in Outcomes \cup {"blocked"}, Verdict(w, "complete", s)
  PROVE  \E x \in Calls : Continues(w, x, "complete")
<1> DEFINE x == [worker[w] EXCEPT !.pc = "complete", !.status = s]
<1>1. x \in Calls /\ x.pc = "complete" /\ x.req = worker[w].req
  BY ZenonT(60), CallIsTyped DEF Calls, Before, Owning
<1>2. worker' = [worker EXCEPT ![w] = x]
  BY DEF Verdict, Typed, TypeOK
<1> HIDE DEF x
<1> QED BY <1>1, <1>2, CallIsTyped DEF Continues, Moves, Carries

\* An admitted call carries the epoch it was admitted in.
LEMMA AdmitMoves ==
  ASSUME Typed, NEW w \in Workers, AdmitProvider(w)
  PROVE  \/ \E x \in Calls : Continues(w, x, "complete") /\ UNCHANGED <<breaker, invoked>>
         \/ \E x \in Calls : Continues(w, x, "invoking") /\ x.epoch = breaker.epoch
<1> DEFINE x == [worker[w] EXCEPT !.pc = "invoking", !.epoch = breaker.epoch]
<1>1. CASE breaker.state # "closed" /\ ~ breaker.due
  BY <1>1, VerdictMoves DEF AdmitProvider, At
<1>2. CASE ~ (breaker.state # "closed" /\ ~ breaker.due)
  <2>1. breaker.epoch \in Nat
    BY DEF Typed, TypeOK, Breakers
  <2>2. x \in Calls /\ x.pc = "invoking" /\ x.req = worker[w].req /\ x.epoch = breaker.epoch
    BY ZenonT(60), <2>1, CallIsTyped DEF Calls, Before, Owning
  <2>3. worker' = [worker EXCEPT ![w] = x]
    BY <1>2 DEF AdmitProvider, Typed, TypeOK
  <2> HIDE DEF x
  <2> QED BY <2>2, <2>3, CallIsTyped DEF Continues, Moves, Carries, AdmitProvider, At
<1> QED BY <1>1, <1>2

\* The return of the tool leaves a typed call.
LEMMA ReturnMoves ==
  ASSUME Typed, NEW w \in Workers, Return(w)
  PROVE  \E x \in Calls : Continues(w, x, "recheck") /\ x.epoch = worker[w].epoch
<1>1. PICK status \in {"succeeded", "failed"}, charge \in BOOLEAN, cost \in Costs,
           ctx \in ContextEnds(worker[w].req), watch \in Watched(worker[w].req) :
             Returns(w, status, charge, cost, ctx, watch)
  BY DEF Return
<1> DEFINE x == [worker[w] EXCEPT !.pc = "recheck", !.ctx = ctx, !.watch = watch,
                           !.status = status, !.charge = charge, !.cost = cost]
<1>2. worker' = [worker EXCEPT ![w] = x]
  BY <1>1 DEF Returns, Typed, TypeOK
<1>3. ctx \in {"none", "cancelled", "timed_out"}
  BY DEF ContextEnds
<1>4. watch \in {"none", "failed", "cancelled", "timed_out"}
  BY DEF Watched, ControlFailureStatus
<1>5. /\ x \in Calls /\ x.pc = "recheck" /\ x.req = worker[w].req /\ x.epoch = worker[w].epoch
      /\ x.status = status /\ x.ctx = ctx
  <2>1. /\ status \in Outcomes \cup {"blocked"} /\ cost \in Costs \cup {0}
        /\ "recheck" \in Before \cup Owning \cup {"done"}
        /\ ctx \in {"none", "cancelled", "timed_out", "success", "failure"}
    BY <1>3 DEF Outcomes, Owning
  <2> QED BY ZenonT(60), <1>4, <2>1, CallIsTyped DEF Calls
<1> HIDE DEF x
<1> QED BY <1>2, <1>3, <1>5, CallIsTyped DEF Continues, Moves, Carries, Return, At

\* The control check after the return leaves a typed call.
LEMMA RecheckMoves ==
  ASSUME Typed, NEW w \in Workers, Recheck(w)
  PROVE  \E x \in Calls : /\ Continues(w, x, "outcome") /\ x.epoch = worker[w].epoch
                          /\ x.req \notin ReadOnly => x.status \notin {"cancelled", "timed_out"}
<1> DEFINE r == worker[w].req
           control == IF CheckPasses(r) THEN worker[w].watch ELSE ControlFailureStatus(r)
           status == Decided(r, worker[w].status, worker[w].ctx, control)
           ctx == IF worker[w].status = "succeeded" /\ worker[w].ctx = "none" THEN "success" ELSE "failure"
           unknown == (status = "reconciliation_required")
           x == [worker[w] EXCEPT !.pc = "outcome", !.ctx = ctx, !.status = status,
                                  !.unknown = unknown, !.watch = "none"]
<1>1. worker' = [worker EXCEPT ![w] = x]
  BY ZenonT(60) DEF Recheck, Typed, TypeOK
<1>2. /\ worker[w].status \in {"succeeded", "failed"}
      /\ worker[w].ctx \in {"none", "cancelled", "timed_out"}
  BY DEF Typed, Carries, Recheck, At
<1>3. worker[w].watch \in {"none", "failed", "cancelled", "timed_out"}
  BY CallIsTyped DEF Calls
<1>4. control \in {"none", "failed", "cancelled", "timed_out"}
  BY <1>3 DEF ControlFailureStatus
<1>5. /\ status \in Outcomes
      /\ r \notin ReadOnly => status \notin {"cancelled", "timed_out"}
  BY <1>2, <1>4 DEF Decided, Outcomes
<1>6. ctx \in {"success", "failure"} /\ unknown \in BOOLEAN
  OBVIOUS
<1>7. /\ x \in Calls /\ x.pc = "outcome" /\ x.req = worker[w].req /\ x.epoch = worker[w].epoch
      /\ x.status = status
  <2>1. "outcome" \in Before \cup Owning \cup {"done"} /\ worker[w] \in Calls
    BY CallIsTyped DEF Owning
  <2> HIDE DEF status, ctx, unknown
  <2> QED BY ZenonT(60), <1>5, <1>6, <2>1 DEF Calls
<1> HIDE DEF x, status
<1> QED BY <1>1, <1>5, <1>7, CallIsTyped DEF Continues, Moves, Carries, Recheck, At

\* Recording the outcome leaves a typed call.
LEMMA OutcomeMoves ==
  ASSUME Typed, NEW w \in Workers, RecordProviderOutcome(w)
  PROVE  \E x \in Calls : /\ Continues(w, x, "complete")
                          /\ x.status \in {worker[w].status, "failed"}
<1> DEFINE status == IF Refuses(w) /\ ~ worker[w].unknown THEN "failed" ELSE worker[w].status
           x == [worker[w] EXCEPT !.pc = "complete", !.epoch = 0, !.ctx = "none", !.status = status]
<1>1. worker' = [worker EXCEPT ![w] = x]
  BY DEF RecordProviderOutcome, Typed, TypeOK
<1>2. status \in {worker[w].status, "failed"}
  OBVIOUS
<1>3. x \in Calls /\ x.pc = "complete" /\ x.req = worker[w].req /\ x.status = status
  <2>1. /\ "complete" \in Before \cup Owning \cup {"done"} /\ worker[w] \in Calls
        /\ status \in Outcomes \cup {"blocked"}
    BY <1>2, CallIsTyped DEF Calls, Owning, Outcomes
  <2> HIDE DEF status
  <2> QED BY <2>1 DEF Calls
<1> HIDE DEF x, status
<1> QED BY <1>1, <1>2, <1>3, CallIsTyped DEF Continues, Moves, Carries, RecordProviderOutcome, At

\* A call that ends leaves the execution for good.
LEMMA EndingMoves ==
  ASSUME Typed, NEW w \in Workers, worker[w].pc = "complete", Ending(w)
  PROVE  \E x \in Calls : Continues(w, x, "end")
<1> DEFINE x == [Resting EXCEPT !.pc = "end", !.req = worker[w].req, !.status = worker[w].status]
<1>1. x \in Calls /\ x.pc = "end" /\ x.req = worker[w].req
  BY CallIsTyped DEF Resting, Calls, Before, Owning, Outcomes
<1>2. worker' = [worker EXCEPT ![w] = x]
  BY DEF Ending
<1> HIDE DEF x
<1> QED BY <1>1, <1>2, CallIsTyped DEF Continues, Moves, Carries

\* Every step of a call moves it.
LEMMA CallMoves ==
  ASSUME Typed, NEW w \in Workers, Call(w)
  PROVE  \E x \in Calls : Moves(w, x)
<1>1. CASE \E r \in Requests : Lookup(w, r)
  BY <1>1, LookupMoves
<1>2. CASE StartRun(w)
  BY <1>2, GotoMoves DEF StartRun, At, Continues
<1>3. CASE AuthorizeToolExecution(w)
  BY <1>3, GotoMoves DEF AuthorizeToolExecution, At, Continues
<1>4. CASE Denied(w) \/ Crash(w) \/ CompleteRun(w)
  BY <1>4, LeaveMoves DEF Denied, Crash, CompleteRun
<1>5. CASE CheckExecution(w)
  BY <1>5, GotoMoves, VerdictMoves DEF CheckExecution, At, Continues, ControlFailureStatus, Outcomes
<1>6. CASE AdmitProvider(w)
  BY <1>6, AdmitMoves DEF Continues
<1>7. CASE Return(w)
  BY <1>7, ReturnMoves DEF Continues
<1>8. CASE Recheck(w)
  BY <1>8, RecheckMoves DEF Continues
<1>9. CASE RecordProviderOutcome(w)
  BY <1>9, OutcomeMoves DEF Continues
<1>10. CASE CompleteToolExecution(w)
  BY <1>10, LeaveMoves, EndingMoves DEF CompleteToolExecution, At, Continues
<1> QED BY <1>1, <1>2, <1>3, <1>4, <1>5, <1>6, <1>7, <1>8, <1>9, <1>10 DEF Call

\* The stored rows keep their types whatever step a call takes.
Stored ==
  /\ gate \in [Scopes -> BOOLEAN]
  /\ run \in [Requests -> [status : RunStatus, cancel : BOOLEAN]]
  /\ expired \subseteq Requests
  /\ exec \in [Requests -> ToolStatus] /\ resv \in [Requests -> ResvStatus]
  /\ business \in Budgets /\ agent \in [Agents -> Budgets]
  /\ breaker \in Breakers
  /\ invoked \in [Requests -> Nat] /\ faults \in 0..MaxFaults

\* Completing an execution keeps the budgets and statuses typed.
LEMMA CompletionTypes ==
  ASSUME Typed, NEW w \in Workers, CompleteToolExecution(w)
  PROVE  Stored'
<1> USE ConstantsFit
<1> DEFINE r == worker[w].req
           final == FinalReservation(w)
           cost == worker[w].cost
<1>1. Stored /\ r \in Requests /\ AgentOf[r] \in Agents /\ cost \in Nat
  <2>1. Stored
    BY DEF Typed, TypeOK, Stored
  <2>2. r \in Requests
    BY CallIsTyped DEF CompleteToolExecution, At
  <2>3. cost \in Costs \cup {0}
    BY CallIsTyped DEF Calls
  <2>4. AgentOf[r] \in Agents
    BY <2>2, AgentOfRequest
  <2>5. cost \in Nat
    <3> HIDE DEF cost
    <3> QED BY <2>3, CostsAreNat
  <2> QED BY <2>1, <2>2, <2>4, <2>5
<1>2. UNCHANGED <<gate, run, expired, breaker, invoked, faults>>
  BY DEF CompleteToolExecution
<1>3. CASE UNCHANGED <<exec, resv, business, agent>>
  BY <1>1, <1>2, <1>3 DEF Stored
<1>4. CASE /\ business.reserved >= Cost /\ agent[AgentOf[r]].reserved >= Cost
           /\ exec' = [exec EXCEPT ![r] = ToolOutcome(w)]
           /\ resv' = [resv EXCEPT ![r] = final]
           /\ business' = Finalized(business, final, cost)
           /\ agent' = [agent EXCEPT ![AgentOf[r]] = Finalized(@, final, cost)]
  <2>1. ASSUME NEW b \in Budgets, b.reserved >= Cost PROVE Finalized(b, final, cost) \in Budgets
    <3> HIDE DEF final, cost
    <3>1. b.reserved - Cost \in Nat /\ b.settled + cost \in Nat
      BY SMT, <1>1, <2>1 DEF Budgets
    <3> QED BY <3>1 DEF Finalized, Budgets
  <2>2. ToolOutcome(w) \in ToolStatus
    BY CallIsTyped DEF ToolOutcome, Calls, Outcomes, ToolStatus
  <2>3. final \in ResvStatus
    BY DEF FinalReservation, ResvStatus
  <2>4. exec' \in [Requests -> ToolStatus] /\ resv' \in [Requests -> ResvStatus]
    BY <1>1, <1>4, <2>2, <2>3 DEF Stored
  <2>5. business' \in Budgets
    BY <1>1, <1>4, <2>1 DEF Stored
  <2>6. agent[AgentOf[r]] \in Budgets
    BY <1>1 DEF Stored
  <2>7. agent' \in [Agents -> Budgets]
    BY <1>1, <1>4, <2>1, <2>6 DEF Stored
  <2> QED BY <1>1, <1>2, <2>4, <2>5, <2>7 DEF Stored
<1> QED BY <1>3, <1>4 DEF CompleteToolExecution

\* Every step of ExecuteTool keeps the types.
LEMMA CallTypes ==
  ASSUME Typed, NEW w \in Workers, Call(w)
  PROVE  Stored'
<1> USE ConstantsFit
<1>0. Stored /\ (worker[w].pc \notin {"idle", "done"} => worker[w].req \in Requests)
  BY CallIsTyped DEF Typed, TypeOK, Stored
<1>1. CASE (\E r \in Requests : Lookup(w, r)) \/ Denied(w) \/ CheckExecution(w) \/ Recheck(w)
  BY <1>0, <1>1 DEF Stored, Lookup, Denied, CheckExecution, Recheck
<1>2. CASE StartRun(w)
  BY SMT, <1>0, <1>2 DEF Stored, StartRun, At, RunStatus
<1>3. CASE AuthorizeToolExecution(w)
  <2>1. \A b \in Budgets : Reserved(b) \in Budgets
    BY SMT DEF Reserved, Budgets
  <2> QED BY <1>0, <1>3, <2>1 DEF Stored, AuthorizeToolExecution, At, ToolStatus, ResvStatus
<1>4. CASE Crash(w)
  BY SMT, <1>0, <1>4 DEF Stored, Crash, Fault
<1>5. CASE AdmitProvider(w)
  <2>1. [breaker EXCEPT !.state = "half_open", !.probe = w, !.due = FALSE] \in Breakers
    BY <1>0 DEF Stored, Breakers
  <2>2. breaker' \in Breakers
    BY <1>0, <1>5, <2>1 DEF Stored, AdmitProvider
  <2>3. invoked' \in [Requests -> Nat]
    BY SMT, <1>0, <1>5 DEF Stored, AdmitProvider, At
  <2> QED BY <1>0, <1>5, <2>2, <2>3 DEF Stored, AdmitProvider
<1>6. CASE Return(w)
  BY SMT, <1>0, <1>6 DEF Stored, Return, Returns, Fault
<1>7. CASE RecordProviderOutcome(w)
  <2>1. Succeeded \in Breakers /\ Opened \in Breakers
    <3>1. breaker \in Breakers /\ breaker.epoch \in Nat
      BY <1>0 DEF Stored, Breakers
    <3>2. \A e \in Nat : [breaker EXCEPT !.state = "open", !.probe = None, !.due = FALSE,
                                          !.epoch = e] \in Breakers
      BY <3>1 DEF Breakers
    <3>3. [breaker EXCEPT !.state = "closed", !.failures = 0, !.probe = None, !.due = FALSE]
            \in Breakers
      <4>1. 0 \in 0..Threshold
        BY SMT
      <4> QED BY <3>1, <4>1 DEF Breakers
    <3>4. breaker.epoch + 1 \in Nat
      BY SMT, <3>1
    <3>5. Opened \in Breakers
      BY <3>1, <3>2, <3>4 DEF Opened
    <3> QED BY <3>1, <3>3, <3>5 DEF Succeeded
  <2>2. Failed \in Breakers
    <3>1. \A n \in 0..Threshold : [Opened EXCEPT !.failures = n] \in Breakers
      BY <2>1 DEF Breakers
    <3>2. \A n \in 0..Threshold : [breaker EXCEPT !.failures = n] \in Breakers
      BY <1>0 DEF Stored, Breakers
    <3>3. breaker.failures \in 0..Threshold
      BY <1>0 DEF Stored, Breakers
    <3> QED BY SMT, <3>1, <3>2, <3>3 DEF Failed
  <2> QED BY <1>0, <1>7, <2>1, <2>2 DEF Stored, RecordProviderOutcome
<1>8. CASE CompleteToolExecution(w)
  BY <1>8, CompletionTypes
<1>9. CASE CompleteRun(w)
  <2>1. TerminalRunStatus(worker[w].status) \in RunStatus
    BY DEF TerminalRunStatus, RunStatus
  <2> QED BY ZenonT(60), <1>0, <1>9, <2>1 DEF Stored, CompleteRun, At
<1> QED BY <1>1, <1>2, <1>3, <1>4, <1>5, <1>6, <1>7, <1>8, <1>9 DEF Call

\* Operators, clocks and crashes keep the types.
LEMMA ControlTypes ==
  ASSUME Typed, Control
  PROVE  Stored' /\ UNCHANGED worker
<1> USE ConstantsFit
<1>0. Stored
  BY DEF Typed, TypeOK, Stored
<1>c. \A r \in Requests : [run[r] EXCEPT !.cancel = TRUE] \in [status : RunStatus, cancel : BOOLEAN]
  <2> SUFFICES ASSUME NEW r \in Requests
               PROVE  [run[r] EXCEPT !.cancel = TRUE] \in [status : RunStatus, cancel : BOOLEAN]
    OBVIOUS
  <2>1. run[r] \in [status : RunStatus, cancel : BOOLEAN]
    BY <1>0 DEF Stored
  <2> QED BY <2>1
<1>1. ASSUME NEW r \in Requests, RequestCancellation(r) PROVE Stored' /\ UNCHANGED worker
  <2>1. run' = [run EXCEPT ![r] = [run[r] EXCEPT !.cancel = TRUE]]
    BY <1>0, <1>1 DEF Stored, RequestCancellation
  <2>2. run' \in [Requests -> [status : RunStatus, cancel : BOOLEAN]]
    BY <1>0, <1>c, <2>1 DEF Stored
  <2> QED BY SMT, <1>0, <1>1, <2>2 DEF Stored, RequestCancellation, Fault
<1>2. CASE \E r \in Requests : DeadlinePasses(r)
  BY SMT, <1>0, <1>2 DEF Stored, DeadlinePasses, Fault
<1>3. CASE \E s \in Scopes : SetExecutionGate(s)
  BY SMT, <1>0, <1>3, <1>c DEF Stored, SetExecutionGate, Fault
<1>4. CASE TimeRunsOut
  BY <1>0, <1>4 DEF Stored, TimeRunsOut, Breakers
<1> QED BY <1>1, <1>2, <1>3, <1>4 DEF Control

\* The types hold at first.
LEMMA TypedInit == Init => Typed
<1> USE ConstantsFit
<1>1. Resting \in Calls /\ Resting.pc = "idle"
  BY DEF Resting, Calls, Before, Outcomes
<1> SUFFICES ASSUME Init PROVE Typed
  OBVIOUS
<1>2. worker \in [Workers -> Calls] /\ \A w \in Workers : worker[w].pc = "idle"
  BY <1>1 DEF Init
<1> QED BY SMT, <1>2 DEF Init, Typed, TypeOK, Carries, RunStatus, ToolStatus, ResvStatus, Budgets, Breakers

\* Every step keeps the types.
LEMMA TypedStep == Typed /\ [Next]_vars => Typed'
<1> SUFFICES ASSUME Typed, [Next]_vars PROVE Typed'
  OBVIOUS
<1>1. ASSUME NEW w \in Workers, Call(w) PROVE Typed'
  <2>1. PICK x \in Calls : Moves(w, x)
    BY <1>1, CallMoves
  <2> QED BY <1>1, <2>1, CallTypes DEF Moves, Typed, TypeOK, Stored, Carries
<1>2. CASE Control
  BY <1>2, ControlTypes DEF Typed, TypeOK, Stored, Carries
<1>3. CASE UNCHANGED vars
  BY <1>3 DEF vars, Typed, TypeOK, Carries
<1> QED BY <1>1, <1>2, <1>3 DEF Next

\* Every stored row and every call in progress keeps its type; in particular
\* a budget's reserved amount never falls below zero.
THEOREM GovernanceTypes == Spec => []TypeOK
<1>1. Spec => []Typed
  BY TypedInit, TypedStep, PTL DEF Spec
<1> QED BY <1>1, PTL DEF Typed

-----------------------------------------------------------------------------
(* The limits.                                                             *)

\* A reservation that fits keeps a budget within its limit.
LEMMA ReservationFits ==
  ASSUME NEW b \in Budgets, NEW limit \in Nat, Fits(b, limit)
  PROVE  Reserved(b).reserved + Reserved(b).settled <= limit
BY SMT, ConstantsFit DEF Budgets, Fits, Reserved

\* A settled cost is at most what was reserved for it.
LEMMA FinalFits ==
  ASSUME Typed, NEW w \in Workers, NEW b \in Budgets, NEW limit \in Nat,
         b.reserved >= Cost, b.reserved + b.settled <= limit
  PROVE  LET f == Finalized(b, FinalReservation(w), worker[w].cost)
         IN  f.reserved + f.settled <= limit
<1> DEFINE cost == worker[w].cost
           final == FinalReservation(w)
<1>1. cost \in Nat /\ Cost \in Nat
  BY CallIsTyped, CostsAreNat, ConstantsFit DEF Calls
<1>2. final # "reconciliation_required" => cost <= Cost
  BY SMT, <1>1 DEF FinalReservation, ToolOutcome
<1>3. b.reserved \in Nat /\ b.settled \in Nat
  BY DEF Budgets
<1> HIDE DEF cost, final
<1>4. CASE final = "settled"
  <2>1. Finalized(b, final, cost) = [b EXCEPT !.reserved = b.reserved - Cost,
                                              !.settled = b.settled + cost]
    BY <1>4 DEF Finalized
  <2>2. /\ Finalized(b, final, cost).reserved = b.reserved - Cost
        /\ Finalized(b, final, cost).settled = b.settled + cost
    BY <2>1 DEF Budgets
  <2> QED BY SMT, <1>1, <1>2, <1>3, <1>4, <2>2 DEF final, cost
<1>5. CASE final = "released"
  <2>1. Finalized(b, final, cost) = [b EXCEPT !.reserved = b.reserved - Cost,
                                              !.settled = b.settled]
    BY <1>5 DEF Finalized
  <2>2. /\ Finalized(b, final, cost).reserved = b.reserved - Cost
        /\ Finalized(b, final, cost).settled = b.settled
    BY <2>1 DEF Budgets
  <2> QED BY SMT, <1>1, <1>3, <2>2 DEF final, cost
<1>6. CASE final \notin {"settled", "released"}
  BY <1>6 DEF Finalized, final, cost
<1> QED BY <1>4, <1>5, <1>6

\* The steps that touch neither a budget, a run nor a gate.
Quiet(w) ==
  \/ \E r \in Requests : Lookup(w, r)
  \/ Denied(w) \/ CheckExecution(w) \/ AdmitProvider(w) \/ Return(w) \/ Recheck(w)
  \/ RecordProviderOutcome(w) \/ Crash(w)

\* The steps that touch no budget.
LEMMA QuietSteps ==
  ASSUME NEW w \in Workers, Quiet(w)
  PROVE  UNCHANGED <<gate, run, exec, resv, business, agent>>
<1>1. CASE \E r \in Requests : Lookup(w, r)
  BY <1>1 DEF Lookup
<1>2. CASE Denied(w) \/ CheckExecution(w) \/ Crash(w)
  BY <1>2 DEF Denied, CheckExecution, Crash
<1>3. CASE AdmitProvider(w)
  BY <1>3 DEF AdmitProvider
<1>4. CASE Return(w)
  BY SMT, <1>4 DEF Return, Returns
<1>5. CASE Recheck(w) \/ RecordProviderOutcome(w)
  BY <1>5 DEF Recheck, RecordProviderOutcome
<1> QED BY <1>1, <1>2, <1>3, <1>4, <1>5 DEF Quiet

\* A step of a call is quiet, an authorization or a completion.
LEMMA CallCases ==
  ASSUME NEW w \in Workers, Call(w)
  PROVE  Quiet(w) \/ StartRun(w) \/ AuthorizeToolExecution(w) \/ CompleteToolExecution(w) \/ CompleteRun(w)
BY DEF Call, Quiet

\* Control steps touch no budget.
LEMMA ControlKeepsBudgets ==
  ASSUME Control
  PROVE  UNCHANGED <<exec, resv, business, agent, worker, invoked>>
BY DEF Control, RequestCancellation, DeadlinePasses, SetExecutionGate, TimeRunsOut

\* Every step keeps both limits.
LEMMA LimitsStep ==
  ASSUME Typed, SpendWithinLimits, [Next]_vars
  PROVE  SpendWithinLimits'
<1>0. /\ business \in Budgets /\ agent \in [Agents -> Budgets]
      /\ BusinessLimit \in Nat /\ AgentLimit \in Nat
  BY ConstantsFit DEF Typed, TypeOK
<1>1. ASSUME NEW w \in Workers, AuthorizeToolExecution(w) PROVE SpendWithinLimits'
  <2> DEFINE a == AgentOf[worker[w].req]
  <2>1. /\ business' = Reserved(business) /\ agent' = [agent EXCEPT ![a] = Reserved(agent[a])]
        /\ Fits(business, BusinessLimit) /\ Fits(agent[a], AgentLimit)
    BY <1>0, <1>1 DEF AuthorizeToolExecution, Authorizable
  <2>2. a \in Agents
    BY <1>1, CallIsTyped, AgentOfRequest DEF AuthorizeToolExecution, At
  <2> HIDE DEF a
  <2>3. business'.reserved + business'.settled <= BusinessLimit
    BY <1>0, <2>1, ReservationFits
  <2>4. \A b \in Agents : agent'[b].reserved + agent'[b].settled <= AgentLimit
    BY <1>0, <2>1, <2>2, ReservationFits DEF SpendWithinLimits
  <2> QED BY <2>3, <2>4 DEF SpendWithinLimits
<1>2. ASSUME NEW w \in Workers, CompleteToolExecution(w) PROVE SpendWithinLimits'
  <2> DEFINE a == AgentOf[worker[w].req]
             final == FinalReservation(w)
             cost == worker[w].cost
  <2>1. CASE UNCHANGED <<business, agent>>
    BY <2>1 DEF SpendWithinLimits
  <2>2. CASE /\ business.reserved >= Cost /\ agent[a].reserved >= Cost
             /\ business' = Finalized(business, final, cost)
             /\ agent' = [agent EXCEPT ![a] = Finalized(agent[a], final, cost)]
    <3>1. a \in Agents
      BY <1>2, CallIsTyped, AgentOfRequest DEF CompleteToolExecution, At
    <3> HIDE DEF a
    <3>2. business'.reserved + business'.settled <= BusinessLimit
      BY <1>0, <2>2, FinalFits DEF SpendWithinLimits
    <3>3. agent'[a].reserved + agent'[a].settled <= AgentLimit
      BY <1>0, <2>2, <3>1, FinalFits DEF SpendWithinLimits
    <3>4. \A b \in Agents \ {a} : agent'[b] = agent[b]
      BY <1>0, <2>2
    <3> QED BY <3>2, <3>3, <3>4 DEF SpendWithinLimits
  <2> QED BY <1>0, <1>2, <2>1, <2>2 DEF CompleteToolExecution
<1>3. CASE UNCHANGED <<business, agent>>
  BY <1>3 DEF SpendWithinLimits
<1>4. ASSUME NEW w \in Workers, StartRun(w) \/ CompleteRun(w) PROVE UNCHANGED <<business, agent>>
  BY <1>4 DEF StartRun, CompleteRun
<1>5. CASE UNCHANGED vars
  BY <1>3, <1>5 DEF vars
<1>6. ASSUME NEW w \in Workers, Call(w) PROVE SpendWithinLimits'
  BY <1>1, <1>2, <1>3, <1>4, <1>6, CallCases, QuietSteps
<1> QED BY <1>3, <1>5, <1>6, ControlKeepsBudgets DEF Next

\* However many calls run at once, the reserved and settled spend of the
\* business and of each agent stays within its limit.
THEOREM LimitsHold == Spec => []SpendWithinLimits
<1>1. Init => SpendWithinLimits
  BY SMT, ConstantsFit DEF Init, SpendWithinLimits
<1>2. Typed /\ SpendWithinLimits /\ [Next]_vars => SpendWithinLimits'
  BY LimitsStep
<1> QED BY <1>1, <1>2, TypedInit, TypedStep, PTL DEF Spec

-----------------------------------------------------------------------------
(* The gates.                                                              *)

\* Every step keeps runs under a closed gate cancelled.
LEMMA GatesStep ==
  ASSUME Typed, NoRunUnderClosedGate, [Next]_vars
  PROVE  NoRunUnderClosedGate'
<1>0. /\ run \in [Requests -> [status : RunStatus, cancel : BOOLEAN]]
      /\ gate \in [Scopes -> BOOLEAN]
  BY DEF Typed, TypeOK
<1>1. CASE UNCHANGED <<gate, run>>
  BY <1>1 DEF NoRunUnderClosedGate, GatesOpen
<1>2. ASSUME NEW w \in Workers, StartRun(w) PROVE NoRunUnderClosedGate'
  BY <1>0, <1>2 DEF NoRunUnderClosedGate, GatesOpen, StartRun
<1>3. ASSUME NEW w \in Workers, CompleteRun(w) PROVE NoRunUnderClosedGate'
  <2>1. TerminalRunStatus(worker[w].status) # "running"
    BY DEF TerminalRunStatus
  <2> QED BY <1>0, <1>3, <2>1 DEF NoRunUnderClosedGate, GatesOpen, CompleteRun
<1>4. ASSUME NEW r \in Requests, RequestCancellation(r) PROVE NoRunUnderClosedGate'
  BY <1>0, <1>4 DEF NoRunUnderClosedGate, GatesOpen, RequestCancellation
<1>5. ASSUME NEW s \in Scopes, SetExecutionGate(s) PROVE NoRunUnderClosedGate'
  <2> SUFFICES ASSUME NEW r \in Requests, run'[r].status = "running", ~ GatesOpen(r)'
               PROVE  run'[r].cancel
    BY DEF NoRunUnderClosedGate
  <2>1. CASE gate[s]
    <3>1. run'[r] = IF InScope(r, s) /\ run[r].status = "running"
                      THEN [run[r] EXCEPT !.cancel = TRUE] ELSE run[r]
      BY <1>5, <2>1 DEF SetExecutionGate
    <3>2. CASE InScope(r, s)
      BY <1>0, <3>1, <3>2
    <3>3. CASE ~ InScope(r, s)
      <4>1. ~ GatesOpen(r)
        BY SMT, <1>0, <1>5, <3>3 DEF SetExecutionGate, InScope, GatesOpen
      <4> QED BY <3>1, <3>3, <4>1 DEF NoRunUnderClosedGate
    <3> QED BY <3>2, <3>3
  <2>2. CASE ~ gate[s]
    <3>1. run' = run
      BY <1>5, <2>2 DEF SetExecutionGate
    <3>2. ~ GatesOpen(r)
      BY <1>0, <1>5, <2>2, AgentOfRequest DEF SetExecutionGate, GatesOpen, Scopes
    <3> QED BY <3>1, <3>2 DEF NoRunUnderClosedGate
  <2> QED BY <2>1, <2>2
<1>6. ASSUME NEW w \in Workers, AuthorizeToolExecution(w) \/ CompleteToolExecution(w)
      PROVE  UNCHANGED <<gate, run>>
  BY <1>6 DEF AuthorizeToolExecution, CompleteToolExecution
<1>7. ASSUME NEW w \in Workers, Call(w) PROVE NoRunUnderClosedGate'
  BY <1>1, <1>2, <1>3, <1>6, <1>7, CallCases, QuietSteps
<1>8. CASE (\E r \in Requests : DeadlinePasses(r)) \/ TimeRunsOut
  BY <1>1, <1>8 DEF DeadlinePasses, TimeRunsOut
<1>9. CASE UNCHANGED vars
  BY <1>1, <1>9 DEF vars
<1> QED BY <1>4, <1>5, <1>7, <1>8, <1>9 DEF Next, Control

\* A gate that is disabled while runs are started, authorized or under way
\* leaves none running that has not been asked to stop.
THEOREM GatesHold == Spec => []NoRunUnderClosedGate
<1>1. Init => NoRunUnderClosedGate
  BY SMT DEF Init, NoRunUnderClosedGate
<1>2. Typed /\ NoRunUnderClosedGate /\ [Next]_vars => NoRunUnderClosedGate'
  BY GatesStep
<1> QED BY <1>1, <1>2, TypedInit, TypedStep, PTL DEF Spec

-----------------------------------------------------------------------------
(* One call owns an execution, from its authorization to its end.          *)

Owns(w) == worker[w].pc \in Owning

Owners ==
  /\ \A w \in Workers : Owns(w) => exec[worker[w].req] # "none"
  /\ \A v, w \in Workers : Owns(v) /\ Owns(w) /\ worker[v].req = worker[w].req => v = w
  /\ \A r \in Requests : invoked[r] > 0 => exec[r] # "none"
  /\ \A w \in Workers : worker[w].pc \in {"check", "admit"} => invoked[worker[w].req] = 0

\* A step of a call that comes to own nothing new and dispatches nothing
\* disturbs no owner.
LEMMA OwnersKept ==
  ASSUME Typed, Owners, NEW w \in Workers, NEW x \in Calls, Moves(w, x),
         \A r \in Requests : exec[r] # "none" => exec'[r] # "none",
         UNCHANGED invoked,
         x.pc \in Owning => Owns(w) /\ x.req = worker[w].req,
         x.pc \in {"check", "admit"} => worker[w].pc \in {"check", "admit"}
  PROVE  Owners'
<1>0. /\ worker \in [Workers -> Calls]
      /\ \A v \in Workers : Owns(v) => worker[v].req \in Requests
  BY CallIsTyped DEF Typed, TypeOK, Owns, Owning
<1>1. /\ worker'[w] = x /\ \A v \in Workers \ {w} : worker'[v] = worker[v]
      /\ \A v \in Workers : Owns(v)' => Owns(v) /\ worker'[v].req = worker[v].req
  BY <1>0 DEF Moves, Owns
<1>2. \A v \in Workers : worker'[v].pc \in {"check", "admit"} => worker[v].pc \in {"check", "admit"}
  BY <1>1
<1>3. \A v \in Workers : worker[v].pc \in {"check", "admit"} => Owns(v)
  BY DEF Owns, Owning
<1>4. \A v \in Workers : worker'[v].pc \in {"check", "admit"} => worker'[v].req = worker[v].req
  BY <1>1, <1>2 DEF Owns, Owning
<1>5. \A v \in Workers : Owns(v)' => exec'[worker'[v].req] # "none"
  BY <1>0, <1>1 DEF Owners
<1>6. \A u, v \in Workers : Owns(u)' /\ Owns(v)' /\ worker'[u].req = worker'[v].req => u = v
  BY <1>1 DEF Owners
<1>7. \A r \in Requests : invoked'[r] > 0 => exec'[r] # "none"
  BY DEF Owners
<1>8. \A v \in Workers : worker'[v].pc \in {"check", "admit"} => invoked'[worker'[v].req] = 0
  BY <1>2, <1>4 DEF Owners
<1> QED BY <1>5, <1>6, <1>7, <1>8 DEF Owners

\* An authorization makes its call the one owner of the execution.
LEMMA AuthorizeOwns ==
  ASSUME Typed, Owners, NEW w \in Workers, AuthorizeToolExecution(w)
  PROVE  Owners'
<1> DEFINE r == worker[w].req
<1>1. PICK x \in Calls : Continues(w, x, "check")
  BY GotoMoves DEF AuthorizeToolExecution, At
<1>2. /\ r \in Requests /\ exec[r] = "none" /\ exec' = [exec EXCEPT ![r] = "authorized"]
      /\ UNCHANGED invoked /\ exec \in [Requests -> ToolStatus] /\ worker \in [Workers -> Calls]
      /\ invoked \in [Requests -> Nat]
  BY CallIsTyped DEF AuthorizeToolExecution, At, Typed, TypeOK
<1>3. /\ worker'[w] = x /\ x.pc = "check" /\ x.req = r
      /\ \A v \in Workers \ {w} : worker'[v] = worker[v]
  BY <1>1, <1>2 DEF Continues, Moves
<1>4. invoked[r] = 0 /\ \A v \in Workers : Owns(v) => worker[v].req \in Requests /\ worker[v].req # r
  BY SMT, <1>2, CallIsTyped DEF Owners, Owns, Owning
<1> HIDE DEF r
<1>5. \A v \in Workers : Owns(v)' => exec'[worker'[v].req] # "none"
  BY ZenonT(60), <1>2, <1>3, <1>4 DEF Owners, Owns
<1>6. \A u, v \in Workers : Owns(u)' /\ Owns(v)' /\ worker'[u].req = worker'[v].req => u = v
  BY SMT, <1>3, <1>4 DEF Owners, Owns
<1>7. \A q \in Requests : invoked'[q] > 0 => exec'[q] # "none"
  BY <1>2 DEF Owners
<1>8. \A v \in Workers : worker'[v].pc \in {"check", "admit"} => invoked'[worker'[v].req] = 0
  BY ZenonT(60), <1>2, <1>3, <1>4 DEF Owners
<1> QED BY <1>5, <1>6, <1>7, <1>8 DEF Owners

\* Only the owner dispatches, and only once.
LEMMA DispatchOwns ==
  ASSUME Typed, Owners, InvokedOnce, NEW w \in Workers, NEW x \in Calls, AdmitProvider(w),
         Continues(w, x, "invoking")
  PROVE  Owners' /\ InvokedOnce'
<1> DEFINE r == worker[w].req
<1>0. worker[w].pc = "admit" /\ UNCHANGED exec
  BY DEF AdmitProvider, At
<1>1. /\ worker'[w] = x /\ x.pc = "invoking" /\ x.req = r
      /\ \A v \in Workers \ {w} : worker'[v] = worker[v]
  BY DEF Continues, Moves, Typed, TypeOK
<1>2. CASE Verdict(w, "complete", "blocked")
  BY ZenonT(60), <1>1, <1>2, CallIsTyped DEF Verdict, Typed, TypeOK, Calls
<1>3. CASE invoked' = [invoked EXCEPT ![r] = @ + 1]
  <2>1. /\ r \in Requests /\ invoked \in [Requests -> Nat] /\ invoked[r] = 0 /\ exec[r] # "none"
        /\ Owns(w)
    BY <1>0, CallIsTyped DEF Owners, Owns, Owning, Typed, TypeOK
  <2>2. \A v \in Workers \ {w} : Owns(v) => worker[v].req # r
    BY <2>1 DEF Owners
  <2>3. \A v \in Workers : worker'[v].pc \in {"check", "admit"} => v # w /\ Owns(v)
    BY <1>1 DEF Owns, Owning
  <2>4. \A v \in Workers : Owns(v) => worker[v].req \in Requests
    BY CallIsTyped DEF Owns, Owning
  <2> HIDE DEF r
  <2>5. invoked'[r] = 1 /\ \A q \in Requests \ {r} : invoked'[q] = invoked[q]
    BY SMT, <1>3, <2>1
  <2>6. \A v \in Workers : Owns(v)' => Owns(v) /\ worker'[v].req = worker[v].req
    BY <1>1, <2>1 DEF Owns, r
  <2>7. \A v \in Workers : Owns(v)' => exec'[worker'[v].req] # "none"
    BY <1>0, <2>6 DEF Owners
  <2>8. \A u, v \in Workers : Owns(u)' /\ Owns(v)' /\ worker'[u].req = worker'[v].req => u = v
    BY <2>6 DEF Owners
  <2>9. \A q \in Requests : invoked'[q] > 0 => exec'[q] # "none"
    BY <1>0, <2>1, <2>5 DEF Owners
  <2>10. \A v \in Workers : worker'[v].pc \in {"check", "admit"} => invoked'[worker'[v].req] = 0
    BY SMT, <1>1, <2>2, <2>3, <2>4, <2>5 DEF Owners
  <2>11. InvokedOnce'
    BY SMT, <2>1, <2>5 DEF InvokedOnce
  <2> QED BY <2>7, <2>8, <2>9, <2>10, <2>11 DEF Owners
<1> QED BY <1>2, <1>3 DEF AdmitProvider

\* Every step keeps one owner and one dispatch for each execution.
LEMMA OwnersStep ==
  ASSUME Typed, Owners, InvokedOnce, [Next]_vars
  PROVE  Owners' /\ InvokedOnce'
<1>0. exec \in [Requests -> ToolStatus]
  BY DEF Typed, TypeOK
<1>1. ASSUME NEW w \in Workers, NEW x \in Calls, Moves(w, x), UNCHANGED <<exec, invoked>>,
             x.pc \in {"start", "authorize", "done"} \/ (Owns(w) /\ x.req = worker[w].req),
             x.pc \in {"check", "admit"} => worker[w].pc \in {"check", "admit"}
      PROVE  Owners' /\ InvokedOnce'
  <2>1. x.pc \in Owning => Owns(w) /\ x.req = worker[w].req
    BY <1>1 DEF Owning
  <2>2. \A r \in Requests : exec[r] # "none" => exec'[r] # "none"
    BY <1>1
  <2>3. Owners'
    BY <1>1, <2>1, <2>2, OwnersKept
  <2> QED BY <1>1, <2>3 DEF InvokedOnce
<1>2. ASSUME NEW w \in Workers, NEW r \in Requests, Lookup(w, r) PROVE Owners' /\ InvokedOnce'
  <2>1. UNCHANGED <<exec, invoked>>
    BY <1>2 DEF Lookup
  <2> QED BY <1>1, <1>2, <2>1, LookupMoves
<1>3. ASSUME NEW w \in Workers, StartRun(w) PROVE Owners' /\ InvokedOnce'
  <2>1. UNCHANGED <<exec, invoked>> /\ worker[w].pc = "start" /\ Goto(w, "authorize")
    BY <1>3 DEF StartRun, At
  <2> QED BY <1>1, <2>1, GotoMoves DEF Continues
<1>4. ASSUME NEW w \in Workers, Denied(w) \/ Crash(w) \/ CompleteRun(w) PROVE Owners' /\ InvokedOnce'
  <2>1. UNCHANGED <<exec, invoked>> /\ Leave(w)
    BY <1>4 DEF Denied, Crash, CompleteRun
  <2> QED BY <1>1, <2>1, LeaveMoves
<1>5. ASSUME NEW w \in Workers, AuthorizeToolExecution(w) PROVE Owners' /\ InvokedOnce'
  <2>1. UNCHANGED invoked
    BY <1>5 DEF AuthorizeToolExecution
  <2> QED BY <1>5, <2>1, AuthorizeOwns DEF InvokedOnce
<1>6. ASSUME NEW w \in Workers, CheckExecution(w) PROVE Owners' /\ InvokedOnce'
  <2>1. UNCHANGED <<exec, invoked>> /\ worker[w].pc = "check" /\ Owns(w)
    BY <1>6 DEF CheckExecution, At, Owns, Owning
  <2>2. CASE Goto(w, "admit")
    BY <1>1, <2>1, <2>2, GotoMoves DEF Continues
  <2>3. CASE Verdict(w, "complete", ControlFailureStatus(worker[w].req))
    BY <1>1, <2>1, <2>3, VerdictMoves DEF Continues, ControlFailureStatus, Outcomes
  <2> QED BY <1>6, <2>2, <2>3 DEF CheckExecution
<1>7. ASSUME NEW w \in Workers, AdmitProvider(w) PROVE Owners' /\ InvokedOnce'
  <2>1. UNCHANGED exec /\ worker[w].pc = "admit" /\ Owns(w)
    BY <1>7 DEF AdmitProvider, At, Owns, Owning
  <2>2. ASSUME NEW x \in Calls, Continues(w, x, "complete"), UNCHANGED <<breaker, invoked>>
        PROVE Owners' /\ InvokedOnce'
    BY <1>1, <2>1, <2>2 DEF Continues
  <2>3. ASSUME NEW x \in Calls, Continues(w, x, "invoking") PROVE Owners' /\ InvokedOnce'
    BY <1>7, <2>3, DispatchOwns
  <2> QED BY <1>7, <2>2, <2>3, AdmitMoves
<1>8. ASSUME NEW w \in Workers, Return(w) PROVE Owners' /\ InvokedOnce'
  <2>1. UNCHANGED <<exec, invoked>> /\ Owns(w)
    BY SMT, <1>8 DEF Return, Returns, At, Owns, Owning
  <2> QED BY <1>1, <1>8, <2>1, ReturnMoves DEF Continues
<1>9. ASSUME NEW w \in Workers, Recheck(w) PROVE Owners' /\ InvokedOnce'
  <2>1. UNCHANGED <<exec, invoked>> /\ Owns(w)
    BY <1>9 DEF Recheck, At, Owns, Owning
  <2> QED BY <1>1, <1>9, <2>1, RecheckMoves DEF Continues
<1>10. ASSUME NEW w \in Workers, RecordProviderOutcome(w) PROVE Owners' /\ InvokedOnce'
  <2>1. UNCHANGED <<exec, invoked>> /\ Owns(w)
    BY <1>10 DEF RecordProviderOutcome, At, Owns, Owning
  <2> QED BY <1>1, <1>10, <2>1, OutcomeMoves DEF Continues
<1>11. ASSUME NEW w \in Workers, CompleteToolExecution(w) PROVE Owners' /\ InvokedOnce'
  <2>1. UNCHANGED invoked /\ worker[w].pc = "complete" /\ Owns(w)
    BY <1>11 DEF CompleteToolExecution, At, Owns, Owning
  <2>2. \A r \in Requests : exec[r] # "none" => exec'[r] # "none"
    <3>1. ToolOutcome(w) # "none"
      BY CallIsTyped DEF ToolOutcome, Calls, Outcomes
    <3> QED BY <1>0, <1>11, <3>1 DEF CompleteToolExecution
  <2>3. PICK x \in Calls : Moves(w, x) /\ (x.pc = "done" \/ (x.pc = "end" /\ x.req = worker[w].req))
    BY <1>11, <2>1, LeaveMoves, EndingMoves DEF CompleteToolExecution, Continues
  <2>4. Owners'
    BY <2>1, <2>2, <2>3, OwnersKept DEF Owning
  <2> QED BY <2>1, <2>4 DEF InvokedOnce
<1>12. CASE UNCHANGED <<worker, exec, invoked>>
  BY <1>12 DEF Owners, Owns, InvokedOnce
<1>13. CASE Control \/ UNCHANGED vars
  BY <1>12, <1>13, ControlKeepsBudgets DEF vars
<1>14. ASSUME NEW w \in Workers, Call(w) PROVE Owners' /\ InvokedOnce'
  BY ZenonT(60), <1>2, <1>3, <1>4, <1>5, <1>6, <1>7, <1>8, <1>9, <1>10, <1>11, <1>14 DEF Call
<1> QED BY <1>13, <1>14 DEF Next

\* No execution has an owner at first.
LEMMA OwnersInit == Init => Owners /\ InvokedOnce
BY SMT DEF Init, Owners, Owns, Owning, Resting, InvokedOnce

\* No tool is dispatched twice for one idempotency key, whatever retries,
\* duplicates and crashes there are: the authorization gives the execution to
\* one call, and only that call, once, gets past its admission.
THEOREM ToolRunsOnce == Spec => []InvokedOnce
<1>1. Typed /\ Owners /\ InvokedOnce /\ [Next]_vars => Owners' /\ InvokedOnce'
  BY OwnersStep
<1> QED BY <1>1, OwnersInit, TypedInit, TypedStep, PTL DEF Spec

-----------------------------------------------------------------------------
(* What is in doubt stays in doubt.                                        *)

\* After its dispatch, a call on a tool that may have had an effect carries
\* neither of the statuses that would say it had none.
Honest(x, n) ==
  x.pc \in {"outcome", "complete"} /\ x.req \notin ReadOnly /\ n > 0
    => x.status \notin {"cancelled", "timed_out"}

Ends ==
  /\ \A w \in Workers : Owns(w) /\ worker[w].pc # "end" => exec[worker[w].req] = "authorized"
  /\ \A w \in Workers : worker[w].pc = "end" => exec[worker[w].req] \notin {"none", "authorized"}
  /\ \A r \in Requests : run[r].status = "completed" => exec[r] \notin {"none", "authorized"}
  /\ \A w \in Workers : Honest(worker[w], invoked[worker[w].req])

Doubt == Ends /\ AmbiguityIsKept

\* A step that changes no row but the run's cancellation and moves one call.
LEMMA DoubtKept ==
  ASSUME Typed, Doubt, NEW w \in Workers, NEW x \in Calls, Moves(w, x),
         UNCHANGED <<exec, resv, invoked>>,
         \A r \in Requests : run'[r].status = "completed" => run[r].status = "completed",
         x.pc \in Owning => Owns(w) /\ worker[w].pc # "end" /\ x.pc # "end" /\ x.req = worker[w].req,
         Honest(x, invoked[x.req])
  PROVE  Doubt'
<1>1. /\ worker'[w] = x /\ \A v \in Workers \ {w} : worker'[v] = worker[v]
  BY DEF Moves, Typed, TypeOK
<1>2. \A v \in Workers : Owns(v)' /\ worker'[v].pc # "end" => exec'[worker'[v].req] = "authorized"
  BY SMT, <1>1 DEF Doubt, Ends, Owns
<1>3. \A v \in Workers : worker'[v].pc = "end" => exec'[worker'[v].req] \notin {"none", "authorized"}
  <2>1. x.pc # "end"
    BY DEF Owning
  <2> QED BY <1>1, <2>1 DEF Doubt, Ends
<1>4. \A r \in Requests : run'[r].status = "completed" => exec'[r] \notin {"none", "authorized"}
  BY DEF Doubt, Ends
<1>5. \A v \in Workers : Honest(worker'[v], invoked'[worker'[v].req])
  BY <1>1 DEF Doubt, Ends
<1>6. AmbiguityIsKept'
  BY DEF Doubt, AmbiguityIsKept
<1> QED BY <1>2, <1>3, <1>4, <1>5, <1>6 DEF Doubt, Ends

\* An authorization creates no doubt about an outcome.
LEMMA AuthorizeDoubt ==
  ASSUME Typed, Owners, Doubt, NEW w \in Workers, AuthorizeToolExecution(w)
  PROVE  Doubt'
<1> DEFINE r == worker[w].req
<1>1. PICK x \in Calls : Continues(w, x, "check")
  BY GotoMoves DEF AuthorizeToolExecution, At
<1>2. /\ r \in Requests /\ exec[r] = "none" /\ exec' = [exec EXCEPT ![r] = "authorized"]
      /\ resv' = [resv EXCEPT ![r] = "reserved"] /\ UNCHANGED <<invoked, run>>
      /\ exec \in [Requests -> ToolStatus] /\ resv \in [Requests -> ResvStatus]
  BY CallIsTyped DEF AuthorizeToolExecution, At, Typed, TypeOK
<1>3. /\ worker'[w] = x /\ x.pc = "check" /\ x.req = r
      /\ \A v \in Workers \ {w} : worker'[v] = worker[v]
  BY <1>1 DEF Continues, Moves, Typed, TypeOK
<1>4. \A v \in Workers : Owns(v) => worker[v].req \in Requests /\ worker[v].req # r
  BY <1>2, CallIsTyped DEF Owners, Owns, Owning
<1> HIDE DEF r
<1>5. exec'[r] = "authorized" /\ \A q \in Requests \ {r} : exec'[q] = exec[q] /\ resv'[q] = resv[q]
  BY <1>2
<1>6. \A v \in Workers : Owns(v)' /\ worker'[v].pc # "end" => exec'[worker'[v].req] = "authorized"
  BY SMTT(60), <1>3, <1>4, <1>5 DEF Doubt, Ends, Owns
<1>7. \A v \in Workers : worker'[v].pc = "end" => exec'[worker'[v].req] \notin {"none", "authorized"}
  BY SMT, <1>3, <1>4, <1>5 DEF Doubt, Ends, Owns, Owning
<1>8. \A q \in Requests : run'[q].status = "completed" => exec'[q] \notin {"none", "authorized"}
  BY <1>2, <1>5 DEF Doubt, Ends
<1>9. \A v \in Workers : Honest(worker'[v], invoked'[worker'[v].req])
  BY <1>2, <1>3 DEF Doubt, Ends, Honest
<1>10. AmbiguityIsKept'
  BY <1>2, <1>5 DEF Doubt, AmbiguityIsKept
<1> QED BY <1>6, <1>7, <1>8, <1>9, <1>10 DEF Doubt, Ends

\* A dispatch leaves recorded doubt as it is.
LEMMA DispatchDoubt ==
  ASSUME Typed, Owners, Doubt, NEW w \in Workers, NEW x \in Calls, AdmitProvider(w),
         Continues(w, x, "invoking")
  PROVE  Doubt'
<1> DEFINE r == worker[w].req
<1>0. worker[w].pc = "admit" /\ UNCHANGED <<exec, resv, run>> /\ Owns(w)
  BY DEF AdmitProvider, At, Owns, Owning
<1>1. /\ worker'[w] = x /\ x.pc = "invoking" /\ x.req = r
      /\ \A v \in Workers \ {w} : worker'[v] = worker[v]
  BY DEF Continues, Moves, Typed, TypeOK
<1>2. r \in Requests /\ exec[r] = "authorized" /\ \A v \in Workers \ {w} : Owns(v) => worker[v].req # r
  BY <1>0, CallIsTyped DEF Doubt, Ends, Owners, Owns, Owning
<1>3. \A q \in Requests \ {r} : invoked'[q] = invoked[q]
  BY DEF AdmitProvider, Typed, TypeOK
<1>4. \A v \in Workers : worker[v].pc \in {"outcome", "complete"} => worker[v].req \in Requests /\ Owns(v)
  BY CallIsTyped DEF Owns, Owning
<1> HIDE DEF r
<1>5. \A v \in Workers : Owns(v)' /\ worker'[v].pc # "end" => exec'[worker'[v].req] = "authorized"
  BY <1>0, <1>1, <1>2 DEF Doubt, Ends, Owns
<1>6. \A v \in Workers : worker'[v].pc = "end" => exec'[worker'[v].req] \notin {"none", "authorized"}
  BY ZenonT(60), <1>0, <1>1 DEF Doubt, Ends
<1>7. \A v \in Workers : Honest(worker'[v], invoked'[worker'[v].req])
  BY SMT, <1>1, <1>2, <1>3, <1>4 DEF Doubt, Ends, Honest
<1>8. AmbiguityIsKept'
  BY <1>0, <1>2, <1>3 DEF Doubt, AmbiguityIsKept
<1>9. \A q \in Requests : run'[q].status = "completed" => exec'[q] \notin {"none", "authorized"}
  BY <1>0 DEF Doubt, Ends
<1> QED BY <1>5, <1>6, <1>7, <1>8, <1>9 DEF Doubt, Ends

\* A completion records doubt in execution and reservation together.
LEMMA CompletionDoubt ==
  ASSUME Typed, Owners, Doubt, NEW w \in Workers, CompleteToolExecution(w)
  PROVE  Doubt'
<1> DEFINE r == worker[w].req
<1>0. /\ worker[w].pc = "complete" /\ UNCHANGED <<invoked, run>> /\ Owns(w) /\ r \in Requests
      /\ exec \in [Requests -> ToolStatus] /\ resv \in [Requests -> ResvStatus]
  BY CallIsTyped DEF CompleteToolExecution, At, Owns, Owning, Typed, TypeOK
<1>1. CASE Leave(w) /\ UNCHANGED <<exec, resv>>
  <2>1. PICK x \in Calls : Moves(w, x) /\ x.pc = "done"
    BY <1>1, LeaveMoves
  <2>2. Honest(x, invoked[x.req]) /\ x.pc \notin Owning
    BY <2>1 DEF Honest, Owning
  <2> QED BY <1>0, <1>1, <2>1, <2>2, DoubtKept
<1>2. CASE /\ exec' = [exec EXCEPT ![r] = ToolOutcome(w)]
           /\ resv' = [resv EXCEPT ![r] = FinalReservation(w)]
           /\ Ending(w) \/ Leave(w)
  <2>1. PICK x \in Calls : Moves(w, x) /\ (x.pc = "done" \/ (x.pc = "end" /\ x.req = r))
    BY <1>0, <1>2, LeaveMoves, EndingMoves DEF Continues
  <2>2. worker'[w] = x /\ \A v \in Workers \ {w} : worker'[v] = worker[v]
    BY <2>1 DEF Moves, Typed, TypeOK
  <2>3. \A v \in Workers \ {w} : Owns(v) => worker[v].req \in Requests /\ worker[v].req # r
    BY <1>0, CallIsTyped DEF Owners, Owns, Owning
  <2>4. /\ ToolOutcome(w) \notin {"none", "authorized"}
        /\ ToolOutcome(w) = "reconciliation_required" => FinalReservation(w) = "reconciliation_required"
    BY CallIsTyped DEF ToolOutcome, FinalReservation, Calls, Outcomes
  <2>5. /\ exec[r] = "authorized" /\ run[r].status # "completed"
        /\ r \notin ReadOnly /\ invoked[r] > 0 => ToolOutcome(w) \notin {"cancelled", "timed_out"}
    <3>1. exec[r] = "authorized" /\ run[r].status # "completed"
      BY <1>0 DEF Doubt, Ends
    <3>2. Honest(worker[w], invoked[r])
      BY DEF Doubt, Ends
    <3> QED BY <1>0, <3>1, <3>2 DEF Honest, ToolOutcome
  <2> HIDE DEF r
  <2>6. /\ exec'[r] = ToolOutcome(w) /\ resv'[r] = FinalReservation(w)
        /\ \A q \in Requests \ {r} : exec'[q] = exec[q] /\ resv'[q] = resv[q]
    BY <1>0, <1>2
  <2>7. \A v \in Workers : Owns(v)' /\ worker'[v].pc # "end" => exec'[worker'[v].req] = "authorized"
    BY SMT, <2>1, <2>2, <2>3, <2>6 DEF Doubt, Ends, Owns, Owning
  <2>8. \A v \in Workers : worker'[v].pc = "end" => exec'[worker'[v].req] \notin {"none", "authorized"}
    BY SMT, <2>1, <2>2, <2>3, <2>4, <2>6 DEF Doubt, Ends, Owns, Owning
  <2>9. \A q \in Requests : run'[q].status = "completed" => exec'[q] \notin {"none", "authorized"}
    BY <1>0, <2>4, <2>6 DEF Doubt, Ends
  <2>10. \A v \in Workers : Honest(worker'[v], invoked'[worker'[v].req])
    BY <1>0, <2>1, <2>2 DEF Doubt, Ends, Honest
  <2>11. AmbiguityIsKept'
    BY <1>0, <2>4, <2>5, <2>6 DEF Doubt, AmbiguityIsKept
  <2> QED BY <2>7, <2>8, <2>9, <2>10, <2>11 DEF Doubt, Ends
<1> QED BY <1>1, <1>2 DEF CompleteToolExecution

\* A run whose tool is in doubt is not completed.
LEMMA RunEndDoubt ==
  ASSUME Typed, Doubt, NEW w \in Workers, CompleteRun(w)
  PROVE  Doubt'
<1> DEFINE r == worker[w].req
<1>0. /\ worker[w].pc = "end" /\ UNCHANGED <<exec, resv, invoked>> /\ Leave(w) /\ r \in Requests
      /\ run \in [Requests -> [status : RunStatus, cancel : BOOLEAN]]
  BY CallIsTyped DEF CompleteRun, At, Typed, TypeOK
<1>1. PICK x \in Calls : Moves(w, x) /\ x.pc = "done"
  BY <1>0, LeaveMoves
<1>2. worker'[w] = x /\ \A v \in Workers \ {w} : worker'[v] = worker[v]
  BY <1>1 DEF Moves, Typed, TypeOK
<1>3. exec[r] \notin {"none", "authorized"}
  BY <1>0 DEF Doubt, Ends
<1>4. run'[r].status = "completed" => run[r].status = "completed" \/ exec[r] # "reconciliation_required"
  BY <1>0 DEF CompleteRun
<1>5. \A q \in Requests \ {r} : run'[q] = run[q]
  BY <1>0 DEF CompleteRun
<1> HIDE DEF r
<1>6. \A v \in Workers : Owns(v)' /\ worker'[v].pc # "end" => exec'[worker'[v].req] = "authorized"
  BY ZenonT(60), <1>0, <1>1, <1>2 DEF Doubt, Ends, Owns, Owning
<1>7. \A v \in Workers : worker'[v].pc = "end" => exec'[worker'[v].req] \notin {"none", "authorized"}
  BY <1>0, <1>1, <1>2 DEF Doubt, Ends
<1>8. \A q \in Requests : run'[q].status = "completed" => exec'[q] \notin {"none", "authorized"}
  BY <1>0, <1>3, <1>5 DEF Doubt, Ends
<1>9. \A v \in Workers : Honest(worker'[v], invoked'[worker'[v].req])
  BY <1>0, <1>1, <1>2 DEF Doubt, Ends, Honest
<1>10. AmbiguityIsKept'
  BY <1>0, <1>4, <1>5 DEF Doubt, AmbiguityIsKept
<1> QED BY <1>6, <1>7, <1>8, <1>9, <1>10 DEF Doubt, Ends

\* Control steps leave doubt as it is.
LEMMA ControlDoubt ==
  ASSUME Typed, Doubt, Control \/ UNCHANGED vars
  PROVE  Doubt'
<1>0. run \in [Requests -> [status : RunStatus, cancel : BOOLEAN]]
  BY DEF Typed, TypeOK
<1>1. UNCHANGED <<exec, resv, worker, invoked>>
  BY ControlKeepsBudgets DEF vars
<1>2. \A r \in Requests : run'[r].status = run[r].status
  <2>1. CASE \E r \in Requests : RequestCancellation(r)
    BY <1>0, <2>1 DEF RequestCancellation
  <2>2. CASE \E s \in Scopes : SetExecutionGate(s)
    <3> SUFFICES ASSUME NEW r \in Requests PROVE run'[r].status = run[r].status
      OBVIOUS
    <3>1. run'[r] = run[r] \/ run'[r] = [run[r] EXCEPT !.cancel = TRUE]
      BY <2>2 DEF SetExecutionGate
    <3> QED BY <1>0, <3>1
  <2>3. CASE UNCHANGED run
    BY <2>3
  <2> QED BY <2>1, <2>2, <2>3 DEF Control, DeadlinePasses, TimeRunsOut, vars
<1> QED BY <1>1, <1>2 DEF Doubt, Ends, Owns, AmbiguityIsKept

\* Every step keeps what is known of ambiguous outcomes.
LEMMA DoubtStep ==
  ASSUME Typed, Owners, Doubt, [Next]_vars
  PROVE  Doubt'
<1>1. ASSUME NEW w \in Workers, NEW x \in Calls, Moves(w, x), UNCHANGED <<exec, resv, invoked, run>>,
             x.pc \in {"start", "authorize", "done"}
             \/ (Owns(w) /\ worker[w].pc # "end" /\ x.pc # "end" /\ x.req = worker[w].req),
             Honest(x, invoked[x.req])
      PROVE  Doubt'
  <2>1. x.pc \in Owning => Owns(w) /\ worker[w].pc # "end" /\ x.pc # "end" /\ x.req = worker[w].req
    BY <1>1 DEF Owning
  <2> QED BY <1>1, <2>1, DoubtKept
<1>2. ASSUME NEW w \in Workers, NEW r \in Requests, Lookup(w, r) PROVE Doubt'
  <2>1. UNCHANGED <<exec, resv, invoked, run>>
    BY <1>2 DEF Lookup
  <2> QED BY <1>1, <1>2, <2>1, LookupMoves DEF Honest
<1>3. ASSUME NEW w \in Workers, StartRun(w) PROVE Doubt'
  <2>1. /\ UNCHANGED <<exec, resv, invoked>> /\ worker[w].pc = "start" /\ Goto(w, "authorize")
        /\ \A r \in Requests : run'[r].status = "completed" => run[r].status = "completed"
    BY <1>3 DEF StartRun, At, Typed, TypeOK
  <2>2. PICK x \in Calls : Continues(w, x, "authorize")
    BY <2>1, GotoMoves
  <2>3. Moves(w, x) /\ x.pc \notin Owning /\ Honest(x, invoked[x.req])
    BY <2>2 DEF Continues, Honest, Owning
  <2> QED BY <2>1, <2>3, DoubtKept
<1>4. ASSUME NEW w \in Workers, Denied(w) \/ Crash(w) PROVE Doubt'
  <2>1. UNCHANGED <<exec, resv, invoked, run>> /\ Leave(w)
    BY <1>4 DEF Denied, Crash
  <2> QED BY <1>1, <2>1, LeaveMoves DEF Honest
<1>5. ASSUME NEW w \in Workers, worker[w].pc \in {"check", "admit"},
             NEW x \in Calls, Continues(w, x, "complete") \/ Continues(w, x, "admit"),
             UNCHANGED <<exec, resv, invoked, run>>
      PROVE  Doubt'
  <2>1. Owns(w) /\ invoked[worker[w].req] = 0
    BY <1>5 DEF Owns, Owning, Owners
  <2> QED BY SMT, <1>1, <1>5, <2>1 DEF Continues, Honest
<1>6. ASSUME NEW w \in Workers, CheckExecution(w) PROVE Doubt'
  <2>1. UNCHANGED <<exec, resv, invoked, run>> /\ worker[w].pc = "check"
    BY <1>6 DEF CheckExecution, At
  <2>2. CASE Goto(w, "admit")
    BY <1>5, <2>1, <2>2, GotoMoves
  <2>3. CASE Verdict(w, "complete", ControlFailureStatus(worker[w].req))
    BY <1>5, <2>1, <2>3, VerdictMoves DEF ControlFailureStatus, Outcomes
  <2> QED BY <1>6, <2>2, <2>3 DEF CheckExecution
<1>7. ASSUME NEW w \in Workers, AdmitProvider(w) PROVE Doubt'
  <2>1. UNCHANGED <<exec, resv, run>> /\ worker[w].pc = "admit"
    BY <1>7 DEF AdmitProvider, At
  <2>2. ASSUME NEW x \in Calls, Continues(w, x, "complete"), UNCHANGED <<breaker, invoked>>
        PROVE Doubt'
    BY <1>5, <2>1, <2>2
  <2>3. ASSUME NEW x \in Calls, Continues(w, x, "invoking") PROVE Doubt'
    BY <1>7, <2>3, DispatchDoubt
  <2> QED BY <1>7, <2>2, <2>3, AdmitMoves
<1>8. ASSUME NEW w \in Workers, Return(w) PROVE Doubt'
  <2>1. UNCHANGED <<exec, resv, invoked, run>> /\ Owns(w) /\ worker[w].pc = "invoking"
    BY SMT, <1>8 DEF Return, Returns, At, Owns, Owning
  <2> QED BY <1>1, <1>8, <2>1, ReturnMoves DEF Continues, Honest
<1>9. ASSUME NEW w \in Workers, Recheck(w) PROVE Doubt'
  <2>1. UNCHANGED <<exec, resv, invoked, run>> /\ Owns(w) /\ worker[w].pc = "recheck"
    BY <1>9 DEF Recheck, At, Owns, Owning
  <2> QED BY <1>1, <1>9, <2>1, RecheckMoves DEF Continues, Honest
<1>10. ASSUME NEW w \in Workers, RecordProviderOutcome(w) PROVE Doubt'
  <2>1. UNCHANGED <<exec, resv, invoked, run>> /\ Owns(w) /\ worker[w].pc = "outcome"
    BY <1>10 DEF RecordProviderOutcome, At, Owns, Owning
  <2>2. PICK x \in Calls : Continues(w, x, "complete") /\ x.status \in {worker[w].status, "failed"}
    BY <1>10, OutcomeMoves
  <2>3. Honest(x, invoked[x.req])
    BY <2>1, <2>2 DEF Continues, Doubt, Ends, Honest
  <2> QED BY <1>1, <2>1, <2>2, <2>3 DEF Continues
<1>11. ASSUME NEW w \in Workers, Call(w) PROVE Doubt'
  BY <1>2, <1>3, <1>4, <1>6, <1>7, <1>8, <1>9, <1>10, <1>11, AuthorizeDoubt, CompletionDoubt,
     RunEndDoubt DEF Call
<1> QED BY <1>11, ControlDoubt DEF Next

\* An execution whose effect is unknown keeps its reservation and its run out
\* of "completed" for good, and a dispatched tool that may have had an effect
\* is never recorded as cancelled or timed out.
THEOREM DoubtRemains == Spec => []AmbiguityIsKept
<1>1. Init => Doubt
  BY SMT DEF Init, Doubt, Ends, Honest, AmbiguityIsKept, Owns, Owning, Resting
<1>2. Typed /\ Owners /\ InvokedOnce /\ [Next]_vars => Owners' /\ InvokedOnce'
  BY OwnersStep
<1>3. Typed /\ Owners /\ Doubt /\ [Next]_vars => Doubt'
  BY DoubtStep
<1>4. Doubt => AmbiguityIsKept
  BY DEF Doubt
<1> QED BY <1>1, <1>2, <1>3, <1>4, OwnersInit, TypedInit, TypedStep, PTL DEF Spec

-----------------------------------------------------------------------------
(* The circuit.                                                            *)

\* The call that holds the probe was admitted in the current opening.
Probes ==
  \A w \in Workers : /\ breaker.state = "half_open" /\ breaker.probe = w
                     /\ worker[w].pc \in {"invoking", "recheck", "outcome"}
                     => worker[w].epoch = breaker.epoch

\* A step that leaves the breaker alone keeps the probe its owner.
LEMMA ProbesKept ==
  ASSUME Typed, Probes, NEW w \in Workers, NEW x \in Calls, Moves(w, x), UNCHANGED breaker,
         x.pc \in {"invoking", "recheck", "outcome"} =>
           /\ worker[w].pc \in {"invoking", "recheck", "outcome"}
           /\ x.epoch = worker[w].epoch
  PROVE  Probes'
BY DEF Probes, Moves, Typed, TypeOK

\* How an outcome moves the breaker.
LEMMA BreakerAfterOutcome ==
  ASSUME Typed, NEW w \in Workers, RecordProviderOutcome(w)
  PROVE  \/ UNCHANGED breaker
         \/ /\ breaker'.state # "half_open"
            /\ breaker'.state = "closed" =>
                 breaker.state = "closed" \/ (breaker.state = "half_open" /\ breaker.probe = w)
<1>0. breaker \in Breakers /\ breaker.state \in {"closed", "open", "half_open"}
  BY DEF Typed, TypeOK, Breakers
<1>1. CASE Refuses(w)
  BY <1>1 DEF RecordProviderOutcome
<1>2. CASE ~ Refuses(w) /\ breaker' = Succeeded
  <2>1. breaker.state # "open" => breaker'.state = "closed"
    BY <1>0, <1>2 DEF Succeeded, Breakers
  <2> QED BY <1>0, <1>2, <2>1 DEF Refuses, Succeeded
<1>3. CASE ~ Refuses(w) /\ breaker' = Failed
  <2>1. \A n \in Nat : [Opened EXCEPT !.failures = n].state = "open"
    BY <1>0 DEF Opened, Breakers
  <2>2. \A n \in Nat : [breaker EXCEPT !.failures = n].state = breaker.state
    BY <1>0 DEF Breakers
  <2>3. breaker.failures \in Nat /\ breaker.failures + 1 \in Nat /\ Threshold \in Nat
    BY SMT, <1>0, ConstantsFit DEF Breakers
  <2>4. \/ breaker'.state = "open"
        \/ breaker'.state = breaker.state /\ breaker.state # "half_open"
    BY <1>3, <2>1, <2>2, <2>3 DEF Failed
  <2> QED BY <1>0, <2>4
<1> QED BY <1>1, <1>2, <1>3 DEF RecordProviderOutcome

\* Every step keeps the probe and the epochs of the breaker in order.
LEMMA ProbesStep ==
  ASSUME Typed, Probes, [Next]_vars
  PROVE  Probes'
<1>1. ASSUME NEW w \in Workers, NEW r \in Requests, Lookup(w, r) PROVE Probes'
  BY <1>1, LookupMoves, ProbesKept DEF Lookup
<1>2. ASSUME NEW w \in Workers, StartRun(w) PROVE Probes'
  BY <1>2, GotoMoves, ProbesKept DEF StartRun, At, Continues
<1>3. ASSUME NEW w \in Workers, AuthorizeToolExecution(w) PROVE Probes'
  BY <1>3, GotoMoves, ProbesKept DEF AuthorizeToolExecution, At, Continues
<1>4. ASSUME NEW w \in Workers, Denied(w) \/ Crash(w) \/ CompleteRun(w) PROVE Probes'
  <2>1. UNCHANGED breaker /\ Leave(w)
    BY <1>4 DEF Denied, Crash, CompleteRun
  <2> QED BY <2>1, LeaveMoves, ProbesKept
<1>5. ASSUME NEW w \in Workers, CheckExecution(w) PROVE Probes'
  <2>1. UNCHANGED breaker /\ worker[w].pc = "check"
    BY <1>5 DEF CheckExecution, At
  <2>2. CASE Goto(w, "admit")
    BY <2>1, <2>2, GotoMoves, ProbesKept DEF Continues
  <2>3. CASE Verdict(w, "complete", ControlFailureStatus(worker[w].req))
    BY <2>1, <2>3, VerdictMoves, ProbesKept DEF Continues, ControlFailureStatus, Outcomes
  <2> QED BY <1>5, <2>2, <2>3 DEF CheckExecution
<1>6. ASSUME NEW w \in Workers, AdmitProvider(w) PROVE Probes'
  <2>1. ASSUME NEW x \in Calls, Continues(w, x, "complete"), UNCHANGED <<breaker, invoked>>
        PROVE Probes'
    BY <2>1, ProbesKept DEF Continues
  <2>2. ASSUME NEW x \in Calls, Continues(w, x, "invoking"), x.epoch = breaker.epoch
        PROVE Probes'
    <3>1. worker'[w] = x /\ \A v \in Workers \ {w} : worker'[v] = worker[v]
      BY <2>2 DEF Continues, Moves, Typed, TypeOK
    <3>2. CASE breaker' = [breaker EXCEPT !.state = "half_open", !.probe = w, !.due = FALSE]
      <4>1. breaker'.probe = w /\ breaker'.epoch = breaker.epoch
        BY <3>2 DEF Typed, TypeOK, Breakers
      <4> QED BY <2>2, <3>1, <4>1 DEF Probes
    <3>3. CASE breaker' = breaker
      BY <2>2, <3>1, <3>3 DEF Probes
    <3> QED BY <1>6, <3>2, <3>3 DEF AdmitProvider
  <2> QED BY <1>6, <2>1, <2>2, AdmitMoves
<1>7. ASSUME NEW w \in Workers, Return(w) PROVE Probes'
  <2>1. UNCHANGED breaker /\ worker[w].pc = "invoking"
    BY SMT, <1>7 DEF Return, Returns, At
  <2> QED BY ZenonT(60), <1>7, <2>1, ReturnMoves, ProbesKept DEF Continues
<1>8. ASSUME NEW w \in Workers, Recheck(w) PROVE Probes'
  <2>1. UNCHANGED breaker /\ worker[w].pc = "recheck"
    BY <1>8 DEF Recheck, At
  <2> QED BY <1>8, <2>1, RecheckMoves, ProbesKept DEF Continues
<1>9. ASSUME NEW w \in Workers, RecordProviderOutcome(w) PROVE Probes'
  <2>1. CASE UNCHANGED breaker
    BY <1>9, <2>1, OutcomeMoves, ProbesKept DEF Continues
  <2>2. CASE breaker'.state # "half_open"
    BY <2>2 DEF Probes
  <2> QED BY <1>9, <2>1, <2>2, BreakerAfterOutcome
<1>10. ASSUME NEW w \in Workers, CompleteToolExecution(w) PROVE Probes'
  <2>1. UNCHANGED breaker /\ worker[w].pc = "complete" /\ (Ending(w) \/ Leave(w))
    BY <1>10 DEF CompleteToolExecution, At
  <2> QED BY <2>1, LeaveMoves, EndingMoves, ProbesKept DEF Continues
<1>11. CASE UNCHANGED <<worker, breaker>>
  BY <1>11 DEF Probes
<1>12. CASE TimeRunsOut
  <2>1. /\ breaker'.state = breaker.state /\ breaker'.probe = breaker.probe
        /\ breaker'.epoch = breaker.epoch /\ UNCHANGED worker
    BY <1>12 DEF TimeRunsOut, Typed, TypeOK, Breakers
  <2> QED BY <2>1 DEF Probes
<1>13. CASE Control \/ UNCHANGED vars
  BY <1>11, <1>12, <1>13 DEF Control, RequestCancellation, DeadlinePasses, SetExecutionGate, vars
<1>14. ASSUME NEW w \in Workers, Call(w) PROVE Probes'
  BY ZenonT(60), <1>1, <1>2, <1>3, <1>4, <1>5, <1>6, <1>7, <1>8, <1>9, <1>10, <1>14 DEF Call
<1> QED BY <1>13, <1>14 DEF Next

\* Only the outcome of the current probe closes the circuit.
LEMMA ClosedByProbe ==
  ASSUME Typed, Probes, [Next]_vars, breaker.state # "closed", breaker'.state = "closed"
  PROVE  \E w \in Workers : /\ worker[w].pc = "outcome" /\ worker'[w].pc = "complete"
                            /\ worker[w].epoch = breaker.epoch
<1>0. breaker \in Breakers
  BY DEF Typed, TypeOK
<1>1. ASSUME NEW w \in Workers, AdmitProvider(w) PROVE FALSE
  BY <1>0, <1>1 DEF AdmitProvider, Breakers
<1>2. ~ TimeRunsOut
  BY <1>0 DEF TimeRunsOut, Breakers
<1>3. ~ UNCHANGED breaker
  OBVIOUS
<1>4. ~ Control /\ ~ UNCHANGED vars
  BY <1>2, <1>3 DEF Control, RequestCancellation, DeadlinePasses, SetExecutionGate, vars
<1>5. ASSUME NEW w \in Workers, Call(w) PROVE RecordProviderOutcome(w)
  <2>1. ASSUME NEW r \in Requests, Lookup(w, r) PROVE FALSE
    BY <1>3, <2>1 DEF Lookup
  <2>2. ~ StartRun(w) /\ ~ AuthorizeToolExecution(w) /\ ~ Denied(w) /\ ~ CheckExecution(w)
    BY <1>3 DEF StartRun, AuthorizeToolExecution, Denied, CheckExecution
  <2>3. ~ Return(w) /\ ~ Recheck(w)
    <3>1. Return(w) => UNCHANGED breaker
      BY SMT DEF Return, Returns
    <3>2. Recheck(w) => UNCHANGED breaker
      BY DEF Recheck
    <3> QED BY <1>3, <3>1, <3>2
  <2>4. ~ CompleteToolExecution(w) /\ ~ CompleteRun(w) /\ ~ Crash(w)
    BY <1>3 DEF CompleteToolExecution, CompleteRun, Crash
  <2> QED BY <1>1, <1>5, <2>1, <2>2, <2>3, <2>4 DEF Call
<1>6. PICK w \in Workers : RecordProviderOutcome(w)
  BY <1>4, <1>5 DEF Next
<1>7. breaker.state = "half_open" /\ breaker.probe = w
  BY <1>6, BreakerAfterOutcome
<1>8. worker[w].pc = "outcome" /\ worker[w].epoch = breaker.epoch
  BY <1>6, <1>7 DEF RecordProviderOutcome, At, Probes
<1>9. worker'[w].pc = "complete"
  BY <1>6, OutcomeMoves DEF Continues, Moves, Typed, TypeOK
<1> QED BY <1>8, <1>9

\* A circuit that has opened is closed only by a call admitted since: a late
\* success of an older call, also one whose probe was taken over, leaves it.
THEOREM CircuitClosesFresh == Spec => LateSuccessCannotClose
<1>1. Init => Probes
  BY SMT DEF Init, Probes
<1>2. Typed /\ Probes /\ [Next]_vars => Probes'
  BY ProbesStep
<1>3. Typed /\ Probes /\ [Next]_vars =>
        [breaker.state # "closed" /\ breaker'.state = "closed" =>
           \E w \in Workers : /\ worker[w].pc = "outcome" /\ worker'[w].pc = "complete"
                              /\ worker[w].epoch = breaker.epoch]_vars
  BY ClosedByProbe
<1> QED BY <1>1, <1>2, <1>3, TypedInit, TypedStep, PTL DEF Spec, LateSuccessCannotClose

-----------------------------------------------------------------------------
(* The reservations.                                                       *)

\* A reservation exists only with its execution.
Backed == \A r \in Requests : exec[r] = "none" => resv[r] = "none"

\* Finitely many reservations are held.
LEMMA HeldFinite ==
  ASSUME NEW S \in SUBSET Requests
  PROVE  IsFiniteSet(Held(S)) /\ Cardinality(Held(S)) \in Nat
<1>1. IsFiniteSet(Requests)
  BY ConstantsFit
<1>2. Held(S) \subseteq Requests
  BY DEF Held
<1> QED BY <1>1, <1>2, FS_Subset, FS_CardinalityType

\* Reserving adds one held reservation.
LEMMA HeldGrows ==
  ASSUME NEW S \in SUBSET Requests, NEW r \in S, resv \in [Requests -> ResvStatus],
         resv[r] = "none", resv' = [resv EXCEPT ![r] = "reserved"]
  PROVE  Cardinality(Held(S)') = Cardinality(Held(S)) + 1
<1>1. Held(S)' = Held(S) \cup {r} /\ r \notin Held(S)
  BY DEF Held
<1> QED BY <1>1, HeldFinite, FS_AddElement

\* Settling or releasing takes one held reservation away.
LEMMA HeldShrinks ==
  ASSUME NEW S \in SUBSET Requests, NEW r \in S, resv \in [Requests -> ResvStatus],
         resv[r] = "reserved", NEW f \in {"settled", "released"}, resv' = [resv EXCEPT ![r] = f]
  PROVE  Cardinality(Held(S)') = Cardinality(Held(S)) - 1
<1>1. Held(S)' = Held(S) \ {r} /\ r \in Held(S)
  BY DEF Held
<1> QED BY ZenonT(60), <1>1, HeldFinite, FS_RemoveElement

\* A change between held statuses leaves the number held.
LEMMA HeldSame ==
  ASSUME NEW S \in SUBSET Requests, resv \in [Requests -> ResvStatus], NEW r \in Requests, NEW f,
         resv' = [resv EXCEPT ![r] = f],
         r \notin S \/ (resv[r] = "reserved" /\ f = "reconciliation_required")
  PROVE  Held(S)' = Held(S)
BY DEF Held

\* One more reservation is one more cost.
LEMMA CostTimes ==
  ASSUME NEW n \in Nat
  PROVE  Cost * (n + 1) = Cost * n + Cost /\ (n > 0 => Cost * (n - 1) = Cost * n - Cost)
BY SMT, ConstantsFit

\* A reservation keeps the reserved amount exact.
LEMMA ReserveExact ==
  ASSUME NEW S \in SUBSET Requests, NEW r \in S, resv \in [Requests -> ResvStatus],
         resv[r] = "none", resv' = [resv EXCEPT ![r] = "reserved"],
         NEW b \in Budgets, b.reserved = Cost * Cardinality(Held(S))
  PROVE  Reserved(b).reserved = Cost * Cardinality(Held(S)')
<1>1. Cardinality(Held(S)') = Cardinality(Held(S)) + 1 /\ Cardinality(Held(S)) \in Nat
  BY HeldGrows, HeldFinite
<1>2. Reserved(b).reserved = b.reserved + Cost
  BY DEF Reserved, Budgets
<1> QED BY <1>1, <1>2, CostTimes

\* A finalized reservation keeps the reserved amount exact.
LEMMA FinalExact ==
  ASSUME NEW S \in SUBSET Requests, NEW r \in S, resv \in [Requests -> ResvStatus],
         resv[r] = "reserved", NEW f \in {"settled", "released", "reconciliation_required"},
         resv' = [resv EXCEPT ![r] = f], NEW cost,
         NEW b \in Budgets, b.reserved = Cost * Cardinality(Held(S))
  PROVE  Finalized(b, f, cost).reserved = Cost * Cardinality(Held(S)')
<1>1. CASE f = "reconciliation_required"
  BY <1>1, HeldSame DEF Finalized
<1>2. CASE f \in {"settled", "released"}
  <2>1. r \in Held(S)
    BY DEF Held
  <2>2. Cardinality(Held(S)) > 0
    BY SMT, <2>1, HeldFinite, FS_EmptySet
  <2>3. Cardinality(Held(S)') = Cardinality(Held(S)) - 1 /\ Cardinality(Held(S)) \in Nat
    BY <1>2, HeldShrinks, HeldFinite
  <2>4. Finalized(b, f, cost).reserved = b.reserved - Cost
    BY <1>2 DEF Finalized, Budgets
  <2> QED BY <2>2, <2>3, <2>4, CostTimes
<1> QED BY <1>1, <1>2

\* The requests charged to an agent.
Charged(a) == {r \in Requests : AgentOf[r] = a}

\* The held reservations follow the reservation rows.
LEMMA HeldUnchanged ==
  ASSUME UNCHANGED resv, NEW S
  PROVE  Held(S)' = Held(S)
BY DEF Held

\* Every step keeps the reserved amounts exact.
LEMMA ReservationsStep ==
  ASSUME Typed, Backed, ReservedIsHeld, [Next]_vars
  PROVE  Backed' /\ ReservedIsHeld'
<1>0. /\ business \in Budgets /\ agent \in [Agents -> Budgets]
      /\ resv \in [Requests -> ResvStatus] /\ exec \in [Requests -> ToolStatus]
  BY DEF Typed, TypeOK
<1>1. /\ business.reserved = Cost * Cardinality(Held(Requests))
      /\ \A a \in Agents : agent[a].reserved = Cost * Cardinality(Held(Charged(a)))
  BY DEF ReservedIsHeld, Charged
<1>2. ASSUME business'.reserved = Cost * Cardinality(Held(Requests)'),
             \A a \in Agents : agent'[a].reserved = Cost * Cardinality(Held(Charged(a))')
      PROVE  ReservedIsHeld'
  BY <1>2 DEF ReservedIsHeld, Charged, Held
<1>3. ASSUME NEW w \in Workers, AuthorizeToolExecution(w) PROVE Backed' /\ ReservedIsHeld'
  <2>0. PICK r \in Requests : worker[w].req = r
    BY <1>3, CallIsTyped DEF AuthorizeToolExecution, At
  <2> DEFINE a == AgentOf[r]
  <2>1. /\ business' = Reserved(business) /\ agent' = [agent EXCEPT ![a] = Reserved(agent[a])]
        /\ exec[r] = "none" /\ exec' = [exec EXCEPT ![r] = "authorized"]
        /\ resv' = [resv EXCEPT ![r] = "reserved"]
    BY <1>0, <1>3, <2>0 DEF AuthorizeToolExecution
  <2>2. r \in Requests /\ a \in Agents /\ r \in Charged(a)
    BY AgentOfRequest DEF Charged
  <2>3. resv[r] = "none" /\ \A b \in Agents \ {a} : r \notin Charged(b)
    BY <2>1, <2>2 DEF Backed, Charged
  <2>4. \A b \in Agents : Charged(b) \in SUBSET Requests
    BY DEF Charged
  <2> HIDE DEF a
  <2>5. Backed'
    BY <1>0, <2>1, <2>2 DEF Backed
  <2>6. business'.reserved = Cost * Cardinality(Held(Requests)')
    BY <1>0, <1>1, <2>1, <2>2, <2>3, ReserveExact
  <2>7. agent'[a].reserved = Cost * Cardinality(Held(Charged(a))')
    <3>1. agent'[a] = Reserved(agent[a]) /\ agent[a] \in Budgets
      BY <1>0, <2>1, <2>2
    <3> QED BY ZenonT(60), <1>0, <1>1, <2>1, <2>2, <2>3, <2>4, <3>1, ReserveExact
  <2>8. ASSUME NEW b \in Agents \ {a} PROVE agent'[b].reserved = Cost * Cardinality(Held(Charged(b))')
    <3>1. agent'[b] = agent[b]
      BY <1>0, <2>1, <2>8
    <3>2. Held(Charged(b))' = Held(Charged(b))
      BY ZenonT(60), <1>0, <2>1, <2>2, <2>3, <2>4, <2>8, HeldSame DEF Charged, Held
    <3> QED BY <1>1, <3>1, <3>2
  <2>9. \A b \in Agents : agent'[b].reserved = Cost * Cardinality(Held(Charged(b))')
    BY <2>7, <2>8
  <2> QED BY <1>2, <2>5, <2>6, <2>9
<1>4. ASSUME UNCHANGED <<exec, resv, business, agent>> PROVE Backed' /\ ReservedIsHeld'
  BY <1>4 DEF Backed, ReservedIsHeld, Held
<1>5. ASSUME NEW w \in Workers, CompleteToolExecution(w) PROVE Backed' /\ ReservedIsHeld'
  <2>0. PICK r \in Requests : worker[w].req = r
    BY <1>5, CallIsTyped DEF CompleteToolExecution, At
  <2> DEFINE a == AgentOf[r]
             f == FinalReservation(w)
             cost == worker[w].cost
  <2>1. CASE UNCHANGED <<exec, resv, business, agent>>
    BY <1>4, <2>1
  <2>2. CASE /\ exec[r] = "authorized" /\ resv[r] = "reserved"
             /\ exec' = [exec EXCEPT ![r] = ToolOutcome(w)]
             /\ resv' = [resv EXCEPT ![r] = f]
             /\ business' = Finalized(business, f, cost)
             /\ agent' = [agent EXCEPT ![a] = Finalized(agent[a], f, cost)]
    <3>1. r \in Requests /\ a \in Agents /\ r \in Charged(a)
      BY AgentOfRequest DEF Charged
    <3>2. \A b \in Agents : Charged(b) \in SUBSET Requests /\ (b # a => r \notin Charged(b))
      BY DEF Charged
    <3>3. f \in {"settled", "released", "reconciliation_required"}
      BY DEF FinalReservation
    <3>4. ToolOutcome(w) # "none"
      BY CallIsTyped DEF ToolOutcome, Calls, Outcomes
    <3> HIDE DEF a, f, cost
    <3>5. Backed'
      BY <1>0, <2>2, <3>1, <3>4 DEF Backed
    <3>6. business'.reserved = Cost * Cardinality(Held(Requests)')
      BY ZenonT(60), <1>0, <1>1, <2>2, <3>1, <3>3, FinalExact
    <3>7. agent'[a].reserved = Cost * Cardinality(Held(Charged(a))')
      <4>1. agent'[a] = Finalized(agent[a], f, cost) /\ agent[a] \in Budgets
        BY <1>0, <2>2, <3>1
      <4>2. agent[a].reserved = Cost * Cardinality(Held(Charged(a))) /\ Charged(a) \in SUBSET Requests
        BY <1>1, <3>1, <3>2
      <4>3. resv[r] = "reserved" /\ resv' = [resv EXCEPT ![r] = f] /\ resv \in [Requests -> ResvStatus]
        BY <1>0, <2>2
      <4>4. Finalized(agent[a], f, cost).reserved = Cost * Cardinality(Held(Charged(a))')
        BY ZenonT(60), <3>1, <3>3, <4>1, <4>2, <4>3, FinalExact
      <4> QED BY <4>1, <4>4
    <3>8. ASSUME NEW b \in Agents \ {a}
          PROVE  agent'[b].reserved = Cost * Cardinality(Held(Charged(b))')
      <4>1. agent'[b] = agent[b]
        BY <1>0, <2>2, <3>8
      <4>2. Held(Charged(b))' = Held(Charged(b))
        BY ZenonT(60), <1>0, <2>2, <3>1, <3>2, <3>8, HeldSame DEF Charged, Held
      <4> QED BY <1>1, <4>1, <4>2
    <3>9. \A b \in Agents : agent'[b].reserved = Cost * Cardinality(Held(Charged(b))')
      BY <3>7, <3>8
    <3> QED BY <1>2, <3>5, <3>6, <3>9
  <2> QED BY <1>0, <1>5, <2>0, <2>1, <2>2 DEF CompleteToolExecution
<1>6. ASSUME NEW w \in Workers, StartRun(w) \/ CompleteRun(w)
      PROVE  UNCHANGED <<exec, resv, business, agent>>
  BY <1>6 DEF StartRun, CompleteRun
<1>7. ASSUME NEW w \in Workers, Call(w) PROVE Backed' /\ ReservedIsHeld'
  BY <1>3, <1>4, <1>5, <1>6, <1>7, CallCases, QuietSteps
<1>8. CASE Control \/ UNCHANGED vars
  BY <1>4, <1>8, ControlKeepsBudgets DEF vars
<1> QED BY <1>7, <1>8 DEF Next

\* No step leaks a reservation and none gives one back twice: what a budget
\* has reserved is the cost of the reservations that are still held.
THEOREM ReservationsAreExact == Spec => []ReservedIsHeld
<1>1. Init => Backed /\ ReservedIsHeld
  <2> SUFFICES ASSUME Init PROVE Backed /\ ReservedIsHeld
    OBVIOUS
  <2>1. \A S \in SUBSET Requests : Held(S) = {}
    BY DEF Init, Held
  <2>2. \A S \in SUBSET Requests : Cost * Cardinality(Held(S)) = 0
    BY SMT, <2>1, FS_EmptySet, ConstantsFit
  <2> QED BY <2>2 DEF Init, Backed, ReservedIsHeld
<1>2. Typed /\ Backed /\ ReservedIsHeld /\ [Next]_vars => Backed' /\ ReservedIsHeld'
  BY ReservationsStep
<1> QED BY <1>1, <1>2, TypedInit, TypedStep, PTL DEF Spec
=============================================================================
