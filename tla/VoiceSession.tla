----------------------------- MODULE VoiceSession -----------------------------
(***************************************************************************)
(* The control plane of realtime voice sessions: the DynamoDB store        *)
(* (internal/voice/session/dynamodb_store.go), the service calls Create,   *)
(* Resume and Close (service.go), the lease heartbeat of a connected peer  *)
(* (lease_heartbeat.go) and the scheduled reconciler                       *)
(* (internal/voice/reconciler/handler.go).                                 *)
(*                                                                         *)
(* A session item carries a lease timestamp which is also the version that *)
(* every renewal and every expiry release compares.  The reconciler finds  *)
(* its work through a secondary index that lags the table.                 *)
(*                                                                         *)
(* A session identifier stands for one (user, idempotency key): the create *)
(* transaction puts the idempotency item, so a repeated create returns the *)
(* session there is and changes nothing.  capacity_released is set by      *)
(* exactly the update that leaves ACTIVE and is not a variable of its own. *)
(* runtime_session_id is rotated only for an ACTIVE session whose runtime  *)
(* is STOPPED, which no update produces, so a session has one runtime.     *)
(***************************************************************************)
EXTENDS Naturals, FiniteSets

CONSTANTS
    Sessions, Users,
    NoSession,       \* no session: not one of Sessions
    Callers,         \* API requests in flight (Close and Resume)
    GlobalLimit,     \* GlobalCapacityLimit
    UserLimit,       \* PerUserCapacityLimit
    LeaseDuration,   \* LeaseDuration, in ticks
    MaxDuration,     \* MaxDuration, in ticks
    BatchSize,       \* sessions one reconciler invocation takes on
    LastCreate,      \* bound: no session is created after this time
    SweptStatuses    \* statuses the DynamoDB TTL sweep may still find

ASSUME VoiceAssumption ==
    /\ IsFiniteSet(Sessions) /\ NoSession \notin Sessions
    /\ GlobalLimit \in Nat /\ UserLimit \in Nat
    /\ LeaseDuration \in Nat \ {0}
    /\ MaxDuration \in Nat /\ LeaseDuration <= MaxDuration
    /\ LastCreate \in Nat
    /\ BatchSize \in Nat \ {0}
    /\ SweptStatuses \subseteq {"ACTIVE", "CLOSING", "CLOSED"}

VARIABLES
    now,      \* the clock every process reads
    owner,    \* the user a session belongs to
    item,     \* the session items of the table
    view,     \* what the lease index shows of each item
    active,   \* active_count of the global capacity item
    activeOf, \* active_count of each user's capacity item
    peer,     \* the lease heartbeat of each session's runtime peer
    stopped,  \* runtimes for which a stop took effect
    call,     \* Close and Resume requests in flight
    rec       \* the reconciler invocation

vars == <<now, owner, item, view, active, activeOf, peer, stopped, call, rec>>

MaxTime == LastCreate + MaxDuration
Times   == 0 .. MaxTime

Status  == {"NONE", "ACTIVE", "CLOSING", "CLOSED", "SWEPT"}
NoKey   == MaxTime + 1      \* GSI2SK removed: the item is not in the index
Item    == [status : Status, lease : Times, expires : Times, sk : 0 .. NoKey]
NoItem  == [status |-> "NONE", lease |-> 0, expires |-> 0, sk |-> NoKey]

\* What the index projects of an item: its sort key and its lease.
Shown(i) == [sk |-> i.sk, lease |-> IF i.sk = NoKey THEN 0 ELSE i.lease]

NoPeer   == [state |-> "off", lease |-> 0, at |-> 0]
NoCall   == [pc |-> "idle", of |-> NoSession, lease |-> 0, at |-> 0]
Nobody   == [of |-> NoSession, lease |-> 0, sk |-> 0]
Idle     == [pc |-> "idle", cutoff |-> 0, batch |-> {}, cur |-> Nobody]

Init ==
    /\ now = 0
    /\ owner \in [Sessions -> Users]
    /\ item = [s \in Sessions |-> NoItem]
    /\ view = [s \in Sessions |-> Shown(NoItem)]
    /\ active = 0
    /\ activeOf = [u \in Users |-> 0]
    /\ peer = [s \in Sessions |-> NoPeer]
    /\ stopped = {}
    /\ call = [c \in Callers |-> NoCall]
    /\ rec = Idle

Earlier(a, b) == IF a <= b THEN a ELSE b

\* boundedLease: a lease never outlives the session.
BoundedLease(at, expires) == Earlier(at + LeaseDuration, expires)

-------------------------------------------------------------------------------
(* Service.Create.  One transaction: both counters below their limits, a    *)
(* fresh session item and a fresh idempotency item.                         *)

\* Slip: a new item is put without its lease index key.
Create_Unindexed(s) ==
    /\ now <= LastCreate
    /\ item[s].status = "NONE"
    /\ active < GlobalLimit /\ activeOf[owner[s]] < UserLimit
    /\ active' = active + 1
    /\ activeOf' = [activeOf EXCEPT ![owner[s]] = @ + 1]
    /\ item' = [item EXCEPT ![s] = [status |-> "ACTIVE", lease |-> now + LeaseDuration,
                                   expires |-> now + MaxDuration, sk |-> NoKey]]
    /\ UNCHANGED <<now, owner, view, peer, stopped, call, rec>>

Create(s) ==
    /\ now <= LastCreate
    /\ item[s].status = "NONE"
    /\ active < GlobalLimit
    /\ activeOf[owner[s]] < UserLimit
    /\ active' = active + 1
    /\ activeOf' = [activeOf EXCEPT ![owner[s]] = @ + 1]
    /\ LET expires == now + MaxDuration
           lease   == now + LeaseDuration
       IN  item' = [item EXCEPT ![s] =
                      [status |-> "ACTIVE", lease |-> lease, expires |-> expires, sk |-> lease]]
    /\ UNCHANGED <<now, owner, view, peer, stopped, call, rec>>

(* Service.Resume reads the session, then extends the lease it read.        *)

ResumeRead(c, s) ==
    /\ call[c].pc = "idle"
    /\ item[s].status = "ACTIVE" /\ item[s].expires > now /\ item[s].lease > now
    /\ call' = [call EXCEPT ![c] = [pc |-> "resume", of |-> s, lease |-> item[s].lease, at |-> now]]
    /\ UNCHANGED <<now, owner, item, view, active, activeOf, peer, stopped, rec>>

\* The conditional update of store.Resume and of store.RenewLease: the lease is
\* still the one that was read, and it had not run out when it was read.
LeaseMatches(s, lease, at) ==
    /\ item[s].status = "ACTIVE"
    /\ item[s].lease = lease
    /\ item[s].lease > at
    /\ item[s].expires > at

Extended(s, at) ==
    LET lease == BoundedLease(at, item[s].expires)
    IN  [item EXCEPT ![s].lease = lease, ![s].sk = lease]

ResumeWrite(c) ==
    LET k == call[c]
    IN  /\ k.pc = "resume"
        /\ item' = IF LeaseMatches(k.of, k.lease, k.at) THEN Extended(k.of, k.at) ELSE item
        /\ call' = [call EXCEPT ![c] = NoCall]
        /\ UNCHANGED <<now, owner, view, active, activeOf, peer, stopped, rec>>

(* The transaction of Release and ReleaseExpired: the item leaves ACTIVE,   *)
(* keeps its lease, moves to the front of the lease index, and both         *)
(* counters go down, or nothing happens.                                    *)

\* Slip: plain writes that trust what was read before them.
Release_Unconditional(s, at) ==
    /\ item' = [item EXCEPT ![s].status = "CLOSING", ![s].sk = at]
    /\ active' = active - 1
    /\ activeOf' = [activeOf EXCEPT ![owner[s]] = @ - 1]

\* Slip: the lease index key is removed together with the active-session key.
Release_Unindexed(s, at) ==
    /\ item[s].status = "ACTIVE"
    /\ active >= 1 /\ activeOf[owner[s]] >= 1
    /\ item' = [item EXCEPT ![s].status = "CLOSING", ![s].sk = NoKey]
    /\ active' = active - 1
    /\ activeOf' = [activeOf EXCEPT ![owner[s]] = @ - 1]

Release(s, at) ==
    /\ item[s].status = "ACTIVE"
    /\ active >= 1 /\ activeOf[owner[s]] >= 1
    /\ item' = [item EXCEPT ![s].status = "CLOSING", ![s].sk = at]
    /\ active' = active - 1
    /\ activeOf' = [activeOf EXCEPT ![owner[s]] = @ - 1]

\* StopRuntimeSession: the peer's process ends with its runtime.
Stop(s) ==
    /\ stopped' = stopped \cup {s}
    /\ peer' = [peer EXCEPT ![s] = NoPeer]

\* store.MarkClosed: only an item that is closing is closed and leaves the index.
Marked(s) ==
    IF item[s].status = "CLOSING"
    THEN [item EXCEPT ![s].status = "CLOSED", ![s].sk = NoKey]
    ELSE item

-------------------------------------------------------------------------------
(* Service.Close: read, release, stop the runtime, mark closed.             *)

\* store.Release reads the item first and decides on what it read.
CloseRead(c, s) ==
    /\ call[c].pc = "idle"
    /\ item[s].status \in {"ACTIVE", "CLOSING"}
    /\ call' = [call EXCEPT ![c] =
                  [pc |-> IF item[s].status = "ACTIVE" THEN "release" ELSE "stop",
                   of |-> s, lease |-> 0, at |-> now]]
    /\ UNCHANGED <<now, owner, item, view, active, activeOf, peer, stopped, rec>>

\* Slip: the session is marked closed without stopping its runtime.
CloseRelease_NoStop(c) ==
    /\ call[c].pc = "release"
    /\ Release(call[c].of, call[c].at)
    /\ call' = [call EXCEPT ![c].pc = "mark"]
    /\ UNCHANGED <<now, owner, view, peer, stopped, rec>>

CloseRelease(c) ==
    /\ call[c].pc = "release"
    /\ Release(call[c].of, call[c].at)
    /\ call' = [call EXCEPT ![c].pc = "stop"]
    /\ UNCHANGED <<now, owner, view, peer, stopped, rec>>

\* The transaction was refused: the item is read again.
CloseRefused(c) ==
    /\ call[c].pc = "release"
    /\ item[call[c].of].status # "ACTIVE"
    /\ call' = [call EXCEPT ![c] = IF item[@.of].status = "CLOSING" THEN [@ EXCEPT !.pc = "stop"]
                                                                   ELSE NoCall]
    /\ UNCHANGED <<now, owner, item, view, active, activeOf, peer, stopped, rec>>

CloseStop(c) ==
    /\ call[c].pc = "stop"
    /\ Stop(call[c].of)
    /\ call' = [call EXCEPT ![c].pc = "mark"]
    /\ UNCHANGED <<now, owner, item, view, active, activeOf, rec>>

CloseMark(c) ==
    /\ call[c].pc = "mark"
    /\ item' = Marked(call[c].of)
    /\ call' = [call EXCEPT ![c] = NoCall]
    /\ UNCHANGED <<now, owner, view, active, activeOf, peer, stopped, rec>>

\* A request ends early: the process dies, or the runtime answers the stop with
\* an error, whether the stop took effect or not.
CallEnds(c) ==
    /\ call[c].pc # "idle"
    /\ \/ UNCHANGED <<stopped, peer>>
       \/ call[c].pc = "stop" /\ Stop(call[c].of)
    /\ call' = [call EXCEPT ![c] = NoCall]
    /\ UNCHANGED <<now, owner, item, view, active, activeOf, rec>>

-------------------------------------------------------------------------------
(* LeaseHeartbeat of a connected peer.                                       *)

\* NewLeaseHeartbeat takes only a session that is active on a live lease.
PeerStart(s) ==
    /\ peer[s].state = "off" /\ s \notin stopped
    /\ item[s].status = "ACTIVE" /\ item[s].lease > now
    /\ peer' = [peer EXCEPT ![s] = [state |-> "ok", lease |-> item[s].lease, at |-> 0]]
    /\ UNCHANGED <<now, owner, item, view, active, activeOf, stopped, call, rec>>

\* Heartbeat: a write is queued when it would lengthen the lease.
Heartbeat(s) ==
    /\ peer[s].state = "ok" /\ peer[s].lease > now
    /\ BoundedLease(now, item[s].expires) > peer[s].lease
    /\ peer' = [peer EXCEPT ![s].state = "writing", ![s].at = now]
    /\ UNCHANGED <<now, owner, item, view, active, activeOf, stopped, call, rec>>

\* The heartbeat's worker writes with RenewLease and takes over what it wrote.
Renew(s) ==
    /\ peer[s].state = "writing"
    /\ LeaseMatches(s, peer[s].lease, peer[s].at)
    /\ item' = Extended(s, peer[s].at)
    /\ peer' = [peer EXCEPT ![s] = [state |-> "ok", lease |-> item'[s].lease, at |-> 0]]
    /\ UNCHANGED <<now, owner, view, active, activeOf, stopped, call, rec>>

\* The heartbeat fails for good: the lease ran out, the write was refused, its
\* answer was lost (written or not), or the peer went away.
PeerEnds(s) ==
    /\ peer[s].state # "off"
    /\ \/ item' = item
       \/ /\ peer[s].state = "writing"
          /\ LeaseMatches(s, peer[s].lease, peer[s].at)
          /\ item' = Extended(s, peer[s].at)
    /\ peer' = [peer EXCEPT ![s] = NoPeer]
    /\ UNCHANGED <<now, owner, view, active, activeOf, stopped, call, rec>>

-------------------------------------------------------------------------------
(* Handler.Handle of the scheduled reconciler (one invocation at a time).   *)

Candidate(s) == [of |-> s, lease |-> view[s].lease, sk |-> view[s].sk]

\* ExpiredLeases: the earliest BatchSize entries the index shows at or before the
\* cutoff, a live lease of a closing session among them.
Due == {Candidate(s) : s \in {s \in Sessions : view[s].sk <= now}}

RecList ==
    /\ rec.pc = "idle"
    /\ \E batch \in SUBSET Due :
         /\ batch # {}
         /\ Cardinality(batch) = Earlier(BatchSize, Cardinality(Due))
         /\ \A k \in batch, j \in Due \ batch : k.sk <= j.sk
         /\ rec' = [pc |-> "next", cutoff |-> now, batch |-> batch, cur |-> Nobody]
    /\ UNCHANGED <<now, owner, item, view, active, activeOf, peer, stopped, call>>

\* On to the next candidate, or the invocation is over.
NextOf(batch) == IF batch = {} THEN Idle ELSE [rec EXCEPT !.pc = "next", !.batch = batch, !.cur = Nobody]

\* Slip: the lease of the candidate is trusted, the item's is not compared.
ExactlyExpired_Stale(k) == item[k.of].status = "ACTIVE" /\ k.lease <= rec.cutoff

\* classifyExpiredRelease: what to do with candidate k on the item as read.
ExactlyExpired(k) ==
    item[k.of].status = "ACTIVE" /\ item[k.of].lease = k.lease /\ k.lease <= rec.cutoff

\* ReleaseExpired refuses a candidate whose lease is live, reads the item, and
\* leaves a closed, swept or renewed session alone.
RecRead ==
    /\ rec.pc = "next"
    /\ \E k \in rec.batch :
         /\ \A j \in rec.batch : k.sk <= j.sk
         /\ LET rest == rec.batch \ {k}
                goto(pc) == [rec EXCEPT !.pc = pc, !.batch = rest, !.cur = k]
            IN  rec' = IF k.lease > rec.cutoff THEN NextOf(rest)
                       ELSE IF item[k.of].status = "CLOSING" THEN goto("stop")
                       ELSE IF ExactlyExpired(k) THEN goto("release")
                       ELSE NextOf(rest)
    /\ UNCHANGED <<now, owner, item, view, active, activeOf, peer, stopped, call>>

RecRelease ==
    /\ rec.pc = "release"
    /\ ExactlyExpired(rec.cur)
    /\ Release(rec.cur.of, rec.cutoff)
    /\ rec' = [rec EXCEPT !.pc = "stop"]
    /\ UNCHANGED <<now, owner, view, peer, stopped, call>>

\* The release was refused: the item is read and classified again.
RecRefused ==
    /\ rec.pc = "release"
    /\ ~ExactlyExpired(rec.cur)
    /\ rec' = IF item[rec.cur.of].status = "CLOSING" THEN [rec EXCEPT !.pc = "stop"]
                                                     ELSE NextOf(rec.batch)
    /\ UNCHANGED <<now, owner, item, view, active, activeOf, peer, stopped, call>>

RecStop ==
    /\ rec.pc = "stop"
    /\ Stop(rec.cur.of)
    /\ rec' = [rec EXCEPT !.pc = "mark"]
    /\ UNCHANGED <<now, owner, item, view, active, activeOf, call>>

\* The stop is answered with an error, whether it took effect or not.
RecStopFails ==
    /\ rec.pc = "stop"
    /\ UNCHANGED <<stopped, peer>> \/ Stop(rec.cur.of)
    /\ rec' = NextOf(rec.batch)
    /\ UNCHANGED <<now, owner, item, view, active, activeOf, call>>

RecMark ==
    /\ rec.pc = "mark"
    /\ item' = Marked(rec.cur.of)
    /\ rec' = NextOf(rec.batch)
    /\ UNCHANGED <<now, owner, view, active, activeOf, peer, stopped, call>>

\* The Lambda invocation is killed.
RecEnds ==
    /\ rec.pc # "idle"
    /\ rec' = Idle
    /\ UNCHANGED <<now, owner, item, view, active, activeOf, peer, stopped, call>>

-------------------------------------------------------------------------------
(* DynamoDB and time.                                                        *)

\* The lease index catches up with the table.
Propagate(s) ==
    /\ view[s] # Shown(item[s])
    /\ view' = [view EXCEPT ![s] = Shown(item[s])]
    /\ UNCHANGED <<now, owner, item, active, activeOf, peer, stopped, call, rec>>

\* expires_at is the table's TTL attribute: an item past it is deleted, and
\* nothing else is done about the session.
Sweep(s) ==
    /\ item[s].status \in SweptStatuses
    /\ item[s].expires <= now
    /\ item' = [item EXCEPT ![s].status = "SWEPT", ![s].sk = NoKey]
    /\ UNCHANGED <<now, owner, view, active, activeOf, peer, stopped, call, rec>>

Tick ==
    /\ now < MaxTime
    /\ now' = now + 1
    /\ UNCHANGED <<owner, item, view, active, activeOf, peer, stopped, call, rec>>

Request(c) ==
    \/ \E s \in Sessions : ResumeRead(c, s) \/ CloseRead(c, s)
    \/ ResumeWrite(c) \/ CloseRelease(c) \/ CloseRefused(c)
    \/ CloseStop(c) \/ CloseMark(c) \/ CallEnds(c)

Peer(s) == PeerStart(s) \/ Heartbeat(s) \/ Renew(s) \/ PeerEnds(s)

Reconcile ==
    \/ RecList \/ RecRead \/ RecRelease \/ RecRefused
    \/ RecStop \/ RecStopFails \/ RecMark \/ RecEnds

Next ==
    \/ \E s \in Sessions : Create(s) \/ Peer(s) \/ Propagate(s) \/ Sweep(s)
    \/ \E c \in Callers : Request(c)
    \/ Reconcile
    \/ Tick

Spec == Init /\ [][Next]_vars

\* The clock runs, the index catches up, the schedule starts an invocation every
\* minute, and of the invocations that reach a step infinitely many get past it:
\* no stop of a runtime fails for ever.
Fairness ==
    /\ WF_vars(Tick)
    /\ \A s \in Sessions : WF_vars(Propagate(s))
    /\ WF_vars(RecList)
    /\ SF_vars(RecRead) /\ SF_vars(RecRelease)
    /\ \A s \in Sessions : SF_vars(rec.cur.of = s /\ RecStop)
    /\ \A s \in Sessions : SF_vars(rec.cur.of = s /\ RecMark)
    /\ WF_vars(RecRefused)

FairSpec == Spec /\ Fairness

-------------------------------------------------------------------------------
(* Properties                                                                *)

CallPcs == {"idle", "resume", "release", "stop", "mark"}
RecPcs  == {"idle", "next", "release", "stop", "mark"}
Candidates == [of : Sessions, lease : Times, sk : 0 .. NoKey]

\* Every variable keeps the shape the store and its callers rely on.
TypeOK ==
    /\ now \in Times
    /\ owner \in [Sessions -> Users]
    /\ item \in [Sessions -> Item]
    /\ view \in [Sessions -> [sk : 0 .. NoKey, lease : Times]]
    /\ active \in Nat
    /\ activeOf \in [Users -> Nat]
    /\ peer \in [Sessions -> [state : {"off", "ok", "writing"}, lease : Times, at : Times]]
    /\ stopped \subseteq Sessions
    /\ call \in [Callers -> [pc : CallPcs, of : Sessions \cup {NoSession}, lease : Times, at : Times]]
    /\ rec \in [pc : RecPcs, cutoff : Times, batch : SUBSET Candidates, cur : Candidates \cup {Nobody}]

ActiveSessions == {s \in Sessions : item[s].status = "ACTIVE"}

\* The capacity counters count the active sessions, whichever of Close, a second
\* Close and the reconciler released a session, and however often they retried.
CapacityIsExact ==
    /\ active = Cardinality(ActiveSessions)
    /\ \A u \in Users : activeOf[u] = Cardinality({s \in ActiveSessions : owner[s] = u})

\* A session is CLOSED only after its runtime was stopped: MarkClosed comes after a
\* stop that was answered with success, on every path.
ClosedIsStopped ==
    \A s \in Sessions : item[s].status = "CLOSED" => s \in stopped

\* The reconciler releases a session only when its lease has run out, and never one
\* whose connected peer still counts on its lease: a renewal that was committed
\* wins against a candidate read from the lagging index (ReleaseExpired).
LiveLeaseIsSpared ==
    [][\A s \in Sessions :
          item[s].status = "ACTIVE" /\ item'[s].status = "CLOSING" /\ call' = call =>
             /\ item[s].lease <= now
             /\ peer[s].state # "off" => peer[s].lease <= now]_vars

\* The control plane implements the admission contract: sessions hold and return
\* units of capacity one by one within both limits, and every unit comes back.
Capacity == INSTANCE VoiceCapacity WITH
    held     <- ActiveSessions,
    returned <- {s \in Sessions : item[s].status \in {"CLOSING", "CLOSED", "SWEPT"}},
    holder   <- owner

ImplementsCapacity == Capacity!Spec

\* The safety part of that contract, for instances too large for the whole of it.
KeepsToCapacity == Capacity!Init /\ [][Capacity!Next]_(Capacity!vars)

\* docs/operations/voice-agentcore-cutover.md:159-160: once admission stops and
\* the reconciler repairs leases, capacity returns to zero (creations are bounded
\* here, so admission does stop).
CapacityReturnsToZero == <>[](active = 0)

\* A session that was admitted is closed in the end, with or without its client:
\* an abandoned lease expires and the reconciler finds it, a half-done Close is
\* finished from the index.
EverySessionEnds ==
    \A s \in Sessions : item[s].status \in {"ACTIVE", "CLOSING"} ~> item[s].status \in {"CLOSED", "SWEPT"}

===============================================================================
