------------------------- MODULE VoiceSessionProofs -------------------------
(***************************************************************************)
(* What holds of the voice control plane for any number of sessions, users *)
(* and requests in flight, any limits, durations and batch size.           *)
(***************************************************************************)
EXTENDS VoiceSession, FiniteSetTheorems, TLAPS

\* First-order reasoning is left to Zenon; leaves with arithmetic name SMT.
USE Zenon

-----------------------------------------------------------------------------
(* Types.                                                                  *)

Items == [Sessions -> Item]
PeerRec == [state : {"off", "ok", "writing"}, lease : Times, at : Times]
CallRec == [pc : CallPcs, of : Sessions \cup {NoSession}, lease : Times, at : Times]
RecRec == [pc : RecPcs, cutoff : Times, batch : SUBSET Candidates, cur : Candidates \cup {Nobody}]

\* A request in flight and a candidate under way name a session.
Named ==
  /\ \A c \in Callers : call[c].pc # "idle" => call[c].of \in Sessions
  /\ rec.pc \in {"release", "stop", "mark"} => rec.cur \in Candidates

Typed == TypeOK /\ Named

\* The arithmetic of the clock and of the durations.
LEMMA TimesFacts ==
  /\ MaxTime \in Nat /\ NoKey \in Nat /\ 0 \in Times /\ 0 \in 0 .. NoKey
  /\ \A t \in Times : t \in Nat /\ t \in 0 .. NoKey
  /\ NoKey \in 0 .. NoKey /\ NoKey \notin Times
BY SMT, VoiceAssumption DEF MaxTime, NoKey, Times

\* A lease ends within the session and within one duration of its time.
LEMMA LeaseFacts ==
  ASSUME NEW at \in Times, NEW expires \in Times
  PROVE  /\ BoundedLease(at, expires) \in Times
         /\ BoundedLease(at, expires) <= expires /\ BoundedLease(at, expires) <= at + LeaseDuration
         /\ BoundedLease(at, expires) \in {expires, at + LeaseDuration}
<1>1. at \in Nat /\ expires \in Nat /\ LeaseDuration \in Nat /\ expires <= MaxTime /\ MaxTime \in Nat
  BY SMT, VoiceAssumption, TimesFacts DEF Times
<1> QED BY SMT, <1>1 DEF BoundedLease, Earlier, Times

\* The empty records have their types.
LEMMA NothingTyped ==
  /\ NoItem \in Item /\ Shown(NoItem) \in [sk : 0 .. NoKey, lease : Times]
  /\ NoPeer \in PeerRec /\ NoCall \in CallRec /\ Idle \in RecRec
<1> USE TimesFacts
<1>1. NoItem \in Item /\ NoPeer \in PeerRec
  BY DEF NoItem, Item, Status, NoPeer, PeerRec
<1>2. Shown(NoItem) \in [sk : 0 .. NoKey, lease : Times]
  BY DEF Shown, NoItem
<1>3. NoCall \in CallRec
  BY DEF NoCall, CallRec, CallPcs
<1>4. Idle \in RecRec
  BY DEF Idle, RecRec, RecPcs
<1> QED BY <1>1, <1>2, <1>3, <1>4

\* What a renewal writes.
LEMMA ExtendedFacts ==
  ASSUME item \in Items, NEW s \in Sessions, NEW at \in Times
  PROVE  /\ Extended(s, at) \in Items
         /\ \A q \in Sessions \ {s} : Extended(s, at)[q] = item[q]
         /\ Extended(s, at)[s].status = item[s].status
         /\ Extended(s, at)[s].expires = item[s].expires
         /\ Extended(s, at)[s].lease = BoundedLease(at, item[s].expires)
<1> DEFINE lease == BoundedLease(at, item[s].expires)
           new == [item[s] EXCEPT !.lease = lease, !.sk = lease]
<1>1. item[s] \in Item /\ item[s].expires \in Times
  BY DEF Items, Item
<1>2. lease \in Times /\ lease \in 0 .. NoKey
  BY <1>1, LeaseFacts, TimesFacts
<1>3. Extended(s, at) = [item EXCEPT ![s] = new]
  BY DEF Extended, Items
<1> HIDE DEF lease
<1>4. /\ new \in Item /\ new.status = item[s].status /\ new.expires = item[s].expires
      /\ new.lease = lease
  BY <1>1, <1>2 DEF Item
<1> HIDE DEF new
<1> QED BY <1>3, <1>4 DEF Items, lease

\* What a release writes.
LEMMA ReleaseFacts ==
  ASSUME item \in Items, NEW s \in Sessions, NEW at \in Times, Release(s, at)
  PROVE  /\ item' \in Items
         /\ \A q \in Sessions \ {s} : item'[q] = item[q]
         /\ item[s].status = "ACTIVE" /\ item'[s].status = "CLOSING"
         /\ item'[s].lease = item[s].lease
<1> DEFINE new == [item[s] EXCEPT !.status = "CLOSING", !.sk = at]
<1>1. item' = [item EXCEPT ![s] = new] /\ item[s].status = "ACTIVE"
  BY DEF Release, Items
<1>2. item[s] \in Item /\ at \in 0 .. NoKey
  BY TimesFacts DEF Items
<1>3. new \in Item /\ new.status = "CLOSING" /\ new.lease = item[s].lease
  BY <1>2 DEF Item, Status
<1> HIDE DEF new
<1> QED BY <1>1, <1>3 DEF Items

\* What marking a session closed writes.
LEMMA MarkedFacts ==
  ASSUME item \in Items, NEW s \in Sessions
  PROVE  /\ Marked(s) \in Items
         /\ \A q \in Sessions \ {s} : Marked(s)[q] = item[q]
         /\ Marked(s) = item \/ (item[s].status = "CLOSING" /\ Marked(s)[s].status = "CLOSED")
<1> DEFINE new == [item[s] EXCEPT !.status = "CLOSED", !.sk = NoKey]
<1>1. Marked(s) = item \/ (item[s].status = "CLOSING" /\ Marked(s) = [item EXCEPT ![s] = new])
  BY DEF Marked, Items
<1>2. item[s] \in Item /\ NoKey \in 0 .. NoKey
  BY TimesFacts DEF Items
<1>3. new \in Item /\ new.status = "CLOSED"
  BY <1>2 DEF Item, Status
<1> HIDE DEF new
<1> QED BY <1>1, <1>3 DEF Items

-----------------------------------------------------------------------------
(* What a step may change.                                                 *)

\* Calls, in the terms the step lemmas use.
LEMMA TypedFacts ==
  ASSUME Typed
  PROVE  /\ now \in Times /\ owner \in [Sessions -> Users] /\ item \in Items
         /\ view \in [Sessions -> [sk : 0 .. NoKey, lease : Times]]
         /\ active \in Nat /\ activeOf \in [Users -> Nat]
         /\ peer \in [Sessions -> PeerRec] /\ stopped \subseteq Sessions
         /\ call \in [Callers -> CallRec] /\ rec \in RecRec
         /\ \A c \in Callers : call[c] \in CallRec /\ call[c].lease \in Times /\ call[c].at \in Times
         /\ \A s \in Sessions : /\ item[s] \in Item /\ item[s].lease \in Times
                               /\ item[s].expires \in Times /\ item[s].sk \in 0 .. NoKey
         /\ \A s \in Sessions : peer[s] \in PeerRec /\ peer[s].lease \in Times /\ peer[s].at \in Times
         /\ rec.cutoff \in Times
<1>1. /\ now \in Times /\ owner \in [Sessions -> Users] /\ item \in Items
      /\ view \in [Sessions -> [sk : 0 .. NoKey, lease : Times]]
      /\ active \in Nat /\ activeOf \in [Users -> Nat]
      /\ peer \in [Sessions -> PeerRec] /\ stopped \subseteq Sessions
      /\ call \in [Callers -> CallRec] /\ rec \in RecRec
  BY DEF Typed, TypeOK, Items, PeerRec, CallRec, RecRec
<1>2. \A c \in Callers : call[c] \in CallRec /\ call[c].lease \in Times /\ call[c].at \in Times
  BY <1>1 DEF CallRec
<1>3. \A s \in Sessions : /\ item[s] \in Item /\ item[s].lease \in Times
                          /\ item[s].expires \in Times /\ item[s].sk \in 0 .. NoKey
  BY <1>1 DEF Items, Item
<1>4. \A s \in Sessions : peer[s] \in PeerRec /\ peer[s].lease \in Times /\ peer[s].at \in Times
  BY <1>1 DEF PeerRec
<1>5. rec.cutoff \in Times
  BY <1>1 DEF RecRec
<1> QED BY <1>1, <1>2, <1>3, <1>4, <1>5

\* The steps that release a session: a request's, and the reconciler's.
Releases(s, at) ==
  /\ Release(s, at)
  /\ \/ \E c \in Callers : CloseRelease(c) /\ call[c].of = s /\ call[c].at = at
     \/ RecRelease /\ rec.cur.of = s /\ rec.cutoff = at

\* The steps that renew a lease: a resumed client's, and the heartbeat's.
Renews(s, at) ==
  /\ item[s].status = "ACTIVE" /\ item' = Extended(s, at)
  /\ \/ \E c \in Callers : /\ ResumeWrite(c) /\ call[c].of = s /\ call[c].at = at
                            /\ LeaseMatches(s, call[c].lease, at)
     \/ (Renew(s) \/ PeerEnds(s)) /\ peer[s].at = at /\ peer[s].state = "writing"
        /\ LeaseMatches(s, peer[s].lease, at)

\* The steps that mark a session closed.
Marks(s) ==
  /\ item' = Marked(s)
  /\ \/ \E c \in Callers : CloseMark(c) /\ call[c].of = s
     \/ RecMark /\ rec.cur.of = s

\* What a step may do to the session items.
LEMMA ItemSteps ==
  ASSUME Typed, Next
  PROVE  \/ UNCHANGED item
         \/ \E s \in Sessions : Create(s) \/ Sweep(s) \/ Marks(s)
         \/ \E s \in Sessions, at \in Times : Releases(s, at) \/ Renews(s, at)
<1> USE TypedFacts
<1>1. ASSUME NEW c \in Callers, Request(c)
      PROVE  \/ UNCHANGED item
             \/ \E s \in Sessions : Marks(s)
             \/ \E s \in Sessions, at \in Times : Releases(s, at) \/ Renews(s, at)
  <2>0. call[c].pc # "idle" => call[c].of \in Sessions
    BY DEF Typed, Named
  <2>1. CASE \E s \in Sessions : ResumeRead(c, s) \/ CloseRead(c, s)
    BY <2>1 DEF ResumeRead, CloseRead
  <2>2. CASE ResumeWrite(c)
    <3>1. CASE LeaseMatches(call[c].of, call[c].lease, call[c].at)
      <4>1. Renews(call[c].of, call[c].at)
        BY <2>2, <3>1 DEF ResumeWrite, LeaseMatches, Renews
      <4> QED BY <2>0, <2>2, <4>1 DEF ResumeWrite
    <3>2. CASE ~ LeaseMatches(call[c].of, call[c].lease, call[c].at)
      BY <2>2, <3>2 DEF ResumeWrite
    <3> QED BY <3>1, <3>2
  <2>3. CASE CloseRelease(c)
    <3>1. Releases(call[c].of, call[c].at)
      BY <2>3 DEF CloseRelease, Releases
    <3> QED BY <2>0, <2>3, <3>1 DEF CloseRelease
  <2>4. CASE CloseMark(c)
    <3>1. Marks(call[c].of)
      BY <2>4 DEF CloseMark, Marks
    <3> QED BY <2>0, <2>4, <3>1 DEF CloseMark
  <2>5. CASE CloseRefused(c) \/ CloseStop(c) \/ CallEnds(c)
    BY <2>5 DEF CloseRefused, CloseStop, CallEnds
  <2> QED BY <1>1, <2>1, <2>2, <2>3, <2>4, <2>5 DEF Request
<1>2. ASSUME NEW s \in Sessions, Peer(s)
      PROVE  UNCHANGED item \/ \E at \in Times : Renews(s, at)
  <2>1. CASE PeerStart(s) \/ Heartbeat(s)
    BY <2>1 DEF PeerStart, Heartbeat
  <2>2. CASE Renew(s)
    <3>1. Renews(s, peer[s].at)
      BY <2>2 DEF Renew, Renews, LeaseMatches
    <3> QED BY <3>1
  <2>3. CASE PeerEnds(s)
    <3>1. UNCHANGED item \/ Renews(s, peer[s].at)
      BY <2>3 DEF PeerEnds, Renews, LeaseMatches
    <3> QED BY <3>1
  <2> QED BY <1>2, <2>1, <2>2, <2>3 DEF Peer
<1>3. CASE Reconcile
  <2>0. rec.pc \in {"release", "stop", "mark"} => rec.cur.of \in Sessions
    BY DEF Typed, Named, Candidates
  <2>1. CASE RecRelease
    <3>1. Releases(rec.cur.of, rec.cutoff)
      BY <2>1 DEF RecRelease, Releases
    <3> QED BY <2>0, <2>1, <3>1 DEF RecRelease
  <2>2. CASE RecMark
    <3>1. Marks(rec.cur.of)
      BY <2>2 DEF RecMark, Marks
    <3> QED BY <2>0, <2>2, <3>1 DEF RecMark
  <2>3. CASE RecList \/ RecRead \/ RecRefused \/ RecStop \/ RecStopFails \/ RecEnds
    BY <2>3 DEF RecList, RecRead, RecRefused, RecStop, RecStopFails, RecEnds
  <2> QED BY <1>3, <2>1, <2>2, <2>3 DEF Reconcile
<1>4. ASSUME NEW s \in Sessions, Propagate(s) PROVE UNCHANGED item
  BY <1>4 DEF Propagate
<1>5. CASE Tick
  BY <1>5 DEF Tick
<1> QED BY <1>1, <1>2, <1>3, <1>4, <1>5 DEF Next

\* What a created session looks like.
LEMMA CreateFacts ==
  ASSUME Typed, NEW s \in Sessions, Create(s)
  PROVE  /\ item' \in Items /\ \A q \in Sessions \ {s} : item'[q] = item[q]
         /\ item[s].status = "NONE" /\ item'[s].status = "ACTIVE"
         /\ item'[s].lease = now + LeaseDuration /\ item'[s].lease <= item'[s].expires
<1> DEFINE new == [status |-> "ACTIVE", lease |-> now + LeaseDuration,
                   expires |-> now + MaxDuration, sk |-> now + LeaseDuration]
<1>1. /\ now \in Nat /\ LeaseDuration \in Nat /\ MaxDuration \in Nat /\ LastCreate \in Nat
      /\ LeaseDuration <= MaxDuration /\ now <= LastCreate
  BY TypedFacts, TimesFacts, VoiceAssumption DEF Create
<1>2. /\ now + LeaseDuration \in Times /\ now + MaxDuration \in Times
      /\ now + LeaseDuration <= now + MaxDuration
  BY SMT, <1>1 DEF Times, MaxTime
<1>3. item' = [item EXCEPT ![s] = new] /\ item[s].status = "NONE"
  BY DEF Create
<1>4. new \in Item
  BY <1>2, TimesFacts DEF Item, Status
<1> QED BY <1>2, <1>3, <1>4, TypedFacts DEF Items

\* The TTL sweep removes one item and nothing else.
LEMMA SweepFacts ==
  ASSUME Typed, NEW s \in Sessions, Sweep(s)
  PROVE  /\ item' \in Items /\ \A q \in Sessions \ {s} : item'[q] = item[q]
         /\ item[s].status \in SweptStatuses /\ item'[s].status = "SWEPT"
<1> DEFINE new == [item[s] EXCEPT !.status = "SWEPT", !.sk = NoKey]
<1>1. item' = [item EXCEPT ![s] = new] /\ item[s].status \in SweptStatuses
  BY TypedFacts DEF Sweep, Items
<1>2. new \in Item /\ new.status = "SWEPT"
  BY TypedFacts, TimesFacts DEF Item, Status
<1> HIDE DEF new
<1> QED BY <1>1, <1>2, TypedFacts DEF Items

\* Every step keeps the items typed.
LEMMA ItemTyped ==
  ASSUME Typed, Next
  PROVE  item' \in Items
<1>1. ASSUME NEW s \in Sessions, Create(s) \/ Sweep(s) \/ Marks(s) PROVE item' \in Items
  BY <1>1, CreateFacts, SweepFacts, MarkedFacts, TypedFacts DEF Marks
<1>2. ASSUME NEW s \in Sessions, NEW at \in Times, Releases(s, at) \/ Renews(s, at) PROVE item' \in Items
  BY <1>2, ReleaseFacts, ExtendedFacts, TypedFacts DEF Releases, Renews
<1> QED BY <1>1, <1>2, ItemSteps, TypedFacts

\* The counters change with a creation and a release only.
LEMMA CounterSteps ==
  ASSUME Typed, Next
  PROVE  /\ UNCHANGED owner
         /\ \/ UNCHANGED <<active, activeOf>>
            \/ \E s \in Sessions : Create(s)
            \/ \E s \in Sessions, at \in Times : Releases(s, at)
<1> USE TypedFacts
<1>1. ASSUME NEW c \in Callers, Request(c)
      PROVE  /\ UNCHANGED owner
             /\ UNCHANGED <<active, activeOf>> \/ \E s \in Sessions, at \in Times : Releases(s, at)
  <2>1. CASE CloseRelease(c)
    <3>1. Releases(call[c].of, call[c].at) /\ call[c].of \in Sessions
      BY <2>1 DEF CloseRelease, Releases, Typed, Named
    <3> QED BY <2>1, <3>1 DEF CloseRelease
  <2>2. CASE \E s \in Sessions : ResumeRead(c, s) \/ CloseRead(c, s)
    BY <2>2 DEF ResumeRead, CloseRead
  <2>3. CASE ResumeWrite(c) \/ CloseRefused(c) \/ CloseStop(c) \/ CloseMark(c) \/ CallEnds(c)
    BY <2>3 DEF ResumeWrite, CloseRefused, CloseStop, CloseMark, CallEnds
  <2> QED BY <1>1, <2>1, <2>2, <2>3 DEF Request
<1>2. CASE Reconcile
  <2>1. CASE RecRelease
    <3>1. Releases(rec.cur.of, rec.cutoff) /\ rec.cur.of \in Sessions
      BY <2>1 DEF RecRelease, Releases, Typed, Named, Candidates
    <3> QED BY <2>1, <3>1 DEF RecRelease
  <2>2. CASE RecList \/ RecRead \/ RecRefused \/ RecStop \/ RecStopFails \/ RecMark \/ RecEnds
    BY <2>2 DEF RecList, RecRead, RecRefused, RecStop, RecStopFails, RecMark, RecEnds
  <2> QED BY <1>2, <2>1, <2>2 DEF Reconcile
<1>3. ASSUME NEW s \in Sessions, Peer(s) \/ Propagate(s) \/ Sweep(s)
      PROVE  UNCHANGED <<owner, active, activeOf>>
  BY <1>3 DEF Peer, PeerStart, Heartbeat, Renew, PeerEnds, Propagate, Sweep
<1>4. CASE Tick
  BY <1>4 DEF Tick
<1>5. ASSUME NEW s \in Sessions, Create(s) PROVE UNCHANGED owner
  BY <1>5 DEF Create
<1> QED BY <1>1, <1>2, <1>3, <1>4, <1>5 DEF Next

\* Every step keeps the counters natural numbers.
LEMMA CountersTyped ==
  ASSUME Typed, Next
  PROVE  owner' \in [Sessions -> Users] /\ active' \in Nat /\ activeOf' \in [Users -> Nat]
<1> USE TypedFacts
<1>1. ASSUME NEW s \in Sessions, Create(s) PROVE active' \in Nat /\ activeOf' \in [Users -> Nat]
  BY SMT, <1>1 DEF Create
<1>2. ASSUME NEW s \in Sessions, NEW at \in Times, Releases(s, at)
      PROVE  active' \in Nat /\ activeOf' \in [Users -> Nat]
  BY SMT, <1>2 DEF Releases, Release
<1> QED BY <1>1, <1>2, CounterSteps

\* Every step keeps the peers typed.
LEMMA PeerTyped ==
  ASSUME Typed, Next
  PROVE  peer' \in [Sessions -> PeerRec] /\ stopped' \subseteq Sessions /\ stopped \subseteq stopped'
<1> USE TypedFacts, NothingTyped
<1>1. ASSUME NEW s \in Sessions, Stop(s)
      PROVE  peer' \in [Sessions -> PeerRec] /\ stopped' \subseteq Sessions /\ stopped \subseteq stopped'
  BY <1>1 DEF Stop
<1>2. ASSUME NEW s \in Sessions, Peer(s) PROVE peer' \in [Sessions -> PeerRec] /\ UNCHANGED stopped
  <2>1. CASE PeerStart(s)
    <3>1. [state |-> "ok", lease |-> item[s].lease, at |-> 0] \in PeerRec
      BY TimesFacts DEF PeerRec
    <3> QED BY <2>1, <3>1 DEF PeerStart
  <2>2. CASE Heartbeat(s)
    <3>1. [peer[s] EXCEPT !.state = "writing", !.at = now] \in PeerRec
      BY DEF PeerRec
    <3>2. peer' = [peer EXCEPT ![s] = [peer[s] EXCEPT !.state = "writing", !.at = now]]
      BY <2>2 DEF Heartbeat
    <3> QED BY SMT, <2>2, <3>1, <3>2 DEF Heartbeat
  <2>3. CASE Renew(s)
    <3>1. item' \in Items
      BY <2>3, ExtendedFacts DEF Renew
    <3>2. [state |-> "ok", lease |-> item'[s].lease, at |-> 0] \in PeerRec
      BY <3>1, TimesFacts DEF PeerRec, Items, Item
    <3> QED BY <2>3, <3>2 DEF Renew
  <2>4. CASE PeerEnds(s)
    BY <2>4 DEF PeerEnds
  <2> QED BY <1>2, <2>1, <2>2, <2>3, <2>4 DEF Peer
<1>3. ASSUME NEW c \in Callers, Request(c)
      PROVE  UNCHANGED <<peer, stopped>> \/ \E s \in Sessions : Stop(s)
  <2>1. CASE \E s \in Sessions : ResumeRead(c, s) \/ CloseRead(c, s)
    BY <2>1 DEF ResumeRead, CloseRead
  <2>2. CASE ResumeWrite(c) \/ CloseRelease(c) \/ CloseRefused(c) \/ CloseMark(c)
    BY <2>2 DEF ResumeWrite, CloseRelease, CloseRefused, CloseMark
  <2>3. CASE CloseStop(c) \/ CallEnds(c)
    BY <2>3 DEF CloseStop, CallEnds, Typed, Named
  <2> QED BY <1>3, <2>1, <2>2, <2>3 DEF Request
<1>4. CASE Reconcile
  <2>1. CASE RecStop \/ RecStopFails
    <3>1. rec.cur.of \in Sessions
      BY <2>1 DEF RecStop, RecStopFails, Typed, Named, Candidates
    <3> QED BY <1>1, <2>1, <3>1 DEF RecStop, RecStopFails
  <2>2. CASE RecList \/ RecRead \/ RecRelease \/ RecRefused \/ RecMark \/ RecEnds
    BY <2>2 DEF RecList, RecRead, RecRelease, RecRefused, RecMark, RecEnds
  <2> QED BY <1>4, <2>1, <2>2 DEF Reconcile
<1>5. ASSUME NEW s \in Sessions, Create(s) \/ Propagate(s) \/ Sweep(s) PROVE UNCHANGED <<peer, stopped>>
  BY <1>5 DEF Create, Propagate, Sweep
<1>6. CASE Tick
  BY <1>6 DEF Tick
<1> QED BY <1>1, <1>2, <1>3, <1>4, <1>5, <1>6 DEF Next

\* Every step keeps the clock and the index within bounds.
LEMMA ClockTyped ==
  ASSUME Typed, Next
  PROVE  now' \in Times /\ now <= now' /\ view' \in [Sessions -> [sk : 0 .. NoKey, lease : Times]]
<1> USE TypedFacts
<1>0. now \in Nat
  BY TimesFacts
<1>1. ASSUME NEW c \in Callers, Request(c) PROVE UNCHANGED <<now, view>>
  BY <1>1 DEF Request, ResumeRead, CloseRead, ResumeWrite, CloseRelease, CloseRefused, CloseStop,
     CloseMark, CallEnds
<1>2. ASSUME Reconcile PROVE UNCHANGED <<now, view>>
  <2>1. CASE RecList \/ RecRead
    BY <2>1 DEF RecList, RecRead
  <2>2. CASE RecRelease \/ RecRefused \/ RecStop \/ RecStopFails \/ RecMark \/ RecEnds
    BY <2>2 DEF RecRelease, RecRefused, RecStop, RecStopFails, RecMark, RecEnds
  <2> QED BY <1>2, <2>1, <2>2 DEF Reconcile
<1>3. ASSUME NEW s \in Sessions, Create(s) \/ Peer(s) \/ Sweep(s) PROVE UNCHANGED <<now, view>>
  BY <1>3 DEF Create, Peer, PeerStart, Heartbeat, Renew, PeerEnds, Sweep
<1>4. ASSUME NEW s \in Sessions, Propagate(s)
      PROVE  UNCHANGED now /\ view' \in [Sessions -> [sk : 0 .. NoKey, lease : Times]]
  <2>1. Shown(item[s]) \in [sk : 0 .. NoKey, lease : Times]
    BY TimesFacts DEF Shown
  <2> QED BY <1>4, <2>1 DEF Propagate
<1>5. CASE Tick
  BY SMT, <1>0, <1>5, TimesFacts DEF Tick, Times
<1> QED BY SMT, <1>0, <1>1, <1>2, <1>3, <1>4, <1>5 DEF Next

\* A step touches the request of at most one caller.
LEMMA CallSteps ==
  ASSUME Typed, Next
  PROVE  \/ UNCHANGED call
         \/ \E c \in Callers : Request(c) /\ \E x \in CallRec :
               /\ call' = [call EXCEPT ![c] = x]
               /\ x.pc # "idle" => x.of \in Sessions
<1> USE TypedFacts, NothingTyped
<1>1. ASSUME NEW c \in Callers, Request(c)
      PROVE  \E x \in CallRec : call' = [call EXCEPT ![c] = x] /\ (x.pc # "idle" => x.of \in Sessions)
  <2>0. call[c].pc # "idle" => call[c].of \in Sessions
    BY DEF Typed, Named
  <2>1. ASSUME NEW s \in Sessions, ResumeRead(c, s) \/ CloseRead(c, s)
        PROVE  \E x \in CallRec : call' = [call EXCEPT ![c] = x] /\ (x.pc # "idle" => x.of \in Sessions)
    <3> DEFINE a == [pc |-> "resume", of |-> s, lease |-> item[s].lease, at |-> now]
               b == [pc |-> IF item[s].status = "ACTIVE" THEN "release" ELSE "stop",
                     of |-> s, lease |-> 0, at |-> now]
    <3>1. a \in CallRec /\ b \in CallRec /\ a.of = s /\ b.of = s
      BY TimesFacts DEF CallRec, CallPcs
    <3>2. call' = [call EXCEPT ![c] = a] \/ call' = [call EXCEPT ![c] = b]
      BY <2>1 DEF ResumeRead, CloseRead
    <3> HIDE DEF a, b
    <3> QED BY <3>1, <3>2
  <2>2. CASE CloseRelease(c) \/ CloseStop(c) \/ CloseRefused(c)
    <3> DEFINE a == [call[c] EXCEPT !.pc = "stop"]
               b == [call[c] EXCEPT !.pc = "mark"]
    <3>1. a \in CallRec /\ b \in CallRec /\ a.of = call[c].of /\ b.of = call[c].of
      BY DEF CallRec, CallPcs
    <3>2. call[c].pc # "idle"
      BY <2>2 DEF CloseRelease, CloseStop, CloseRefused
    <3>3. \/ call' = [call EXCEPT ![c] = a] \/ call' = [call EXCEPT ![c] = b]
          \/ call' = [call EXCEPT ![c] = NoCall]
      BY <2>2 DEF CloseRelease, CloseStop, CloseRefused
    <3>4. NoCall.pc = "idle"
      BY DEF NoCall
    <3> HIDE DEF a, b
    <3> QED BY <2>0, <3>1, <3>2, <3>3, <3>4
  <2>3. CASE ResumeWrite(c) \/ CloseMark(c) \/ CallEnds(c)
    <3>1. call' = [call EXCEPT ![c] = NoCall]
      BY <2>3 DEF ResumeWrite, CloseMark, CallEnds
    <3> QED BY <3>1 DEF NoCall
  <2> QED BY <1>1, <2>1, <2>2, <2>3 DEF Request
<1>2. ASSUME Reconcile PROVE UNCHANGED call
  <2>1. CASE RecList \/ RecRead
    BY <2>1 DEF RecList, RecRead
  <2>2. CASE RecRelease \/ RecRefused \/ RecStop \/ RecStopFails \/ RecMark \/ RecEnds
    BY <2>2 DEF RecRelease, RecRefused, RecStop, RecStopFails, RecMark, RecEnds
  <2> QED BY <1>2, <2>1, <2>2 DEF Reconcile
<1>3. ASSUME NEW s \in Sessions, Create(s) \/ Peer(s) \/ Propagate(s) \/ Sweep(s) PROVE UNCHANGED call
  BY <1>3 DEF Create, Peer, PeerStart, Heartbeat, Renew, PeerEnds, Propagate, Sweep
<1>4. CASE Tick
  BY <1>4 DEF Tick
<1> QED BY <1>1, <1>2, <1>3, <1>4 DEF Next

\* Every step keeps the requests in flight typed.
LEMMA CallTyped ==
  ASSUME Typed, Next
  PROVE  /\ call' \in [Callers -> CallRec]
         /\ \A c \in Callers : call'[c].pc # "idle" => call'[c].of \in Sessions
<1>1. /\ call \in [Callers -> CallRec]
      /\ \A c \in Callers : call[c].pc # "idle" => call[c].of \in Sessions
  BY TypedFacts DEF Typed, Named
<1> QED BY <1>1, CallSteps

\* Between two candidates the reconciler holds on to none.
LEMMA NextOfFacts ==
  ASSUME Typed, NEW batch \in SUBSET Candidates
  PROVE  NextOf(batch) \in RecRec /\ NextOf(batch).pc \in {"idle", "next"}
         /\ NextOf(batch).cutoff \in {0, rec.cutoff}
<1> DEFINE x == [rec EXCEPT !.pc = "next", !.batch = batch, !.cur = Nobody]
<1>1. rec \in RecRec
  BY TypedFacts
<1>2. x \in RecRec /\ x.pc = "next" /\ x.cutoff = rec.cutoff
  BY <1>1 DEF RecRec, RecPcs
<1>3. Idle \in RecRec /\ Idle.pc = "idle" /\ Idle.cutoff = 0
  BY NothingTyped DEF Idle
<1>4. NextOf(batch) \in {x, Idle}
  BY DEF NextOf
<1> HIDE DEF x
<1> QED BY <1>2, <1>3, <1>4

\* Only the reconciler's own steps move it.
LEMMA RecMoves ==
  ASSUME Next
  PROVE  UNCHANGED rec \/ Reconcile
<1>1. ASSUME NEW c \in Callers, Request(c) PROVE UNCHANGED rec
  BY <1>1 DEF Request, ResumeRead, CloseRead, ResumeWrite, CloseRelease, CloseRefused, CloseStop,
     CloseMark, CallEnds
<1>2. ASSUME NEW s \in Sessions, Create(s) \/ Peer(s) \/ Propagate(s) \/ Sweep(s) PROVE UNCHANGED rec
  BY <1>2 DEF Create, Peer, PeerStart, Heartbeat, Renew, PeerEnds, Propagate, Sweep
<1>3. CASE Tick
  BY <1>3 DEF Tick
<1> QED BY <1>1, <1>2, <1>3 DEF Next

\* The reconciler lists with the time it starts at and keeps it to the end.
LEMMA RecTyped ==
  ASSUME Typed, Next
  PROVE  /\ rec' \in RecRec
         /\ rec'.pc \in {"release", "stop", "mark"} => rec'.cur \in Candidates
         /\ rec'.cutoff \in {0, now, rec.cutoff}
<1> USE TypedFacts, NothingTyped
<1>0. /\ rec.pc \in {"release", "stop", "mark"} => rec.cur \in Candidates
      /\ rec.batch \subseteq Candidates /\ rec.pc \in RecPcs
  BY DEF Typed, Named, RecRec
<1>1. CASE RecList
  <2>1. PICK batch \in SUBSET Due : rec' = [pc |-> "next", cutoff |-> now, batch |-> batch, cur |-> Nobody]
    BY <1>1 DEF RecList
  <2>2. Due \subseteq Candidates
    BY SMT DEF Due, Candidate, Candidates
  <2>3. batch \in SUBSET Candidates
    BY <2>1, <2>2
  <2> QED BY <2>1, <2>3 DEF RecRec, RecPcs
<1>2. CASE RecRead
  <2>1. PICK k \in rec.batch : rec' \in {NextOf(rec.batch \ {k}),
                                       [rec EXCEPT !.pc = "stop", !.batch = rec.batch \ {k}, !.cur = k],
                                       [rec EXCEPT !.pc = "release", !.batch = rec.batch \ {k}, !.cur = k]}
    BY <1>2 DEF RecRead
  <2> DEFINE a == [rec EXCEPT !.pc = "stop", !.batch = rec.batch \ {k}, !.cur = k]
             b == [rec EXCEPT !.pc = "release", !.batch = rec.batch \ {k}, !.cur = k]
  <2>2. k \in Candidates /\ rec.batch \ {k} \in SUBSET Candidates
    BY <1>0
  <2>3. a \in RecRec /\ a.cur = k /\ a.cutoff = rec.cutoff
    BY <2>2 DEF RecRec, RecPcs
  <2>4. b \in RecRec /\ b.cur = k /\ b.cutoff = rec.cutoff
    BY <2>2 DEF RecRec, RecPcs
  <2>5. rec' = NextOf(rec.batch \ {k}) \/ rec' = a \/ rec' = b
    BY <2>1
  <2> HIDE DEF a, b
  <2> QED BY <2>2, <2>3, <2>4, <2>5, NextOfFacts
<1>3. CASE RecRelease \/ RecStop \/ RecRefused \/ RecStopFails \/ RecMark \/ RecEnds
  <2> DEFINE a == [rec EXCEPT !.pc = "stop"]
             b == [rec EXCEPT !.pc = "mark"]
  <2>1. a \in RecRec /\ a.cur = rec.cur /\ a.cutoff = rec.cutoff
    BY DEF RecRec, RecPcs
  <2>2. b \in RecRec /\ b.cur = rec.cur /\ b.cutoff = rec.cutoff
    BY DEF RecRec, RecPcs
  <2>3. \/ rec' = NextOf(rec.batch) \/ rec' = Idle
        \/ rec' \in {a, b} /\ rec.pc \in {"release", "stop", "mark"}
    BY <1>3 DEF RecRelease, RecStop, RecRefused, RecStopFails, RecMark, RecEnds
  <2>4. Idle.pc = "idle" /\ Idle.cutoff = 0
    BY DEF Idle
  <2> HIDE DEF a, b
  <2> QED BY <1>0, <2>1, <2>2, <2>3, <2>4, NextOfFacts
<1>4. ASSUME UNCHANGED rec
      PROVE  /\ rec' \in RecRec
             /\ rec'.pc \in {"release", "stop", "mark"} => rec'.cur \in Candidates
             /\ rec'.cutoff \in {0, now, rec.cutoff}
  BY <1>0, <1>4
<1> QED BY <1>1, <1>2, <1>3, <1>4, RecMoves DEF Reconcile

\* The types hold at first.
LEMMA TypedInit ==
  Init => Typed
<1> SUFFICES ASSUME Init PROVE Typed
  OBVIOUS
<1> USE NothingTyped, TimesFacts
<1>1. now \in Times /\ owner \in [Sessions -> Users] /\ active \in Nat /\ activeOf \in [Users -> Nat]
      /\ stopped \subseteq Sessions
  BY DEF Init
<1>2. item \in [Sessions -> Item] /\ view \in [Sessions -> [sk : 0 .. NoKey, lease : Times]]
  BY DEF Init
<1>3. peer \in [Sessions -> PeerRec] /\ call \in [Callers -> CallRec] /\ rec \in RecRec
  BY DEF Init
<1>4. Named
  BY DEF Init, Named, NoCall, Idle
<1> QED BY <1>1, <1>2, <1>3, <1>4 DEF Typed, TypeOK, PeerRec, CallRec, RecRec

\* Every step keeps the types.
LEMMA TypedStep ==
  Typed /\ [Next]_vars => Typed'
<1> SUFFICES ASSUME Typed, [Next]_vars PROVE Typed'
  OBVIOUS
<1>1. CASE Next
  <2>1. TypeOK'
    BY <1>1, ItemTyped, CountersTyped, PeerTyped, ClockTyped, CallTyped, RecTyped
       DEF TypeOK, Items, PeerRec, CallRec, RecRec
  <2>2. Named'
    BY <1>1, CallTyped, RecTyped DEF Named
  <2> QED BY <2>1, <2>2 DEF Typed
<1>2. CASE UNCHANGED vars
  BY <1>2 DEF vars, Typed, TypeOK, Named
<1> QED BY <1>1, <1>2

\* TypeOK, for every value of the constants: the store, its callers, the heartbeats
\* and the reconciler stay within the values dynamodb_store.go and handler.go give them.
THEOREM VoiceTypes ==
  Spec => []TypeOK
<1>1. Typed => TypeOK
  BY DEF Typed
<1> QED BY <1>1, TypedInit, TypedStep, PTL DEF Spec

-----------------------------------------------------------------------------
(* A closed session was stopped.                                           *)

\* Whoever is about to mark a session closed has stopped its runtime.
StopOrder ==
  /\ ClosedIsStopped
  /\ \A c \in Callers : call[c].pc = "mark" => call[c].of \in stopped
  /\ rec.pc = "mark" => rec.cur.of \in stopped

\* Every step keeps stops before closes.
LEMMA StopOrderStep ==
  Typed /\ StopOrder /\ [Next]_vars => StopOrder'
<1> SUFFICES ASSUME Typed, StopOrder, Next PROVE StopOrder'
  BY DEF vars, StopOrder, ClosedIsStopped
<1> USE TypedFacts
<1>0. stopped \subseteq stopped'
  BY PeerTyped
<1>1. ClosedIsStopped'
  <2>1. ASSUME NEW s \in Sessions, Create(s) \/ Sweep(s),
               NEW q \in Sessions, item'[q].status = "CLOSED"
        PROVE  item[q].status = "CLOSED"
    BY <2>1, CreateFacts, SweepFacts
  <2>2. ASSUME NEW s \in Sessions, Marks(s), NEW q \in Sessions, item'[q].status = "CLOSED"
        PROVE  item[q].status = "CLOSED" \/ q \in stopped
    <3>1. s \in stopped
      BY <2>2 DEF Marks, CloseMark, RecMark, StopOrder
    <3> QED BY <2>2, <3>1, MarkedFacts DEF Marks
  <2>3. ASSUME NEW s \in Sessions, NEW at \in Times, Releases(s, at) \/ Renews(s, at),
               NEW q \in Sessions, item'[q].status = "CLOSED"
        PROVE  item[q].status = "CLOSED"
    BY SMT, <2>3, ReleaseFacts, ExtendedFacts DEF Releases, Renews
  <2> QED BY <1>0, <2>1, <2>2, <2>3, ItemSteps DEF ClosedIsStopped, StopOrder
<1>2. ASSUME NEW c \in Callers, call'[c].pc = "mark" PROVE call'[c].of \in stopped'
  <2>1. CASE call'[c] = call[c]
    BY <1>0, <1>2, <2>1 DEF StopOrder
  <2>2. CASE call'[c] # call[c]
    <3>1. Request(c)
      BY <2>2, CallSteps
    <3>2. CASE CloseStop(c)
      BY <3>2 DEF CloseStop, Stop, CallRec
    <3>3. CASE \E s \in Sessions : ResumeRead(c, s) \/ CloseRead(c, s)
      BY SMT, <1>2, <3>3 DEF ResumeRead, CloseRead
    <3>4. CASE ResumeWrite(c) \/ CloseRelease(c) \/ CloseRefused(c) \/ CloseMark(c) \/ CallEnds(c)
      BY SMT, <1>2, <3>4 DEF ResumeWrite, CloseRelease, CloseRefused, CloseMark, CallEnds, NoCall, CallRec
    <3> QED BY <3>1, <3>2, <3>3, <3>4 DEF Request
  <2> QED BY <2>1, <2>2
<1>3. ASSUME rec'.pc = "mark" PROVE rec'.cur.of \in stopped'
  <2>0. rec.batch \subseteq Candidates
    BY DEF RecRec
  <2>1. CASE UNCHANGED rec
    BY <1>0, <1>3, <2>1 DEF StopOrder
  <2>2. CASE RecStop
    BY <2>2 DEF RecStop, Stop, RecRec
  <2>3. CASE RecRead
    <3>1. PICK k \in rec.batch : rec' \in {NextOf(rec.batch \ {k}),
                                         [rec EXCEPT !.pc = "stop", !.batch = rec.batch \ {k}, !.cur = k],
                                         [rec EXCEPT !.pc = "release", !.batch = rec.batch \ {k}, !.cur = k]}
      BY <2>3 DEF RecRead
    <3>2. NextOf(rec.batch \ {k}).pc \in {"idle", "next"}
      BY <2>0, NextOfFacts
    <3> QED BY <1>3, <3>1, <3>2 DEF RecRec
  <2>4. CASE RecList \/ RecRelease \/ RecRefused \/ RecStopFails \/ RecMark \/ RecEnds
    <3>1. NextOf(rec.batch).pc \in {"idle", "next"}
      BY <2>0, NextOfFacts
    <3> QED BY SMT, <1>3, <2>4, <3>1 DEF RecList, RecRelease, RecRefused, RecStopFails, RecMark, RecEnds, Idle, RecRec
  <2> QED BY <2>1, <2>2, <2>3, <2>4, RecMoves DEF Reconcile
<1> QED BY <1>1, <1>2, <1>3 DEF StopOrder

\* ClosedIsStopped, for every value of the constants: no interleaving of Close, a second
\* Close and the reconciler marks a session closed whose runtime was not stopped first.
THEOREM ClosedMeansStopped ==
  Spec => []ClosedIsStopped
<1>1. Init => StopOrder
  BY SMT DEF Init, StopOrder, ClosedIsStopped, NoItem, NoCall, Idle
<1>2. StopOrder => ClosedIsStopped
  BY DEF StopOrder
<1> QED BY <1>1, <1>2, TypedInit, TypedStep, StopOrderStep, PTL DEF Spec

-----------------------------------------------------------------------------
(* The reconciler spares a live lease.                                     *)

\* How the times that the processes hold on to compare with one another: a time is
\* never ahead of the clock, a lease never more than one duration ahead of the time
\* it was taken at, and the table's lease never behind the one a peer counts on.
LeaseOrder ==
  /\ rec.cutoff <= now
  /\ \A c \in Callers : call[c].pc = "resume" =>
       call[c].at <= now /\ call[c].lease <= call[c].at + LeaseDuration
  /\ \A s \in Sessions : item[s].status = "ACTIVE" =>
       item[s].lease <= now + LeaseDuration /\ item[s].lease <= item[s].expires
  /\ \A s \in Sessions : peer[s].state # "off" =>
       /\ item[s].status # "NONE"
       /\ peer[s].state = "writing" => peer[s].at <= now
       /\ item[s].status = "ACTIVE" => peer[s].lease <= item[s].lease

\* What a step does to the item of one session.
LEMMA SessionSteps ==
  ASSUME Typed, Next, NEW q \in Sessions
  PROVE  \/ item'[q] = item[q]
         \/ Create(q)
         \/ item'[q].status \in {"CLOSING", "CLOSED", "SWEPT"}
         \/ \E at \in Times : Renews(q, at)
<1> USE TypedFacts
<1>1. ASSUME NEW s \in Sessions, Create(s) \/ Sweep(s)
      PROVE  item'[q] = item[q] \/ Create(q) \/ item'[q].status = "SWEPT"
  BY <1>1, CreateFacts, SweepFacts
<1>2. ASSUME NEW s \in Sessions, Marks(s)
      PROVE  item'[q] = item[q] \/ item'[q].status = "CLOSED"
  BY ZenonT(60), <1>2, MarkedFacts DEF Marks
<1>3. ASSUME NEW s \in Sessions, NEW at \in Times, Releases(s, at)
      PROVE  item'[q] = item[q] \/ item'[q].status = "CLOSING"
  BY <1>3, ReleaseFacts DEF Releases
<1>4. ASSUME NEW s \in Sessions, NEW at \in Times, Renews(s, at)
      PROVE  item'[q] = item[q] \/ Renews(q, at)
  BY SMT, <1>4, ExtendedFacts DEF Renews
<1> QED BY <1>1, <1>2, <1>3, <1>4, ItemSteps

\* What a step does to the heartbeat of one session.
LEMMA PeerSteps ==
  ASSUME Typed, Next, NEW q \in Sessions
  PROVE  peer'[q] \in {peer[q], NoPeer} \/ PeerStart(q) \/ Heartbeat(q) \/ Renew(q)
<1> USE TypedFacts
<1>1. ASSUME NEW s \in Sessions, Peer(s)
      PROVE  peer'[q] \in {peer[q], NoPeer} \/ PeerStart(q) \/ Heartbeat(q) \/ Renew(q)
  <2>1. CASE s = q
    BY <1>1, <2>1 DEF Peer, PeerEnds
  <2>2. CASE s # q
    BY <1>1, <2>2 DEF Peer, PeerStart, Heartbeat, Renew, PeerEnds
  <2> QED BY <2>1, <2>2
<1>2. ASSUME NEW s, Stop(s) PROVE peer'[q] \in {peer[q], NoPeer}
  BY <1>2 DEF Stop
<1>3. ASSUME NEW c \in Callers, Request(c) PROVE UNCHANGED peer \/ Stop(call[c].of)
  BY <1>3 DEF Request, ResumeRead, CloseRead, ResumeWrite, CloseRelease, CloseRefused, CloseStop,
     CloseMark, CallEnds
<1>4. ASSUME Reconcile PROVE UNCHANGED peer \/ Stop(rec.cur.of)
  <2>1. CASE RecList \/ RecRead
    BY <2>1 DEF RecList, RecRead
  <2>2. CASE RecRelease \/ RecRefused \/ RecStop \/ RecStopFails \/ RecMark \/ RecEnds
    BY <2>2 DEF RecRelease, RecRefused, RecStop, RecStopFails, RecMark, RecEnds
  <2> QED BY <1>4, <2>1, <2>2 DEF Reconcile
<1>5. ASSUME NEW s \in Sessions, Create(s) \/ Propagate(s) \/ Sweep(s) PROVE UNCHANGED peer
  BY <1>5 DEF Create, Propagate, Sweep
<1>6. CASE Tick
  BY <1>6 DEF Tick
<1> QED BY <1>1, <1>2, <1>3, <1>4, <1>5, <1>6 DEF Next

\* A renewal never shortens a lease: the one it replaces was taken no later.
LEMMA RenewsLengthens ==
  ASSUME Typed, LeaseOrder, NEW s \in Sessions, NEW at \in Times, Renews(s, at)
  PROVE  /\ item[s].status = "ACTIVE" /\ item'[s].status = "ACTIVE"
         /\ item'[s].lease <= item'[s].expires /\ item'[s].lease <= now + LeaseDuration
         /\ \/ item[s].lease <= item'[s].lease
            \/ peer'[s] = NoPeer \/ Renew(s)
<1> USE TypedFacts
<1>0. /\ now \in Nat /\ LeaseDuration \in Nat /\ item[s].lease \in Nat /\ item[s].expires \in Nat
      /\ at \in Nat
  BY TimesFacts, VoiceAssumption
<1>1. item[s].status = "ACTIVE" /\ item' = Extended(s, at) /\ item[s].lease <= item[s].expires
  BY DEF Renews, LeaseOrder
<1>2. /\ item'[s].status = "ACTIVE" /\ item'[s].expires = item[s].expires
      /\ item'[s].lease = BoundedLease(at, item[s].expires)
  BY <1>1, ExtendedFacts
<1>3. /\ item'[s].lease \in Nat /\ item'[s].lease <= item[s].expires /\ item'[s].lease <= at + LeaseDuration
      /\ item'[s].lease \in {item[s].expires, at + LeaseDuration}
  BY <1>2, LeaseFacts, TimesFacts
<1>4. at <= now
  BY DEF Renews, LeaseOrder, ResumeWrite, LeaseMatches
<1>5. \/ item[s].lease <= at + LeaseDuration
      \/ peer'[s] = NoPeer \/ Renew(s)
  BY DEF Renews, LeaseOrder, ResumeWrite, LeaseMatches, PeerEnds
<1>6. item'[s].lease <= now + LeaseDuration
  BY SMT, <1>0, <1>3, <1>4
<1>7. item[s].lease <= at + LeaseDuration => item[s].lease <= item'[s].lease
  BY <1>0, <1>1, <1>3
<1> QED BY <1>1, <1>2, <1>3, <1>5, <1>6, <1>7

\* Every step keeps leases and the claims on them in order.
LEMMA LeaseOrderStep ==
  Typed /\ LeaseOrder /\ [Next]_vars => LeaseOrder'
<1> SUFFICES ASSUME Typed, LeaseOrder, Next PROVE LeaseOrder'
  BY DEF vars, LeaseOrder
<1> USE TypedFacts
<1>0. now \in Nat /\ now' \in Nat /\ now <= now' /\ LeaseDuration \in Nat
  BY ClockTyped, TimesFacts, VoiceAssumption
<1>1. rec'.cutoff <= now'
  <2>1. rec'.cutoff \in {0, now, rec.cutoff} /\ rec.cutoff \in Nat /\ rec.cutoff <= now
    BY RecTyped, TimesFacts DEF LeaseOrder
  <2> QED BY SMT, <1>0, <2>1
<1>2. ASSUME NEW c \in Callers, call'[c].pc = "resume"
      PROVE  call'[c].at <= now' /\ call'[c].lease <= call'[c].at + LeaseDuration
  <2>1. CASE call'[c] = call[c]
    <3>1. call[c].at \in Nat
      BY TimesFacts
    <3> QED BY SMT, <1>0, <1>2, <2>1, <3>1 DEF LeaseOrder
  <2>2. CASE call'[c] # call[c]
    <3>1. Request(c)
      BY <2>2, CallSteps
    <3>2. ASSUME NEW s \in Sessions, ResumeRead(c, s)
          PROVE  call'[c].at <= now' /\ call'[c].lease <= call'[c].at + LeaseDuration
      <4>1. /\ call'[c].at = now /\ call'[c].lease = item[s].lease /\ item[s].status = "ACTIVE"
        BY <3>2 DEF ResumeRead
      <4> QED BY <1>0, <4>1 DEF LeaseOrder
    <3>3. ASSUME NEW s \in Sessions, CloseRead(c, s) PROVE FALSE
      BY <1>2, <3>3 DEF CloseRead
    <3>4. CASE ResumeWrite(c) \/ CloseRelease(c) \/ CloseRefused(c) \/ CloseStop(c) \/ CloseMark(c) \/ CallEnds(c)
      BY SMT, <1>2, <3>4 DEF ResumeWrite, CloseRelease, CloseRefused, CloseStop, CloseMark, CallEnds, NoCall, CallRec
    <3> QED BY <3>1, <3>2, <3>3, <3>4 DEF Request
  <2> QED BY <2>1, <2>2
<1>3. ASSUME NEW q \in Sessions, item'[q].status = "ACTIVE"
      PROVE  item'[q].lease <= now' + LeaseDuration /\ item'[q].lease <= item'[q].expires
  <2>0. item'[q].lease \in Nat
    BY ItemTyped, TimesFacts DEF Items, Item
  <2>1. CASE item'[q] = item[q]
    BY SMT, <1>0, <1>3, <2>0, <2>1 DEF LeaseOrder
  <2>2. CASE Create(q)
    BY SMT, <1>0, <2>2, CreateFacts
  <2>3. ASSUME NEW at \in Times, Renews(q, at)
        PROVE  item'[q].lease <= now' + LeaseDuration /\ item'[q].lease <= item'[q].expires
    BY SMT, <1>0, <2>0, <2>3, RenewsLengthens
  <2> QED BY <1>3, <2>1, <2>2, <2>3, SessionSteps
<1>4. ASSUME NEW q \in Sessions, peer'[q].state # "off"
      PROVE  /\ item'[q].status # "NONE"
             /\ peer'[q].state = "writing" => peer'[q].at <= now'
             /\ item'[q].status = "ACTIVE" => peer'[q].lease <= item'[q].lease
  <2>0. item[q].lease \in Nat /\ item'[q].lease \in Nat /\ peer[q].lease \in Nat /\ peer[q].at \in Nat
    BY ItemTyped, TimesFacts DEF Items, Item
  <2>1. CASE PeerStart(q)
    <3>1. item' = item /\ peer'[q] = [state |-> "ok", lease |-> item[q].lease, at |-> 0]
          /\ item[q].status = "ACTIVE"
      BY <2>1 DEF PeerStart
    <3> QED BY SMT, <2>0, <3>1
  <2>2. CASE Heartbeat(q)
    <3>1. item' = item /\ now' = now /\ peer[q].state = "ok" /\ peer'[q].at = now
          /\ peer'[q].lease = peer[q].lease
      BY <2>2 DEF Heartbeat, PeerRec
    <3> QED BY <1>0, <2>0, <3>1 DEF LeaseOrder
  <2>3. CASE Renew(q)
    <3>1. peer'[q] = [state |-> "ok", lease |-> item'[q].lease, at |-> 0]
          /\ item' = Extended(q, peer[q].at) /\ item[q].status = "ACTIVE"
      BY <2>3 DEF Renew, LeaseMatches
    <3>2. item'[q].status = "ACTIVE"
      BY <3>1, ExtendedFacts
    <3> QED BY SMT, <2>0, <3>1, <3>2
  <2>4. CASE peer'[q] = peer[q]
    <3>0. /\ item[q].status # "NONE"
          /\ peer[q].state = "writing" => peer[q].at <= now
          /\ item[q].status = "ACTIVE" => peer[q].lease <= item[q].lease
      BY <1>4, <2>4 DEF LeaseOrder
    <3>1. peer'[q].state = "writing" => peer'[q].at <= now'
      BY SMT, <1>0, <2>0, <2>4, <3>0
    <3>2. CASE item'[q] = item[q]
      BY <2>4, <3>0, <3>1, <3>2
    <3>3. CASE Create(q)
      BY <3>0, <3>3 DEF Create
    <3>4. CASE item'[q].status \in {"CLOSING", "CLOSED", "SWEPT"}
      BY <3>1, <3>4
    <3>5. ASSUME NEW at \in Times, Renews(q, at), ~ Renew(q)
          PROVE  item'[q].status = "ACTIVE" /\ peer'[q].lease <= item'[q].lease
      <4>1. /\ item[q].status = "ACTIVE" /\ item'[q].status = "ACTIVE"
            /\ item[q].lease <= item'[q].lease \/ peer'[q] = NoPeer
        BY <3>5, RenewsLengthens
      <4>2. peer'[q] # NoPeer
        BY SMT, <1>4 DEF NoPeer
      <4> QED BY SMT, <2>0, <2>4, <3>0, <4>1, <4>2
    <3> QED BY <2>3, <3>1, <3>2, <3>3, <3>4, <3>5, SessionSteps
  <2>5. CASE peer'[q] = NoPeer
    BY SMT, <1>4, <2>5 DEF NoPeer
  <2> QED BY <2>1, <2>2, <2>3, <2>4, <2>5, PeerSteps
<1> QED BY <1>1, <1>2, <1>3, <1>4 DEF LeaseOrder

\* LiveLeaseIsSpared, for every value of the constants: the lease comparison inside
\* ReleaseExpired's transaction is enough, however far the index lags behind and
\* whatever renewals a resumed client and a heartbeat commit meanwhile.
THEOREM LiveLeasesAreSpared ==
  Spec => LiveLeaseIsSpared
<1>1. Init => LeaseOrder
  <2>1. LeaseDuration \in Nat
    BY VoiceAssumption
  <2> QED BY SMT, <2>1 DEF Init, LeaseOrder, NoItem, NoCall, NoPeer, Idle
<1>2. ASSUME Typed, LeaseOrder, [Next]_vars
      PROVE  [\A s \in Sessions :
                item[s].status = "ACTIVE" /\ item'[s].status = "CLOSING" /\ call' = call =>
                  /\ item[s].lease <= now
                  /\ peer[s].state # "off" => peer[s].lease <= now]_vars
  <2> SUFFICES ASSUME Next, NEW s \in Sessions,
                      item[s].status = "ACTIVE", item'[s].status = "CLOSING", call' = call
               PROVE  item[s].lease <= now /\ (peer[s].state # "off" => peer[s].lease <= now)
    BY <1>2
  <2> USE TypedFacts, <1>2
  <2>1. /\ now \in Nat /\ rec.cutoff \in Nat /\ rec.cutoff <= now /\ item[s].lease \in Nat
        /\ peer[s].lease \in Nat
    BY TimesFacts DEF LeaseOrder
  <2>2. RecRelease /\ rec.cur.of = s
    <3>1. ASSUME NEW q \in Sessions, Create(q) \/ Sweep(q) \/ Marks(q) PROVE FALSE
      BY SMTT(60), <3>1, CreateFacts, SweepFacts, MarkedFacts DEF Marks
    <3>2. ASSUME NEW q \in Sessions, NEW at \in Times, Renews(q, at) PROVE FALSE
      BY SMT, <3>2, ExtendedFacts DEF Renews
    <3>3. ASSUME NEW q \in Sessions, NEW at \in Times, Releases(q, at) PROVE RecRelease /\ rec.cur.of = s
      <4>1. q = s
        BY <3>3, ReleaseFacts DEF Releases
      <4>2. ASSUME NEW c \in Callers, CloseRelease(c) PROVE FALSE
        BY ZenonT(60), <4>2 DEF CloseRelease, CallRec
      <4> QED BY <3>3, <4>1, <4>2 DEF Releases
    <3> QED BY <3>1, <3>2, <3>3, ItemSteps
  <2>3. item[s].lease <= rec.cutoff
    BY <2>2 DEF RecRelease, ExactlyExpired
  <2>4. peer[s].state # "off" => peer[s].lease <= item[s].lease
    BY DEF LeaseOrder
  <2> QED BY SMT, <2>1, <2>3, <2>4
<1> QED BY <1>1, <1>2, TypedInit, TypedStep, LeaseOrderStep, PTL DEF Spec, LiveLeaseIsSpared

-----------------------------------------------------------------------------
(* Capacity is exact, and the control plane keeps to its admission         *)
(* contract, as long as the TTL sweep finds no active session.             *)

Returned == {s \in Sessions : item[s].status \in {"CLOSING", "CLOSED", "SWEPT"}}
ActiveOf(u) == {s \in ActiveSessions : owner[s] = u}

\* The step that takes the session s in, in the terms of the contract.
Takes(s) ==
  /\ Create(s) /\ s \notin ActiveSessions /\ s \notin Returned
  /\ ActiveSessions' = ActiveSessions \cup {s} /\ Returned' = Returned

\* The step that gives its unit back.
GivesBack(s) ==
  /\ \E at \in Times : Release(s, at)
  /\ s \in ActiveSessions /\ ActiveSessions' = ActiveSessions \ {s} /\ Returned' = Returned \cup {s}

\* A step admits one session, releases one, or changes no capacity.
LEMMA CapacitySteps ==
  ASSUME "ACTIVE" \notin SweptStatuses, Typed, [Next]_vars
  PROVE  /\ UNCHANGED owner
         /\ \/ \E s \in Sessions : Takes(s) \/ GivesBack(s)
            \/ UNCHANGED <<ActiveSessions, Returned, active, activeOf>>
<1> USE TypedFacts
<1>1. CASE UNCHANGED vars
  BY <1>1 DEF vars, ActiveSessions, Returned
<1>2. CASE Next
  <2>0. UNCHANGED owner
    BY <1>2, CounterSteps
  <2>1. ASSUME NEW s \in Sessions, Create(s) PROVE Takes(s)
    BY <2>1, CreateFacts DEF Takes, ActiveSessions, Returned
  <2>2. ASSUME NEW s \in Sessions, NEW at \in Times, Releases(s, at) PROVE GivesBack(s)
    <3>1. Release(s, at)
      BY <2>2 DEF Releases
    <3>2. /\ \A q \in Sessions \ {s} : item'[q] = item[q]
          /\ item[s].status = "ACTIVE" /\ item'[s].status = "CLOSING"
      BY <3>1, ReleaseFacts
    <3>3. s \in ActiveSessions /\ ActiveSessions' = ActiveSessions \ {s} /\ Returned' = Returned \cup {s}
      BY <3>2 DEF ActiveSessions, Returned
    <3> QED BY <3>1, <3>3 DEF GivesBack
  <2>3. ASSUME \A s \in Sessions : ~ Create(s), \A s \in Sessions, at \in Times : ~ Releases(s, at)
        PROVE  UNCHANGED <<ActiveSessions, Returned, active, activeOf>>
    <3>1. UNCHANGED <<active, activeOf>>
      BY <1>2, <2>3, CounterSteps
    <3>2. ASSUME NEW s \in Sessions, NEW q \in Sessions, Sweep(s) \/ Marks(s)
          PROVE  /\ item[q].status = "ACTIVE" <=> item'[q].status = "ACTIVE"
                 /\ item[q].status \in {"CLOSING", "CLOSED", "SWEPT"} <=>
                      item'[q].status \in {"CLOSING", "CLOSED", "SWEPT"}
      <4>1. CASE Sweep(s)
        <5>1. item[s].status \in {"CLOSING", "CLOSED"}
          BY <4>1, SweepFacts, VoiceAssumption
        <5> QED BY <4>1, <5>1, SweepFacts
      <4>2. CASE Marks(s)
        BY <4>2, MarkedFacts DEF Marks
      <4> QED BY <3>2, <4>1, <4>2
    <3>3. ASSUME NEW s \in Sessions, NEW at \in Times, NEW q \in Sessions, Renews(s, at)
          PROVE  item'[q].status = item[q].status
      BY SMT, <3>3, ExtendedFacts DEF Renews
    <3>4. UNCHANGED <<ActiveSessions, Returned>>
      BY ZenonT(60), <1>2, <2>3, <3>2, <3>3, ItemSteps DEF ActiveSessions, Returned
    <3> QED BY <3>1, <3>4
  <2> QED BY <2>0, <2>1, <2>2, <2>3
<1> QED BY <1>1, <1>2

\* Finitely many sessions are active.
LEMMA ActiveFinite ==
  /\ IsFiniteSet(ActiveSessions) /\ Cardinality(ActiveSessions) \in Nat
  /\ \A u : IsFiniteSet(ActiveOf(u)) /\ Cardinality(ActiveOf(u)) \in Nat
<1>1. IsFiniteSet(Sessions) /\ ActiveSessions \subseteq Sessions /\ \A u : ActiveOf(u) \subseteq Sessions
  BY VoiceAssumption DEF ActiveSessions, ActiveOf
<1> QED BY <1>1, FS_Subset, FS_CardinalityType

\* Every step keeps both counters exact.
LEMMA CapacityStep ==
  ASSUME "ACTIVE" \notin SweptStatuses, Typed, CapacityIsExact, [Next]_vars
  PROVE  CapacityIsExact'
<1> USE TypedFacts, ActiveFinite
<1>0. active = Cardinality(ActiveSessions) /\ \A u \in Users : activeOf[u] = Cardinality(ActiveOf(u))
  BY DEF CapacityIsExact, ActiveOf
<1>1. ASSUME NEW s \in Sessions, Takes(s) PROVE CapacityIsExact'
  <2>1. /\ active' = active + 1 /\ activeOf' = [activeOf EXCEPT ![owner[s]] = activeOf[owner[s]] + 1]
        /\ owner' = owner /\ owner[s] \in Users
    BY <1>1 DEF Takes, Create
  <2>2. /\ s \notin ActiveSessions /\ ActiveSessions' = ActiveSessions \cup {s}
    BY <1>1 DEF Takes
  <2>3. Cardinality(ActiveSessions') = Cardinality(ActiveSessions) + 1
    BY <2>2, FS_AddElement
  <2>4. ASSUME NEW u \in Users PROVE activeOf'[u] = Cardinality(ActiveOf(u)')
    <3>1. CASE u = owner[s]
      <4>1. ActiveOf(u)' = ActiveOf(u) \cup {s} /\ s \notin ActiveOf(u)
        BY <2>1, <2>2, <3>1 DEF ActiveOf
      <4>2. Cardinality(ActiveOf(u)') = Cardinality(ActiveOf(u)) + 1
        BY <4>1, FS_AddElement
      <4> QED BY <1>0, <2>1, <3>1, <4>2
    <3>2. CASE u # owner[s]
      <4>1. ActiveOf(u)' = ActiveOf(u)
        BY <2>1, <2>2, <3>2 DEF ActiveOf
      <4> QED BY <1>0, <2>1, <3>2, <4>1
    <3> QED BY <3>1, <3>2
  <2> QED BY <1>0, <2>1, <2>3, <2>4 DEF CapacityIsExact, ActiveOf
<1>2. ASSUME NEW s \in Sessions, GivesBack(s), owner' = owner PROVE CapacityIsExact'
  <2>1. /\ active' = active - 1 /\ activeOf' = [activeOf EXCEPT ![owner[s]] = activeOf[owner[s]] - 1]
        /\ owner[s] \in Users
    BY <1>2 DEF GivesBack, Release
  <2>2. /\ s \in ActiveSessions /\ ActiveSessions' = ActiveSessions \ {s}
    BY <1>2 DEF GivesBack
  <2>3. Cardinality(ActiveSessions') = Cardinality(ActiveSessions) - 1
    BY <2>2, FS_RemoveElement
  <2>4. ASSUME NEW u \in Users PROVE activeOf'[u] = Cardinality(ActiveOf(u)')
    <3>1. CASE u = owner[s]
      <4>1. ActiveOf(u)' = ActiveOf(u) \ {s} /\ s \in ActiveOf(u)
        BY <1>2, <2>2, <3>1 DEF ActiveOf
      <4>2. Cardinality(ActiveOf(u)') = Cardinality(ActiveOf(u)) - 1
        BY ZenonT(60), <4>1, FS_RemoveElement
      <4> QED BY <1>0, <2>1, <3>1, <4>2
    <3>2. CASE u # owner[s]
      <4>1. ActiveOf(u)' = ActiveOf(u)
        BY <1>2, <2>2, <3>2 DEF ActiveOf
      <4> QED BY <1>0, <2>1, <3>2, <4>1
    <3> QED BY <3>1, <3>2
  <2> QED BY <1>0, <2>1, <2>3, <2>4 DEF CapacityIsExact, ActiveOf
<1>3. ASSUME UNCHANGED <<owner, ActiveSessions, active, activeOf>> PROVE CapacityIsExact'
  BY <1>3 DEF CapacityIsExact
<1> QED BY <1>1, <1>2, <1>3, CapacitySteps

\* CapacityIsExact, for every value of the constants under which expires_at does not
\* let DynamoDB delete an active item: the conditional transactions of Create, Release
\* and ReleaseExpired alone keep both counters equal to the sessions they count.
THEOREM CountersAreExact ==
  ASSUME "ACTIVE" \notin SweptStatuses
  PROVE  Spec => []CapacityIsExact
<1>1. Init => CapacityIsExact
  <2> SUFFICES ASSUME Init PROVE CapacityIsExact
    OBVIOUS
  <2>1. ActiveSessions = {} /\ \A u \in Users : {s \in ActiveSessions : owner[s] = u} = {}
    BY DEF Init, ActiveSessions, NoItem
  <2> QED BY <2>1, FS_EmptySet DEF Init, CapacityIsExact
<1>2. Typed /\ CapacityIsExact /\ [Next]_vars => CapacityIsExact'
  BY CapacityStep
<1> QED BY <1>1, <1>2, TypedInit, TypedStep, PTL DEF Spec

\* Every step is a step of the admission contract or leaves it alone.
LEMMA ContractStep ==
  ASSUME "ACTIVE" \notin SweptStatuses, Typed, CapacityIsExact, [Next]_vars
  PROVE  [Capacity!Next]_(Capacity!vars)
<1> USE TypedFacts
<1>1. ASSUME NEW s \in Sessions, Takes(s) PROVE Capacity!Take(s)
  <2>1. /\ active < GlobalLimit /\ activeOf[owner[s]] < UserLimit /\ UNCHANGED owner
        /\ owner[s] \in Users
    BY <1>1 DEF Takes, Create
  <2>2. Cardinality(ActiveSessions) < GlobalLimit
    BY <2>1 DEF CapacityIsExact
  <2>3. Cardinality(Capacity!HeldBy(owner[s])) < UserLimit
    BY <2>1 DEF CapacityIsExact, Capacity!HeldBy
  <2>4. \A S : Capacity!Cardinality(S) = Cardinality(S)
    BY DEF Capacity!Cardinality, Cardinality
  <2> QED BY <1>1, <2>1, <2>2, <2>3, <2>4 DEF Takes, Capacity!Take, Returned
<1>2. ASSUME NEW s \in Sessions, GivesBack(s), UNCHANGED owner PROVE Capacity!GiveBack(s)
  BY <1>2 DEF GivesBack, Capacity!GiveBack, Returned
<1>3. ASSUME UNCHANGED <<owner, ActiveSessions, Returned>> PROVE UNCHANGED Capacity!vars
  BY <1>3 DEF Capacity!vars, Returned
<1> QED BY <1>1, <1>2, <1>3, CapacitySteps DEF Capacity!Next

\* KeepsToCapacity, for every value of the constants: the control plane with its table,
\* its lagging index and its reconciler is a correct implementation of admission within
\* both limits, one unit per session, taken once and given back once.
THEOREM ControlPlaneKeepsToCapacity ==
  ASSUME "ACTIVE" \notin SweptStatuses
  PROVE  Spec => KeepsToCapacity
<1>1. Init => Capacity!Init
  BY SMT DEF Init, Capacity!Init, ActiveSessions, NoItem
<1>2. Typed /\ CapacityIsExact /\ [Next]_vars => [Capacity!Next]_(Capacity!vars)
  BY ContractStep
<1>3. Spec => []CapacityIsExact
  BY CountersAreExact
<1> QED BY <1>1, <1>2, <1>3, TypedInit, TypedStep, PTL DEF Spec, KeepsToCapacity
=============================================================================
