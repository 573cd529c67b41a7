------------------------- MODULE EmailDeliveryProofs ------------------------
(***************************************************************************)
(* Which emails can repeat, who may be sending and what feedback leaves,   *)
(* for any deliveries, workers, messages, lease time, handler deadline and *)
(* times of events.                                                        *)
(***************************************************************************)
EXTENDS EmailDelivery, FiniteSetTheorems, TLAPS

\* First-order reasoning is left to Zenon; leaves with arithmetic name SMT.
USE Zenon

-----------------------------------------------------------------------------
(* The inductive invariant.                                                *)

\* A handler has claimed a delivery, and its age counts from the claim.
Engaged ==
  \A w \in Workers : /\ pc[w] # "idle" => claim[w] \in Deliveries
                     /\ pc[w] = "idle" => age[w] = 0

\* The lease and the age of the handler that took it run together, so that a
\* handler younger than the lease time is the owner.
Young(w) ==
  pc[w] # "idle" /\ age[w] < LeaseTime =>
      /\ status[claim[w]] = "processing" /\ owner[claim[w]] = w
      /\ lease[claim[w]] = LeaseTime - age[w]

\* The sets that are counted.
Finite == \A d \in Deliveries : IsFiniteSet(accepted[d]) /\ IsFiniteSet(InFlight(d))

\* The earliest of a set of times, without a choice.
IsEarliest(t, T) == IF T = {} THEN t = 0 ELSE t \in T /\ \A u \in T : t <= u

\* No feedback comes before the delivery is recorded as sent.
NoEarlyFeedback == \A d \in Deliveries : status[d] \notin Sent => applied[d] = {} /\ deliveredAt[d] = 0

\* What the feedback left.
Settled(d) ==
  /\ status[d] = Worst(d)
  /\ IsEarliest(deliveredAt[d], Earlier(d, {"Delivery"}))
  /\ IsEarliest(failedAt[d], Earlier(d, {"Bounce", "Complaint"}))

EmailInv ==
  /\ TypeOK
  /\ Engaged
  /\ \A w \in Workers : Young(w)
  /\ Finite /\ OnlyLostEmailsRepeat
  /\ NoEarlyFeedback
  /\ \A d \in Deliveries : status[d] \in Sent => Settled(d)

-----------------------------------------------------------------------------
(* Types.                                                                  *)

Statuses == {"waiting_for_render", "queued", "processing", "failed"} \cup Sent
Pcs == {"idle", "prepare", "send", "mark", "fail"}

RowTypes ==
  /\ status \in [Deliveries -> Statuses]
  /\ owner \in [Deliveries -> Workers \cup {NoOwner}]
  /\ lease \in [Deliveries -> 0 .. LeaseTime]

RecordTypes ==
  /\ provider \in [Deliveries -> Messages \cup {NoMessage}]
  /\ deliveredAt \in [Deliveries -> 0 .. MaxTime]
  /\ failedAt \in [Deliveries -> 0 .. MaxTime]

HistoryTypes ==
  /\ accepted \in [Deliveries -> SUBSET Messages]
  /\ lost \in [Deliveries -> Nat]
  /\ applied \in [Deliveries -> SUBSET (EventTypes \X Times)]

WorkerTypes ==
  /\ pc \in [Workers -> Pcs]
  /\ claim \in [Workers -> Deliveries \cup {NoDelivery}]
  /\ msg \in [Workers -> Messages \cup {NoMessage}]
  /\ age \in [Workers -> 0 .. WorkerTime]

\* The invariant's parts, as the step lemmas use them.
LEMMA InvFacts ==
  ASSUME EmailInv
  PROVE  /\ RowTypes /\ RecordTypes /\ HistoryTypes /\ WorkerTypes /\ Engaged
         /\ \A d \in Deliveries : lease[d] \in Nat /\ lost[d] \in Nat
         /\ \A w \in Workers : age[w] \in Nat
<1>1. RowTypes /\ RecordTypes /\ HistoryTypes /\ WorkerTypes
  BY DEF EmailInv, TypeOK, RowTypes, RecordTypes, HistoryTypes, WorkerTypes, Statuses, Pcs
<1>2. \A d \in Deliveries : lease[d] \in Nat /\ lost[d] \in Nat
  BY SMT, <1>1 DEF RowTypes, HistoryTypes
<1>3. \A w \in Workers : age[w] \in Nat
  BY SMT, <1>1 DEF WorkerTypes
<1> QED BY <1>1, <1>2, <1>3 DEF EmailInv

\* The bounds of the ranges.
LEMMA RangeFacts ==
  /\ 0 \in 0 .. LeaseTime /\ LeaseTime \in 0 .. LeaseTime
  /\ 0 \in 0 .. WorkerTime /\ 0 \in 0 .. MaxTime
  /\ \A t \in Times : t \in 0 .. MaxTime /\ t \in Nat /\ t # 0
BY SMT, DeliveryConstants DEF Times

\* A handler that returns is idle.
LEMMA ReturnTypes ==
  ASSUME WorkerTypes, Engaged, NEW w \in Workers, Return(w)
  PROVE  /\ WorkerTypes' /\ Engaged' /\ pc'[w] = "idle" /\ age'[w] = 0
         /\ \A u \in Workers \ {w} : UNCHANGED <<pc[u], claim[u], msg[u], age[u]>>
<1>1. /\ pc' = [pc EXCEPT ![w] = "idle"] /\ claim' = [claim EXCEPT ![w] = NoDelivery]
      /\ msg' = [msg EXCEPT ![w] = NoMessage] /\ age' = [age EXCEPT ![w] = 0]
  BY DEF Return, Goto
<1>2. WorkerTypes'
  BY <1>1, RangeFacts DEF WorkerTypes, Pcs
<1>3. pc'[w] = "idle" /\ age'[w] = 0
  BY <1>1 DEF WorkerTypes
<1>4. \A u \in Workers \ {w} : pc'[u] = pc[u] /\ claim'[u] = claim[u] /\ msg'[u] = msg[u] /\ age'[u] = age[u]
  BY <1>1 DEF WorkerTypes
<1>5. Engaged'
  BY <1>3, <1>4 DEF Engaged
<1> QED BY <1>2, <1>3, <1>4, <1>5

\* What a step may do to the handlers: one claims, goes on or returns, or time
\* passes for all.
LEMMA WorkerSteps ==
  ASSUME EmailInv, Next
  PROVE  /\ WorkerTypes' /\ Engaged'
         /\ \/ UNCHANGED workerVars
            \/ Tick
            \/ \E w \in Workers :
                  /\ \A u \in Workers \ {w} : UNCHANGED <<pc[u], claim[u], msg[u], age[u]>>
                  /\ \/ \E d \in Deliveries :
                           Claim(w, d) /\ pc'[w] = "prepare" /\ claim'[w] = d /\ age'[w] = 0
                     \/ pc[w] # "idle" /\ UNCHANGED <<claim[w], age[w]>> /\ UNCHANGED leaseVars
                     \/ pc'[w] = "idle"
<1>0. WorkerTypes /\ Engaged
  BY InvFacts
<1>1. CASE UNCHANGED workerVars
  BY <1>0, <1>1 DEF workerVars, WorkerTypes, Engaged
<1>2. CASE Tick
  <2>1. UNCHANGED <<pc, claim, msg>> /\ age' = [w \in Workers |-> IF pc[w] = "idle" THEN 0 ELSE age[w] + 1]
    BY <1>2 DEF Tick
  <2>2. \A w \in Workers : pc[w] # "idle" => age[w] < WorkerTime
    BY <1>2 DEF Tick
  <2>3. age' \in [Workers -> 0 .. WorkerTime]
    BY SMT, <1>0, <2>1, <2>2, DeliveryConstants DEF WorkerTypes
  <2>4. Engaged'
    BY <1>0, <2>1 DEF Engaged
  <2> QED BY <1>0, <1>2, <2>1, <2>3, <2>4 DEF WorkerTypes
<1>3. ASSUME NEW w \in Workers, NEW d \in Deliveries, Claim(w, d)
      PROVE  /\ WorkerTypes' /\ Engaged'
             /\ pc'[w] = "prepare" /\ claim'[w] = d /\ age'[w] = 0
             /\ \A u \in Workers \ {w} : UNCHANGED <<pc[u], claim[u], msg[u], age[u]>>
  <2>1. /\ pc[w] = "idle" /\ pc' = [pc EXCEPT ![w] = "prepare"] /\ claim' = [claim EXCEPT ![w] = d]
        /\ UNCHANGED <<msg, age>>
    BY <1>3 DEF Claim, Goto
  <2>2. WorkerTypes'
    BY <1>0, <2>1 DEF WorkerTypes, Pcs
  <2>3. pc'[w] = "prepare" /\ claim'[w] = d /\ age'[w] = 0
    BY <1>0, <2>1 DEF WorkerTypes, Engaged
  <2>4. \A u \in Workers \ {w} : pc'[u] = pc[u] /\ claim'[u] = claim[u] /\ msg'[u] = msg[u] /\ age'[u] = age[u]
    BY <1>0, <2>1 DEF WorkerTypes
  <2>5. Engaged'
    BY <1>0, <2>3, <2>4 DEF Engaged
  <2> QED BY <2>2, <2>3, <2>4, <2>5
<1>4. ASSUME NEW w \in Workers, NEW l \in Pcs \ {"idle"}, Goto(w, l), pc[w] # "idle",
             UNCHANGED <<claim, age>>, msg' = msg \/ \E m \in Messages : msg' = [msg EXCEPT ![w] = m]
      PROVE  /\ WorkerTypes' /\ Engaged' /\ UNCHANGED <<claim[w], age[w]>>
             /\ \A u \in Workers \ {w} : UNCHANGED <<pc[u], claim[u], msg[u], age[u]>>
  <2>1. pc' = [pc EXCEPT ![w] = l]
    BY <1>4 DEF Goto
  <2>2. WorkerTypes'
    BY <1>0, <1>4, <2>1 DEF WorkerTypes
  <2>3. pc'[w] = l
    BY <1>0, <2>1 DEF WorkerTypes
  <2>4. \A u \in Workers \ {w} : pc'[u] = pc[u] /\ claim'[u] = claim[u] /\ msg'[u] = msg[u] /\ age'[u] = age[u]
    BY <1>0, <1>4, <2>1 DEF WorkerTypes
  <2>5. Engaged'
    BY <1>0, <1>4, <2>3, <2>4 DEF Engaged
  <2> QED BY <1>4, <2>2, <2>4, <2>5
<1>5. ASSUME NEW w \in Workers, Work(w) \/ SendError(w) \/ WorkerStop(w)
      PROVE  \/ Return(w)
             \/ /\ \E l \in Pcs \ {"idle"} : Goto(w, l)
                /\ pc[w] # "idle" /\ UNCHANGED <<claim, age, leaseVars>>
                /\ msg' = msg \/ \E m \in Messages : msg' = [msg EXCEPT ![w] = m]
  BY <1>5 DEF Work, VerifyLease, SendRawEmail, MarkSent, MarkFailed, SendError, WorkerStop, Pcs
<1>6. ASSUME \/ \E d \in Deliveries : QueueWaiting(d)
             \/ \E d \in Deliveries, m \in Messages, type \in EventTypes, t \in Times :
                   ApplyFeedback(d, m, type, t)
      PROVE  UNCHANGED workerVars
  BY <1>6 DEF QueueWaiting, ApplyFeedback
<1>7. CASE \E w \in Workers, d \in Deliveries : Claim(w, d)
  BY <1>3, <1>7
<1>8. CASE \E w \in Workers : Work(w) \/ SendError(w) \/ WorkerStop(w)
  <2> PICK w \in Workers : Work(w) \/ SendError(w) \/ WorkerStop(w)
    BY <1>8
  <2>1. CASE Return(w)
    BY <1>0, <2>1, ReturnTypes
  <2>2. CASE /\ \E l \in Pcs \ {"idle"} : Goto(w, l)
             /\ pc[w] # "idle" /\ UNCHANGED <<claim, age, leaseVars>>
             /\ msg' = msg \/ \E m \in Messages : msg' = [msg EXCEPT ![w] = m]
    BY <1>4, <2>2
  <2> QED BY <1>5, <2>1, <2>2
<1> QED BY <1>1, <1>2, <1>6, <1>7, <1>8 DEF Next

\* The steps by which a handler ends its claim on a delivery.
Ends(w) == pc[w] \in {"mark", "fail"} /\ HoldsLease(w) /\ Return(w)

\* What a step may do to the row of a delivery: nothing but time passing,
\* queueing it, a claim, the end of a claim, or feedback.
LEMMA RowSteps ==
  ASSUME EmailInv, Next
  PROVE  /\ RowTypes'
         /\ \A d \in Deliveries :
              \/ UNCHANGED <<status[d], owner[d]>> /\ (UNCHANGED lease[d] \/ Tick)
              \/ QueueWaiting(d) /\ status'[d] = "queued"
              \/ \E w \in Workers : /\ Claim(w, d) /\ status'[d] = "processing" /\ owner'[d] = w
                                    /\ lease'[d] = LeaseTime
              \/ \E w \in Workers : /\ Ends(w) /\ claim[w] = d
                                    /\ \/ MarkFailed(w) /\ status'[d] = "failed"
                                       \/ MarkSent(w) /\ status'[d] = "sent"
              \/ \E m \in Messages, type \in EventTypes, t \in Times :
                    /\ ApplyFeedback(d, m, type, t) /\ status'[d] = ResolveTransition(status[d], type)
<1>0. RowTypes /\ Engaged
  BY InvFacts
<1>1. CASE UNCHANGED leaseVars
  BY <1>0, <1>1 DEF leaseVars, RowTypes
<1>2. CASE Tick
  <2>1. lease' \in [Deliveries -> 0 .. LeaseTime]
    BY SMT, <1>0, <1>2, DeliveryConstants DEF Tick, RowTypes
  <2>2. UNCHANGED <<status, owner>>
    BY <1>2 DEF Tick
  <2> QED BY <1>0, <1>2, <2>1, <2>2 DEF RowTypes
<1>3. ASSUME NEW e \in Deliveries, QueueWaiting(e)
      PROVE  /\ RowTypes' /\ status'[e] = "queued"
             /\ \A d \in Deliveries \ {e} : status'[d] = status[d] /\ owner'[d] = owner[d] /\ lease'[d] = lease[d]
  BY <1>0, <1>3 DEF QueueWaiting, RowTypes, Statuses
<1>4. ASSUME NEW w \in Workers, NEW e \in Deliveries, Claim(w, e)
      PROVE  /\ RowTypes' /\ status'[e] = "processing" /\ owner'[e] = w /\ lease'[e] = LeaseTime
             /\ \A d \in Deliveries \ {e} : status'[d] = status[d] /\ owner'[d] = owner[d] /\ lease'[d] = lease[d]
  BY <1>0, <1>4, RangeFacts DEF Claim, RowTypes, Statuses
<1>5. ASSUME NEW w \in Workers, claim[w] \in Deliveries, NEW s \in Statuses, Release(w, s)
      PROVE  /\ RowTypes' /\ status'[claim[w]] = s
             /\ \A d \in Deliveries \ {claim[w]} :
                   status'[d] = status[d] /\ owner'[d] = owner[d] /\ lease'[d] = lease[d]
  BY <1>0, <1>5, RangeFacts DEF Release, RowTypes
<1>6. ASSUME NEW e \in Deliveries, NEW m \in Messages, NEW type \in EventTypes, NEW t \in Times,
             ApplyFeedback(e, m, type, t)
      PROVE  /\ RowTypes' /\ status'[e] = ResolveTransition(status[e], type)
             /\ \A d \in Deliveries \ {e} : status'[d] = status[d] /\ owner'[d] = owner[d] /\ lease'[d] = lease[d]
  <2>1. ResolveTransition(status[e], type) \in Statuses
    BY SMT DEF ResolveTransition, Statuses, Sent
  <2>2. status' = [status EXCEPT ![e] = ResolveTransition(status[e], type)] /\ UNCHANGED <<owner, lease>>
    BY <1>6 DEF ApplyFeedback
  <2> QED BY <1>0, <2>1, <2>2 DEF RowTypes
<1>7. ASSUME NEW w \in Workers, Work(w) \/ SendError(w) \/ WorkerStop(w)
      PROVE  \/ UNCHANGED leaseVars
             \/ Ends(w) /\ MarkFailed(w) /\ Release(w, "failed")
             \/ Ends(w) /\ MarkSent(w) /\ Release(w, "sent")
  BY <1>7 DEF Work, VerifyLease, SendRawEmail, MarkSent, MarkFailed, SendError, WorkerStop, Ends
<1>8. CASE \E w \in Workers : Work(w) \/ SendError(w) \/ WorkerStop(w)
  <2> PICK w \in Workers : Work(w) \/ SendError(w) \/ WorkerStop(w)
    BY <1>8
  <2>1. Ends(w) => claim[w] \in Deliveries
    BY <1>0 DEF Ends, Engaged
  <2>2. "failed" \in Statuses /\ "sent" \in Statuses
    BY DEF Statuses, Sent
  <2>3. CASE Ends(w) /\ MarkFailed(w) /\ Release(w, "failed")
    <3>1. /\ RowTypes' /\ status'[claim[w]] = "failed"
          /\ \A d \in Deliveries \ {claim[w]} :
                status'[d] = status[d] /\ owner'[d] = owner[d] /\ lease'[d] = lease[d]
      BY <1>5, <2>1, <2>2, <2>3
    <3> QED BY <2>3, <3>1
  <2>4. CASE Ends(w) /\ MarkSent(w) /\ Release(w, "sent")
    <3>1. /\ RowTypes' /\ status'[claim[w]] = "sent"
          /\ \A d \in Deliveries \ {claim[w]} :
                status'[d] = status[d] /\ owner'[d] = owner[d] /\ lease'[d] = lease[d]
      BY <1>5, <2>1, <2>2, <2>4
    <3> QED BY <2>4, <3>1
  <2> QED BY <1>1, <1>7, <2>3, <2>4
<1>9. CASE \E w \in Workers, d \in Deliveries : Claim(w, d)
  <2> PICK w \in Workers, e \in Deliveries : Claim(w, e)
    BY <1>9
  <2>1. /\ RowTypes' /\ status'[e] = "processing" /\ owner'[e] = w /\ lease'[e] = LeaseTime
        /\ \A d \in Deliveries \ {e} : status'[d] = status[d] /\ owner'[d] = owner[d] /\ lease'[d] = lease[d]
    BY <1>4
  <2> HIDE <1>4
  <2> QED BY <2>1
<1>10. CASE \E d \in Deliveries : QueueWaiting(d)
  BY <1>3, <1>10
<1>11. CASE \E d \in Deliveries, m \in Messages, type \in EventTypes, t \in Times : ApplyFeedback(d, m, type, t)
  BY ZenonT(60), <1>6, <1>11
<1> QED BY <1>1, <1>2, <1>8, <1>9, <1>10, <1>11 DEF Next

\* A handler younger than the lease time stays the owner.
LEMMA YoungStays ==
  ASSUME EmailInv, Next, NEW w \in Workers
  PROVE  Young(w)'
<1>0. /\ Young(w) /\ WorkerTypes /\ RowTypes /\ Engaged /\ age[w] \in Nat /\ LeaseTime \in Nat \ {0}
      /\ \A d \in Deliveries : lease[d] \in Nat
  BY InvFacts, DeliveryConstants DEF EmailInv
<1>1. CASE UNCHANGED <<pc[w], claim[w], age[w]>> /\ ~Tick
  <2> SUFFICES ASSUME pc[w] # "idle", age[w] < LeaseTime
               PROVE  /\ status'[claim[w]] = "processing" /\ owner'[claim[w]] = w
                      /\ lease'[claim[w]] = LeaseTime - age[w]
    BY <1>1 DEF Young
  <2>1. /\ claim[w] \in Deliveries /\ status[claim[w]] = "processing" /\ owner[claim[w]] = w
        /\ lease[claim[w]] = LeaseTime - age[w]
    BY <1>0 DEF Young, Engaged
  <2>2. lease[claim[w]] # 0
    BY SMT, <1>0, <2>1
  <2>3. ~QueueWaiting(claim[w])
    BY <2>1 DEF QueueWaiting
  <2>4. \A u \in Workers : ~Claim(u, claim[w])
    BY <2>2 DEF Claim, Claimable
  <2>5. ASSUME NEW u \in Workers, Ends(u), claim[u] = claim[w] PROVE FALSE
    <3>1. u = w
      BY <2>1, <2>5 DEF Ends, HoldsLease
    <3>2. pc'[w] = "idle"
      BY <1>0, <2>5, <3>1 DEF Ends, Return, Goto, WorkerTypes
    <3> QED BY <1>1, <3>2
  <2>6. \A m \in Messages, type \in EventTypes, t \in Times : ~ApplyFeedback(claim[w], m, type, t)
    BY <2>1 DEF ApplyFeedback, Sent
  <2> QED BY <1>1, <2>1, <2>3, <2>4, <2>5, <2>6, RowSteps
<1>2. CASE Tick
  <2>1. /\ UNCHANGED <<status, owner, pc, claim>>
        /\ lease' = [d \in Deliveries |-> IF lease[d] > 0 THEN lease[d] - 1 ELSE 0]
        /\ age' = [u \in Workers |-> IF pc[u] = "idle" THEN 0 ELSE age[u] + 1]
    BY <1>2 DEF Tick
  <2> SUFFICES ASSUME pc[w] # "idle", age'[w] < LeaseTime
               PROVE  /\ status[claim[w]] = "processing" /\ owner[claim[w]] = w
                      /\ lease'[claim[w]] = LeaseTime - age'[w]
    BY <2>1 DEF Young
  <2>2. age'[w] = age[w] + 1 /\ claim[w] \in Deliveries
    BY <1>0, <2>1 DEF Engaged
  <2>3. age[w] < LeaseTime
    BY SMT, <1>0, <2>2
  <2>4. /\ status[claim[w]] = "processing" /\ owner[claim[w]] = w
        /\ lease[claim[w]] = LeaseTime - age[w]
    BY <1>0, <2>3 DEF Young
  <2>5. lease'[claim[w]] = IF lease[claim[w]] > 0 THEN lease[claim[w]] - 1 ELSE 0
    BY <2>1, <2>2
  <2>6. lease'[claim[w]] = LeaseTime - age'[w]
    BY SMT, <1>0, <2>2, <2>3, <2>4, <2>5
  <2> QED BY <2>4, <2>6
<1>3. CASE pc'[w] = "idle"
  BY <1>3 DEF Young
<1>4. ASSUME NEW d \in Deliveries, Claim(w, d), pc'[w] = "prepare", claim'[w] = d, age'[w] = 0
      PROVE  Young(w)'
  <2>1. status'[d] = "processing" /\ owner'[d] = w /\ lease'[d] = LeaseTime
    BY <1>0, <1>4 DEF Claim, RowTypes
  <2>2. LeaseTime = LeaseTime - 0
    BY SMT, <1>0
  <2> QED BY <1>4, <2>1, <2>2 DEF Young
<1>5. CASE pc[w] # "idle" /\ UNCHANGED <<claim[w], age[w]>> /\ UNCHANGED leaseVars
  BY <1>0, <1>5 DEF Young, leaseVars
<1>6. ASSUME NEW u \in Workers, u # w, UNCHANGED <<pc[w], claim[w], msg[w], age[w]>>
      PROVE  Young(w)'
  BY <1>1, <1>2, <1>6
<1>7. CASE UNCHANGED workerVars
  <2>1. UNCHANGED <<pc[w], claim[w], age[w]>>
    BY SMT, <1>7 DEF workerVars
  <2> QED BY <1>1, <1>2, <2>1
<1>8. ASSUME NEW u \in Workers,
             \A v \in Workers \ {u} : UNCHANGED <<pc[v], claim[v], msg[v], age[v]>>,
             \/ \E d \in Deliveries : Claim(u, d) /\ pc'[u] = "prepare" /\ claim'[u] = d /\ age'[u] = 0
             \/ pc[u] # "idle" /\ UNCHANGED <<claim[u], age[u]>> /\ UNCHANGED leaseVars
             \/ pc'[u] = "idle"
      PROVE  Young(w)'
  <2>1. CASE u = w
    BY <1>3, <1>4, <1>5, <1>8, <2>1
  <2>2. CASE u # w
    BY <1>6, <1>8, <2>2
  <2> QED BY <2>1, <2>2
<1> QED BY <1>2, <1>7, <1>8, WorkerSteps

-----------------------------------------------------------------------------
(* Counting the emails.                                                    *)

\* Being recorded as sent changes only with MarkSent.
LEMMA SentSteps ==
  ASSUME EmailInv, Next, NEW d \in Deliveries
  PROVE  \/ status'[d] \in Sent <=> status[d] \in Sent
         \/ \E w \in Workers : Ends(w) /\ claim[w] = d /\ MarkSent(w)
<1>1. QueueWaiting(d) => status[d] \notin Sent
  BY DEF QueueWaiting, Sent
<1>2. \A w \in Workers : Claim(w, d) => status[d] \notin Sent
  BY DEF Claim, Claimable, Sent
<1>3. \A w \in Workers : Ends(w) /\ claim[w] = d => status[d] \notin Sent
  BY DEF Ends, HoldsLease, Sent
<1>4. \A m \in Messages, type \in EventTypes, t \in Times :
         ApplyFeedback(d, m, type, t) => status[d] \in Sent
  BY DEF ApplyFeedback
<1>5. \A type \in EventTypes : ResolveTransition(status[d], type) \in Sent
  BY SMT DEF ResolveTransition, Sent
<1>6. "queued" \notin Sent /\ "processing" \notin Sent /\ "failed" \notin Sent
  BY DEF Sent
<1> QED BY <1>1, <1>2, <1>3, <1>4, <1>5, <1>6, RowSteps

\* The emails about to be recorded, when no handler starts or ends that.
LEMMA SameInFlight ==
  ASSUME \A w \in Workers : /\ pc'[w] = "mark" <=> pc[w] = "mark"
                            /\ pc[w] = "mark" => claim'[w] = claim[w],
         NEW d \in Deliveries
  PROVE  InFlight(d)' = InFlight(d)
BY DEF InFlight

\* The count of a delivery nothing happens to.
CountOf(d) ==
  /\ IsFiniteSet(accepted[d]) /\ IsFiniteSet(InFlight(d))
  /\ Cardinality(accepted[d]) =
        lost[d] + Cardinality(InFlight(d)) + (IF status[d] \in Sent THEN 1 ELSE 0)

\* A step that leaves emails and sent-ness alone keeps the count.
LEMMA SameCount ==
  ASSUME NEW d \in Deliveries, CountOf(d), UNCHANGED <<accepted[d], lost[d]>>,
         InFlight(d)' = InFlight(d), status'[d] \in Sent <=> status[d] \in Sent
  PROVE  CountOf(d)'
BY DEF CountOf

\* SES accepts one more email; it is in flight or lost.
LEMMA SendCounts ==
  ASSUME EmailInv, Next, NEW w \in Workers, NEW m \in Messages, SendRawEmail(w, m),
         NEW d \in Deliveries
  PROVE  CountOf(d)'
<1>0. /\ WorkerTypes /\ HistoryTypes /\ claim[w] \in Deliveries /\ CountOf(d) /\ lost[d] \in Nat
      /\ pc[w] = "send" /\ m \notin accepted[d]
  BY InvFacts DEF EmailInv, Finite, OnlyLostEmailsRepeat, CountOf, SendRawEmail, Engaged
<1>1. UNCHANGED status /\ accepted' = [accepted EXCEPT ![claim[w]] = @ \cup {m}] /\ UNCHANGED claim
  BY DEF SendRawEmail, leaseVars
<1>2. CASE claim[w] # d
  <2>1. accepted'[d] = accepted[d] /\ lost'[d] = lost[d]
    BY <1>0, <1>1, <1>2 DEF SendRawEmail, Lose, HistoryTypes
  <2>2. InFlight(d)' = InFlight(d)
    BY <1>0, <1>1, <1>2 DEF InFlight, SendRawEmail, Goto, WorkerTypes
  <2> QED BY <1>0, <1>1, <2>1, <2>2, SameCount
<1>3. CASE claim[w] = d
  <2>1. accepted'[d] = accepted[d] \cup {m}
    BY <1>0, <1>1, <1>3 DEF HistoryTypes
  <2>2. IsFiniteSet(accepted'[d]) /\ Cardinality(accepted'[d]) = Cardinality(accepted[d]) + 1
    BY ZenonT(60), <1>0, <2>1, FS_AddElement DEF CountOf
  <2>3. CASE Goto(w, "mark") /\ UNCHANGED lost
    <3>1. w \notin InFlight(d) /\ InFlight(d)' = InFlight(d) \cup {w}
      BY <1>0, <1>1, <1>3, <2>3 DEF InFlight, Goto, WorkerTypes
    <3>2. IsFiniteSet(InFlight(d)') /\ Cardinality(InFlight(d)') = Cardinality(InFlight(d)) + 1
      BY <1>0, <3>1, FS_AddElement DEF CountOf
    <3>3. Cardinality(InFlight(d)) \in Nat
      BY <1>0, FS_CardinalityType DEF CountOf
    <3>4. Cardinality(accepted[d]) = lost[d] + Cardinality(InFlight(d)) + (IF status[d] \in Sent THEN 1 ELSE 0)
      BY <1>0 DEF CountOf
    <3>5. Cardinality(accepted'[d]) =
             lost'[d] + Cardinality(InFlight(d)') + (IF status'[d] \in Sent THEN 1 ELSE 0)
      BY SMT, <1>0, <1>1, <2>2, <2>3, <3>2, <3>3, <3>4
    <3> QED BY <2>2, <3>2, <3>5 DEF CountOf
  <2>4. CASE Goto(w, "fail") /\ Lose(w)
    <3>1. InFlight(d)' = InFlight(d)
      BY <1>0, <1>1, <1>3, <2>4 DEF InFlight, Goto, WorkerTypes
    <3>2. lost'[d] = lost[d] + 1
      BY <1>0, <1>3, <2>4 DEF Lose, HistoryTypes
    <3>3. Cardinality(InFlight(d)) \in Nat
      BY <1>0, FS_CardinalityType DEF CountOf
    <3>4. Cardinality(accepted[d]) = lost[d] + Cardinality(InFlight(d)) + (IF status[d] \in Sent THEN 1 ELSE 0)
      BY <1>0 DEF CountOf
    <3>5. Cardinality(accepted'[d]) =
             lost'[d] + Cardinality(InFlight(d)') + (IF status'[d] \in Sent THEN 1 ELSE 0)
      BY SMT, <1>0, <1>1, <2>2, <3>1, <3>2, <3>3, <3>4
    <3> QED BY <1>0, <2>2, <3>1, <3>5 DEF CountOf
  <2> QED BY <2>3, <2>4 DEF SendRawEmail
<1> QED BY <1>2, <1>3

\* An email in flight is recorded or lost.
LEMMA RecordCounts ==
  ASSUME EmailInv, Next, NEW w \in Workers, pc[w] = "mark", MarkSent(w) \/ WorkerStop(w),
         NEW d \in Deliveries
  PROVE  CountOf(d)'
<1>0. /\ WorkerTypes /\ HistoryTypes /\ RowTypes /\ claim[w] \in Deliveries /\ CountOf(d)
      /\ lost[d] \in Nat /\ UNCHANGED accepted /\ Return(w)
  BY InvFacts DEF EmailInv, Finite, OnlyLostEmailsRepeat, CountOf, MarkSent, WorkerStop, Engaged
<1>1. /\ pc' = [pc EXCEPT ![w] = "idle"] /\ claim' = [claim EXCEPT ![w] = NoDelivery]
  BY <1>0 DEF Return, Goto
<1>2. CASE claim[w] # d
  <2>1. lost'[d] = lost[d]
    BY <1>0, <1>2 DEF MarkSent, WorkerStop, Lose, HistoryTypes
  <2>2. InFlight(d)' = InFlight(d)
    BY <1>0, <1>1, <1>2 DEF InFlight, WorkerTypes
  <2>3. status'[d] = status[d]
    BY <1>0, <1>2 DEF MarkSent, WorkerStop, Release, RowTypes, leaseVars
  <2> QED BY <1>0, <2>1, <2>2, <2>3, SameCount
<1>3. CASE claim[w] = d
  <2>1. w \in InFlight(d) /\ InFlight(d)' = InFlight(d) \ {w}
    BY <1>0, <1>1, <1>3 DEF InFlight, WorkerTypes
  <2>2. /\ IsFiniteSet(InFlight(d)') /\ Cardinality(InFlight(d)') = Cardinality(InFlight(d)) - 1
        /\ Cardinality(InFlight(d)) \in Nat
    <3>1. IsFiniteSet(InFlight(d))
      BY <1>0 DEF CountOf
    <3>2. /\ IsFiniteSet(InFlight(d) \ {w})
          /\ Cardinality(InFlight(d) \ {w}) = Cardinality(InFlight(d)) - 1
      BY <2>1, <3>1, FS_RemoveElement
    <3> QED BY <2>1, <3>1, <3>2, FS_CardinalityType
  <2>3. \/ lost'[d] = lost[d] /\ status[d] \notin Sent /\ status'[d] \in Sent
        \/ lost'[d] = lost[d] + 1 /\ status'[d] = status[d]
    <3>1. CASE MarkSent(w) /\ HoldsLease(w)
      BY <1>0, <1>3, <3>1 DEF MarkSent, HoldsLease, Release, RowTypes, Sent
    <3>2. CASE Lose(w) /\ UNCHANGED leaseVars
      BY <1>0, <1>3, <3>2 DEF Lose, leaseVars, HistoryTypes
    <3> QED BY <3>1, <3>2 DEF MarkSent, WorkerStop
  <2>4. Cardinality(accepted[d]) = lost[d] + Cardinality(InFlight(d)) + (IF status[d] \in Sent THEN 1 ELSE 0)
    BY <1>0 DEF CountOf
  <2>5. Cardinality(accepted'[d]) =
           lost'[d] + Cardinality(InFlight(d)') + (IF status'[d] \in Sent THEN 1 ELSE 0)
    BY SMT, <1>0, <2>2, <2>3, <2>4
  <2> QED BY <1>0, <2>2, <2>5 DEF CountOf
<1> QED BY <1>2, <1>3

\* Every step keeps the count of every delivery.
LEMMA CountsStay ==
  ASSUME EmailInv, Next, NEW d \in Deliveries
  PROVE  CountOf(d)'
<1>0. CountOf(d) /\ WorkerTypes /\ Engaged
  BY InvFacts DEF EmailInv, Finite, OnlyLostEmailsRepeat, CountOf
<1>1. CASE \E w \in Workers, m \in Messages : SendRawEmail(w, m)
  BY <1>1, SendCounts
<1>2. CASE \E w \in Workers : pc[w] = "mark" /\ (MarkSent(w) \/ WorkerStop(w))
  BY <1>2, RecordCounts
<1>3. ASSUME UNCHANGED <<accepted, lost>>, \A w \in Workers : ~MarkSent(w),
             \A w \in Workers : /\ pc'[w] = "mark" <=> pc[w] = "mark"
                                /\ pc[w] = "mark" => claim'[w] = claim[w]
      PROVE  CountOf(d)'
  <2>1. InFlight(d)' = InFlight(d)
    BY <1>3, SameInFlight
  <2>2. status'[d] \in Sent <=> status[d] \in Sent
    BY <1>3, SentSteps
  <2>3. accepted'[d] = accepted[d] /\ lost'[d] = lost[d]
    BY <1>3
  <2> QED BY <1>0, <2>1, <2>2, <2>3, SameCount
<1>4. ASSUME NEW w \in Workers, pc[w] # "mark",
             \/ \E e \in Deliveries : Claim(w, e)
             \/ VerifyLease(w) \/ SendError(w) \/ MarkFailed(w) \/ WorkerStop(w)
      PROVE  /\ UNCHANGED <<accepted, lost>> /\ \A u \in Workers : ~MarkSent(u)
             /\ \A u \in Workers : /\ pc'[u] = "mark" <=> pc[u] = "mark"
                                   /\ pc[u] = "mark" => claim'[u] = claim[u]
  <2>1. UNCHANGED <<accepted, lost>>
    BY <1>4 DEF Claim, VerifyLease, SendError, MarkFailed, WorkerStop, history
  <2>2. /\ \E l \in {"idle", "prepare", "send", "fail"} : pc' = [pc EXCEPT ![w] = l]
        /\ claim' = claim \/ \E c : claim' = [claim EXCEPT ![w] = c]
    BY <1>4 DEF Claim, VerifyLease, SendError, MarkFailed, WorkerStop, Return, Goto
  <2>3. \A u \in Workers : /\ pc'[u] = "mark" <=> pc[u] = "mark"
                           /\ pc[u] = "mark" => claim'[u] = claim[u]
    BY <1>0, <1>4, <2>2 DEF WorkerTypes
  <2>4. ASSUME NEW u \in Workers, MarkSent(u) PROVE FALSE
    <3>1. pc[u] = "mark" /\ pc'[u] = "idle"
      BY <1>0, <2>4 DEF MarkSent, Return, Goto, WorkerTypes
    <3> QED BY <2>3, <3>1
  <2> QED BY <2>1, <2>3, <2>4
<1>5. ASSUME \/ \E e \in Deliveries : QueueWaiting(e)
             \/ \E e \in Deliveries, m \in Messages, type \in EventTypes, t \in Times :
                   ApplyFeedback(e, m, type, t)
             \/ Tick
      PROVE  CountOf(d)'
  <2>1. UNCHANGED <<accepted, lost, pc, claim>>
    BY <1>5 DEF QueueWaiting, ApplyFeedback, Tick, history, workerVars
  <2>2. ASSUME NEW u \in Workers, MarkSent(u) PROVE FALSE
    <3>1. pc[u] = "mark" /\ pc'[u] = "idle"
      BY <1>0, <2>2 DEF MarkSent, Return, Goto, WorkerTypes
    <3> QED BY <2>1, <3>1
  <2> QED BY <1>3, <2>1, <2>2
<1>6. ASSUME NEW w \in Workers, Work(w) \/ SendError(w) \/ WorkerStop(w)
      PROVE  CountOf(d)'
  <2>1. CASE \E m \in Messages : SendRawEmail(w, m)
    BY <1>1, <2>1
  <2>2. CASE pc[w] = "mark" /\ (MarkSent(w) \/ WorkerStop(w))
    BY <1>2, <2>2
  <2>3. CASE pc[w] # "mark" /\ (VerifyLease(w) \/ SendError(w) \/ MarkFailed(w) \/ WorkerStop(w))
    BY <1>3, <1>4, <2>3
  <2> QED BY <1>6, <2>1, <2>2, <2>3 DEF Work, VerifyLease, SendError, MarkFailed, MarkSent
<1>7. ASSUME NEW w \in Workers, NEW e \in Deliveries, Claim(w, e)
      PROVE  CountOf(d)'
  <2>1. pc[w] # "mark"
    BY <1>7 DEF Claim
  <2> QED BY <1>3, <1>4, <1>7, <2>1
<1> QED BY <1>5, <1>6, <1>7 DEF Next

-----------------------------------------------------------------------------
(* Feedback.                                                               *)

\* What a step may do to the record of a delivery.
LEMMA RecordSteps ==
  ASSUME EmailInv, Next
  PROVE  /\ RecordTypes' /\ HistoryTypes'
         /\ \A d \in Deliveries :
              \/ /\ provider'[d] = provider[d] /\ deliveredAt'[d] = deliveredAt[d]
                 /\ failedAt'[d] = failedAt[d] /\ applied'[d] = applied[d]
              \/ \E w \in Workers : /\ Ends(w) /\ claim[w] = d /\ applied'[d] = applied[d]
                                    /\ deliveredAt'[d] = deliveredAt[d]
                                    /\ MarkSent(w) => failedAt'[d] = 0
              \/ \E m \in Messages, type \in EventTypes, t \in Times : ApplyFeedback(d, m, type, t)
<1>0. RecordTypes /\ HistoryTypes /\ WorkerTypes /\ Engaged
  BY InvFacts
<1>1. CASE UNCHANGED <<recordVars, history>>
  BY <1>0, <1>1 DEF recordVars, history, RecordTypes, HistoryTypes
<1>2. ASSUME NEW w \in Workers, claim[w] \in Deliveries, Lose(w) \/ UNCHANGED lost
      PROVE  lost' \in [Deliveries -> Nat]
  BY SMT, <1>0, <1>2 DEF HistoryTypes, Lose
<1>3. ASSUME NEW w \in Workers, NEW m \in Messages, SendRawEmail(w, m)
      PROVE  HistoryTypes' /\ UNCHANGED <<recordVars, applied>>
  <2>1. claim[w] \in Deliveries
    BY <1>0, <1>3 DEF SendRawEmail, Engaged
  <2>2. lost' \in [Deliveries -> Nat]
    BY <1>2, <1>3, <2>1 DEF SendRawEmail
  <2>3. accepted' = [accepted EXCEPT ![claim[w]] = @ \cup {m}] /\ UNCHANGED <<recordVars, applied>>
    BY <1>3 DEF SendRawEmail
  <2>4. accepted' \in [Deliveries -> SUBSET Messages]
    BY <1>0, <2>1, <2>3 DEF HistoryTypes
  <2> QED BY <1>0, <2>2, <2>3, <2>4 DEF HistoryTypes
<1>4. ASSUME NEW w \in Workers, WorkerStop(w)
      PROVE  HistoryTypes' /\ UNCHANGED <<recordVars, applied>>
  <2>1. claim[w] \in Deliveries
    BY <1>0, <1>4 DEF WorkerStop, Engaged
  <2>2. lost' \in [Deliveries -> Nat] /\ UNCHANGED <<accepted, applied, recordVars>>
    BY <1>2, <1>4, <2>1 DEF WorkerStop
  <2> QED BY <1>0, <2>2 DEF HistoryTypes
<1>5. ASSUME NEW w \in Workers, MarkSent(w) \/ MarkFailed(w)
      PROVE  /\ RecordTypes' /\ HistoryTypes' /\ UNCHANGED <<deliveredAt, applied>>
             /\ \A d \in Deliveries :
                  \/ provider'[d] = provider[d] /\ failedAt'[d] = failedAt[d]
                  \/ Ends(w) /\ claim[w] = d /\ (MarkSent(w) => failedAt'[d] = 0)
  <2>1. claim[w] \in Deliveries
    BY <1>0, <1>5 DEF MarkSent, MarkFailed, Engaged
  <2>2. lost' \in [Deliveries -> Nat] /\ UNCHANGED <<accepted, applied, deliveredAt>>
    BY <1>2, <1>5, <2>1 DEF MarkSent, MarkFailed, history, recordVars
  <2>3. HistoryTypes'
    BY <1>0, <2>2 DEF HistoryTypes
  <2>4. CASE UNCHANGED <<provider, failedAt>>
    BY <1>0, <2>2, <2>3, <2>4 DEF RecordTypes
  <2>5. CASE Ends(w) /\ MarkFailed(w) /\ UNCHANGED provider
    <3>1. PICK t \in 0 .. MaxTime : failedAt' = [failedAt EXCEPT ![claim[w]] = t]
      BY <2>5, RangeFacts DEF MarkFailed, Ends
    <3>2. RecordTypes'
      BY <1>0, <2>2, <2>5, <3>1 DEF RecordTypes
    <3>3. ~MarkSent(w)
      BY <2>5 DEF MarkSent, MarkFailed
    <3> QED BY <1>0, <2>1, <2>2, <2>3, <2>5, <3>1, <3>2, <3>3 DEF RecordTypes
  <2>6. CASE Ends(w) /\ MarkSent(w)
    <3>1. /\ provider' = [provider EXCEPT ![claim[w]] = msg[w]]
          /\ failedAt' = [failedAt EXCEPT ![claim[w]] = 0]
      BY <2>6 DEF MarkSent, Ends
    <3>2. RecordTypes'
      BY <1>0, <2>1, <2>2, <3>1, RangeFacts DEF RecordTypes, WorkerTypes
    <3> QED BY <1>0, <2>1, <2>2, <2>3, <2>6, <3>1, <3>2 DEF RecordTypes
  <2>7. \/ UNCHANGED <<provider, failedAt>>
        \/ Ends(w) /\ MarkFailed(w) /\ UNCHANGED provider
        \/ Ends(w) /\ MarkSent(w)
    BY <1>5 DEF MarkSent, MarkFailed, Ends, recordVars
  <2> QED BY <2>4, <2>5, <2>6, <2>7
<1>6. ASSUME NEW e \in Deliveries, NEW m \in Messages, NEW type \in EventTypes, NEW t \in Times,
             ApplyFeedback(e, m, type, t)
      PROVE  /\ RecordTypes' /\ HistoryTypes'
             /\ \A d \in Deliveries \ {e} :
                  /\ provider'[d] = provider[d] /\ deliveredAt'[d] = deliveredAt[d]
                  /\ failedAt'[d] = failedAt[d] /\ applied'[d] = applied[d]
  <2>1. /\ Earliest(deliveredAt[e], t) \in 0 .. MaxTime
        /\ Earliest(failedAt[e], t) \in 0 .. MaxTime
    BY <1>0, RangeFacts DEF Earliest, RecordTypes
  <2>2. /\ deliveredAt' \in {deliveredAt, [deliveredAt EXCEPT ![e] = Earliest(deliveredAt[e], t)]}
        /\ failedAt' \in {failedAt, [failedAt EXCEPT ![e] = Earliest(failedAt[e], t)]}
        /\ applied' = [applied EXCEPT ![e] = @ \cup {<<type, t>>}] /\ UNCHANGED <<provider, accepted, lost>>
    BY <1>6 DEF ApplyFeedback
  <2>3. RecordTypes'
    BY <1>0, <2>1, <2>2 DEF RecordTypes
  <2>4. HistoryTypes'
    BY SMT, <1>0, <2>2 DEF HistoryTypes
  <2> QED BY ZenonT(60), <1>0, <2>2, <2>3, <2>4 DEF RecordTypes, HistoryTypes
<1>7. ASSUME NEW w \in Workers, VerifyLease(w) \/ SendError(w) \/ \E d \in Deliveries : Claim(w, d)
      PROVE  UNCHANGED <<recordVars, history>>
  BY <1>7 DEF VerifyLease, SendError, Claim
<1>8. ASSUME Tick \/ \E d \in Deliveries : QueueWaiting(d)
      PROVE  UNCHANGED <<recordVars, history>>
  BY <1>8 DEF Tick, QueueWaiting
<1>9. CASE UNCHANGED <<recordVars, applied>> /\ HistoryTypes'
  BY <1>0, <1>9 DEF recordVars, RecordTypes
<1>10. CASE \E w \in Workers : MarkSent(w) \/ MarkFailed(w)
  <2> PICK w \in Workers : MarkSent(w) \/ MarkFailed(w)
    BY <1>10
  <2>1. /\ RecordTypes' /\ HistoryTypes' /\ UNCHANGED <<deliveredAt, applied>>
        /\ \A d \in Deliveries :
              \/ provider'[d] = provider[d] /\ failedAt'[d] = failedAt[d]
              \/ Ends(w) /\ claim[w] = d /\ (MarkSent(w) => failedAt'[d] = 0)
    BY <1>5
  <2> QED BY <2>1
<1>11. CASE \E d \in Deliveries, m \in Messages, type \in EventTypes, t \in Times : ApplyFeedback(d, m, type, t)
  BY <1>6, <1>11
<1>12. CASE \E w \in Workers : Work(w) \/ SendError(w) \/ WorkerStop(w)
  BY <1>1, <1>3, <1>4, <1>7, <1>9, <1>10, <1>12 DEF Work
<1> QED BY <1>1, <1>7, <1>8, <1>11, <1>12 DEF Next

\* One more time keeps the earliest.
LEMMA EarliestAdds ==
  ASSUME NEW T \in SUBSET Times, NEW t \in Times, NEW old \in Nat, IsEarliest(old, T)
  PROVE  IsEarliest(Earliest(old, t), T \cup {t})
<1>0. t \in Nat /\ t # 0 /\ T \subseteq Nat /\ 0 \notin T
  BY RangeFacts
<1>1. CASE T = {}
  <2>1. Earliest(old, t) = t /\ t <= t
    BY SMT, <1>0, <1>1 DEF IsEarliest, Earliest
  <2> QED BY <1>1, <2>1 DEF IsEarliest
<1>2. CASE T # {}
  <2>1. old \in T /\ \A u \in T : old <= u
    BY <1>2 DEF IsEarliest
  <2>2. old # 0
    BY <1>0, <2>1
  <2>3. CASE t < old
    <3>1. Earliest(old, t) = t
      BY <2>3 DEF Earliest
    <3>2. \A u \in T \cup {t} : t <= u
      BY SMT, <1>0, <2>1, <2>3
    <3> QED BY <3>1, <3>2 DEF IsEarliest
  <2>4. CASE ~(t < old)
    <3>1. Earliest(old, t) = old
      BY <2>2, <2>4 DEF Earliest
    <3>2. \A u \in T \cup {t} : old <= u
      BY SMT, <1>0, <2>1, <2>4
    <3> QED BY <2>1, <3>1, <3>2 DEF IsEarliest
  <2> QED BY <2>3, <2>4
<1> QED BY <1>1, <1>2

\* The earliest is the one that is chosen.
LEMMA EarliestIsChosen ==
  ASSUME NEW T \in SUBSET Times, NEW t, IsEarliest(t, T)
  PROVE  t = EarliestOf(T)
<1>1. CASE T = {}
  BY <1>1 DEF IsEarliest, EarliestOf
<1>2. CASE T # {}
  <2>0. T \subseteq Nat
    BY RangeFacts
  <2>1. t \in T /\ \A u \in T : t <= u
    BY <1>2 DEF IsEarliest
  <2>2. EarliestOf(T) \in T /\ \A u \in T : EarliestOf(T) <= u
    BY <1>2, <2>1 DEF EarliestOf
  <2>3. t <= EarliestOf(T) /\ EarliestOf(T) <= t /\ t \in Nat /\ EarliestOf(T) \in Nat
    BY <2>0, <2>1, <2>2
  <2> QED BY SMT, <2>3
<1> QED BY <1>1, <1>2

\* What an event adds to the times of each kind.
LEMMA EarlierAdds ==
  ASSUME HistoryTypes, NEW d \in Deliveries, NEW type \in EventTypes, NEW t \in Times,
         applied' = [applied EXCEPT ![d] = @ \cup {<<type, t>>}], NEW types
  PROVE  /\ type \in types => Earlier(d, types)' = Earlier(d, types) \cup {t}
         /\ type \notin types => Earlier(d, types)' = Earlier(d, types)
<1>1. applied'[d] = applied[d] \cup {<<type, t>>}
  BY DEF HistoryTypes
<1>2. \A x, y : <<x, y>> \in applied'[d] <=> <<x, y>> \in applied[d] \/ (x = type /\ y = t)
  BY SMT, <1>1
<1> QED BY <1>2 DEF Earlier

\* Feedback leaves the worst status and the earliest times.
LEMMA FeedbackSettles ==
  ASSUME EmailInv, NEW d \in Deliveries, NEW m \in Messages, NEW type \in EventTypes, NEW t \in Times,
         ApplyFeedback(d, m, type, t)
  PROVE  Settled(d)'
<1>0. /\ RowTypes /\ RecordTypes /\ HistoryTypes /\ Settled(d) /\ status[d] \in Sent
      /\ deliveredAt[d] \in Nat /\ failedAt[d] \in Nat
  <2>1. RowTypes /\ RecordTypes /\ HistoryTypes /\ Settled(d) /\ status[d] \in Sent
    BY InvFacts DEF EmailInv, ApplyFeedback
  <2> QED BY SMT, <2>1 DEF RecordTypes
<1>1. applied' = [applied EXCEPT ![d] = @ \cup {<<type, t>>}]
  BY DEF ApplyFeedback
<1>2. /\ type = "Delivery" => /\ Earlier(d, {"Delivery"})' = Earlier(d, {"Delivery"}) \cup {t}
                             /\ Earlier(d, {"Bounce", "Complaint"})' = Earlier(d, {"Bounce", "Complaint"})
      /\ type # "Delivery" => /\ Earlier(d, {"Delivery"})' = Earlier(d, {"Delivery"})
                             /\ Earlier(d, {"Bounce", "Complaint"})' =
                                  Earlier(d, {"Bounce", "Complaint"}) \cup {t}
  <2>1. /\ type \in {"Bounce", "Complaint"} <=> type # "Delivery"
        /\ type \in {"Delivery"} <=> type = "Delivery"
    BY DEF EventTypes
  <2>2. /\ type \in {"Delivery"} => Earlier(d, {"Delivery"})' = Earlier(d, {"Delivery"}) \cup {t}
        /\ type \notin {"Delivery"} => Earlier(d, {"Delivery"})' = Earlier(d, {"Delivery"})
    BY <1>0, <1>1, EarlierAdds
  <2>3. /\ type \in {"Bounce", "Complaint"} =>
              Earlier(d, {"Bounce", "Complaint"})' = Earlier(d, {"Bounce", "Complaint"}) \cup {t}
        /\ type \notin {"Bounce", "Complaint"} =>
              Earlier(d, {"Bounce", "Complaint"})' = Earlier(d, {"Bounce", "Complaint"})
    BY <1>0, <1>1, EarlierAdds
  <2> QED BY <2>1, <2>2, <2>3
<1>3. Earlier(d, {"Delivery"}) \subseteq Times /\ Earlier(d, {"Bounce", "Complaint"}) \subseteq Times
  BY DEF Earlier
<1>4. IsEarliest(deliveredAt'[d], Earlier(d, {"Delivery"})')
  <2>1. CASE type = "Delivery"
    <3>1. deliveredAt'[d] = Earliest(deliveredAt[d], t)
      BY <1>0, <2>1 DEF ApplyFeedback, RecordTypes
    <3>2. IsEarliest(Earliest(deliveredAt[d], t), Earlier(d, {"Delivery"}) \cup {t})
      BY <1>0, <1>3, EarliestAdds DEF Settled
    <3> QED BY <1>2, <2>1, <3>1, <3>2
  <2>2. CASE type # "Delivery"
    BY <1>0, <1>2, <2>2 DEF ApplyFeedback, Settled
  <2> QED BY <2>1, <2>2
<1>5. IsEarliest(failedAt'[d], Earlier(d, {"Bounce", "Complaint"})')
  <2>1. CASE type # "Delivery"
    <3>1. failedAt'[d] = Earliest(failedAt[d], t)
      BY <1>0, <2>1 DEF ApplyFeedback, RecordTypes
    <3>2. IsEarliest(Earliest(failedAt[d], t), Earlier(d, {"Bounce", "Complaint"}) \cup {t})
      BY <1>0, <1>3, EarliestAdds DEF Settled
    <3> QED BY <1>2, <2>1, <3>1, <3>2
  <2>2. CASE type = "Delivery"
    BY <1>0, <1>2, <2>2 DEF ApplyFeedback, Settled
  <2> QED BY <2>1, <2>2
<1>6. status'[d] = Worst(d)'
  <2>1. status'[d] = ResolveTransition(status[d], type)
    BY <1>0 DEF ApplyFeedback, RowTypes
  <2>2. type = "Complaint" \/ type = "Bounce" \/ type = "Delivery"
    BY DEF EventTypes
  <2>3. ASSUME NEW ty, ty # type PROVE Earlier(d, {ty})' = Earlier(d, {ty})
    BY <1>0, <1>1, <2>3, EarlierAdds
  <2>4. Earlier(d, {type})' # {}
    <3>1. ASSUME NEW types
          PROVE  /\ type \in types => Earlier(d, types)' = Earlier(d, types) \cup {t}
                 /\ type \notin types => Earlier(d, types)' = Earlier(d, types)
      BY <1>0, <1>1, EarlierAdds
    <3>2. type \in {type} => Earlier(d, {type})' = Earlier(d, {type}) \cup {t}
      BY <3>1
    <3> QED BY <3>2
  <2>5. CASE type = "Complaint"
    BY <2>1, <2>4, <2>5 DEF ResolveTransition, Worst
  <2>6. CASE type = "Bounce"
    <3>1. Earlier(d, {"Complaint"})' = Earlier(d, {"Complaint"}) /\ Earlier(d, {"Bounce"})' # {}
      BY <2>3, <2>4, <2>6
    <3>2. CASE Earlier(d, {"Complaint"}) # {}
      <4>1. status[d] = "complained"
        BY <1>0, <3>2 DEF Worst, Settled
      <4> QED BY <2>1, <3>1, <3>2, <4>1 DEF ResolveTransition, Worst
    <3>3. CASE Earlier(d, {"Complaint"}) = {}
      <4>1. status[d] # "complained"
        BY <1>0, <3>3 DEF Worst, Settled
      <4> QED BY <2>1, <2>6, <3>1, <3>3, <4>1 DEF ResolveTransition, Worst
    <3> QED BY <3>2, <3>3
  <2>7. CASE type = "Delivery"
    <3>1. /\ Earlier(d, {"Complaint"})' = Earlier(d, {"Complaint"})
          /\ Earlier(d, {"Bounce"})' = Earlier(d, {"Bounce"}) /\ Earlier(d, {"Delivery"})' # {}
      BY <2>3, <2>4, <2>7
    <3>2. CASE Earlier(d, {"Complaint"}) # {}
      <4>1. status[d] = "complained"
        BY <1>0, <3>2 DEF Worst, Settled
      <4> QED BY <2>1, <3>1, <3>2, <4>1 DEF ResolveTransition, Worst
    <3>3. CASE Earlier(d, {"Complaint"}) = {} /\ Earlier(d, {"Bounce"}) # {}
      <4>1. status[d] = "bounced"
        BY <1>0, <3>3 DEF Worst, Settled
      <4> QED BY <2>1, <2>7, <3>1, <3>3, <4>1 DEF ResolveTransition, Worst
    <3>4. CASE Earlier(d, {"Complaint"}) = {} /\ Earlier(d, {"Bounce"}) = {}
      <4>1. status[d] # "complained" /\ status[d] # "bounced"
        BY <1>0, <3>4 DEF Worst, Settled
      <4> QED BY <2>1, <2>7, <3>1, <3>4, <4>1 DEF ResolveTransition, Worst
    <3> QED BY <3>2, <3>3, <3>4
  <2> QED BY <2>2, <2>5, <2>6, <2>7
<1> QED BY <1>4, <1>5, <1>6 DEF Settled

\* Every step leaves each delivery as its feedback says.
LEMMA FeedbackStays ==
  ASSUME EmailInv, Next, NEW d \in Deliveries
  PROVE  /\ status'[d] \notin Sent => applied'[d] = {} /\ deliveredAt'[d] = 0
         /\ status'[d] \in Sent => Settled(d)'
<1>0. RowTypes /\ RecordTypes /\ HistoryTypes
  BY InvFacts
<1>1. CASE \E m \in Messages, type \in EventTypes, t \in Times : ApplyFeedback(d, m, type, t)
  <2> PICK m \in Messages, type \in EventTypes, t \in Times : ApplyFeedback(d, m, type, t)
    BY <1>1
  <2>1. status'[d] = ResolveTransition(status[d], type)
    BY <1>0 DEF ApplyFeedback, RowTypes
  <2>2. status'[d] \in Sent
    BY SMT, <2>1 DEF ResolveTransition, Sent
  <2> QED BY <2>2, FeedbackSettles
<1>2. ASSUME NEW w \in Workers, Ends(w), claim[w] = d, MarkSent(w)
      PROVE  status'[d] = "sent" /\ Settled(d)'
  <2>1. applied[d] = {} /\ deliveredAt[d] = 0
    <3>1. status[d] \notin Sent
      BY <1>2 DEF Ends, HoldsLease, Sent
    <3> QED BY <3>1 DEF EmailInv, NoEarlyFeedback
  <2>2. status'[d] = "sent" /\ applied'[d] = {} /\ deliveredAt'[d] = 0 /\ failedAt'[d] = 0
    BY <1>0, <1>2, <2>1 DEF Ends, MarkSent, Release, RowTypes, RecordTypes
  <2>3. \A types : Earlier(d, types)' = {}
    BY <2>2 DEF Earlier
  <2> QED BY <2>2, <2>3 DEF Settled, Worst, IsEarliest
<1>3. ASSUME NEW w \in Workers, Ends(w), claim[w] = d, ~MarkSent(w)
      PROVE  status'[d] \notin Sent /\ applied'[d] = {} /\ deliveredAt'[d] = 0
  <2>1. status[d] = "processing"
    BY <1>3 DEF Ends, HoldsLease
  <2>2. applied[d] = {} /\ deliveredAt[d] = 0
    BY <2>1 DEF EmailInv, NoEarlyFeedback, Sent
  <2>3. \A u \in Workers : Ends(u) /\ claim[u] = d => u = w
    BY <1>3 DEF Ends, HoldsLease
  <2>4. status'[d] \notin Sent
    BY <1>3, <2>1, <2>3, SentSteps DEF Sent
  <2>5. \A m \in Messages, type \in EventTypes, t \in Times : ~ApplyFeedback(d, m, type, t)
    BY <2>1 DEF ApplyFeedback, Sent
  <2> QED BY <2>2, <2>4, <2>5, RecordSteps
<1>4. ASSUME \A w \in Workers : ~(Ends(w) /\ claim[w] = d),
             \A m \in Messages, type \in EventTypes, t \in Times : ~ApplyFeedback(d, m, type, t)
      PROVE  /\ status'[d] \notin Sent => applied'[d] = {} /\ deliveredAt'[d] = 0
             /\ status'[d] \in Sent => Settled(d)'
  <2>1. deliveredAt'[d] = deliveredAt[d] /\ failedAt'[d] = failedAt[d] /\ applied'[d] = applied[d]
    BY <1>4, RecordSteps
  <2>2. status'[d] \in Sent <=> status[d] \in Sent
    BY <1>4, SentSteps
  <2>3. CASE status[d] \notin Sent
    BY <2>1, <2>2, <2>3 DEF EmailInv, NoEarlyFeedback
  <2>4. CASE status[d] \in Sent
    <3>1. ~QueueWaiting(d) /\ \A w \in Workers : ~Claim(w, d)
      BY <2>4 DEF QueueWaiting, Claim, Claimable, Sent
    <3>2. status'[d] = status[d]
      BY <1>4, <3>1, RowSteps
    <3>3. Settled(d)
      BY <2>4 DEF EmailInv
    <3>4. \A types : Earlier(d, types)' = Earlier(d, types)
      BY <2>1 DEF Earlier
    <3> QED BY <2>1, <2>2, <2>4, <3>2, <3>3, <3>4 DEF Settled, Worst
  <2> QED BY <2>3, <2>4
<1>5. "sent" \in Sent
  BY DEF Sent
<1> QED BY <1>1, <1>2, <1>3, <1>4, <1>5

-----------------------------------------------------------------------------
(* The results.                                                            *)

\* Initially nothing was sent.
LEMMA InitInv == Init => EmailInv
<1> SUFFICES ASSUME Init PROVE EmailInv
  OBVIOUS
<1>1. RowTypes
  BY RangeFacts DEF Init, RowTypes, Statuses
<1>2. RecordTypes
  BY RangeFacts DEF Init, RecordTypes
<1>3. HistoryTypes
  BY SMT DEF Init, HistoryTypes
<1>4. WorkerTypes
  BY RangeFacts DEF Init, WorkerTypes, Pcs
<1>5. Engaged /\ \A w \in Workers : Young(w)
  BY DEF Init, Engaged, Young
<1>6. \A d \in Deliveries : status[d] \notin Sent
  BY DEF Init, Sent
<1>7. NoEarlyFeedback
  BY DEF Init, NoEarlyFeedback
<1>8. ASSUME NEW d \in Deliveries PROVE CountOf(d)
  <2>1. accepted[d] = {} /\ lost[d] = 0 /\ InFlight(d) = {}
    BY DEF Init, InFlight
  <2>2. IsFiniteSet({}) /\ Cardinality({}) = 0
    BY FS_EmptySet
  <2>3. Cardinality({}) = 0 + Cardinality({}) + 0
    BY SMT, <2>2
  <2> QED BY <1>6, <2>1, <2>2, <2>3 DEF CountOf
<1>9. TypeOK
  BY <1>1, <1>2, <1>3, <1>4 DEF TypeOK, RowTypes, RecordTypes, HistoryTypes, WorkerTypes, Statuses, Pcs
<1> QED BY <1>5, <1>6, <1>7, <1>8, <1>9 DEF EmailInv, Finite, OnlyLostEmailsRepeat, CountOf

\* Every step keeps the invariant.
LEMMA StepInv == EmailInv /\ [Next]_vars => EmailInv'
<1> SUFFICES ASSUME EmailInv, [Next]_vars PROVE EmailInv'
  OBVIOUS
<1>1. CASE Next
  <2>1. RowTypes' /\ RecordTypes' /\ HistoryTypes' /\ WorkerTypes' /\ Engaged'
    BY <1>1, RowSteps, RecordSteps, WorkerSteps
  <2>2. TypeOK'
    BY <2>1 DEF TypeOK, RowTypes, RecordTypes, HistoryTypes, WorkerTypes, Statuses, Pcs
  <2>3. \A w \in Workers : Young(w)'
    BY <1>1, YoungStays
  <2>4. Finite' /\ OnlyLostEmailsRepeat'
    <3>1. \A d \in Deliveries : CountOf(d)'
      BY <1>1, CountsStay
    <3> QED BY <3>1 DEF Finite, OnlyLostEmailsRepeat, CountOf
  <2>5. NoEarlyFeedback' /\ \A d \in Deliveries : status'[d] \in Sent => Settled(d)'
    BY <1>1, FeedbackStays DEF NoEarlyFeedback
  <2> QED BY <2>1, <2>2, <2>3, <2>4, <2>5 DEF EmailInv
<1>2. CASE UNCHANGED vars
  <2>1. /\ UNCHANGED <<status, owner, lease, provider, deliveredAt, failedAt>>
        /\ UNCHANGED <<accepted, lost, applied, pc, claim, msg, age>>
    BY <1>2 DEF vars, leaseVars, recordVars, history, workerVars
  <2>2. TypeOK' /\ Engaged' /\ \A w \in Workers : Young(w)'
    BY <2>1 DEF EmailInv, TypeOK, Engaged, Young
  <2>3. Finite' /\ OnlyLostEmailsRepeat'
    <3>1. \A d \in Deliveries : InFlight(d)' = InFlight(d)
      BY <2>1 DEF InFlight
    <3> QED BY <2>1, <3>1 DEF EmailInv, Finite, OnlyLostEmailsRepeat
  <2>4. NoEarlyFeedback' /\ \A d \in Deliveries : status'[d] \in Sent => Settled(d)'
    <3>1. \A d \in Deliveries : \A types : Earlier(d, types)' = Earlier(d, types)
      BY <2>1 DEF Earlier
    <3> QED BY <2>1, <3>1 DEF EmailInv, NoEarlyFeedback, Settled, Worst
  <2> QED BY <2>2, <2>3, <2>4 DEF EmailInv
<1> QED BY <1>1, <1>2

\* The invariant holds throughout.
LEMMA InvHolds == Spec => []EmailInv
BY InitInv, StepInv, PTL DEF Spec

\* Every variable of the email delivery keeps its type.
THEOREM EmailTypes == Spec => []TypeOK
<1>1. EmailInv => TypeOK
  BY DEF EmailInv
<1> QED BY InvHolds, <1>1, PTL

\* Every accepted email is on record, in flight or lost (MarkSent, failClaim).
THEOREM DuplicatesAreLosses == Spec => []OnlyLostEmailsRepeat
<1>1. EmailInv => OnlyLostEmailsRepeat
  BY DEF EmailInv
<1> QED BY InvHolds, <1>1, PTL

\* Within the lease time one handler sends, and none once the email is on
\* record (Claim, VerifyLease, deliveryLeaseDuration).
THEOREM LeaseAdmitsOneSender == Spec => []OneSender
<1>1. EmailInv => OneSender
  <2> SUFFICES ASSUME EmailInv, NEW d \in Deliveries
               PROVE  LET senders == {w \in Workers : /\ pc[w] \in {"send", "mark"} /\ claim[w] = d
                                                     /\ age[w] < LeaseTime}
                      IN  /\ Cardinality(senders) <= 1
                          /\ senders # {} => status[d] = "processing"
    BY DEF OneSender
  <2> DEFINE senders == {w \in Workers : /\ pc[w] \in {"send", "mark"} /\ claim[w] = d
                                        /\ age[w] < LeaseTime}
  <2>1. \A w \in senders : status[d] = "processing" /\ owner[d] = w
    BY DEF EmailInv, Young
  <2>2. senders = {} \/ senders = {owner[d]}
    BY <2>1
  <2> HIDE DEF senders
  <2>3. Cardinality(senders) = 0 \/ Cardinality(senders) = 1
    BY <2>2, FS_EmptySet, FS_Singleton
  <2>4. Cardinality(senders) <= 1
    BY SMT, <2>3
  <2>5. senders # {} => status[d] = "processing"
    BY <2>1
  <2> QED BY <2>4, <2>5 DEF senders
<1> QED BY InvHolds, <1>1, PTL

\* The order of feedback is irrelevant (ApplyFeedback, ResolveTransition).
THEOREM FeedbackCommutes == Spec => []FeedbackOrderIrrelevant
<1>1. EmailInv => FeedbackOrderIrrelevant
  <2> SUFFICES ASSUME EmailInv, NEW d \in Deliveries, status[d] \in Sent
               PROVE  /\ status[d] = Worst(d)
                      /\ deliveredAt[d] = EarliestOf(Earlier(d, {"Delivery"}))
                      /\ failedAt[d] = EarliestOf(Earlier(d, {"Bounce", "Complaint"}))
    BY DEF FeedbackOrderIrrelevant
  <2>1. Settled(d)
    BY DEF EmailInv
  <2>2. \A types : Earlier(d, types) \in SUBSET Times
    BY DEF Earlier
  <2>3. deliveredAt[d] = EarliestOf(Earlier(d, {"Delivery"}))
    BY <2>1, <2>2, EarliestIsChosen DEF Settled
  <2>4. failedAt[d] = EarliestOf(Earlier(d, {"Bounce", "Complaint"}))
    BY <2>1, <2>2, EarliestIsChosen DEF Settled
  <2> QED BY <2>1, <2>3, <2>4 DEF Settled
<1> QED BY InvHolds, <1>1, PTL

=============================================================================
