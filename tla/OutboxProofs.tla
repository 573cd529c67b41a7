---------------------------- MODULE OutboxProofs ----------------------------
(***************************************************************************)
(* Proofs about Outbox, for any set of events, any finite set of           *)
(* dispatchers, and any batch size, lease time and delays.                 *)
(***************************************************************************)
EXTENDS Outbox, FiniteSetTheorems, TLAPS

\* First-order reasoning is left to Zenon; leaves with arithmetic name SMT.
USE Zenon

(* Small facts. *)

\* Counting a lease or a delay down stays within the naturals.
LEMMA MinusNat == ASSUME NEW a \in Nat, NEW b \in Nat
                  PROVE  Minus(a, b) \in Nat
  BY SMT DEF Minus

\* The delay before the next attempt is a natural number of minutes.
LEMMA DelayNat == ASSUME NEW n PROVE outboxRetryDelay(n) \in Nat
  BY SMT, OutboxConstants DEF outboxRetryDelay

(* Type correctness. *)

\* The types hold of an empty outbox.
LEMMA InitTypeOK == Init => TypeOK
  BY SMT DEF Init, TypeOK, Owners

\* Every step of the request, of a dispatcher and of the clock preserves the
\* types, and an idle dispatcher holds no row.
LEMMA NextTypeOK == TypeOK /\ [Next]_vars => TypeOK'
<1> SUFFICES ASSUME TypeOK, [Next]_vars PROVE TypeOK'
  OBVIOUS
<1> USE DEF TypeOK, Owners, row, disp
<1>1. ASSUME NEW e \in Events, Record(e) PROVE TypeOK'
  BY ZenonT(60), <1>1 DEF Record
<1>2. ASSUME NEW e \in Events, RequestStep(e) PROVE TypeOK'
  BY SMT, <1>2 DEF RequestStep, ImmediateSend, ImmediateStop, MarkOutboxPublished
<1>3. ASSUME NEW d \in Dispatchers, NEW B \in SUBSET Events, ClaimOutboxEvents(d, B)
      PROVE  TypeOK'
  BY SMT, <1>3, OutboxConstants DEF ClaimOutboxEvents
<1>4. ASSUME NEW d \in Dispatchers, NEW e \in Events, Publish(d, e) PROVE TypeOK'
  BY SMT, <1>4 DEF Publish
<1>5. ASSUME NEW d \in Dispatchers, NEW e \in Events, CompleteOutboxEvent(d, e)
      PROVE  TypeOK'
  BY SMT, <1>5 DEF CompleteOutboxEvent, NextRow
<1>6. ASSUME NEW d \in Dispatchers, NEW e \in Events, RetryOutboxEvent(d, e)
      PROVE  TypeOK'
  <2>1. Minus(outboxRetryDelay(attempts[e]), age[d]) \in Nat
    BY DelayNat, MinusNat
  <2>2. QED
    BY SMT, <1>6, <2>1 DEF RetryOutboxEvent, NextRow
<1>7. ASSUME NEW d \in Dispatchers, SettleError(d) PROVE TypeOK'
  BY <1>7 DEF SettleError, NextRow
<1>8. ASSUME NEW d \in Dispatchers, DispatcherStop(d) PROVE TypeOK'
  BY <1>8 DEF DispatcherStop
<1>9. CASE Tick
  BY SMT, <1>9, OutboxConstants DEF Tick, Minus, Min2
<1>10. CASE UNCHANGED vars
  BY <1>10 DEF vars
<1>11. QED
  BY <1>1, <1>2, <1>3, <1>4, <1>5, <1>6, <1>7, <1>8, <1>9, <1>10 DEF Next, DispatchStep

\* The variables of the outbox keep their types in every reachable state.
THEOREM TypeCorrect == Spec => []TypeOK
  BY InitTypeOK, NextTypeOK, PTL DEF Spec

-----------------------------------------------------------------------------
(* No event is marked published before the queue has accepted it. *)

SentInv == TypeOK /\ PublishedWasSent /\ SentBeforeMarked

\* Nothing is sent or marked at first.
LEMMA InitSent == Init => SentInv
  BY InitTypeOK DEF Init, SentInv, PublishedWasSent, SentBeforeMarked

\* Each step keeps the mark behind the send.
LEMMA NextSent == SentInv /\ [Next]_vars => SentInv'
<1> SUFFICES ASSUME SentInv, [Next]_vars PROVE SentInv'
  OBVIOUS
<1>0. TypeOK /\ TypeOK'
  BY NextTypeOK DEF SentInv
<1> DEFINE P == PublishedWasSent /\ SentBeforeMarked
<1> SUFFICES P'
  BY <1>0 DEF SentInv
<1> USE <1>0 DEF SentInv, TypeOK, PublishedWasSent, SentBeforeMarked, row, disp
<1>1. ASSUME NEW e \in Events, Record(e) PROVE P'
  BY SMT, <1>1 DEF Record
<1>2. ASSUME NEW e \in Events, RequestStep(e) PROVE P'
  BY SMTT(60), <1>2 DEF RequestStep, ImmediateSend, ImmediateStop, MarkOutboxPublished
<1>3. ASSUME NEW d \in Dispatchers, NEW B \in SUBSET Events, ClaimOutboxEvents(d, B)
      PROVE  P'
  BY SMT, <1>3 DEF ClaimOutboxEvents, Ready
<1>4. ASSUME NEW d \in Dispatchers, NEW e \in Events, Publish(d, e) PROVE P'
  BY SMT, <1>4 DEF Publish
<1>5. ASSUME NEW d \in Dispatchers, NEW e \in Events, CompleteOutboxEvent(d, e)
      PROVE  P'
  BY SMT, <1>5 DEF CompleteOutboxEvent, NextRow, HoldsLease
<1>6. ASSUME NEW d \in Dispatchers, NEW e \in Events, RetryOutboxEvent(d, e)
      PROVE  P'
  BY ZenonT(60), <1>6 DEF RetryOutboxEvent, NextRow
<1>7. ASSUME NEW d \in Dispatchers, SettleError(d) PROVE P'
  BY ZenonT(60), <1>7 DEF SettleError, NextRow
<1>8. ASSUME NEW d \in Dispatchers, DispatcherStop(d) PROVE P'
  BY ZenonT(60), <1>8 DEF DispatcherStop
<1>9. CASE Tick
  BY <1>9 DEF Tick
<1>10. CASE UNCHANGED vars
  BY <1>10 DEF vars
<1>11. QED
  BY <1>1, <1>2, <1>3, <1>4, <1>5, <1>6, <1>7, <1>8, <1>9, <1>10 DEF Next, DispatchStep

\* No event is lost: a row marked published by MarkOutboxPublished or by
\* CompleteOutboxEvent has reached the queue.
THEOREM NoLostEvent == Spec => []PublishedWasSent
<1>1. SentInv => PublishedWasSent
  BY DEF SentInv
<1>2. QED
  BY InitSent, NextSent, <1>1, PTL DEF Spec

-----------------------------------------------------------------------------
(* A row that is marked stays marked. *)

LeaseInv == /\ TypeOK
            /\ \A e \in Events : status[e] = "published" => owner[e] = NoOwner
            /\ \A e \in Events : owner[e] = NoOwner => lease[e] = 0

\* No lease is held at first.
LEMMA InitLease == Init => LeaseInv
  BY SMT, InitTypeOK DEF Init, LeaseInv

\* Marking a row and releasing its lease happen in one statement.
LEMMA NextLease == LeaseInv /\ [Next]_vars => LeaseInv'
<1> SUFFICES ASSUME LeaseInv, [Next]_vars PROVE LeaseInv'
  OBVIOUS
<1>0. TypeOK /\ TypeOK'
  BY NextTypeOK DEF LeaseInv
<1> DEFINE P == /\ \A e \in Events : status[e] = "published" => owner[e] = NoOwner
                /\ \A e \in Events : owner[e] = NoOwner => lease[e] = 0
<1> SUFFICES P'
  BY <1>0 DEF LeaseInv
<1> USE <1>0, OutboxConstants DEF LeaseInv, TypeOK, row, disp
<1>1. ASSUME NEW e \in Events, Record(e) PROVE P'
  BY ZenonT(60), <1>1 DEF Record
<1>2. ASSUME NEW e \in Events, RequestStep(e) PROVE P'
  BY SMT, <1>2 DEF RequestStep, ImmediateSend, ImmediateStop, MarkOutboxPublished
<1>3. ASSUME NEW d \in Dispatchers, NEW B \in SUBSET Events, ClaimOutboxEvents(d, B)
      PROVE  P'
  BY ZenonT(60), <1>3 DEF ClaimOutboxEvents, Ready
<1>4. ASSUME NEW d \in Dispatchers, NEW e \in Events, Publish(d, e) PROVE P'
  BY <1>4 DEF Publish
<1>5. ASSUME NEW d \in Dispatchers, NEW e \in Events, CompleteOutboxEvent(d, e)
      PROVE  P'
  BY SMTT(60), <1>5 DEF CompleteOutboxEvent, NextRow
<1>6. ASSUME NEW d \in Dispatchers, NEW e \in Events, RetryOutboxEvent(d, e)
      PROVE  P'
  BY SMT, <1>6 DEF RetryOutboxEvent, NextRow
<1>7. ASSUME NEW d \in Dispatchers, SettleError(d) PROVE P'
  BY <1>7 DEF SettleError, NextRow
<1>8. ASSUME NEW d \in Dispatchers, DispatcherStop(d) PROVE P'
  BY <1>8 DEF DispatcherStop
<1>9. CASE Tick
  BY SMT, <1>9 DEF Tick, Minus
<1>10. CASE UNCHANGED vars
  BY <1>10 DEF vars
<1>11. QED
  BY <1>1, <1>2, <1>3, <1>4, <1>5, <1>6, <1>7, <1>8, <1>9, <1>10 DEF Next, DispatchStep


FinalStep == \A e \in Events : status[e] = "published" =>
                /\ status'[e] = "published"
                /\ owner'[e] = NoOwner
                /\ attempts'[e] = attempts[e]

\* From a state in which a published row has no owner, no step touches one.
LEMMA FinalNext == LeaseInv /\ [Next]_vars => FinalStep
<1> SUFFICES ASSUME LeaseInv, [Next]_vars PROVE FinalStep
  OBVIOUS
<1> USE OutboxConstants DEF FinalStep, LeaseInv, TypeOK, row, disp
<1>1. ASSUME NEW e \in Events, Record(e) PROVE FinalStep
  BY <1>1 DEF Record
<1>2. ASSUME NEW e \in Events, RequestStep(e) PROVE FinalStep
  BY ZenonT(60), <1>2 DEF RequestStep, ImmediateSend, ImmediateStop, MarkOutboxPublished
<1>3. ASSUME NEW d \in Dispatchers, NEW B \in SUBSET Events, ClaimOutboxEvents(d, B)
      PROVE  FinalStep
  BY <1>3 DEF ClaimOutboxEvents, Ready
<1>4. ASSUME NEW d \in Dispatchers, NEW e \in Events, Publish(d, e) PROVE FinalStep
  BY <1>4 DEF Publish
<1>5. ASSUME NEW d \in Dispatchers, NEW e \in Events, CompleteOutboxEvent(d, e)
      PROVE  FinalStep
  BY ZenonT(60), <1>5 DEF CompleteOutboxEvent, NextRow
<1>6. ASSUME NEW d \in Dispatchers, NEW e \in Events, RetryOutboxEvent(d, e)
      PROVE  FinalStep
  BY ZenonT(60), <1>6 DEF RetryOutboxEvent, NextRow
<1>7. ASSUME NEW d \in Dispatchers, SettleError(d) \/ DispatcherStop(d) PROVE FinalStep
  BY <1>7 DEF SettleError, NextRow, DispatcherStop
<1>8. CASE Tick \/ UNCHANGED vars
  BY <1>8 DEF Tick, vars
<1>9. QED
  BY <1>1, <1>2, <1>3, <1>4, <1>5, <1>6, <1>7, <1>8 DEF Next, DispatchStep

\* A published row is never claimed, retried or unmarked again, although
\* CompleteOutboxEvent and RetryOutboxEvent do not look at the lease's expiry.
THEOREM PublishedRowIsFinal == Spec => PublishedIsFinal
<1>1. LeaseInv /\ [Next]_vars => [FinalStep]_vars
  BY FinalNext
<1>2. Spec => [][FinalStep]_vars
  BY InitLease, NextLease, <1>1, PTL DEF Spec
<1>3. QED
  BY <1>2 DEF PublishedIsFinal, FinalStep

-----------------------------------------------------------------------------
(* The number of copies of an event. *)

\* Finitely many dispatchers hold a claim on a row.
LEMMA ClaimantsFinite == ASSUME NEW e PROVE IsFiniteSet(Claimants(e))
  BY OutboxConstants, FS_Subset DEF Claimants

\* Publishing uses up the right that the claim gave.
LEMMA ClaimantsRemove ==
  ASSUME TypeOK, NEW d \in Dispatchers, NEW e \in Events, e \in todo[d],
         todo' = [todo EXCEPT ![d] = @ \ {e}]
  PROVE  /\ Cardinality(Claimants(e)') = Cardinality(Claimants(e)) - 1
         /\ \A f \in Events \ {e} : Claimants(f)' = Claimants(f)
<1>1. Claimants(e)' = Claimants(e) \ {d}
  BY DEF Claimants, TypeOK
<1>2. d \in Claimants(e)
  BY DEF Claimants
<1>3. \A f \in Events \ {e} : Claimants(f)' = Claimants(f)
  BY DEF Claimants, TypeOK
<1>4. QED
  BY ZenonT(60), <1>1, <1>2, <1>3, ClaimantsFinite, FS_RemoveElement

\* A claim gives at most one right for each row of its batch.
LEMMA ClaimantsAdd ==
  ASSUME TypeOK, NEW d \in Dispatchers, NEW B \in SUBSET Events,
         todo' = [todo EXCEPT ![d] = B]
  PROVE  \A f \in Events :
            /\ f \in B => Cardinality(Claimants(f)') <= Cardinality(Claimants(f)) + 1
            /\ f \notin B => Cardinality(Claimants(f)') <= Cardinality(Claimants(f))
<1> TAKE f \in Events
<1>1. f \in B => Claimants(f)' = Claimants(f) \cup {d}
  BY ZenonT(60) DEF Claimants, TypeOK
<1>2. f \notin B => Claimants(f)' \subseteq Claimants(f)
  BY DEF Claimants, TypeOK
<1>3. Cardinality(Claimants(f)) \in Nat
  BY ClaimantsFinite, FS_CardinalityType
<1>4. f \in B => Cardinality(Claimants(f)') <= Cardinality(Claimants(f)) + 1
  BY SMT, <1>1, <1>3, ClaimantsFinite, FS_AddElement
<1>5. f \notin B => Cardinality(Claimants(f)') <= Cardinality(Claimants(f))
  BY <1>2, ClaimantsFinite, FS_Subset
<1>6. QED
  BY <1>4, <1>5

\* No right to send is given out before the first commit.
LEMMA InitRights == Init => SendRights
<1> SUFFICES ASSUME Init PROVE SendRights
  OBVIOUS
<1>1. \A e \in Events : Cardinality(Claimants(e)) = 0
  <2> TAKE e \in Events
  <2>1. Claimants(e) = {}
    BY DEF Init, Claimants
  <2>2. QED
    BY <2>1, FS_EmptySet
<1>2. QED
  BY SMT, <1>1 DEF Init, SendRights, RequestRight

\* Sending needs a right, and only commits and claims create rights.
LEMMA NextRights == SentInv /\ SendRights /\ [Next]_vars => SendRights'
<1> SUFFICES ASSUME SentInv, SendRights, [Next]_vars PROVE SendRights'
  OBVIOUS
<1>0. /\ TypeOK /\ TypeOK'
      /\ SentBeforeMarked
      /\ \A e \in Events : Cardinality(Claimants(e)) \in Nat
  BY NextTypeOK, ClaimantsFinite, FS_CardinalityType DEF SentInv
<1>n. \A e \in Events : Cardinality(Claimants(e)') \in Nat
  <2> TAKE e \in Events
  <2>1. IsFiniteSet(Claimants(e)')
    BY OutboxConstants, FS_Subset DEF Claimants
  <2>2. QED
    BY <2>1, FS_CardinalityType
<1>s. ASSUME todo' = todo PROVE \A e \in Events : Claimants(e)' = Claimants(e)
  BY <1>s DEF Claimants
<1> USE <1>0, <1>n DEF SendRights, RequestRight, TypeOK, SentBeforeMarked, row, disp
<1>1. ASSUME NEW e \in Events, Record(e) PROVE SendRights'
  BY SMT, <1>1, <1>s DEF Record
<1>2. ASSUME NEW e \in Events, RequestStep(e) PROVE SendRights'
  BY SMTT(60), <1>2, <1>s DEF RequestStep, ImmediateSend, ImmediateStop, MarkOutboxPublished
<1>3. ASSUME NEW d \in Dispatchers, NEW B \in SUBSET Events, ClaimOutboxEvents(d, B)
      PROVE  SendRights'
  <2>1. \A f \in Events :
            /\ f \in B => Cardinality(Claimants(f)') <= Cardinality(Claimants(f)) + 1
            /\ f \notin B => Cardinality(Claimants(f)') <= Cardinality(Claimants(f))
    BY <1>3, ClaimantsAdd DEF ClaimOutboxEvents
  <2>2. QED
    BY SMT, <1>3, <2>1 DEF ClaimOutboxEvents
<1>4. ASSUME NEW d \in Dispatchers, NEW e \in Events, Publish(d, e) PROVE SendRights'
  <2>1. /\ Cardinality(Claimants(e)') = Cardinality(Claimants(e)) - 1
        /\ \A f \in Events \ {e} : Claimants(f)' = Claimants(f)
    BY <1>4, ClaimantsRemove DEF Publish
  <2>2. QED
    BY SMT, <1>4, <2>1 DEF Publish
<1>5. ASSUME NEW d \in Dispatchers, NEW e \in Events, CompleteOutboxEvent(d, e)
      PROVE  SendRights'
  BY SMT, <1>5, <1>s DEF CompleteOutboxEvent, NextRow, HoldsLease
<1>6. ASSUME NEW d \in Dispatchers, NEW e \in Events, RetryOutboxEvent(d, e)
      PROVE  SendRights'
  BY <1>6, <1>s DEF RetryOutboxEvent, NextRow
<1>7. ASSUME NEW d \in Dispatchers, SettleError(d) PROVE SendRights'
  BY <1>7, <1>s DEF SettleError, NextRow
<1>8. ASSUME NEW d \in Dispatchers, DispatcherStop(d) PROVE SendRights'
  <2>1. \A f \in Events : Cardinality(Claimants(f)') <= Cardinality(Claimants(f))
    BY <1>8, ClaimantsAdd DEF DispatcherStop
  <2>2. QED
    BY SMT, <1>8, <2>1 DEF DispatcherStop
<1>9. CASE Tick \/ UNCHANGED vars
  BY <1>9, <1>s DEF Tick, vars
<1>10. QED
  BY <1>1, <1>2, <1>3, <1>4, <1>5, <1>6, <1>7, <1>8, <1>9 DEF Next, DispatchStep

\* Duplicates are bounded: an event reaches the queue at most once for each
\* claim of its row and once for the request that recorded it.
THEOREM BoundedDuplicates == Spec => []DuplicatesBounded
<1>1. SentInv /\ SendRights => DuplicatesBounded
  <2> SUFFICES ASSUME SentInv, SendRights, NEW e \in Events
               PROVE  sent[e] <= attempts[e] + 1
    BY DEF DuplicatesBounded
  <2>1. Cardinality(Claimants(e)) \in Nat
    BY ClaimantsFinite, FS_CardinalityType
  <2>2. QED
    BY SMT, <2>1 DEF SentInv, TypeOK, SendRights, RequestRight
<1>2. QED
  BY InitSent, NextSent, InitRights, NextRights, <1>1, PTL DEF Spec

-----------------------------------------------------------------------------
(* The outbox implements its contract. *)

\* Every step of the outbox is a step of the contract or leaves it unchanged.
LEMMA ContractStep == SentInv /\ [Next]_vars => [Contract!Next]_(Contract!vars)
<1> SUFFICES ASSUME SentInv, [Next]_vars PROVE [Contract!Next]_(Contract!vars)
  OBVIOUS
<1> USE DEF SentInv, TypeOK, SentBeforeMarked, row, disp,
            Contract!vars, Contract!Next, Contract!Record, Contract!Send, Contract!Settle
<1>1. ASSUME NEW e \in Events, Record(e) PROVE Contract!Next
  BY <1>1 DEF Record
<1>2. ASSUME NEW e \in Events, RequestStep(e) PROVE [Contract!Next]_(Contract!vars)
  BY <1>2 DEF RequestStep, ImmediateSend, ImmediateStop, MarkOutboxPublished
<1>3. ASSUME NEW d \in Dispatchers, NEW B \in SUBSET Events, ClaimOutboxEvents(d, B)
      PROVE  UNCHANGED Contract!vars
  BY <1>3 DEF ClaimOutboxEvents
<1>4. ASSUME NEW d \in Dispatchers, NEW e \in Events, Publish(d, e)
      PROVE  [Contract!Next]_(Contract!vars)
  BY <1>4 DEF Publish
<1>5. ASSUME NEW d \in Dispatchers, NEW e \in Events, CompleteOutboxEvent(d, e)
      PROVE  [Contract!Next]_(Contract!vars)
  BY <1>5 DEF CompleteOutboxEvent, HoldsLease
<1>6. ASSUME NEW d \in Dispatchers, NEW e \in Events, RetryOutboxEvent(d, e)
      PROVE  UNCHANGED Contract!vars
  BY <1>6 DEF RetryOutboxEvent
<1>7. ASSUME NEW d \in Dispatchers, SettleError(d) \/ DispatcherStop(d)
      PROVE  UNCHANGED Contract!vars
  BY <1>7 DEF SettleError, DispatcherStop
<1>8. CASE Tick \/ UNCHANGED vars
  BY <1>8 DEF Tick, vars
<1>9. QED
  BY <1>1, <1>2, <1>3, <1>4, <1>5, <1>6, <1>7, <1>8 DEF Next, DispatchStep

\* The request and the dispatchers together implement the at-least-once
\* contract that the writers of outbox events rely on.
THEOREM OutboxImplementsContract == Spec => ImplementsContract
<1>1. Init => Contract!Init
  BY DEF Init, Contract!Init
<1>2. QED
  BY <1>1, InitSent, NextSent, ContractStep, PTL
     DEF Spec, ImplementsContract, Contract!Spec

=============================================================================
