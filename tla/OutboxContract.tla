--------------------------- MODULE OutboxContract ---------------------------
(***************************************************************************)
(* What the transactional outbox promises to the code that writes to it:   *)
(* an event recorded with its business change is handed to the queue at    *)
(* least once before it is marked published, it may be handed over again,  *)
(* and the mark is never taken back.                                       *)
(***************************************************************************)
EXTENDS Naturals

CONSTANT Events             \* rows that business transactions may insert

VARIABLES status,           \* "absent", "pending" or "published"
          sent              \* messages handed to the queue for each event

vars == <<status, sent>>

Init == /\ status = [e \in Events |-> "absent"]
        /\ sent = [e \in Events |-> 0]

\* A business transaction commits together with its event.
Record(e) == /\ status[e] = "absent"
             /\ status' = [status EXCEPT ![e] = "pending"]
             /\ UNCHANGED sent

\* One more copy of a recorded event reaches the queue.
Send(e) == /\ status[e] # "absent"
           /\ sent' = [sent EXCEPT ![e] = @ + 1]
           /\ UNCHANGED status

\* An event that has reached the queue is marked published.
Settle(e) == /\ status[e] = "pending"
             /\ sent[e] > 0
             /\ status' = [status EXCEPT ![e] = "published"]
             /\ UNCHANGED sent

Next == \E e \in Events : Record(e) \/ Send(e) \/ Settle(e)

Spec == Init /\ [][Next]_vars
=============================================================================
