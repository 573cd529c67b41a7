---------------------------- MODULE VoiceCapacity ----------------------------
(***************************************************************************)
(* What the realtime voice control plane promises about admission: a       *)
(* session takes one unit of capacity when it is created, gives it back    *)
(* exactly once, and never takes another; there are never more units out   *)
(* than the global limit, nor more for one user than that user's limit.    *)
(* VoiceSession is shown to implement this.                                *)
(***************************************************************************)
EXTENDS Naturals, FiniteSets

CONSTANTS Sessions, Users, GlobalLimit, UserLimit

VARIABLES held,      \* the sessions that hold a unit of capacity
          returned,  \* the sessions that have given theirs back
          holder     \* whose session it is

vars == <<held, returned, holder>>

HeldBy(u) == {s \in held : holder[s] = u}

Init ==
    /\ held = {}
    /\ returned = {}
    /\ holder \in [Sessions -> Users]

Take(s) ==
    /\ s \notin held \cup returned
    /\ Cardinality(held) < GlobalLimit
    /\ Cardinality(HeldBy(holder[s])) < UserLimit
    /\ held' = held \cup {s}
    /\ UNCHANGED <<returned, holder>>

GiveBack(s) ==
    /\ s \in held
    /\ held' = held \ {s}
    /\ returned' = returned \cup {s}
    /\ UNCHANGED holder

Next == \E s \in Sessions : Take(s) \/ GiveBack(s)

\* A unit that is out comes back.
Spec ==
    /\ Init /\ [][Next]_vars
    /\ \A s \in Sessions : WF_vars(GiveBack(s))

==============================================================================
