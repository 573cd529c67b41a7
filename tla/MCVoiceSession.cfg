CONSTANTS
    Sessions = {s1}
    Users = {u1}
    NoSession = NoSession
    Callers = {c1, c2}
    GlobalLimit = 1
    UserLimit = 1
    LeaseDuration = 2
    MaxDuration = 3
    BatchSize = 1
    LastCreate = 0
    SweptStatuses = {"CLOSED"}
SPECIFICATION FairSpec
INVARIANTS CapacityIsExact ClosedIsStopped
PROPERTIES LiveLeaseIsSpared  EverySessionEnds
CHECK_DEADLOCK FALSE
