CONSTANTS
    NumRows = 2
    BatchSize = 1
    MaxAttempts = 2
    MaxReceive = 2
    MaxFaults = 1
    Validators = {v1}
    Requests = {q1}
    Recoverer = rec
    Workers = {w1, w2}
    NoOwner = NoOwner
SPECIFICATION FairSpec
INVARIANTS TallyIsExact CompletedIsWhole
PROPERTIES CanceledStays  CompletionIsTold
CHECK_DEADLOCK FALSE
