CONSTANTS
    Clients = {c1}
    Dispatcher = Dispatcher
    Nobody = Nobody
    Keys = {k1}
    Contents = {x, y}
    DispatcherPools = {1, 2}
    RequestPools = {2}
    MaxTime = 1
    MaxFailures = 2
SPECIFICATION RecurringFairSpec
INVARIANTS CompletedRunHasItsDraft
PROPERTIES PausedMakesNothing SpareConnectionSuffices
CHECK_DEADLOCK FALSE
