CONSTANTS
    Clients = {c1}
    Dispatcher = Dispatcher
    Nobody = Nobody
    Keys = {k1}
    Contents = {x, y}
    DispatcherPools = {1}
    RequestPools = {2}
    MaxTime = 1
    MaxFailures = 0
SPECIFICATION RecurringFairSpec
PROPERTIES DueIsInvoiced
CHECK_DEADLOCK FALSE
