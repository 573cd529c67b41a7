SPECIFICATION FairSpec
CONSTANTS
  Paid = {p1, p2}
  Free = free
  NoPlan = none
  Calls = {c1, c2}
  MaxSubs = 2
  TotalCount = 2
  MaxEvents = 4
  MaxFaults = 1
INVARIANTS EntitlementIsPaid OneLiveSubscription ChargeBilledOnce
PROPERTIES CancellationIsLearned
CHECK_DEADLOCK FALSE
