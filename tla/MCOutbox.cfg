SPECIFICATION FairSpec
CONSTANTS
  Events = {e1, e2}
  Dispatchers = {d1, d2}
  NoOwner = NoOwner
  BatchSize = 2
  LeaseTime = 1
  MaxRetryDelay = 2
  MaxAttempts = 2
INVARIANTS
  DuplicatesBounded
PROPERTIES
  ImplementsContract
  EventuallyPublished
