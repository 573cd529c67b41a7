SPECIFICATION FairSpec
CHECK_DEADLOCK FALSE
CONSTANTS
  Deliveries = {d1}
  Workers = {w1, w2}
  Messages = {m1, m2, m3}
  NoOwner = NoOwner
  NoDelivery = NoDelivery
  NoMessage = NoMessage
  LeaseTime = 2
  WorkerTime = 3
  MaxTime = 2
INVARIANTS
  OnlyLostEmailsRepeat
  OneSender
  FeedbackOrderIrrelevant

  
