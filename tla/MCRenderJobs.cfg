SPECIFICATION Spec
CHECK_DEADLOCK FALSE
CONSTANTS
  Workers = {w1, w2}
  Previews = {v1}
  Final = Final
  Deliveries = {d1}
  Profiles = {p1, p2}
  NoProfile = NoProfile
  NoOwner = NoOwner
  NoJob = NoJob
  NoBytes = NoBytes
  LeaseTime = 1
  MaxVersion = 3
SYMMETRY Symmetry
INVARIANTS
  FinalShowsIssuedContent
  DeliveriesFollowFinal
  PreviewShowsNoLaterEdit
