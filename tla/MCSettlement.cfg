SPECIFICATION SettlementSpec
CHECK_DEADLOCK FALSE
CONSTANTS
  Payments = {p1, p2}
  PaymentKeys = {k1, k2}
  Editors = {r1, r2}
  Total = 3
SYMMETRY Symmetry
INVARIANTS
  SettlementCoherent
  OnePaymentPerKey
PROPERTIES
  OnlySavesUnsettle
