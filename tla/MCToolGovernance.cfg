SPECIFICATION Spec
CONSTANTS
  r1 = r1
  r2 = r2
  r3 = r3
  a1 = a1
  a2 = a2
  Requests = {r1, r2, r3}
  Agents = {a1, a2}
  AgentOf <- MCAgentOf
  ReadOnly = {r3}
  Workers = {w1, w2, w3}
  None = none
  Cost = 2
  Costs = {1, 3}
  BusinessLimit = 5
  AgentLimit = 4
  Threshold = 1
  MaxFaults = 1
SYMMETRY Symmetry
INVARIANTS SpendWithinLimits ReservedIsHeld InvokedOnce  
PROPERTIES LateSuccessCannotClose
CHECK_DEADLOCK FALSE
