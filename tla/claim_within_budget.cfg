SPECIFICATION Spec
CONSTANTS
  r1 = r1
  r2 = r2
  r3 = r3
  A = A
  B = B
  Requests <- ThreeRequests
  Instances = {A, B}
  Asks <- JustSearch
  ValidKeys = {"valid"}
  AuthEnabled = TRUE
  Limits <- ThreeEach
  Enforced = TRUE
  WindowMs = 2
  SweepMs = 1
  SweepSize = 3
  Second = 2
  MaxNow = 4
  MaxFaults = 1
  None = None
INVARIANTS
  WithinBudgetServed
SYMMETRY Alike
CHECK_DEADLOCK FALSE
