SPECIFICATION Spec
CONSTANTS
  r1 = r1
  r2 = r2
  Requests = {r1, r2}
  Environments <- AllEnvironments
  MaxSignals = 2
  None = None
INVARIANTS
  NobodyCutOff
  SamplesReachBackend
  ExitTellsWhy
  DoorsAsConfigured
PROPERTIES
  StopsWhenTold
CHECK_DEADLOCK FALSE
