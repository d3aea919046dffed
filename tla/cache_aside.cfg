SPECIFICATION Spec
CONSTANTS
  r1 = r1
  r2 = r2
  r3 = r3
  A = A
  B = B
  Requests <- ThreeRequests
  Processes = {A, B}
  Process <- TwoOnOne
  Question <- SameQuestion
  Deployments <- AllDeployments
  None = None
INVARIANTS
  SingleFlight
PROPERTIES
  ImplementsPromisedAnswers
  NoRedundantLoad
  ServedIsOwn
  FailsOnlyWithItsLoad
  EveryRequestEnds
CHECK_DEADLOCK FALSE
