SPECIFICATION Spec
CONSTANTS
  r1 = r1
  r2 = r2
  elasticsearch = elasticsearch
  redis = redis
  Requests = {r1, r2}
  Reports = {r1, r2}
  Dependencies = {elasticsearch, redis}
  Critical = {elasticsearch}
  Calls <- SomeCalls
  Polls <- BothPolls
  Configs <- OpenAndClosed
  SafeIds <- Traces
  None = None
INVARIANTS
  AccountsAgree
  LinesTraceable
  BlameFollowsCause
  NothingForFree
  WrongVerbsHideRoutes
PROPERTIES
  VerdictWitnessed
  LastingOutageNoted
