SPECIFICATION PromptFaultSpec
CONSTANTS
  g1 = g1
  g2 = g2
  p1 = p1
  p2 = p2
  Seeds = {s1, s2, s3}
  Generations = {g1, g2}
  Products = {p1, p2}
  Definition <- TwoDefinitions
  Dataset <- SingleDatasets
  Unrecorded = "unrecorded"
  NoDoc = NoDoc
  MaxRetries = 1
  MaxRollbacks = 1
SYMMETRY SeedSymmetry
PROPERTIES
  ServiceNeverLost
  RetriedLoadIsWhole
