SPECIFICATION Spec
CONSTANTS
  g1 = g1
  g2 = g2
  p1 = p1
  A = A
  B = B
  Generations = {g1, g2}
  Products = {p1}
  Dataset <- Datasets
  NoDoc = NoDoc
  Processes = {A, B}
  Ttl <- LongAndShort
  Patience = 1
  LongestExpiry = 7
  MaxChanges = 2
INVARIANTS
  BoundedStaleness
PROPERTIES
  AnswersConverge
