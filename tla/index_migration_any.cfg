SPECIFICATION Spec
CONSTANTS
  g1 = g1
  g2 = g2
  p1 = p1
  p2 = p2
  Seeds = {s1, s2}
  Generations = {g1, g2}
  Products = {p1, p2}
  Definition <- TwoDefinitions
  Dataset <- TwoDatasets
  Unrecorded = "unrecorded"
  NoDoc = NoDoc
PROPERTIES
  CatalogueNeverRegresses
  RefusedIsSuperseded
