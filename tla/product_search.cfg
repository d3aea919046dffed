SPECIFICATION Spec
CONSTANTS
  Catalogue <- FiveProducts
  Boost <- Flattening
  Recency <- FlatThenFalling
  Suggester <- Suggestions
  Questions <- UpToTwo
  DefaultPageSize = 2
  MaxPageSize = 3
  MaxResultWindow = 5
  SuggestMaxHits = 1
  FacetTermsSize = 2
  MaxNow = 1
  MaxAsked = 2
  None = None
INVARIANTS
  ServedOwnQuestion
  FacetsForetell
  PricesCovered
  PagesTile
  PopularFirst
CHECK_DEADLOCK FALSE
