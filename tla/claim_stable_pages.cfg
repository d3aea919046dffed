SPECIFICATION Spec
CONSTANTS
  Catalogue <- FiveProducts
  Boost <- Flattening
  Recency <- FlatThenFalling
  Suggester <- Suggestions
  Questions <- Browsing
  DefaultPageSize = 1
  MaxPageSize = 3
  MaxResultWindow = 5
  SuggestMaxHits = 1
  FacetTermsSize = 2
  MaxNow = 1
  MaxAsked = 2
  None = None
INVARIANT
  PagesStable
CHECK_DEADLOCK FALSE
