-------------------------- MODULE ProductSearchProofs --------------------------
(***************************************************************************)
(* Proofs about ProductSearch, for every catalogue and every question.     *)
(*                                                                         *)
(* The state needs one invariant only: entries and answers are outcomes of *)
(* questions.  What is left is about the outcome: what it depends on, what *)
(* a facet counts, and that ranks tell products apart.                     *)
(***************************************************************************)
EXTENDS ProductSearch, FiniteSetTheorems, TLAPS

-----------------------------------------------------------------------------
(* Products and criteria.                                                  *)

LEMMA ProductType ==
  ASSUME NEW id \in Ids
  PROVE  /\ Product[id] \in Catalogue
         /\ Product[id].id = id
BY DEF Ids, Product

LEMMA IdsFinite == Ids \subseteq Nat /\ IsFiniteSet(Ids)
<1>1. Ids \subseteq Nat
  BY SearchAssumption DEF Ids
<1>2. [p \in Catalogue |-> p.id] \in Surjection(Catalogue, Ids)
  BY DEF Surjection, Ids
<1>. QED
  BY <1>1, <1>2, FS_Surjection, SearchAssumption

\* Searches find some of the finitely many products.
LEMMA HitsFinite ==
  ASSUME NEW c, NEW exclude
  PROVE  /\ Filtered(c, exclude) \subseteq Ids /\ IsFiniteSet(Filtered(c, exclude))
         /\ Hits(c) \subseteq Ids /\ IsFiniteSet(Hits(c)) /\ Cardinality(Hits(c)) \in Nat
<1>1. Filtered(c, exclude) \subseteq Ids /\ Hits(c) \subseteq Ids
  BY DEF Filtered, TextMatches, Hits
<1>. QED
  BY <1>1, IdsFinite, FS_Subset, FS_CardinalityType

LEMMA CriteriaType ==
  ASSUME NEW d \in Questions
  PROVE  LET c == ToSearchCriteria(d) IN
         /\ c.query \in {None} \cup DOMAIN Suggester /\ c.query # Blank
         /\ c.page \in Nat \ {0} /\ c.pageSize \in Nat \ {0}
         /\ ~Invalid(d) => c.pageSize <= MaxPageSize
         /\ c.sort \in {"relevance", "popularity", "created_at"}
         /\ c.order \in {"asc", "desc"}
         /\ {c.category, c.location, c.minPrice, c.maxPrice} \subseteq Nat \cup {None}
BY SearchAssumption DEF ToSearchCriteria, Given, Blank, Invalid, PageTooLarge

-----------------------------------------------------------------------------
(* What an outcome depends on.                                             *)

\* Criteria that a search cannot tell apart.
Alike(c, e) ==
    /\ c.query = e.query
    /\ {c.category} \ {None, Blank} = {e.category} \ {None, Blank}
    /\ {c.location} \ {None, Blank} = {e.location} \ {None, Blank}
    /\ Elements(c.subcategories) = Elements(e.subcategories)
    /\ c.minPrice = e.minPrice /\ c.maxPrice = e.maxPrice
    /\ c.sort = e.sort /\ c.order = e.order /\ c.page = e.page /\ c.pageSize = e.pageSize

LEMMA OccurrencesElements ==
  ASSUME NEW s, NEW t, Occurrences(s) = Occurrences(t)
  PROVE  Elements(s) = Elements(t)
<1>1. DOMAIN Occurrences(s) = Elements(s) /\ DOMAIN Occurrences(t) = Elements(t)
  BY DEF Occurrences
<1>. QED
  BY <1>1

LEMMA KeyTells ==
  ASSUME NEW d \in Questions, NEW f \in Questions,
         Normalize(ToSearchCriteria(d)) = Normalize(ToSearchCriteria(f))
  PROVE  Alike(ToSearchCriteria(d), ToSearchCriteria(f))
<1>. DEFINE c == ToSearchCriteria(d)
            e == ToSearchCriteria(f)
<1>1. /\ Given(c.query, Blank) = Given(e.query, Blank)
      /\ Given(c.category, Blank) = Given(e.category, Blank)
      /\ Given(c.location, Blank) = Given(e.location, Blank)
      /\ Occurrences(c.subcategories) = Occurrences(e.subcategories)
  <2>. DEFINE k == Normalize(c)
              l == Normalize(e)
  <2>1. /\ k.query = Given(c.query, Blank) /\ k.category = Given(c.category, Blank)
        /\ k.location = Given(c.location, Blank)
        /\ k.subcategories = Occurrences(c.subcategories)
    BY DEF Normalize, ToSearchCriteria
  <2>2. /\ l.query = Given(e.query, Blank) /\ l.category = Given(e.category, Blank)
        /\ l.location = Given(e.location, Blank)
        /\ l.subcategories = Occurrences(e.subcategories)
    BY DEF Normalize, ToSearchCriteria
  <2>. QED
    BY <2>1, <2>2
<1>2. /\ c.minPrice = e.minPrice /\ c.maxPrice = e.maxPrice
      /\ c.sort = e.sort /\ c.order = e.order /\ c.page = e.page /\ c.pageSize = e.pageSize
  BY DEF Normalize, ToSearchCriteria
<1>3. c.query # Blank /\ e.query # Blank
  BY CriteriaType
<1>4. c.query = e.query
  BY <1>1, <1>3 DEF Given
<1>5. /\ {c.category} \ {None, Blank} = {e.category} \ {None, Blank}
      /\ {c.location} \ {None, Blank} = {e.location} \ {None, Blank}
  <2>. HIDE DEF c, e
  <2>. QED
    BY <1>1 DEF Given
<1>6. Elements(c.subcategories) = Elements(e.subcategories)
  BY <1>1, OccurrencesElements
<1>. QED
  BY <1>2, <1>4, <1>5, <1>6 DEF Alike

LEMMA AlikeFinds ==
  ASSUME NEW c, NEW e, Alike(c, e)
  PROVE  /\ \A exclude : Filtered(c, exclude) = Filtered(e, exclude)
         /\ Hits(c) = Hits(e)
<1>1. \A id \in Ids : TextScore(c, id) = TextScore(e, id)
  BY DEF TextScore, Alike
<1>2. TextMatches(c) = TextMatches(e)
  BY <1>1 DEF TextMatches
<1>3. ASSUME NEW exclude, NEW id \in Ids
      PROVE  Passes(c, id, exclude) <=> Passes(e, id, exclude)
  <2>1. /\ c.category \notin {None, Blank} \/ e.category \notin {None, Blank}
              => c.category = e.category
        /\ c.location \notin {None, Blank} \/ e.location \notin {None, Blank}
              => c.location = e.location
    BY DEF Alike
  <2>. QED
    BY <2>1 DEF Passes, Alike
<1>4. TextMatches(c) \subseteq Ids
  BY DEF TextMatches
<1>. QED
  BY <1>2, <1>3, <1>4 DEF Filtered, Hits

LEMMA AlikeItems ==
  ASSUME NEW c, NEW e, Alike(c, e), NEW at
  PROVE  Items(c, at) = Items(e, at)
<1>1. Hits(c) = Hits(e)
  BY AlikeFinds
<1>2. \A id : Score(c, id, at) = Score(e, id, at) /\ SortValue(c, id, at) = SortValue(e, id, at)
  BY DEF Score, SortValue, TextScore, Alike
<1>3. \A a, b : Ahead(c, a, b, at) <=> Ahead(e, a, b, at)
  BY <1>2 DEF Ahead, Alike
<1>4. \A id : Rank(c, Hits(c), id, at) = Rank(e, Hits(e), id, at)
  BY <1>1, <1>3 DEF Rank
<1>5. From(c) = From(e) /\ c.pageSize = e.pageSize
  BY DEF From, Alike
<1>. QED
  BY <1>1, <1>4, <1>5 DEF Items

\* Alike criteria are answered alike.
LEMMA AlikeBody ==
  ASSUME NEW c, NEW e, Alike(c, e), NEW at
  PROVE  Outcome(c, at) = Outcome(e, at) /\ \A outcome : Body(c, outcome) = Body(e, outcome)
<1>1. \A exclude : Filtered(c, exclude) = Filtered(e, exclude)
  BY AlikeFinds
<1>2. Hits(c) = Hits(e)
  BY AlikeFinds
<1>3. \A dimension : TermsFacet(c, dimension) = TermsFacet(e, dimension)
  BY <1>1 DEF TermsFacet
<1>4. PriceFacet(c) = PriceFacet(e)
  BY <1>1 DEF PriceFacet
<1>5. \A total : ResolveSuggestions(c, total) = ResolveSuggestions(e, total)
  BY DEF ResolveSuggestions, Alike
<1>6. Items(c, at) = Items(e, at)
  BY AlikeItems
<1>7. Outcome(c, at) = Outcome(e, at)
  BY <1>2, <1>3, <1>4, <1>5, <1>6 DEF Outcome
<1>8. \A outcome : Body(c, outcome) = Body(e, outcome)
  BY DEF Body, Alike
<1>. QED
  BY <1>7, <1>8

-----------------------------------------------------------------------------
(* The invariant.                                                          *)

\* An entry is the outcome of a question with its key.
EntryInv ==
    \A entry \in entries :
        /\ entry.at \in 0 .. now
        /\ \E d \in Questions :
              /\ ~Invalid(d)
              /\ entry.key = Normalize(ToSearchCriteria(d))
              /\ entry.outcome = Outcome(ToSearchCriteria(d), entry.at)

\* An answer is that of its own question.
AnswerInv ==
    \A a \in answers :
        /\ a.question \in Questions /\ a.status \in {200, 400, 422} /\ a.at \in 0 .. now
        /\ a.status = 200 =>
              /\ ~Invalid(a.question)
              /\ a.body = Body(Criteria(a), Outcome(Criteria(a), a.at))

SearchInv == now \in 0 .. MaxNow /\ EntryInv /\ AnswerInv

LEMMA ReplyInv ==
  ASSUME SearchInv, now' = now, NEW d \in Questions, NEW status \in {200, 400, 422}, NEW body,
         NEW at \in 0 .. now, Reply(d, status, body, at),
         status = 200 => /\ ~Invalid(d)
                         /\ body = Body(ToSearchCriteria(d), Outcome(ToSearchCriteria(d), at))
  PROVE  AnswerInv'
BY DEF SearchInv, AnswerInv, Reply, Answer, Criteria

LEMMA RejectInv ==
  ASSUME SearchInv, NEW d \in Questions, Reject(d) \/ RejectWindow(d)
  PROVE  SearchInv'
<1>1. now' = now /\ entries' = entries /\ now \in 0 .. now
  BY SearchAssumption DEF Reject, RejectWindow, SearchInv
<1>2. AnswerInv'
  BY <1>1, ReplyInv DEF Reject, RejectWindow
<1>. QED
  BY <1>1, <1>2 DEF SearchInv, EntryInv

LEMMA ServeCachedInv ==
  ASSUME SearchInv, NEW d \in Questions, ServeCached(d)
  PROVE  SearchInv'
<1>1. now' = now /\ entries' = entries /\ ~Invalid(d)
  BY DEF ServeCached
<1>2. PICK entry \in entries : /\ entry.key = Normalize(ToSearchCriteria(d))
                               /\ Reply(d, 200, Body(ToSearchCriteria(d), entry.outcome), entry.at)
  BY DEF ServeCached
<1>3. PICK f \in Questions : /\ entry.key = Normalize(ToSearchCriteria(f))
                             /\ entry.outcome = Outcome(ToSearchCriteria(f), entry.at)
  BY DEF SearchInv, EntryInv
<1>4. Alike(ToSearchCriteria(d), ToSearchCriteria(f))
  BY <1>2, <1>3, KeyTells
<1>5. entry.outcome = Outcome(ToSearchCriteria(d), entry.at)
  BY <1>3, <1>4, AlikeBody
<1>6. entry.at \in 0 .. now
  BY DEF SearchInv, EntryInv
<1>7. AnswerInv'
  BY <1>1, <1>2, <1>5, <1>6, ReplyInv
<1>. QED
  BY <1>1, <1>7 DEF SearchInv, EntryInv

LEMMA SearchStepInv ==
  ASSUME SearchInv, NEW d \in Questions, Search(d)
  PROVE  SearchInv'
<1>. DEFINE c == ToSearchCriteria(d)
            entry == [key |-> Normalize(c), outcome |-> Outcome(c, now), at |-> now]
<1>1. /\ now' = now /\ ~Invalid(d) /\ Reply(d, 200, Body(c, Outcome(c, now)), now)
      /\ entries' = {e \in entries : e.key # Normalize(c)} \cup {entry}
  BY DEF Search
<1>2. now \in 0 .. now
  BY SearchAssumption DEF SearchInv
<1>3. AnswerInv'
  BY <1>1, <1>2, ReplyInv
<1>4. EntryInv'
  <2>1. entry.key = Normalize(c) /\ entry.outcome = Outcome(c, now) /\ entry.at = now
    OBVIOUS
  <2>. HIDE DEF entry
  <2>. QED
    BY <1>1, <1>2, <2>1 DEF EntryInv, SearchInv
<1>. QED
  BY <1>1, <1>3, <1>4 DEF SearchInv

LEMMA SearchInit == Init => SearchInv
BY SearchAssumption DEF Init, SearchInv, EntryInv, AnswerInv

LEMMA SearchNext == SearchInv /\ [Next]_vars => SearchInv'
<1>. SUFFICES ASSUME SearchInv, [Next]_vars PROVE SearchInv'
  OBVIOUS
<1>1. CASE Ask
  BY <1>1, RejectInv, ServeCachedInv, SearchStepInv DEF Ask
<1>2. CASE Expire
  BY <1>2 DEF Expire, SearchInv, EntryInv, AnswerInv, Criteria
<1>3. CASE TimePasses
  BY <1>3, SearchAssumption DEF TimePasses, SearchInv, EntryInv, AnswerInv, Criteria
<1>4. CASE UNCHANGED vars
  BY <1>4 DEF vars, SearchInv, EntryInv, AnswerInv, Criteria
<1>. QED
  BY <1>1, <1>2, <1>3, <1>4 DEF Next

LEMMA SearchInvariant == Spec => []SearchInv
BY SearchInit, SearchNext, PTL DEF Spec

\* Whoever asked first, in whichever spelling, and whenever the entry was made: an answer is
\* the one its own question had at that instant (buildSearchCacheKey, toSearchCriteria).
THEOREM AnswersOwnQuestion == Spec => []ServedOwnQuestion
<1>1. SearchInv => ServedOwnQuestion
  BY DEF SearchInv, AnswerInv, ServedOwnQuestion, Served
<1>. QED
  BY <1>1, SearchInvariant, PTL

-----------------------------------------------------------------------------
(* Facets.                                                                 *)

\* A product passes the clauses that select a term of a dimension when it has that term and
\* passes those of the other dimensions.
LEMMA NarrowedFinds ==
  ASSUME NEW d \in Questions, NEW dimension \in Dimensions, NEW term \in Terms
  PROVE  Hits(Narrowed(ToSearchCriteria(d), dimension, term))
            = {id \in Filtered(ToSearchCriteria(d), dimension) : term \in Values(id, dimension)}
<1>. DEFINE c == ToSearchCriteria(d)
            n == Narrowed(c, dimension, term)
<1>1. term \notin {None, Blank}
  BY SearchAssumption DEF Terms
<1>2. /\ n.query = c.query /\ n.minPrice = c.minPrice /\ n.maxPrice = c.maxPrice
      /\ n.category = IF dimension = "category" THEN term ELSE c.category
      /\ n.location = IF dimension = "location" THEN term ELSE c.location
      /\ n.subcategories = IF dimension = "subcategories" THEN <<term>> ELSE c.subcategories
  BY DEF Narrowed, ToSearchCriteria, Dimensions
<1>3. Elements(<<term>>) = {term}
  BY DEF Elements
<1>. HIDE DEF c, n
<1>4. TextMatches(n) = TextMatches(c)
  BY <1>2 DEF TextMatches, TextScore
<1>5. None \notin {"category", "subcategories", "location", "price"}
  BY SearchAssumption
<1>6. ASSUME NEW id \in Ids
      PROVE  Passes(n, id, None) <=> Passes(c, id, dimension) /\ term \in Values(id, dimension)
  <2>1. CASE dimension = "category"
    BY <1>1, <1>2, <1>5, <2>1 DEF Passes, Applies, Values
  <2>2. CASE dimension = "location"
    BY <1>1, <1>2, <1>5, <2>2 DEF Passes, Applies, Values
  <2>3. CASE dimension = "subcategories"
    BY <1>2, <1>3, <1>5, <2>3 DEF Passes, Applies, Values
  <2>. QED
    BY <2>1, <2>2, <2>3 DEF Dimensions
<1>7. TextMatches(c) \subseteq Ids
  BY DEF TextMatches
<1>. QED
  BY <1>4, <1>6, <1>7 DEF Hits, Filtered, c, n

LEMMA ValuesAreTerms ==
  ASSUME NEW id \in Ids, NEW dimension \in Dimensions
  PROVE  Values(id, dimension) \subseteq Terms /\ IsFiniteSet(Values(id, dimension))
<1>1. Product[id] \in Catalogue
  BY ProductType
<1>2. /\ {Product[id].category, Product[id].location} \cup Product[id].subcategories \subseteq Terms
      /\ IsFiniteSet(Product[id].subcategories)
  BY <1>1, SearchAssumption
<1>. QED
  BY <1>2, FS_Singleton DEF Values, Dimensions

LEMMA TermsFinite ==
  ASSUME NEW universe \in SUBSET Ids, NEW dimension \in Dimensions
  PROVE  /\ TermsOf(universe, dimension) \subseteq TermsOf(Ids, dimension)
         /\ TermsOf(Ids, dimension) \subseteq Terms
         /\ IsFiniteSet(TermsOf(Ids, dimension))
<1>. DEFINE S == {Values(id, dimension) : id \in Ids}
            f == [id \in Ids |-> Values(id, dimension)]
<1>1. f \in Surjection(Ids, S)
  BY DEF Surjection
<1>2. IsFiniteSet(S)
  BY <1>1, IdsFinite, FS_Surjection
<1>3. \A T \in S : IsFiniteSet(T)
  BY ValuesAreTerms
<1>4. IsFiniteSet(UNION S)
  BY <1>2, <1>3, FS_UNION
<1>. QED
  BY <1>4, ValuesAreTerms DEF TermsOf

LEMMA CountIsFound ==
  ASSUME NEW d \in Questions, NEW dimension \in Dimensions, NEW term \in Terms
  PROVE  LET c == ToSearchCriteria(d) IN
         /\ Count(Filtered(c, dimension), dimension, term)
               = Cardinality(Hits(Narrowed(c, dimension, term)))
         /\ Count(Filtered(c, dimension), dimension, term) \in Nat
         /\ Count(Filtered(c, dimension), dimension, term) > 0
               <=> term \in TermsOf(Filtered(c, dimension), dimension)
<1>. DEFINE universe == Filtered(ToSearchCriteria(d), dimension)
            found == {id \in universe : term \in Values(id, dimension)}
<1>1. Count(universe, dimension, term) = Cardinality(found)
  BY DEF Count
<1>2. found = Hits(Narrowed(ToSearchCriteria(d), dimension, term))
  BY NarrowedFinds
<1>3. IsFiniteSet(found) /\ Cardinality(found) \in Nat
  BY <1>2, HitsFinite
<1>4. Cardinality(found) = 0 <=> found = {}
  BY <1>3, FS_EmptySet
<1>5. found # {} <=> term \in TermsOf(universe, dimension)
  BY DEF TermsOf
<1>. QED
  BY <1>1, <1>2, <1>3, <1>4, <1>5

\* A term that is not listed has FacetTermsSize terms ahead of it.
LEMMA LeftOut ==
  ASSUME NEW d \in Questions, NEW dimension \in Dimensions,
         NEW term \in TermsOf(Filtered(ToSearchCriteria(d), dimension), dimension),
         term \notin Listed(Filtered(ToSearchCriteria(d), dimension), dimension)
  PROVE  LET Found(t) == Cardinality(Hits(Narrowed(ToSearchCriteria(d), dimension, t)))
         IN  Cardinality({u \in TermsOf(Ids, dimension) \ {term} : Found(u) >= Found(term)})
                >= FacetTermsSize
<1>. DEFINE universe == Filtered(ToSearchCriteria(d), dimension)
            Found(t) == Cardinality(Hits(Narrowed(ToSearchCriteria(d), dimension, t)))
            ahead == Larger(universe, dimension, term)
            more == {u \in TermsOf(Ids, dimension) \ {term} : Found(u) >= Found(term)}
<1>1. universe \in SUBSET Ids
  BY HitsFinite
<1>2. /\ TermsOf(universe, dimension) \subseteq TermsOf(Ids, dimension)
      /\ TermsOf(Ids, dimension) \subseteq Terms
      /\ IsFiniteSet(TermsOf(Ids, dimension))
  BY <1>1, TermsFinite
<1>3. \A t \in Terms : Count(universe, dimension, t) = Found(t) /\ Found(t) \in Nat
  BY CountIsFound
<1>4. ahead \subseteq more
  <2>. SUFFICES ASSUME NEW u \in ahead PROVE u \in more
    OBVIOUS
  <2>1. /\ u \in TermsOf(universe, dimension)
        /\ \/ Count(universe, dimension, u) > Count(universe, dimension, term)
           \/ Count(universe, dimension, u) = Count(universe, dimension, term) /\ u < term
    BY DEF Larger
  <2>2. u \in Terms /\ term \in Terms /\ u \in TermsOf(Ids, dimension)
    BY <1>2, <2>1
  <2>3. Found(u) >= Found(term) /\ u # term
    <3>1. /\ Count(universe, dimension, u) = Found(u) /\ Found(u) \in Nat
          /\ Count(universe, dimension, term) = Found(term) /\ Found(term) \in Nat
      BY <1>3, <2>2
    <3>2. u \in Nat /\ term \in Nat
      BY <2>2 DEF Terms
    <3>. HIDE DEF Found
    <3>. QED
      BY <2>1, <3>1, <3>2
  <2>. QED
    BY <2>2, <2>3
<1>5. IsFiniteSet(more)
  BY <1>2, FS_Subset
<1>6. Cardinality(ahead) <= Cardinality(more) /\ Cardinality(ahead) \in Nat
      /\ Cardinality(more) \in Nat
  BY <1>4, <1>5, FS_Subset, FS_CardinalityType
<1>7. ~(Cardinality(ahead) < FacetTermsSize)
  BY DEF Listed
<1>. QED
  BY <1>6, <1>7, SearchAssumption

\* A bucket's count is the total of the search that selecting it leads to, and a facet leaves
\* nothing out while it has room, whatever is selected (buildFacetAggregations).
THEOREM FacetsTellTotals == Spec => []FacetsForetell
<1>1. SearchInv => FacetsForetell
  <2>. SUFFICES ASSUME SearchInv, NEW a \in Served, NEW dimension \in Dimensions
                PROVE  LET facet == a.body.outcome.facets[dimension]
                           terms == TermsOf(Ids, dimension)
                           Found(t) == Cardinality(Hits(Narrowed(Criteria(a), dimension, t)))
                       IN  /\ \A b \in facet : b.count = Found(b.key) /\ b.count > 0
                           /\ \A term \in terms :
                                 \/ Found(term) = 0
                                 \/ \E b \in facet : b.key = term
                                 \/ Cardinality({u \in terms \ {term} : Found(u) >= Found(term)})
                                       >= FacetTermsSize
    BY DEF FacetsForetell
  <2>. DEFINE c == ToSearchCriteria(a.question)
              universe == Filtered(c, dimension)
              Found(t) == Cardinality(Hits(Narrowed(c, dimension, t)))
  <2>1. a.question \in Questions /\ a.body = Body(c, Outcome(c, a.at))
    BY DEF SearchInv, AnswerInv, Served, Criteria
  <2>2. a.body.outcome.facets[dimension] = TermsFacet(c, dimension)
    BY <2>1 DEF Body, Outcome
  <2>3. universe \in SUBSET Ids
    BY HitsFinite
  <2>4. TermsOf(universe, dimension) \subseteq Terms /\ TermsOf(Ids, dimension) \subseteq Terms
    BY <2>3, TermsFinite
  <2>5. ASSUME NEW b \in TermsFacet(c, dimension)
        PROVE  b.count = Found(b.key) /\ b.count > 0
    <3>1. PICK term \in Listed(universe, dimension) :
              b = [key |-> term, count |-> Count(universe, dimension, term)]
      BY DEF TermsFacet
    <3>2. term \in TermsOf(universe, dimension) /\ term \in Terms
      BY <2>4 DEF Listed
    <3>. QED
      BY <2>1, <3>1, <3>2, CountIsFound
  <2>6. ASSUME NEW term \in TermsOf(Ids, dimension)
        PROVE  \/ Found(term) = 0
               \/ \E b \in TermsFacet(c, dimension) : b.key = term
               \/ Cardinality({u \in TermsOf(Ids, dimension) \ {term} : Found(u) >= Found(term)})
                     >= FacetTermsSize
    <3>1. CASE term \in Listed(universe, dimension)
      <4>. DEFINE b == [key |-> term, count |-> Count(universe, dimension, term)]
      <4>1. b \in TermsFacet(c, dimension) /\ b.key = term
        BY <3>1 DEF TermsFacet
      <4>. QED
        BY <4>1
    <3>2. CASE term \notin TermsOf(universe, dimension)
      BY <2>1, <2>4, <3>2, CountIsFound
    <3>3. CASE term \in TermsOf(universe, dimension) \ Listed(universe, dimension)
      BY <2>1, <3>3, LeftOut
    <3>. QED
      BY <3>1, <3>2, <3>3
  <2>. QED
    BY <2>2, <2>5, <2>6 DEF Criteria
<1>. QED
  BY <1>1, SearchInvariant, PTL

-----------------------------------------------------------------------------
(* Price ranges.                                                           *)

LEMMA UnpricedFinds ==
  ASSUME NEW d \in Questions
  PROVE  LET c == ToSearchCriteria(d)
         IN  Hits([c EXCEPT !.minPrice = None, !.maxPrice = None]) = Filtered(c, "price")
<1>. DEFINE c == ToSearchCriteria(d)
            n == [c EXCEPT !.minPrice = None, !.maxPrice = None]
<1>1. /\ n.query = c.query /\ n.category = c.category /\ n.location = c.location
      /\ n.subcategories = c.subcategories /\ n.minPrice = None /\ n.maxPrice = None
  BY DEF ToSearchCriteria
<1>. HIDE DEF c, n
<1>2. TextMatches(n) = TextMatches(c)
  BY <1>1 DEF TextMatches, TextScore
<1>3. None \notin {"category", "subcategories", "location", "price"}
  BY SearchAssumption
<1>4. \A id : Passes(n, id, None) <=> Passes(c, id, "price")
  BY <1>1, <1>3 DEF Passes, Applies
<1>. QED
  BY <1>2, <1>4 DEF Hits, Filtered, c, n

\* The cardinalities of finite sets without a common element add up.
LEMMA TwoParts ==
  ASSUME NEW S, IsFiniteSet(S), NEW T, IsFiniteSet(T), S \cap T = {}
  PROVE  /\ IsFiniteSet(S \cup T)
         /\ Cardinality(S \cup T) = Cardinality(S) + Cardinality(T)
<1>1. /\ IsFiniteSet(S \cup T)
      /\ Cardinality(S \cup T) = Cardinality(S) + Cardinality(T) - Cardinality(S \cap T)
  BY FS_Union
<1>2. Cardinality(S \cap T) = 0
  BY FS_EmptySet
<1>3. Cardinality(S) \in Nat /\ Cardinality(T) \in Nat
  BY FS_CardinalityType
<1>. QED
  BY <1>1, <1>2, <1>3

LEMMA FourParts ==
  ASSUME NEW U, IsFiniteSet(U), NEW A, NEW B, NEW C, NEW D, U = A \cup B \cup C \cup D,
         A \cap B = {}, (A \cup B) \cap C = {}, (A \cup B \cup C) \cap D = {}
  PROVE  Cardinality(A) + Cardinality(B) + Cardinality(C) + Cardinality(D) = Cardinality(U)
<1>1. IsFiniteSet(A) /\ IsFiniteSet(B) /\ IsFiniteSet(C) /\ IsFiniteSet(D)
  BY FS_Subset
<1>2. IsFiniteSet(A \cup B) /\ Cardinality(A \cup B) = Cardinality(A) + Cardinality(B)
  BY <1>1, TwoParts
<1>3. /\ IsFiniteSet(A \cup B \cup C)
      /\ Cardinality(A \cup B \cup C) = Cardinality(A \cup B) + Cardinality(C)
  BY <1>1, <1>2, TwoParts
<1>4. Cardinality(U) = Cardinality(A \cup B \cup C) + Cardinality(D)
  BY <1>1, <1>3, TwoParts
<1>. QED
  BY <1>2, <1>3, <1>4

\* Every product is in one price range, and the ranges count what the search finds without
\* its price filter (PRICE_RANGES, priceFacet).
THEOREM PricesAddUp == Spec => []PricesCovered
<1>1. SearchInv => PricesCovered
  <2>. SUFFICES ASSUME SearchInv, NEW a \in Served
                PROVE  LET facet == a.body.outcome.priceRanges
                           InBucket(from, to) == facet[[from |-> from, to |-> to]]
                       IN  InBucket(None, 50) + InBucket(50, 100) + InBucket(100, 500)
                              + InBucket(500, None)
                             = Cardinality(Hits([Criteria(a) EXCEPT !.minPrice = None,
                                                                    !.maxPrice = None]))
    BY DEF PricesCovered
  <2>. DEFINE c == ToSearchCriteria(a.question)
              U == Filtered(c, "price")
              Part(from, to) == {id \in U : InRange(Product[id].price, [from |-> from, to |-> to])}
  <2>1. a.question \in Questions /\ a.body = Body(c, Outcome(c, a.at))
    BY DEF SearchInv, AnswerInv, Served, Criteria
  <2>2. a.body.outcome.priceRanges = PriceFacet(c)
    BY <2>1 DEF Body, Outcome
  <2>3. /\ PriceFacet(c)[[from |-> None, to |-> 50]] = Cardinality(Part(None, 50))
        /\ PriceFacet(c)[[from |-> 50, to |-> 100]] = Cardinality(Part(50, 100))
        /\ PriceFacet(c)[[from |-> 100, to |-> 500]] = Cardinality(Part(100, 500))
        /\ PriceFacet(c)[[from |-> 500, to |-> None]] = Cardinality(Part(500, None))
    BY DEF PriceFacet, PriceRanges
  <2>4. None \notin Nat
    BY SearchAssumption
  <2>5. ASSUME NEW id \in U
        PROVE  LET price == Product[id].price IN
               /\ price \in Nat
               /\ id \in Part(None, 50) <=> price < 50
               /\ id \in Part(50, 100) <=> price >= 50 /\ price < 100
               /\ id \in Part(100, 500) <=> price >= 100 /\ price < 500
               /\ id \in Part(500, None) <=> price >= 500
    <3>1. id \in Ids
      BY HitsFinite
    <3>2. Product[id].price \in Nat
      BY <3>1, ProductType, SearchAssumption
    <3>. QED
      BY <2>4, <3>2 DEF InRange
  <2>6. /\ U = Part(None, 50) \cup Part(50, 100) \cup Part(100, 500) \cup Part(500, None)
        /\ Part(None, 50) \cap Part(50, 100) = {}
        /\ (Part(None, 50) \cup Part(50, 100)) \cap Part(100, 500) = {}
        /\ (Part(None, 50) \cup Part(50, 100) \cup Part(100, 500)) \cap Part(500, None) = {}
    BY <2>5
  <2>7. IsFiniteSet(U)
    BY HitsFinite
  <2>8. Cardinality(Part(None, 50)) + Cardinality(Part(50, 100)) + Cardinality(Part(100, 500))
          + Cardinality(Part(500, None)) = Cardinality(U)
    <3>. HIDE DEF U, Part
    <3>. QED
      BY <2>6, <2>7, FourParts
  <2>9. Hits([c EXCEPT !.minPrice = None, !.maxPrice = None]) = U
    BY <2>1, UnpricedFinds
  <2>. HIDE DEF U, Part
  <2>. QED
    BY <2>2, <2>3, <2>8, <2>9 DEF Criteria
<1>. QED
  BY <1>1, SearchInvariant, PTL

-----------------------------------------------------------------------------
(* Ranks.                                                                  *)

LEMMA Products == \A m, n \in Nat : m * n \in Nat
OBVIOUS

LEMMA ProductsGrow == \A m, n, k \in Nat : m <= n => m * k <= n * k /\ k * m <= k * n
OBVIOUS

LEMMA Division ==
  ASSUME NEW n \in Nat, NEW k \in Nat \ {0}
  PROVE  n \div k \in Nat /\ (n \div k) * k <= n /\ n < (n \div k) * k + k
OBVIOUS

LEMMA ScoreType ==
  ASSUME NEW d \in Questions, NEW id \in Ids, NEW at \in 0 .. MaxNow
  PROVE  LET c == ToSearchCriteria(d) IN
         /\ TextScore(c, id) \in Nat
         /\ Product[id].popularity \in Nat /\ Boost[Product[id].popularity] \in Nat
         /\ Product[id].created \in Int
         /\ at - Product[id].created \in DOMAIN Recency
         /\ Recency[at - Product[id].created] \in Nat
         /\ Score(c, id, at) \in Nat
         /\ SortValue(c, id, at) \in Int
<1>. DEFINE c == ToSearchCriteria(d)
<1>1. Product[id] \in Catalogue
  BY ProductType
<1>2. c.query \in {None} \cup DOMAIN Suggester
  BY CriteriaType
<1>. HIDE DEF c
<1>3. TextScore(c, id) \in Nat
  BY <1>1, <1>2, SearchAssumption DEF TextScore
<1>4. /\ Product[id].popularity \in Nat /\ Boost[Product[id].popularity] \in Nat
      /\ Product[id].created \in Int
      /\ at - Product[id].created \in DOMAIN Recency
  BY <1>1, SearchAssumption
<1>5. Recency[at - Product[id].created] \in Nat
  BY <1>4, SearchAssumption
<1>6. Boost[Product[id].popularity] + Recency[at - Product[id].created] \in Nat
  BY <1>4, <1>5
<1>7. Score(c, id, at) \in Nat
  BY <1>3, <1>6, Products DEF Score
<1>8. SortValue(c, id, at) \in Int
  BY <1>4, <1>7 DEF SortValue
<1>. QED
  BY <1>3, <1>4, <1>5, <1>7, <1>8 DEF c

\* The sort is a total order: no two products share a rank.
LEMMA Order ==
  ASSUME NEW d \in Questions, NEW at \in 0 .. MaxNow,
         NEW x \in Ids, NEW y \in Ids, NEW z \in Ids
  PROVE  LET c == ToSearchCriteria(d) IN
         /\ ~Ahead(c, x, x, at)
         /\ Ahead(c, x, y, at) /\ Ahead(c, y, z, at) => Ahead(c, x, z, at)
         /\ x # y => Ahead(c, x, y, at) \/ Ahead(c, y, x, at)
<1>. DEFINE c == ToSearchCriteria(d)
<1>1. /\ Score(c, x, at) \in Nat /\ Score(c, y, at) \in Nat /\ Score(c, z, at) \in Nat
      /\ SortValue(c, x, at) \in Int /\ SortValue(c, y, at) \in Int /\ SortValue(c, z, at) \in Int
  BY ScoreType
<1>2. x \in Nat /\ y \in Nat /\ z \in Nat
  BY IdsFinite
<1>. HIDE DEF c
<1>. QED
  BY <1>1, <1>2 DEF Ahead, TieBreaker, c

LEMMA RankBelow ==
  ASSUME NEW d \in Questions, NEW at \in 0 .. MaxNow,
         NEW x \in Hits(ToSearchCriteria(d)), NEW y \in Hits(ToSearchCriteria(d))
  PROVE  LET c == ToSearchCriteria(d) IN
         /\ Rank(c, Hits(c), x, at) \in Nat
         /\ Rank(c, Hits(c), x, at) < Cardinality(Hits(c))
         /\ Ahead(c, x, y, at) => Rank(c, Hits(c), x, at) < Rank(c, Hits(c), y, at)
<1>. DEFINE c == ToSearchCriteria(d)
            hits == Hits(c)
            Above(h) == {g \in hits : Ahead(c, g, h, at)}
<1>1. hits \subseteq Ids /\ IsFiniteSet(hits) /\ Cardinality(hits) \in Nat
  BY HitsFinite
<1>2. \A h : Rank(c, hits, h, at) = Cardinality(Above(h))
  BY DEF Rank
<1>3. \A h : /\ Above(h) \subseteq hits /\ IsFiniteSet(Above(h))
             /\ Cardinality(Above(h)) \in Nat
  BY <1>1, FS_Subset, FS_CardinalityType
<1>4. x \notin Above(x)
  BY <1>1, Order
<1>5. Cardinality(Above(x)) <= Cardinality(hits) /\ Cardinality(Above(x)) # Cardinality(hits)
  BY <1>1, <1>3, <1>4, FS_Subset
<1>6. ASSUME Ahead(c, x, y, at)
      PROVE  Cardinality(Above(x)) < Cardinality(Above(y))
  <2>1. Above(x) \subseteq Above(y)
    BY <1>1, <1>6, Order
  <2>2. x \in Above(y)
    BY <1>6
  <2>3. /\ Cardinality(Above(x)) <= Cardinality(Above(y))
        /\ Cardinality(Above(x)) # Cardinality(Above(y))
    BY <1>3, <1>4, <2>1, <2>2, FS_Subset
  <2>. QED
    BY <1>3, <2>3
<1>. HIDE DEF Above
<1>. QED
  BY <1>1, <1>2, <1>3, <1>5, <1>6

LEMMA Places ==
  ASSUME NEW d \in Questions, NEW at \in 0 .. MaxNow
  PROVE  LET c == ToSearchCriteria(d)
             items == Items(c, at) IN
         /\ From(c) \in Nat
         /\ From(c) + c.pageSize = c.page * c.pageSize
         /\ DOMAIN items \subseteq Hits(c)
         /\ \A id \in Hits(c) :
               id \in DOMAIN items <=> /\ From(c) <= Rank(c, Hits(c), id, at)
                                       /\ Rank(c, Hits(c), id, at) < From(c) + c.pageSize
         /\ \A id \in DOMAIN items :
               /\ items[id] = Rank(c, Hits(c), id, at) - From(c) + 1
               /\ items[id] \in 1 .. c.pageSize
<1>. DEFINE c == ToSearchCriteria(d)
            items == Items(c, at)
            rank == [id \in Hits(c) |-> Rank(c, Hits(c), id, at)]
            page == {id \in Hits(c) : rank[id] - From(c) + 1 \in 1 .. c.pageSize}
<1>1. c.page \in Nat \ {0} /\ c.pageSize \in Nat \ {0}
  BY CriteriaType
<1>2. \A id \in Hits(c) : rank[id] \in Nat
  BY RankBelow
<1>. HIDE DEF c
<1>3. From(c) \in Nat /\ From(c) + c.pageSize = c.page * c.pageSize
  <2>1. c.page - 1 \in Nat
    BY <1>1
  <2>. QED
    BY <1>1, <2>1, Products DEF From
<1>4. items = [id \in page |-> rank[id] - From(c) + 1]
  BY DEF Items
<1>5. DOMAIN items = page /\ \A id \in page : items[id] = rank[id] - From(c) + 1
  BY <1>4
<1>6. \A id \in Hits(c) : id \in page <=> From(c) <= rank[id] /\ rank[id] < From(c) + c.pageSize
  BY <1>1, <1>2, <1>3
<1>. HIDE DEF items
<1>. QED
  BY <1>3, <1>5, <1>6 DEF c, items

\* Products of a page keep distinct places.
LEMMA PlacesDiffer ==
  ASSUME NEW d \in Questions, NEW at \in 0 .. MaxNow,
         NEW x \in DOMAIN Items(ToSearchCriteria(d), at),
         NEW y \in DOMAIN Items(ToSearchCriteria(d), at), x # y
  PROVE  Items(ToSearchCriteria(d), at)[x] # Items(ToSearchCriteria(d), at)[y]
<1>. DEFINE c == ToSearchCriteria(d)
            Place(id) == Rank(c, Hits(c), id, at)
<1>1. x \in Hits(c) /\ y \in Hits(c) /\ x \in Ids /\ y \in Ids
  BY Places, HitsFinite
<1>2. Ahead(c, x, y, at) \/ Ahead(c, y, x, at)
  BY <1>1, Order
<1>3. /\ Place(x) \in Nat /\ Place(y) \in Nat
      /\ Ahead(c, x, y, at) => Place(x) < Place(y)
      /\ Ahead(c, y, x, at) => Place(y) < Place(x)
  BY <1>1, RankBelow
<1>4. /\ From(c) \in Nat
      /\ Items(c, at)[x] = Place(x) - From(c) + 1 /\ Items(c, at)[y] = Place(y) - From(c) + 1
  BY Places
<1>. HIDE DEF c, Place
<1>. QED
  BY <1>2, <1>3, <1>4 DEF c

\* Every reachable state is well typed: a page has no place beyond the largest page size.
THEOREM TypeCorrect == Spec => []TypeOK
<1>1. SearchInv => TypeOK
  <2>. SUFFICES ASSUME SearchInv, NEW a \in answers, a.status = 200
                PROVE  LET items == a.body.outcome.items IN
                       /\ DOMAIN items \subseteq Ids
                       /\ \A id \in DOMAIN items : items[id] \in 1 .. MaxPageSize
    BY DEF SearchInv, EntryInv, AnswerInv, TypeOK
  <2>. DEFINE c == ToSearchCriteria(a.question)
  <2>1. /\ a.question \in Questions /\ a.at \in 0 .. MaxNow /\ ~Invalid(a.question)
        /\ a.body = Body(c, Outcome(c, a.at))
    BY SearchAssumption DEF SearchInv, AnswerInv, Criteria
  <2>2. a.body.outcome.items = Items(c, a.at)
    BY <2>1 DEF Body, Outcome
  <2>3. DOMAIN Items(c, a.at) \subseteq Ids
    BY <2>1, Places, HitsFinite
  <2>4. c.pageSize \in Nat /\ c.pageSize <= MaxPageSize
    BY <2>1, CriteriaType
  <2>5. \A id \in DOMAIN Items(c, a.at) : Items(c, a.at)[id] \in 1 .. c.pageSize
    BY <2>1, Places
  <2>6. \A id \in DOMAIN Items(c, a.at) : Items(c, a.at)[id] \in 1 .. MaxPageSize
    BY <2>4, <2>5, SearchAssumption
  <2>. QED
    BY <2>2, <2>3, <2>6
<1>. QED
  BY <1>1, SearchInvariant, PTL

-----------------------------------------------------------------------------
(* Pages.                                                                  *)

\* Criteria that differ in nothing but the page.
SameButPage(c, e) == [c EXCEPT !.page = 1] = [e EXCEPT !.page = 1]

\* What the page is does not matter to what is found, and in which order.
LEMMA PageIrrelevant ==
  ASSUME NEW d \in Questions, NEW f \in Questions,
         SameButPage(ToSearchCriteria(d), ToSearchCriteria(f)),
         NEW at
  PROVE  LET c == ToSearchCriteria(d)
             e == ToSearchCriteria(f) IN
         /\ c.pageSize = e.pageSize /\ c.sort = e.sort /\ c.order = e.order
         /\ Hits(c) = Hits(e)
         /\ \A id : /\ TextScore(c, id) = TextScore(e, id)
                    /\ Rank(c, Hits(c), id, at) = Rank(e, Hits(e), id, at)
<1>. DEFINE c == ToSearchCriteria(d)
            e == ToSearchCriteria(f)
<1>1. /\ c.query = e.query /\ c.category = e.category /\ c.location = e.location
      /\ c.subcategories = e.subcategories /\ c.minPrice = e.minPrice /\ c.maxPrice = e.maxPrice
      /\ c.sort = e.sort /\ c.order = e.order /\ c.pageSize = e.pageSize
  BY DEF ToSearchCriteria, SameButPage
<1>. HIDE DEF c, e
<1>2. \A id : TextScore(c, id) = TextScore(e, id)
  BY <1>1 DEF TextScore
<1>3. \A id : Passes(c, id, None) <=> Passes(e, id, None)
  BY <1>1 DEF Passes
<1>4. Hits(c) = Hits(e)
  BY <1>2, <1>3 DEF Hits, Filtered, TextMatches
<1>5. \A id : Score(c, id, at) = Score(e, id, at) /\ SortValue(c, id, at) = SortValue(e, id, at)
  BY <1>1, <1>2 DEF Score, SortValue
<1>6. \A x, y : Ahead(c, x, y, at) <=> Ahead(e, x, y, at)
  BY <1>1, <1>5 DEF Ahead
<1>7. \A id : Rank(c, Hits(c), id, at) = Rank(e, Hits(e), id, at)
  BY <1>4, <1>6 DEF Rank
<1>. QED
  BY <1>1, <1>2, <1>4, <1>7 DEF c, e

\* An earlier page ends before a later one begins.
LEMMA PagesFollow ==
  ASSUME NEW p \in Nat, NEW q \in Nat \ {0}, p < q, NEW size \in Nat
  PROVE  p * size <= (q - 1) * size
<1>1. p <= q - 1 /\ q - 1 \in Nat
  OBVIOUS
<1>. QED
  BY <1>1, ProductsGrow

\* Pages of one question at one instant have no product in common.
LEMMA PagesDisjoint ==
  ASSUME NEW d \in Questions, NEW f \in Questions,
         SameButPage(ToSearchCriteria(d), ToSearchCriteria(f)),
         ToSearchCriteria(d).page < ToSearchCriteria(f).page,
         NEW at \in 0 .. MaxNow,
         NEW x \in DOMAIN Items(ToSearchCriteria(d), at),
         NEW y \in DOMAIN Items(ToSearchCriteria(f), at)
  PROVE  LET c == ToSearchCriteria(d)
         IN  Rank(c, Hits(c), x, at) < Rank(c, Hits(c), y, at)
<1>. DEFINE c == ToSearchCriteria(d)
            e == ToSearchCriteria(f)
            size == c.pageSize
            rx == Rank(c, Hits(c), x, at)
            ry == Rank(c, Hits(c), y, at)
<1>1. c.page \in Nat \ {0} /\ e.page \in Nat \ {0} /\ size \in Nat \ {0} /\ e.pageSize = size
  BY CriteriaType, PageIrrelevant
<1>2. x \in Hits(c) /\ y \in Hits(c) /\ rx \in Nat /\ ry \in Nat
  BY Places, PageIrrelevant, RankBelow
<1>3. rx < c.page * size
  <2>1. From(c) + size = c.page * size /\ rx < From(c) + size
    BY <1>2, Places
  <2>. HIDE DEF c, size, rx
  <2>. QED
    BY <2>1
<1>4. (e.page - 1) * size <= ry
  <2>1. y \in Hits(e) /\ From(e) <= Rank(e, Hits(e), y, at)
    BY Places
  <2>2. Rank(e, Hits(e), y, at) = ry
    <3>1. \A id : Rank(c, Hits(c), id, at) = Rank(e, Hits(e), id, at)
      BY PageIrrelevant
    <3>. HIDE DEF c, e
    <3>. QED
      BY <3>1
  <2>3. From(e) = (e.page - 1) * size
    BY <1>1 DEF From
  <2>. HIDE DEF c, e, size, ry
  <2>. QED
    BY <2>1, <2>2, <2>3
<1>5. c.page * size <= (e.page - 1) * size
  BY <1>1, PagesFollow
<1>6. c.page * size \in Nat /\ e.page - 1 \in Nat /\ (e.page - 1) * size \in Nat
  BY <1>1, Products
<1>. HIDE DEF c, e, size, rx, ry
<1>. QED
  BY <1>2, <1>3, <1>4, <1>5, <1>6 DEF c, rx, ry

\* Some announced page has the product of any rank.
LEMMA PageOf ==
  ASSUME NEW rank \in Nat, NEW total \in Nat, rank < total, NEW size \in Nat \ {0}
  PROVE  \E p \in 1 .. (total + size - 1) \div size :
            (p - 1) * size <= rank /\ rank < (p - 1) * size + size
<1>. DEFINE q == rank \div size
            last == (total + size - 1) \div size
<1>1. q \in Nat /\ q * size <= rank /\ rank < q * size + size
  BY Division
<1>2. total + size - 1 \in Nat
  OBVIOUS
<1>3. last \in Nat /\ total + size - 1 < last * size + size
  BY <1>2, Division
<1>4. q * size \in Nat /\ last * size \in Nat
  BY <1>1, <1>3, Products
<1>5. q < last
  <2>. SUFFICES ASSUME last <= q PROVE FALSE
    BY <1>1, <1>3
  <2>1. last * size <= q * size
    BY <1>1, <1>3, ProductsGrow
  <2>. HIDE DEF q, last
  <2>. QED
    BY <1>1, <1>3, <1>4, <2>1
<1>. HIDE DEF q, last
<1>6. q + 1 \in 1 .. last /\ (q + 1) - 1 = q
  BY <1>1, <1>3, <1>5
<1>. QED
  BY <1>1, <1>6 DEF last

LEMMA ServedBody ==
  ASSUME SearchInv, NEW a \in Served
  PROVE  /\ a.question \in Questions /\ a.at \in 0 .. MaxNow
         /\ a.body.outcome.items = Items(Criteria(a), a.at)
         /\ a.body.page = Criteria(a).page
         /\ a.body.totalPages
              = (Cardinality(Hits(Criteria(a))) + Criteria(a).pageSize - 1) \div Criteria(a).pageSize
<1>1. /\ a.question \in Questions /\ a.at \in 0 .. MaxNow
      /\ a.body = Body(Criteria(a), Outcome(Criteria(a), a.at))
  BY SearchAssumption DEF SearchInv, AnswerInv, Served
<1>2. /\ a.body.page = Criteria(a).page
      /\ a.body.outcome = Outcome(Criteria(a), a.at)
      /\ a.body.totalPages
           = (a.body.outcome.total + Criteria(a).pageSize - 1) \div Criteria(a).pageSize
  BY <1>1 DEF Body
<1>3. /\ a.body.outcome.items = Items(Criteria(a), a.at)
      /\ a.body.outcome.total = Cardinality(Hits(Criteria(a)))
  BY <1>2 DEF Outcome
<1>. QED
  BY <1>1, <1>2, <1>3

\* On answers: an earlier page has the products of smaller rank.
LEMMA EarlierPage ==
  ASSUME SearchInv, NEW a \in Served, NEW b \in Served, a.at = b.at,
         SameButPage(Criteria(a), Criteria(b)),
         a.body.page < b.body.page,
         NEW x \in DOMAIN a.body.outcome.items, NEW y \in DOMAIN b.body.outcome.items
  PROVE  /\ Rank(Criteria(a), Hits(Criteria(a)), x, a.at)
              < Rank(Criteria(a), Hits(Criteria(a)), y, a.at)
         /\ x # y
<1>1. /\ a.question \in Questions /\ b.question \in Questions /\ a.at \in 0 .. MaxNow
      /\ x \in DOMAIN Items(Criteria(a), a.at) /\ y \in DOMAIN Items(Criteria(b), a.at)
      /\ Criteria(a).page < Criteria(b).page
  BY ServedBody
<1>2. Rank(Criteria(a), Hits(Criteria(a)), x, a.at) < Rank(Criteria(a), Hits(Criteria(a)), y, a.at)
  BY <1>1, PagesDisjoint DEF Criteria
<1>3. Rank(Criteria(a), Hits(Criteria(a)), x, a.at) \in Nat
  BY <1>1, Places, RankBelow DEF Criteria
<1>. QED
  BY <1>2, <1>3

\* Every announced page fetched, every product is on one of them.
LEMMA AllPages ==
  ASSUME SearchInv, NEW a \in Served, NEW pages \in SUBSET Served, a \in pages,
         \A b \in pages : b.at = a.at
                          /\ SameButPage(Criteria(a), Criteria(b)),
         {b.body.page : b \in pages} = 1 .. a.body.totalPages
  PROVE  UNION {DOMAIN b.body.outcome.items : b \in pages} = Hits(Criteria(a))
<1>. DEFINE c == Criteria(a)
            size == c.pageSize
            Place(id) == Rank(c, Hits(c), id, a.at)
<1>1. a.question \in Questions /\ a.at \in 0 .. MaxNow /\ size \in Nat \ {0}
  BY ServedBody, CriteriaType DEF Criteria
<1>2. ASSUME NEW b \in pages
      PROVE  /\ DOMAIN b.body.outcome.items \subseteq Hits(c)
             /\ \A id \in Hits(c) :
                   id \in DOMAIN b.body.outcome.items <=>
                      /\ (b.body.page - 1) * size <= Place(id)
                      /\ Place(id) < (b.body.page - 1) * size + size
  <2>1. /\ b.question \in Questions /\ b.at = a.at
        /\ b.body.outcome.items = Items(Criteria(b), a.at) /\ b.body.page = Criteria(b).page
    BY ServedBody
  <2>2. /\ Criteria(b).pageSize = size /\ Hits(Criteria(b)) = Hits(c)
        /\ \A id : Rank(Criteria(b), Hits(Criteria(b)), id, a.at) = Place(id)
    <3>1. SameButPage(ToSearchCriteria(a.question), ToSearchCriteria(b.question))
      BY DEF Criteria
    <3>2. c = ToSearchCriteria(a.question) /\ Criteria(b) = ToSearchCriteria(b.question)
      BY DEF Criteria
    <3>. HIDE DEF c
    <3>. QED
      BY <1>1, <2>1, <3>1, <3>2, PageIrrelevant
  <2>3. From(Criteria(b)) = (b.body.page - 1) * size
    BY <2>1, <2>2 DEF From
  <2>4. /\ DOMAIN Items(Criteria(b), a.at) \subseteq Hits(Criteria(b))
        /\ \A id \in Hits(Criteria(b)) :
              id \in DOMAIN Items(Criteria(b), a.at) <=>
                 /\ From(Criteria(b)) <= Rank(Criteria(b), Hits(Criteria(b)), id, a.at)
                 /\ Rank(Criteria(b), Hits(Criteria(b)), id, a.at)
                      < From(Criteria(b)) + Criteria(b).pageSize
    BY <1>1, <2>1, Places DEF Criteria
  <2>. HIDE DEF c, size, Place
  <2>. QED
    BY <2>1, <2>2, <2>3, <2>4
<1>3. ASSUME NEW id \in Hits(c)
      PROVE  \E b \in pages : id \in DOMAIN b.body.outcome.items
  <2>1. Place(id) \in Nat /\ Place(id) < Cardinality(Hits(c)) /\ Cardinality(Hits(c)) \in Nat
    BY <1>1, RankBelow, HitsFinite DEF Criteria
  <2>2. a.body.totalPages = (Cardinality(Hits(c)) + size - 1) \div size
    BY ServedBody
  <2>. HIDE DEF c, size, Place
  <2>3. PICK p \in 1 .. a.body.totalPages :
            (p - 1) * size <= Place(id) /\ Place(id) < (p - 1) * size + size
    BY <1>1, <2>1, <2>2, PageOf
  <2>4. PICK b \in pages : b.body.page = p
    <3>1. p \in {b.body.page : b \in pages}
      OBVIOUS
    <3>. QED
      BY <3>1
  <2>. QED
    BY <1>2, <2>3, <2>4
<1>. HIDE DEF c, size, Place
<1>. QED
  BY <1>2, <1>3 DEF c

\* A page has one product in each place, pages of one question at one instant are disjoint,
\* and those announced are all there is (resolveWindow, buildSort, toSearchResponseDto).
THEOREM PagesTileHits == Spec => []PagesTile
<1>1. SearchInv => PagesTile
  <2>. SUFFICES ASSUME SearchInv, NEW a \in Served
                PROVE  LET pages == {b \in Served : OtherPage(a, b) /\ b.at = a.at}
                           items == a.body.outcome.items
                       IN
                       /\ \A x, y \in DOMAIN items : items[x] = items[y] => x = y
                       /\ \A b \in pages : DOMAIN items \cap DOMAIN b.body.outcome.items = {}
                       /\ {b.body.page : b \in pages \cup {a}} = 1 .. a.body.totalPages =>
                             UNION {DOMAIN b.body.outcome.items : b \in pages \cup {a}}
                               = Hits(Criteria(a))
    BY DEF PagesTile
  <2>. DEFINE pages == {b \in Served : OtherPage(a, b) /\ b.at = a.at}
  <2>1. ASSUME NEW b \in pages
        PROVE  DOMAIN a.body.outcome.items \cap DOMAIN b.body.outcome.items = {}
    <3>1. /\ b \in Served /\ b.at = a.at
          /\ SameButPage(Criteria(a), Criteria(b)) /\ SameButPage(Criteria(b), Criteria(a))
          /\ Criteria(a).page # Criteria(b).page
      BY DEF OtherPage, SameButPage
    <3>2. /\ a.body.page = Criteria(a).page /\ b.body.page = Criteria(b).page
          /\ Criteria(a).page \in Nat /\ Criteria(b).page \in Nat
      BY <3>1, ServedBody, CriteriaType DEF Criteria
    <3>3. a.body.page < b.body.page \/ b.body.page < a.body.page
      BY <3>1, <3>2
    <3>. QED
      BY <3>1, <3>3, EarlierPage
  <2>2. ASSUME {b.body.page : b \in pages \cup {a}} = 1 .. a.body.totalPages
        PROVE  UNION {DOMAIN b.body.outcome.items : b \in pages \cup {a}} = Hits(Criteria(a))
    <3>1. \A b \in pages \cup {a} :
              b.at = a.at /\ SameButPage(Criteria(a), Criteria(b))
      BY DEF OtherPage, SameButPage
    <3>. HIDE DEF pages
    <3>2. pages \cup {a} \subseteq Served
      BY DEF pages
    <3>. QED
      BY <2>2, <3>1, <3>2, AllPages
  <2>3. \A x, y \in DOMAIN a.body.outcome.items :
            a.body.outcome.items[x] = a.body.outcome.items[y] => x = y
    <3>1. /\ a.question \in Questions /\ a.at \in 0 .. MaxNow
          /\ a.body = Body(Criteria(a), Outcome(Criteria(a), a.at))
      BY SearchAssumption DEF SearchInv, AnswerInv, Served
    <3>2. a.body.outcome.items = Items(ToSearchCriteria(a.question), a.at)
      BY <3>1 DEF Criteria, Body, Outcome
    <3>. QED
      BY <3>1, <3>2, PlacesDiffer
  <2>. QED
    BY <2>1, <2>2, <2>3
<1>. QED
  BY <1>1, SearchInvariant, PTL

-----------------------------------------------------------------------------
(* Relevance.                                                              *)

LEMMA ProductsGrowStrictly ==
  ASSUME NEW m \in Nat, NEW n \in Nat \ {0}, n <= m,
         NEW j \in Nat, NEW k \in Nat, k < j
  PROVE  n * k < m * j
<1>1. n * k < n * j
  OBVIOUS
<1>2. n * j <= m * j
  BY ProductsGrow
<1>3. n * k \in Nat /\ n * j \in Nat /\ m * j \in Nat
  BY Products
<1>. QED
  BY <1>1, <1>2, <1>3

\* Popularity worth more, neither older nor a worse match: a better score.
LEMMA ScoreGrows ==
  ASSUME NEW d \in Questions, NEW at \in 0 .. MaxNow,
         NEW x \in Ids, NEW y \in Hits(ToSearchCriteria(d)),
         TextScore(ToSearchCriteria(d), x) >= TextScore(ToSearchCriteria(d), y),
         Boost[Product[x].popularity] > Boost[Product[y].popularity],
         Product[x].created >= Product[y].created
  PROVE  Score(ToSearchCriteria(d), y, at) < Score(ToSearchCriteria(d), x, at)
<1>. DEFINE c == ToSearchCriteria(d)
            ax == at - Product[x].created
            ay == at - Product[y].created
<1>1. y \in Ids /\ TextScore(c, y) > 0
  BY DEF Hits, Filtered, TextMatches
<1>2. /\ TextScore(c, x) \in Nat /\ TextScore(c, y) \in Nat
      /\ Boost[Product[x].popularity] \in Nat /\ Boost[Product[y].popularity] \in Nat
      /\ Product[x].created \in Int /\ Product[y].created \in Int
      /\ ax \in DOMAIN Recency /\ ay \in DOMAIN Recency
      /\ Recency[ax] \in Nat /\ Recency[ay] \in Nat
  BY <1>1, ScoreType
<1>3. ax <= ay
  BY <1>2
<1>4. Recency[ay] <= Recency[ax]
  BY <1>2, <1>3, SearchAssumption
<1>5. /\ Score(c, x, at) = TextScore(c, x) * (Boost[Product[x].popularity] + Recency[ax])
      /\ Score(c, y, at) = TextScore(c, y) * (Boost[Product[y].popularity] + Recency[ay])
  BY DEF Score
<1>. HIDE DEF c, ax, ay
<1>6. /\ Boost[Product[y].popularity] + Recency[ay] < Boost[Product[x].popularity] + Recency[ax]
      /\ Boost[Product[y].popularity] + Recency[ay] \in Nat /\ Boost[Product[x].popularity] + Recency[ax] \in Nat
  BY <1>2, <1>4
<1>7. TextScore(c, y) \in Nat \ {0} /\ TextScore(c, y) <= TextScore(c, x)
  BY <1>1, <1>2 DEF c
<1>8. TextScore(c, y) * (Boost[Product[y].popularity] + Recency[ay])
        < TextScore(c, x) * (Boost[Product[x].popularity] + Recency[ax])
  BY <1>2, <1>6, <1>7, ProductsGrowStrictly
<1>. QED
  BY <1>5, <1>8 DEF c

\* The most popular of comparable products comes first, on its page and among the pages of
\* one instant (buildScoreFunctions, buildSort).
THEOREM PopularComeFirst == Spec => []PopularFirst
<1>1. SearchInv => PopularFirst
  <2>. SUFFICES ASSUME SearchInv, NEW a \in Served, NEW b \in Served,
                       a = b \/ (OtherPage(a, b) /\ a.at = b.at),
                       Criteria(a).sort = "relevance", Criteria(a).order = "desc",
                       NEW x \in DOMAIN a.body.outcome.items, NEW y \in DOMAIN b.body.outcome.items,
                       TextScore(Criteria(a), x) >= TextScore(Criteria(a), y),
                       Boost[Product[x].popularity] > Boost[Product[y].popularity],
                       Product[x].created >= Product[y].created
                PROVE  \/ a.body.page < b.body.page
                       \/ a = b /\ a.body.outcome.items[x] < a.body.outcome.items[y]
    BY DEF PopularFirst
  <2>. DEFINE c == Criteria(a)
              Place(id) == Rank(c, Hits(c), id, a.at)
  <2>1. /\ a.at = b.at /\ a.at \in 0 .. MaxNow
        /\ a.question \in Questions /\ b.question \in Questions
        /\ SameButPage(Criteria(a), Criteria(b)) /\ SameButPage(Criteria(b), Criteria(a))
        /\ a = b \/ Criteria(a).page # Criteria(b).page
    BY ServedBody DEF OtherPage, SameButPage
  <2>2. /\ a.body.outcome.items = Items(Criteria(a), a.at) /\ a.body.page = Criteria(a).page
        /\ b.body.outcome.items = Items(Criteria(b), a.at) /\ b.body.page = Criteria(b).page
    BY <2>1, ServedBody
  <2>3. x \in Hits(c) /\ y \in Hits(c) /\ x \in Ids /\ y \in Ids
    <3>1. x \in Hits(Criteria(a)) /\ y \in Hits(Criteria(b))
      BY <2>1, <2>2, Places DEF Criteria
    <3>2. Hits(Criteria(a)) = Hits(Criteria(b))
      BY <2>1, PageIrrelevant DEF Criteria
    <3>. QED
      BY <3>1, <3>2, HitsFinite
  <2>4. Score(c, y, a.at) < Score(c, x, a.at)
    BY <2>1, <2>3, ScoreGrows DEF Criteria
  <2>5. Ahead(c, x, y, a.at)
    <3>1. SortValue(c, x, a.at) = Score(c, x, a.at) /\ SortValue(c, y, a.at) = Score(c, y, a.at)
      BY DEF SortValue
    <3>2. Score(c, x, a.at) \in Nat /\ Score(c, y, a.at) \in Nat
      BY <2>1, <2>3, ScoreType DEF Criteria
    <3>. QED
      BY <2>4, <3>1, <3>2 DEF Ahead
  <2>6. Place(x) < Place(y) /\ Place(x) \in Nat /\ Place(y) \in Nat
    BY <2>1, <2>3, <2>5, RankBelow DEF Criteria
  <2>7. CASE a = b
    <3>1. /\ From(c) \in Nat
          /\ a.body.outcome.items[x] = Place(x) - From(c) + 1
          /\ a.body.outcome.items[y] = Place(y) - From(c) + 1
      BY <2>1, <2>2, <2>7, Places DEF Criteria
    <3>. HIDE DEF c, Place
    <3>. QED
      BY <2>6, <2>7, <3>1
  <2>8. CASE a.body.page # b.body.page
    <3>1. a.body.page \in Nat /\ b.body.page \in Nat
      BY <2>1, <2>2, CriteriaType DEF Criteria
    <3>2. ~(b.body.page < a.body.page)
      <4>1. Rank(Criteria(b), Hits(Criteria(b)), x, a.at) = Place(x)
            /\ Rank(Criteria(b), Hits(Criteria(b)), y, a.at) = Place(y)
        BY <2>1, PageIrrelevant DEF Criteria
      <4>2. b.body.page < a.body.page => Place(y) < Place(x)
        <5>1. ASSUME b.body.page < a.body.page
              PROVE  Rank(Criteria(b), Hits(Criteria(b)), y, b.at)
                       < Rank(Criteria(b), Hits(Criteria(b)), x, b.at)
          BY <2>1, <5>1, EarlierPage
        <5>. HIDE DEF Place, c
        <5>. QED
          BY <2>1, <4>1, <5>1
      <4>. HIDE DEF Place, c
      <4>. QED
        BY <2>6, <4>2
    <3>. QED
      BY <2>8, <3>1, <3>2
  <2>. QED
    BY <2>1, <2>2, <2>7, <2>8
<1>. QED
  BY <1>1, SearchInvariant, PTL

=============================================================================
