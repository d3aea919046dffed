----------------------------- MODULE ProductSearch -----------------------------
(***************************************************************************)
(* What GET /search answers: criteria from query parameters, the request   *)
(* built for Elasticsearch (text query, post_filter, facets, sort, window),*)
(* its response mapped back, and the cache entries in between.             *)
(*                                                                         *)
(* A client asks several questions while time passes: the score of a       *)
(* product contains its age at the moment of the request.  The catalogue   *)
(* is the one served throughout (IndexMigration changes it, and CacheAside *)
(* has the concurrency of the cache).  Elasticsearch, external, filters,   *)
(* counts and sorts as it is asked; text scores, the recency curve and its *)
(* suggester are constants, and so is what popularity is worth.            *)
(***************************************************************************)
EXTENDS Integers, Sequences, FiniteSets

CONSTANTS
    Catalogue,       \* the documents of the index; an id is its place in the order of ids
    Boost,           \* the value of ln1p(RELEVANCE_POPULARITY_FACTOR * popularity) at each popularity
    Recency,         \* the value of the gauss function at each age
    Suggester,       \* the suggest block the engine returns for each query
    Questions,       \* parameters of requests, each valid by itself
    DefaultPageSize, MaxPageSize, MaxResultWindow, SuggestMaxHits,
    FacetTermsSize,  \* FACET_TERMS_SIZE, 50
    MaxNow,          \* bound: the last instant
    MaxAsked,        \* bound: answers, after which nothing happens
    None             \* an absent parameter, no answer

\* A term (category, subcategory, location) or query is its place in the alphabet;
\* the empty string comes first.  No product of the dataset has a blank term.
Blank == 0
Terms == Nat \ {Blank}

ASSUME SearchAssumption ==
    /\ IsFiniteSet(Catalogue)
    /\ \A p \in Catalogue :
          /\ {p.id, p.price, p.popularity} \subseteq Nat
          /\ {p.category, p.location} \cup p.subcategories \subseteq Terms
          /\ IsFiniteSet(p.subcategories)
          /\ p.created \in Int /\ p.created <= 0
          /\ DOMAIN p.text = DOMAIN Suggester /\ \A q \in DOMAIN p.text : p.text[q] \in Nat
          /\ \A other \in Catalogue : p.id = other.id => p = other
          /\ p.popularity \in DOMAIN Boost
    /\ \A n \in DOMAIN Boost :
          /\ n \in Nat /\ Boost[n] \in Nat
          /\ \A more \in DOMAIN Boost : n <= more => Boost[n] <= Boost[more]
    /\ \A p \in Catalogue, at \in 0 .. MaxNow : at - p.created \in DOMAIN Recency
    /\ \A age \in DOMAIN Recency :
          /\ age \in Nat /\ Recency[age] \in Nat
          /\ \A older \in DOMAIN Recency : age <= older => Recency[older] <= Recency[age]
    /\ \A d \in Questions :
          /\ d.q \in {None, Blank} \cup DOMAIN Suggester
          /\ \A i \in DOMAIN d.subcategory : d.subcategory[i] \in Nat
          /\ {d.category, d.location, d.minPrice, d.maxPrice} \subseteq Nat \cup {None}
          /\ {d.page, d.pageSize} \subseteq (Nat \ {0}) \cup {None}
          /\ d.sort \in {None, "relevance", "popularity", "created_at"}
          /\ d.order \in {None, "asc", "desc"}
    /\ {DefaultPageSize, MaxPageSize} \subseteq Nat \ {0} /\ DefaultPageSize <= MaxPageSize
    /\ {MaxResultWindow, SuggestMaxHits, FacetTermsSize, MaxNow, MaxAsked} \subseteq Nat
    /\ None \notin Nat \cup {"relevance", "popularity", "created_at", "asc", "desc"}
    /\ None \notin {"category", "subcategories", "location", "price"}

Ids == {p.id : p \in Catalogue}
Product == [id \in Ids |-> CHOOSE p \in Catalogue : p.id = id]

VARIABLES
    now,      \* the instant
    entries,  \* cached outcomes: key, outcome, and the instant of the search
    answers   \* who was answered what: the question, status, body, instant of the search

vars == <<now, entries, answers>>

-----------------------------------------------------------------------------
(* From parameters to criteria.                                            *)

Elements(s) == {s[i] : i \in DOMAIN s}

(* What is answered 400: IsNotBelowMinPrice, assertPageSizeWithinLimit.    *)
InvertedPrices(d) == d.minPrice # None /\ d.maxPrice # None /\ d.minPrice > d.maxPrice

PageTooLarge(d) == d.pageSize # None /\ d.pageSize > MaxPageSize

Invalid(d) == InvertedPrices(d) \/ PageTooLarge(d)

Given(parameter, default) == IF parameter = None THEN default ELSE parameter

NotBlank(term) == term # Blank

ToSearchCriteria(d) ==
    LET query == IF d.q = Blank THEN None ELSE d.q
    IN  [query |-> query,
         category |-> d.category, location |-> d.location,
         subcategories |-> SelectSeq(d.subcategory, NotBlank),
         minPrice |-> d.minPrice, maxPrice |-> d.maxPrice,
         sort |-> Given(d.sort, IF query = None THEN "popularity" ELSE "relevance"),
         order |-> Given(d.order, "desc"),
         page |-> Given(d.page, 1), pageSize |-> Given(d.pageSize, DefaultPageSize)]

(* A variant of normalize forgets the location.                            *)
NormalizeElsewhere(c) == [c EXCEPT !.location = Blank]

(* normalize: sorting subcategories leaves how often each occurs.  The     *)
(* scope is one deployment's (CacheAside).                                 *)
Occurrences(s) == [t \in Elements(s) |-> Cardinality({i \in DOMAIN s : s[i] = t})]

Normalize(c) ==
    [c EXCEPT !.query = Given(@, Blank), !.category = Given(@, Blank),
              !.location = Given(@, Blank), !.subcategories = Occurrences(@)]

-----------------------------------------------------------------------------
(* The request to Elasticsearch.                                           *)

TextScore(c, id) == IF c.query = None THEN 1 ELSE Product[id].text[c.query]

TextMatches(c) == {id \in Ids : TextScore(c, id) > 0}

(* The clauses of buildFilterClauses, without the one of a dimension.  A    *)
(* variant excludes that of the price only.                                *)
AppliesToTerms(dimension, exclude) == dimension = "price" => exclude # "price"

Applies(dimension, exclude) == exclude # dimension

Passes(c, id, exclude) ==
    LET p == Product[id] IN
    /\ Applies("category", exclude) /\ c.category \notin {None, Blank} => p.category = c.category
    /\ Applies("subcategories", exclude) /\ Elements(c.subcategories) # {}
          => p.subcategories \cap Elements(c.subcategories) # {}
    /\ Applies("location", exclude) /\ c.location \notin {None, Blank} => p.location = c.location
    /\ Applies("price", exclude) /\ c.minPrice # None => p.price >= c.minPrice
    /\ Applies("price", exclude) /\ c.maxPrice # None => p.price <= c.maxPrice

Filtered(c, exclude) == {id \in TextMatches(c) : Passes(c, id, exclude)}

Hits(c) == Filtered(c, None)

(* function_score: the sum of what popularity and recency are worth, times *)
(* the text score.  A variant leaves popularity out, as the configuration  *)
(* may: with a factor of 0, Boost is 0 everywhere.                         *)
ScoreOfRecency(c, id, at) == TextScore(c, id) * Recency[at - Product[id].created]

Score(c, id, at) ==
    TextScore(c, id) * (Boost[Product[id].popularity] + Recency[at - Product[id].created])

SortValue(c, id, at) ==
    CASE c.sort = "popularity" -> Product[id].popularity
      [] c.sort = "created_at" -> Product[id].created
      [] OTHER -> Score(c, id, at)

(* buildSort: the field asked for, then the score, then the id (in a       *)
(* variant, nothing).                                                      *)
NoTieBreaker(a, b) == FALSE

TieBreaker(a, b) == a < b

Ahead(c, a, b, at) ==
    LET va == SortValue(c, a, at)
        vb == SortValue(c, b, at)
    IN  \/ IF c.order = "asc" THEN va < vb ELSE va > vb
        \/ va = vb /\ Score(c, a, at) > Score(c, b, at)
        \/ va = vb /\ Score(c, a, at) = Score(c, b, at) /\ TieBreaker(a, b)

Rank(c, hits, id, at) == Cardinality({h \in hits : Ahead(c, h, id, at)})

(* resolveWindow                                                           *)
From(c) == (c.page - 1) * c.pageSize

BeyondWindow(c) == From(c) + c.pageSize > MaxResultWindow

(* The hits of the page, each with its place on it.                        *)
Items(c, at) ==
    LET hits == Hits(c)
        place == [id \in hits |-> Rank(c, hits, id, at) - From(c) + 1]
    IN  [id \in {h \in hits : place[h] \in 1 .. c.pageSize} |-> place[id]]

-----------------------------------------------------------------------------
(* Facets.                                                                 *)

Dimensions == {"category", "subcategories", "location"}

Values(id, dimension) ==
    IF dimension = "subcategories"
    THEN Product[id].subcategories ELSE {Product[id][dimension]}

(* A terms aggregation: the largest buckets, then the first of the alphabet. *)
Count(universe, dimension, term) == Cardinality({id \in universe : term \in Values(id, dimension)})

TermsOf(universe, dimension) == UNION {Values(id, dimension) : id \in universe}

Larger(universe, dimension, term) ==
    LET n == Count(universe, dimension, term)
    IN  {other \in TermsOf(universe, dimension) :
            \/ Count(universe, dimension, other) > n
            \/ Count(universe, dimension, other) = n /\ other < term}

Listed(universe, dimension) ==
    {term \in TermsOf(universe, dimension) :
        Cardinality(Larger(universe, dimension, term)) < FacetTermsSize}

(* The buckets under every filter but the dimension's own.                 *)
TermsFacet(c, dimension) ==
    LET universe == Filtered(c, dimension)
    IN  {[key |-> term, count |-> Count(universe, dimension, term)] :
            term \in Listed(universe, dimension)}

PriceRanges ==
    {[from |-> None, to |-> 50], [from |-> 50, to |-> 100],
     [from |-> 100, to |-> 500], [from |-> 500, to |-> None]}

(* From is inclusive and to exclusive; in a variant, both are inclusive.   *)
InRangeInclusive(price, range) ==
    /\ range.from # None => price >= range.from
    /\ range.to # None => price <= range.to

InRange(price, range) ==
    /\ range.from # None => price >= range.from
    /\ range.to # None => price < range.to

PriceFacet(c) ==
    [range \in PriceRanges |->
        Cardinality({id \in Filtered(c, "price") : InRange(Product[id].price, range)})]

-----------------------------------------------------------------------------
(* The response.                                                           *)

NoSuggestions == [didYouMean |-> None, related |-> {}]

ToSuggestions(block) ==
    [didYouMean |-> IF block.phrases = <<>> THEN None ELSE block.phrases[1],
     related |-> UNION {Elements(block.tokens[i]) : i \in DOMAIN block.tokens}]

ResolveSuggestions(c, total) ==
    IF c.query = None \/ total > SuggestMaxHits
    THEN NoSuggestions ELSE ToSuggestions(Suggester[c.query])

(* ElasticsearchProductSearchAdapter.search, at an instant.                *)
Outcome(c, at) ==
    [items |-> Items(c, at),
     total |-> Cardinality(Hits(c)),
     facets |-> [dimension \in Dimensions |-> TermsFacet(c, dimension)],
     priceRanges |-> PriceFacet(c),
     suggestions |-> ResolveSuggestions(c, Cardinality(Hits(c)))]

(* toSearchResponseDto: the outcome and the metadata of the page.          *)
Body(c, outcome) ==
    [outcome |-> outcome, page |-> c.page, pageSize |-> c.pageSize,
     sort |-> c.sort, order |-> c.order,
     totalPages |-> (outcome.total + c.pageSize - 1) \div c.pageSize]

Answer(d, status, body, at) == [question |-> d, status |-> status, body |-> body, at |-> at]

-----------------------------------------------------------------------------
(* The steps: requests, and the cache and time under them.                 *)

Init ==
    /\ now = 0
    /\ entries = {}
    /\ answers = {}

Reply(d, status, body, at) == answers' = answers \cup {Answer(d, status, body, at)}

(* The parameters are rejected before anything is looked up.               *)
Reject(d) ==
    /\ Invalid(d)
    /\ Reply(d, 400, None, now)
    /\ UNCHANGED <<now, entries>>

ServeCached(d) ==
    LET c == ToSearchCriteria(d) IN
    /\ ~Invalid(d)
    /\ \E e \in entries :
          /\ e.key = Normalize(c)
          /\ Reply(d, 200, Body(c, e.outcome), e.at)
    /\ UNCHANGED <<now, entries>>

RejectWindow(d) ==
    /\ ~Invalid(d)
    /\ BeyondWindow(ToSearchCriteria(d))
    /\ \A e \in entries : e.key # Normalize(ToSearchCriteria(d))
    /\ Reply(d, 422, None, now)
    /\ UNCHANGED <<now, entries>>

(* A miss, or a read that failed: search, and write.  A write that fails   *)
(* leaves what an entry that expires at once does.                         *)
Search(d) ==
    LET c == ToSearchCriteria(d)
        outcome == Outcome(c, now)
    IN
    /\ ~Invalid(d)
    /\ ~BeyondWindow(c)
    /\ entries' = {e \in entries : e.key # Normalize(c)}
                    \cup {[key |-> Normalize(c), outcome |-> outcome, at |-> now]}
    /\ Reply(d, 200, Body(c, outcome), now)
    /\ UNCHANGED now

Ask ==
    \E d \in Questions : Reject(d) \/ ServeCached(d) \/ RejectWindow(d) \/ Search(d)

Expire ==
    /\ \E e \in entries : entries' = entries \ {e}
    /\ UNCHANGED <<now, answers>>

TimePasses ==
    /\ now < MaxNow
    /\ now' = now + 1
    /\ UNCHANGED <<entries, answers>>

Next ==
    /\ Cardinality(answers) < MaxAsked
    /\ Ask \/ Expire \/ TimePasses

Spec == Init /\ [][Next]_vars

-----------------------------------------------------------------------------
(* Properties.                                                             *)

Served == {a \in answers : a.status = 200}
Criteria(a) == ToSearchCriteria(a.question)

\* Every instant is in bounds, and the places on a page are those of the largest one.
TypeOK ==
    /\ now \in 0 .. MaxNow
    /\ \A e \in entries : e.at \in 0 .. now
    /\ \A a \in answers :
          /\ a.question \in Questions /\ a.status \in {200, 400, 422} /\ a.at \in 0 .. now
          /\ a.status = 200 =>
                LET items == a.body.outcome.items IN
                /\ DOMAIN items \subseteq Ids
                /\ \A id \in DOMAIN items : items[id] \in 1 .. MaxPageSize

\* The key says all the outcome depends on: a request is served what its own question
\* had been answered, whoever asked in whichever spelling (normalize).
ServedOwnQuestion ==
    \A a \in Served : a.body = Body(Criteria(a), Outcome(Criteria(a), a.at))

\* The same criteria with the filter of a dimension replaced by one of its terms.
Narrowed(c, dimension, term) ==
    [c EXCEPT ![dimension] = IF dimension = "subcategories" THEN <<term>> ELSE term]

\* A bucket counts what selecting it finds, whatever is selected, and a term that would
\* find something is left out only when a facet's worth of terms find as much or more
\* (buildFacetAggregations).
FacetsForetell ==
    \A a \in Served, dimension \in Dimensions :
        LET facet == a.body.outcome.facets[dimension]
            terms == TermsOf(Ids, dimension)
            Found(term) == Cardinality(Hits(Narrowed(Criteria(a), dimension, term)))
        IN  /\ \A b \in facet : b.count = Found(b.key) /\ b.count > 0
            /\ \A term \in terms :
                  \/ Found(term) = 0
                  \/ \E b \in facet : b.key = term
                  \/ Cardinality({u \in terms \ {term} : Found(u) >= Found(term)}) >= FacetTermsSize

\* The price ranges count every product the search finds without its price filter once.
PricesCovered ==
    \A a \in Served :
        LET facet == a.body.outcome.priceRanges
            InBucket(from, to) == facet[[from |-> from, to |-> to]]
        IN  InBucket(None, 50) + InBucket(50, 100) + InBucket(100, 500) + InBucket(500, None)
              = Cardinality(Hits([Criteria(a) EXCEPT !.minPrice = None, !.maxPrice = None]))

\* Answers that differ in nothing but the page.
OtherPage(a, b) ==
    /\ [Criteria(a) EXCEPT !.page = 1] = [Criteria(b) EXCEPT !.page = 1]
    /\ Criteria(a).page # Criteria(b).page

\* A page has one product in each place, and pages searched at one instant neither repeat a
\* product nor, when all that totalPages announces have been fetched, miss one (buildSort's
\* tiebreaker, resolveWindow).
PagesTile ==
    \A a \in Served :
        LET pages == {b \in Served : OtherPage(a, b) /\ b.at = a.at}
            items == a.body.outcome.items
        IN
        /\ \A x, y \in DOMAIN items : items[x] = items[y] => x = y
        /\ \A b \in pages : DOMAIN items \cap DOMAIN b.body.outcome.items = {}
        /\ {b.body.page : b \in pages \cup {a}} = 1 .. a.body.totalPages =>
              UNION {DOMAIN b.body.outcome.items : b \in pages \cup {a}} = Hits(Criteria(a))

\* By relevance, a product whose popularity is worth more, and which is neither older nor
\* worse a match, comes first: on the same page, or on an earlier one of the same instant.
PopularFirst ==
    \A a, b \in Served :
        /\ a = b \/ (OtherPage(a, b) /\ a.at = b.at)
        /\ Criteria(a).sort = "relevance" /\ Criteria(a).order = "desc"
        => \A x \in DOMAIN a.body.outcome.items, y \in DOMAIN b.body.outcome.items :
              /\ TextScore(Criteria(a), x) >= TextScore(Criteria(a), y)
              /\ Boost[Product[x].popularity] > Boost[Product[y].popularity]
              /\ Product[x].created >= Product[y].created
              => \/ a.body.page < b.body.page
                 \/ a = b /\ a.body.outcome.items[x] < a.body.outcome.items[y]

\* What the specification of the search asks of its sort order: pages neither duplicate nor
\* skip results.  They do when time passes between two of them.
PagesStable ==
    \A a, b \in Served : OtherPage(a, b) =>
        DOMAIN a.body.outcome.items \cap DOMAIN b.body.outcome.items = {}

=============================================================================
