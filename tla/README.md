# Verification of advanced-search-api

Paths below are relative to the repository root. The TLA+ in this directory models the
parts of the service whose correctness depends on *order*, what several processes do to one
Elasticsearch, one Redis, and to each other, and it models what a search answers. What TLC
checks on small instances and what TLAPS proves for all of them are kept apart throughout. Type
correctness is proved for every component (`TypeCorrect`, `ServingTypeOK`).

`PROJECT.json` holds the machine-readable side: components, runs, the source lines of
each definition (`map`), one mutant of the code per checked property, the hazards and the
theorems.

```
tlc -workers 2 -config index_migration_prompt.cfg MCIndexMigration   # a run
tlapm IndexMigrationProofs.tla                                       # a proof
```

## 1. The system

A NestJS service that searches a product catalogue. A container boots, runs the *seed*
(provision the index, load the dataset, publish it), then starts the API. Several
containers, of several releases during a deploy, share one Elasticsearch and one Redis.

```
   container boot                         request
        |                                    |
   seed: ensureIndex, bulk,        middleware, throttler guard ----> Redis counter
   refresh, publish, prune                   |                 \---> memory counter
        |                              API key guard                 (Redis failing)
        v                                    |
   Elasticsearch: versions v1, v2, ..   search use case --- cacheAside ---> Redis entries
   alias "products" -> one of them <-------- load
                                        |
                              exception filter, interceptor, metrics ---> log, samples, spans
```

### Components

| Component (code) | State | Operations | What is hard | What makes it correct | Module |
|---|---|---|---|---|---|
| **Index migration** `infrastructure/elasticsearch/index/*`, `application/use-cases/seed-catalog.use-case.ts`, `cli/seed*` | indices, alias (cluster); `servedVersion`, `pending` (process) | `ensureIndex`, `bulkIndex`, `refresh`, `publishIndex`, prune | seeds of two releases interleave at every await; crash between create and flip; client retries; a stale read version; rollback by hand | one version served, one migration at a time, exact content published, previous version kept, leftovers shed | `IndexMigration`, `IndexMigrationFaults`, `ServedCatalogue` |
| **Answer cache** `application/caching/*`, `infrastructure/redis/*`, `use-cases/search-products`, `autocomplete` | entries in Redis; map of loads in flight per process | read, join, load, write through, expiry | join after an awaited read; shared failure; cache errors; two releases over one Redis; writes after a switch of the alias | one load per key and process, own answer, only a failed load fails, no answer too old | `CacheAside`, `PromisedAnswers`, `CatalogueServing` |
| **Rate limiting** `infrastructure/rate-limit/*`, `presentation/rate-limit/*` | a counter per route and client in Redis, one per instance in memory, last sweep | hit, sweep, fail over, verdict, `Retry-After` | hits alternate between counters; repeated commands; Redis loses its keys; windows open, elapse and are swept at different times | limits never stop, nobody is refused for someone else's requests, `Retry-After` is true, memory is bounded | `RateLimit` |
| **API keys** `presentation/auth/*` | none | guard, identity for the budget | a random key must not buy a budget; a refusal must not be free | only a configured key is an identity; nothing is had for free | inside `RateLimit` (`TrackerOf`, `Passed`) and `RequestPipeline` (`ApiKeyGuard`) |
| **Health** `use-cases/check-health`, `infrastructure/health`, `presentation/health` | the set of dependencies logged as down | report, readiness, liveness | overlapping reports, each as old as its slowest probe | a verdict is about its own report; a lasting outage is noted | `Health` |
| **Search queries** `infrastructure/elasticsearch/search/*`, `presentation/search/*`, `application/caching/search-cache-key.ts` | none of its own; entries of the cache | criteria, filters, facets, sort, pages, suggestions, key, response | filters excluded per facet; bounds of price ranges; spellings that share an entry; a score that ages between pages; the result window | a facet counts what selecting it finds, pages tile the hits, an entry answers every question with its key | `ProductSearch` |
| **Request pipeline** `app.setup.ts`, `presentation/common/*`, `presentation/metrics/*`, `swagger.setup.ts` | the id of each request, the lines and the sample it leaves | correlate, count, authenticate, validate, handle, map errors, measure | three layers that each see some outcomes only; order of guards; interleaved requests | answer, log and metrics tell one story; failures are blamed on their cause | `RequestPipeline` |
| **Configuration** `config/*`, `telemetry-status.ts`, `observability.module.ts` | none | validate, parse, build, decide | rules over several variables; a list parsed twice | a process is as closed, and as observed, as its environment says | `Configuration` |
| **Lifecycle** `main.ts`, `process-safety-net.ts`, `app.setup.ts`, shutdown hooks, `tracing.bootstrap.ts` | what is open, what is flushed, who exits | start, SIGTERM, fatal error, close, flush | two closers; a flush that fails; a signal during the start | accepted requests are answered, samples are sent, the exit code tells why, the process ends | `Lifecycle` |
| **Dataset validation** `seed/*`, `domain/product/*` | none | validate records | – | invalid records never reach the index | the constant `Dataset` |
| **Suggestions, autocomplete query, domain values, delivery** | none worth modelling | – | – | unit tests reach it | – |

How they meet. `CatalogueServing` composes the catalogue (through `ServedCatalogue`, which
`IndexMigration` is shown to implement) with the cache and the copies of clients: a cached
answer may be older than the alias, but not arbitrarily. `RequestPipeline` composes the layers
of a request with `Health`, whose reports two of its routes ask for; `Lifecycle` runs a process
under what `Configuration` makes of its environment. The limiter and the cache are two users
of the same Redis and share no key. The guards run in the order *throttler, API key*, which
`RateLimit` and `RequestPipeline` both keep: it decides whether a request without a key costs
budget.

## 2. Index migration

### How it is modelled

Every boot runs `scripts/docker-entrypoint.sh`, which runs the seed; every `await` of the
seed is a request to Elasticsearch and a point where another seed runs. So
`IndexMigration` has one action per *request*, per seed:

| Code | Action |
|---|---|
| `readLiveIndex` (mapping through the alias; 404, one index, or `IndexMigrationError` on several) | `ReadLiveIndex` |
| `createInitialIndex`: create v1 with the alias, tolerate *already exists*, `existsAlias`, `putAlias` | `CreateInitialIndex`, `CheckAlias`, `RepairAlias` |
| `createPendingIndex`: create v(n+1) without the alias; *already exists* is `IndexMigrationError` | `CreatePendingIndex` |
| `bulkIndex` to the pending version or the alias | `BulkIndex`, one `IndexDocument` per product, `BulkAnswered` |
| `refresh`, then the test of `failed` in the use case | `Refresh` |
| `publishIndex`: `updateAliases` remove + add | `PublishIndex` |
| `pruneOlderThan(replacedVersion)`: list, delete one by one | `ListStale`, `DeleteStale` |
| `pending` becomes `servedVersion` | `Published` |
| the process is killed, or a request throws | `Crash` |

An index behind the alias that is not named by its version (`physical-index.version.ts:22`)
fails a seed in `readLiveIndex`, before it has changed anything. That is what `Crash` does there,
so it has no branch of its own; the versions of the model are the numbers of well-named indices.

`index` maps each existing version to the fingerprint of its definition and, per product,
the generation that wrote its document: enough to tell *complete*, *mixed* and *stale*
apart. `aliased` is a set because the alias can name several versions. `served`, `pending`
and `replaced` are the fields of the adapter. A bulk request, once at Elasticsearch, is
applied document by document and goes on after the client has crashed; a document may be
rejected. Elasticsearch's side (auto-creation of a missing index by a bulk request, alias
rules, deletion taking the alias along) is external, modelled as the adapter meets it.

`IndexMigrationFaults` adds, over the same actions, a lost answer with a retry by the
client (`maxRetries`) for every request for which the repetition matters, and an operator
who rolls back by moving the alias (the procedure the repository documents). The answer of a
bulk request is lost only after all of it has been applied (`LoseBulk`): that the repetition
overlaps the first one is left out, because documents are upserts by id.

`ServedCatalogue` is what readers are promised: one catalogue, changed by upserts of a
dataset's product or by an atomic switch to the next version with exactly one dataset.
`IndexMigration` implements it under `serving <- Serving`, `content <- ServedContent`.

### Prompt clusters

Between `readLiveIndex` and the request it leads to, a seed remembers one number. If, in
that moment, others complete enough migrations to *prune* the version it is about to
create, creation succeeds and the seed loads an old version number: the lock is broken. It
takes three migrations, each a dozen requests and a boot of its own, between two
consecutive awaits of one process. `PromptSpec` excludes exactly that (`Prompt`:
a version a seed is about to create does not disappear under it, and the alias does not
move away under its repair), and every property that needs the assumption is checked and
proved under `PromptSpec`; `CatalogueNeverRegresses` and `RefusedIsSuperseded` need no
timing assumption and are checked under `Spec`. Nothing else of the order of events is
restricted.

### Runs

| Run | Instance | Shows |
|---|---|---|
| `index_migration_prompt` | 3 seeds (symmetric), 2 generations of different definition, 2 products | `AliasUnambiguous`; `OneMigration` (creation is a lock and pins the version read long ago); `PublishedExact`; `RetainedForRollback`; `MigrationTidiesUp` (a migration that ran to its end leaves its version, the one it replaced, and nothing older); `ImplementsServedCatalogue` |
| `index_migration_any` | 2 seeds, no timing assumption, fairness | `CatalogueNeverRegresses`; `RefusedIsSuperseded` (liveness) |
| `index_faults` | 3 seeds on a prompt cluster (`PromptFaultSpec`), 1 retry per request, 1 rollback, one product per dataset | `ServiceNeverLost`; `RetriedLoadIsWhole` |
| `claim_existing_index` | 2 seeds | *violated*: the orphan of a crashed seed refuses all later ones though no migration is in flight |

Why the bounds suffice: two generations of different definitions alternate for any chain of
migrations (n to n+1 needs a definition other than n's); three seeds are two that race and
one that prunes or migrates on top of them, and reach v1..v4, so that pruning has
something to delete; two products tell *complete*, *partial* and *mixed* apart. A
cluster starts empty, with a version 1 that lost its alias, or with a version 1 served,
loaded by either generation, with or without a recorded fingerprint. Liveness is checked
with two seeds because a refused seed and the one that refused it are two. One rollback:
with two rollbacks while one prune's list is outstanding, an operator can move the alias
onto a version already listed for deletion (TLC shows it with `MaxRollbacks = 2`); that is
two interventions by hand in a second, and is left out. Retries are one per request; the two
the configuration defaults to add repetitions of the same effect, and the theorems hold for
any number.

`RetriedLoadIsWhole` needs a prompt cluster. Without it a seed that is overtaken while it
creates a version creates version 1 or 2 again after it was pruned, empty; if in the same
moment another seed's flip to that number took effect and lost its answer, the repeated flip
publishes the empty index. It takes six seeds, more than the run has: the proof attempt found
it, TLC confirmed it on a scripted behaviour. `ServiceNeverLost` needs no such assumption,
and is proved without it.

Fairness: weak, per seed, on its next request's outcome. A live seed is driven by the event loop
and every request is answered or ended by the client's `requestTimeout`; a killed seed is
in an end state and is owed nothing.

### Proofs

Assumption: `CodeAssumption` only (datasets are sets of products, every generation has a
definition whose fingerprint is not the absent one). Seeds, generations, products and
their number are arbitrary.

- `IndexMigrationProofs`, over `Spec`: `TypeCorrect` (`TypeOK` is inductive) and
  `NoRegression` (`CatalogueNeverRegresses`). The latter is not inductive: a flip removes
  the version a seed remembered, a prune deletes from a list that others outdated. The
  strengthening `SafeInv` says that the alias never dangles (every aliased version exists),
  that a pending version is newer than the one it replaces, and that a seed that lists or
  prunes has something newer than the version it retains behind the alias, and deletes only
  what is older than that version: so a prune, however outdated, never touches what is served.
- `IndexMigrationProofs`, over `PromptSpec`: `OneIndexServed`, `CreationIsALock`, `EndsTidy`,
  `PreviousRetained`, `PublishesExactly` and `SeedsServeTheCatalogue` (refinement), from
  two invariants. `VersionInv` is about numbers: the alias names at most one version, nothing
  exists beyond the version after it, the one before it exists, prunes delete only what is
  two behind, a loading seed holds the version after the served one and is the only one, and
  a seed about to create read the served version or will be refused by an existing one.
  `DocumentInv` is about contents: a pending version holds precisely the documents its seed's
  request has already written, so that with none left and none failed it holds the dataset.

  `EndsTidy` (`MigrationTidiesUp`) needs one more, `TidyInv`: as long as the version a pruning
  seed published is served, whatever is older than the version it retains is on its list,
  because a version created since is newer than the served one.

- `NobodyRefusedForNothing`, over `Spec`, is the safety half of `RefusedIsSuperseded`: when a
  seed has been refused, a version at least as new as the one it wanted is served, or another
  seed holds that very version, at work or dead. What remains for TLC is that a seed at work
  goes on to publish it. `ExplainInv` says the same of every version beyond the first.
- `IndexMigrationFaultsProofs`, over `FaultSpec`: `FaultTypeCorrect`, and `ServiceSurvives`
  (`ServiceNeverLost`) for any number of retries, without timing assumption. `SafeInv` does
  not survive a rollback, which moves the alias to an older version; `ServingInv` replaces
  it: the alias never dangles; of a seed that lists or prunes, the version it retains is older
  than one behind the alias plus the rollbacks made so far (each takes back at most one
  version), and it deletes only what is older than that. The hypothesis is
  `MaxRollbacks <= 1`: the second rollback would use up the margin that the adapter keeps,
  which retains one version.
- over `PromptFaultSpec`: `RetriesPublishWhole` (`RetriedLoadIsWhole`). `DocumentInv` says what
  a pending version holds *precisely*, and fails under retries: a repeated bulk request
  starts over on documents that are there already. `WholeInv` says what it holds *at least*
  (`Written`: whatever of the request is neither left nor failed), and `HoldInv` that nobody
  else takes it away: no two seeds hold one version on its way to the alias, and a version that
  was deleted from under its seed has been overtaken by the alias for good.

Only model-checked: `RefusedIsSuperseded` (liveness).

Properties considered and dropped because the code does not promise them: the version a
seed reports is the one served when it returns (another may have flipped since); the bulk
request through the alias goes to the version `ensureIndex` read (it is resolved when it
arrives, which is why `Upsert` of `ServedCatalogue` allows any generation).

## 3. Answer cache

### How it is modelled

`CacheAside` follows one request through `cacheAside`: read (`Arrive`), hit or miss
(`ReadAnswered`), `singleFlight` (`JoinOrLoad`), load (`LoadAnswered`,
`LoadAnsweredUncached`, `LoadFailed`), write through before the promise settles
(`Settle` when the write is answered or rejected). `inFlight` is the map of promises, per
process. Each process has one connection to Redis (`conn`): commands are executed and
answered in order, may be rejected whether executed or not, and unanswered ones are sent
again after a reconnect (`Reconnect`), as ioredis does with the options of
`redis.client.factory.ts`. `Restart` ends a process and starts another deployment in its
place: other relevance settings, or another payload shape.

A key is the normalised question and the scope (`searchCacheScope`); the digest is its
argument. An answer is *what it was computed from* (question, configuration) and its
shape; whether an entry is accepted is the validator's decision on the shape. Expiry happens at any
moment: the TTL has a random jitter and nothing depends on its length. Autocomplete goes
through the same code with a smaller scope (`ScopeOfIndex`).

`PromisedAnswers` is what clients are promised, with no cache in it: an answer is one the engine
gave, to that question, about that index, under those relevance settings, in an accepted shape;
a process has the engine compute a question once at a time; requests fail only with the
computation they waited for. `CacheAside` implements it: `asking` are the requests that load,
and what is `known` is what Redis stores, what commands have read there and what is about
to be written. The specification says nothing of when an answer is forgotten, which is why
every way of losing an entry is invisible in it.

### Runs

`cache_aside`: three identical requests, two of them to one process, one to another; both
processes are restarted at any time into any of three deployments. Identical questions
because different ones share nothing; two requests to one process are the leader and the
one who joins (a third is another one who joins); the second process brings entries of
others. It shows `SingleFlight`, `NoRedundantLoad`, `ServedIsOwn`, `FailsOnlyWithItsLoad`,
the refinement `ImplementsPromisedAnswers` and, with fairness, `EveryRequestEnds`. Every request
may have ended, so deadlock is not an error.

Fairness: weak, per process, on *some* outcome: Elasticsearch answers or its client times
out, Redis answers or its connection is given up. Nothing forces Redis to execute, and no
request is owed its arrival. The code sets no `commandTimeout` for Redis, so a peer
that stays silent on an open connection is outside this assumption (listed as a hazard).

Noted while modelling, no property: a miss is counted for requests that join a load
(`cache-aside.ts:51`), so the ratio of misses to loads is not one; the key comment
(`search-cache-key.ts:13`) speaks of a reindex making a miss, while the scope holds the
alias, which a reindex keeps.

### Proofs

`CacheAsideProofs`, from `DeploymentAssumption` only: any requests, processes, deployments and
questions, over `Spec`, whatever Redis does. `TypeCorrect`, `OneLoadPerKey`
(`SingleFlight`), `AnswersAreOwn` (`ServedIsOwn`) and `OnlyLoadsFail` (`FailsOnlyWithItsLoad`)
follow from one invariant, `CacheInv`. None of the properties is inductive alone: whether
a step keeps the map of loads exact depends on the command whose answer it handles. Its parts:

- `FlightInv`: a key in flight has a leader, who is loading or writing that key, and those who
  joined ask the same key at the same process; so settling it ends all of them and nobody else;
- `CommandInv`: a command on a connection belongs to a request of that process which is
  waiting for exactly that command, and each request has at most one; so an answer, even one
  sent twice, is never taken for another's;
- `AnswerInv`: an entry answers its key's question, from its key's index and relevance (what a
  read brings back does too, in `CommandInv`), and a request that writes holds its own
  process's answer.

The lemmas `JoinInv`, `SettleInv` and their like state what a *kind* of step keeps; the
main proof has one step per action.

`NothingLoadedTwice` (`NoRedundantLoad`) needs the order of commands too (`OrderInv`): they are
executed in the order they are sent, and if a process has written the entry of a key since a read
of it found none, the command of that write is still on the connection, behind the read. So the
load it belongs to is in flight when the read is answered, and is joined.

`CacheIsInvisible` (`ImplementsPromisedAnswers`) is the refinement, from `CacheInv` alone: initial
states map to initial states, and each action to one of `PromisedAnswers`. A miss is `Start`, or
nothing when it joins; an answered load is `Answered` and, when its write settles, `Serve`
of everyone who shares it; what Redis does by itself is `Forget`. Two facts carry it:
nothing becomes known except by `Answered` (`KnownShrinks`), and who is asked for is
asked for once (`AskedOnce`).

`NobodyIsStranded` (`NobodyStranded`) is the half of `EveryRequestEnds` that needs no fairness:
whoever reads or writes has its command on its own process's connection, and whoever joined has
a load of its key that waits for Elasticsearch or has such a command. `WaitInv` says that there
is a command, `CommandInv` of which kind, `FlightInv` who leads a load. That the outcomes
do come is fairness: `EveryRequestEnds` itself is only model-checked.

## 4. Rate limiting

### How it is modelled

`RateLimit` has the counters (one in Redis, one per instance), as windows per *bucket*, a
route and a client (`resolveTracker`: a valid key, else the address). `Ask` sends the hit,
`RedisExecutes` is the Lua script in one step, `RedisReplies` decides, `RedisRejects` is
`FailoverRateLimitStore.hit` falling back to the memory (`HitInMemory`, with the sweep of
`maybeEvictExpired` in the same step), `Reconnect` sends unanswered hits again, `Forget`
is Redis losing its keys, `Skip` the exempt routes. `Decide` is the storage adapter and
the guard: blocked when hits exceed the limit, seconds rounded up, then the API key guard.
Windows are *fixed*, opened by their first hit (`README.md:286` calls them rolling).
`log` is a history variable: which counter counted which hit, and when.

Time is a number of milliseconds that all clocks agree on; each instance's and Redis'
clocks may differ in reality, which changes the length of a window and no count. The
`degraded` flag decides log lines only and is left out.

### Runs

`rate_limit`: 3 requests, 2 instances, budget 1, window 2 ms, sweep interval 1 ms, second
2 ms, 4 instants, one fault (resend or loss); a client with a made-up key, a metrics
scrape and a probe behind one address. A budget of one is where one hit too many shows;
a window of two instants has a beginning and an end; four instants hold two windows of
one counter overlapping with one of another; three requests are a budget, the one that exceeds it,
and one after the window. Redis may reject any command at any time, unbounded. With a sweep
interval of one instant the sweep is hardly lazy; a longer one needs instants that TLC has no
room for, and is left to the theorem, which holds for every interval. The run shows
`CeilingHolds`, `RefusedOnlyOverBudget`, `RetryAfterHonoured`, `ElapsedWindowsAreSwept`,
`NoRequestLost`. No fairness: all are safety properties.

`CeilingHolds` is stated per counter, because that is what the code promises: with Redis
flapping, a client of N instances may spend its budget on each of N+1 counters within one
window (a comment says N times the limit, which is the case of Redis being down throughout).

`claim_within_budget` (*violated*, budget 3): a specification says a client within its
budget is not refused; a hit repeated after a reconnect is counted twice.

### Proofs

`RateLimitProofs`, from `BudgetAssumption` and `NoneAssumption`: any requests, instances,
routes, budgets and lengths of the window, the sweep and the second. Type correctness and all
five properties of the run are theorems.

The difficulty is that a window leaves no trace once it has elapsed, while the properties speak
of the hits it counted. So the invariant asserts that the history of every counter *can be
divided* into windows: there are functions `o` (the hit that opened the window of a hit) and `e`
(how often the counter had then lost its memory) with which hits lie within their window,
windows of one client follow each other, and those of one epoch last their full length (`Past`);
an open window is the last one of its client and its count is the number of hits in it
(`Current`); and every verdict a request was given is the rank of its hit in its window
(`VerdictsTold`). `BookInv` is that, for every counter; `AskInv` says what a request that waits for
Redis has asked; `SweepInv` says that the sweep of an instance is never overdue at a hit.

`CeilingHolds` then follows by counting: hits of one bucket within one length of a window,
served by one counter without a loss, lie in at most two of its windows, and the pair of the
window and the rank in it tells them apart, of which there are at most twice the budget.
`RefusedOnlyOverBudget` and `RetryAfterHonoured` follow from the rank and from the end of the
window it belongs to.

## 5. Search

### How it is modelled

`ProductSearch` is what `GET /search` answers. The builders and mappers are operators,
named for what they decide:

| Code | Definition |
|---|---|
| `IsNotBelowMinPrice`, `assertPageSizeWithinLimit` (400) | `Invalid` |
| the other validators of `SearchQueryDto`, which look at one parameter each | what `SearchAssumption` says of `Questions` |
| `toSearchCriteria`, with the defaults of sort, order, page and page size | `ToSearchCriteria` |
| `normalize` of `search-cache-key.ts` | `Normalize` |
| `buildFilterClauses`, with the dimension a facet excludes | `Applies`, `Passes`, `Filtered` |
| `buildTextQuery`: text score, popularity and recency | `TextScore`, `Score` |
| `buildSort`: the field, the score, the id | `SortValue`, `Ahead`, `TieBreaker` |
| `resolveWindow` (422), `from` and `size` | `From`, `BeyondWindow`, `Items` |
| `buildFacetAggregations`: terms and price ranges | `TermsFacet`, `PriceFacet` |
| `resolveSuggestions`, `toSuggestions` | `ResolveSuggestions`, `ToSuggestions` |
| `toSearchResponseDto`, `totalPages` | `Body` |

A request is one step: refused for its parameters (`Reject`), served an entry
(`ServeCached`), refused for its window (`RejectWindow`: after the cache was read, as in
the code), or searched and written (`Search`). `CacheAside` has the interleavings within a
request; here only the entries matter, and that they may be anyone's. `Search` is enabled
when there is an entry too: a read of the cache may fail. A write that fails is a write
whose entry expires at once. Time passes between requests, because the score contains the
age of the product at the moment of the request.

Elasticsearch is external: it returns what passes the query and the `post_filter`, counts
aggregations over what passes their filters, sorts as asked, and takes `from` inclusive and
`to` exclusive in a range. How well a text matches, the curve of the recency function and
the suggester's block are constants; the recency curve is only assumed not to rise with age, and
`Boost`, what a popularity is worth (`ln1p` of it times `RELEVANCE_POPULARITY_FACTOR`), not to
fall with popularity. The factor may be 0 (`env.schema.ts:55`): then `Boost` is 0 throughout and
popularity does not rank, which is why `PopularFirst` compares what popularities are worth. The
instance uses a curve that flattens.
Terms are numbered in alphabetical order from 1, the empty string being 0: a request may send
one, and no product has one (the entity does not forbid it; the dataset has none). Products
are created no later than the first instant.

### Runs

`product_search`: five products, two instants, two answers out of a hundred questions that
set up to two parameters (query, filters, both price bounds, sort, order, page, page size,
blank values and two spellings of the same subcategories). Prices lie on the bounds 50, 100,
500 and next to them; two products are equally popular and of different age; facets have
room for two terms, with three subcategories; the window is 5, so that the last page may or
may not fit. Two answers are what a property relates; a third would only be another pair, and
after `MaxAsked` answers nothing happens (so deadlock is not an error). It shows
`ServedOwnQuestion`, `FacetsForetell`, `PricesCovered`, `PagesTile` and `PopularFirst`. All
are safety properties; no fairness is assumed.

`claim_stable_pages` (*violated*): the specification of the search says that pages neither
duplicate nor skip a product, and they do when time passes between them.

### Proofs

`ProductSearchProofs`, from `SearchAssumption` only: any finite catalogue, any questions, sizes and
window, any recency curve that does not rise and any worth of popularity that does not fall. All
five invariants of the run are theorems, and type correctness. The invariant of the state,
`SearchInv`, says that an entry is the outcome of *some* question with its key (`EntryInv`) and
an answer the outcome of *its own* (`AnswerInv`); `ServedOwnQuestion` alone is not inductive
since it says nothing of entries. The step from the first to the second is `KeyTells` and
`AlikeBody`: questions with the same key agree on everything an outcome depends on. The others
follow from `AnswerInv` by lemmas on the operators:

- `FacetsTellTotals`: a product passes the filters narrowed to a term when it passes those
  that exclude the dimension and has the term (`NarrowedFinds`);
- `PricesAddUp`: the ranges split what is found in four disjoint parts (`FourParts`);
- `PagesTileHits`, `PopularComeFirst`, and the bound on places in `TypeCorrect`: the sort is a
  strict total order (`Order`), so ranks are distinct and below the total (`RankBelow`), an
  earlier page has the smaller ranks (`PagesDisjoint`), and any rank is on some announced page
  (`PageOf`).

## 6. Catalogue serving

### How it is modelled

`CatalogueServing` composes what readers are promised of the catalogue (`ServedCatalogue`, as an
instance: its actions are the only ones that change `serving` and `content`) with the cache and
the copies clients may keep (`Cache-Control: private, max-age`). It is `CacheAside` with time and
without its protocol: one key, one load per process, an answer is the content it was computed from.
`WithJitter` is the ten per cent of `withJitter`, with its rounding and its least life of one.
`last` is a history variable: how long ago each content was last the catalogue's.

Time is counted in ticks; an entry's life is what Redis has left of it. `Patience` bounds the
time from the engine's look at the catalogue to the write of the answer. The code bounds the
first part by `requestTimeout` and nothing bounds the second, because commands to Redis have no
timeout: `Patience` is an assumption, stated as one.

### Runs

`catalogue_serving`: two processes in the middle of a deployment that shortens the life of
entries (6 ticks, where jitter makes 5 to 7, and 1, where it makes 1), over a catalogue of one
product in two generations (one of them without it), two changes, patience 1. A long life and a
short one differ by the most: a load of one process may overwrite the entry of the other, a copy
made from an entry at its end lives on. Two changes are a switch and another one, or a switch
back. It shows `BoundedStaleness` (what can be answered with was the catalogue less than a load,
a life and, at a client, another life ago) and, with fairness, `AnswersConverge`.

Fairness: weak on `Tick` (time passes) and on the end of each answered load (its write is
answered or rejected). Nobody is owed a hit, a miss or a change.

### Proofs

`CatalogueServingProofs`, from `ServingAssumption` only: any processes, lives, products, generations
and any patience. `StalenessBounded` rests on trading age for life: the time since a
content was the catalogue's plus the life its entry has left never grows, because every tick
moves one from the second to the first, and it starts at most at patience plus the longest
life (`EntryLives`); a copy starts from an entry and adds a life of its own (`CopyLives`); a load
is at most as stale as it is old (`LoadsYoung`).

`AnswersConverge` (liveness) is only model-checked; the two facts it rests on besides fairness
are proved. `AnswersAgreeInTheEnd`: when every other content has been gone for longer than an
answer lives, all answers agree with the catalogue. `OnlyChangesRejuvenate`: every tick takes
the others closer to that, and only a change takes one back.

## 7. Request pipeline and health

### How it is modelled

`RequestPipeline` has one record per request in progress: where it is, and what each layer left
behind. The route of a request through the code is its route through the model:

| Code | Definition |
|---|---|
| `correlationIdMiddleware`, `resolveCorrelationId`, `runWithCorrelationId` | `Arrive`, `ResolveCorrelationId`, `RunWithCorrelationId` |
| the middleware of `setupOpenApi`, `buildDocsRateLimitMiddleware`, `docsKeyMiddleware` | `DocsPaths`, `UnderDocs`, `ToFirstLayer`, `CountDocs`, `ToDocsKey` |
| the routes of `SwaggerModule.setup` | `MountedPaths`, `ToDocs` |
| the router of Nest, 404 and the filter's 405 | `ToRouter`, `Failed`, `MayKnowRoutes` |
| `RateLimitGuard`, `ApiKeyGuard`, in the order of the imports of `app.module.ts` | `Guards`, `RateLimitGuard`, `ApiKeyGuard` |
| the pipe and the controllers | `Handle`, `Respond`, `Render` |
| `AllExceptionsFilter`: the ladder of classes, the status, the level of the line | `Ladder`, `ResolveError`, `Failed` |
| `LoggingInterceptor` | `Succeeded` |
| `buildMetricsMiddleware`, `routeLabel` | `Finish`, `RouteLabel` |
| a client that closes its connection | `Leave` |

Whether a request is over its budget is `RateLimit`'s question, and what the engine answers is
`ProductSearch`'s; both are free here, so that every failure may happen. `Health` is extended:
two routes start reports. A report pings its probes together and waits for the slowest; a probe
tells of *some* moment since its ping, so `witnessed` keeps all states a dependency had since,
and reports of different age share `downDependencies`, the memory of what has been logged.

`SwaggerModule` is external (`@nestjs/swagger` 11). It is told where to serve the UI and the JSON
(`swagger.setup.ts:65`) and, since it is not told otherwise, also serves YAML at `/docs-yaml`. The
limiter and the key check are mounted on `/docs` and `/docs-json`, which Express matches by whole
segments: a file of the UI is under `/docs` (one stands for all in `MountedPaths`) and passes
both checks, `/docs-yaml` is under neither (`UnderDocs`), and `NothingForFree` excepts it by
name (`Unguarded`; section 9).

### Runs

`request_pipeline`: two requests at a time, without end, out of ten calls (both reports, a
search with a key, invalid input, a wrong verb on a known and on an unknown path, metrics
without a token, the root, the documentation, its unguarded copy), with authentication and limits
both on or both off, while Elasticsearch (critical) and Redis (not) fail and recover at any time.
Two requests are two reports that overlap, or two lines that may be mixed up, or two strangers
who compare what they are told; requests are used again and again, so there is no last one. It
shows `AccountsAgree` (answer, log line and sample), `LinesTraceable`, `BlameFollowsCause`,
`NothingForFree`, `WrongVerbsHideRoutes`, `VerdictWitnessed` and, with fairness,
`LastingOutageNoted`.

`NothingForFree` is about what is limited and what needs a key: `/health` is neither, `/metrics` is
limited and has a token of its own, nothing is while authentication or limits are off, and a path
or a verb without a route is answered 404 or 405 before any guard. `WrongVerbsHideRoutes` is
about verbs no route takes: with a GET, a caller without a key does learn which paths are routes (401
against 404), and the code does not promise otherwise.

Fairness: weak on the steps of each request (every call it awaits has a timeout), strong on
the polls: the platform asks for `/health/ready` and the monitor for `/health` for ever, each of
them being let in again and again although other requests may be in its place.

### Proofs

`RequestPipelineProofs`, from `PipelineAssumption`, `PathAssumption` and `HealthAssumption`: any
calls (of the modelled fields), configurations, dependencies and numbers of requests. All six
safety properties are theorems. `Fits` is one inductive predicate on a single request, saying
for each place what has been settled (before the handler: nothing told, guards passed in order;
answered: the line, the status and the cause agree; done: the sample agrees). `OneMoves` is why
that is enough: a step changes one request and nothing that `Fits` says of the others.
`VerdictsAreWitnessed` is an action property, proved from `Probing` (a report waits for exactly
its own probes) for `Render`, after showing that no other step answers a report.

`LastingOutageNoted` (liveness) is only model-checked; `NotesFollowProbes` (`NotesAreWitnessed`)
is what it rests on besides fairness. A note of an outage is withdrawn only by a report that saw
the dependency up, a report that saw it down and nothing else notes it, and during an outage no
report comes to have seen it up: those that could withdraw the note only get fewer.

## 8. Configuration and lifecycle

### How it is modelled

`Configuration` is the path from an environment to what a process does with it: the fields of
the schema with their defaults and bounds (`FieldsValid`, `Parsed`), the rules over several of
them (`Refined`), both parsers of lists (`ParseKeys` of the validation, `ParseList` of the
mapping) and the decisions taken later: CORS, tracing, the metrics adapter, targets of log
lines, the status line.

`Lifecycle` runs one process under it. The environment is part of the initial state.

| Code | Action |
|---|---|
| `startTracing` in the preload, `validateEnv` | `LoadConfig` |
| `bootstrap` up to `listen` (hooks and safety net installed in one run of the event loop) | `Bootstrap`, `Listen` |
| a signal, a failure nobody caught | `Sigterm`, `StrayFailure`, `OnFatal` |
| Nest's `close()`: module-destroy hooks, dispose, drain, shutdown hooks | `OnModuleDestroy`, `Dispose`, `AwaitDrained`, `OnApplicationShutdown` |
| the last export of `OtlpMetricsAdapter.shutdown` | `ShutdownMetrics` |
| the end of either closer | `KillItself`, `HandleFatalErrorEnds`, `CloseRejects` |
| `stopTracing`, which nobody awaits | `StopTracing` |
| requests meanwhile | `Accept`, `Query`, `Finish` |

`closing` says for each of the two *closers* (the hooks of a signal, and `handleFatalError`) how far
it is. Node's rules are external and modelled as the code meets them: a signal nobody listens for
kills, a listener registered with `once` is gone after its run, an unhandled rejection without a
handler ends the process.

### Runs

`lifecycle`: 21 environments, one at a time (the six accepted ones: local, with keys and an
empty entry in their list, traced, exporting metrics, production, traced without metrics;
fifteen rejected, one for each rule and kind of field), two requests, two signals, one stray
failure, and a backend of the telemetry that flaps without a bound. The second signal is the one
that meets a shutdown under way; a third meets nothing new. It shows `NobodyCutOff`,
`SamplesReachBackend`, `ExitTellsWhy`, `DoorsAsConfigured` and, with fairness, `StopsWhenTold`.
A process ends, so deadlock is not an error.

`NobodyCutOff` and `SamplesReachBackend` except what the code does not promise (`Orderly`): the
two closers at once, where the end of one cuts off the other, and a server that is told to
listen after its own shutdown disposed of it, which a signal between `bootstrap` and `listen`
achieves. What is said of overlapping closers is `ExitTellsWhy`.

Fairness: weak on the steps of the start, of each closer and on the end of each request (event
loop; every call a request awaits has a timeout) and on the flush of spans (exports have a
timeout). Nothing makes a request arrive, a signal be sent or a backend recover.

### Proofs

`LifecycleProofs`, from `LifecycleAssumption` and `NoneIsNoValue`: any environments of the given
shape, any requests and number of signals. All four safety properties are theorems. What has to
be carried along is how far each closer is and what that says of the rest: past the drain of an
orderly end nobody is waiting (`ServerInv`), past the hooks the metrics are flushed or somebody
flushes them (`MeterInv`), a closer has its reason (`ReasonInv`). `ConfigInv` ties the providers
to the configuration; `DoorsAreClosed` follows from it and from the validation, since both
parsers keep the same entries. `ToldAsIs` (`TelemetryAsTold`) is proved and not in a run: from
every environment the status line names traces and logs exactly when they are shipped, and metrics
exactly when their export is asked for, so that it disagrees with the pipelines in exactly one
case, metrics that are to be exported and not measured (section 9). Only model-checked:
`StopsWhenTold` (liveness), whose half without fairness is `ShutdownNeverTurnsBack`
(`ShutdownAdvances`): each closer goes through its phases in one direction, whatever signals and
failures come meanwhile, and the step that ends a shutdown ends the process.

## 9. Findings

| Run | Finding |
|---|---|
| `claim_existing_index` | An orphaned version blocks every later migration: nothing removes it, and the error tells the operator to wait for a migration that is not there. |
| `claim_within_budget` | Hits are not idempotent and the client repeats them. |
| `claim_stable_pages` | Every sort order contains a score that changes with time: pages requested at different moments repeat and skip products, though the catalogue is the same. |

Each is quoted with its source line in `PROJECT.json`. Other places where code and text
disagree, met while modelling and kept in the models as the code has them (paths under `src/`):

- The alias repair is two requests (`product-index.adapter.ts:193`): with a migration between
  them the alias ends on two versions, after which every seed refuses to run, whereas
  `openspec/specs/product-indexing/spec.md:14` says it resolves to exactly one.
  `AliasUnambiguous` therefore needs `PromptSpec`.
- Products removed from the dataset stay searchable as long as the definition of the index is the
  same (`product-index.adapter.ts:72`, against `spec.md:42`). `ServedCatalogue` has upserts only.
- The cache scope leaves out `suggestMaxHits`, on which the suggestions of an answer depend
  (`cache-scope.ts:24`, against its comment at line 5).
- `README.md:480` says cached results stay servable for up to `CACHE_TTL_SEARCH` after a flip.
  The jitter adds ten per cent, a load in flight at the flip starts its entry after it, and
  clients keep a copy for a time of their own: the bound that `BoundedStaleness` states is
  longer.
- A 503 of `/health` is rendered and not thrown (`health.controller.ts:67`), so
  `AllExceptionsFilter` does not log it, whereas `logging.interceptor.ts:20` says it does.
- With metrics switched off but their export on, the status line says they are exported
  (`telemetry-status.ts:19`) and nothing is measured (`observability.module.ts:45`).
  `telemetry-status.ts:4` and `openspec/specs/telemetry-shipping/spec.md:94` say the line states
  which pipelines are live. `TelemetryAsTold` says that this is the only such case.
- The contract is also served at `/docs-yaml`, without limiter and without key
  (`swagger.setup.ts:65`, section 7), whereas `swagger.setup.ts:16` says that `DOCS_PATHS` are the
  paths `SwaggerModule` mounts, line 29 that the docs are protected by the same key as the
  data, and `openspec/specs/api-client-authentication/spec.md:9` that the published contract is a
  client endpoint. `NothingForFree` excepts it by name.
- `void stopTracing()`: a flush of spans that fails is an unhandled rejection, and turns a clean
  shutdown into exit code 1, which `otlp-metrics.adapter.ts:84` rules out for the flush of
  metrics by a rule said to be common. `ExitTellsWhy` names it.
- The guard of `installProcessSafetyNet` (`process-safety-net.ts:39`) stops a second *fatal*
  event, not a fatal event during the shutdown of a signal: two closers run at once (`Orderly`).
- A signal between the start of tracing and the installation of Nest's hooks is taken by the
  listener of the trace SDK, and nothing stops (`tracing.bootstrap.ts:88`). `StopsWhenTold`
  excepts it.

## 10. What is not modelled

Response formats, documentation content, log wording and the numbers in metrics (no property is
about them); the text of keys and digests (no collisions assumed); constant-time comparison of
API keys; Elasticsearch's and Redis' own replication; how Elasticsearch scores text and
suggests, and the prefix query of autocomplete (no logic of the service's own; its caching,
limits and routes are in the models); domain values (immutable, validated once); the records of
the dataset file; load tests and CI. Clocks are one clock: a step of a wall clock, which would
lengthen or shorten windows of the limiter in memory (`in-memory-rate-limit.store.ts:31`), is
left out. Components marked `partly` or `not_modelled` in `PROJECT.json` give their reason.

Out of the prover's reach, and left to TLC: liveness under fairness, `ENABLED`, and induction over
data. The five liveness properties (`RefusedIsSuperseded`, `EveryRequestEnds`, `AnswersConverge`,
`LastingOutageNoted`, `StopsWhenTold`) are the only properties of a passing run that no theorem
states. No module that is proved about declares a recursive operator.

## 11. Plan

Done: all modules above, each with its run, and each with proofs of its safety properties. Left,
by importance:

1. A clock for each process and one for Redis in `RateLimit`, with a bound on their difference.
2. The builder of the autocomplete query, and the domain values, as operators.
