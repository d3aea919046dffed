---------------------------- MODULE CatalogueServing ----------------------------
(***************************************************************************)
(* How old an answer may be.  The catalogue behind the alias changes as    *)
(* ServedCatalogue promises (IndexMigration implements it); processes      *)
(* answer one question from it, through the Redis they share and through   *)
(* the response a client may keep, both for a time.                        *)
(*                                                                         *)
(* This is CacheAside with time and without its protocol: the commands of  *)
(* Redis and the requests that join a load are left out, a key is a single *)
(* one, and an answer is the content it was computed from.  Time is        *)
(* counted in ticks of any length.  No timeout of the program limits how   *)
(* long Redis takes to execute a write, so Patience, the time from the     *)
(* engine's look at the catalogue to the write of the answer, is an        *)
(* assumption.                                                             *)
(***************************************************************************)
EXTENDS Integers

CONSTANTS
    Generations, Products, Dataset, NoDoc,
    Processes,
    Ttl,            \* CACHE_TTL_SEARCH of each process, in ticks
    Patience,
    LongestExpiry,  \* no entry is written with a longer life
    MaxChanges      \* how often the catalogue changes

VARIABLES
    serving, content,  \* the catalogue: see ServedCatalogue
    changes,
    last,    \* for how long each content has not been the catalogue's
    load,    \* the load each process has in flight
    cache,   \* the entry of the key in Redis, and the life it has left
    copy     \* the response a client keeps, and for how long it still may

catalogueVars == <<serving, content, changes>>
vars == <<catalogueVars, last, load, cache, copy>>

Catalogue == INSTANCE ServedCatalogue

Contents == [Products -> Generations \cup {NoDoc}]

\* withJitter: ten per cent either way, rounded, and never rounded to nothing.
WithJitter(ttl) ==
    IF ttl <= 0 THEN {ttl}
    ELSE {IF n < 1 THEN 1 ELSE n : n \in (9 * ttl + 5) \div 10 .. (11 * ttl + 4) \div 10}

ASSUME ServingAssumption ==
    /\ Dataset \in [Generations -> SUBSET Products]
    /\ NoDoc \notin Generations
    /\ Patience \in Nat /\ LongestExpiry \in Nat /\ MaxChanges \in Nat
    /\ Ttl \in [Processes -> Nat]
    \* ten per cent more than any Ttl, rounded
    /\ \A p \in Processes : 11 * Ttl[p] + 4 < 10 * (LongestExpiry + 1)

\* The answers Redis can hold are younger than this, and those a client can.
OldestEntry == Patience + LongestExpiry
OldestCopy == OldestEntry + LongestExpiry
Never == OldestCopy + 1

Idle == [at |-> "idle", content |-> Catalogue!Nothing, age |-> 0]
Asked == [Idle EXCEPT !.at = "asked"]
Expired == [content |-> Catalogue!Nothing, left |-> 0]

Init ==
    /\ Catalogue!Init
    /\ changes = 0
    /\ last = [c \in Contents |-> IF serving # 0 /\ c = content THEN 0 ELSE Never]
    /\ load = [p \in Processes |-> Idle]
    /\ cache = Expired
    /\ copy = Expired

\* A write of a seed, or the flip of the alias.
Change ==
    /\ changes < MaxChanges
    /\ changes' = changes + 1
    /\ Catalogue!Next
    /\ last' = [last EXCEPT ![content'] = 0]
    /\ UNCHANGED <<load, cache, copy>>

-----------------------------------------------------------------------------
(* Requests, each answered with Cache-Control: private, max-age=<ttl>.     *)

Respond(p, answer) ==
    copy' \in {copy, [content |-> answer, left |-> Ttl[p]]}

\* Variant: a hit prolongs the life of what it found.
HitProlongs(p) ==
    /\ cache.left > 0
    /\ Ttl[p] > 0
    /\ cache' = [cache EXCEPT !.left = Ttl[p]]
    /\ Respond(p, cache.content)
    /\ UNCHANGED <<catalogueVars, last, load>>

Hit(p) ==
    /\ cache.left > 0
    /\ Ttl[p] > 0
    /\ Respond(p, cache.content)
    /\ UNCHANGED <<catalogueVars, last, load, cache>>

\* No entry, one that was not readable, or a cache that is switched off.
Miss(p) ==
    /\ load[p].at = "idle"
    /\ load' = [load EXCEPT ![p] = Asked]
    /\ UNCHANGED <<catalogueVars, last, cache, copy>>

EngineAnswers(p) ==
    /\ load[p].at = "asked"
    /\ serving # 0
    /\ load' = [load EXCEPT ![p] = [at |-> "answered", content |-> content, age |-> 0]]
    /\ UNCHANGED <<catalogueVars, last, cache, copy>>

\* The engine fails the load, or the process dies with it.
LoadLost(p) ==
    /\ load[p].at # "idle"
    /\ load' = [load EXCEPT ![p] = Idle]
    /\ UNCHANGED <<catalogueVars, last, cache, copy>>

\* Variant: the load stays in the map.
LoadStays(p) == UNCHANGED load
LoadLeaves(p) == load' = [load EXCEPT ![p] = Idle]

\* The answer is written, unless the cache is switched off or the write fails,
\* and given to whoever waits for it.
LoadEnds(p) ==
    /\ load[p].at = "answered"
    /\ \/ UNCHANGED cache
       \/ /\ Ttl[p] > 0
          /\ \E life \in WithJitter(Ttl[p]) :
               cache' = [content |-> load[p].content, left |-> life]
    /\ LoadLeaves(p)
    /\ Respond(p, load[p].content)
    /\ UNCHANGED <<catalogueVars, last>>

\* Redis forgets an entry before its time, or a client its copy.
Evict == cache' = Expired /\ UNCHANGED <<catalogueVars, last, load, copy>>
Discard == copy' = Expired /\ UNCHANGED <<catalogueVars, last, load, cache>>

-----------------------------------------------------------------------------

OneLess(entry) == IF entry.left > 1 THEN [entry EXCEPT !.left = @ - 1] ELSE Expired

Tick ==
    /\ \A p \in Processes : load[p].at = "answered" => load[p].age < Patience
    /\ last' = [c \in Contents |->
                  IF serving # 0 /\ c = content THEN 0
                  ELSE IF last[c] < Never THEN last[c] + 1 ELSE Never]
    /\ load' = [p \in Processes |->
                  IF load[p].at = "answered" THEN [load[p] EXCEPT !.age = @ + 1] ELSE load[p]]
    /\ cache' = OneLess(cache)
    /\ copy' = OneLess(copy)
    /\ UNCHANGED catalogueVars

Next ==
    \/ Change \/ Tick \/ Evict \/ Discard
    \/ \E p \in Processes :
         Hit(p) \/ Miss(p) \/ EngineAnswers(p) \/ LoadLost(p) \/ LoadEnds(p)

\* Time passes, and a load that was answered ends.
Fairness ==
    /\ WF_vars(Tick)
    /\ \A p \in Processes : WF_vars(LoadEnds(p))

Spec == Init /\ [][Next]_vars /\ Fairness

-----------------------------------------------------------------------------
(* Properties.                                                             *)

(* Every variable has a value of its type; a load is no older than the     *)
(* time it is given, and no entry lives longer than one may (withJitter).  *)
TypeOK ==
    /\ serving \in Nat /\ content \in Contents /\ changes \in 0 .. MaxChanges
    /\ last \in [Contents -> 0 .. Never]
    /\ load \in [Processes -> [at : {"idle", "asked", "answered"},
                               content : Contents, age : 0 .. Patience]]
    /\ cache \in [content : Contents, left : 0 .. LongestExpiry]
    /\ copy \in [content : Contents, left : 0 .. LongestExpiry]

(* No answer is older than it may be.  What a load, the cache or a client  *)
(* can be answered with now was the whole catalogue not long ago: at most  *)
(* a load, a load and the longest life of an entry, or that and the time a *)
(* client may keep it.  In particular nobody is answered with a catalogue  *)
(* that was never published, and a load that was in flight at the switch,  *)
(* and writes over a newer entry, makes no answer older than that          *)
(* (cacheAside, writeThrough, SearchController.search).                    *)
BoundedStaleness ==
    /\ \A p \in Processes : load[p].at = "answered" => last[load[p].content] <= Patience
    /\ cache.left > 0 => last[cache.content] < OldestEntry
    /\ copy.left > 0 => last[copy.content] < OldestCopy

(* Once the catalogue stops changing, the answers agree with it, and keep  *)
(* agreeing: nothing has to be invalidated by hand (writeThrough's expiry, *)
(* the scopes of cache-scope.ts that do not change at a flip).             *)
AnswersConverge ==
    <>[](/\ \A p \in Processes : load[p].at = "answered" => load[p].content = content
         /\ cache.left > 0 => cache.content = content
         /\ copy.left > 0 => copy.content = content)

=============================================================================
