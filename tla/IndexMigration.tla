---------------------------- MODULE IndexMigration ----------------------------
(***************************************************************************)
(* Provisioning, loading and publishing of the product index.              *)
(*                                                                         *)
(* Every container boot runs one seed process before the API starts        *)
(* (scripts/docker-entrypoint.sh); containers of several code generations  *)
(* boot side by side during a deploy.  A seed drives ProductIndexAdapter   *)
(* through SeedCatalogUseCase.execute: ensureIndex, bulkIndex, refresh and *)
(* publishIndex.  Each await in that code is a point where another seed    *)
(* may run, so each Elasticsearch request is an action of its own.         *)
(*                                                                         *)
(* The cluster side (index creation, the alias table, a bulk request that  *)
(* is applied document by document) is Elasticsearch, external to the      *)
(* repository; it is modelled as the adapter uses it.                      *)
(***************************************************************************)
EXTENDS Integers, Functions

CONSTANTS
    Seeds,        \* seed processes, one per container boot
    Generations,  \* versions of the deployed code
    Products,     \* product ids
    Definition,   \* fingerprint of the index definition each generation carries
    Dataset,      \* the products of each generation's products.seed.json
    Unrecorded,   \* fingerprint of an index created before fingerprints existed
    NoDoc         \* no document stored under an id

(* A generation fingerprints its own definition, never the absent one, and *)
(* its dataset is a set of product ids.                                    *)
ASSUME CodeAssumption ==
    /\ Dataset \in [Generations -> SUBSET Products]
    /\ DOMAIN Definition = Generations
    /\ \A g \in Generations : Definition[g] # Unrecorded
    /\ NoDoc \notin Generations

VARIABLES
    index,     \* the physical indices that exist: version -> contents
    aliased,   \* the versions the alias points at
    pc,        \* the next request of each seed
    code,      \* the generation each seed runs
    served,    \* ProductIndexAdapter.servedVersion, 0 when undefined
    pending,   \* ProductIndexAdapter.pending.version, 0 when undefined
    replaced,  \* ProductIndexAdapter.pending.replacedVersion
    target,    \* the version the seed's bulk request was resolved to
    left,      \* products of that request Elasticsearch has not processed
    failed,    \* bulk.failed > 0
    stale,     \* versions pruneOlderThan has still to delete
    report     \* the version publishIndex returned, 0 before it returns

cluster == <<index, aliased>>
adapter == <<served, pending, replaced>>
bulk    == <<target, left, failed>>
vars    == <<index, aliased, pc, code, served, pending, replaced,
             target, left, failed, stale, report>>

Version == Nat \ {0}
Fingerprint == {Definition[g] : g \in Generations} \cup {Unrecorded}
Stored == Generations \cup {NoDoc}
Contents == [definition : Fingerprint, docs : [Products -> Stored]]

Ended == {"done", "refused", "ambiguous", "thrown", "crashed"}
Awaiting == {"read", "createInitial", "checkAlias", "repairAlias", "createPending",
             "load", "bulk", "refresh", "publish", "list", "prune"}

TypeOK ==
    /\ DOMAIN index \subseteq Version
    /\ index \in [DOMAIN index -> Contents]
    /\ aliased \subseteq Version
    /\ pc \in [Seeds -> Awaiting \cup Ended]
    /\ code \in [Seeds -> Generations]
    /\ served \in [Seeds -> Nat]
    /\ pending \in [Seeds -> Nat]
    /\ replaced \in [Seeds -> Nat]
    /\ target \in [Seeds -> Nat]
    /\ left \in [Seeds -> SUBSET Products]
    /\ failed \in [Seeds -> BOOLEAN]
    /\ stale \in [Seeds -> SUBSET Version]
    /\ report \in [Seeds -> Nat]

-----------------------------------------------------------------------------
(* Contents of an index.                                                   *)

Empty == [p \in Products |-> NoDoc]

\* Exactly the dataset of generation g, every document written by it.
Catalogue(g) == [p \in Products |-> IF p \in Dataset[g] THEN g ELSE NoDoc]

Carrying(fingerprint) == [definition |-> fingerprint, docs |-> Empty]

\* The indices after creating version v, unless it exists.
Created(v, fingerprint) ==
    [w \in DOMAIN index \cup {v} |-> IF w \in DOMAIN index THEN index[w] ELSE Carrying(fingerprint)]

-----------------------------------------------------------------------------
(* The cluster a first seed finds: nothing at all, a version 1 that lost   *)
(* its alias, or a version 1 being served, loaded by an earlier generation *)
(* with or without a recorded fingerprint.                                 *)

FirstVersion(contents) == [v \in {1} |-> contents]

Loaded ==
    {[definition |-> d, docs |-> Catalogue(g)] : d \in Fingerprint, g \in Generations}

Init ==
    /\ \/ index = [v \in {} |-> Carrying(Unrecorded)] /\ aliased = {}
       \/ \E c \in Loaded : index = FirstVersion(c) /\ aliased \in {{}, {1}}
    /\ pc = [s \in Seeds |-> "read"]
    /\ code \in [Seeds -> Generations]
    /\ served = [s \in Seeds |-> 0]
    /\ pending = [s \in Seeds |-> 0]
    /\ replaced = [s \in Seeds |-> 0]
    /\ target = [s \in Seeds |-> 0]
    /\ left = [s \in Seeds |-> {}]
    /\ failed = [s \in Seeds |-> FALSE]
    /\ stale = [s \in Seeds |-> {}]
    /\ report = [s \in Seeds |-> 0]

GoTo(s, next) == pc' = [pc EXCEPT ![s] = next]

-----------------------------------------------------------------------------
(* ensureIndex                                                             *)

\* getMapping through the alias: which single version is live, and whether the
\* definition recorded on it is the one this generation carries.  (An index that is not
\* named by its version fails the seed before it has done anything, as Crash does.)
ReadLiveIndex(s) ==
    /\ pc[s] = "read"
    /\ \/ /\ aliased = {}
          /\ GoTo(s, "createInitial")
          /\ UNCHANGED served
       \/ /\ \E v, w \in aliased : v # w
          /\ GoTo(s, "ambiguous")
          /\ UNCHANGED served
       \/ \E v \in aliased :
          /\ aliased = {v}
          /\ served' = [served EXCEPT ![s] = v]
          /\ GoTo(s, IF index[v].definition = Definition[code[s]]
                     THEN "load" ELSE "createPending")
    /\ UNCHANGED <<cluster, code, pending, replaced, bulk, stale, report>>

\* Version 1 with the alias attached inline; somebody else's version 1 is
\* tolerated and its alias looked at next.
CreateInitialIndex(s) ==
    /\ pc[s] = "createInitial"
    /\ \/ /\ 1 \notin DOMAIN index
          /\ index' = Created(1, Definition[code[s]])
          /\ aliased' = aliased \cup {1}
          /\ served' = [served EXCEPT ![s] = 1]
          /\ GoTo(s, "load")
       \/ /\ 1 \in DOMAIN index
          /\ GoTo(s, "checkAlias")
          /\ UNCHANGED <<cluster, served>>
    /\ UNCHANGED <<code, pending, replaced, bulk, stale, report>>

\* existsAlias after an already-exists answer.
CheckAlias(s) ==
    /\ pc[s] = "checkAlias"
    /\ \/ /\ aliased # {}
          /\ served' = [served EXCEPT ![s] = 1]
          /\ GoTo(s, "load")
       \/ /\ aliased = {}
          /\ GoTo(s, "repairAlias")
          /\ UNCHANGED served
    /\ UNCHANGED <<cluster, code, pending, replaced, bulk, stale, report>>

\* putAlias on version 1, unconditionally: no alias was seen one request ago.
RepairAlias(s) ==
    /\ pc[s] = "repairAlias"
    /\ IF 1 \in DOMAIN index
       THEN /\ aliased' = aliased \cup {1}
            /\ served' = [served EXCEPT ![s] = 1]
            /\ GoTo(s, "load")
       ELSE /\ GoTo(s, "thrown")
            /\ UNCHANGED <<aliased, served>>
    /\ UNCHANGED <<index, code, pending, replaced, bulk, stale, report>>

\* Variant: an existing version is taken over, as an existing version 1 is.
CreatePendingTolerantly(s) ==
    /\ pc[s] = "createPending"
    /\ index' = Created(served[s] + 1, Definition[code[s]])
    /\ pending' = [pending EXCEPT ![s] = served[s] + 1]
    /\ replaced' = [replaced EXCEPT ![s] = served[s]]
    /\ GoTo(s, "load")
    /\ UNCHANGED <<aliased, code, served, bulk, stale, report>>

\* Variant: the created version is not remembered as the pending one.
CreatePendingForgetfully(s) ==
    /\ pc[s] = "createPending"
    /\ index' = Created(served[s] + 1, Definition[code[s]])
    /\ GoTo(s, IF served[s] + 1 \in DOMAIN index THEN "refused" ELSE "load")
    /\ UNCHANGED <<aliased, code, adapter, bulk, stale, report>>

\* The migration target, without the alias.  Creation doubles as the lock
\* between seeds: an existing index ends the run with IndexMigrationError.
CreatePendingIndex(s) ==
    /\ pc[s] = "createPending"
    /\ LET v == served[s] + 1 IN
       \/ /\ v \notin DOMAIN index
          /\ index' = Created(v, Definition[code[s]])
          /\ pending' = [pending EXCEPT ![s] = v]
          /\ replaced' = [replaced EXCEPT ![s] = served[s]]
          /\ GoTo(s, "load")
       \/ /\ v \in DOMAIN index
          /\ GoTo(s, "refused")
          /\ UNCHANGED <<index, pending, replaced>>
    /\ UNCHANGED <<aliased, code, served, bulk, stale, report>>

-----------------------------------------------------------------------------
(* bulkIndex and refresh                                                   *)

\* The bulk request reaches Elasticsearch, which resolves its target once.  A
\* missing physical index is auto-created; an alias over several indices has
\* no write index, so every document fails.  No products, no request.
BulkIndex(s) ==
    /\ pc[s] = "load"
    /\ \/ /\ pending[s] # 0
          /\ target' = [target EXCEPT ![s] = pending[s]]
          /\ left' = [left EXCEPT ![s] = Dataset[code[s]]]
          /\ index' = IF Dataset[code[s]] = {} THEN index ELSE Created(pending[s], Unrecorded)
          /\ UNCHANGED failed
       \/ \E v \in aliased :
          /\ pending[s] = 0
          /\ aliased = {v}
          /\ target' = [target EXCEPT ![s] = v]
          /\ left' = [left EXCEPT ![s] = Dataset[code[s]]]
          /\ UNCHANGED <<index, failed>>
       \/ /\ pending[s] = 0
          /\ \E v, w \in aliased : v # w
          /\ failed' = [failed EXCEPT ![s] = Dataset[code[s]] # {}]
          /\ UNCHANGED <<index, target, left>>
    /\ GoTo(s, "bulk")
    /\ UNCHANGED <<aliased, code, adapter, stale, report>>

\* Elasticsearch indexes one document of the request by id, or reports an error
\* for it.  This goes on after the client is gone.
IndexDocument(s, p) ==
    /\ p \in left[s]
    /\ left' = [left EXCEPT ![s] = @ \ {p}]
    /\ \/ /\ target[s] \in DOMAIN index
          /\ index' = [index EXCEPT ![target[s]].docs[p] = code[s]]
          /\ UNCHANGED failed
       \/ /\ failed' = [failed EXCEPT ![s] = TRUE]
          /\ UNCHANGED index
    /\ UNCHANGED <<aliased, pc, code, adapter, target, stale, report>>

\* The bulk response is summarised.
BulkAnswered(s) ==
    /\ pc[s] = "bulk"
    /\ left[s] = {}
    /\ GoTo(s, "refresh")
    /\ UNCHANGED <<cluster, code, adapter, bulk, stale, report>>

\* Variant: failed documents do not keep the seed from publishing.
RefreshRegardless(s) ==
    /\ pc[s] = "refresh"
    /\ GoTo(s, "publish")
    /\ UNCHANGED <<cluster, code, adapter, bulk, stale, report>>

\* refresh of the write target, then the decision of SeedCatalogUseCase: a load
\* with failed documents is not published.
Refresh(s) ==
    /\ pc[s] = "refresh"
    /\ GoTo(s, IF pending[s] \notin DOMAIN index \cup {0} THEN "thrown"
               ELSE IF failed[s] THEN "done" ELSE "publish")
    /\ UNCHANGED <<cluster, code, adapter, bulk, stale, report>>

-----------------------------------------------------------------------------
(* publishIndex                                                            *)

\* Variant: the alias is added to the new version and not removed from the old one.
PublishByAdding(s) ==
    /\ pc[s] = "publish"
    /\ aliased' = IF pending[s] = 0 THEN aliased ELSE aliased \cup {pending[s]}
    /\ GoTo(s, IF pending[s] = 0 THEN "done" ELSE "list")
    /\ UNCHANGED <<index, code, adapter, bulk, stale, report>>

\* Without a pending version there is nothing to publish.  Otherwise one atomic
\* updateAliases request.  Removing the alias from an index that does not carry it
\* changes nothing (must_exist is not set); naming a missing index fails it all.
PublishIndex(s) ==
    /\ pc[s] = "publish"
    /\ \/ /\ pending[s] = 0
          /\ report' = [report EXCEPT ![s] = served[s]]
          /\ GoTo(s, "done")
          /\ UNCHANGED aliased
       \/ /\ pending[s] # 0
          /\ IF {pending[s], replaced[s]} \subseteq DOMAIN index
             THEN /\ aliased' = (aliased \ {replaced[s]}) \cup {pending[s]}
                  /\ GoTo(s, "list")
             ELSE /\ GoTo(s, "thrown")
                  /\ UNCHANGED aliased
          /\ UNCHANGED report
    /\ UNCHANGED <<index, code, adapter, bulk, stale>>

\* Variants: the retained version goes too; everything but the retained version goes.
ListRetainedToo(s) ==
    /\ pc[s] = "list"
    /\ stale' = [stale EXCEPT ![s] = {v \in DOMAIN index : v <= replaced[s]}]
    /\ GoTo(s, "prune")
    /\ UNCHANGED <<cluster, code, adapter, bulk, report>>

ListAllOthers(s) ==
    /\ pc[s] = "list"
    /\ stale' = [stale EXCEPT ![s] = DOMAIN index \ {replaced[s]}]
    /\ GoTo(s, "prune")
    /\ UNCHANGED <<cluster, code, adapter, bulk, report>>

\* Variant: only the version before the retained one is looked for.
ListJustBefore(s) ==
    /\ pc[s] = "list"
    /\ stale' = [stale EXCEPT ![s] = {v \in DOMAIN index : v = replaced[s] - 1}]
    /\ GoTo(s, "prune")
    /\ UNCHANGED <<cluster, code, adapter, bulk, report>>

\* pruneOlderThan lists the versions older than the one it retains ...
ListStale(s) ==
    /\ pc[s] = "list"
    /\ stale' = [stale EXCEPT ![s] = {v \in DOMAIN index : v < replaced[s]}]
    /\ GoTo(s, "prune")
    /\ UNCHANGED <<cluster, code, adapter, bulk, report>>

\* ... and deletes them one request at a time.  Deleting an index takes its alias
\* with it; an index somebody else deleted first is an error that ends the run.
DeleteStale(s, v) ==
    /\ pc[s] = "prune"
    /\ v \in stale[s]
    /\ \/ /\ v \in DOMAIN index
          /\ index' = Restrict(index, DOMAIN index \ {v})
          /\ aliased' = aliased \ {v}
          /\ stale' = [stale EXCEPT ![s] = @ \ {v}]
          /\ UNCHANGED pc
       \/ /\ v \notin DOMAIN index
          /\ GoTo(s, "thrown")
          /\ UNCHANGED <<cluster, stale>>
    /\ UNCHANGED <<code, adapter, bulk, report>>

\* The pending version becomes the served one and is reported.
Published(s) ==
    /\ pc[s] = "prune"
    /\ stale[s] = {}
    /\ served' = [served EXCEPT ![s] = pending[s]]
    /\ pending' = [pending EXCEPT ![s] = 0]
    /\ report' = [report EXCEPT ![s] = pending[s]]
    /\ GoTo(s, "done")
    /\ UNCHANGED <<cluster, code, replaced, bulk, stale>>

-----------------------------------------------------------------------------
(* The process is killed, or a request is rejected or times out, which     *)
(* throws out of runSeed.  A bulk request already sent carries on.         *)

Crash(s) ==
    /\ pc[s] \in Awaiting
    /\ GoTo(s, "crashed")
    /\ UNCHANGED <<cluster, code, adapter, bulk, stale, report>>

EnsureIndex(s) ==
    \/ ReadLiveIndex(s)
    \/ CreateInitialIndex(s)
    \/ CheckAlias(s)
    \/ RepairAlias(s)
    \/ CreatePendingIndex(s)

Load(s) ==
    \/ BulkIndex(s)
    \/ \E p \in Products : IndexDocument(s, p)
    \/ BulkAnswered(s)
    \/ Refresh(s)

Publish(s) ==
    \/ PublishIndex(s)
    \/ ListStale(s)
    \/ \E v \in stale[s] : DeleteStale(s, v)
    \/ Published(s)

Execute(s) == EnsureIndex(s) \/ Load(s) \/ Publish(s)

\* Every boot has run its seed.
AllEnded ==
    /\ \A s \in Seeds : pc[s] \in Ended /\ left[s] = {}
    /\ UNCHANGED vars

Next == (\E s \in Seeds : Execute(s) \/ Crash(s)) \/ AllEnded

(* The event loop keeps a live seed going: every request is answered, or   *)
(* fails by the client's request timeout.                                  *)
Fairness == \A s \in Seeds : WF_vars(Execute(s))

Spec == Init /\ [][Next]_vars /\ Fairness

-----------------------------------------------------------------------------
(***************************************************************************)
(* What holds whatever the number of seeds and however they interleave.    *)
(***************************************************************************)

\* Whatever version readers are served, a step of any seed leaves them that version or
\* a newer one: no flip, no prune working from a list that others have outdated, and no
\* provisioning empties the alias or moves it behind every version it named.
CatalogueNeverRegresses ==
    [][\A v \in aliased : \E w \in aliased' \cap DOMAIN index' : w >= v]_vars

-----------------------------------------------------------------------------
(***************************************************************************)
(* Prompt clusters.  readLiveIndex and the request it leads to are         *)
(* consecutive awaits of one process, a moment apart; a migration is a     *)
(* dozen requests and at least one container boot.  A cluster is prompt    *)
(* when no seed is overtaken in that moment by migrations that delete the  *)
(* version it is about to create, or that move the alias it is repairing.  *)
(***************************************************************************)

\* The version seed s found it has to create.
Wanted(s) == IF pc[s] = "createPending" THEN served[s] + 1 ELSE 1

Prompt ==
    \A s \in Seeds :
        /\ pc[s] \in {"createInitial", "createPending"} /\ Wanted(s) \in DOMAIN index
               => Wanted(s) \in DOMAIN index'
        /\ pc[s] = "repairAlias" => aliased \subseteq aliased'

PromptSpec == Init /\ [][Next /\ Prompt]_vars /\ Fairness

\* A seed that holds a version it has created and not yet published.
Loading(s) ==
    /\ pc[s] \in {"load", "bulk", "refresh", "publish"}
    /\ pending[s] # 0

\* The alias resolves to one index at every instant, so that searches never mix two
\* versions and readLiveIndex never refuses an ambiguous alias.
AliasUnambiguous == \A v, w \in aliased : v = w

\* Creating version n+1 is a lock: one live seed at a time is loading a version, and
\* until it flips the alias the version it read at the start is the one still served,
\* although that reading is many awaits old by then.
OneMigration ==
    \A s, t \in Seeds : Loading(s) => aliased = {replaced[s]} /\ (Loading(t) => s = t)

\* What a flip publishes is exactly the dataset of the seed that flips: nothing of it
\* missing, and nothing another seed wrote (execute publishes only if failed = 0).
PublishedExact ==
    [][\A s \in Seeds :
          pc[s] = "publish" /\ pc'[s] = "list"
              => index'[pending[s]].docs = Catalogue(code[s])]_vars

\* Once version n+1 is served, version n is there to move the alias back to, however
\* many seeds are pruning at that time (pruneOlderThan keeps replacedVersion).
RetainedForRollback ==
    \A v \in aliased : v > 1 => v - 1 \in DOMAIN index

\* Versions do not pile up: when a migration ends, those that seeds killed before they
\* pruned have left behind are gone, every one of them (pruneOlderThan).
MigrationTidiesUp ==
    [][\A s \in Seeds :
          pc[s] = "prune" /\ pc'[s] = "done"
              => \A v \in DOMAIN index' : v >= replaced[s]]_vars

\* A seed refused because "another migration is in flight" is refused by one that
\* then publishes, unless that one is killed or has a document rejected.
RefusedIsSuperseded ==
    \A s \in Seeds :
        pc[s] = "refused" ~>
            \/ \E v \in aliased : v > served[s]
            \/ \E t \in Seeds : pending[t] = served[s] + 1 /\ (failed[t] \/ pc[t] = "crashed")

-----------------------------------------------------------------------------
(* Readers see the alias only: the one version behind it and its documents.  *)

Serving == IF aliased = {} THEN 0 ELSE CHOOSE v \in aliased : TRUE

ServedContent == IF aliased = {} THEN Empty ELSE index[Serving].docs

Readers == INSTANCE ServedCatalogue WITH serving <- Serving, content <- ServedContent

\* Seeds racing on a prompt cluster are, to readers of the alias, the served
\* catalogue: one version, upserts, and atomic switches to an exact next version.
ImplementsServedCatalogue == Readers!Spec

=============================================================================
