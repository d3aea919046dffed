------------------------- MODULE IndexMigrationFaults -------------------------
(***************************************************************************)
(* The seeds of IndexMigration with two more things that happen to them:   *)
(*                                                                         *)
(*  - the connection drops after Elasticsearch applied a request and       *)
(*    before its answer arrived, and the client, configured with           *)
(*    maxRetries, sends the same request again;                            *)
(*  - an operator rolls the data back, moving the alias to the retained    *)
(*    previous version in one request.                                     *)
(***************************************************************************)
EXTENDS IndexMigration

CONSTANTS
    MaxRetries,   \* retries of one request by the Elasticsearch client
    MaxRollbacks  \* bound: how often the operator rolls back

ASSUME FaultAssumption == MaxRetries \in Nat /\ MaxRollbacks \in Nat

VARIABLES
    resent,     \* retries spent on the current request of each seed
    rollbacks   \* rollbacks made so far

faultVars == <<vars, resent, rollbacks>>

FaultInit ==
    /\ Init
    /\ resent = [s \in Seeds |-> 0]
    /\ rollbacks = 0

\* Any step of IndexMigration; a new request starts with all its retries.
Answered ==
    /\ Next
    /\ resent' = [s \in Seeds |-> IF pc'[s] = pc[s] THEN resent[s] ELSE 0]
    /\ UNCHANGED rollbacks

\* The request of seed s took effect; s is going to repeat it.
Unanswered(s, request) ==
    /\ pc[s] = request
    /\ resent[s] < MaxRetries
    /\ resent' = [resent EXCEPT ![s] = @ + 1]
    /\ UNCHANGED <<code, adapter, stale, report, rollbacks>>

LoseCreateInitial(s) ==
    /\ Unanswered(s, "createInitial")
    /\ 1 \notin DOMAIN index
    /\ index' = Created(1, Definition[code[s]])
    /\ aliased' = aliased \cup {1}
    /\ UNCHANGED <<pc, bulk>>

LoseCreatePending(s) ==
    /\ Unanswered(s, "createPending")
    /\ served[s] + 1 \notin DOMAIN index
    /\ index' = Created(served[s] + 1, Definition[code[s]])
    /\ UNCHANGED <<aliased, pc, bulk>>

\* The whole bulk request is repeated, its alias resolved anew.  The answer is lost only after
\* the first one has been applied: a document is an upsert by id, so what overlaps leaves the
\* same documents as what comes one after the other.
LoseBulk(s) ==
    /\ Unanswered(s, "bulk")
    /\ left[s] = {}
    /\ failed' = [failed EXCEPT ![s] = FALSE]
    /\ GoTo(s, "load")
    /\ UNCHANGED <<cluster, target, left>>

LosePublish(s) ==
    /\ Unanswered(s, "publish")
    /\ pending[s] # 0
    /\ {pending[s], replaced[s]} \subseteq DOMAIN index
    /\ aliased' = (aliased \ {replaced[s]}) \cup {pending[s]}
    /\ UNCHANGED <<index, pc, bulk>>

LoseDelete(s) ==
    /\ Unanswered(s, "prune")
    /\ \E v \in stale[s] \cap DOMAIN index :
          /\ index' = Restrict(index, DOMAIN index \ {v})
          /\ aliased' = aliased \ {v}
    /\ UNCHANGED <<pc, bulk>>

Lose(s) ==
    \/ LoseCreateInitial(s)
    \/ LoseCreatePending(s)
    \/ LoseBulk(s)
    \/ LosePublish(s)
    \/ LoseDelete(s)

\* POST _aliases by hand, from the served version to the retained one.
Rollback ==
    /\ rollbacks < MaxRollbacks
    /\ \E v \in aliased :
          /\ aliased = {v}
          /\ v - 1 \in DOMAIN index
          /\ aliased' = {v - 1}
    /\ rollbacks' = rollbacks + 1
    /\ UNCHANGED <<index, pc, code, adapter, bulk, stale, report, resent>>

FaultNext == Answered \/ (\E s \in Seeds : Lose(s)) \/ Rollback

FaultSpec == FaultInit /\ [][FaultNext]_faultVars

\* On a prompt cluster: see IndexMigration.
PromptFaultSpec == FaultInit /\ [][FaultNext /\ Prompt]_faultVars

-----------------------------------------------------------------------------
(* Properties.                                                             *)

\* Once searches have an index behind the alias they always have one: neither a
\* repeated request, nor a rollback in the middle of a migration, nor a prune that
\* was listed before the rollback, leaves the alias with nothing.
ServiceNeverLost == [][aliased # {} => aliased' # {} /\ aliased' \subseteq DOMAIN index']_faultVars

\* A repeated bulk request still publishes nothing incomplete, on a prompt cluster: a
\* seed that is overtaken while it creates a version can create one again, empty, that
\* another seed has loaded and is about to publish.
RetriedLoadIsWhole ==
    [][\A s \in Seeds :
          pc[s] = "publish" /\ aliased' # aliased /\ pending[s] \in aliased' \ aliased
              => \A p \in Dataset[code[s]] : index'[pending[s]].docs[p] # NoDoc]_faultVars

\* product-index.adapter.ts, createPendingIndex: "An existing index here means another
\* migration is already in flight".  A migration that has just finished passes too;
\* the orphan of a seed that crashed does not.
ExistingIndexMeansInFlight ==
    [][\A s \in Seeds :
          pc[s] = "createPending" /\ pc'[s] = "refused"
              => \/ \E t \in Seeds \ {s} : pc[t] \in Awaiting /\ pending[t] = served[s] + 1
                 \/ \E v \in aliased : v > served[s]]_vars

=============================================================================
