----------------------- MODULE IndexMigrationFaultsProofs -----------------------
(***************************************************************************)
(* Proofs about IndexMigrationFaults, for every set of seeds, generations  *)
(* and products and every number of retries: lost answers, repeated        *)
(* requests and a rollback by hand leave readers an index behind the       *)
(* alias, and publish nothing that is not whole.                           *)
(***************************************************************************)
EXTENDS IndexMigrationFaults, IndexMigrationProofs

-----------------------------------------------------------------------------
(* Type correctness.                                                       *)

FaultTypeOK ==
    /\ TypeOK
    /\ resent \in [Seeds -> Nat]
    /\ rollbacks \in 0 .. MaxRollbacks

\* A request whose answer is lost changes nothing its seed knows.
LEMMA LoseKeeps ==
  ASSUME NEW s \in Seeds, Lose(s)
  PROVE  UNCHANGED <<code, served, pending, replaced, stale, report, rollbacks>>
BY DEF Lose, LoseCreateInitial, LoseCreatePending, LoseBulk, LosePublish, LoseDelete,
       Unanswered, adapter

LEMMA LoseType ==
  ASSUME FaultTypeOK, NEW s \in Seeds, Lose(s)
  PROVE  FaultTypeOK'
<1>. USE DEF GoTo, cluster, bulk, adapter, Unanswered, FaultTypeOK
<1>1. /\ UNCHANGED <<code, served, pending, replaced, stale, report, rollbacks>>
      /\ resent' \in [Seeds -> Nat]
  BY DEF Lose, LoseCreateInitial, LoseCreatePending, LoseBulk, LosePublish, LoseDelete
<1>2. CASE LoseCreateInitial(s)
  <2>1. 1 \in Version /\ Definition[code[s]] \in Fingerprint
    BY OwnFingerprint DEF TypeOK, Version
  <2>2. DOMAIN index' \subseteq Version /\ index' \in [DOMAIN index' -> Contents]
    BY <1>2, <2>1, CreatedType DEF LoseCreateInitial
  <2>3. aliased' \subseteq Version
    BY <1>2, <2>1 DEF LoseCreateInitial, TypeOK
  <2>. QED
    BY <1>1, <1>2, <2>2, <2>3 DEF LoseCreateInitial, TypeOK
<1>3. CASE LoseCreatePending(s)
  <2>1. served[s] + 1 \in Version /\ Definition[code[s]] \in Fingerprint
    BY OwnFingerprint DEF TypeOK, Version
  <2>2. DOMAIN index' \subseteq Version /\ index' \in [DOMAIN index' -> Contents]
    BY <1>3, <2>1, CreatedType DEF LoseCreatePending
  <2>. QED
    BY <1>1, <1>3, <2>2 DEF LoseCreatePending, TypeOK
<1>4. CASE LoseBulk(s)
  BY <1>1, <1>4 DEF LoseBulk, TypeOK, Awaiting
<1>5. CASE LosePublish(s)
  <2>1. aliased' \subseteq Version
    BY <1>5 DEF LosePublish, TypeOK
  <2>. QED
    BY <1>1, <1>5, <2>1 DEF LosePublish, TypeOK
<1>6. CASE LoseDelete(s)
  BY <1>1, <1>6 DEF LoseDelete, TypeOK, Restrict
<1>. QED
  BY <1>2, <1>3, <1>4, <1>5, <1>6 DEF Lose

LEMMA RollbackType ==
  ASSUME FaultTypeOK, Rollback
  PROVE  FaultTypeOK'
<1>1. aliased' \subseteq Version
  BY DEF Rollback, FaultTypeOK, TypeOK
<1>2. rollbacks' \in 0 .. MaxRollbacks
  BY FaultAssumption DEF Rollback, FaultTypeOK
<1>. QED
  BY <1>1, <1>2 DEF Rollback, FaultTypeOK, TypeOK, adapter, bulk

LEMMA FaultNextType == FaultTypeOK /\ [FaultNext]_faultVars => FaultTypeOK'
<1>. SUFFICES ASSUME FaultTypeOK, [FaultNext]_faultVars PROVE FaultTypeOK'
  OBVIOUS
<1>1. CASE Answered
  BY <1>1, NextType DEF Answered, FaultTypeOK
<1>2. CASE UNCHANGED faultVars
  BY <1>2, NextType DEF faultVars, FaultTypeOK
<1>. QED
  BY <1>1, <1>2, LoseType, RollbackType DEF FaultNext

LEMMA FaultInitType == FaultInit => FaultTypeOK
BY InitType, FaultAssumption DEF FaultInit, FaultTypeOK

\* Every state of the seeds, the cluster, the retries and the rollbacks is well typed.
THEOREM FaultTypeCorrect == FaultSpec => []FaultTypeOK
BY FaultInitType, FaultNextType, PTL DEF FaultSpec

-----------------------------------------------------------------------------
(* Searches keep an index, whoever prunes and whoever rolls back.          *)

\* A seed that prunes has published, so that something newer than what it retains was
\* served.  Each rollback since has taken that back by one version at most.  It deletes
\* only what is older than what it retains.
Covered(s) ==
    /\ pc[s] \in {"list", "prune"} => \E v \in aliased : v + rollbacks > replaced[s]
    /\ pc[s] = "prune" => \A w \in stale[s] : w < replaced[s]

ServingInv ==
    /\ AliasNeverDangles
    /\ \A s \in Seeds : Covered(s) /\ Follows(s)

LEMMA ServingInit == FaultInit => ServingInv
BY SafeInit DEF FaultInit, ServingInv, SafeInv, Covered, Init

\* The alias loses nothing, and no seed starts to prune.
LEMMA ServingQuiet ==
  ASSUME FaultTypeOK, ServingInv,
         aliased \subseteq aliased', aliased' \subseteq DOMAIN index',
         \A t \in Seeds : pc'[t] \in {"list", "prune"} => pc'[t] = pc[t],
         UNCHANGED <<pending, replaced, stale, rollbacks>>
  PROVE  ServingInv'
BY DEF ServingInv, AliasNeverDangles, Covered, Follows

\* A flip, answered or not.
LEMMA ServingFlip ==
  ASSUME FaultTypeOK, ServingInv, NEW s \in Seeds,
         pending[s] # 0, pending[s] \in DOMAIN index,
         aliased' = (aliased \ {replaced[s]}) \cup {pending[s]},
         \A t \in Seeds \ {s} : pc'[t] = pc[t],
         pc'[s] # "prune",
         UNCHANGED <<index, pending, replaced, stale, rollbacks>>
  PROVE  ServingInv'
<1>. USE DEF FaultTypeOK, TypeOK, Version
<1>1. /\ pending[s] > replaced[s] /\ pending[s] \in aliased'
      /\ pending[s] \in Nat /\ rollbacks \in Nat /\ \A t \in Seeds : replaced[t] \in Nat
  BY FaultAssumption DEF ServingInv, Follows
<1>2. AliasNeverDangles' /\ \A t \in Seeds : Follows(t)'
  BY DEF ServingInv, AliasNeverDangles, Follows
<1>3. ASSUME NEW t \in Seeds PROVE Covered(t)'
  <2>1. CASE t = s
    <3>1. pending[s] + rollbacks > replaced[s]
      BY <1>1
    <3>. QED
      BY <1>1, <2>1, <3>1 DEF Covered
  <2>2. CASE t # s
    <3>1. ASSUME pc[t] \in {"list", "prune"}
          PROVE  \E v \in aliased' : v + rollbacks > replaced[t]
      <4>1. PICK v \in aliased : v + rollbacks > replaced[t]
        BY <3>1 DEF ServingInv, Covered
      <4>2. CASE v = replaced[s]
        <5>1. pending[s] + rollbacks > replaced[t]
          BY <1>1, <4>1, <4>2
        <5>. QED
          BY <1>1, <5>1
      <4>3. CASE v # replaced[s]
        BY <4>1, <4>3
      <4>. QED
        BY <4>2, <4>3
    <3>. QED
      BY <2>2, <3>1 DEF ServingInv, Covered
  <2>. QED
    BY <2>1, <2>2
<1>. QED
  BY <1>2, <1>3 DEF ServingInv

\* What a prune deletes is older than something served, unless the alias was moved
\* back twice.
LEMMA PrunesBehind ==
  ASSUME FaultTypeOK, ServingInv, MaxRollbacks <= 1,
         NEW s \in Seeds, pc[s] = "prune", NEW v \in stale[s]
  PROVE  \E w \in aliased : v < w
BY FaultAssumption DEF ServingInv, Covered, FaultTypeOK, TypeOK, Version

\* A deletion, answered or not.
LEMMA ServingDelete ==
  ASSUME FaultTypeOK, ServingInv, MaxRollbacks <= 1,
         NEW s \in Seeds, pc[s] = "prune", NEW v \in stale[s],
         DOMAIN index' = DOMAIN index \ {v},
         aliased' = aliased \ {v},
         \A t \in Seeds : stale'[t] \subseteq stale[t],
         UNCHANGED <<pc, pending, replaced, rollbacks>>
  PROVE  ServingInv'
<1>. USE DEF FaultTypeOK, TypeOK, Version
<1>1. PICK w \in aliased : v < w
  BY PrunesBehind
<1>2. w \in aliased'
  BY <1>1
<1>3. AliasNeverDangles' /\ \A t \in Seeds : Follows(t)'
  BY DEF ServingInv, AliasNeverDangles, Follows
<1>4. ASSUME NEW t \in Seeds PROVE Covered(t)'
  <2>1. ASSUME pc[t] \in {"list", "prune"}
        PROVE  \E x \in aliased' : x + rollbacks > replaced[t]
    <3>1. PICK x \in aliased : x + rollbacks > replaced[t]
      BY <2>1 DEF ServingInv, Covered
    <3>2. CASE x = v
      BY <1>1, <1>2, <3>1, <3>2
    <3>3. CASE x # v
      BY <3>1, <3>3
    <3>. QED
      BY <3>2, <3>3
  <2>. QED
    BY <2>1 DEF ServingInv, Covered
<1>. QED
  BY <1>3, <1>4 DEF ServingInv

LEMMA ServingRollback ==
  ASSUME FaultTypeOK, ServingInv, Rollback
  PROVE  ServingInv'
<1>. USE DEF FaultTypeOK, TypeOK, Version
<1>1. PICK v \in aliased : aliased = {v} /\ v - 1 \in DOMAIN index /\ aliased' = {v - 1}
  BY DEF Rollback
<1>2. rollbacks' = rollbacks + 1 /\ UNCHANGED <<index, pc, pending, replaced, stale>>
  BY DEF Rollback, adapter
<1>3. AliasNeverDangles' /\ \A t \in Seeds : Follows(t)'
  BY <1>1, <1>2 DEF ServingInv, AliasNeverDangles, Follows
<1>4. ASSUME NEW t \in Seeds PROVE Covered(t)'
  <2>1. pc[t] \in {"list", "prune"} => v + rollbacks > replaced[t]
    BY <1>1 DEF ServingInv, Covered
  <2>2. pc[t] \in {"list", "prune"} => (v - 1) + rollbacks' > replaced[t]
    BY <1>2, <2>1
  <2>3. v - 1 \in aliased'
    BY <1>1
  <2>. QED
    BY <1>2, <2>2, <2>3 DEF ServingInv, Covered
<1>. QED
  BY <1>3, <1>4 DEF ServingInv

LEMMA ServingLose ==
  ASSUME FaultTypeOK, ServingInv, MaxRollbacks <= 1, NEW s \in Seeds, Lose(s)
  PROVE  ServingInv'
<1>1. UNCHANGED <<pending, replaced, stale, rollbacks>>
  BY LoseKeeps
<1>2. aliased \subseteq DOMAIN index
  BY DEF ServingInv, AliasNeverDangles
<1>3. CASE LoseCreateInitial(s)
  BY <1>1, <1>2, <1>3, ServingQuiet DEF LoseCreateInitial, Created
<1>4. CASE LoseCreatePending(s)
  BY <1>1, <1>2, <1>4, ServingQuiet DEF LoseCreatePending, Created
<1>5. CASE LoseBulk(s)
  BY <1>1, <1>2, <1>5, ServingQuiet
     DEF LoseBulk, GoTo, cluster, FaultTypeOK, TypeOK
<1>6. CASE LosePublish(s)
  BY <1>1, <1>6, ServingFlip DEF LosePublish, Unanswered
<1>7. CASE LoseDelete(s)
  <2>1. PICK v \in stale[s] \cap DOMAIN index :
           index' = Restrict(index, DOMAIN index \ {v}) /\ aliased' = aliased \ {v}
    BY <1>7 DEF LoseDelete
  <2>2. DOMAIN index' = DOMAIN index \ {v}
    BY <2>1 DEF Restrict
  <2>. QED
    BY <1>1, <1>7, <2>1, <2>2, ServingDelete DEF LoseDelete, Unanswered
<1>. QED
  BY <1>3, <1>4, <1>5, <1>6, <1>7 DEF Lose

\* A step of a seed that is answered.
LEMMA ServingStep ==
  ASSUME FaultTypeOK, ServingInv, MaxRollbacks <= 1, [Next]_vars, UNCHANGED rollbacks
  PROVE  ServingInv'
<1>. USE DEF GoTo, cluster, adapter, bulk
<1>1. aliased \subseteq DOMAIN index /\ TypeOK
  BY DEF ServingInv, AliasNeverDangles, FaultTypeOK
<1>2. ASSUME NEW s \in Seeds, EnsureIndex(s) PROVE ServingInv'
  <2>1. CASE CreatePendingIndex(s) /\ served[s] + 1 \notin DOMAIN index
    <3>1. aliased' = aliased /\ DOMAIN index \subseteq DOMAIN index'
      BY <2>1 DEF CreatePendingIndex, Created
    <3>2. /\ pc' = [pc EXCEPT ![s] = "load"]
          /\ pending' = [pending EXCEPT ![s] = served[s] + 1]
          /\ replaced' = [replaced EXCEPT ![s] = served[s]]
          /\ stale' = stale
      BY <2>1 DEF CreatePendingIndex
    <3>. QED
      BY <3>1, <3>2 DEF ServingInv, AliasNeverDangles, Covered, Follows, FaultTypeOK, TypeOK
  <2>2. CASE ~(CreatePendingIndex(s) /\ served[s] + 1 \notin DOMAIN index)
    <3>1. UNCHANGED <<pending, replaced, stale>>
      BY <1>2, <2>2 DEF EnsureIndex, ReadLiveIndex, CreateInitialIndex, CheckAlias,
                        RepairAlias, CreatePendingIndex
    <3>2. \A t \in Seeds : pc'[t] \in {"list", "prune"} => pc'[t] = pc[t]
      BY <1>1, <1>2, <2>2 DEF EnsureIndex, ReadLiveIndex, CreateInitialIndex, CheckAlias,
                              RepairAlias, CreatePendingIndex, TypeOK
    <3>3. aliased \subseteq aliased' /\ aliased' \subseteq DOMAIN index'
      BY <1>1, <1>2, <2>2 DEF EnsureIndex, ReadLiveIndex, CreateInitialIndex, CheckAlias,
                              RepairAlias, CreatePendingIndex, Created
    <3>. QED
      BY <3>1, <3>2, <3>3, ServingQuiet
  <2>. QED
    BY <2>1, <2>2
<1>3. ASSUME NEW s \in Seeds, Load(s) PROVE ServingInv'
  BY <1>1, <1>3, LoadKeeps, ServingQuiet
<1>4. ASSUME NEW s \in Seeds, PublishIndex(s) PROVE ServingInv'
  <2>1. CASE aliased' = aliased /\ pc'[s] # "list"
    BY <1>1, <1>4, <2>1, ServingQuiet DEF PublishIndex, TypeOK
  <2>2. CASE ~(aliased' = aliased /\ pc'[s] # "list")
    <3>1. /\ pending[s] # 0 /\ pending[s] \in DOMAIN index
          /\ aliased' = (aliased \ {replaced[s]}) \cup {pending[s]}
          /\ pc' = [pc EXCEPT ![s] = "list"]
          /\ UNCHANGED <<index, pending, replaced, stale>>
      BY <1>1, <1>4, <2>2 DEF PublishIndex, TypeOK
    <3>. QED
      BY <1>1, <3>1, ServingFlip DEF TypeOK
  <2>. QED
    BY <2>1, <2>2
<1>5. ASSUME NEW s \in Seeds, ListStale(s) PROVE ServingInv'
  BY <1>1, <1>5 DEF ListStale, ServingInv, AliasNeverDangles, Covered, Follows, TypeOK
<1>6. ASSUME NEW s \in Seeds, NEW v \in stale[s], DeleteStale(s, v) PROVE ServingInv'
  <2>1. CASE v \in DOMAIN index
    <3>1. /\ pc[s] = "prune"
          /\ DOMAIN index' = DOMAIN index \ {v}
          /\ aliased' = aliased \ {v}
          /\ stale' = [stale EXCEPT ![s] = @ \ {v}]
          /\ UNCHANGED <<pc, pending, replaced>>
      BY <1>6, <2>1 DEF DeleteStale, Restrict
    <3>2. \A t \in Seeds : stale'[t] \subseteq stale[t]
      BY <1>1, <3>1 DEF TypeOK
    <3>. QED
      BY <3>1, <3>2, ServingDelete
  <2>2. CASE v \notin DOMAIN index
    BY <1>1, <1>6, <2>2, ServingQuiet DEF DeleteStale, TypeOK
  <2>. QED
    BY <2>1, <2>2
<1>7. ASSUME NEW s \in Seeds, Published(s) PROVE ServingInv'
  BY <1>1, <1>7 DEF Published, ServingInv, AliasNeverDangles, Covered, Follows, TypeOK
<1>8. ASSUME NEW s \in Seeds, Crash(s) PROVE ServingInv'
  BY <1>1, <1>8, ServingQuiet DEF Crash, TypeOK
<1>9. CASE UNCHANGED vars
  BY <1>1, <1>9, ServingQuiet DEF vars
<1>. QED
  BY <1>2, <1>3, <1>4, <1>5, <1>6, <1>7, <1>8, <1>9 DEF Next, Execute, Publish, AllEnded

LEMMA ServingNext ==
  MaxRollbacks <= 1 /\ FaultTypeOK /\ ServingInv /\ [FaultNext]_faultVars => ServingInv'
<1>. SUFFICES ASSUME MaxRollbacks <= 1, FaultTypeOK, ServingInv, [FaultNext]_faultVars
              PROVE  ServingInv'
  OBVIOUS
<1>1. CASE Answered \/ UNCHANGED faultVars
  BY <1>1, ServingStep DEF Answered, faultVars
<1>. QED
  BY <1>1, ServingLose, ServingRollback DEF FaultNext

\* No step of any seed or of the operator takes the last version away from the alias.
LEMMA KeepsServing ==
  ASSUME FaultTypeOK, ServingInv, MaxRollbacks <= 1, [FaultNext]_faultVars, aliased # {}
  PROVE  aliased' # {}
<1>. USE DEF cluster
<1>1. ASSUME NEW s \in Seeds, EnsureIndex(s) PROVE aliased \subseteq aliased'
  BY <1>1 DEF EnsureIndex, ReadLiveIndex, CreateInitialIndex, CheckAlias, RepairAlias,
              CreatePendingIndex
<1>2. ASSUME NEW s \in Seeds, Load(s) PROVE aliased' = aliased
  BY <1>2, LoadKeeps DEF FaultTypeOK
<1>3. ASSUME NEW s \in Seeds, PublishIndex(s) \/ LosePublish(s)
      PROVE  aliased' = aliased \/ pending[s] \in aliased'
  BY <1>3 DEF PublishIndex, LosePublish
<1>4. ASSUME NEW s \in Seeds, NEW v \in stale[s], pc[s] = "prune",
             aliased' \in {aliased, aliased \ {v}}
      PROVE  aliased' # {}
  BY <1>4, PrunesBehind DEF FaultTypeOK, TypeOK, Version
<1>5. ASSUME NEW s \in Seeds, Publish(s) \/ Crash(s) PROVE aliased' # {}
  BY <1>3, <1>4, <1>5 DEF Publish, ListStale, DeleteStale, Published, Crash
<1>6. CASE Answered \/ UNCHANGED faultVars
  BY <1>1, <1>2, <1>5, <1>6 DEF Answered, faultVars, vars, Next, Execute, AllEnded
<1>7. ASSUME NEW s \in Seeds, Lose(s) PROVE aliased' # {}
  BY <1>3, <1>4, <1>7 DEF Lose, LoseCreateInitial, LoseCreatePending, LoseBulk,
                          LoseDelete, Unanswered
<1>8. CASE Rollback
  BY <1>8 DEF Rollback
<1>. QED
  BY <1>6, <1>7, <1>8 DEF FaultNext

\* However many seeds race, crash and repeat requests whose answers were lost, and
\* whatever they had listed for deletion when the operator rolled back, searches that
\* have an index behind the alias keep one.
THEOREM ServiceSurvives == MaxRollbacks <= 1 => (FaultSpec => ServiceNeverLost)
<1>. SUFFICES ASSUME MaxRollbacks <= 1 PROVE FaultSpec => ServiceNeverLost
  OBVIOUS
<1>1. FaultTypeOK /\ ServingInv /\ [FaultNext]_faultVars => ServingInv'
  BY ServingNext
<1>2. FaultTypeOK /\ ServingInv /\ ServingInv' /\ [FaultNext]_faultVars
        => [aliased # {} => aliased' # {} /\ aliased' \subseteq DOMAIN index']_faultVars
  BY KeepsServing DEF ServingInv, AliasNeverDangles
<1>. QED
  BY <1>1, <1>2, ServingInit, FaultTypeCorrect, PTL DEF FaultSpec, ServiceNeverLost

-----------------------------------------------------------------------------
(* A load that is repeated is published whole, on a prompt cluster.        *)

\* A seed has no version of its own before it has created one.
Untold(s) == pc[s] \in Provisioning \cup {"createPending"} => pending[s] = 0

\* The version a seed is about to create is there, or nobody else holds it.
Unclaimed(s) ==
    pc[s] = "createPending" =>
        /\ served[s] > 0
        /\ \/ served[s] + 1 \in DOMAIN index
           \/ \A t \in Seeds : Loading(t) => pending[t] # served[s] + 1

\* A version that was deleted from under its seed has been overtaken for good: the alias
\* cannot be moved back to where a seed would create that version again.
Overtaken(s) ==
    Loading(s) =>
        /\ pending[s] > 1
        /\ pending[s] \in DOMAIN index \/ \E v \in aliased : v > pending[s]

HoldInv ==
    /\ \A s \in Seeds : Untold(s) /\ Unclaimed(s) /\ Overtaken(s)
    /\ \A s, t \in Seeds : Loading(s) /\ Loading(t) /\ pending[s] = pending[t] => s = t

LEMMA HoldInit == FaultInit => HoldInv
BY DEF FaultInit, Init, HoldInv, Untold, Unclaimed, Overtaken, Loading, Provisioning

\* No version goes, nobody gets one, and the alias does not move back.
LEMMA HoldQuiet ==
  ASSUME FaultTypeOK, HoldInv,
         DOMAIN index \subseteq DOMAIN index',
         \A v \in aliased : \E w \in aliased' : w >= v,
         aliased' \subseteq Version,
         \A t \in Seeds : Loading(t)' => Loading(t) /\ pending'[t] = pending[t],
         \A t \in Seeds : pc'[t] \in Provisioning \cup {"createPending"} =>
                              /\ pc[t] \in Provisioning \cup {"createPending"}
                              /\ pending'[t] = pending[t],
         \A t \in Seeds : pc'[t] = "createPending" =>
                              pc[t] = "createPending" /\ served'[t] = served[t]
  PROVE  HoldInv'
<1>1. ASSUME NEW t \in Seeds PROVE Untold(t)'
  BY DEF HoldInv, Untold
<1>2. ASSUME NEW t \in Seeds PROVE Unclaimed(t)'
  BY DEF HoldInv, Unclaimed
<1>3. ASSUME NEW t \in Seeds PROVE Overtaken(t)'
  <2>. SUFFICES ASSUME Loading(t)'
                PROVE  /\ pending'[t] > 1
                       /\ pending'[t] \in DOMAIN index' \/ \E v \in aliased' : v > pending'[t]
    BY DEF Overtaken
  <2>1. Loading(t) /\ pending'[t] = pending[t] /\ pending[t] > 1
    BY DEF HoldInv, Overtaken
  <2>2. CASE pending[t] \in DOMAIN index
    BY <2>1, <2>2
  <2>3. CASE \E v \in aliased : v > pending[t]
    <3>1. PICK v \in aliased : v > pending[t]
      BY <2>3
    <3>2. PICK w \in aliased' : w >= v
      BY <3>1
    <3>3. w > pending[t]
      BY <3>1, <3>2 DEF FaultTypeOK, TypeOK, Version
    <3>. QED
      BY <2>1, <3>3
  <2>. QED
    BY <2>1, <2>2, <2>3 DEF HoldInv, Overtaken
<1>. QED
  BY <1>1, <1>2, <1>3 DEF HoldInv

LEMMA HoldEnsureIndex ==
  ASSUME FaultTypeOK, FaultTypeOK', ServingInv, HoldInv, NEW s \in Seeds, EnsureIndex(s)
  PROVE  HoldInv'
<1>. USE DEF GoTo, cluster, bulk, FaultTypeOK
<1>. DEFINE Quiet ==
       /\ DOMAIN index \subseteq DOMAIN index'
       /\ aliased \subseteq aliased'
       /\ UNCHANGED pending
       /\ \A t \in Seeds \ {s} : pc'[t] = pc[t] /\ served'[t] = served[t]
       /\ pc[s] \in Provisioning \cup {"createPending"}
       /\ pc'[s] # "createPending"
<1>1. ASSUME Quiet PROVE HoldInv'
  <2>1. pending[s] = 0
    BY <1>1 DEF HoldInv, Untold
  <2>2. \A t \in Seeds : Loading(t)' => Loading(t) /\ pending'[t] = pending[t]
    BY <1>1, <2>1 DEF Loading
  <2>3. \A v \in aliased : \E w \in aliased' : w >= v
    BY <1>1 DEF TypeOK, Version
  <2>. QED
    BY <1>1, <2>2, <2>3, HoldQuiet DEF TypeOK
<1>2. CASE ReadLiveIndex(s)
  <2>1. CASE pc'[s] # "createPending"
    <3>1. Quiet
      BY <1>2, <2>1 DEF ReadLiveIndex, TypeOK, Provisioning
    <3>. QED
      BY <1>1, <3>1
  <2>2. CASE pc'[s] = "createPending"
    <3>1. PICK v \in aliased : aliased = {v} /\ served' = [served EXCEPT ![s] = v]
      BY <1>2, <2>2 DEF ReadLiveIndex, TypeOK
    <3>2. /\ pc[s] = "read" /\ pc' = [pc EXCEPT ![s] = "createPending"]
          /\ UNCHANGED <<index, aliased, pending>>
      BY <1>2, <2>2, <3>1 DEF ReadLiveIndex, TypeOK
    <3>3. ASSUME NEW t \in Seeds PROVE Loading(t)' <=> Loading(t)
      BY <3>2 DEF Loading, TypeOK
    <3>4. v + 1 \in DOMAIN index \/ \A t \in Seeds : Loading(t) => pending[t] # v + 1
      BY <3>1 DEF HoldInv, Overtaken, TypeOK, Version
    <3>5. Unclaimed(s)'
      BY <3>1, <3>2, <3>3, <3>4 DEF Unclaimed, TypeOK, Version
    <3>6. ASSUME NEW t \in Seeds, t # s PROVE Unclaimed(t)'
      BY <3>1, <3>2, <3>3, <3>6 DEF HoldInv, Unclaimed, TypeOK
    <3>7. ASSUME NEW t \in Seeds PROVE Untold(t)' /\ Overtaken(t)'
      BY <3>2, <3>3 DEF HoldInv, Untold, Overtaken, TypeOK, Provisioning
    <3>. QED
      BY <3>2, <3>3, <3>5, <3>6, <3>7 DEF HoldInv
  <2>. QED
    BY <2>1, <2>2
<1>3. CASE CreateInitialIndex(s)
  <2>1. Quiet
    BY <1>3 DEF CreateInitialIndex, Created, TypeOK, Provisioning
  <2>. QED
    BY <1>1, <2>1
<1>4. CASE CheckAlias(s) \/ RepairAlias(s)
  <2>1. Quiet
    BY <1>4 DEF CheckAlias, RepairAlias, TypeOK, Provisioning
  <2>. QED
    BY <1>1, <2>1
<1>5. CASE CreatePendingIndex(s)
  <2>1. CASE served[s] + 1 \in DOMAIN index
    <3>1. Quiet
      BY <1>5, <2>1 DEF CreatePendingIndex, TypeOK
    <3>. QED
      BY <1>1, <3>1
  <2>2. CASE served[s] + 1 \notin DOMAIN index
    <3>1. /\ DOMAIN index' = DOMAIN index \cup {served[s] + 1}
          /\ pc[s] = "createPending" /\ pc' = [pc EXCEPT ![s] = "load"]
          /\ pending' = [pending EXCEPT ![s] = served[s] + 1]
          /\ UNCHANGED <<aliased, served>>
      BY <1>5, <2>2 DEF CreatePendingIndex, Created
    <3>2. served[s] > 0 /\ \A t \in Seeds : Loading(t) => pending[t] # served[s] + 1
      BY <2>2, <3>1 DEF HoldInv, Unclaimed
    <3>3. /\ Loading(s)' /\ pending'[s] = served[s] + 1
          /\ \A t \in Seeds : t # s => (Loading(t)' <=> Loading(t)) /\ pending'[t] = pending[t]
      BY <3>1 DEF Loading, TypeOK
    <3>4. ASSUME NEW t \in Seeds PROVE Untold(t)' /\ Overtaken(t)'
      <4>1. CASE t = s
        BY <3>1, <3>2, <3>3, <4>1 DEF Untold, Overtaken, TypeOK, Provisioning
      <4>2. CASE t # s
        BY <3>1, <3>3, <4>2 DEF HoldInv, Untold, Overtaken, TypeOK
      <4>. QED
        BY <4>1, <4>2
    <3>5. ASSUME NEW t \in Seeds PROVE Unclaimed(t)'
      <4>1. SUFFICES ASSUME t # s, pc[t] = "createPending", served[t] + 1 \notin DOMAIN index'
                     PROVE  \A u \in Seeds : Loading(u)' => pending'[u] # served[t] + 1
        BY <3>1 DEF HoldInv, Unclaimed, TypeOK
      <4>2. \A u \in Seeds : Loading(u) => pending[u] # served[t] + 1
        BY <3>1, <4>1 DEF HoldInv, Unclaimed
      <4>3. served[s] + 1 # served[t] + 1
        BY <3>1, <4>1
      <4>. QED
        BY <3>3, <4>2, <4>3
    <3>. QED
      BY <3>2, <3>3, <3>4, <3>5 DEF HoldInv
  <2>. QED
    BY <2>1, <2>2
<1>. QED
  BY <1>2, <1>3, <1>4, <1>5 DEF EnsureIndex

\* A deletion, answered or not, on a prompt cluster.
LEMMA HoldDelete ==
  ASSUME FaultTypeOK, ServingInv, HoldInv, MaxRollbacks <= 1, Prompt,
         NEW s \in Seeds, pc[s] = "prune", NEW v \in stale[s],
         DOMAIN index' = DOMAIN index \ {v},
         aliased' = aliased \ {v},
         UNCHANGED <<pc, pending, served>>
  PROVE  HoldInv'
<1>. USE DEF FaultTypeOK, TypeOK, Version
<1>1. PICK w \in aliased : v < w
  BY PrunesBehind
<1>2. w \in aliased'
  BY <1>1
<1>3. \A t \in Seeds : Loading(t)' <=> Loading(t)
  BY DEF Loading
<1>4. ASSUME NEW t \in Seeds PROVE Untold(t)' /\ Unclaimed(t)'
  BY <1>3 DEF HoldInv, Untold, Unclaimed, Prompt, Wanted
<1>5. ASSUME NEW t \in Seeds, Loading(t)
      PROVE  pending[t] \in DOMAIN index' \/ \E x \in aliased' : x > pending[t]
  <2>1. CASE pending[t] \in DOMAIN index
    BY <1>1, <1>2, <2>1
  <2>2. CASE \E x \in aliased : x > pending[t]
    <3>1. PICK x \in aliased : x > pending[t]
      BY <2>2
    <3>2. CASE x = v
      BY <1>1, <1>2, <3>1, <3>2
    <3>3. CASE x # v
      BY <3>1, <3>3
    <3>. QED
      BY <3>2, <3>3
  <2>. QED
    BY <1>5, <2>1, <2>2 DEF HoldInv, Overtaken
<1>6. ASSUME NEW t \in Seeds PROVE Overtaken(t)'
  BY <1>3, <1>5 DEF HoldInv, Overtaken
<1>. QED
  BY <1>3, <1>4, <1>6 DEF HoldInv

LEMMA HoldRollback ==
  ASSUME FaultTypeOK, HoldInv, Rollback
  PROVE  HoldInv'
<1>. USE DEF FaultTypeOK, TypeOK, Version
<1>1. PICK v \in aliased : aliased = {v} /\ v - 1 \in DOMAIN index /\ aliased' = {v - 1}
  BY DEF Rollback
<1>2. UNCHANGED <<index, pc, pending, served>>
  BY DEF Rollback, adapter
<1>3. \A t \in Seeds : Loading(t)' <=> Loading(t)
  BY <1>2 DEF Loading
<1>4. ASSUME NEW t \in Seeds PROVE Untold(t)' /\ Unclaimed(t)'
  BY <1>2, <1>3 DEF HoldInv, Untold, Unclaimed
<1>5. ASSUME NEW t \in Seeds, Loading(t), pending[t] \notin DOMAIN index
      PROVE  v - 1 > pending[t]
  BY <1>1, <1>5 DEF HoldInv, Overtaken
<1>6. ASSUME NEW t \in Seeds PROVE Overtaken(t)'
  BY <1>1, <1>2, <1>3, <1>5 DEF HoldInv, Overtaken
<1>. QED
  BY <1>2, <1>3, <1>4, <1>6 DEF HoldInv

\* A flip, answered or not.
LEMMA HoldFlip ==
  ASSUME FaultTypeOK, FaultTypeOK', ServingInv, HoldInv, NEW s \in Seeds,
         pending[s] # 0,
         aliased' = (aliased \ {replaced[s]}) \cup {pending[s]},
         \A t \in Seeds : pc'[t] = pc[t] \/ pc'[t] = "list",
         UNCHANGED <<index, pending, served>>
  PROVE  HoldInv'
<1>1. pending[s] > replaced[s] /\ pending[s] \in aliased'
  BY DEF ServingInv, Follows
<1>2. ASSUME NEW v \in aliased PROVE \E w \in aliased' : w >= v
  <2>1. CASE v = replaced[s]
    <3>1. pending[s] >= v
      BY <1>1, <2>1 DEF FaultTypeOK, TypeOK
    <3>. QED
      BY <1>1, <3>1
  <2>2. CASE v # replaced[s]
    <3>1. v \in aliased' /\ v >= v
      BY <2>2 DEF FaultTypeOK, TypeOK, Version
    <3>. QED
      BY <3>1
  <2>. QED
    BY <2>1, <2>2
<1>3. \A t \in Seeds : Loading(t)' => Loading(t)
  BY DEF Loading
<1>. QED
  BY <1>2, <1>3, HoldQuiet DEF FaultTypeOK, TypeOK, Provisioning

LEMMA HoldLose ==
  ASSUME FaultTypeOK, FaultTypeOK', ServingInv, HoldInv, MaxRollbacks <= 1, Prompt,
         NEW s \in Seeds, Lose(s)
  PROVE  HoldInv'
<1>. USE DEF GoTo, cluster, Unanswered, adapter, FaultTypeOK
<1>1. UNCHANGED <<pending, served>>
  BY LoseKeeps
<1>2. \A v \in aliased : v >= v
  BY DEF TypeOK, Version
<1>3. CASE LoseCreateInitial(s) \/ LoseCreatePending(s)
  <2>1. DOMAIN index \subseteq DOMAIN index' /\ aliased \subseteq aliased' /\ pc' = pc
    BY <1>3 DEF LoseCreateInitial, LoseCreatePending, Created
  <2>2. \A t \in Seeds : Loading(t)' <=> Loading(t)
    BY <1>1, <2>1 DEF Loading
  <2>. QED
    BY <1>1, <1>2, <2>1, <2>2, HoldQuiet DEF TypeOK
<1>4. CASE LoseBulk(s)
  <2>1. pc[s] = "bulk" /\ pc' = [pc EXCEPT ![s] = "load"] /\ UNCHANGED <<index, aliased>>
    BY <1>4 DEF LoseBulk
  <2>2. \A t \in Seeds : Loading(t)' <=> Loading(t)
    BY <1>1, <2>1 DEF Loading, TypeOK
  <2>. QED
    BY <1>1, <1>2, <2>1, <2>2, HoldQuiet DEF TypeOK, Provisioning
<1>5. CASE LosePublish(s)
  BY <1>1, <1>5, HoldFlip DEF LosePublish
<1>6. CASE LoseDelete(s)
  <2>1. PICK v \in stale[s] \cap DOMAIN index :
           index' = Restrict(index, DOMAIN index \ {v}) /\ aliased' = aliased \ {v}
    BY <1>6 DEF LoseDelete
  <2>2. DOMAIN index' = DOMAIN index \ {v}
    BY <2>1 DEF Restrict
  <2>. QED
    BY <1>1, <1>6, <2>1, <2>2, HoldDelete DEF LoseDelete
<1>. QED
  BY <1>3, <1>4, <1>5, <1>6 DEF Lose

LEMMA HoldStep ==
  ASSUME FaultTypeOK, FaultTypeOK', ServingInv, HoldInv, MaxRollbacks <= 1, Prompt, [Next]_vars
  PROVE  HoldInv'
<1>. USE DEF GoTo, cluster, adapter, bulk, FaultTypeOK
<1>1. \A v \in aliased : v >= v
  BY DEF TypeOK, Version
<1>2. ASSUME NEW s \in Seeds, Load(s) PROVE HoldInv'
  <2>1. /\ aliased' = aliased /\ DOMAIN index \subseteq DOMAIN index'
        /\ UNCHANGED <<served, pending>>
        /\ \A t \in Seeds : pc'[t] = pc[t] \/ t = s
        /\ pc'[s] \in {"bulk", "refresh", "publish", "done", "thrown"} \/ pc'[s] = pc[s]
    BY <1>2, LoadKeeps
  <2>2. pc'[s] = pc[s] \/ pc[s] \in {"load", "bulk", "refresh"}
    BY <1>2 DEF Load, BulkIndex, IndexDocument, BulkAnswered, Refresh, TypeOK
  <2>3. \A t \in Seeds : Loading(t)' => Loading(t)
    BY <2>1, <2>2 DEF Loading
  <2>. QED
    BY <1>1, <2>1, <2>3, HoldQuiet DEF TypeOK, Provisioning
<1>3. ASSUME NEW s \in Seeds, PublishIndex(s) PROVE HoldInv'
  <2>1. CASE aliased' = aliased
    <3>1. /\ UNCHANGED <<index, served, pending>>
          /\ \A t \in Seeds : pc'[t] = pc[t] \/ pc'[t] \in {"done", "thrown", "list"}
      BY <1>3 DEF PublishIndex, TypeOK
    <3>2. \A t \in Seeds : Loading(t)' => Loading(t)
      BY <3>1 DEF Loading
    <3>. QED
      BY <1>1, <2>1, <3>1, <3>2, HoldQuiet DEF TypeOK, Provisioning
  <2>2. CASE aliased' # aliased
    <3>1. /\ pending[s] # 0
          /\ aliased' = (aliased \ {replaced[s]}) \cup {pending[s]}
          /\ \A t \in Seeds : pc'[t] = pc[t] \/ pc'[t] = "list"
          /\ UNCHANGED <<index, pending, served>>
      BY <1>3, <2>2 DEF PublishIndex, TypeOK
    <3>. QED
      BY <3>1, HoldFlip
  <2>. QED
    BY <2>1, <2>2
<1>4. ASSUME NEW s \in Seeds, NEW v \in stale[s], DeleteStale(s, v), v \in DOMAIN index
      PROVE  HoldInv'
  <2>1. /\ pc[s] = "prune" /\ DOMAIN index' = DOMAIN index \ {v} /\ aliased' = aliased \ {v}
        /\ UNCHANGED <<pc, pending, served>>
    BY <1>4 DEF DeleteStale, Restrict
  <2>. QED
    BY <2>1, HoldDelete
<1>5. ASSUME UNCHANGED <<index, aliased>>,
             \A t \in Seeds : \/ pc'[t] = pc[t] /\ pending'[t] = pending[t] /\ served'[t] = served[t]
                              \/ pc'[t] \in Ended \cup {"prune"}
      PROVE  HoldInv'
  <2>1. \A t \in Seeds : Loading(t)' => Loading(t) /\ pending'[t] = pending[t]
    BY <1>5 DEF Loading, Ended
  <2>. QED
    BY <1>1, <1>5, <2>1, HoldQuiet DEF TypeOK, Provisioning, Ended
<1>6. ASSUME NEW s \in Seeds, ListStale(s) \/ Published(s) \/ Crash(s) PROVE HoldInv'
  BY <1>5, <1>6 DEF ListStale, Published, Crash, TypeOK, Ended
<1>7. ASSUME NEW s \in Seeds, NEW v \in stale[s], DeleteStale(s, v), v \notin DOMAIN index
      PROVE  HoldInv'
  BY <1>5, <1>7 DEF DeleteStale, TypeOK, Ended
<1>8. CASE UNCHANGED vars
  BY <1>5, <1>8 DEF vars
<1>. QED
  BY <1>2, <1>3, <1>4, <1>6, <1>7, <1>8, HoldEnsureIndex
     DEF Next, Execute, Publish, AllEnded

LEMMA HoldNext ==
  ASSUME FaultTypeOK, ServingInv, HoldInv, MaxRollbacks <= 1,
         [FaultNext /\ Prompt]_faultVars
  PROVE  HoldInv'
<1>1. FaultTypeOK'
  BY FaultNextType
<1>2. CASE UNCHANGED faultVars
  <2>1. [Next]_vars /\ Prompt
    BY <1>2 DEF faultVars, vars, Prompt
  <2>. QED
    BY <1>1, <2>1, HoldStep
<1>. QED
  BY <1>1, <1>2, HoldStep, HoldLose, HoldRollback DEF FaultNext, Answered

-----------------------------------------------------------------------------
(* What a load has written.                                                *)

\* A seed past its bulk request has, in the version it holds, a document for each product
\* Elasticsearch has processed, unless one was rejected or the version is gone.
Written(s) ==
    Loading(s) /\ pc[s] # "load" =>
        /\ target[s] = pending[s]
        /\ ~failed[s] /\ pending[s] \in DOMAIN index =>
               \A p \in Dataset[code[s]] \ left[s] : index[pending[s]].docs[p] # NoDoc
        /\ pc[s] \in {"refresh", "publish"} => left[s] = {}
        /\ pc[s] = "publish" => ~failed[s]

\* A step that creates no version v, and takes no document out of one.
Kept(v) ==
    v \in DOMAIN index' =>
        /\ v \in DOMAIN index
        /\ \A p \in Products : index[v].docs[p] # NoDoc => index'[v].docs[p] # NoDoc

LEMMA CreatedKeeps ==
  ASSUME NEW v, NEW d, index' = Created(v, d), NEW w, w # v
  PROVE  Kept(w)
BY DEF Created, Kept

\* Only its own bulk request creates the version a seed holds.
LEMMA StepKeeps ==
  ASSUME FaultTypeOK, HoldInv, NEW s \in Seeds, Execute(s) \/ Crash(s) \/ Lose(s),
         NEW t \in Seeds, Loading(t), pc[t] # "load"
  PROVE  Kept(pending[t])
<1>. USE DEF cluster, FaultTypeOK
<1>1. pending[t] > 1 /\ pending[t] \in Nat
  BY DEF HoldInv, Overtaken, TypeOK
<1>2. CASE index' = index
  BY <1>2 DEF Kept
<1>3. CASE /\ pc[s] = "createPending" /\ served[s] + 1 \notin DOMAIN index
           /\ index' = Created(served[s] + 1, Definition[code[s]])
  <2>1. pending[t] # served[s] + 1
    BY <1>3 DEF HoldInv, Unclaimed
  <2>. QED
    BY <1>3, <2>1, CreatedKeeps
<1>4. CASE index' = Created(1, Definition[code[s]])
  BY <1>1, <1>4, CreatedKeeps
<1>5. CASE pc[s] = "load" /\ pending[s] # 0 /\ index' = Created(pending[s], Unrecorded)
  <2>1. Loading(s) /\ s # t
    BY <1>5 DEF Loading
  <2>2. pending[s] # pending[t]
    BY <2>1 DEF HoldInv
  <2>. QED
    BY <1>5, <2>2, CreatedKeeps
<1>6. ASSUME NEW p \in Products, IndexDocument(s, p), index' # index
      PROVE  Kept(pending[t])
  <2>1. /\ target[s] \in DOMAIN index
        /\ index' = [index EXCEPT ![target[s]].docs[p] = code[s]]
    BY <1>6 DEF IndexDocument
  <2>2. code[s] # NoDoc
    BY CodeAssumption DEF TypeOK
  <2>3. ASSUME NEW v \in DOMAIN index, NEW q \in Products, index[v].docs[q] # NoDoc
        PROVE  index'[v].docs[q] # NoDoc
    <3>1. index[v] \in Contents
      BY DEF TypeOK
    <3>2. CASE v = target[s]
      <4>1. index'[v] = [index[v] EXCEPT !.docs[p] = code[s]]
        BY <2>1, <3>2
      <4>2. index'[v].docs = [index[v].docs EXCEPT ![p] = code[s]]
        BY <3>1, <4>1 DEF Contents
      <4>3. index[v].docs \in [Products -> Stored]
        BY <3>1 DEF Contents
      <4>. QED
        BY <2>2, <2>3, <4>2, <4>3
    <3>3. CASE v # target[s]
      BY <2>1, <2>3, <3>3
    <3>. QED
      BY <3>2, <3>3
  <2>4. DOMAIN index' = DOMAIN index
    BY <2>1
  <2>. QED
    BY <2>3, <2>4 DEF Kept
<1>7. ASSUME NEW v, index' = Restrict(index, DOMAIN index \ {v}) PROVE Kept(pending[t])
  BY <1>7 DEF Kept, Restrict
<1>8. ASSUME EnsureIndex(s) PROVE Kept(pending[t])
  BY <1>2, <1>3, <1>4, <1>8
     DEF EnsureIndex, ReadLiveIndex, CreateInitialIndex, CheckAlias, RepairAlias,
         CreatePendingIndex
<1>9. ASSUME BulkIndex(s) PROVE Kept(pending[t])
  BY <1>2, <1>5, <1>9 DEF BulkIndex
<1>10. ASSUME Load(s) PROVE Kept(pending[t])
  BY <1>2, <1>6, <1>9, <1>10 DEF Load, BulkAnswered, Refresh
<1>11. ASSUME Publish(s) \/ Crash(s) PROVE Kept(pending[t])
  BY <1>2, <1>7, <1>11 DEF Publish, PublishIndex, ListStale, DeleteStale, Published, Crash
<1>12. ASSUME Lose(s) PROVE Kept(pending[t])
  BY <1>2, <1>3, <1>4, <1>7, <1>12
     DEF Lose, LoseCreateInitial, LoseCreatePending, LoseBulk, LosePublish, LoseDelete,
         Unanswered
<1>. QED
  BY <1>8, <1>10, <1>11, <1>12 DEF Execute

LEMMA NextKeeps ==
  ASSUME FaultTypeOK, HoldInv, [FaultNext]_faultVars,
         NEW t \in Seeds, Loading(t), pc[t] # "load"
  PROVE  Kept(pending[t])
<1>1. CASE index' = index
  BY <1>1 DEF Kept
<1>2. CASE Rollback \/ UNCHANGED faultVars
  BY <1>1, <1>2 DEF Rollback, faultVars, vars, cluster
<1>3. ASSUME UNCHANGED vars PROVE Kept(pending[t])
  BY <1>1, <1>3 DEF vars, cluster
<1>. QED
  BY <1>2, <1>3, StepKeeps DEF FaultNext, Answered, Next, AllEnded

LEMMA WrittenInit == FaultInit => \A s \in Seeds : Written(s)
BY DEF FaultInit, Init, Written, Loading

\* What a step of seed s leaves to any other seed.
LEMMA StepFrame ==
  ASSUME FaultTypeOK, NEW s \in Seeds, Execute(s) \/ Crash(s) \/ Lose(s),
         NEW t \in Seeds, t # s
  PROVE  /\ pc'[t] = pc[t] /\ code'[t] = code[t] /\ pending'[t] = pending[t]
         /\ target'[t] = target[t] /\ left'[t] = left[t] /\ failed'[t] = failed[t]
<1>. USE DEF GoTo, bulk, adapter, FaultTypeOK, TypeOK
<1>1. CASE EnsureIndex(s)
  BY <1>1 DEF EnsureIndex, ReadLiveIndex, CreateInitialIndex, CheckAlias, RepairAlias,
              CreatePendingIndex
<1>2. CASE Load(s)
  BY <1>2 DEF Load, BulkIndex, IndexDocument, BulkAnswered, Refresh
<1>3. CASE Publish(s)
  BY <1>3 DEF Publish, PublishIndex, ListStale, DeleteStale, Published
<1>4. CASE Crash(s)
  BY <1>4 DEF Crash
<1>5. CASE Lose(s)
  BY <1>5 DEF Lose, LoseCreateInitial, LoseCreatePending, LoseBulk, LosePublish, LoseDelete,
              Unanswered
<1>. QED
  BY <1>1, <1>2, <1>3, <1>4, <1>5 DEF Execute

LEMMA WrittenQuiet ==
  ASSUME FaultTypeOK, NEW t \in Seeds, Written(t),
         Loading(t) /\ pc[t] # "load" => Kept(pending[t]),
         pc'[t] = pc[t], code'[t] = code[t], pending'[t] = pending[t],
         target'[t] = target[t], left'[t] = left[t], failed'[t] = failed[t]
  PROVE  Written(t)'
<1>. USE CodeAssumption DEF FaultTypeOK, TypeOK
<1>1. Dataset[code[t]] \subseteq Products
  OBVIOUS
<1>. QED
  BY <1>1 DEF Written, Loading, Kept

\* Elasticsearch processes a document of the seed's own request.
LEMMA WrittenDocument ==
  ASSUME FaultTypeOK, NEW s \in Seeds, Written(s), NEW p \in Products, IndexDocument(s, p),
         Loading(s) /\ pc[s] # "load" => Kept(pending[s])
  PROVE  Written(s)'
<1>. USE DEF FaultTypeOK, TypeOK
<1>1. /\ pc' = pc /\ code' = code /\ pending' = pending /\ target' = target
      /\ left' = [left EXCEPT ![s] = @ \ {p}] /\ p \in left[s]
  BY DEF IndexDocument, adapter
<1>. SUFFICES ASSUME Loading(s), pc[s] # "load" PROVE Written(s)'
  BY <1>1 DEF Written, Loading
<1>2. target[s] = pending[s] /\ pc[s] = "bulk"
  BY <1>1 DEF Written, Loading
<1>3. Dataset[code[s]] \subseteq Products
  BY CodeAssumption
<1>4. CASE failed' = [failed EXCEPT ![s] = TRUE]
  BY <1>1, <1>2, <1>4 DEF Written, Loading
<1>5. CASE /\ target[s] \in DOMAIN index
           /\ index' = [index EXCEPT ![target[s]].docs[p] = code[s]]
           /\ failed' = failed
  <2>1. index[pending[s]] \in Contents /\ code[s] # NoDoc
    BY <1>2, <1>5, CodeAssumption
  <2>2. index'[pending[s]].docs = [index[pending[s]].docs EXCEPT ![p] = code[s]]
    BY <1>2, <1>5, <2>1 DEF Contents
  <2>3. index'[pending[s]].docs[p] # NoDoc
    BY <2>1, <2>2 DEF Contents
  <2>4. ASSUME ~failed[s], NEW q \in Dataset[code[s]] \ left'[s]
        PROVE  index'[pending[s]].docs[q] # NoDoc
    <3>1. CASE q = p
      BY <2>3, <3>1
    <3>2. CASE q # p
      <4>1. q \in Dataset[code[s]] \ left[s]
        BY <1>1, <2>4, <3>2
      <4>2. index[pending[s]].docs[q] # NoDoc
        BY <1>2, <1>5, <2>4, <4>1 DEF Written
      <4>3. pending[s] \in DOMAIN index'
        BY <1>2, <1>5
      <4>. QED
        BY <1>2, <1>3, <2>4, <4>2, <4>3 DEF Kept
    <3>. QED
      BY <3>1, <3>2
  <2>. QED
    BY <1>1, <1>2, <1>5, <2>4 DEF Written, Loading
<1>. QED
  BY <1>4, <1>5 DEF IndexDocument

\* Any step of the seed itself.
LEMMA WrittenOwn ==
  ASSUME FaultTypeOK, HoldInv, NEW s \in Seeds, Written(s),
         Execute(s) \/ Crash(s) \/ Lose(s)
  PROVE  Written(s)'
<1>. USE DEF GoTo, bulk, adapter, cluster, FaultTypeOK
<1>1. Loading(s) /\ pc[s] # "load" => Kept(pending[s])
  BY StepKeeps
<1>2. CASE pc'[s] \notin {"bulk", "refresh", "publish"}
  BY <1>2 DEF Written, Loading
<1>3. CASE EnsureIndex(s) \/ Publish(s) \/ Crash(s)
  <2>1. pc'[s] \notin {"bulk", "refresh", "publish"}
    BY <1>3 DEF EnsureIndex, ReadLiveIndex, CreateInitialIndex, CheckAlias, RepairAlias,
                CreatePendingIndex, Publish, PublishIndex, ListStale, DeleteStale, Published,
                Crash, TypeOK
  <2>. QED
    BY <1>2, <2>1
<1>4. CASE BulkIndex(s)
  <2>1. pc'[s] = "bulk" /\ pending' = pending /\ code' = code
    BY <1>4 DEF BulkIndex, TypeOK
  <2>2. pending[s] # 0 => target'[s] = pending[s] /\ left'[s] = Dataset[code[s]]
    BY <1>4 DEF BulkIndex, TypeOK
  <2>. QED
    BY <2>1, <2>2 DEF Written, Loading
<1>5. ASSUME NEW p \in Products, IndexDocument(s, p) PROVE Written(s)'
  BY <1>1, <1>5, WrittenDocument
<1>6. CASE BulkAnswered(s) \/ Refresh(s)
  <2>1. /\ UNCHANGED <<index, code, pending, target, left, failed>>
        /\ \/ pc[s] = "bulk" /\ left[s] = {} /\ pc'[s] = "refresh"
           \/ pc[s] = "refresh" /\ pc'[s] \in {"thrown", "done"}
           \/ pc[s] = "refresh" /\ pc'[s] = "publish" /\ ~failed[s]
    BY <1>6 DEF BulkAnswered, Refresh, TypeOK
  <2>. QED
    BY <2>1 DEF Written, Loading
<1>7. CASE LoseBulk(s)
  <2>1. pc'[s] = "load"
    BY <1>7 DEF LoseBulk, Unanswered, TypeOK
  <2>. QED
    BY <1>2, <2>1
<1>8. CASE Lose(s) /\ ~LoseBulk(s)
  <2>1. UNCHANGED <<pc, code, pending, target, left, failed>>
    BY <1>8 DEF Lose, LoseCreateInitial, LoseCreatePending, LosePublish, LoseDelete, Unanswered
  <2>. QED
    BY <1>1, <2>1, WrittenQuiet
<1>. QED
  BY <1>3, <1>4, <1>5, <1>6, <1>7, <1>8 DEF Execute, Load

LEMMA WrittenNext ==
  ASSUME FaultTypeOK, HoldInv, [FaultNext]_faultVars, \A t \in Seeds : Written(t),
         NEW t \in Seeds
  PROVE  Written(t)'
<1>1. Loading(t) /\ pc[t] # "load" => Kept(pending[t])
  BY NextKeeps
<1>2. ASSUME NEW s \in Seeds, Execute(s) \/ Crash(s) \/ Lose(s) PROVE Written(t)'
  <2>1. CASE s = t
    BY <1>2, <2>1, WrittenOwn
  <2>2. CASE s # t
    <3>1. /\ pc'[t] = pc[t] /\ code'[t] = code[t] /\ pending'[t] = pending[t]
          /\ target'[t] = target[t] /\ left'[t] = left[t] /\ failed'[t] = failed[t]
      BY <1>2, <2>2, StepFrame
    <3>. QED
      BY <1>1, <3>1, WrittenQuiet
  <2>. QED
    BY <2>1, <2>2
<1>3. CASE UNCHANGED vars \/ Rollback
  <2>1. UNCHANGED <<pc, code, pending, target, left, failed>>
    BY <1>3 DEF vars, Rollback, adapter, bulk
  <2>. QED
    BY <1>1, <2>1, WrittenQuiet
<1>. QED
  BY <1>2, <1>3 DEF FaultNext, Answered, Next, AllEnded, faultVars

WholeInv == HoldInv /\ \A s \in Seeds : Written(s)

\* A version that becomes the one served while its seed is about to publish it is whole.
LEMMA PublishedWhole ==
  ASSUME FaultTypeOK, FaultTypeOK', ServingInv', WholeInv, [FaultNext]_faultVars,
         NEW s \in Seeds, pc[s] = "publish", pending[s] \in aliased',
         NEW p \in Dataset[code[s]]
  PROVE  index'[pending[s]].docs[p] # NoDoc
<1>1. pending[s] \in DOMAIN index' /\ pending[s] # 0
  BY DEF ServingInv, AliasNeverDangles, FaultTypeOK, TypeOK, Version
<1>2. Loading(s)
  BY <1>1 DEF Loading
<1>3. Kept(pending[s])
  BY <1>2, NextKeeps DEF WholeInv
<1>4. p \in Products
  BY CodeAssumption DEF FaultTypeOK, TypeOK
<1>5. index[pending[s]].docs[p] # NoDoc
  BY <1>1, <1>2, <1>3 DEF WholeInv, Written, Kept
<1>. QED
  BY <1>1, <1>3, <1>4, <1>5 DEF Kept

\* However often bulk requests, flips and deletions are repeated, and whatever the
\* operator rolled back meanwhile, a seed publishes nothing its load is not whole in.
THEOREM RetriesPublishWhole == MaxRollbacks <= 1 => (PromptFaultSpec => RetriedLoadIsWhole)
<1>. SUFFICES ASSUME MaxRollbacks <= 1 PROVE PromptFaultSpec => RetriedLoadIsWhole
  OBVIOUS
<1>. DEFINE Inv == FaultTypeOK /\ ServingInv /\ WholeInv
<1>1. FaultInit => Inv
  BY FaultInitType, ServingInit, HoldInit, WrittenInit DEF WholeInv
<1>2. Inv /\ [FaultNext /\ Prompt]_faultVars => Inv'
  BY FaultNextType, ServingNext, HoldNext, WrittenNext DEF WholeInv
<1>3. Inv /\ Inv' /\ [FaultNext /\ Prompt]_faultVars =>
        [\A s \in Seeds :
            pc[s] = "publish" /\ aliased' # aliased /\ pending[s] \in aliased' \ aliased
                => \A p \in Dataset[code[s]] : index'[pending[s]].docs[p] # NoDoc]_faultVars
  BY PublishedWhole
<1>. HIDE DEF Inv
<1>. QED
  BY <1>1, <1>2, <1>3, PTL DEF PromptFaultSpec, RetriedLoadIsWhole

=============================================================================
