------------------------- MODULE IndexMigrationProofs -------------------------
(***************************************************************************)
(* Proofs about IndexMigration, for every set of seeds, generations and    *)
(* products.                                                               *)
(***************************************************************************)
EXTENDS IndexMigration, TLAPS

-----------------------------------------------------------------------------
(* Type correctness.                                                       *)

LEMMA EmptyType == Empty \in [Products -> Stored]
BY DEF Empty, Stored

LEMMA CatalogueType ==
  ASSUME NEW g \in Generations
  PROVE  Catalogue(g) \in [Products -> Stored]
BY DEF Catalogue, Stored

\* A created index is well formed and leaves the others as they are.
LEMMA CreatedType ==
  ASSUME TypeOK, NEW v \in Version, NEW d \in Fingerprint
  PROVE  /\ DOMAIN Created(v, d) = DOMAIN index \cup {v}
         /\ DOMAIN Created(v, d) \subseteq Version
         /\ Created(v, d) \in [DOMAIN Created(v, d) -> Contents]
         /\ \A w \in DOMAIN index : Created(v, d)[w] = index[w]
         /\ v \notin DOMAIN index => Created(v, d)[v] = Carrying(d)
BY EmptyType DEF Created, Carrying, Contents, TypeOK

LEMMA OwnFingerprint ==
  ASSUME NEW g \in Generations
  PROVE  Definition[g] \in Fingerprint
BY DEF Fingerprint

LEMMA InitType == Init => TypeOK
<1>. SUFFICES ASSUME Init PROVE TypeOK
  OBVIOUS
<1>1. /\ DOMAIN index \subseteq Version
      /\ index \in [DOMAIN index -> Contents]
      /\ aliased \subseteq Version
  <2>1. CASE index = [v \in {} |-> Carrying(Unrecorded)] /\ aliased = {}
    BY <2>1
  <2>2. CASE \E c \in Loaded : index = FirstVersion(c) /\ aliased \in {{}, {1}}
    <3>1. PICK c \in Loaded : index = FirstVersion(c) /\ aliased \in {{}, {1}}
      BY <2>2
    <3>2. c \in Contents
      BY <3>1, CatalogueType DEF Loaded, Contents
    <3>. QED
      BY <3>1, <3>2 DEF FirstVersion, Version
  <2>. QED
    BY <2>1, <2>2 DEF Init
<1>. QED
  BY <1>1 DEF Init, TypeOK, Awaiting

LEMMA EnsureIndexType ==
  ASSUME TypeOK, NEW s \in Seeds, EnsureIndex(s)
  PROVE  TypeOK'
<1>. USE DEF cluster, bulk, GoTo, Awaiting, Ended
<1>1. CASE ReadLiveIndex(s)
  BY <1>1 DEF ReadLiveIndex, TypeOK, Version
<1>2. CASE CreateInitialIndex(s)
  <2>1. CASE 1 \notin DOMAIN index
    <3>1. 1 \in Version /\ Definition[code[s]] \in Fingerprint
      BY OwnFingerprint DEF TypeOK, Version
    <3>2. index' = Created(1, Definition[code[s]])
      BY <1>2, <2>1 DEF CreateInitialIndex
    <3>3. DOMAIN index' \subseteq Version /\ index' \in [DOMAIN index' -> Contents]
      BY <3>1, <3>2, CreatedType
    <3>. QED
      BY <1>2, <2>1, <3>3 DEF CreateInitialIndex, TypeOK, Version
  <2>2. CASE 1 \in DOMAIN index
    BY <1>2, <2>2 DEF CreateInitialIndex, TypeOK
  <2>. QED
    BY <2>1, <2>2
<1>3. CASE CheckAlias(s)
  BY <1>3 DEF CheckAlias, TypeOK
<1>4. CASE RepairAlias(s)
  BY <1>4 DEF RepairAlias, TypeOK, Version
<1>5. CASE CreatePendingIndex(s)
  <2>1. CASE served[s] + 1 \notin DOMAIN index
    <3>1. served[s] + 1 \in Version /\ Definition[code[s]] \in Fingerprint
      BY OwnFingerprint DEF TypeOK, Version
    <3>2. index' = Created(served[s] + 1, Definition[code[s]])
      BY <1>5, <2>1 DEF CreatePendingIndex
    <3>3. DOMAIN index' \subseteq Version /\ index' \in [DOMAIN index' -> Contents]
      BY <3>1, <3>2, CreatedType
    <3>. QED
      BY <1>5, <2>1, <3>3 DEF CreatePendingIndex, TypeOK, Version
  <2>2. CASE served[s] + 1 \in DOMAIN index
    BY <1>5, <2>2 DEF CreatePendingIndex, TypeOK
  <2>. QED
    BY <2>1, <2>2
<1>. QED
  BY <1>1, <1>2, <1>3, <1>4, <1>5 DEF EnsureIndex

LEMMA LoadType ==
  ASSUME TypeOK, NEW s \in Seeds, Load(s)
  PROVE  TypeOK'
<1>. USE DEF adapter, GoTo, Awaiting, Ended
<1>1. CASE BulkIndex(s)
  <2>. USE CodeAssumption
  <2>1. Dataset[code[s]] \in SUBSET Products
    BY DEF TypeOK
  <2>2. /\ DOMAIN index' \subseteq Version
        /\ index' \in [DOMAIN index' -> Contents]
    <3>1. CASE index' = index
      BY <3>1 DEF TypeOK
    <3>2. CASE pending[s] # 0 /\ index' = Created(pending[s], Unrecorded)
      <4>1. pending[s] \in Version /\ Unrecorded \in Fingerprint
        BY <3>2 DEF TypeOK, Version, Fingerprint
      <4>. QED
        BY <3>2, <4>1, CreatedType
    <3>. QED
      BY <1>1, <3>1, <3>2 DEF BulkIndex
  <2>3. /\ target' \in [Seeds -> Nat]
        /\ left' \in [Seeds -> SUBSET Products]
        /\ failed' \in [Seeds -> BOOLEAN]
    BY <1>1, <2>1 DEF BulkIndex, TypeOK, Version
  <2>. QED
    BY <1>1, <2>2, <2>3 DEF BulkIndex, TypeOK
<1>2. ASSUME NEW p \in Products, IndexDocument(s, p)
      PROVE  TypeOK'
  <2>1. /\ DOMAIN index' \subseteq Version
        /\ index' \in [DOMAIN index' -> Contents]
    <3>1. CASE index' = index
      BY <3>1 DEF TypeOK
    <3>2. CASE /\ target[s] \in DOMAIN index
               /\ index' = [index EXCEPT ![target[s]].docs[p] = code[s]]
      <4>1. index[target[s]] \in Contents /\ code[s] \in Stored
        BY <3>2 DEF TypeOK, Stored
      <4>2. [index[target[s]] EXCEPT !.docs[p] = code[s]] \in Contents
        BY <4>1 DEF Contents
      <4>. QED
        BY <3>2, <4>2 DEF TypeOK
    <3>. QED
      BY <1>2, <3>1, <3>2 DEF IndexDocument
  <2>. QED
    BY <1>2, <2>1 DEF IndexDocument, TypeOK
<1>3. CASE BulkAnswered(s)
  BY <1>3 DEF BulkAnswered, TypeOK, cluster, bulk
<1>4. CASE Refresh(s)
  BY <1>4 DEF Refresh, TypeOK, cluster, bulk
<1>. QED
  BY <1>1, <1>2, <1>3, <1>4 DEF Load

LEMMA PublishType ==
  ASSUME TypeOK, NEW s \in Seeds, Publish(s)
  PROVE  TypeOK'
<1>. USE DEF adapter, bulk, cluster, GoTo, Awaiting, Ended
<1>1. CASE PublishIndex(s)
  <2>1. pending[s] # 0 => pending[s] \in Version
    BY DEF TypeOK, Version
  <2>. QED
    BY <1>1, <2>1 DEF PublishIndex, TypeOK
<1>2. CASE ListStale(s)
  BY <1>2 DEF ListStale, TypeOK
<1>3. ASSUME NEW v \in stale[s], DeleteStale(s, v)
      PROVE  TypeOK'
  BY <1>3 DEF DeleteStale, TypeOK, Restrict
<1>4. CASE Published(s)
  BY <1>4 DEF Published, TypeOK
<1>. QED
  BY <1>1, <1>2, <1>3, <1>4 DEF Publish

LEMMA NextType == TypeOK /\ [Next]_vars => TypeOK'
<1>. SUFFICES ASSUME TypeOK, [Next]_vars PROVE TypeOK'
  OBVIOUS
<1>1. ASSUME NEW s \in Seeds, Execute(s) PROVE TypeOK'
  BY <1>1, EnsureIndexType, LoadType, PublishType DEF Execute
<1>2. ASSUME NEW s \in Seeds, Crash(s) PROVE TypeOK'
  BY <1>2 DEF Crash, TypeOK, GoTo, Awaiting, Ended, cluster, adapter, bulk
<1>3. CASE UNCHANGED vars
  BY <1>3 DEF vars, TypeOK
<1>. QED
  BY <1>1, <1>2, <1>3 DEF Next, AllEnded

\* Every state of the seeds and of the cluster is well typed.
THEOREM TypeCorrect == Spec => []TypeOK
BY InitType, NextType, PTL DEF Spec

-----------------------------------------------------------------------------
(* Any number of seeds, any interleaving.                                  *)

\* Nothing deletes an index and leaves the alias on it.
AliasNeverDangles == aliased \subseteq DOMAIN index

\* A seed that prunes has published: something newer than what it retains is
\* served, and it deletes only what is older than that.
Behind(s) ==
    /\ pc[s] \in {"list", "prune"} => \E v \in aliased : v > replaced[s]
    /\ pc[s] = "prune" => \A w \in stale[s] : w < replaced[s]

\* A pending version follows the one it replaces.
Follows(s) == pending[s] # 0 => pending[s] > replaced[s]

SafeInv ==
    /\ AliasNeverDangles
    /\ \A s \in Seeds : Behind(s) /\ Follows(s)

LEMMA SafeInit == Init => SafeInv
<1>. SUFFICES ASSUME Init PROVE SafeInv
  OBVIOUS
<1>1. AliasNeverDangles
  BY DEF Init, FirstVersion, AliasNeverDangles
<1>. QED
  BY <1>1 DEF Init, SafeInv, Behind, Follows

\* Neither the alias nor the indices change, and no seed starts to prune.
LEMMA SafeQuiet ==
  ASSUME TypeOK, SafeInv, NEW s \in Seeds,
         aliased' = aliased, DOMAIN index \subseteq DOMAIN index',
         \A t \in Seeds : pc'[t] \in {"list", "prune"} => pc'[t] = pc[t],
         UNCHANGED <<pending, replaced, stale>>
  PROVE  SafeInv'
BY DEF SafeInv, AliasNeverDangles, Behind, Follows

LEMMA SafeEnsureIndex ==
  ASSUME TypeOK, SafeInv, NEW s \in Seeds, EnsureIndex(s)
  PROVE  SafeInv'
<1>. USE DEF cluster, bulk, GoTo
<1>1. CASE ReadLiveIndex(s)
  BY <1>1, SafeQuiet DEF ReadLiveIndex, TypeOK
<1>2. CASE CreateInitialIndex(s)
  <2>1. CASE 1 \notin DOMAIN index
    <3>1. DOMAIN index' = DOMAIN index \cup {1} /\ aliased' = aliased \cup {1}
      BY <1>2, <2>1 DEF CreateInitialIndex, Created
    <3>2. pc' = [pc EXCEPT ![s] = "load"] /\ UNCHANGED <<pending, replaced, stale>>
      BY <1>2, <2>1 DEF CreateInitialIndex
    <3>. QED
      BY <3>1, <3>2 DEF SafeInv, AliasNeverDangles, Behind, Follows, TypeOK
  <2>2. CASE 1 \in DOMAIN index
    BY <1>2, <2>2, SafeQuiet DEF CreateInitialIndex, TypeOK
  <2>. QED
    BY <2>1, <2>2
<1>3. CASE CheckAlias(s)
  BY <1>3, SafeQuiet DEF CheckAlias, TypeOK
<1>4. CASE RepairAlias(s)
  BY <1>4 DEF RepairAlias, SafeInv, AliasNeverDangles, Behind, Follows, TypeOK
<1>5. CASE CreatePendingIndex(s)
  <2>1. CASE served[s] + 1 \notin DOMAIN index
    <3>1. DOMAIN index \subseteq DOMAIN index' /\ aliased' = aliased
      BY <1>5, <2>1 DEF CreatePendingIndex, Created
    <3>2. /\ pc' = [pc EXCEPT ![s] = "load"]
          /\ pending' = [pending EXCEPT ![s] = served[s] + 1]
          /\ replaced' = [replaced EXCEPT ![s] = served[s]]
          /\ stale' = stale
      BY <1>5, <2>1 DEF CreatePendingIndex
    <3>. QED
      BY <3>1, <3>2 DEF SafeInv, AliasNeverDangles, Behind, Follows, TypeOK
  <2>2. CASE served[s] + 1 \in DOMAIN index
    BY <1>5, <2>2, SafeQuiet DEF CreatePendingIndex, TypeOK
  <2>. QED
    BY <2>1, <2>2
<1>. QED
  BY <1>1, <1>2, <1>3, <1>4, <1>5 DEF EnsureIndex

\* Loading never removes an index and never touches the alias.
LEMMA LoadKeeps ==
  ASSUME TypeOK, NEW s \in Seeds, Load(s)
  PROVE  /\ aliased' = aliased
         /\ DOMAIN index \subseteq DOMAIN index'
         /\ UNCHANGED <<code, served, pending, replaced, stale, report>>
         /\ \A t \in Seeds : pc'[t] = pc[t] \/ t = s
         /\ pc'[s] \in {"bulk", "refresh", "publish", "done", "thrown"} \/ pc'[s] = pc[s]
<1>. USE DEF adapter, GoTo, cluster, bulk
<1>1. CASE BulkIndex(s)
  BY <1>1 DEF BulkIndex, Created, TypeOK
<1>2. ASSUME NEW p \in Products, IndexDocument(s, p)
      PROVE  aliased' = aliased /\ DOMAIN index \subseteq DOMAIN index'
  BY <1>2 DEF IndexDocument, TypeOK
<1>3. ASSUME NEW p \in Products, IndexDocument(s, p)
      PROVE  UNCHANGED <<pc, code, served, pending, replaced, stale, report>>
  BY <1>3 DEF IndexDocument
<1>4. CASE BulkAnswered(s)
  BY <1>4 DEF BulkAnswered, TypeOK
<1>5. CASE Refresh(s)
  BY <1>5 DEF Refresh, TypeOK
<1>. QED
  BY <1>1, <1>2, <1>3, <1>4, <1>5 DEF Load

LEMMA SafeLoad ==
  ASSUME TypeOK, SafeInv, NEW s \in Seeds, Load(s)
  PROVE  SafeInv'
BY LoadKeeps, SafeQuiet

LEMMA SafePublish ==
  ASSUME TypeOK, SafeInv, NEW s \in Seeds, Publish(s)
  PROVE  SafeInv'
<1>. USE DEF adapter, bulk, cluster, GoTo
<1>1. CASE PublishIndex(s)
  <2>. DEFINE Flips == pending[s] # 0 /\ {pending[s], replaced[s]} \subseteq DOMAIN index
  <2>1. CASE ~Flips
    BY <1>1, <2>1, SafeQuiet DEF PublishIndex, TypeOK
  <2>2. CASE Flips
    <3>1. /\ pending[s] # 0
          /\ pending[s] \in DOMAIN index
          /\ aliased' = (aliased \ {replaced[s]}) \cup {pending[s]}
          /\ pc' = [pc EXCEPT ![s] = "list"]
          /\ UNCHANGED <<index, pending, replaced, stale>>
      BY <1>1, <2>2 DEF PublishIndex
    <3>2. ASSUME NEW t \in Seeds PROVE Behind(t)' /\ Follows(t)'
      <4>1. CASE t = s
        BY <3>1, <4>1 DEF SafeInv, Behind, Follows, TypeOK
      <4>2. CASE t # s
        BY <3>1, <4>2 DEF SafeInv, Behind, Follows, TypeOK, Version
      <4>. QED
        BY <4>1, <4>2
    <3>3. AliasNeverDangles'
      BY <3>1 DEF SafeInv, AliasNeverDangles
    <3>. QED
      BY <3>2, <3>3 DEF SafeInv
  <2>. QED
    BY <2>1, <2>2
<1>2. CASE ListStale(s)
  BY <1>2 DEF ListStale, SafeInv, AliasNeverDangles, Behind, Follows, TypeOK
<1>3. ASSUME NEW v \in stale[s], DeleteStale(s, v)
      PROVE  SafeInv'
  <2>1. CASE v \notin DOMAIN index
    BY <1>3, <2>1, SafeQuiet DEF DeleteStale, TypeOK
  <2>2. CASE v \in DOMAIN index
    <3>1. /\ DOMAIN index' = DOMAIN index \ {v}
          /\ aliased' = aliased \ {v}
          /\ stale' = [stale EXCEPT ![s] = @ \ {v}]
          /\ UNCHANGED <<pc, pending, replaced>>
      BY <1>3, <2>2 DEF DeleteStale, Restrict
    <3>2. PICK x \in aliased : v < replaced[s] /\ replaced[s] < x
      BY <1>3 DEF DeleteStale, SafeInv, Behind
    <3>3. x \in aliased' /\ v < x
      BY <3>1, <3>2 DEF TypeOK, Version
    <3>4. ASSUME NEW t \in Seeds PROVE Behind(t)' /\ Follows(t)'
      BY <3>1, <3>3 DEF SafeInv, Behind, Follows, TypeOK, Version
    <3>5. AliasNeverDangles'
      BY <3>1 DEF SafeInv, AliasNeverDangles
    <3>. QED
      BY <3>4, <3>5 DEF SafeInv
  <2>. QED
    BY <2>1, <2>2
<1>4. CASE Published(s)
  BY <1>4 DEF Published, SafeInv, AliasNeverDangles, Behind, Follows, TypeOK
<1>. QED
  BY <1>1, <1>2, <1>3, <1>4 DEF Publish

LEMMA SafeNext == TypeOK /\ SafeInv /\ [Next]_vars => SafeInv'
<1>. SUFFICES ASSUME TypeOK, SafeInv, [Next]_vars PROVE SafeInv'
  OBVIOUS
<1>1. ASSUME NEW s \in Seeds, Execute(s) PROVE SafeInv'
  BY <1>1, SafeEnsureIndex, SafeLoad, SafePublish DEF Execute
<1>2. ASSUME NEW s \in Seeds, Crash(s) PROVE SafeInv'
  BY <1>2, SafeQuiet DEF Crash, TypeOK, GoTo, cluster, adapter, bulk
<1>3. CASE UNCHANGED vars
  BY <1>3 DEF vars, SafeInv, AliasNeverDangles, Behind, Follows
<1>. QED
  BY <1>1, <1>2, <1>3 DEF Next, AllEnded

\* A step takes no served version away without serving a newer one.
LEMMA RegressNext ==
  ASSUME TypeOK, SafeInv, [Next]_vars, NEW v \in aliased
  PROVE  \E w \in aliased' : w >= v
<1>. USE DEF GoTo, TypeOK, Version
<1>1. CASE v \in aliased'
  BY <1>1
<1>2. ASSUME NEW s \in Seeds, PublishIndex(s), v \notin aliased'
      PROVE  \E w \in aliased' : w >= v
  <2>1. /\ pending[s] # 0
        /\ aliased' = (aliased \ {replaced[s]}) \cup {pending[s]}
    BY <1>2 DEF PublishIndex
  <2>. QED
    BY <1>2, <2>1 DEF SafeInv, Follows
<1>3. ASSUME NEW s \in Seeds, NEW u \in stale[s], DeleteStale(s, u), v \notin aliased'
      PROVE  \E w \in aliased' : w >= v
  <2>1. aliased' = aliased \ {u} /\ v = u
    BY <1>3 DEF DeleteStale, cluster
  <2>2. PICK x \in aliased : u < replaced[s] /\ replaced[s] < x
    BY <1>3 DEF DeleteStale, SafeInv, Behind
  <2>. QED
    BY <2>1, <2>2
<1>4. ASSUME NEW s \in Seeds, EnsureIndex(s) PROVE v \in aliased'
  BY <1>4 DEF EnsureIndex, ReadLiveIndex, CreateInitialIndex, CheckAlias, RepairAlias,
              CreatePendingIndex, cluster
<1>5. ASSUME NEW s \in Seeds, Load(s) PROVE v \in aliased'
  BY <1>5, LoadKeeps
<1>6. ASSUME NEW s \in Seeds, ListStale(s) \/ Published(s) \/ Crash(s) PROVE v \in aliased'
  BY <1>6 DEF ListStale, Published, Crash, cluster
<1>7. CASE UNCHANGED vars
  BY <1>7 DEF vars
<1>. QED
  BY <1>1, <1>2, <1>3, <1>4, <1>5, <1>6, <1>7 DEF Next, Execute, Publish, AllEnded

\* However many seeds race, readers of the alias never lose the catalogue.
THEOREM NoRegression == Spec => CatalogueNeverRegresses
<1>1. TypeOK /\ SafeInv /\ SafeInv' /\ [Next]_vars
        => [\A v \in aliased : \E w \in aliased' \cap DOMAIN index' : w >= v]_vars
  BY RegressNext DEF SafeInv, AliasNeverDangles
<1>. QED
  BY <1>1, SafeInit, SafeNext, TypeCorrect, PTL DEF Spec, CatalogueNeverRegresses

-----------------------------------------------------------------------------
(* Refusals.                                                               *)

\* Something at least as new as version v is served, or a seed holds version v.
Explained(v) == (\E w \in aliased : w >= v) \/ (\E t \in Seeds : pending[t] = v)

\* A seed that is refused because the version it wants exists has been superseded, or
\* the seed that created that version holds it, at work or dead.
RefusalsExplained == \A s \in Seeds : pc[s] = "refused" => Explained(served[s] + 1)

\* Before it creates a version a seed holds none, and it creates one after a served one;
\* what a pruning seed holds is served.
Holds(s) ==
    /\ pc[s] = "createPending" => served[s] > 0
    /\ pc[s] \in {"read", "createInitial", "checkAlias", "repairAlias", "createPending"}
           => pending[s] = 0
    /\ pc[s] \in {"list", "prune"} => \E w \in aliased : w >= pending[s]

ExplainInv ==
    /\ \A v \in DOMAIN index : v # 1 => Explained(v)
    /\ \A s \in Seeds : Holds(s)
    /\ RefusalsExplained

LEMMA ExplainInit == Init => ExplainInv
<1>. SUFFICES ASSUME Init PROVE ExplainInv
  OBVIOUS
<1>1. DOMAIN index \subseteq {1}
  BY DEF Init, FirstVersion
<1>. QED
  BY <1>1 DEF Init, ExplainInv, Holds, RefusalsExplained

\* A held version is given up only when something at least as new is served.
LEMMA PendingKept ==
  ASSUME TypeOK, ExplainInv, [Next]_vars, NEW t \in Seeds, pending[t] \in Version
  PROVE  pending'[t] = pending[t] \/ \E w \in aliased : w >= pending[t]
<1>. USE DEF TypeOK, cluster, adapter, bulk
<1>1. ASSUME NEW s \in Seeds, EnsureIndex(s) PROVE pending'[t] = pending[t]
  <2>1. CASE CreatePendingIndex(s)
    <3>1. pending[s] = 0
      BY <2>1 DEF CreatePendingIndex, ExplainInv, Holds
    <3>. QED
      BY <2>1, <3>1 DEF CreatePendingIndex, Version
  <2>2. CASE ~CreatePendingIndex(s)
    BY <1>1, <2>2 DEF EnsureIndex, ReadLiveIndex, CreateInitialIndex, CheckAlias, RepairAlias
  <2>. QED
    BY <2>1, <2>2
<1>2. ASSUME NEW s \in Seeds, Load(s) PROVE pending'[t] = pending[t]
  BY <1>2, LoadKeeps
<1>3. ASSUME NEW s \in Seeds, Published(s)
      PROVE  pending'[t] = pending[t] \/ \E w \in aliased : w >= pending[t]
  BY <1>3 DEF Published, ExplainInv, Holds
<1>4. ASSUME NEW s \in Seeds, Publish(s), ~Published(s) PROVE pending'[t] = pending[t]
  BY <1>4 DEF Publish, PublishIndex, ListStale, DeleteStale
<1>5. ASSUME NEW s \in Seeds, Crash(s) PROVE pending'[t] = pending[t]
  BY <1>5 DEF Crash
<1>. QED
  BY <1>1, <1>2, <1>3, <1>4, <1>5 DEF Next, Execute, AllEnded, vars

\* What explains a version goes on explaining it.
LEMMA ExplainedStays ==
  ASSUME TypeOK, TypeOK', SafeInv, ExplainInv, [Next]_vars, NEW v \in Version, Explained(v)
  PROVE  Explained(v)'
<1>1. ASSUME NEW w \in aliased, w >= v PROVE Explained(v)'
  <2>1. PICK x \in aliased' : x >= w
    BY <1>1, RegressNext
  <2>2. x >= v
    BY <1>1, <2>1 DEF TypeOK, Version
  <2>. QED
    BY <2>1, <2>2 DEF Explained
<1>2. ASSUME NEW t \in Seeds, pending[t] = v PROVE Explained(v)'
  BY <1>1, <1>2, PendingKept DEF Explained
<1>. QED
  BY <1>1, <1>2 DEF Explained

\* A version that a step creates is the first, or the seed that creates it holds it.
LEMMA CreatedExplained ==
  ASSUME TypeOK, [Next]_vars, NEW v \in DOMAIN index', v \notin DOMAIN index, v # 1
  PROVE  Explained(v)'
<1>. USE DEF TypeOK, cluster, adapter, bulk, Explained
<1>1. ASSUME NEW s \in Seeds, CreatePendingIndex(s) PROVE Explained(v)'
  BY <1>1 DEF CreatePendingIndex, Created
<1>2. ASSUME NEW s \in Seeds, EnsureIndex(s), ~CreatePendingIndex(s) PROVE FALSE
  BY <1>2 DEF EnsureIndex, ReadLiveIndex, CreateInitialIndex, CheckAlias, RepairAlias, Created
<1>3. ASSUME NEW s \in Seeds, BulkIndex(s) PROVE Explained(v)'
  BY <1>3 DEF BulkIndex, Created
<1>4. ASSUME NEW s \in Seeds, Load(s), ~BulkIndex(s) PROVE FALSE
  BY <1>4 DEF Load, IndexDocument, BulkAnswered, Refresh
<1>5. ASSUME NEW s \in Seeds, Publish(s) \/ Crash(s) PROVE FALSE
  <2>1. ASSUME NEW u \in stale[s], DeleteStale(s, u) PROVE DOMAIN index' \subseteq DOMAIN index
    BY <2>1 DEF DeleteStale, Restrict
  <2>2. DOMAIN index' \subseteq DOMAIN index
    BY <1>5, <2>1 DEF Publish, PublishIndex, ListStale, Published, Crash
  <2>. QED
    BY <2>2
<1>. QED
  BY <1>1, <1>2, <1>3, <1>4, <1>5 DEF Next, Execute, AllEnded, vars

\* A seed that is refused finds the version it wants; a refused seed does nothing more.
LEMMA RefusedSteps ==
  ASSUME TypeOK, [Next]_vars, NEW s \in Seeds, pc'[s] = "refused"
  PROVE  /\ served'[s] = served[s]
         /\ pc[s] = "refused" \/ (served[s] + 1 \in DOMAIN index /\ pc[s] = "createPending")
<1>. USE DEF TypeOK, GoTo, cluster, adapter, bulk
<1>1. ASSUME NEW t \in Seeds, EnsureIndex(t)
      PROVE  /\ served'[s] = served[s]
             /\ pc[s] = "refused" \/ (served[s] + 1 \in DOMAIN index /\ pc[s] = "createPending")
  <2>1. CASE t = s
    BY <1>1, <2>1 DEF EnsureIndex, ReadLiveIndex, CreateInitialIndex, CheckAlias, RepairAlias,
                      CreatePendingIndex
  <2>2. CASE t # s
    BY <1>1, <2>2 DEF EnsureIndex, ReadLiveIndex, CreateInitialIndex, CheckAlias, RepairAlias,
                      CreatePendingIndex
  <2>. QED
    BY <2>1, <2>2
<1>2. ASSUME NEW t \in Seeds, Load(t)
      PROVE  served'[s] = served[s] /\ pc[s] = "refused"
  BY <1>2, LoadKeeps
<1>3. ASSUME NEW t \in Seeds, Publish(t) \/ Crash(t)
      PROVE  served'[s] = served[s] /\ pc[s] = "refused"
  BY <1>3 DEF Publish, PublishIndex, ListStale, DeleteStale, Published, Crash
<1>4. CASE UNCHANGED vars
  BY <1>4 DEF vars
<1>. QED
  BY <1>1, <1>2, <1>3, <1>4 DEF Next, Execute, AllEnded

LEMMA HoldsNext ==
  ASSUME TypeOK, TypeOK', SafeInv, ExplainInv, [Next]_vars, NEW s \in Seeds
  PROVE  Holds(s)'
<1>. USE DEF TypeOK, GoTo, cluster, adapter, bulk
<1>1. ASSUME pc'[s] = pc[s], pending'[s] = pending[s],
             pc'[s] = "createPending" => served'[s] = served[s]
      PROVE  Holds(s)'
  <2>1. ASSUME NEW w \in aliased, w >= pending[s] PROVE \E x \in aliased' : x >= pending[s]
    <3>1. PICK x \in aliased' : x >= w
      BY RegressNext
    <3>. QED
      BY <2>1, <3>1 DEF Version
  <2>. QED
    BY <1>1, <2>1 DEF ExplainInv, Holds
<1>2. ASSUME NEW t \in Seeds, EnsureIndex(t) PROVE Holds(s)'
  <2>1. CASE t = s
    BY <1>2, <2>1 DEF EnsureIndex, ReadLiveIndex, CreateInitialIndex, CheckAlias, RepairAlias,
                      CreatePendingIndex, ExplainInv, Holds, Version
  <2>2. CASE t # s
    BY <1>1, <1>2, <2>2 DEF EnsureIndex, ReadLiveIndex, CreateInitialIndex, CheckAlias,
                            RepairAlias, CreatePendingIndex
  <2>. QED
    BY <2>1, <2>2
<1>3. ASSUME NEW t \in Seeds, Load(t) PROVE Holds(s)'
  BY <1>1, <1>3, LoadKeeps DEF Holds
<1>4. ASSUME NEW t \in Seeds, PublishIndex(t) PROVE Holds(s)'
  <2>1. CASE pc'[s] = "list" /\ t = s /\ pc[s] # "list"
    <3>1. pending[s] \in aliased' /\ pending' = pending
      BY <1>4, <2>1 DEF PublishIndex
    <3>2. pending[s] >= pending[s]
      OBVIOUS
    <3>. QED
      BY <2>1, <3>1, <3>2 DEF Holds
  <2>2. CASE ~(pc'[s] = "list" /\ t = s /\ pc[s] # "list")
    BY <1>1, <1>4, <2>2 DEF PublishIndex, Holds
  <2>. QED
    BY <2>1, <2>2
<1>5. ASSUME NEW t \in Seeds, ListStale(t) PROVE Holds(s)'
  BY <1>5 DEF ListStale, ExplainInv, Holds
<1>6. ASSUME NEW t \in Seeds, NEW v \in stale[t], DeleteStale(t, v) PROVE Holds(s)'
  BY <1>1, <1>6 DEF DeleteStale, Holds
<1>7. ASSUME NEW t \in Seeds, Published(t) \/ Crash(t) PROVE Holds(s)'
  BY <1>1, <1>7 DEF Published, Crash, Holds
<1>8. CASE UNCHANGED vars
  BY <1>1, <1>8 DEF vars
<1>. QED
  BY <1>2, <1>3, <1>4, <1>5, <1>6, <1>7, <1>8 DEF Next, Execute, Publish, AllEnded

LEMMA ExplainNext == TypeOK /\ SafeInv /\ ExplainInv /\ [Next]_vars => ExplainInv'
<1>. SUFFICES ASSUME TypeOK, SafeInv, ExplainInv, [Next]_vars PROVE ExplainInv'
  OBVIOUS
<1>1. TypeOK'
  BY NextType
<1>2. ASSUME NEW v \in DOMAIN index', v # 1 PROVE Explained(v)'
  <2>1. CASE v \in DOMAIN index
    BY <1>1, <1>2, <2>1, ExplainedStays DEF ExplainInv, TypeOK
  <2>2. CASE v \notin DOMAIN index
    BY <1>2, <2>2, CreatedExplained
  <2>. QED
    BY <2>1, <2>2
<1>3. ASSUME NEW s \in Seeds, pc'[s] = "refused" PROVE Explained(served[s] + 1)'
  <2>1. served'[s] = served[s] /\ served[s] + 1 \in Version
    BY <1>3, RefusedSteps DEF TypeOK, Version
  <2>2. Explained(served[s] + 1)
    <3>1. CASE pc[s] = "refused"
      BY <3>1 DEF ExplainInv, RefusalsExplained
    <3>2. CASE served[s] + 1 \in DOMAIN index /\ served[s] + 1 # 1
      BY <3>2 DEF ExplainInv
    <3>3. CASE pc[s] = "createPending" /\ served[s] + 1 = 1
      BY <3>3 DEF ExplainInv, Holds, TypeOK
    <3>. QED
      BY <1>3, <3>1, <3>2, <3>3, RefusedSteps
  <2>3. PICK v \in Version : v = served[s] + 1
    BY <2>1
  <2>4. Explained(v)'
    BY <1>1, <2>2, <2>3, ExplainedStays
  <2>. QED
    BY <2>1, <2>3, <2>4 DEF Explained
<1>. QED
  BY <1>1, <1>2, <1>3, HoldsNext DEF ExplainInv, RefusalsExplained

\* Without any timing assumption, whoever is refused because "another migration is
\* already in flight" has been superseded, or its version is held by the seed that
\* created it (createPendingIndex).
THEOREM NobodyRefusedForNothing == Spec => []RefusalsExplained
<1>1. ExplainInv => RefusalsExplained
  BY DEF ExplainInv
<1>. QED
  BY <1>1, ExplainInit, ExplainNext, SafeInit, SafeNext, TypeCorrect, PTL DEF Spec

-----------------------------------------------------------------------------
(***************************************************************************)
(* Prompt clusters: one index is served at a time, one seed at a time      *)
(* loads the next, and readers see the served catalogue.                   *)
(***************************************************************************)

-----------------------------------------------------------------------------
(* The versions.                                                           *)

Provisioning == {"read", "createInitial", "checkAlias", "repairAlias"}

\* Before the alias exists, no seed is past provisioning.
Unprovisioned ==
    aliased = {} =>
        /\ DOMAIN index \subseteq {1}
        /\ \A s \in Seeds : pc[s] \in Provisioning \cup {"crashed", "thrown"}

\* Nothing exists beyond the version after the served one.
Newest == \A v \in aliased, w \in DOMAIN index : w <= v + 1

\* What a provisioning seed read still holds well enough for its next request.
Entering(s) ==
    /\ pc[s] \in Provisioning => pending[s] = 0
    /\ pc[s] = "createInitial" /\ aliased # {} => 1 \in DOMAIN index
    /\ pc[s] = "repairAlias" => aliased \subseteq {1}

\* A seed about to create a version read the served one, or will be refused.
Claiming(s) ==
    pc[s] = "createPending" =>
        \A v \in aliased : served[s] = v \/ (served[s] < v /\ served[s] + 1 \in DOMAIN index)

\* A loading seed holds the version after the served one.
Holding(s) ==
    Loading(s) =>
        /\ aliased = {replaced[s]}
        /\ pending[s] = replaced[s] + 1
        /\ pending[s] \in DOMAIN index

\* A pruning seed deletes only what is two versions behind the served one.
Pruning(s) ==
    /\ pc[s] \in {"list", "prune"} =>
          pending[s] = replaced[s] + 1 /\ \A v \in aliased : pending[s] <= v
    /\ pc[s] = "prune" => \A w \in stale[s] : w < replaced[s]

VersionInv ==
    /\ AliasNeverDangles
    /\ AliasUnambiguous
    /\ RetainedForRollback
    /\ Unprovisioned
    /\ Newest
    /\ \A s \in Seeds : Entering(s) /\ Claiming(s) /\ Holding(s) /\ Pruning(s)
    /\ \A s, t \in Seeds : Loading(s) /\ Loading(t) => s = t

LEMMA VersionInit == Init => VersionInv
<1>. SUFFICES ASSUME Init PROVE VersionInv
  OBVIOUS
<1>1. DOMAIN index \subseteq {1} /\ (aliased = {} \/ (aliased = {1} /\ 1 \in DOMAIN index))
  BY DEF Init, FirstVersion
<1>2. \A s \in Seeds : pc[s] = "read" /\ pending[s] = 0
  BY DEF Init
<1>. QED
  BY <1>1, <1>2 DEF VersionInv, AliasNeverDangles, AliasUnambiguous, RetainedForRollback,
     Unprovisioned, Newest, Entering, Claiming, Holding, Pruning, Loading, Provisioning

\* A step of one seed that changes neither the alias nor the versions, and does not
\* bring it to a request whose reading has to be checked.
LEMMA VersionQuiet ==
  ASSUME TypeOK, VersionInv, NEW s \in Seeds,
         aliased' = aliased, DOMAIN index' = DOMAIN index,
         \A t \in Seeds \ {s} : pc'[t] = pc[t],
         \/ pc'[s] \in {pc[s]} \cup Ended
         \/ aliased # {} /\ pc'[s] \in {"load", "bulk", "refresh", "publish"},
         Loading(s)' => Loading(s),
         UNCHANGED <<pending, replaced, stale, served>>,
         aliased = {} => pc'[s] \in Provisioning \cup {"crashed", "thrown"}
  PROVE  VersionInv'
<1>1. Unprovisioned'
  BY DEF VersionInv, Unprovisioned
<1>2. ASSUME NEW t \in Seeds PROVE Entering(t)' /\ Claiming(t)' /\ Pruning(t)'
  BY DEF VersionInv, Entering, Claiming, Pruning, Provisioning, Ended
<1>3. ASSUME NEW t \in Seeds PROVE Loading(t)' => Loading(t)
  BY DEF Loading
<1>. QED
  BY <1>1, <1>2, <1>3 DEF VersionInv, AliasNeverDangles, AliasUnambiguous, RetainedForRollback,
     Newest, Holding

LEMMA VersionEnsureIndex ==
  ASSUME TypeOK, VersionInv, Prompt, NEW s \in Seeds, EnsureIndex(s)
  PROVE  VersionInv'
<1>. USE DEF cluster, bulk, GoTo
<1>1. CASE ReadLiveIndex(s)
  <2>1. /\ aliased' = aliased /\ index' = index
        /\ UNCHANGED <<pending, replaced, stale>>
        /\ \A t \in Seeds \ {s} : pc'[t] = pc[t] /\ served'[t] = served[t]
        /\ \/ pc'[s] = "createInitial" /\ aliased = {}
           \/ aliased # {} /\ pc'[s] \in {"ambiguous", "load"}
           \/ aliased = {served'[s]} /\ pc'[s] = "createPending"
        /\ pc[s] = "read"
    BY <1>1 DEF ReadLiveIndex, TypeOK
  <2>2. pending[s] = 0
    BY <2>1 DEF VersionInv, Entering, Provisioning
  <2>. HIDE <1>1
  <2>3. Unprovisioned'
    BY <2>1 DEF VersionInv, Unprovisioned, Provisioning
  <2>4. ASSUME NEW t \in Seeds PROVE Entering(t)' /\ Claiming(t)' /\ Pruning(t)'
    BY <2>1, <2>2 DEF VersionInv, Entering, Claiming, Pruning, Provisioning
  <2>5. ASSUME NEW t \in Seeds PROVE Loading(t)' => Loading(t)
    BY <2>1, <2>2 DEF Loading
  <2>. QED
    BY <2>1, <2>3, <2>4, <2>5 DEF VersionInv, AliasNeverDangles, AliasUnambiguous,
       RetainedForRollback, Newest, Holding
<1>2. CASE CreateInitialIndex(s)
  <2>1. CASE 1 \notin DOMAIN index
    <3>1. aliased = {} /\ DOMAIN index = {}
      BY <1>2, <2>1 DEF CreateInitialIndex, VersionInv, Entering, Unprovisioned
    <3>2. /\ DOMAIN index' = {1} /\ aliased' = {1}
          /\ pc' = [pc EXCEPT ![s] = "load"]
          /\ UNCHANGED <<pending, replaced, stale>>
      BY <1>2, <2>1, <3>1 DEF CreateInitialIndex, Created
    <3>3. \A t \in Seeds : pc[t] \in Provisioning \cup {"crashed", "thrown"}
      BY <3>1 DEF VersionInv, Unprovisioned
    <3>4. pending[s] = 0
      BY <1>2 DEF CreateInitialIndex, VersionInv, Entering, Provisioning
    <3>. HIDE <1>2
    <3>5. ASSUME NEW t \in Seeds PROVE Entering(t)' /\ Claiming(t)' /\ Pruning(t)'
      BY <3>2, <3>3 DEF VersionInv, Entering, Claiming, Pruning, Provisioning, TypeOK
    <3>6. ASSUME NEW t \in Seeds PROVE ~Loading(t)'
      BY <3>2, <3>3, <3>4 DEF Loading, Provisioning, TypeOK
    <3>. QED
      BY <3>2, <3>5, <3>6 DEF VersionInv, AliasNeverDangles, AliasUnambiguous,
         RetainedForRollback, Newest, Holding, Unprovisioned
  <2>2. CASE 1 \in DOMAIN index
    <3>1. /\ aliased' = aliased /\ index' = index
          /\ UNCHANGED <<pending, replaced, stale, served>>
          /\ pc' = [pc EXCEPT ![s] = "checkAlias"] /\ pc[s] = "createInitial"
      BY <1>2, <2>2 DEF CreateInitialIndex
    <3>. HIDE <1>2
    <3>2. ASSUME NEW t \in Seeds PROVE Entering(t)' /\ Claiming(t)' /\ Pruning(t)'
      BY <3>1 DEF VersionInv, Entering, Claiming, Pruning, Provisioning, TypeOK
    <3>3. ASSUME NEW t \in Seeds PROVE Loading(t)' => Loading(t)
      BY <3>1 DEF Loading, TypeOK
    <3>. QED
      BY <3>1, <3>2, <3>3 DEF VersionInv, AliasNeverDangles, AliasUnambiguous,
         RetainedForRollback, Newest, Holding, Unprovisioned, Provisioning, TypeOK
  <2>. QED
    BY <2>1, <2>2
<1>3. CASE CheckAlias(s)
  <2>1. /\ aliased' = aliased /\ index' = index
        /\ UNCHANGED <<pending, replaced, stale>>
        /\ \A t \in Seeds \ {s} : pc'[t] = pc[t] /\ served'[t] = served[t]
        /\ IF aliased = {} THEN pc'[s] = "repairAlias" ELSE pc'[s] = "load"
        /\ pc[s] = "checkAlias"
    BY <1>3 DEF CheckAlias, TypeOK
  <2>2. pending[s] = 0
    BY <2>1 DEF VersionInv, Entering, Provisioning
  <2>. HIDE <1>3
  <2>3. Unprovisioned'
    BY <2>1 DEF VersionInv, Unprovisioned, Provisioning
  <2>4. ASSUME NEW t \in Seeds PROVE Entering(t)' /\ Claiming(t)' /\ Pruning(t)'
    BY <2>1, <2>2 DEF VersionInv, Entering, Claiming, Pruning, Provisioning
  <2>5. ASSUME NEW t \in Seeds PROVE Loading(t)' => Loading(t)
    BY <2>1, <2>2 DEF Loading
  <2>. QED
    BY <2>1, <2>3, <2>4, <2>5 DEF VersionInv, AliasNeverDangles, AliasUnambiguous,
       RetainedForRollback, Newest, Holding
<1>4. CASE RepairAlias(s)
  <2>1. /\ index' = index /\ UNCHANGED <<pending, replaced, stale>>
        /\ \A t \in Seeds \ {s} : pc'[t] = pc[t] /\ served'[t] = served[t]
        /\ pc[s] = "repairAlias"
        /\ IF 1 \in DOMAIN index THEN pc'[s] = "load" /\ aliased' = aliased \cup {1}
                                 ELSE pc'[s] = "thrown" /\ aliased' = aliased
    BY <1>4 DEF RepairAlias, TypeOK
  <2>2. pending[s] = 0 /\ aliased \subseteq {1}
    BY <2>1 DEF VersionInv, Entering, Provisioning
  <2>. HIDE <1>4
  <2>3. aliased' = aliased \/ (aliased = {} /\ aliased' = {1} /\ DOMAIN index = {1})
    <3>1. CASE aliased = {}
      BY <2>1, <3>1 DEF VersionInv, Unprovisioned
    <3>2. CASE aliased = {1}
      BY <2>1, <3>2
    <3>. QED
      BY <2>2, <3>1, <3>2
  <2>4. Unprovisioned'
    BY <2>1, <2>2, <2>3 DEF VersionInv, Unprovisioned, Provisioning, AliasNeverDangles
  <2>5. ASSUME NEW t \in Seeds PROVE Entering(t)' /\ Claiming(t)' /\ Pruning(t)'
    BY <2>1, <2>2, <2>3
       DEF VersionInv, Unprovisioned, Entering, Claiming, Pruning, Provisioning
  <2>6. ASSUME NEW t \in Seeds PROVE Loading(t)' => Loading(t) /\ aliased # {}
    BY <2>1, <2>2 DEF Loading, VersionInv, Unprovisioned, Provisioning
  <2>. QED
    BY <2>1, <2>3, <2>4, <2>5, <2>6 DEF VersionInv, AliasNeverDangles, AliasUnambiguous,
       RetainedForRollback, Newest, Holding
<1>5. CASE CreatePendingIndex(s)
  <2>1. CASE served[s] + 1 \notin DOMAIN index
    <3>1. PICK a \in aliased : aliased = {a}
      BY <1>5 DEF CreatePendingIndex, VersionInv, Unprovisioned, Provisioning, AliasUnambiguous
    <3>2. served[s] = a
      BY <1>5, <2>1, <3>1 DEF CreatePendingIndex, VersionInv, Claiming
    <3>3. /\ DOMAIN index' = DOMAIN index \cup {a + 1} /\ aliased' = {a}
          /\ pc' = [pc EXCEPT ![s] = "load"]
          /\ pending' = [pending EXCEPT ![s] = a + 1]
          /\ replaced' = [replaced EXCEPT ![s] = a]
          /\ UNCHANGED <<served, stale>>
      BY <1>5, <2>1, <3>1, <3>2 DEF CreatePendingIndex, Created
    <3>4. ASSUME NEW t \in Seeds PROVE ~Loading(t)
      BY <2>1, <3>1, <3>2 DEF VersionInv, Holding
    <3>. HIDE <1>5
    <3>5. ASSUME NEW t \in Seeds PROVE Entering(t)' /\ Claiming(t)' /\ Pruning(t)'
      BY <3>1, <3>3 DEF VersionInv, Entering, Claiming, Pruning, Provisioning, TypeOK
    <3>6. ASSUME NEW t \in Seeds PROVE Loading(t)' => t = s
      BY <3>3, <3>4 DEF Loading, TypeOK
    <3>7. Holding(s)'
      BY <3>3 DEF Holding, TypeOK
    <3>8. AliasNeverDangles' /\ AliasUnambiguous' /\ RetainedForRollback' /\ Unprovisioned'
      BY <3>1, <3>3 DEF VersionInv, AliasNeverDangles, AliasUnambiguous, RetainedForRollback,
                        Unprovisioned
    <3>9. Newest'
      BY <3>1, <3>3 DEF VersionInv, Newest, TypeOK, Version
    <3>. QED
      BY <3>5, <3>6, <3>7, <3>8, <3>9 DEF VersionInv, Holding
  <2>2. CASE served[s] + 1 \in DOMAIN index
    <3>1. /\ aliased' = aliased /\ index' = index
          /\ pc' = [pc EXCEPT ![s] = "refused"] /\ pc[s] = "createPending"
          /\ UNCHANGED <<pending, replaced, stale, served>>
      BY <1>5, <2>2 DEF CreatePendingIndex
    <3>2. aliased # {}
      BY <3>1 DEF VersionInv, Unprovisioned, Provisioning
    <3>. QED
      <4>1. pc'[s] \in Ended /\ ~Loading(s)' /\ \A t \in Seeds \ {s} : pc'[t] = pc[t]
        BY <3>1 DEF Loading, TypeOK, Ended
      <4>. QED
        BY <3>1, <3>2, <4>1, VersionQuiet
  <2>. QED
    BY <2>1, <2>2
<1>. QED
  BY <1>1, <1>2, <1>3, <1>4, <1>5 DEF EnsureIndex

\* The version a seed loads exists, so its bulk request creates none.
LEMMA BulkCreatesNone ==
  ASSUME TypeOK, VersionInv, NEW s \in Seeds, BulkIndex(s)
  PROVE  index' = index
<1>1. CASE pending[s] # 0
  <2>1. pending[s] \in DOMAIN index
    BY <1>1 DEF BulkIndex, VersionInv, Holding, Loading
  <2>2. Created(pending[s], Unrecorded) = index
    BY <2>1 DEF Created, TypeOK
  <2>. QED
    BY <1>1, <2>2 DEF BulkIndex
<1>2. CASE pending[s] = 0
  BY <1>2 DEF BulkIndex
<1>. QED
  BY <1>1, <1>2

LEMMA LoadKeepsVersions ==
  ASSUME TypeOK, VersionInv, NEW s \in Seeds, Load(s)
  PROVE  DOMAIN index' = DOMAIN index
<1>1. ASSUME NEW p \in Products, IndexDocument(s, p) PROVE DOMAIN index' = DOMAIN index
  BY <1>1 DEF IndexDocument, TypeOK
<1>2. CASE BulkAnswered(s) \/ Refresh(s)
  BY <1>2 DEF BulkAnswered, Refresh, cluster
<1>. QED
  BY <1>1, <1>2, BulkCreatesNone DEF Load

LEMMA VersionLoad ==
  ASSUME TypeOK, VersionInv, NEW s \in Seeds, Load(s)
  PROVE  VersionInv'
<1>1. /\ aliased' = aliased /\ DOMAIN index' = DOMAIN index
      /\ \A t \in Seeds \ {s} : pc'[t] = pc[t]
      /\ UNCHANGED <<pending, replaced, stale, served>>
  BY LoadKeeps, LoadKeepsVersions
<1>2. CASE pc'[s] = pc[s]
  <2>1. Loading(s)' => Loading(s)
    BY <1>1, <1>2 DEF Loading
  <2>2. aliased = {} => pc'[s] \in Provisioning \cup {"crashed", "thrown"}
    BY <1>2 DEF VersionInv, Unprovisioned
  <2>. QED
    BY <1>1, <1>2, <2>1, <2>2, VersionQuiet
<1>3. CASE /\ pc[s] \in {"load", "bulk", "refresh"}
           /\ pc'[s] \in {"bulk", "refresh", "publish", "done", "thrown"}
  <2>1. Loading(s)' => Loading(s)
    BY <1>1, <1>3 DEF Loading
  <2>2. aliased # {}
    BY <1>3 DEF VersionInv, Unprovisioned, Provisioning
  <2>3. \/ pc'[s] \in {pc[s]} \cup Ended
        \/ pc'[s] \in {"load", "bulk", "refresh", "publish"}
    BY <1>3 DEF Ended
  <2>. QED
    BY <1>1, <2>1, <2>2, <2>3, VersionQuiet
<1>4. (\E p \in Products : IndexDocument(s, p)) => pc' = pc
  BY DEF IndexDocument
<1>5. BulkIndex(s) \/ BulkAnswered(s) \/ Refresh(s) => pc[s] \in {"load", "bulk", "refresh"}
  BY DEF BulkIndex, BulkAnswered, Refresh
<1>. QED
  BY <1>2, <1>3, <1>4, <1>5, LoadKeeps DEF Load

LEMMA VersionPublish ==
  ASSUME TypeOK, VersionInv, Prompt, NEW s \in Seeds, Publish(s)
  PROVE  VersionInv'
<1>. USE DEF adapter, bulk, cluster, GoTo
<1>1. CASE PublishIndex(s)
  <2>1. CASE pending[s] = 0
    <3>1. /\ aliased' = aliased /\ index' = index
          /\ pc[s] = "publish" /\ pc' = [pc EXCEPT ![s] = "done"]
          /\ UNCHANGED <<pending, replaced, stale, served>>
      BY <1>1, <2>1 DEF PublishIndex
    <3>2. pc'[s] \in Ended /\ ~Loading(s)' /\ \A t \in Seeds \ {s} : pc'[t] = pc[t]
      BY <3>1 DEF Loading, TypeOK, Ended
    <3>3. aliased # {}
      BY <3>1 DEF VersionInv, Unprovisioned, Provisioning
    <3>. QED
      BY <3>1, <3>2, <3>3, VersionQuiet
  <2>2. CASE pending[s] # 0
    <3>1. /\ aliased = {replaced[s]}
          /\ pending[s] = replaced[s] + 1
          /\ {pending[s], replaced[s]} \subseteq DOMAIN index
          /\ \A t \in Seeds : Loading(t) => t = s
      BY <1>1, <2>2 DEF PublishIndex, Loading, VersionInv, Holding, AliasNeverDangles
    <3>2. /\ index' = index /\ aliased' = {pending[s]}
          /\ pc' = [pc EXCEPT ![s] = "list"]
          /\ UNCHANGED <<pending, replaced, stale, served>>
      BY <1>1, <2>2, <3>1 DEF PublishIndex
    <3>3. replaced[s] \in Nat
      BY DEF TypeOK
    <3>4. \A v \in DOMAIN index : v \in Nat /\ v <= pending[s]
      BY <3>1 DEF VersionInv, Newest, TypeOK, Version
    <3>5. ASSUME NEW t \in Seeds PROVE Entering(t)'
      BY <3>1, <3>2, <3>3 DEF VersionInv, Entering, Provisioning, TypeOK, Prompt
    <3>6. ASSUME NEW t \in Seeds PROVE Claiming(t)'
      BY <3>1, <3>2, <3>3 DEF VersionInv, Claiming, TypeOK
    <3>7. ASSUME NEW t \in Seeds PROVE Pruning(t)'
      BY <3>1, <3>2, <3>3 DEF VersionInv, Pruning, TypeOK
    <3>8. ASSUME NEW t \in Seeds PROVE ~Loading(t)'
      BY <3>1, <3>2 DEF Loading, TypeOK
    <3>9. AliasNeverDangles' /\ AliasUnambiguous' /\ RetainedForRollback' /\ Unprovisioned'
      BY <3>1, <3>2, <3>3 DEF AliasNeverDangles, AliasUnambiguous, RetainedForRollback,
                              Unprovisioned
    <3>10. Newest'
      BY <3>1, <3>2, <3>3, <3>4 DEF Newest
    <3>. QED
      BY <3>5, <3>6, <3>7, <3>8, <3>9, <3>10 DEF VersionInv, Holding
  <2>. QED
    BY <2>1, <2>2
<1>2. CASE ListStale(s)
  <2>1. /\ aliased' = aliased /\ index' = index
        /\ pc[s] = "list" /\ pc' = [pc EXCEPT ![s] = "prune"]
        /\ UNCHANGED <<pending, replaced, served>>
        /\ \A t \in Seeds \ {s} : stale'[t] = stale[t]
        /\ stale'[s] = {v \in DOMAIN index : v < replaced[s]}
    BY <1>2 DEF ListStale, TypeOK
  <2>. HIDE <1>2
  <2>2. ASSUME NEW t \in Seeds PROVE Entering(t)' /\ Claiming(t)' /\ Pruning(t)'
    BY <2>1 DEF VersionInv, Entering, Claiming, Pruning, Provisioning, TypeOK
  <2>3. ASSUME NEW t \in Seeds PROVE Loading(t)' => Loading(t)
    BY <2>1 DEF Loading, TypeOK
  <2>. QED
    BY <2>1, <2>2, <2>3 DEF VersionInv, AliasNeverDangles, AliasUnambiguous,
       RetainedForRollback, Newest, Holding, Unprovisioned, Provisioning, TypeOK
<1>3. ASSUME NEW v \in stale[s], DeleteStale(s, v)
      PROVE  VersionInv'
  <2>0. PICK a \in aliased : aliased = {a}
    BY <1>3 DEF DeleteStale, VersionInv, Unprovisioned, Provisioning, AliasUnambiguous
  <2>1. v \in Nat /\ a \in Nat /\ v + 1 < a
    BY <1>3, <2>0 DEF DeleteStale, VersionInv, Pruning, TypeOK, Version
  <2>2. CASE v \in DOMAIN index
    <3>1. /\ DOMAIN index' = DOMAIN index \ {v}
          /\ aliased' = aliased
          /\ stale' = [stale EXCEPT ![s] = @ \ {v}]
          /\ UNCHANGED <<pc, pending, replaced, served>>
      BY <1>3, <2>0, <2>1, <2>2 DEF DeleteStale, Restrict
    <3>2. ASSUME NEW t \in Seeds PROVE Entering(t)' /\ Claiming(t)' /\ Pruning(t)'
      BY <3>1 DEF VersionInv, Entering, Claiming, Pruning, Provisioning, TypeOK, Prompt, Wanted
    <3>3. ASSUME NEW t \in Seeds PROVE (Loading(t)' <=> Loading(t)) /\ Holding(t)'
      BY <2>0, <2>1, <3>1 DEF Loading, VersionInv, Holding
    <3>4. AliasNeverDangles' /\ AliasUnambiguous' /\ Unprovisioned' /\ Newest'
      BY <2>0, <2>1, <3>1 DEF VersionInv, AliasNeverDangles, AliasUnambiguous, Unprovisioned,
                              Newest
    <3>5. RetainedForRollback'
      BY <2>0, <2>1, <3>1 DEF VersionInv, RetainedForRollback
    <3>. QED
      BY <3>2, <3>3, <3>4, <3>5 DEF VersionInv
  <2>3. CASE v \notin DOMAIN index
    <3>1. /\ aliased' = aliased /\ index' = index
          /\ pc[s] = "prune" /\ pc' = [pc EXCEPT ![s] = "thrown"]
          /\ UNCHANGED <<pending, replaced, stale, served>>
      BY <1>3, <2>3 DEF DeleteStale
    <3>2. pc'[s] \in Ended /\ ~Loading(s)' /\ \A t \in Seeds \ {s} : pc'[t] = pc[t]
      BY <3>1 DEF Loading, TypeOK, Ended
    <3>. QED
      BY <2>0, <3>1, <3>2, VersionQuiet
  <2>. QED
    BY <2>2, <2>3
<1>4. CASE Published(s)
  <2>1. /\ aliased' = aliased /\ index' = index
        /\ pc[s] = "prune" /\ pc' = [pc EXCEPT ![s] = "done"]
        /\ pending' = [pending EXCEPT ![s] = 0]
        /\ UNCHANGED <<replaced, stale>>
        /\ \A t \in Seeds \ {s} : served'[t] = served[t]
    BY <1>4 DEF Published, TypeOK
  <2>. HIDE <1>4
  <2>2. ASSUME NEW t \in Seeds PROVE Entering(t)' /\ Claiming(t)' /\ Pruning(t)'
    BY <2>1 DEF VersionInv, Entering, Claiming, Pruning, Provisioning, TypeOK
  <2>3. ASSUME NEW t \in Seeds
        PROVE  Loading(t)' => Loading(t) /\ pending'[t] = pending[t]
    BY <2>1 DEF Loading, TypeOK
  <2>4. Unprovisioned'
    BY <2>1 DEF VersionInv, Unprovisioned, Provisioning
  <2>. QED
    BY <2>1, <2>2, <2>3, <2>4 DEF VersionInv, AliasNeverDangles, AliasUnambiguous,
       RetainedForRollback, Newest, Holding
<1>. QED
  BY <1>1, <1>2, <1>3, <1>4 DEF Publish

LEMMA VersionNext == TypeOK /\ VersionInv /\ [Next /\ Prompt]_vars => VersionInv'
<1>. SUFFICES ASSUME TypeOK, VersionInv, [Next /\ Prompt]_vars PROVE VersionInv'
  OBVIOUS
<1>1. ASSUME NEW s \in Seeds, Execute(s), Prompt PROVE VersionInv'
  BY <1>1, VersionEnsureIndex, VersionLoad, VersionPublish DEF Execute
<1>2. ASSUME NEW s \in Seeds, Crash(s) PROVE VersionInv'
  <2>1. /\ aliased' = aliased /\ index' = index
        /\ pc' = [pc EXCEPT ![s] = "crashed"]
        /\ UNCHANGED <<pending, replaced, stale, served>>
    BY <1>2 DEF Crash, GoTo, cluster, adapter
  <2>2. pc'[s] \in Ended /\ ~Loading(s)' /\ pc'[s] = "crashed"
        /\ \A t \in Seeds \ {s} : pc'[t] = pc[t]
    BY <2>1 DEF Loading, TypeOK, Ended
  <2>. QED
    BY <2>1, <2>2, VersionQuiet
<1>3. CASE UNCHANGED vars
  BY <1>3 DEF vars, VersionInv, AliasNeverDangles, AliasUnambiguous, RetainedForRollback,
     Unprovisioned, Newest, Entering, Claiming, Holding, Pruning, Loading
<1>. QED
  BY <1>1, <1>2, <1>3 DEF Next, AllEnded

LEMMA PromptType == PromptSpec => []TypeOK
BY InitType, NextType, PTL DEF PromptSpec

LEMMA PromptVersions == PromptSpec => []VersionInv
BY VersionInit, VersionNext, PromptType, PTL DEF PromptSpec

\* On a prompt cluster the alias never resolves to two indices.
THEOREM OneIndexServed == PromptSpec => []AliasUnambiguous
<1>1. VersionInv => AliasUnambiguous
  BY DEF VersionInv
<1>. QED
  BY <1>1, PromptVersions, PTL

\* Creating the next version excludes every other migration, and keeps the version
\* the loader read at its start the one that is served.
THEOREM CreationIsALock == PromptSpec => []OneMigration
<1>1. VersionInv => OneMigration
  BY DEF VersionInv, Holding, OneMigration
<1>. QED
  BY <1>1, PromptVersions, PTL

\* However many seeds prune, the previous version is there to roll back to.
THEOREM PreviousRetained == PromptSpec => []RetainedForRollback
<1>1. VersionInv => RetainedForRollback
  BY DEF VersionInv
<1>. QED
  BY <1>1, PromptVersions, PTL

\* A pruning seed has on its list whatever is older than the version it retains.
Listed(s) == pc[s] = "prune" => \A w \in DOMAIN index : w < replaced[s] => w \in stale[s]
TidyInv == \A s \in Seeds : Listed(s)

\* A version that comes into being is newer than the served one.
LEMMA CreatedIsNewest ==
  ASSUME TypeOK, VersionInv, [Next]_vars, NEW w \in DOMAIN index', w \notin DOMAIN index
  PROVE  \A v \in aliased : w > v
<1>1. ASSUME NEW s \in Seeds, EnsureIndex(s) PROVE \A v \in aliased : w > v
  <2>1. CASE CreateInitialIndex(s)
    <3>1. CASE 1 \in DOMAIN index
      BY <2>1, <3>1 DEF CreateInitialIndex, cluster
    <3>2. CASE 1 \notin DOMAIN index
      BY <2>1, <3>2 DEF CreateInitialIndex, VersionInv, Entering
    <3>. QED
      BY <3>1, <3>2
  <2>2. CASE CreatePendingIndex(s)
    <3>1. served[s] + 1 \notin DOMAIN index /\ w = served[s] + 1
      BY <2>2 DEF CreatePendingIndex, Created
    <3>2. \A v \in aliased : served[s] = v
      BY <2>2, <3>1 DEF CreatePendingIndex, VersionInv, Claiming
    <3>. QED
      BY <3>1, <3>2 DEF TypeOK
  <2>3. CASE ReadLiveIndex(s) \/ CheckAlias(s) \/ RepairAlias(s)
    BY <2>3 DEF ReadLiveIndex, CheckAlias, RepairAlias, cluster
  <2>. QED
    BY <1>1, <2>1, <2>2, <2>3 DEF EnsureIndex
<1>2. ASSUME NEW s \in Seeds, Load(s) PROVE FALSE
  BY <1>2, LoadKeepsVersions
<1>3. ASSUME NEW s \in Seeds, Publish(s) PROVE FALSE
  <2>1. DOMAIN index' \subseteq DOMAIN index
    BY <1>3 DEF Publish, PublishIndex, ListStale, DeleteStale, Published, cluster, Restrict
  <2>. QED
    BY <2>1
<1>4. ASSUME NEW s \in Seeds, Crash(s) PROVE FALSE
  BY <1>4 DEF Crash, cluster
<1>5. CASE UNCHANGED vars
  BY <1>5 DEF vars, cluster
<1>. QED
  BY <1>1, <1>2, <1>3, <1>4, <1>5 DEF Next, Execute, AllEnded

\* How a seed comes to be pruning, and what becomes of its list.
LEMMA ListKept ==
  ASSUME TypeOK, VersionInv, [Next]_vars, NEW t \in Seeds, pc'[t] = "prune"
  PROVE  \/ /\ pc[t] = "prune" /\ replaced'[t] = replaced[t]
            /\ \A w \in stale[t] : w \in stale'[t] \/ w \notin DOMAIN index'
         \/ /\ index' = index /\ replaced' = replaced
            /\ stale'[t] = {w \in DOMAIN index : w < replaced[t]}
<1>. DEFINE Goal ==
       \/ /\ pc[t] = "prune" /\ replaced'[t] = replaced[t]
          /\ \A w \in stale[t] : w \in stale'[t] \/ w \notin DOMAIN index'
       \/ /\ index' = index /\ replaced' = replaced
          /\ stale'[t] = {w \in DOMAIN index : w < replaced[t]}
<1>. USE DEF GoTo, TypeOK
<1>1. ASSUME NEW s \in Seeds, EnsureIndex(s) PROVE Goal
  BY <1>1 DEF EnsureIndex, ReadLiveIndex, CreateInitialIndex, CheckAlias, RepairAlias,
              CreatePendingIndex
<1>2. ASSUME NEW s \in Seeds, Load(s) \/ Crash(s) PROVE Goal
  <2>1. /\ stale' = stale /\ replaced' = replaced
        /\ \A r \in Seeds \ {s} : pc'[r] = pc[r]
    BY <1>2, LoadKeeps DEF Crash, adapter
  <2>2. pc'[s] = "prune" => pc[s] = "prune"
    BY <1>2, LoadKeeps DEF Crash
  <2>. QED
    BY <2>1, <2>2
<1>3. ASSUME NEW s \in Seeds, Publish(s) PROVE Goal
  <2>1. CASE PublishIndex(s) \/ Published(s)
    BY <2>1 DEF PublishIndex, Published, adapter
  <2>2. CASE ListStale(s)
    BY <2>2 DEF ListStale, adapter, cluster
  <2>3. ASSUME NEW v \in stale[s], DeleteStale(s, v) PROVE Goal
    BY <2>3 DEF DeleteStale, adapter, cluster, Restrict
  <2>. QED
    BY <1>3, <2>1, <2>2, <2>3 DEF Publish
<1>4. CASE UNCHANGED vars
  BY <1>4 DEF vars, adapter
<1>. QED
  BY <1>1, <1>2, <1>3, <1>4 DEF Next, Execute, AllEnded

LEMMA TidyNext == TypeOK /\ VersionInv /\ TidyInv /\ [Next]_vars => TidyInv'
<1>. SUFFICES ASSUME TypeOK, VersionInv, TidyInv, [Next]_vars, NEW t \in Seeds, pc'[t] = "prune",
                     NEW w \in DOMAIN index', w < replaced'[t]
              PROVE  w \in stale'[t]
  BY DEF TidyInv, Listed
<1>1. CASE /\ index' = index /\ replaced' = replaced
           /\ stale'[t] = {v \in DOMAIN index : v < replaced[t]}
  BY <1>1
<1>2. CASE /\ pc[t] = "prune" /\ replaced'[t] = replaced[t]
           /\ \A v \in stale[t] : v \in stale'[t] \/ v \notin DOMAIN index'
  <2>1. CASE w \in DOMAIN index
    BY <1>2, <2>1 DEF TidyInv, Listed
  <2>2. CASE w \notin DOMAIN index
    <3>1. PICK v \in aliased : TRUE
      BY <1>2 DEF VersionInv, Unprovisioned, Provisioning
    <3>2. v \in Nat /\ w \in Nat /\ replaced[t] \in Nat
      BY <3>1, NextType DEF TypeOK, Version
    <3>3. replaced[t] < v
      BY <1>2, <3>1, <3>2 DEF VersionInv, Pruning, TypeOK
    <3>4. w > v
      BY <2>2, <3>1, CreatedIsNewest
    <3>. QED
      BY <1>2, <3>2, <3>3, <3>4
  <2>. QED
    BY <2>1, <2>2
<1>. QED
  BY <1>1, <1>2, ListKept

\* A migration that ends leaves nothing older than the version it retains.
THEOREM EndsTidy == PromptSpec => MigrationTidiesUp
<1>1. Init => TidyInv
  BY DEF Init, TidyInv, Listed
<1>2. TypeOK /\ VersionInv /\ TidyInv /\ [Next /\ Prompt]_vars
        => [\A s \in Seeds :
              pc[s] = "prune" /\ pc'[s] = "done"
                  => \A v \in DOMAIN index' : v >= replaced[s]]_vars
  <2>. SUFFICES ASSUME TypeOK, VersionInv, TidyInv, [Next]_vars, NEW s \in Seeds,
                       pc[s] = "prune", pc'[s] = "done", NEW v \in DOMAIN index'
                PROVE  v >= replaced[s]
    OBVIOUS
  <2>1. stale[s] = {} /\ index' = index
    <3>. USE DEF GoTo, TypeOK
    <3>1. ASSUME NEW t \in Seeds, EnsureIndex(t) PROVE FALSE
      BY <3>1 DEF EnsureIndex, ReadLiveIndex, CreateInitialIndex, CheckAlias, RepairAlias,
                  CreatePendingIndex
    <3>2. ASSUME NEW t \in Seeds, Load(t) \/ Crash(t) PROVE FALSE
      BY <3>2 DEF Crash, Load, BulkIndex, IndexDocument, BulkAnswered, Refresh
    <3>3. ASSUME NEW t \in Seeds, Publish(t) PROVE stale[s] = {} /\ index' = index
      BY <3>3 DEF Publish, PublishIndex, ListStale, DeleteStale, Published, cluster
    <3>. QED
      BY <3>1, <3>2, <3>3 DEF Next, Execute, AllEnded, vars
  <2>2. ~(v < replaced[s])
    BY <2>1 DEF TidyInv, Listed
  <2>3. v \in Nat /\ replaced[s] \in Nat
    BY <2>1 DEF TypeOK, Version
  <2>. QED
    BY <2>2, <2>3
<1>. QED
  BY <1>1, <1>2, TidyNext, PromptType, PromptVersions, PTL DEF PromptSpec, MigrationTidiesUp

-----------------------------------------------------------------------------
(* The documents.                                                          *)

\* A bulk request still being applied belongs to a version that was there when it
\* was sent, and that no seed can create again.
InFlight(s) ==
    left[s] # {} =>
        /\ pc[s] \in {"bulk", "crashed"}
        /\ left[s] \subseteq Dataset[code[s]]
        /\ aliased # {}
        /\ \A v \in aliased : target[s] <= v \/ target[s] \in DOMAIN index

\* The version being loaded holds what its seed has written so far.
Filling(s) ==
    Loading(s) =>
        /\ pc[s] = "load" => index[pending[s]].docs = Empty
        /\ pc[s] = "bulk" => target[s] = pending[s]
        /\ pc[s] = "publish" => ~failed[s]
        /\ \/ pc[s] = "load"
           \/ failed[s]
           \/ \A p \in Products :
                 index[pending[s]].docs[p] = IF p \in Dataset[code[s]] \ left[s]
                                             THEN code[s] ELSE NoDoc
        /\ \A t \in Seeds : left[t] # {} /\ target[t] = pending[s] => t = s

\* Without an alias, the first version is what an earlier boot left.
FirstLoaded ==
    aliased = {} /\ 1 \in DOMAIN index =>
        \E g \in Generations : index[1].docs = Catalogue(g)

DocumentInv == FirstLoaded /\ \A s \in Seeds : InFlight(s) /\ Filling(s)

LEMMA DocumentInit == Init => DocumentInv
<1>. SUFFICES ASSUME Init PROVE DocumentInv
  OBVIOUS
<1>1. FirstLoaded
  BY DEF Init, FirstLoaded, FirstVersion, Loaded
<1>2. \A s \in Seeds : InFlight(s) /\ Filling(s)
  BY DEF Init, InFlight, Filling, Loading
<1>. QED
  BY <1>1, <1>2 DEF DocumentInv

\* A step of s that keeps the versions being loaded, the requests in flight and their
\* seeds' progress as they are keeps what is said about the documents.
LEMMA DocumentQuiet ==
  ASSUME TypeOK, VersionInv, DocumentInv, NEW s \in Seeds,
         aliased' = aliased,
         DOMAIN index' = DOMAIN index,
         \A v \in DOMAIN index : index'[v] = index[v],
         \A t \in Seeds \ {s} : pc'[t] = pc[t],
         Loading(s)' => Loading(s),
         Loading(s)' => \/ pc'[s] = pc[s]
                        \/ /\ pc[s] # "load" /\ pc'[s] \in {"refresh", "publish"}
                           /\ pc'[s] = "publish" => ~failed[s],
         left[s] # {} => pc'[s] \in {"bulk", "crashed"},
         \A t \in Seeds : Loading(t)' => pending'[t] = pending[t],
         UNCHANGED <<code, bulk>>
  PROVE  DocumentInv'
<1>. USE DEF bulk
<1>1. FirstLoaded'
  BY DEF DocumentInv, FirstLoaded
<1>2. ASSUME NEW t \in Seeds PROVE InFlight(t)'
  BY DEF DocumentInv, InFlight
<1>3. ASSUME NEW t \in Seeds, Loading(t)' PROVE Filling(t)'
  <2>1. Loading(t) /\ pending[t] \in DOMAIN index
    BY <1>3 DEF Loading, VersionInv, Holding
  <2>2. index'[pending'[t]] = index[pending[t]] /\ pending'[t] = pending[t]
    BY <1>3, <2>1
  <2>. QED
    BY <1>3, <2>1, <2>2 DEF DocumentInv, Filling, TypeOK
<1>. QED
  BY <1>1, <1>2, <1>3 DEF DocumentInv, Filling

LEMMA DocumentEnsureIndex ==
  ASSUME TypeOK, VersionInv, DocumentInv, VersionInv', NEW s \in Seeds, EnsureIndex(s)
  PROVE  DocumentInv'
<1>. USE DEF cluster, GoTo
<1>1. left[s] = {}
  BY DEF EnsureIndex, ReadLiveIndex, CreateInitialIndex, CheckAlias, RepairAlias,
         CreatePendingIndex, DocumentInv, InFlight
<1>2. ASSUME UNCHANGED <<cluster, pending, code, bulk>>,
             \A t \in Seeds \ {s} : pc'[t] = pc[t],
             Loading(s)' => Loading(s) /\ pc'[s] = pc[s]
      PROVE  DocumentInv'
  BY <1>1, <1>2, DocumentQuiet
<1>3. ASSUME pc[s] \in Provisioning, UNCHANGED <<cluster, pending, code, bulk>>,
             \A t \in Seeds \ {s} : pc'[t] = pc[t]
      PROVE  DocumentInv'
  <2>1. ~Loading(s)'
    BY <1>3 DEF Loading, VersionInv, Entering
  <2>. QED
    BY <1>2, <1>3, <2>1
<1>4. CASE ReadLiveIndex(s)
  BY <1>3, <1>4 DEF ReadLiveIndex, TypeOK, Provisioning
<1>5. CASE CheckAlias(s)
  BY <1>3, <1>5 DEF CheckAlias, TypeOK, Provisioning
<1>6. CASE CreateInitialIndex(s)
  <2>1. CASE 1 \in DOMAIN index
    BY <1>3, <1>6, <2>1 DEF CreateInitialIndex, TypeOK, Provisioning
  <2>2. CASE 1 \notin DOMAIN index
    <3>1. aliased = {} /\ 1 \in aliased' /\ UNCHANGED bulk
      BY <1>6, <2>2 DEF CreateInitialIndex, VersionInv, Entering
    <3>2. \A t \in Seeds : left'[t] = {}
      BY <3>1 DEF DocumentInv, InFlight, bulk
    <3>3. \A t \in Seeds : ~Loading(t)'
      BY <1>6, <2>2, <3>1 DEF CreateInitialIndex, VersionInv, Unprovisioned, Entering,
         Loading, Provisioning, TypeOK
    <3>. QED
      BY <3>1, <3>2, <3>3 DEF DocumentInv, FirstLoaded, InFlight, Filling
  <2>. QED
    BY <2>1, <2>2
<1>7. CASE RepairAlias(s)
  <2>1. CASE 1 \notin DOMAIN index \/ 1 \in aliased
    <3>1. aliased' = aliased
      BY <1>7, <2>1 DEF RepairAlias
    <3>. QED
      BY <1>3, <1>7, <3>1 DEF RepairAlias, TypeOK, Provisioning
  <2>2. CASE 1 \in DOMAIN index /\ 1 \notin aliased
    <3>1. aliased = {} /\ 1 \in aliased' /\ UNCHANGED bulk
      BY <1>7, <2>2 DEF RepairAlias, VersionInv, Entering
    <3>2. \A t \in Seeds : left'[t] = {}
      BY <3>1 DEF DocumentInv, InFlight, bulk
    <3>3. \A t \in Seeds : ~Loading(t)'
      BY <1>7, <2>2, <3>1 DEF RepairAlias, VersionInv, Unprovisioned, Entering,
         Loading, Provisioning, TypeOK
    <3>. QED
      BY <3>1, <3>2, <3>3 DEF DocumentInv, FirstLoaded, InFlight, Filling
  <2>. QED
    BY <2>1, <2>2
<1>8. CASE CreatePendingIndex(s)
  <2>1. CASE served[s] + 1 \in DOMAIN index
    <3>1. ~Loading(s)'
      BY <1>8, <2>1 DEF CreatePendingIndex, Loading, TypeOK
    <3>. QED
      BY <1>2, <1>8, <2>1, <3>1 DEF CreatePendingIndex, TypeOK
  <2>2. CASE served[s] + 1 \notin DOMAIN index
    <3>1. /\ index' = Created(served[s] + 1, Definition[code[s]])
          /\ aliased' = aliased /\ aliased # {}
          /\ pc' = [pc EXCEPT ![s] = "load"]
          /\ pending' = [pending EXCEPT ![s] = served[s] + 1]
          /\ pending'[s] = served[s] + 1
          /\ UNCHANGED <<code, target, left, failed>>
      BY <1>8, <2>2 DEF CreatePendingIndex, TypeOK, VersionInv, Unprovisioned, Provisioning,
                        bulk
    <3>2. DOMAIN index \subseteq DOMAIN index' /\ index'[served[s] + 1].docs = Empty
      BY <2>2, <3>1 DEF Created, Carrying
    <3>3. ASSUME NEW t \in Seeds PROVE InFlight(t)'
      BY <1>1, <3>1, <3>2 DEF DocumentInv, InFlight, TypeOK
    <3>4. ASSUME NEW t \in Seeds, left[t] # {} PROVE target[t] # served[s] + 1
      BY <2>2, <3>1, <3>4, <1>8 DEF DocumentInv, InFlight, CreatePendingIndex,
         VersionInv, Claiming, TypeOK, Version
    <3>5. Filling(s)'
      BY <3>1, <3>2, <3>4 DEF Filling, TypeOK
    <3>6. ASSUME NEW t \in Seeds PROVE Loading(t)' => t = s
      <4>1. Loading(s)'
        BY <3>1 DEF Loading, TypeOK
      <4>. QED
        BY <4>1 DEF VersionInv
    <3>. QED
      BY <3>1, <3>3, <3>5, <3>6 DEF DocumentInv, Filling, FirstLoaded
  <2>. QED
    BY <2>1, <2>2
<1>. QED
  BY <1>4, <1>5, <1>6, <1>7, <1>8 DEF EnsureIndex

LEMMA DocumentBulkIndex ==
  ASSUME TypeOK, VersionInv, DocumentInv, VersionInv', NEW s \in Seeds, BulkIndex(s)
  PROVE  DocumentInv'
<1>. USE DEF adapter, GoTo
<1>1. /\ index' = index /\ aliased' = aliased /\ aliased # {}
      /\ pc[s] = "load" /\ pc' = [pc EXCEPT ![s] = "bulk"]
      /\ UNCHANGED <<code, pending, replaced>>
  BY BulkCreatesNone DEF BulkIndex, VersionInv, Unprovisioned, Provisioning
<1>2. PICK a \in aliased : aliased = {a}
  BY <1>1 DEF VersionInv, AliasUnambiguous
<1>3. /\ left' = [left EXCEPT ![s] = Dataset[code[s]]]
      /\ failed' = failed
      /\ \/ pending[s] # 0 /\ target' = [target EXCEPT ![s] = pending[s]]
         \/ pending[s] = 0 /\ target' = [target EXCEPT ![s] = a]
  BY <1>2 DEF BulkIndex
<1>4. ASSUME NEW t \in Seeds PROVE Loading(t)' <=> Loading(t)
  BY <1>1 DEF Loading, TypeOK
<1>5. pending[s] # 0 => Loading(s) /\ pending[s] \in DOMAIN index
  BY <1>1 DEF Loading, VersionInv, Holding
<1>6. ASSUME NEW t \in Seeds PROVE InFlight(t)'
  BY <1>1, <1>2, <1>3, <1>5 DEF DocumentInv, InFlight, TypeOK, Version
<1>7. ASSUME NEW t \in Seeds \ {s}, Loading(t) PROVE Filling(t)'
  <2>1. pending[s] = 0 /\ pending[t] = a + 1
    BY <1>2, <1>5, <1>7 DEF VersionInv, Holding
  <2>2. pending[t] # a
    BY <1>2, <2>1 DEF TypeOK, Version
  <2>. QED
    BY <1>1, <1>3, <1>7, <2>1, <2>2 DEF DocumentInv, Filling, TypeOK
<1>8. ASSUME Loading(s) PROVE Filling(s)'
  <2>1. pending[s] # 0
    BY <1>8 DEF Loading
  <2>2. index[pending[s]].docs = Empty
    BY <1>1, <1>8 DEF DocumentInv, Filling
  <2>3. \A t \in Seeds : left'[t] # {} /\ target'[t] = pending[s] => t = s
    BY <1>3, <1>8 DEF DocumentInv, Filling, TypeOK
  <2>. QED
    BY <1>1, <1>3, <2>1, <2>2, <2>3 DEF Filling, Empty, TypeOK
<1>. QED
  BY <1>1, <1>4, <1>6, <1>7, <1>8 DEF DocumentInv, FirstLoaded, Filling

LEMMA DocumentIndexDocument ==
  ASSUME TypeOK, VersionInv, DocumentInv, NEW s \in Seeds, NEW p \in Products,
         IndexDocument(s, p)
  PROVE  DocumentInv'
<1>1. /\ aliased' = aliased /\ UNCHANGED <<pc, code, pending, replaced, target>>
      /\ p \in left[s]
      /\ left' = [left EXCEPT ![s] = @ \ {p}]
      /\ DOMAIN index' = DOMAIN index
      /\ \A v \in DOMAIN index : v # target[s] => index'[v] = index[v]
  BY DEF IndexDocument, adapter, TypeOK
<1>2. /\ pc[s] \in {"bulk", "crashed"} /\ aliased # {} /\ p \in Dataset[code[s]]
  BY <1>1 DEF DocumentInv, InFlight
<1>3. ASSUME NEW t \in Seeds PROVE InFlight(t)'
  BY <1>1 DEF DocumentInv, InFlight, TypeOK
<1>4. ASSUME NEW t \in Seeds \ {s}, Loading(t) PROVE Filling(t)'
  <2>1. target[s] # pending[t] /\ pending[t] \in DOMAIN index
    BY <1>1, <1>4 DEF DocumentInv, Filling, VersionInv, Holding
  <2>2. index'[pending[t]] = index[pending[t]] /\ left'[t] = left[t] /\ failed'[t] = failed[t]
    BY <1>1, <2>1 DEF IndexDocument, TypeOK
  <2>3. \A u \in Seeds : left'[u] # {} => left[u] # {}
    BY <1>1 DEF TypeOK
  <2>. QED
    BY <1>1, <1>4, <2>2, <2>3 DEF DocumentInv, Filling
<1>5. ASSUME Loading(s) PROVE Filling(s)'
  <2>1. pc[s] = "bulk" /\ target[s] = pending[s] /\ pending[s] \in DOMAIN index
    BY <1>2, <1>5 DEF DocumentInv, Filling, VersionInv, Holding, Loading
  <2>2. \A u \in Seeds : left'[u] # {} => left[u] # {}
    BY <1>1 DEF TypeOK
  <2>3. CASE failed'[s]
    BY <1>1, <1>5, <2>1, <2>2, <2>3 DEF DocumentInv, Filling
  <2>4. CASE ~failed'[s]
    <3>1. failed' = failed /\ index' = [index EXCEPT ![target[s]].docs[p] = code[s]]
      BY <2>4 DEF IndexDocument, TypeOK
    <3>2. \A q \in Products :
             index[pending[s]].docs[q] = IF q \in Dataset[code[s]] \ left[s]
                                         THEN code[s] ELSE NoDoc
      BY <1>5, <2>1, <2>4, <3>1 DEF DocumentInv, Filling
    <3>3. \A q \in Products :
             index'[pending[s]].docs[q] = IF q = p THEN code[s] ELSE index[pending[s]].docs[q]
      BY <2>1, <3>1 DEF TypeOK, Contents
    <3>4. \A q \in Products :
             index'[pending[s]].docs[q] = IF q \in Dataset[code[s]] \ left'[s]
                                          THEN code[s] ELSE NoDoc
      BY <1>1, <1>2, <3>2, <3>3 DEF TypeOK
    <3>. QED
      BY <1>1, <1>5, <2>1, <2>2, <3>1, <3>4 DEF DocumentInv, Filling
  <2>. QED
    BY <2>3, <2>4
<1>6. ASSUME NEW t \in Seeds PROVE Loading(t)' <=> Loading(t)
  BY <1>1 DEF Loading
<1>. QED
  BY <1>1, <1>2, <1>3, <1>4, <1>5, <1>6 DEF DocumentInv, FirstLoaded, Filling

LEMMA DocumentLoad ==
  ASSUME TypeOK, VersionInv, DocumentInv, VersionInv', NEW s \in Seeds, Load(s)
  PROVE  DocumentInv'
<1>1. CASE BulkAnswered(s)
  <2>1. /\ UNCHANGED <<cluster, code, pending, bulk>> /\ left[s] = {}
        /\ pc[s] = "bulk" /\ pc' = [pc EXCEPT ![s] = "refresh"]
    BY <1>1 DEF BulkAnswered, GoTo, adapter
  <2>2. Loading(s)' => Loading(s)
    BY <2>1 DEF Loading
  <2>. QED
    BY <2>1, <2>2, DocumentQuiet DEF TypeOK, cluster
<1>2. CASE Refresh(s)
  <2>1. /\ UNCHANGED <<cluster, code, pending, bulk>> /\ pc[s] = "refresh"
        /\ \A t \in Seeds \ {s} : pc'[t] = pc[t]
        /\ pc'[s] \in {"thrown", "done"} \/ (pc'[s] = "publish" /\ ~failed[s])
    BY <1>2 DEF Refresh, GoTo, adapter, TypeOK
  <2>2. Loading(s)' => Loading(s) /\ pc'[s] = "publish"
    BY <2>1 DEF Loading
  <2>3. left[s] = {}
    BY <2>1 DEF DocumentInv, InFlight
  <2>. QED
    BY <2>1, <2>2, <2>3, DocumentQuiet DEF cluster
<1>. QED
  BY <1>1, <1>2, DocumentBulkIndex, DocumentIndexDocument DEF Load

LEMMA DocumentPublish ==
  ASSUME TypeOK, VersionInv, DocumentInv, VersionInv', NEW s \in Seeds, Publish(s)
  PROVE  DocumentInv'
<1>. USE DEF adapter, GoTo, cluster, bulk
<1>1. left[s] = {}
  BY DEF Publish, PublishIndex, ListStale, DeleteStale, Published, DocumentInv, InFlight
<1>2. ASSUME UNCHANGED <<cluster, code, bulk>>,
             \A t \in Seeds \ {s} : pc'[t] = pc[t] /\ pending'[t] = pending[t],
             ~Loading(s)'
      PROVE  DocumentInv'
  BY <1>1, <1>2, DocumentQuiet
<1>3. CASE PublishIndex(s)
  <2>1. CASE pending[s] = 0
    <3>1. ~Loading(s)'
      BY <1>3, <2>1 DEF PublishIndex, Loading, TypeOK
    <3>. QED
      BY <1>2, <1>3, <2>1, <3>1 DEF PublishIndex, TypeOK
  <2>2. CASE pending[s] # 0
    <3>1. /\ Loading(s) /\ aliased = {replaced[s]} /\ pending[s] = replaced[s] + 1
          /\ {pending[s], replaced[s]} \subseteq DOMAIN index
          /\ \A t \in Seeds : Loading(t) => t = s
      BY <1>3, <2>2 DEF PublishIndex, Loading, VersionInv, Holding, AliasNeverDangles
    <3>2. /\ aliased' = {pending[s]} /\ UNCHANGED <<index, code, pending, target, left>>
          /\ pc' = [pc EXCEPT ![s] = "list"]
      BY <1>3, <2>2, <3>1 DEF PublishIndex
    <3>3. ASSUME NEW t \in Seeds PROVE InFlight(t)'
      BY <1>1, <3>1, <3>2 DEF DocumentInv, InFlight, TypeOK
    <3>4. ASSUME NEW t \in Seeds PROVE ~Loading(t)'
      BY <3>1, <3>2 DEF Loading, TypeOK
    <3>. QED
      BY <3>2, <3>3, <3>4 DEF DocumentInv, FirstLoaded, Filling
  <2>. QED
    BY <2>1, <2>2
<1>4. CASE ListStale(s)
  <2>1. ~Loading(s)'
    BY <1>4 DEF ListStale, Loading, TypeOK
  <2>. QED
    BY <1>2, <1>4, <2>1 DEF ListStale, TypeOK
<1>5. ASSUME NEW v \in stale[s], DeleteStale(s, v)
      PROVE  DocumentInv'
  <2>1. CASE v \notin DOMAIN index
    <3>1. ~Loading(s)'
      BY <1>5, <2>1 DEF DeleteStale, Loading, TypeOK
    <3>. QED
      BY <1>2, <1>5, <2>1, <3>1 DEF DeleteStale, TypeOK
  <2>2. CASE v \in DOMAIN index
    <3>1. PICK a \in aliased : aliased = {a} /\ v \in Nat /\ a \in Nat /\ v < a
      BY <1>5 DEF DeleteStale, VersionInv, Unprovisioned, Provisioning, AliasUnambiguous,
                  Pruning, TypeOK, Version
    <3>2. /\ DOMAIN index' = DOMAIN index \ {v}
          /\ \A w \in DOMAIN index \ {v} : index'[w] = index[w]
          /\ aliased' = {a} /\ UNCHANGED <<pc, code, pending, target, left, failed>>
      BY <1>5, <2>2, <3>1 DEF DeleteStale, Restrict
    <3>3. ASSUME NEW t \in Seeds PROVE InFlight(t)'
      BY <3>1, <3>2 DEF DocumentInv, InFlight, TypeOK
    <3>4. ASSUME NEW t \in Seeds, Loading(t)' PROVE Filling(t)'
      <4>1. Loading(t) /\ pending[t] = a + 1 /\ pending[t] \in DOMAIN index
        BY <3>1, <3>2, <3>4 DEF Loading, VersionInv, Holding
      <4>2. index'[pending[t]] = index[pending[t]]
        BY <3>1, <3>2, <4>1
      <4>. QED
        BY <3>2, <4>1, <4>2 DEF DocumentInv, Filling
    <3>. QED
      BY <3>2, <3>3, <3>4 DEF DocumentInv, FirstLoaded, Filling
  <2>. QED
    BY <2>1, <2>2
<1>6. CASE Published(s)
  <2>1. ~Loading(s)'
    BY <1>6 DEF Published, Loading, TypeOK
  <2>. QED
    BY <1>2, <1>6, <2>1 DEF Published, TypeOK
<1>. QED
  BY <1>3, <1>4, <1>5, <1>6 DEF Publish

LEMMA DocumentNext ==
  TypeOK /\ VersionInv /\ VersionInv' /\ DocumentInv /\ [Next /\ Prompt]_vars => DocumentInv'
<1>. SUFFICES ASSUME TypeOK, VersionInv, VersionInv', DocumentInv, [Next /\ Prompt]_vars
              PROVE  DocumentInv'
  OBVIOUS
<1>1. ASSUME NEW s \in Seeds, Execute(s) PROVE DocumentInv'
  BY <1>1, DocumentEnsureIndex, DocumentLoad, DocumentPublish DEF Execute
<1>2. ASSUME NEW s \in Seeds, Crash(s) PROVE DocumentInv'
  <2>1. /\ UNCHANGED <<cluster, code, pending, bulk>>
        /\ pc' = [pc EXCEPT ![s] = "crashed"]
    BY <1>2 DEF Crash, GoTo, adapter
  <2>2. ~Loading(s)'
    BY <2>1 DEF Loading, TypeOK
  <2>. QED
    BY <2>1, <2>2, DocumentQuiet DEF TypeOK, cluster
<1>3. CASE UNCHANGED vars
  BY <1>3 DEF vars, DocumentInv, FirstLoaded, InFlight, Filling, Loading
<1>. QED
  BY <1>1, <1>2, <1>3 DEF Next, AllEnded

LEMMA PromptDocuments == PromptSpec => []DocumentInv
BY DocumentInit, DocumentNext, PromptVersions, PromptType, PTL DEF PromptSpec

\* A flip changes nothing but the alias, and publishes what its seed has loaded.
LEMMA FlipPublishesCatalogue ==
  ASSUME TypeOK, VersionInv, DocumentInv, NEW s \in Seeds, PublishIndex(s), pending[s] # 0
  PROVE  /\ index' = index
         /\ aliased = {replaced[s]} /\ aliased' = {replaced[s] + 1}
         /\ pending[s] = replaced[s] + 1 /\ pending[s] \in DOMAIN index
         /\ index[pending[s]].docs = Catalogue(code[s])
<1>1. pc[s] = "publish" /\ Loading(s) /\ index' = index
  BY DEF PublishIndex, Loading
<1>2. /\ aliased = {replaced[s]} /\ pending[s] = replaced[s] + 1
      /\ {pending[s], replaced[s]} \subseteq DOMAIN index
  BY <1>1 DEF VersionInv, Holding, AliasNeverDangles
<1>3. aliased' = {replaced[s] + 1}
  BY <1>2 DEF PublishIndex
<1>4. ~failed[s] /\ left[s] = {}
  BY <1>1 DEF DocumentInv, Filling, InFlight
<1>5. \A p \in Products :
         index[pending[s]].docs[p] = IF p \in Dataset[code[s]] THEN code[s] ELSE NoDoc
  BY <1>1, <1>4 DEF DocumentInv, Filling
<1>6. index[pending[s]].docs \in [Products -> Stored]
  BY <1>2 DEF TypeOK, Contents
<1>. QED
  BY <1>1, <1>2, <1>3, <1>5, <1>6 DEF Catalogue

LEMMA FlipOnly ==
  ASSUME TypeOK, [Next]_vars, NEW s \in Seeds, pc[s] = "publish", pc'[s] = "list"
  PROVE  PublishIndex(s) /\ pending[s] # 0
<1>. USE DEF GoTo, TypeOK
<1>1. ASSUME NEW t \in Seeds, EnsureIndex(t) PROVE FALSE
  BY <1>1 DEF EnsureIndex, ReadLiveIndex, CreateInitialIndex, CheckAlias, RepairAlias,
              CreatePendingIndex
<1>2. ASSUME NEW t \in Seeds, Load(t) \/ Crash(t) PROVE FALSE
  BY <1>2, LoadKeeps DEF Crash
<1>3. ASSUME NEW t \in Seeds, Publish(t) PROVE PublishIndex(s) /\ pending[s] # 0
  BY <1>3 DEF Publish, PublishIndex, ListStale, DeleteStale, Published
<1>. QED
  BY <1>1, <1>2, <1>3 DEF Next, Execute, AllEnded, vars

\* What a seed publishes is exactly its own dataset, whoever else was loading,
\* crashing or pruning meanwhile.
THEOREM PublishesExactly == PromptSpec => PublishedExact
<1>1. TypeOK /\ VersionInv /\ DocumentInv /\ [Next /\ Prompt]_vars
        => [\A s \in Seeds :
              pc[s] = "publish" /\ pc'[s] = "list"
                  => index'[pending[s]].docs = Catalogue(code[s])]_vars
  BY FlipOnly, FlipPublishesCatalogue
<1>. QED
  BY <1>1, PromptType, PromptVersions, PromptDocuments, PTL DEF PromptSpec, PublishedExact

-----------------------------------------------------------------------------
(* The served catalogue.                                                   *)

LEMMA ServingOne ==
  ASSUME NEW a \in Version, aliased = {a}
  PROVE  Serving = a /\ ServedContent = index[a].docs
BY DEF Serving, ServedContent, Version

LEMMA ServingNone ==
  ASSUME aliased = {}
  PROVE  Serving = 0 /\ ServedContent = Empty
BY DEF Serving, ServedContent

LEMMA ReadersInit == Init => Readers!Init
<1>. SUFFICES ASSUME Init PROVE Readers!Init
  OBVIOUS
<1>1. CASE aliased = {}
  BY <1>1, ServingNone DEF Readers!Init, Readers!Nothing, Empty
<1>2. CASE aliased # {}
  <2>1. PICK g \in Generations : aliased = {1} /\ index[1].docs = Catalogue(g)
    BY <1>2 DEF Init, Loaded, FirstVersion
  <2>2. Serving = 1 /\ ServedContent = Catalogue(g)
    BY <2>1, ServingOne DEF Version
  <2>. QED
    BY <2>2 DEF Readers!Init, Readers!FirstContents, Readers!Whole, Catalogue
<1>. QED
  BY <1>1, <1>2

\* Readers notice nothing as long as the served version and its documents stay.
LEMMA ReadersUnaware ==
  ASSUME TypeOK, VersionInv, aliased' = aliased,
         \A a \in aliased : index'[a] = index[a]
  PROVE  Serving' = Serving /\ ServedContent' = ServedContent
<1>1. CASE aliased = {}
  BY <1>1 DEF Serving, ServedContent, Empty
<1>2. CASE aliased # {}
  <2>1. PICK a \in Version : aliased = {a}
    BY <1>2 DEF VersionInv, AliasUnambiguous, TypeOK
  <2>. QED
    BY <2>1 DEF Serving, ServedContent, Version
<1>. QED
  BY <1>1, <1>2

LEMMA ReadersEnsureIndex ==
  ASSUME TypeOK, VersionInv, DocumentInv, NEW s \in Seeds, EnsureIndex(s)
  PROVE  Readers!Next \/ UNCHANGED <<Serving, ServedContent>>
<1>. USE DEF cluster
<1>1. CASE ReadLiveIndex(s) \/ CheckAlias(s)
  BY <1>1, ReadersUnaware DEF ReadLiveIndex, CheckAlias
<1>2. ASSUME aliased = {}, aliased' = {1}, index'[1].docs \in {Empty} \cup
                                              {Catalogue(g) : g \in Generations}
      PROVE  Readers!Next
  <2>1. Serving = 0 /\ Serving' = 1 /\ ServedContent' = index'[1].docs
    BY <1>2 DEF Serving, ServedContent
  <2>. QED
    BY <1>2, <2>1 DEF Readers!Next, Readers!Provision, Readers!FirstContents, Readers!Whole,
                      Readers!Nothing, Empty, Catalogue
<1>3. CASE CreateInitialIndex(s)
  <2>1. CASE 1 \in DOMAIN index
    BY <1>3, <2>1, ReadersUnaware DEF CreateInitialIndex
  <2>2. CASE 1 \notin DOMAIN index
    <3>1. aliased = {} /\ aliased' = {1} /\ index' = Created(1, Definition[code[s]])
      BY <1>3, <2>2 DEF CreateInitialIndex, VersionInv, Entering
    <3>2. index'[1].docs = Empty
      BY <2>2, <3>1 DEF Created, Carrying
    <3>. QED
      BY <1>2, <3>1, <3>2
  <2>. QED
    BY <2>1, <2>2
<1>4. CASE RepairAlias(s)
  <2>1. index' = index /\ (aliased' = aliased \/ (1 \in DOMAIN index /\ aliased' = aliased \cup {1}))
    BY <1>4 DEF RepairAlias
  <2>2. CASE aliased' = aliased
    BY <2>1, <2>2, ReadersUnaware
  <2>3. CASE aliased' # aliased
    <3>1. aliased = {} /\ aliased' = {1} /\ 1 \in DOMAIN index
      BY <1>4, <2>1, <2>3 DEF RepairAlias, VersionInv, Entering
    <3>2. \E g \in Generations : index'[1].docs = Catalogue(g)
      BY <2>1, <3>1 DEF DocumentInv, FirstLoaded
    <3>. QED
      BY <1>2, <3>1, <3>2
  <2>. QED
    BY <2>2, <2>3
<1>5. CASE CreatePendingIndex(s)
  <2>1. aliased' = aliased /\ (index' = index \/ index' = Created(served[s] + 1, Definition[code[s]]))
    BY <1>5 DEF CreatePendingIndex
  <2>2. \A a \in aliased : index'[a] = index[a]
    BY <2>1 DEF Created, VersionInv, AliasNeverDangles
  <2>. QED
    BY <2>1, <2>2, ReadersUnaware
<1>. QED
  BY <1>1, <1>3, <1>4, <1>5 DEF EnsureIndex

LEMMA ReadersLoad ==
  ASSUME TypeOK, VersionInv, DocumentInv, NEW s \in Seeds, Load(s)
  PROVE  Readers!Next \/ UNCHANGED <<Serving, ServedContent>>
<1>1. CASE BulkIndex(s) \/ BulkAnswered(s) \/ Refresh(s)
  BY <1>1, LoadKeeps, BulkCreatesNone, ReadersUnaware DEF BulkAnswered, Refresh, cluster
<1>2. ASSUME NEW p \in Products, IndexDocument(s, p)
      PROVE  Readers!Next \/ UNCHANGED <<Serving, ServedContent>>
  <2>1. CASE index' = index \/ target[s] \notin aliased
    <3>1. aliased' = aliased /\ \A a \in aliased : index'[a] = index[a]
      BY <1>2, <2>1 DEF IndexDocument, TypeOK, VersionInv, AliasNeverDangles
    <3>. QED
      BY <3>1, ReadersUnaware
  <2>2. CASE index' # index /\ target[s] \in aliased
    <3>. DEFINE a == target[s]
    <3>1. aliased = {a} /\ a \in Version /\ a \in DOMAIN index
      BY <2>2 DEF VersionInv, AliasUnambiguous, AliasNeverDangles, TypeOK
    <3>2. p \in Dataset[code[s]] /\ code[s] \in Generations
      BY <1>2 DEF IndexDocument, DocumentInv, InFlight, TypeOK
    <3>3. aliased' = aliased /\ index' = [index EXCEPT ![a].docs[p] = code[s]]
      BY <1>2, <2>2 DEF IndexDocument
    <3>4. index'[a].docs = [index[a].docs EXCEPT ![p] = code[s]]
      BY <3>1, <3>3 DEF TypeOK, Contents
    <3>5. Serving = a /\ ServedContent = index[a].docs
      BY <3>1, ServingOne
    <3>6. Serving' = a /\ ServedContent' = index'[a].docs
      BY <3>1, <3>3 DEF Serving, ServedContent, Version
    <3>7. Readers!Upsert(code[s], p)
      BY <3>1, <3>2, <3>4, <3>5, <3>6 DEF Readers!Upsert, Version
    <3>. QED
      BY <3>2, <3>7 DEF Readers!Next
  <2>. QED
    BY <2>1, <2>2
<1>. QED
  BY <1>1, <1>2 DEF Load

LEMMA ReadersPublish ==
  ASSUME TypeOK, VersionInv, DocumentInv, NEW s \in Seeds, Publish(s)
  PROVE  Readers!Next \/ UNCHANGED <<Serving, ServedContent>>
<1>1. CASE PublishIndex(s)
  <2>1. CASE aliased' = aliased
    BY <1>1, <2>1, ReadersUnaware DEF PublishIndex
  <2>2. CASE aliased' # aliased
    <3>1. pending[s] # 0 /\ replaced[s] \in Nat /\ code[s] \in Generations
      BY <1>1, <2>2 DEF PublishIndex, TypeOK
    <3>2. /\ index' = index
          /\ aliased = {replaced[s]} /\ aliased' = {replaced[s] + 1}
          /\ index[replaced[s] + 1].docs = Catalogue(code[s])
      BY <1>1, <3>1, FlipPublishesCatalogue
    <3>3. replaced[s] \in Version
      BY <3>2 DEF TypeOK
    <3>4. Serving = replaced[s] /\ Serving' = replaced[s] + 1
          /\ ServedContent' = Catalogue(code[s])
      BY <3>1, <3>2, <3>3 DEF Serving, ServedContent, Version
    <3>5. Readers!Switch(code[s])
      BY <3>3, <3>4 DEF Readers!Switch, Readers!Whole, Catalogue, Version
    <3>. QED
      BY <3>1, <3>5 DEF Readers!Next
  <2>. QED
    BY <2>1, <2>2
<1>2. CASE ListStale(s) \/ Published(s)
  BY <1>2, ReadersUnaware DEF ListStale, Published, cluster
<1>3. ASSUME NEW v \in stale[s], DeleteStale(s, v)
      PROVE  UNCHANGED <<Serving, ServedContent>>
  <2>1. v \notin aliased
    BY <1>3 DEF DeleteStale, VersionInv, Pruning, TypeOK, Version
  <2>2. aliased' = aliased /\ \A a \in aliased : index'[a] = index[a]
    BY <1>3, <2>1 DEF DeleteStale, cluster, Restrict, VersionInv, AliasNeverDangles
  <2>. QED
    BY <2>2, ReadersUnaware
<1>. QED
  BY <1>1, <1>2, <1>3 DEF Publish

LEMMA ReadersNext ==
  TypeOK /\ VersionInv /\ DocumentInv /\ [Next /\ Prompt]_vars
      => [Readers!Next]_<<Serving, ServedContent>>
<1>. SUFFICES ASSUME TypeOK, VersionInv, DocumentInv, [Next /\ Prompt]_vars
              PROVE  Readers!Next \/ UNCHANGED <<Serving, ServedContent>>
  OBVIOUS
<1>1. ASSUME NEW s \in Seeds, Execute(s)
      PROVE  Readers!Next \/ UNCHANGED <<Serving, ServedContent>>
  BY <1>1, ReadersEnsureIndex, ReadersLoad, ReadersPublish DEF Execute
<1>2. ASSUME NEW s \in Seeds, Crash(s)
      PROVE  UNCHANGED <<Serving, ServedContent>>
  BY <1>2, ReadersUnaware DEF Crash, cluster
<1>3. CASE UNCHANGED vars
  BY <1>3, ReadersUnaware DEF vars
<1>. QED
  BY <1>1, <1>2, <1>3 DEF Next, AllEnded

\* Seeds racing on a prompt cluster implement the served catalogue: to readers there
\* is one version, that is upserted into or switched as a whole.
THEOREM SeedsServeTheCatalogue == PromptSpec => ImplementsServedCatalogue
BY ReadersInit, ReadersNext, PromptType, PromptVersions, PromptDocuments, PTL
   DEF PromptSpec, ImplementsServedCatalogue, Readers!Spec

=============================================================================
