----------------------------- MODULE MCCacheAside -----------------------------
(* TLC instances of CacheAside: two processes in the middle of deployments    *)
(* that change the relevance settings or the payload shape.                     *)
EXTENDS CacheAside, TLC

CONSTANTS r1, r2, r3, A, B

ThreeRequests == {r1, r2, r3}
TwoOnOne == r1 :> A @@ r2 :> A @@ r3 :> B
SameQuestion == [r \in Requests |-> "drill"]

Deployed(relevance, suggest, shape, accepts, ttl) ==
    [config |-> [index |-> "products", relevance |-> relevance, suggestMaxHits |-> suggest],
     shape |-> shape, accepts |-> accepts, ttl |-> ttl]

Base    == Deployed(1, 3, "v1", {"v1"}, 1)
Tuned   == Deployed(2, 3, "v1", {"v1"}, 1)
Newer   == Deployed(1, 3, "v2", {"v2"}, 1)

AllDeployments == {Base, Tuned, Newer}

=============================================================================
