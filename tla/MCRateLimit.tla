------------------------------ MODULE MCRateLimit ------------------------------
(* TLC instances of RateLimit: clients behind one address that invent keys,   *)
(* an operator and a probe, with the same budget on every route.              *)
EXTENDS RateLimit, TLC

CONSTANTS r1, r2, r3, A, B

ThreeRequests == {r1, r2, r3}
FromHome(route, key) == [route |-> route, key |-> key, address |-> "home"]
SomeAsks == {FromHome("search", "invented"), FromHome("metrics", None), FromHome("health", None)}
JustSearch == {FromHome("search", "valid")}

Each(n) == [search |-> n, autocomplete |-> n, suggest |-> n, default |-> n]
OneEach == Each(1)
ThreeEach == Each(3)

Alike == Permutations(ThreeRequests) \cup Permutations({A, B})

=============================================================================
