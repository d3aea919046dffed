--------------------------- MODULE MCRequestPipeline ---------------------------
(* TLC instances of RequestPipeline.                                          *)
EXTENDS RequestPipeline, TLC

CONSTANTS r1, r2, elasticsearch, redis

Call(method, path, key, token, input, id) ==
    [method |-> method, path |-> path, key |-> key, token |-> token, input |-> input, id |-> id]
Get(path) == Call("GET", path, FALSE, FALSE, "valid", None)

Trace == <<"trace">>
Traces == {Trace}

Ready == Get(<<"health", "ready">>)
Full == Get(<<"health">>)
SomeCalls ==
    {Ready, Full,
     Call("GET", <<"search">>, TRUE, FALSE, "valid", Trace),
     Call("GET", <<"suggest">>, FALSE, FALSE, "invalid", <<"unsafe">>),
     Call("POST", <<"search">>, FALSE, FALSE, "valid", None),
     Call("POST", <<"nothing">>, FALSE, FALSE, "valid", None),
     Get(<<"metrics">>), Get(<<>>),
     Get(<<"docs">>), Get(<<"docs-yaml">>)}
BothPolls == {Ready, Full}

Config(auth, limiter) == [auth |-> auth, limiter |-> limiter, metricsToken |-> auth]
OpenAndClosed == {Config(FALSE, FALSE), Config(TRUE, TRUE)}

=============================================================================
