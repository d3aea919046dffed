------------------------------- MODULE RateLimit -------------------------------
(***************************************************************************)
(* The request budgets of the service: a counter per route and client in a *)
(* Redis that the instances share, and a counter in each instance's memory *)
(* that takes over hit by hit while Redis fails (infrastructure/rate-limit, *)
(* presentation/rate-limit).                                               *)
(*                                                                         *)
(* Counting opens a window on the first hit and drops it when it elapses.  *)
(* Time is a number of milliseconds that all clocks agree on.  Redis, its  *)
(* connections (ioredis sends again what a lost connection left            *)
(* unanswered) and the guard of @nestjs/throttler are external.            *)
(***************************************************************************)
EXTENDS Naturals, Sequences, FiniteSets

CONSTANTS
    Requests,    \* requests, each made once
    Instances,   \* instances of the service
    Asks,        \* what requests ask: a route, with a key, from an address
    ValidKeys,   \* the configured API keys
    AuthEnabled, \* whether routes ask for a key
    Limits,      \* the budgets: of search, autocomplete and suggest, and the default
    Enforced,    \* whether requests are limited at all
    WindowMs,    \* the length of a window
    SweepMs,     \* how often the memory is swept of elapsed windows, at most
    SweepSize,   \* how many windows force a sweep
    Second,      \* milliseconds in a second
    MaxNow, MaxFaults,  \* bounds of the model: time, and resends and losses together
    None         \* no window, no result, no verdict

ASSUME BudgetAssumption ==
    /\ \A a \in Asks : DOMAIN a = {"route", "key", "address"}
    /\ None \notin Asks /\ None \notin ValidKeys /\ None \notin Instances /\ None # "redis"
    /\ DOMAIN Limits = {"search", "autocomplete", "suggest", "default"}
    /\ \A route \in DOMAIN Limits : Limits[route] \in Nat \ {0}
    /\ {Enforced, AuthEnabled} \subseteq BOOLEAN
    /\ {WindowMs, SweepMs, SweepSize, Second} \subseteq Nat \ {0}
    /\ {MaxNow, MaxFaults} \subseteq Nat
    /\ "redis" \notin Instances

VARIABLES
    now,        \* the time
    ask,        \* what each request asks, once it is made
    window,     \* the open window of each bucket, in Redis and in each memory
    lastSweep,  \* when each memory was last swept
    conn,       \* the requests each instance awaits a count for, oldest first
    result,     \* what Redis counted for each of these, once it has
    verdict,    \* what became of each request, and the hit that decided it
    log,        \* history: the hits each counter counted, in their order
    resends, losses  \* how often Redis was asked again, and lost its memory

vars == <<now, ask, window, lastSweep, conn, result, verdict, log, resends, losses>>

Counters == {"redis"} \cup Instances

(* resolveTracker: a valid key is a client, any other request is its       *)
(* address.                                                                *)
TrackerOf(a) == IF a.key \in ValidKeys THEN a.key ELSE a.address

(* What a request is counted against.                                      *)
BucketOf(a) == <<a.route, TrackerOf(a)>>
Bucket(r) == BucketOf(ask[r])
Buckets == {BucketOf(a) : a \in Asks}

(* resolveLimit and skipIf.                                                *)
Limit(r) ==
    IF ask[r].route \in DOMAIN Limits THEN Limits[ask[r].route] ELSE Limits["default"]

Exempt == {"health"}
Limited(a) == Enforced /\ a.route \notin Exempt

Windows == [count : Nat \ {0}, expiresAt : Nat]
Results == [totalHits : Nat \ {0}, timeToExpireMs : Nat, hit : Nat \ {0}]
Outcomes == {"served", "unauthorised", "refused"}
Verdicts == [outcome : Outcomes, retryAfter : Nat, by : Counters \cup {None}, hit : Nat]

ASSUME NoneAssumption == None \notin Windows \cup Results \cup Verdicts

TypeOK ==
    /\ now \in Nat
    /\ ask \in [Requests -> Asks \cup {None}]
    /\ window \in [Counters -> [Buckets -> Windows \cup {None}]]
    /\ lastSweep \in [Instances -> Nat]
    /\ conn \in [Instances -> Seq(Requests)]
    /\ result \in [Requests -> Results \cup {None}]
    /\ verdict \in [Requests -> Verdicts \cup {None}]
    /\ log \in [Counters -> Seq([request : Requests, at : Nat])]

\* Every instance has been up for longer than a sweep takes to be due.
Init ==
    /\ now = SweepMs
    /\ ask = [r \in Requests |-> None]
    /\ window = [c \in Counters |-> [b \in Buckets |-> None]]
    /\ lastSweep = [p \in Instances |-> 0]
    /\ conn = [p \in Instances |-> <<>>]
    /\ result = [r \in Requests |-> None]
    /\ verdict = [r \in Requests |-> None]
    /\ log = [c \in Counters |-> <<>>]
    /\ resends = 0
    /\ losses = 0

-----------------------------------------------------------------------------
(* Counting a hit.                                                         *)

Opened == [count |-> 1, expiresAt |-> now + WindowMs]

\* HIT_SCRIPT, in one step: a key that has expired is gone.
HitInRedis(b) ==
    LET w == window["redis"][b] IN
    IF w = None \/ now > w.expiresAt THEN Opened ELSE [w EXCEPT !.count = @ + 1]

HitInMemory(p, b) ==
    LET w == window[p][b] IN
    IF w = None \/ w.expiresAt <= now THEN Opened ELSE [w EXCEPT !.count = @ + 1]

SweepDue(p) ==
    \/ now - lastSweep[p] >= SweepMs
    \/ Cardinality({b \in Buckets : window[p][b] # None}) >= SweepSize

\* Variant: the sweep takes the windows that are still open.
SweptOfOpen(p) ==
    [b \in Buckets |->
        IF SweepDue(p) /\ window[p][b] # None /\ window[p][b].expiresAt > now
        THEN None ELSE window[p][b]]

\* maybeEvictExpired: what it leaves, and when it was last done.
Swept(p) ==
    [b \in Buckets |->
        IF SweepDue(p) /\ window[p][b] # None /\ window[p][b].expiresAt <= now
        THEN None ELSE window[p][b]]

SweptAt(p) == IF SweepDue(p) THEN now ELSE lastSweep[p]

Logged(r, c) == log' = [log EXCEPT ![c] = Append(@, [request |-> r, at |-> now])]

-----------------------------------------------------------------------------
(* The verdict: increment of the storage adapter, and the two guards.      *)

\* Variants: the last second is not counted; the request that reaches the budget is
\* refused with those that exceed it.
SecondsBegun(ms) == ms \div Second
OverBudgetEarly(r, totalHits) == totalHits >= Limit(r)

SecondsLeft(ms) == (ms + Second - 1) \div Second
OverBudget(r, totalHits) == totalHits > Limit(r)

\* ApiKeyGuard runs on what the rate limit lets pass.
Operator == {"health", "metrics"}

Passed(a) ==
    IF AuthEnabled /\ a.route \notin Operator /\ a.key \notin ValidKeys
    THEN "unauthorised" ELSE "served"

VerdictOn(r, counter, counted) ==
    [outcome    |-> IF OverBudget(r, counted.totalHits) THEN "refused" ELSE Passed(ask[r]),
     retryAfter |-> SecondsLeft(counted.timeToExpireMs),
     by         |-> counter,
     hit        |-> counted.hit]

Decide(r, counter, counted) ==
    verdict' = [verdict EXCEPT ![r] = VerdictOn(r, counter, counted)]

\* The verdict on a request that nothing counts.
DecideUncounted(r, a) ==
    verdict' = [verdict EXCEPT ![r] =
        [outcome |-> Passed(a), retryAfter |-> 0, by |-> None, hit |-> 0]]

\* What a counter returns for its next hit, with the place of the hit in the history.
Count(c, w) == [totalHits |-> w.count, timeToExpireMs |-> w.expiresAt - now,
                hit |-> Len(log[c]) + 1]

\* Variant: a request that cannot be counted is let through, uncounted.
FallOpen(r, p) ==
    /\ DecideUncounted(r, ask[r])
    /\ UNCHANGED <<window, lastSweep, log>>

\* FailoverRateLimitStore.hit when Redis fails: the memory counts.
FallBack(r, p) ==
    LET b == Bucket(r)
        w == HitInMemory(p, b)
    IN
    /\ window' = [window EXCEPT ![p] = [Swept(p) EXCEPT ![b] = w]]
    /\ lastSweep' = [lastSweep EXCEPT ![p] = SweptAt(p)]
    /\ Logged(r, p)
    /\ Decide(r, p, Count(p, w))

-----------------------------------------------------------------------------
(* A request reaches the guard, on whichever instance it is routed to.     *)

WaitsAt(r, p) == \E i \in DOMAIN conn[p] : conn[p][i] = r
Waiting(r) == \E p \in Instances : WaitsAt(r, p)

Made(r, a) == ask[r] = None /\ ask' = [ask EXCEPT ![r] = a]

\* Health probes are exempt.
Skip(r, a) ==
    /\ Made(r, a)
    /\ ~Limited(a)
    /\ DecideUncounted(r, a)
    /\ UNCHANGED <<now, window, lastSweep, conn, result, log, resends, losses>>

Ask(r, a, p) ==
    /\ Made(r, a)
    /\ Limited(a)
    /\ conn' = [conn EXCEPT ![p] = Append(@, r)]
    /\ UNCHANGED <<now, window, lastSweep, result, verdict, log, resends, losses>>

-----------------------------------------------------------------------------
(* Redis.                                                                  *)

\* The oldest command not executed yet is.
RedisExecutes(p) ==
    \E i \in DOMAIN conn[p] :
        LET r == conn[p][i]
            w == HitInRedis(Bucket(r))
        IN
        /\ result[r] = None
        /\ \A j \in 1 .. i - 1 : result[conn[p][j]] # None
        /\ window' = [window EXCEPT !["redis"][Bucket(r)] = w]
        /\ Logged(r, "redis")
        /\ result' = [result EXCEPT ![r] = Count("redis", w)]
        /\ UNCHANGED <<now, ask, lastSweep, conn, verdict, resends, losses>>

RedisReplies(p) ==
    /\ conn[p] # <<>>
    /\ LET r == Head(conn[p]) IN
       /\ result[r] # None
       /\ Decide(r, "redis", result[r])
    /\ conn' = [conn EXCEPT ![p] = Tail(@)]
    /\ result' = [result EXCEPT ![Head(conn[p])] = None]
    /\ UNCHANGED <<now, ask, window, lastSweep, log, resends, losses>>

\* Variant: the request is forgotten with the error.
RedisRejectsSilently(p) ==
    /\ conn[p] # <<>>
    /\ conn' = [conn EXCEPT ![p] = Tail(@)]
    /\ result' = [result EXCEPT ![Head(conn[p])] = None]
    /\ UNCHANGED <<now, ask, window, lastSweep, verdict, log, resends, losses>>

\* The command fails, executed or not.
RedisRejects(p) ==
    /\ conn[p] # <<>>
    /\ FallBack(Head(conn[p]), p)
    /\ conn' = [conn EXCEPT ![p] = Tail(@)]
    /\ result' = [result EXCEPT ![Head(conn[p])] = None]
    /\ UNCHANGED <<now, ask, resends, losses>>

\* The connection is lost and comes back in time: what was not answered is sent
\* again, executed or not.
Reconnect(p) ==
    /\ resends + losses < MaxFaults
    /\ \E i \in DOMAIN conn[p] : result[conn[p][i]] # None
    /\ result' = [r \in Requests |-> IF WaitsAt(r, p) THEN None ELSE result[r]]
    /\ resends' = resends + 1
    /\ UNCHANGED <<now, ask, window, lastSweep, conn, verdict, log, losses>>

\* Redis restarts, or evicts its keys.
Forget ==
    /\ resends + losses < MaxFaults
    /\ window' = [window EXCEPT !["redis"] = [b \in Buckets |-> None]]
    /\ losses' = losses + 1
    /\ UNCHANGED <<now, ask, lastSweep, conn, result, verdict, log, resends>>

Tick ==
    /\ now < MaxNow
    /\ now' = now + 1
    /\ UNCHANGED <<ask, window, lastSweep, conn, result, verdict, log, resends, losses>>

Next ==
    \/ \E r \in Requests, a \in Asks : Skip(r, a) \/ \E p \in Instances : Ask(r, a, p)
    \/ \E p \in Instances : RedisExecutes(p) \/ RedisReplies(p) \/ RedisRejects(p) \/ Reconnect(p)
    \/ Forget \/ Tick

Spec == Init /\ [][Next]_vars

-----------------------------------------------------------------------------
(* Properties.                                                             *)

LetPass(r) == verdict[r] # None /\ verdict[r].outcome # "refused"
Refused(r) == verdict[r] # None /\ verdict[r].outcome = "refused"

\* The counter whose count decided a request, and when it counted.
By(r) == verdict[r].by
At(r) == log[By(r)][verdict[r].hit].at

\* The hits of a request's bucket on the counter that decided it, by their place.
HitsBeside(r) == {i \in DOMAIN log[By(r)] : Bucket(log[By(r)][i].request) = Bucket(r)}

\* The limiter never stops limiting, whatever Redis does: in any interval as long as a
\* window each counter lets at most two budgets of a bucket pass (the end of one window
\* and the start of the next), and one more whenever Redis loses its memory.  What an
\* instance lets pass is always counted somewhere.
CeilingHolds ==
    \A r \in Requests : LetPass(r) /\ Limited(ask[r]) =>
        /\ By(r) # None
        /\ LET sameSpan == {q \in Requests :
                               /\ LetPass(q) /\ By(q) = By(r) /\ Bucket(q) = Bucket(r)
                               /\ At(q) \in At(r) .. At(r) + WindowMs - 1}
               windows == IF By(r) = "redis" THEN 2 + losses ELSE 2
           IN Cardinality(sameSpan) <= windows * Limit(r)

\* A request is refused only for what its own client asked of its own route: the counter
\* that refuses it was hit more often than the budget allows by that bucket in a window's
\* length before.
RefusedOnlyOverBudget ==
    \A r \in Requests : Refused(r) =>
        Cardinality({i \in HitsBeside(r) :
                        /\ i <= verdict[r].hit
                        /\ log[By(r)][i].at + WindowMs >= At(r)}) > Limit(r)

\* A client that waits longer than Retry-After told it finds the budget replenished: the
\* same counter refuses it again only when others of its bucket have spent that budget
\* since.
RetryAfterHonoured ==
    \A q, r \in Requests :
        /\ Refused(q) /\ Refused(r)
        /\ Bucket(q) = Bucket(r) /\ By(q) = By(r)
        /\ At(r) > At(q) + verdict[q].retryAfter * Second
        => Cardinality({i \in HitsBeside(r) :
                           verdict[q].hit < i /\ i < verdict[r].hit}) >= Limit(r)

\* The memory does not keep windows for ever: after a hit on it, no window that elapsed
\* longer than a sweep interval ago is left.
ElapsedWindowsAreSwept ==
    [][\A p \in Instances, b \in Buckets :
          window'[p] # window[p] /\ window'[p][b] # None
              => window'[p][b].expiresAt + SweepMs > now]_vars

\* No failure of Redis fails or loses a request: it stops waiting for its count with a
\* verdict.
NoRequestLost ==
    [][\A r \in Requests : Waiting(r) /\ ~Waiting(r)' => verdict'[r] # None]_vars

\* openspec/specs/request-rate-limiting: of a client that "issues fewer requests [...]
\* than the configured limit within one window" no request is rejected.
WithinBudgetServed ==
    \A r \in Requests : Refused(r) =>
        Cardinality({q \in Requests : ask[q] # None /\ Bucket(q) = Bucket(r)}) >= Limit(r)

=============================================================================
