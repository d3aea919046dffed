------------------------------ MODULE CacheAside ------------------------------
(***************************************************************************)
(* Search and autocomplete answers, cached in a Redis that several         *)
(* processes share (application/caching).                                  *)
(*                                                                         *)
(* A request reads the cache; on a miss it joins the load of its key that  *)
(* its own process has in flight, or starts one, whose answer is written   *)
(* to the cache before anyone waiting for it gets it.  Each process talks  *)
(* to Redis over one connection that answers in the order it is asked.     *)
(* Errors of the cache are misses; errors of the load are the request's.   *)
(*                                                                         *)
(* Redis, which executes commands, loses connections and expires entries   *)
(* whenever it likes (withJitter makes the moment of it random anyway),    *)
(* and Elasticsearch are external to the repository.                       *)
(***************************************************************************)
EXTENDS Naturals, Sequences

CONSTANTS
    Requests,     \* requests of clients, each made once
    Processes,    \* processes of the service
    Process,      \* the process that receives each request
    Question,     \* what each request asks, normalised
    Deployments,  \* what a process may be started with: configuration and payload shape
    None          \* no request, no entry, no answer

\* A deployment's ttl is 0 to disable the cache; it accepts the shape it writes.
ASSUME DeploymentAssumption ==
    /\ Process \in [Requests -> Processes]
    /\ DOMAIN Question = Requests
    /\ \A d \in Deployments :
          /\ DOMAIN d = {"config", "shape", "accepts", "ttl"}
          /\ DOMAIN d.config = {"index", "relevance", "suggestMaxHits"}
          /\ d.ttl \in Nat
          /\ d.shape \in d.accepts
    /\ None \notin Requests

VARIABLES
    deploy,    \* what each process runs
    pc,        \* the progress of each request
    inFlight,  \* the request that loads a key, per process
    conn,      \* the commands each process awaits an answer to, oldest first
    cache,     \* the entries in Redis
    answer     \* what each request was answered

vars == <<deploy, pc, inFlight, conn, cache, answer>>

Ended == {"served", "failed", "dropped"}
Working == {"reading", "loading", "writing", "joined"}

(* What an answer was computed from, and the shape of its payload.         *)
Answer(d, question) == [question |-> question, config |-> d.config, shape |-> d.shape]

Answers == {Answer(d, Question[r]) : d \in Deployments, r \in Requests}

(* searchCacheScope, and the key built with it.  A variant leaves the       *)
(* relevance settings out, as autocompleteCacheScope rightly does.          *)
ScopeOfIndex(d) == [index |-> d.config.index]

Scope(d) == [index |-> d.config.index, relevance |-> d.config.relevance]

KeyUnder(d, r) == [question |-> Question[r], scope |-> Scope(d)]
Key(r) == KeyUnder(deploy[Process[r]], r)

Keys == {KeyUnder(d, r) : d \in Deployments, r \in Requests}

Entry == [answer : Answers, by : Processes]

Command == [request : Requests, kind : {"get", "set"}, done : BOOLEAN,
            got : Entry \cup {None}]

TypeOK ==
    /\ deploy \in [Processes -> Deployments]
    /\ pc \in [Requests -> {"new"} \cup Working \cup Ended]
    /\ inFlight \in [Processes -> [Keys -> Requests \cup {None}]]
    /\ conn \in [Processes -> Seq(Command)]
    /\ cache \in [Keys -> Entry \cup {None}]
    /\ answer \in [Requests -> Answers \cup {None}]

Init ==
    /\ deploy \in [Processes -> Deployments]
    /\ pc = [r \in Requests |-> "new"]
    /\ inFlight = [p \in Processes |-> [k \in Keys |-> None]]
    /\ conn = [p \in Processes |-> <<>>]
    /\ cache = [k \in Keys |-> None]
    /\ answer = [r \in Requests |-> None]

-----------------------------------------------------------------------------
(* cacheAside                                                              *)

Send(r, kind) ==
    conn' = [conn EXCEPT ![Process[r]] =
                Append(@, [request |-> r, kind |-> kind, done |-> FALSE, got |-> None])]

\* Variant: every miss loads.
LoadAlways(r) ==
    /\ pc' = [pc EXCEPT ![r] = "loading"]
    /\ inFlight' = [inFlight EXCEPT ![Process[r]][Key(r)] = r]
    /\ UNCHANGED answer

\* singleFlight: the load this process has in flight for the key, or a new one.
JoinOrLoad(r) ==
    LET p == Process[r] IN
    /\ IF inFlight[p][Key(r)] # None
       THEN pc' = [pc EXCEPT ![r] = "joined"] /\ UNCHANGED inFlight
       ELSE /\ pc' = [pc EXCEPT ![r] = "loading"]
            /\ inFlight' = [inFlight EXCEPT ![p][Key(r)] = r]
    /\ UNCHANGED answer

\* The shared promise of the load settles: it leaves the map, and everyone who
\* holds it gets the same outcome.
Sharing(r) ==
    {r} \cup {q \in Requests : Process[q] = Process[r] /\ Key(q) = Key(r) /\ pc[q] = "joined"}

Settle(r, outcome, value) ==
    LET sharing == Sharing(r) IN
    /\ inFlight' = [inFlight EXCEPT ![Process[r]][Key(r)] = None]
    /\ pc' = [q \in Requests |-> IF q \in sharing THEN outcome ELSE pc[q]]
    /\ answer' = [q \in Requests |-> IF q \in sharing THEN value ELSE answer[q]]

\* A zero ttl bypasses the cache.  A command sent while Redis is disconnected fails
\* at once (enableOfflineQueue is false), and a failed read is a miss.
Arrive(r) ==
    /\ pc[r] = "new"
    /\ \/ /\ deploy[Process[r]].ttl > 0
          /\ Send(r, "get")
          /\ pc' = [pc EXCEPT ![r] = "reading"]
          /\ UNCHANGED <<inFlight, answer>>
       \/ JoinOrLoad(r) /\ UNCHANGED conn
    /\ UNCHANGED <<deploy, cache>>

\* Variant: whatever is read is served.
ReadTrusted(r, entry) ==
    IF entry # None
    THEN /\ pc' = [pc EXCEPT ![r] = "served"]
         /\ answer' = [answer EXCEPT ![r] = entry.answer]
         /\ UNCHANGED inFlight
    ELSE JoinOrLoad(r)

\* readThrough: an entry of an accepted shape is the answer; no entry, one of another
\* shape and an error are misses.
ReadAnswered(r, entry) ==
    IF entry # None /\ entry.answer.shape \in deploy[Process[r]].accepts
    THEN /\ pc' = [pc EXCEPT ![r] = "served"]
         /\ answer' = [answer EXCEPT ![r] = entry.answer]
         /\ UNCHANGED inFlight
    ELSE JoinOrLoad(r)

-----------------------------------------------------------------------------
(* Elasticsearch answers a load, or fails it.                              *)

\* Variant: the load leaves the map when it is answered, not when it is written.
LoadAnsweredEarly(r) ==
    /\ pc[r] = "loading"
    /\ answer' = [answer EXCEPT ![r] = Answer(deploy[Process[r]], Question[r])]
    /\ pc' = [pc EXCEPT ![r] = "writing"]
    /\ inFlight' = [inFlight EXCEPT ![Process[r]][Key(r)] = None]
    /\ deploy[Process[r]].ttl > 0
    /\ Send(r, "set")
    /\ UNCHANGED <<deploy, cache>>

\* The answer is written through before the load's promise resolves.  With no cache,
\* or one that is disconnected, there is nothing to wait for.
LoadAnswered(r) ==
    /\ pc[r] = "loading"
    /\ answer' = [answer EXCEPT ![r] = Answer(deploy[Process[r]], Question[r])]
    /\ pc' = [pc EXCEPT ![r] = "writing"]
    /\ deploy[Process[r]].ttl > 0
    /\ Send(r, "set")
    /\ UNCHANGED <<deploy, inFlight, cache>>

LoadAnsweredUncached(r) ==
    /\ pc[r] = "loading"
    /\ Settle(r, "served", Answer(deploy[Process[r]], Question[r]))
    /\ UNCHANGED <<deploy, conn, cache>>

\* Variant: a failed load stays in the map.
LoadFailedKept(r) ==
    /\ pc[r] = "loading"
    /\ pc' = [pc EXCEPT ![r] = "failed"]
    /\ UNCHANGED <<deploy, inFlight, conn, cache, answer>>

LoadFailed(r) ==
    /\ pc[r] = "loading"
    /\ Settle(r, "failed", None)
    /\ UNCHANGED <<deploy, conn, cache>>

-----------------------------------------------------------------------------
(* Redis                                                                   *)

\* The oldest command not executed yet is.
RedisExecutes(p) ==
    \E i \in DOMAIN conn[p] :
        /\ ~conn[p][i].done
        /\ \A j \in 1 .. i - 1 : conn[p][j].done
        /\ LET r == conn[p][i].request IN
           \/ /\ conn[p][i].kind = "get"
              /\ conn' = [conn EXCEPT ![p][i].done = TRUE, ![p][i].got = cache[Key(r)]]
              /\ UNCHANGED cache
           \/ /\ conn[p][i].kind = "set"
              /\ conn' = [conn EXCEPT ![p][i].done = TRUE]
              /\ cache' = [cache EXCEPT ![Key(r)] =
                             [answer |-> answer[r], by |-> p]]
        /\ UNCHANGED <<deploy, pc, inFlight, answer>>

\* The oldest command is answered.
RedisReplies(p) ==
    /\ conn[p] # <<>>
    /\ LET command == Head(conn[p]) IN
       /\ command.done
       /\ \/ command.kind = "get" /\ ReadAnswered(command.request, command.got)
          \/ /\ command.kind = "set"
             /\ Settle(command.request, "served", answer[command.request])
    /\ conn' = [conn EXCEPT ![p] = Tail(@)]
    /\ UNCHANGED <<deploy, cache>>

\* Variant: a cache error is the request's.
RedisRejectsRequest(p) ==
    /\ conn[p] # <<>>
    /\ Settle(Head(conn[p]).request, "failed", None)
    /\ conn' = [conn EXCEPT ![p] = Tail(@)]
    /\ UNCHANGED <<deploy, cache>>

\* The oldest command is rejected, executed or not.  A lost connection rejects all
\* commands, in their order.
RedisRejects(p) ==
    /\ conn[p] # <<>>
    /\ LET command == Head(conn[p]) IN
       \/ command.kind = "get" /\ ReadAnswered(command.request, None)
       \/ /\ command.kind = "set"
          /\ Settle(command.request, "served", answer[command.request])
    /\ conn' = [conn EXCEPT ![p] = Tail(@)]
    /\ UNCHANGED <<deploy, cache>>

\* The connection is lost and comes back in time: the client sends again what was not
\* answered, executed or not, in its order (maxRetriesPerRequest is 1).
Reconnect(p) ==
    /\ \E i \in DOMAIN conn[p] : conn[p][i].done
    /\ conn' = [conn EXCEPT ![p] =
                   [i \in DOMAIN @ |-> [@[i] EXCEPT !.done = FALSE, !.got = None]]]
    /\ UNCHANGED <<deploy, pc, inFlight, cache, answer>>

Expire(k) ==
    /\ cache[k] # None
    /\ cache' = [cache EXCEPT ![k] = None]
    /\ UNCHANGED <<deploy, pc, inFlight, conn, answer>>

-----------------------------------------------------------------------------
\* The process dies with what it was doing, and its next deployment starts.
Restart(p, d) ==
    /\ \E r \in Requests : Process[r] = p /\ pc[r] # "new"
    /\ deploy' = [deploy EXCEPT ![p] = d]
    /\ pc' = [r \in Requests |-> IF Process[r] = p /\ pc[r] \in Working
                                 THEN "dropped" ELSE pc[r]]
    /\ inFlight' = [inFlight EXCEPT ![p] = [k \in Keys |-> None]]
    /\ conn' = [conn EXCEPT ![p] = <<>>]
    /\ UNCHANGED <<cache, answer>>

Load(r) == LoadAnswered(r) \/ LoadAnsweredUncached(r) \/ LoadFailed(r)

Redis(p) == RedisExecutes(p) \/ RedisReplies(p) \/ RedisRejects(p) \/ Reconnect(p)

Next ==
    \/ \E r \in Requests : Arrive(r) \/ Load(r)
    \/ \E p \in Processes : Redis(p) \/ \E d \in Deployments : Restart(p, d)
    \/ \E k \in Keys : Expire(k)

(* Every process keeps getting outcomes of what it awaits: Elasticsearch   *)
(* answers or the client's timeout fails the load, Redis answers or the    *)
(* connection is given up.                                                 *)
Outcome(p) ==
    \/ \E r \in Requests : Process[r] = p /\ Load(r)
    \/ RedisReplies(p) \/ RedisRejects(p)

Fairness == \A p \in Processes : WF_vars(Outcome(p))

Spec == Init /\ [][Next]_vars /\ Fairness

-----------------------------------------------------------------------------
(* Properties.                                                             *)

\* The in-flight map is exact: whoever loads or writes a key is in it, so that a
\* process has at most one load of a key at a time, and nobody waits for a load that
\* is over or was never started.
SingleFlight ==
    \A r \in Requests :
        LET leader == inFlight[Process[r]][Key(r)] IN
        /\ pc[r] \in {"loading", "writing"} => leader = r
        /\ pc[r] = "joined" =>
              leader # None /\ Process[leader] = Process[r] /\ pc[leader] \in {"loading", "writing"}

\* A read that found nothing does not start a load once its process has written that
\* very entry: the load stays in flight until its write is answered, and Redis answers
\* the earlier read before it.
NoRedundantLoad ==
    [][\A r \in Requests :
          LET p == Process[r]
              foundNothing == Head(conn[p]).done /\ Head(conn[p]).got = None
              entryIsThere == /\ cache[Key(r)] # None
                              /\ cache[Key(r)].by = p
                              /\ cache[Key(r)].answer.shape = deploy[p].shape
          IN pc[r] = "reading" /\ pc'[r] = "loading" /\ foundNothing => ~entryIsThere]_vars

\* Whatever processes share the cache, and whatever they ran before, a request is
\* answered what it asks, from its own index under its own relevance settings, in a
\* shape its process accepts.
ServedIsOwn ==
    [][\A r \in Requests :
          pc[r] # "served" /\ pc'[r] = "served"
              => /\ answer'[r].question = Question[r]
                 /\ answer'[r].config.index = deploy[Process[r]].config.index
                 /\ answer'[r].config.relevance = deploy[Process[r]].config.relevance
                 /\ answer'[r].shape \in deploy[Process[r]].accepts]_vars

\* No cache error ever fails a request: it fails only together with the load that it
\* started or joined, at the moment that load fails.
FailsOnlyWithItsLoad ==
    [][\A r \in Requests :
          pc[r] # "failed" /\ pc'[r] = "failed"
              => \E q \in Requests :
                    /\ inFlight[Process[r]][Key(r)] = q
                    /\ pc[q] = "loading" /\ pc'[q] = "failed"]_vars

\* Every request ends, whichever load it joined and however the cache misbehaves.
EveryRequestEnds ==
    \A r \in Requests : pc[r] \in Working ~> pc[r] \in Ended

-----------------------------------------------------------------------------
(* To its clients a request waits or has ended; what they are given comes  *)
(* from Redis, from a command that read it there, or from a load.          *)

Status == [r \in Requests |-> IF pc[r] \in Working THEN "waiting" ELSE pc[r]]

Given == [r \in Requests |-> IF pc[r] = "served" THEN answer[r] ELSE None]

Stored == {cache[k].answer : k \in {k \in Keys : cache[k] # None}}
Fetched(p) == {conn[p][i].got.answer : i \in {i \in DOMAIN conn[p] : conn[p][i].got # None}}
Unwritten == {answer[r] : r \in {r \in Requests : pc[r] = "writing"}}

Clients == INSTANCE PromisedAnswers WITH
    status <- Status,
    given  <- Given,
    asking <- {r \in Requests : pc[r] = "loading"},
    known  <- Stored \cup Unwritten \cup UNION {Fetched(p) : p \in Processes}

\* However the cache misbehaves, and whatever the processes that share it ran before,
\* clients get what they would get without it: answers the engine gave to their own
\* question, computed once at a time, and a failure only when the engine fails
\* (cacheAside, singleFlight, readThrough, writeThrough).
ImplementsPromisedAnswers == Clients!Spec

=============================================================================
