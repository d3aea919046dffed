---------------------------- MODULE RequestPipeline ----------------------------
(***************************************************************************)
(* What one process makes of a request, from the first middleware to the   *)
(* end of the response: the middleware of app.setup.ts and of              *)
(* swagger.setup.ts, the global guards in the order app.module.ts imports  *)
(* them, the interceptor, the validation pipe, the handlers of the         *)
(* controllers and the exception filter; and what each of them leaves      *)
(* behind: the answer, the log lines, the sample of the request metrics.   *)
(*                                                                         *)
(* Whether a request is over its budget is RateLimit's matter and free     *)
(* here, and so is what the search engine does.  Health carries the        *)
(* reports of the health routes.  HEAD is a GET to all of this; OPTIONS is *)
(* answered by the CORS middleware and left out.  Express, Nest and the    *)
(* HTTP server are external.                                               *)
(***************************************************************************)
EXTENDS Health, Sequences

CONSTANTS
    Requests,   \* requests in progress at once; each is used again and again
    Calls,      \* what clients ask
    Polls,      \* the calls that keep coming
    Configs,    \* the configurations the process may start under
    SafeIds,    \* inbound X-Request-Id values that match SAFE_ID
    None

Methods == {"GET", "POST"}

ASSUME PipelineAssumption ==
    /\ Reports = Requests
    /\ Polls \subseteq Calls
    /\ \A c \in Calls : /\ DOMAIN c = {"method", "path", "key", "token", "input", "id"}
                        /\ c.method \in Methods
                        /\ {c.key, c.token} \subseteq BOOLEAN
                        /\ c.input \in {"valid", "invalid"}
    /\ \A g \in Configs : /\ DOMAIN g = {"auth", "limiter", "metricsToken"}
                          /\ {g.auth, g.limiter, g.metricsToken} \subseteq BOOLEAN
    /\ None \notin SafeIds

VARIABLES
    config,  \* the configuration of the process
    store,   \* the correlation id each request runs under
    req      \* each request: where it is, and what it has left behind

vars == <<config, store, req, healthVars>>

-----------------------------------------------------------------------------
(* Paths are sequences of segments.                                        *)

ApiPaths == {<<>>, <<"search">>, <<"autocomplete">>, <<"suggest">>, <<"health">>, <<"metrics">>}
Routes == ApiPaths \cup {<<"health", "ready">>, <<"health", "live">>}
(* Where the service mounts the protection of its documentation, and what  *)
(* SwaggerModule serves: the UI (a file of it stands for all), the JSON    *)
(* where it is told to and the YAML where it does by default.              *)
DocsPaths == {<<"docs">>, <<"docs-json">>}
MountedPaths ==
    {<<"docs">>, <<"docs", "swagger-ui-init.js">>, <<"docs-json">>, <<"docs-yaml">>}
OperatorPaths == {<<"health">>, <<"metrics">>}
ExemptPaths == {<<"health">>}
AllowedMethods == {"GET"}

ASSUME PathAssumption == None \notin Routes \cup MountedPaths

MatchesPath(path, prefixes) ==
    \E p \in prefixes : Len(p) <= Len(path) /\ p = SubSeq(path, 1, Len(p))

(* Express compares whole segments: /docs-yaml is not under /docs.         *)
UnderDocs(path) == MatchesPath(path, DocsPaths)

Identified(call) == call.key
ResolveCorrelationId(inbound, generated) == IF inbound \in SafeIds THEN inbound ELSE generated
\* Variant: one current id for the process instead of one per request.
RunWithGlobalId(r, id) == [q \in Requests |-> id]
RunWithCorrelationId(r, id) == [store EXCEPT ![r] = id]

-----------------------------------------------------------------------------
(* What can be thrown, and what the filter makes of it.                    *)

Http(status) == [classes |-> {"HttpException"}, status |-> status]
Thrown ==
    [budget  |-> Http(429), key |-> Http(401), token |-> Http(401),
     route   |-> Http(404), input |-> Http(400), pageSize |-> Http(400),
     window  |-> [classes |-> {"ApplicationError", "ResultWindowExceededError"}, status |-> None],
     mapping |-> [classes |-> {"ApplicationError", "UpstreamResponseError"}, status |-> None],
     query   |-> [classes |-> {"ElasticsearchClientError", "ResponseError"}, status |-> 400],
     engine  |-> [classes |-> {"ElasticsearchClientError", "ResponseError"}, status |-> 404],
     network |-> [classes |-> {"ElasticsearchClientError"}, status |-> None],
     bug     |-> [classes |-> {}, status |-> None]]

(* The classes the filter asks for, in its order; the first that fits      *)
(* decides.                                                                *)
\* Variant: a base class is asked for before its subclasses.
LadderBaseFirst == <<"HttpException", "ApplicationError", "DomainError",
                     "ResultWindowExceededError", "UpstreamResponseError",
                     "ResponseError", "ElasticsearchClientError">>
Ladder == <<"HttpException", "ResultWindowExceededError", "UpstreamResponseError",
            "ApplicationError", "DomainError", "ResponseError", "ElasticsearchClientError">>

FromElasticsearchResponse(status) == IF status = 400 THEN 400 ELSE 502

ResolveError(e) ==
    LET fits == {i \in DOMAIN Ladder : Ladder[i] \in e.classes}
        first == CHOOSE i \in fits : \A j \in fits : i <= j
    IN IF fits = {} THEN 500
       ELSE CASE Ladder[first] = "HttpException" -> e.status
              [] Ladder[first] = "ResultWindowExceededError" -> 422
              [] Ladder[first] = "UpstreamResponseError" -> 502
              [] Ladder[first] \in {"ApplicationError", "DomainError"} -> 400
              [] Ladder[first] = "ResponseError" -> FromElasticsearchResponse(e.status)
              [] Ladder[first] = "ElasticsearchClientError" -> 503

\* Variant: the upgrade forgets to ask for a key.
EveryoneMayKnowRoutes(call) == TRUE
MayKnowRoutes(call) == ~config.auth \/ Identified(call)

UpgradeMethodNotAllowed(call, status) ==
    IF /\ status = 404
       /\ call.path \in ApiPaths
       /\ call.method \notin AllowedMethods
       /\ MayKnowRoutes(call)
    THEN 405 ELSE status

LevelOf(status) == IF status >= 500 THEN "error" ELSE "warn"

-----------------------------------------------------------------------------
(* What handlers may throw once they run.                                  *)

EngineErrors == {"query", "engine", "network", "bug"}
Throws(path) ==
    IF path = <<"search">> THEN EngineErrors \cup {"pageSize", "window", "mapping"}
    ELSE EngineErrors
AsksEngine == {<<"search">>, <<"autocomplete">>, <<"suggest">>}
Reporting == {<<"health">>, <<"health", "ready">>}
ProbesOf(path) == IF path = <<"health">> THEN FullReport ELSE Readiness

(* Nest runs the global guards in the order their modules are imported.    *)
\* Variant: authentication is imported before rate limiting.
GuardsKeyFirst == <<"ApiKeyGuard", "RateLimitGuard">>
Guards == <<"RateLimitGuard", "ApiKeyGuard">>

-----------------------------------------------------------------------------

Places == {"free", "docs limiter", "guards", "handler", "engine", "probes",
           "answered", "done"}
Over(r) == req[r].at \in {"free", "done"}

Nobody == [method |-> "GET", path |-> <<>>, key |-> FALSE, token |-> FALSE,
           input |-> "valid", id |-> None]
Fresh(call, id) ==
    [at |-> "free", call |-> call, id |-> id, left |-> Guards, route |-> None,
     counted |-> FALSE, ran |-> FALSE, cause |-> "none", status |-> None,
     lines |-> {}, sample |-> None]

Init ==
    /\ config \in Configs
    /\ store = [r \in Requests |-> None]
    /\ req = [r \in Requests |-> Fresh(Nobody, None)]
    /\ HealthInit

Set(r, changed) == req' = [req EXCEPT ![r] = changed]

(* Every line is written by the logger, which asks the store for the id.   *)
Line(by, says, id) == [by |-> by, says |-> says, id |-> id]

\* Variant: the line is written before the upgrade to 405.
FailedLoggedAsThrown(request, cause, id) ==
    LET thrown == ResolveError(Thrown[cause])
    IN [request EXCEPT !.at = "answered", !.cause = cause,
          !.status = UpgradeMethodNotAllowed(request.call, thrown),
          !.lines = @ \cup {Line("AllExceptionsFilter", <<LevelOf(thrown), thrown>>, id)}]

(* AllExceptionsFilter.catch: one line, one answer.                        *)
Failed(request, cause, id) ==
    LET status == UpgradeMethodNotAllowed(request.call, ResolveError(Thrown[cause]))
    IN [request EXCEPT !.at = "answered", !.cause = cause, !.status = status,
          !.lines = @ \cup {Line("AllExceptionsFilter", <<LevelOf(status), status>>, id)}]

(* LoggingInterceptor: a line for a success, unless an operator asked.     *)
Succeeded(request, status, id) ==
    [request EXCEPT !.at = "answered", !.status = status,
       !.lines = IF MatchesPath(request.call.path, OperatorPaths) THEN @
                 ELSE @ \cup {Line("HTTP", <<"info", status>>, id)}]

(* Refused before Nest: the answer is written by hand.                     *)
ByHand(request, cause) ==
    [request EXCEPT !.at = "answered", !.cause = cause, !.status = Thrown[cause].status]

-----------------------------------------------------------------------------
(* Express runs one layer after the other; each says what comes of the     *)
(* request.                                                                *)

ToRouter(request, id) ==
    IF request.call.method = "GET" /\ request.call.path \in Routes
    THEN [request EXCEPT !.at = "guards", !.route = request.call.path]
    ELSE Failed(request, "route", id)

ToDocs(request, id) ==
    IF request.call.method = "GET" /\ request.call.path \in MountedPaths
    THEN [request EXCEPT !.at = "answered", !.route = request.call.path,
                         !.ran = TRUE, !.status = 200]
    ELSE ToRouter(request, id)

ToDocsKey(request, id) ==
    IF Identified(request.call) THEN ToDocs(request, id) ELSE ByHand(request, "key")

(* The documentation is guarded only while authentication is on.           *)
ToFirstLayer(request, id) ==
    IF ~UnderDocs(request.call.path) \/ ~config.auth THEN ToDocs(request, id)
    ELSE IF ~config.limiter THEN ToDocsKey(request, id)
    ELSE [request EXCEPT !.at = "docs limiter"]

(* correlationIdMiddleware, then metricsMiddleware, whose sample waits for *)
(* the response to finish; then, at once, as far as the first await.       *)
Arrive(r, call) ==
    /\ Over(r)
    /\ LET id == ResolveCorrelationId(call.id, <<"generated", r>>) IN
         /\ store' = RunWithCorrelationId(r, id)
         /\ Set(r, ToFirstLayer(Fresh(call, id), id))
    /\ UNCHANGED <<config, healthVars>>

CountDocs(r) ==
    /\ req[r].at = "docs limiter"
    /\ LET counted == [req[r] EXCEPT !.counted = TRUE] IN
         \/ Set(r, ToDocsKey(counted, store[r]))
         \/ Set(r, ByHand(counted, "budget"))
    /\ UNCHANGED <<config, store, healthVars>>

-----------------------------------------------------------------------------
(* Nest: guards, pipe, handler.                                            *)

Guarding(r, guard) == req[r].at = "guards" /\ req[r].left # <<>> /\ Head(req[r].left) = guard
Passed(request) ==
    [request EXCEPT !.left = Tail(@), !.at = IF Tail(request.left) = <<>> THEN "handler" ELSE @]

Limited(call) == config.limiter /\ ~MatchesPath(call.path, ExemptPaths)

RateLimitGuard(r) ==
    /\ Guarding(r, "RateLimitGuard")
    /\ IF Limited(req[r].call)
       THEN LET counted == [req[r] EXCEPT !.counted = TRUE]
            IN Set(r, Passed(counted)) \/ Set(r, Failed(counted, "budget", store[r]))
       ELSE Set(r, Passed(req[r]))
    /\ UNCHANGED <<config, store, healthVars>>

NeedsKey(call) == config.auth /\ ~MatchesPath(call.path, OperatorPaths)

ApiKeyGuard(r) ==
    /\ Guarding(r, "ApiKeyGuard")
    /\ IF NeedsKey(req[r].call) /\ ~Identified(req[r].call)
       THEN Set(r, Failed(req[r], "key", store[r]))
       ELSE Set(r, Passed(req[r]))
    /\ UNCHANGED <<config, store, healthVars>>

(* What a handler does at once: refuse the input or the token, answer, or  *)
(* start to wait.                                                          *)
Handle(r) ==
    LET path == req[r].call.path
        ran == [req[r] EXCEPT !.ran = TRUE]
    IN
    /\ req[r].at = "handler"
    /\ UNCHANGED <<config, store>>
    /\ \/ /\ path \in AsksEngine
          /\ IF req[r].call.input = "invalid" THEN Set(r, Failed(req[r], "input", store[r]))
             ELSE Set(r, [ran EXCEPT !.at = "engine"])
          /\ UNCHANGED healthVars
       \/ /\ path = <<"metrics">>
          /\ IF config.metricsToken /\ ~req[r].call.token THEN Set(r, Failed(req[r], "token", store[r]))
             ELSE Set(r, Succeeded(ran, 200, store[r]))
          /\ UNCHANGED healthVars
       \/ /\ path \in {<<>>, <<"health", "live">>}
          /\ Set(r, Succeeded(ran, 200, store[r]))
          /\ UNCHANGED healthVars
       \/ /\ path \in Reporting
          /\ Set(r, [ran EXCEPT !.at = "probes"])
          /\ StartReport(r, ProbesOf(path))

(* The cache or the engine answers, or something throws.                   *)
Respond(r) ==
    /\ req[r].at = "engine"
    /\ \/ Set(r, Succeeded(req[r], 200, store[r]))
       \/ \E cause \in Throws(req[r].call.path) : Set(r, Failed(req[r], cause, store[r]))
    /\ UNCHANGED <<config, store, healthVars>>

(* HealthController.render: no exception, whatever the verdict.            *)
Render(r) ==
    /\ req[r].at = "probes"
    /\ \E statuses \in Settled(r) :
         LET changes == Transitions(statuses)
             lines == {Line("CheckHealth", <<"is down", d>>, store[r]) : d \in changes.down}
                        \cup {Line("CheckHealth", <<"recovered", d>>, store[r]) :
                                 d \in changes.recovered}
         IN /\ FinishReport(r, statuses)
            /\ Set(r, Succeeded([req[r] EXCEPT !.lines = @ \cup lines],
                                IF Verdict(statuses) = "ok" THEN 200 ELSE 503, store[r]))
    /\ UNCHANGED <<config, store>>

Unmatched == <<"unmatched">>
RouteLabel(route) == IF route = None THEN Unmatched ELSE route

(* The response has been handed to the network: it is measured, and        *)
(* nothing else of the request is left.                                    *)
Finish(r) ==
    /\ req[r].at = "answered"
    /\ Set(r, [Fresh(req[r].call, req[r].id) EXCEPT
                 !.at = "done", !.counted = req[r].counted, !.ran = req[r].ran,
                 !.status = req[r].status,
                 !.sample = [route |-> RouteLabel(req[r].route), status |-> req[r].status]])
    /\ UNCHANGED <<config, store, healthVars>>

(* The client has left, at whatever moment: nothing here looks at that     *)
(* until the response ends, and then it never finishes.                    *)
Leave(r) ==
    /\ req[r].at = "answered"
    /\ Set(r, Fresh(Nobody, None))
    /\ UNCHANGED <<config, store, healthVars>>

Fails(d) ==
    /\ Change(d)
    /\ UNCHANGED <<config, store, req>>

Step(r) ==
    \/ CountDocs(r) \/ RateLimitGuard(r) \/ ApiKeyGuard(r)
    \/ Handle(r) \/ Respond(r) \/ Render(r)
    \/ Finish(r) \/ Leave(r)

Next ==
    \/ \E r \in Requests : Step(r) \/ \E call \in Calls : Arrive(r, call)
    \/ \E d \in Dependencies : Fails(d)

(* A promise that is awaited settles: the clients have timeouts.  The      *)
(* platform and the monitor keep asking.                                   *)
Fairness ==
    /\ \A r \in Requests : WF_vars(Step(r))
    /\ \A call \in Polls : SF_vars(\E r \in Requests : Arrive(r, call))

Spec == Init /\ [][Next]_vars /\ Fairness

-----------------------------------------------------------------------------
(* Properties                                                              *)

LineTypes == [by : {"AllExceptionsFilter", "HTTP", "CheckHealth"},
              says : {"error", "warn", "info"} \X (200..599)
                     \cup {"is down", "recovered"} \X Dependencies,
              id : SafeIds \cup {<<"generated", r>> : r \in Requests}]

(* Every variable keeps its type.                                          *)
TypeOK ==
    /\ config \in Configs
    /\ up \subseteq Dependencies /\ downDependencies \subseteq Dependencies
    /\ \A r \in Requests :
         /\ req[r].at \in Places
         /\ req[r].call \in Calls \cup {Nobody}
         /\ req[r].status \in {None} \cup 200..599
         /\ req[r].lines \subseteq LineTypes
         /\ DOMAIN witnessed[r] \subseteq Dependencies
         /\ witnessed[r] \in [DOMAIN witnessed[r] -> SUBSET Statuses]

Answered(r) == req[r].at = "answered"
LinesBy(r, writers) == {line \in req[r].lines : line.by \in writers}
RequestLines(r) == LinesBy(r, {"HTTP", "AllExceptionsFilter"})
ByNest(r) == ~UnderDocs(req[r].call.path) \/ req[r].cause = "route"

(* The answer, the log and the metrics tell one story: at most one line    *)
(* tells of the request, with the status it was answered with; a failure   *)
(* Nest handled has its line at the level its status calls for; and the    *)
(* sample has that status, and a route if and only if one was found.       *)
AccountsAgree ==
    \A r \in Requests :
        /\ req[r].at = "answered" =>
              /\ Cardinality(RequestLines(r)) <= 1
              /\ \A line \in RequestLines(r) : line.says[2] = req[r].status
              /\ ByNest(r) /\ req[r].cause # "none" =>
                    \E line \in RequestLines(r) :
                       line.says[1] = IF req[r].status \in 500..599 THEN "error" ELSE "warn"
        /\ req[r].at = "done" =>
              /\ req[r].sample.status = req[r].status
              /\ req[r].sample.route \in {Unmatched, req[r].call.path}
              /\ req[r].sample.route = Unmatched => ~req[r].ran
              /\ req[r].status \in {404, 405} => req[r].sample.route = Unmatched

(* Every line a request leaves, in whatever layer and beside whatever      *)
(* other requests, carries the id its client was given.                    *)
LinesTraceable ==
    \A r \in Requests : \A line \in req[r].lines : line.id = req[r].id

Client == {"budget", "key", "token", "route", "input", "pageSize", "window", "query"}
Engine == {"mapping", "engine", "network"}

(* A failure is blamed on whoever caused it: what the client asked for is  *)
(* a 4xx, what the engine did a 502 or a 503, and only our own faults are  *)
(* a 500.                                                                  *)
BlameFollowsCause ==
    \A r \in Requests : Answered(r) /\ req[r].cause # "none" =>
        req[r].status \in IF req[r].cause \in Client THEN 400..499
                          ELSE IF req[r].cause \in Engine THEN {502, 503} ELSE {500}

Unguarded == {path \in MountedPaths : ~UnderDocs(path)}

(* What is limited is counted before it is served and before it is refused *)
(* for its key, token or input, and what needs a key is served with one:   *)
(* everything but the operators' own paths, whether Nest's guards protect  *)
(* it or the middleware of the documentation -- and but the copy of the    *)
(* contract at /docs-yaml, which SwaggerModule mounts and neither protects *)
(* (setupOpenApi).                                                         *)
NothingForFree ==
    \A r \in Requests :
        LET call == req[r].call
            limited == IF UnderDocs(call.path) THEN config.auth /\ config.limiter
                       ELSE Limited(call)
        IN call.path \notin Unguarded =>
             /\ (req[r].ran \/ req[r].cause \in {"key", "token", "input"}) /\ limited => req[r].counted
             /\ req[r].ran /\ NeedsKey(call) => Identified(call)

(* While keys are asked for, a verb that no route takes does not tell      *)
(* callers without a key where routes are: wherever they send it, to the   *)
(* documentation excepted, the answer is the same.  (A GET does tell: 401  *)
(* where there is a route and 404 where there is none.)                    *)
WrongVerbsHideRoutes ==
    \A r, s \in Requests :
        (/\ config.auth /\ Answered(r) /\ Answered(s)
         /\ \A q \in {r, s} : /\ req[q].call.method \notin AllowedMethods
                              /\ ~UnderDocs(req[q].call.path)
                              /\ ~req[q].call.key)
        => req[r].status = req[s].status

(* A verdict is about its own report: ready only if each critical          *)
(* dependency was up at some moment since it was asked, not ready only if  *)
(* one of them was down at some moment, whatever the others do and         *)
(* whatever other reports have noted meanwhile.                            *)
VerdictWitnessed ==
    [][\A r \in Requests :
         req[r].at = "probes" /\ req'[r].at = "answered" =>
           IF req'[r].status = 200
           THEN \A d \in Critical : "up" \in witnessed[r][d]
           ELSE \E d \in Critical : "down" \in witnessed[r][d]]_vars

(* An outage that lasts is noted, in spite of reports that were under way  *)
(* when it began and still tell of the time before.                        *)
LastingOutageNoted ==
    \A d \in Dependencies : <>[](d \notin up) => <>[](d \in downDependencies)

=============================================================================
