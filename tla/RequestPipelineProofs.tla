------------------------- MODULE RequestPipelineProofs -------------------------
(***************************************************************************)
(* What becomes of a request, proved for any calls, any number of requests *)
(* at once, any configurations and any dependencies.  Fits says what holds *)
(* of a request at each of its places; nobody else touches it, so a step   *)
(* has to be looked at for one request only (OneMoves).                    *)
(***************************************************************************)
EXTENDS RequestPipeline, FiniteSetTheorems, TLAPS

-----------------------------------------------------------------------------
(* The record of a request.                                                *)

Ids == SafeIds \cup {<<"generated", r>> : r \in Requests}
Causes == DOMAIN Thrown
Samples == [route : {Unmatched} \cup Routes \cup MountedPaths, status : 200..599]

\* The values of its fields, each of them also what a fresh record has there.
CallsOrNobody == Calls \cup {Nobody}
IdsOrNone == Ids \cup {None}
GuardsLeft == {Guards, Tail(Guards), Tail(Tail(Guards))}
RoutesOrNone == {None} \cup Routes \cup MountedPaths
CausesOrNone == Causes \cup {"none"}
CodesOrNone == {None} \cup 200..599
LineSets == SUBSET LineTypes
SamplesOrNone == {None} \cup Samples
Records ==
    [at : Places, call : CallsOrNobody, id : IdsOrNone, left : GuardsLeft, route : RoutesOrNone,
     counted : BOOLEAN, ran : BOOLEAN, cause : CausesOrNone, status : CodesOrNone,
     lines : LineSets, sample : SamplesOrNone]

\* The status each cause has before the upgrade to 405.
Code == [budget |-> 429, key |-> 401, token |-> 401, route |-> 404, input |-> 400,
         pageSize |-> 400, window |-> 422, mapping |-> 502, query |-> 400, engine |-> 502,
         network |-> 503, bug |-> 500]

Unsettled(q) == q.cause = "none" /\ q.lines = {}
Unserved(q) == Unsettled(q) /\ ~q.ran /\ q.route = None
AtRoute(q) == q.call.method = "GET" /\ q.call.path \in Routes /\ q.route = q.call.path
Paid(q) == Limited(q.call) => q.counted
Keyed(q) == NeedsKey(q.call) => Identified(q.call)

Account(q) == {line \in q.lines : line.by \in {"HTTP", "AllExceptionsFilter"}}
Handled(q) == ~UnderDocs(q.call.path) \/ q.cause = "route"
Blame(cause) ==
    IF cause \in Client THEN 400..499 ELSE IF cause \in Engine THEN {502, 503} ELSE {500}
DocsPaid(q) == config.auth /\ config.limiter => q.counted

\* The answer of a request, and the lines beside it.
Told(q) ==
    /\ q.status \in 200..599
    /\ q.cause # "none" => q.status \in Blame(q.cause)
    /\ \A l, m \in Account(q) : l = m /\ l.says[2] = q.status
    /\ Handled(q) /\ q.cause # "none" =>
          \E line \in Account(q) : line.says[1] = IF q.status \in 500..599 THEN "error" ELSE "warn"
    /\ \A line \in q.lines : line.id = q.id
    /\ q.route \in {None, q.call.path}
    /\ q.ran => q.route # None
    /\ q.status \in {404, 405} => q.route = None
    /\ (/\ config.auth /\ q.call.method \notin AllowedMethods
        /\ ~UnderDocs(q.call.path) /\ ~q.call.key) => q.status = 404

\* Nothing was had for free so far, but for the copy of the contract.
Earned(q) ==
    q.call.path \notin Unguarded =>
    /\ q.ran \/ q.cause \in {"key", "token", "input"} =>
          IF UnderDocs(q.call.path) THEN DocsPaid(q) ELSE Paid(q)
    /\ q.ran => Keyed(q)

\* What is left of a request that is over.
Measured(q) ==
    /\ Unsettled(q)
    /\ q.status \in 200..599 /\ q.sample.status = q.status
    /\ q.sample.route \in {Unmatched, q.call.path}
    /\ q.sample.route = Unmatched => ~q.ran
    /\ q.status \in {404, 405} => q.sample.route = Unmatched

Fits(q) ==
    /\ q \in Records
    /\ Earned(q)
    /\ q.at # "free" => q.id \in Ids /\ q.call \in Calls
    /\ q.at = "free" => Unserved(q)
    /\ q.at = "docs limiter" =>
          /\ Unserved(q) /\ q.left = Guards
          /\ UnderDocs(q.call.path) /\ config.auth /\ config.limiter
    /\ q.at = "guards" =>
          /\ Unsettled(q) /\ ~q.ran /\ AtRoute(q)
          /\ q.left = Guards \/ (q.left = Tail(Guards) /\ Paid(q))
    /\ q.at = "handler" => Unsettled(q) /\ ~q.ran /\ AtRoute(q) /\ Paid(q) /\ Keyed(q)
    /\ q.at \in {"engine", "probes"} =>
          Unsettled(q) /\ q.ran /\ AtRoute(q) /\ Paid(q) /\ Keyed(q)
    /\ q.at = "probes" => q.call.path \in Reporting
    /\ q.at = "answered" => Told(q)
    /\ q.at = "done" => Measured(q)

Probing(r) ==
    /\ DOMAIN witnessed[r] \subseteq Dependencies
    /\ witnessed[r] \in [DOMAIN witnessed[r] -> SUBSET Statuses]
    /\ req[r].at = "probes" => DOMAIN witnessed[r] = ProbesOf(req[r].call.path)

Inv ==
    /\ config \in Configs
    /\ up \subseteq Dependencies /\ downDependencies \subseteq Dependencies
    /\ req \in [Requests -> Records] /\ DOMAIN store = Requests /\ DOMAIN witnessed = Requests
    /\ \A r \in Requests : req[r].at # "free" => store[r] = req[r].id
    /\ \A r \in Requests : Fits(req[r])
    /\ \A r \in Requests : Probing(r)

-----------------------------------------------------------------------------
(* The filter: which of its classes decides, and what the status is.       *)

LEMMA FirstClass ==
  ASSUME NEW e, NEW i \in DOMAIN Ladder, Ladder[i] \in e.classes,
         \A j \in DOMAIN Ladder : Ladder[j] \in e.classes => i <= j
  PROVE  ResolveError(e) =
           CASE Ladder[i] = "HttpException" -> e.status
             [] Ladder[i] = "ResultWindowExceededError" -> 422
             [] Ladder[i] = "UpstreamResponseError" -> 502
             [] Ladder[i] \in {"ApplicationError", "DomainError"} -> 400
             [] Ladder[i] = "ResponseError" -> FromElasticsearchResponse(e.status)
             [] Ladder[i] = "ElasticsearchClientError" -> 503
<1>. DEFINE fits == {j \in DOMAIN Ladder : Ladder[j] \in e.classes}
            first == CHOOSE k \in fits : \A j \in fits : k <= j
<1>1. DOMAIN Ladder \subseteq Nat
  BY DEF Ladder
<1>2. i \in fits /\ \A j \in fits : i <= j
  OBVIOUS
<1>3. first \in fits /\ \A j \in fits : first <= j
  BY <1>2
<1>4. first = i
  <2>1. first <= i /\ i <= first
    BY <1>2, <1>3
  <2>2. first \in Nat /\ i \in Nat
    BY <1>1, <1>3
  <2>. QED
    BY <2>1, <2>2
<1>. QED
  BY <1>2, <1>4 DEF ResolveError

LEMMA Codes == \A cause \in Causes : ResolveError(Thrown[cause]) = Code[cause]
<1>1. ASSUME NEW status
      PROVE  ResolveError(Http(status)) = status
  <2>1. Ladder[1] = "HttpException" /\ 1 \in DOMAIN Ladder /\ \A j \in DOMAIN Ladder : 1 <= j
    BY DEF Ladder
  <2>2. Ladder[1] \in Http(status).classes /\ Http(status).status = status
    BY <2>1 DEF Http
  <2>. QED
    BY <2>1, <2>2, FirstClass
<1>2. ResolveError(Thrown.window) = 422
  <2>1. 2 \in DOMAIN Ladder /\ Ladder[2] = "ResultWindowExceededError"
    BY DEF Ladder
  <2>2. /\ Ladder[2] \in Thrown.window.classes
        /\ \A j \in DOMAIN Ladder : Ladder[j] \in Thrown.window.classes => 2 <= j
    BY DEF Ladder, Thrown
  <2>. QED
    BY <2>1, <2>2, FirstClass
<1>3. ResolveError(Thrown.mapping) = 502
  <2>1. 3 \in DOMAIN Ladder /\ Ladder[3] = "UpstreamResponseError"
    BY DEF Ladder
  <2>2. /\ Ladder[3] \in Thrown.mapping.classes
        /\ \A j \in DOMAIN Ladder : Ladder[j] \in Thrown.mapping.classes => 3 <= j
    BY DEF Ladder, Thrown
  <2>. QED
    BY <2>1, <2>2, FirstClass
<1>4. /\ ResolveError(Thrown.query) = FromElasticsearchResponse(Thrown.query.status)
      /\ ResolveError(Thrown.engine) = FromElasticsearchResponse(Thrown.engine.status)
  <2>1. 6 \in DOMAIN Ladder /\ Ladder[6] = "ResponseError"
    BY DEF Ladder
  <2>2. ASSUME NEW e \in {Thrown.query, Thrown.engine}
        PROVE  /\ Ladder[6] \in e.classes
               /\ \A j \in DOMAIN Ladder : Ladder[j] \in e.classes => 6 <= j
    BY DEF Ladder, Thrown
  <2>. QED
    BY <2>1, <2>2, FirstClass
<1>5. ResolveError(Thrown.network) = 503
  <2>1. 7 \in DOMAIN Ladder /\ Ladder[7] = "ElasticsearchClientError"
    BY DEF Ladder
  <2>2. /\ Ladder[7] \in Thrown.network.classes
        /\ \A j \in DOMAIN Ladder : Ladder[j] \in Thrown.network.classes => 7 <= j
    BY DEF Ladder, Thrown
  <2>. QED
    BY <2>1, <2>2, FirstClass
<1>6. ResolveError(Thrown.bug) = 500
  BY DEF ResolveError, Thrown
<1>7. Thrown.query.status = 400 /\ Thrown.engine.status = 404
  BY DEF Thrown
<1>8. /\ ResolveError(Thrown.budget) = 429 /\ ResolveError(Thrown.key) = 401
      /\ ResolveError(Thrown.token) = 401 /\ ResolveError(Thrown.route) = 404
      /\ ResolveError(Thrown.input) = 400 /\ ResolveError(Thrown.pageSize) = 400
  BY <1>1 DEF Thrown
<1>9. Causes = {"budget", "key", "token", "route", "input", "pageSize", "window", "mapping",
                "query", "engine", "network", "bug"}
  BY DEF Causes, Thrown
<1>. QED
  BY <1>2, <1>3, <1>4, <1>5, <1>6, <1>7, <1>8, <1>9 DEF Code, FromElasticsearchResponse

LEMMA CauseList ==
    Causes = {"budget", "key", "token", "route", "input", "pageSize", "window", "mapping",
              "query", "engine", "network", "bug"}
  BY DEF Causes, Thrown

\* A verb no route takes and a path nobody has: 404, and 405 for who may know.
LEMMA StatusOf ==
  ASSUME NEW call, NEW cause \in Causes
  PROVE  LET status == UpgradeMethodNotAllowed(call, ResolveError(Thrown[cause])) IN
           /\ status \in 400..599
           /\ status \in Blame(cause)
           /\ status \in {404, 405} <=> cause = "route"
           /\ config.auth /\ ~call.key /\ cause = "route" => status = 404
<1>1. ResolveError(Thrown[cause]) = Code[cause]
  BY Codes
<1>2. /\ Code[cause] \in 400..599 /\ Code[cause] \in Blame(cause)
      /\ Code[cause] = 404 <=> cause = "route"
      /\ Code[cause] # 405
  BY CauseList DEF Code, Blame, Client, Engine
<1>3. cause = "route" => 405 \in Blame(cause)
  BY DEF Blame, Client
<1>. QED
  BY <1>1, <1>2, <1>3 DEF UpgradeMethodNotAllowed, MayKnowRoutes, Identified

LEMMA GuardsInOrder ==
    /\ Guards # <<>> /\ Head(Guards) = "RateLimitGuard"
    /\ Tail(Guards) # <<>> /\ Head(Tail(Guards)) = "ApiKeyGuard"
    /\ Tail(Tail(Guards)) = <<>>
  BY DEF Guards

LEMMA PathsApart ==
    /\ \A path \in Routes : ~UnderDocs(path)
    /\ Unmatched \notin Routes \cup MountedPaths
    /\ ApiPaths \subseteq Routes
<1>1. ASSUME NEW path \in Routes, UnderDocs(path)
      PROVE  FALSE
  <2>1. PICK p \in DocsPaths : Len(p) <= Len(path) /\ p = SubSeq(path, 1, Len(p))
    BY <1>1 DEF UnderDocs, MatchesPath
  <2>2. Len(p) = 1 /\ p[1] \in {"docs", "docs-json"}
    BY DEF DocsPaths
  <2>3. path = <<>> \/ \E a \in {"search", "autocomplete", "suggest", "health", "metrics"} :
                         path = <<a>> \/ \E b \in {"ready", "live"} : path = <<a, b>>
    BY DEF Routes, ApiPaths
  <2>4. CASE path = <<>>
    BY <2>1, <2>2, <2>4
  <2>5. ASSUME NEW a \in {"search", "autocomplete", "suggest", "health", "metrics"},
               path = <<a>>
        PROVE  FALSE
    BY <2>1, <2>2, <2>5
  <2>6. ASSUME NEW a \in {"search", "autocomplete", "suggest", "health", "metrics"},
               NEW b \in {"ready", "live"}, path = <<a, b>>
        PROVE  FALSE
    BY <2>1, <2>2, <2>6
  <2>. QED
    BY <2>3, <2>4, <2>5, <2>6
<1>2. Unmatched \notin Routes \cup MountedPaths /\ ApiPaths \subseteq Routes
  BY DEF Routes, ApiPaths, MountedPaths, Unmatched
<1>. QED
  BY <1>1, <1>2

-----------------------------------------------------------------------------
(* What each layer makes of the record.                                    *)

\* A record somebody may go on with, of the request with this id.
Sound(new, id) == Fits(new) /\ new.at \notin {"free", "probes"} /\ new.id = id

LEMMA FreshFits ==
  ASSUME NEW call \in CallsOrNobody, NEW id \in IdsOrNone
  PROVE  /\ Fresh(call, id) \in Records
         /\ Fresh(call, id).call = call /\ Fresh(call, id).id = id
         /\ Fresh(call, id).at = "free" /\ Fresh(call, id).left = Guards
         /\ Unserved(Fresh(call, id)) /\ Fits(Fresh(call, id))
<1>. DEFINE q == Fresh(call, id)
<1>1. q \in Records
  <2>1. "free" \in Places /\ Guards \in GuardsLeft /\ None \in RoutesOrNone
        /\ "none" \in CausesOrNone /\ None \in CodesOrNone /\ {} \in LineSets
        /\ None \in SamplesOrNone
    BY DEF Places, GuardsLeft, RoutesOrNone, CausesOrNone, CodesOrNone, LineSets, SamplesOrNone
  <2>. QED
    BY <2>1 DEF Fresh, Records
<1>2. /\ q.call = call /\ q.id = id /\ q.at = "free" /\ q.left = Guards
      /\ q.cause = "none" /\ q.lines = {} /\ ~q.ran /\ q.route = None
  BY DEF Fresh
<1>. QED
  BY <1>1, <1>2 DEF Unserved, Unsettled, Fits, Earned

LEMMA FailedFits ==
  ASSUME NEW q \in Records, NEW cause \in Causes, NEW id \in Ids,
         q.id = id, q.call \in Calls, Unsettled(q),
         q.route \in {None, q.call.path}, cause = "route" <=> q.route = None,
         q.ran => q.route # None /\ Keyed(q) /\ Paid(q),
         cause # "route" => q.call.method = "GET" /\ ~UnderDocs(q.call.path),
         cause \in {"key", "token", "input"} => Paid(q)
  PROVE  Sound(Failed(q, cause, id), id)
<1>. DEFINE status == UpgradeMethodNotAllowed(q.call, ResolveError(Thrown[cause]))
            line == Line("AllExceptionsFilter", <<LevelOf(status), status>>, id)
            new == Failed(q, cause, id)
<1>1. /\ status \in 400..599 /\ status \in Blame(cause)
      /\ status \in {404, 405} <=> cause = "route"
      /\ config.auth /\ ~q.call.key /\ cause = "route" => status = 404
  BY StatusOf
<1>. HIDE DEF status
<1>2. /\ line.by = "AllExceptionsFilter" /\ line.id = id
      /\ line.says[1] = LevelOf(status) /\ line.says[2] = status
      /\ line \in LineTypes
  <2>1. <<LevelOf(status), status>> \in {"error", "warn", "info"} \X (200..599)
    BY <1>1 DEF LevelOf
  <2>2. line \in LineTypes
    BY <2>1 DEF Line, LineTypes, Ids
  <2>. QED
    BY <2>2 DEF Line
<1>. HIDE DEF line
<1>3. new = [q EXCEPT !.at = "answered", !.cause = cause, !.status = status, !.lines = @ \cup {line}]
  BY DEF Failed, status, line
<1>4. /\ new.at = "answered" /\ new.cause = cause /\ new.status = status /\ new.lines = {line}
      /\ new.call = q.call /\ new.id = id /\ new.route = q.route
      /\ new.ran = q.ran /\ new.counted = q.counted
  BY <1>3 DEF Records, Unsettled
<1>5. new \in Records
  <2>1. /\ "answered" \in Places /\ cause \in CausesOrNone /\ status \in CodesOrNone
        /\ q.lines \cup {line} \in LineSets
    BY <1>1, <1>2 DEF Places, CausesOrNone, CodesOrNone, LineSets, Unsettled
  <2>. QED
    BY <1>3, <2>1 DEF Records
<1>. HIDE DEF new
<1>6. Account(new) = {line}
  BY <1>2, <1>4 DEF Account
<1>7. Told(new)
  <2>1. /\ new.status \in 200..599
        /\ new.cause # "none" => new.status \in Blame(new.cause)
    BY <1>1, <1>4
  <2>2. /\ \A l, m \in Account(new) : l = m /\ l.says[2] = new.status
        /\ \E l \in Account(new) : l.says[1] = IF new.status \in 500..599 THEN "error" ELSE "warn"
        /\ \A l \in new.lines : l.id = new.id
    BY <1>1, <1>2, <1>4, <1>6 DEF LevelOf
  <2>3. /\ new.route \in {None, new.call.path}
        /\ new.ran => new.route # None
        /\ new.status \in {404, 405} => new.route = None
        /\ (/\ config.auth /\ new.call.method \notin AllowedMethods
            /\ ~UnderDocs(new.call.path) /\ ~new.call.key) => new.status = 404
    BY <1>1, <1>4 DEF AllowedMethods
  <2>. QED
    BY <2>1, <2>2, <2>3 DEF Told
<1>8. Earned(new)
  BY <1>4 DEF Earned, Paid, Keyed
<1>9. Sound(new, id)
  BY <1>4, <1>5, <1>7, <1>8 DEF Sound, Fits
<1>. QED
  BY <1>9 DEF new

LEMMA SucceededFits ==
  ASSUME NEW q \in Records, NEW status \in {200, 503}, NEW id \in Ids,
         q.id = id, q.call \in Calls, q.cause = "none", q.ran, AtRoute(q), Paid(q), Keyed(q),
         Account(q) = {}, \A line \in q.lines : line.id = id
  PROVE  Sound(Succeeded(q, status, id), id)
<1>. DEFINE line == Line("HTTP", <<"info", status>>, id)
            new == Succeeded(q, status, id)
<1>1. line.by = "HTTP" /\ line.id = id /\ line.says[2] = status /\ line \in LineTypes
  <2>1. <<"info", status>> \in {"error", "warn", "info"} \X (200..599)
    OBVIOUS
  <2>2. line \in LineTypes
    BY <2>1 DEF Line, LineTypes, Ids
  <2>. QED
    BY <2>2 DEF Line
<1>. HIDE DEF line
<1>2. PICK lines : lines \in {q.lines, q.lines \cup {line}}
                   /\ new = [q EXCEPT !.at = "answered", !.status = status, !.lines = lines]
  BY DEF Succeeded, line
<1>. HIDE DEF new
<1>3. /\ new.at = "answered" /\ new.cause = "none" /\ new.status = status /\ new.lines = lines
      /\ new.call = q.call /\ new.id = id /\ new.route = q.route
      /\ new.ran = q.ran /\ new.counted = q.counted
  BY <1>2 DEF Records
<1>4. new \in Records
  <2>1. "answered" \in Places /\ status \in CodesOrNone
    BY DEF Places, CodesOrNone
  <2>2. lines \in LineSets
    <3>1. q.lines \in LineSets
      BY DEF Records
    <3>. QED
      BY <1>1, <1>2, <3>1 DEF LineSets
  <2>. QED
    BY <1>2, <2>1, <2>2 DEF Records
<1>5. Account(new) \subseteq {line}
  BY <1>2, <1>3 DEF Account
<1>6. q.route = q.call.path /\ ~UnderDocs(q.call.path) /\ q.route # None /\ q.call.method = "GET"
  BY PathsApart, PathAssumption DEF AtRoute
<1>7. Told(new)
  BY <1>1, <1>2, <1>3, <1>5, <1>6 DEF Told, AllowedMethods
<1>8. Earned(new)
  BY <1>3, <1>6 DEF Earned, Paid, Keyed
<1>9. Sound(new, id)
  BY <1>3, <1>4, <1>7, <1>8 DEF Sound, Fits
<1>. QED
  BY <1>9 DEF new

LEMMA ByHandFits ==
  ASSUME NEW q \in Records, NEW cause \in {"budget", "key"}, NEW id \in Ids,
         q.id = id, q.call \in Calls, Unserved(q), UnderDocs(q.call.path),
         cause = "key" => DocsPaid(q)
  PROVE  Sound(ByHand(q, cause), id)
<1>. DEFINE new == ByHand(q, cause)
<1>1. Thrown[cause].status \in {401, 429} /\ cause \in Causes
  BY CauseList DEF Thrown, Http
<1>2. /\ new.at = "answered" /\ new.cause = cause /\ new.status = Thrown[cause].status
      /\ new.lines = {} /\ new.call = q.call /\ new.id = id /\ new.route = None
      /\ ~new.ran /\ new.counted = q.counted
  BY DEF ByHand, Records, Unserved, Unsettled
<1>3. new \in Records
  <2>1. /\ "answered" \in Places /\ cause \in CausesOrNone
        /\ Thrown[cause].status \in CodesOrNone
    BY <1>1 DEF Places, CausesOrNone, CodesOrNone
  <2>. QED
    BY <2>1 DEF ByHand, Records
<1>. HIDE DEF new
<1>4. Account(new) = {} /\ ~Handled(new)
  BY <1>2 DEF Account, Handled
<1>5. new.status \in Blame(new.cause)
  BY <1>1, <1>2 DEF Blame, Client
<1>6. Told(new)
  BY <1>1, <1>2, <1>4, <1>5 DEF Told
<1>7. Earned(new)
  BY <1>2 DEF Earned, DocsPaid
<1>9. Sound(new, id)
  BY <1>2, <1>3, <1>6, <1>7 DEF Sound, Fits
<1>. QED
  BY <1>9 DEF new

LEMMA ToRouterFits ==
  ASSUME NEW q \in Records, NEW id \in Ids, q.id = id, q.call \in Calls, Unserved(q), q.left = Guards
  PROVE  Sound(ToRouter(q, id), id)
<1>1. CASE q.call.method = "GET" /\ q.call.path \in Routes
  <2>. DEFINE new == [q EXCEPT !.at = "guards", !.route = q.call.path]
  <2>1. /\ new \in Records /\ new.at = "guards" /\ new.id = id /\ new.call = q.call
        /\ new.route = q.call.path /\ new.left = Guards
        /\ ~new.ran /\ new.cause = "none" /\ new.lines = {}
    <3>1. "guards" \in Places /\ q.call.path \in RoutesOrNone
      BY <1>1 DEF Places, RoutesOrNone
    <3>. QED
      BY <3>1 DEF Records, Unserved, Unsettled
  <2>. HIDE DEF new
  <2>2. Fits(new)
    BY <1>1, <2>1 DEF Fits, Earned, Unsettled, AtRoute
  <2>3. ToRouter(q, id) = new
    BY <1>1 DEF ToRouter, new
  <2>. QED
    BY <2>1, <2>2, <2>3 DEF Sound
<1>2. CASE ~(q.call.method = "GET" /\ q.call.path \in Routes)
  <2>1. "route" \in Causes
    BY CauseList
  <2>2. Sound(Failed(q, "route", id), id)
    BY <2>1, FailedFits DEF Unserved
  <2>. QED
    BY <1>2, <2>2 DEF ToRouter
<1>. QED
  BY <1>1, <1>2

LEMMA ToDocsFits ==
  ASSUME NEW q \in Records, NEW id \in Ids, q.id = id, q.call \in Calls, Unserved(q), q.left = Guards,
         UnderDocs(q.call.path) => DocsPaid(q) /\ (config.auth => Identified(q.call))
  PROVE  Sound(ToDocs(q, id), id)
<1>1. CASE q.call.method = "GET" /\ q.call.path \in MountedPaths
  <2>. DEFINE new == [q EXCEPT !.at = "answered", !.route = q.call.path, !.ran = TRUE, !.status = 200]
  <2>1. /\ new \in Records /\ new.at = "answered" /\ new.id = id /\ new.call = q.call
        /\ new.route = q.call.path /\ new.ran /\ new.status = 200
        /\ new.cause = "none" /\ new.lines = {} /\ new.counted = q.counted
    <3>1. "answered" \in Places /\ q.call.path \in RoutesOrNone /\ 200 \in CodesOrNone
      BY <1>1 DEF Places, RoutesOrNone, CodesOrNone
    <3>. QED
      BY <3>1 DEF Records, Unserved, Unsettled
  <2>. HIDE DEF new
  <2>2. Account(new) = {} /\ new.route # None
    BY <1>1, <2>1, PathAssumption DEF Account
  <2>3. Told(new)
    BY <1>1, <2>1, <2>2 DEF Told, AllowedMethods
  <2>4. Earned(new)
    BY <1>1, <2>1 DEF Earned, Unguarded, DocsPaid, Keyed, NeedsKey
  <2>5. Fits(new)
    BY <2>1, <2>3, <2>4 DEF Fits
  <2>6. ToDocs(q, id) = new
    BY <1>1 DEF ToDocs, new
  <2>. QED
    BY <2>1, <2>5, <2>6 DEF Sound
<1>2. CASE ~(q.call.method = "GET" /\ q.call.path \in MountedPaths)
  BY <1>2, ToRouterFits DEF ToDocs
<1>. QED
  BY <1>1, <1>2

LEMMA ToDocsKeyFits ==
  ASSUME NEW q \in Records, NEW id \in Ids, q.id = id, q.call \in Calls, Unserved(q), q.left = Guards,
         UnderDocs(q.call.path), DocsPaid(q)
  PROVE  Sound(ToDocsKey(q, id), id)
<1>1. CASE Identified(q.call)
  BY <1>1, ToDocsFits DEF ToDocsKey
<1>2. CASE ~Identified(q.call)
  BY <1>2, ByHandFits DEF ToDocsKey
<1>. QED
  BY <1>1, <1>2

LEMMA ToFirstLayerFits ==
  ASSUME NEW q \in Records, NEW id \in Ids, q.id = id, q.call \in Calls, Unserved(q), q.left = Guards
  PROVE  Sound(ToFirstLayer(q, id), id)
<1>1. CASE ~UnderDocs(q.call.path)
  BY <1>1, ToDocsFits DEF ToFirstLayer
<1>2. CASE UnderDocs(q.call.path) /\ ~config.auth
  BY <1>2, ToDocsFits DEF ToFirstLayer, DocsPaid
<1>3. CASE UnderDocs(q.call.path) /\ config.auth /\ ~config.limiter
  BY <1>3, ToDocsKeyFits DEF ToFirstLayer, DocsPaid
<1>4. CASE UnderDocs(q.call.path) /\ config.auth /\ config.limiter
  <2>. DEFINE new == [q EXCEPT !.at = "docs limiter"]
  <2>1. /\ new \in Records /\ new.at = "docs limiter" /\ new.id = id /\ new.call = q.call
        /\ new.left = Guards
        /\ new.route = None /\ ~new.ran /\ new.cause = "none" /\ new.lines = {}
    <3>1. "docs limiter" \in Places
      BY DEF Places
    <3>. QED
      BY <3>1 DEF Records, Unserved, Unsettled
  <2>. HIDE DEF new
  <2>2. Fits(new)
    BY <1>4, <2>1 DEF Fits, Earned, Unserved, Unsettled
  <2>3. ToFirstLayer(q, id) = new
    BY <1>4 DEF ToFirstLayer, new
  <2>. QED
    BY <2>1, <2>2, <2>3 DEF Sound
<1>. QED
  BY <1>1, <1>2, <1>3, <1>4

-----------------------------------------------------------------------------
(* Steps.                                                                  *)

LEMMA InitInv == Init => Inv
<1>. SUFFICES ASSUME Init PROVE Inv
  OBVIOUS
<1>1. Nobody \in CallsOrNobody /\ None \in IdsOrNone
  BY DEF CallsOrNobody, IdsOrNone
<1>2. Fresh(Nobody, None) \in Records /\ Fits(Fresh(Nobody, None)) /\ Fresh(Nobody, None).at = "free"
  BY <1>1, FreshFits
<1>3. /\ req \in [Requests -> Records]
      /\ \A r \in Requests : req[r] = Fresh(Nobody, None)
  BY <1>2 DEF Init
<1>4. DOMAIN NoProbes = {} /\ NoProbes \in [{} -> SUBSET Statuses]
  BY DEF NoProbes
<1>5. DOMAIN witnessed = Requests /\ \A r \in Requests : witnessed[r] = NoProbes
  BY PipelineAssumption DEF Init, HealthInit
<1>6. \A r \in Requests : Probing(r)
  BY <1>2, <1>3, <1>4, <1>5 DEF Probing
<1>7. /\ config \in Configs /\ up \subseteq Dependencies /\ downDependencies \subseteq Dependencies
      /\ DOMAIN store = Requests
  BY DEF Init, HealthInit
<1>. QED
  BY <1>2, <1>3, <1>5, <1>6, <1>7 DEF Inv

\* What is true of a record stays true while the configuration does.
LEMMA FitsStays ==
  ASSUME config' = config
  PROVE  \A q : Fits(q) => Fits(q)'
<1>. TAKE q
<1>1. (Limited(q.call)' <=> Limited(q.call)) /\ (NeedsKey(q.call)' <=> NeedsKey(q.call))
  BY DEF Limited, NeedsKey
<1>2. (Paid(q)' <=> Paid(q)) /\ (Keyed(q)' <=> Keyed(q)) /\ (DocsPaid(q)' <=> DocsPaid(q))
  BY <1>1 DEF Paid, Keyed, DocsPaid
<1>3. Earned(q)' <=> Earned(q)
  BY <1>2 DEF Earned
<1>4. Told(q)' <=> Told(q)
  BY DEF Told
<1>. QED
  BY <1>2, <1>3, <1>4 DEF Fits

\* One request moves, and the others do not notice.
LEMMA OneMoves ==
  ASSUME Inv, NEW r \in Requests, NEW q, Fits(q), Set(r, q), config' = config,
         DOMAIN store' = Requests, \A s \in Requests \ {r} : store'[s] = store[s],
         q.at # "free" => store'[r] = q.id,
         up' \subseteq Dependencies, downDependencies' \subseteq Dependencies,
         DOMAIN witnessed' = Requests, \A s \in Requests : Probing(s)'
  PROVE  Inv'
<1>1. q \in Records
  BY DEF Fits
<1>2. /\ req' \in [Requests -> Records] /\ req'[r] = q
      /\ \A s \in Requests \ {r} : req'[s] = req[s]
  BY <1>1 DEF Inv, Set
<1>3. \A s \in Requests : Fits(req'[s])
  BY <1>2 DEF Inv
<1>4. \A s \in Requests : Fits(req[s])'
  BY <1>3, FitsStays
<1>5. \A s \in Requests : req'[s].at # "free" => store'[s] = req'[s].id
  BY <1>2 DEF Inv
<1>. QED
  BY <1>2, <1>4, <1>5 DEF Inv

LEMMA QuietMoves ==
  ASSUME Inv, NEW r \in Requests, NEW q, Sound(q, store[r]), Set(r, q),
         UNCHANGED <<config, store, healthVars>>
  PROVE  Inv'
<1>1. Fits(q) /\ q.at # "probes" /\ q.id = store[r]
  BY DEF Sound
<1>2. req'[r] = q /\ \A s \in Requests \ {r} : req'[s] = req[s]
  BY DEF Inv, Set
<1>3. \A s \in Requests : Probing(s)'
  BY <1>1, <1>2 DEF Inv, Probing, ProbesOf, FullReport, Readiness, healthVars
<1>. QED
  BY <1>1, <1>3, OneMoves DEF Inv, healthVars

LEMMA ArriveInv ==
  ASSUME Inv, NEW r \in Requests, NEW call \in Calls, Arrive(r, call)
  PROVE  Inv'
<1>1. PICK id : id = ResolveCorrelationId(call.id, <<"generated", r>>)
  OBVIOUS
<1>2. id \in Ids /\ id \in IdsOrNone /\ call \in CallsOrNobody
  BY <1>1 DEF ResolveCorrelationId, Ids, IdsOrNone, CallsOrNobody
<1>3. PICK q : q = ToFirstLayer(Fresh(call, id), id)
  OBVIOUS
<1>4. Sound(q, id)
  BY <1>2, <1>3, FreshFits, ToFirstLayerFits
<1>5. Set(r, q) /\ store' = [store EXCEPT ![r] = id] /\ UNCHANGED <<config, healthVars>>
  BY <1>1, <1>3 DEF Arrive, RunWithCorrelationId
<1>6. req'[r] = q /\ \A s \in Requests \ {r} : req'[s] = req[s]
  BY <1>5 DEF Inv, Set
<1>7. \A s \in Requests : Probing(s)'
  BY <1>4, <1>5, <1>6 DEF Inv, Probing, ProbesOf, FullReport, Readiness, healthVars, Sound
<1>. QED
  BY <1>4, <1>5, <1>7, OneMoves DEF Inv, healthVars, Sound

\* What is known of a request in progress.
LEMMA InProgress ==
  ASSUME Inv, NEW r \in Requests, req[r].at # "free"
  PROVE  /\ req[r] \in Records /\ Fits(req[r]) /\ store[r] = req[r].id
         /\ store[r] \in Ids /\ req[r].call \in Calls
<1>1. Fits(req[r]) /\ store[r] = req[r].id
  BY DEF Inv
<1>. QED
  BY <1>1 DEF Fits

\* A request is counted, and stays what it was.
LEMMA CountedFits ==
  ASSUME NEW q \in Records
  PROVE  LET counted == [q EXCEPT !.counted = TRUE] IN
           /\ counted \in Records /\ counted.counted
           /\ counted.call = q.call /\ counted.id = q.id /\ counted.at = q.at
           /\ counted.left = q.left /\ counted.route = q.route /\ counted.ran = q.ran
           /\ counted.cause = q.cause /\ counted.lines = q.lines
  BY DEF Records

LEMMA CountDocsInv ==
  ASSUME Inv, NEW r \in Requests, CountDocs(r)
  PROVE  Inv'
<1>1. PICK q : q = [req[r] EXCEPT !.counted = TRUE]
  OBVIOUS
<1>2. req[r].at = "docs limiter" /\ UNCHANGED <<config, store, healthVars>>
  BY DEF CountDocs
<1>3. /\ q \in Records /\ q.id = store[r] /\ store[r] \in Ids /\ q.call \in Calls
      /\ Unserved(q) /\ q.left = Guards /\ UnderDocs(q.call.path) /\ DocsPaid(q)
  <2>1. /\ req[r] \in Records /\ Fits(req[r]) /\ store[r] = req[r].id
        /\ store[r] \in Ids /\ req[r].call \in Calls
    BY <1>2, InProgress
  <2>2. Unserved(req[r]) /\ req[r].left = Guards /\ UnderDocs(req[r].call.path)
    BY <1>2, <2>1 DEF Fits
  <2>. QED
    BY <1>1, <2>1, <2>2, CountedFits DEF Unserved, Unsettled, DocsPaid
<1>4. Set(r, ToDocsKey(q, store[r])) \/ Set(r, ByHand(q, "budget"))
  BY <1>1 DEF CountDocs
<1>5. Sound(ToDocsKey(q, store[r]), store[r]) /\ Sound(ByHand(q, "budget"), store[r])
  BY <1>3, ToDocsKeyFits, ByHandFits
<1>. QED
  BY <1>2, <1>4, <1>5, QuietMoves

LEMMA PassedFits ==
  ASSUME NEW q \in Records, q.at = "guards", q.id \in Ids, q.call \in Calls,
         Unsettled(q), ~q.ran, AtRoute(q), Paid(q),
         q.left = Guards \/ (q.left = Tail(Guards) /\ Keyed(q))
  PROVE  Sound(Passed(q), q.id)
<1>. DEFINE new == Passed(q)
<1>1. Tail(q.left) \in GuardsLeft /\ "handler" \in Places
  BY GuardsInOrder DEF GuardsLeft, Places
<1>2. PICK at : at = IF Tail(q.left) = <<>> THEN "handler" ELSE q.at
  OBVIOUS
<1>3. new = [q EXCEPT !.left = Tail(q.left), !.at = at]
  BY <1>2 DEF Passed
<1>. HIDE DEF new
<1>4. /\ new.at = at /\ new.left = Tail(q.left) /\ new.call = q.call /\ new.id = q.id
      /\ new.counted = q.counted /\ new.ran = q.ran /\ new.cause = q.cause
      /\ new.route = q.route /\ new.lines = q.lines
  BY <1>3 DEF Records
<1>5. new \in Records
  <2>1. at \in Places
    BY <1>1, <1>2 DEF Records
  <2>. QED
    BY <1>1, <1>3, <2>1 DEF Records
<1>6. Earned(new)
  BY <1>4 DEF Earned, Unsettled
<1>7. Unsettled(new) /\ ~new.ran /\ AtRoute(new) /\ Paid(new)
  BY <1>4 DEF Unsettled, AtRoute, Paid
<1>8. CASE q.left = Guards
  <2>1. new.at = "guards" /\ new.left = Tail(Guards)
    BY <1>2, <1>4, <1>8, GuardsInOrder
  <2>. QED
    BY <1>4, <1>5, <1>6, <1>7, <2>1 DEF Sound, Fits, new
<1>9. CASE q.left = Tail(Guards) /\ Keyed(q)
  <2>1. new.at = "handler" /\ Keyed(new)
    BY <1>2, <1>4, <1>9, GuardsInOrder DEF Keyed
  <2>. QED
    BY <1>4, <1>5, <1>6, <1>7, <2>1 DEF Sound, Fits, new
<1>. QED
  BY <1>8, <1>9

LEMMA RoutedIsPlain ==
  ASSUME NEW q, AtRoute(q)
  PROVE  /\ q.route # None /\ q.route = q.call.path /\ ~UnderDocs(q.call.path)
         /\ q.call.method = "GET"
  BY PathsApart, PathAssumption DEF AtRoute

\* A request whose handler was found fails.
LEMMA RoutedFails ==
  ASSUME NEW q \in Records, q.id \in Ids, q.call \in Calls, Unsettled(q), AtRoute(q),
         NEW cause \in Causes \ {"route"}, q.ran => Paid(q) /\ Keyed(q),
         cause \in {"key", "token", "input"} => Paid(q)
  PROVE  Sound(Failed(q, cause, q.id), q.id)
  BY FailedFits, RoutedIsPlain

LEMMA RateLimitGuardInv ==
  ASSUME Inv, NEW r \in Requests, RateLimitGuard(r)
  PROVE  Inv'
<1>1. PICK q, counted : q = req[r] /\ counted = [q EXCEPT !.counted = TRUE]
  OBVIOUS
<1>2. /\ q.at = "guards" /\ Head(q.left) = "RateLimitGuard"
      /\ UNCHANGED <<config, store, healthVars>>
  BY <1>1 DEF RateLimitGuard, Guarding
<1>3. /\ q \in Records /\ Fits(q) /\ store[r] = q.id /\ q.id \in Ids /\ q.call \in Calls
  BY <1>1, <1>2, InProgress
<1>4. Unsettled(q) /\ ~q.ran /\ AtRoute(q) /\ q.left = Guards
  BY <1>2, <1>3, GuardsInOrder DEF Fits
<1>5. CASE Limited(q.call)
  <2>1. /\ counted \in Records /\ Paid(counted)
        /\ counted.call = q.call /\ counted.id = q.id /\ counted.at = q.at
        /\ counted.left = q.left /\ ~counted.ran /\ Unsettled(counted) /\ AtRoute(counted)
    BY <1>1, <1>3, <1>4, CountedFits DEF Paid, Unsettled, AtRoute
  <2>2. Sound(Passed(counted), store[r])
    BY <1>2, <1>3, <1>4, <2>1, PassedFits
  <2>3. Sound(Failed(counted, "budget", store[r]), store[r])
    BY <1>3, <2>1, RoutedFails, CauseList
  <2>4. Set(r, Passed(counted)) \/ Set(r, Failed(counted, "budget", store[r]))
    BY <1>1, <1>5 DEF RateLimitGuard
  <2>. QED
    BY <1>2, <2>2, <2>3, <2>4, QuietMoves
<1>6. CASE ~Limited(q.call)
  <2>1. Sound(Passed(q), store[r])
    BY <1>2, <1>3, <1>4, <1>6, PassedFits DEF Paid
  <2>2. Set(r, Passed(q))
    BY <1>1, <1>6 DEF RateLimitGuard
  <2>. QED
    BY <1>2, <2>1, <2>2, QuietMoves
<1>. QED
  BY <1>5, <1>6

LEMMA ApiKeyGuardInv ==
  ASSUME Inv, NEW r \in Requests, ApiKeyGuard(r)
  PROVE  Inv'
<1>1. PICK q : q = req[r]
  OBVIOUS
<1>2. /\ q.at = "guards" /\ Head(q.left) = "ApiKeyGuard"
      /\ UNCHANGED <<config, store, healthVars>>
  BY <1>1 DEF ApiKeyGuard, Guarding
<1>3. /\ q \in Records /\ Fits(q) /\ store[r] = q.id /\ q.id \in Ids /\ q.call \in Calls
  BY <1>1, <1>2, InProgress
<1>4. Unsettled(q) /\ ~q.ran /\ AtRoute(q) /\ q.left = Tail(Guards) /\ Paid(q)
  BY <1>2, <1>3, GuardsInOrder DEF Fits
<1>5. CASE NeedsKey(q.call) /\ ~Identified(q.call)
  <2>1. Sound(Failed(q, "key", store[r]), store[r])
    BY <1>3, <1>4, RoutedFails, CauseList
  <2>2. Set(r, Failed(q, "key", store[r]))
    BY <1>1, <1>5 DEF ApiKeyGuard
  <2>. QED
    BY <1>2, <2>1, <2>2, QuietMoves
<1>6. CASE ~(NeedsKey(q.call) /\ ~Identified(q.call))
  <2>1. Keyed(q)
    BY <1>6 DEF Keyed
  <2>2. Sound(Passed(q), store[r])
    BY <1>2, <1>3, <1>4, <2>1, PassedFits
  <2>3. Set(r, Passed(q))
    BY <1>1, <1>6 DEF ApiKeyGuard
  <2>. QED
    BY <1>2, <2>2, <2>3, QuietMoves
<1>. QED
  BY <1>5, <1>6

\* The handler starts to wait.
LEMMA WaitingFits ==
  ASSUME NEW q \in Records, q.id \in Ids, q.call \in Calls, Unsettled(q), AtRoute(q),
         Paid(q), Keyed(q), NEW at \in {"engine", "probes"},
         at = "probes" => q.call.path \in Reporting
  PROVE  LET new == [[q EXCEPT !.ran = TRUE] EXCEPT !.at = at] IN
         Fits(new) /\ new.at = at /\ new.id = q.id /\ new.call = q.call
<1>. DEFINE new == [[q EXCEPT !.ran = TRUE] EXCEPT !.at = at]
<1>1. at \in Places
  BY DEF Places
<1>2. /\ new \in Records /\ new.at = at /\ new.ran /\ new.call = q.call /\ new.id = q.id
      /\ new.counted = q.counted /\ new.cause = q.cause /\ new.lines = q.lines /\ new.route = q.route
  BY <1>1 DEF Records
<1>. HIDE DEF new
<1>3. Unsettled(new) /\ AtRoute(new) /\ Paid(new) /\ Keyed(new)
  BY <1>2 DEF Unsettled, AtRoute, Paid, Keyed
<1>4. Earned(new)
  BY <1>3, RoutedIsPlain DEF Earned
<1>5. Fits(new)
  BY <1>2, <1>3, <1>4 DEF Fits
<1>. QED
  BY <1>2, <1>5 DEF new

LEMMA RanFits ==
  ASSUME NEW q \in Records, q.id \in Ids, q.call \in Calls, Unsettled(q), AtRoute(q), Paid(q), Keyed(q)
  PROVE  Sound(Succeeded([q EXCEPT !.ran = TRUE], 200, q.id), q.id)
<1>1. PICK ran : ran = [q EXCEPT !.ran = TRUE]
  OBVIOUS
<1>2. /\ ran \in Records /\ ran.ran /\ ran.call = q.call /\ ran.id = q.id
      /\ ran.counted = q.counted /\ ran.cause = q.cause /\ ran.lines = q.lines /\ ran.route = q.route
  BY <1>1 DEF Records
<1>3. ran.cause = "none" /\ Account(ran) = {} /\ \A line \in ran.lines : line.id = ran.id
  BY <1>2 DEF Unsettled, Account
<1>4. AtRoute(ran) /\ Paid(ran) /\ Keyed(ran)
  BY <1>2 DEF AtRoute, Paid, Keyed
<1>5. Sound(Succeeded(ran, 200, ran.id), ran.id)
  BY <1>2, <1>3, <1>4, SucceededFits
<1>. QED
  BY <1>1, <1>2, <1>5

LEMMA HandleInv ==
  ASSUME Inv, NEW r \in Requests, Handle(r)
  PROVE  Inv'
<1>1. PICK q, ran : q = req[r] /\ ran = [q EXCEPT !.ran = TRUE]
  OBVIOUS
<1>2. q.at = "handler" /\ UNCHANGED <<config, store>>
  BY <1>1 DEF Handle
<1>3. /\ q \in Records /\ Fits(q) /\ store[r] = q.id /\ q.id \in Ids /\ q.call \in Calls
  BY <1>1, <1>2, InProgress
<1>4. Unsettled(q) /\ ~q.ran /\ AtRoute(q) /\ Paid(q) /\ Keyed(q)
  BY <1>2, <1>3 DEF Fits
<1>5. /\ Sound(Failed(q, "input", store[r]), store[r])
      /\ Sound(Failed(q, "token", store[r]), store[r])
  BY <1>3, <1>4, RoutedFails, CauseList
<1>6. Sound(Succeeded(ran, 200, store[r]), store[r])
  BY <1>1, <1>3, <1>4, RanFits
<1>7. Sound([ran EXCEPT !.at = "engine"], store[r])
  BY <1>1, <1>3, <1>4, WaitingFits DEF Sound
<1>8. CASE /\ UNCHANGED healthVars
           /\ \/ Set(r, Failed(q, "input", store[r])) \/ Set(r, [ran EXCEPT !.at = "engine"])
              \/ Set(r, Failed(q, "token", store[r])) \/ Set(r, Succeeded(ran, 200, store[r]))
  BY <1>2, <1>5, <1>6, <1>7, <1>8, QuietMoves
<1>9. CASE /\ q.call.path \in Reporting /\ Set(r, [ran EXCEPT !.at = "probes"])
           /\ StartReport(r, ProbesOf(q.call.path))
  <2>1. PICK new, probes : new = [ran EXCEPT !.at = "probes"] /\ probes = ProbesOf(q.call.path)
    OBVIOUS
  <2>2. Fits(new) /\ new.at = "probes" /\ new.id = store[r] /\ new.call = q.call
    <3>1. LET started == [[q EXCEPT !.ran = TRUE] EXCEPT !.at = "probes"] IN
          Fits(started) /\ started.at = "probes" /\ started.id = q.id /\ started.call = q.call
      BY <1>3, <1>4, <1>9, WaitingFits
    <3>. QED
      BY <1>1, <1>3, <2>1, <3>1
  <2>3. /\ Set(r, new) /\ witnessed' = [witnessed EXCEPT ![r] = [d \in probes |-> {Ping(d)}]]
        /\ UNCHANGED <<up, downDependencies>>
    BY <1>9, <2>1 DEF StartReport
  <2>4. req'[r] = new /\ \A s \in Requests \ {r} : req'[s] = req[s]
    BY <2>3 DEF Inv, Set
  <2>5. /\ DOMAIN witnessed' = Requests /\ witnessed'[r] = [d \in probes |-> {Ping(d)}]
        /\ \A s \in Requests \ {r} : witnessed'[s] = witnessed[s]
    BY <2>3 DEF Inv
  <2>6. Probing(r)'
    <3>1. DOMAIN witnessed'[r] = probes /\ probes \subseteq Dependencies
      BY <2>1, <2>5 DEF ProbesOf, FullReport, Readiness
    <3>2. witnessed'[r] \in [probes -> SUBSET Statuses]
      BY <2>5 DEF Ping, Statuses
    <3>3. (ProbesOf(req[r].call.path))' = probes
      BY <2>1, <2>2, <2>4 DEF ProbesOf, FullReport, Readiness
    <3>. QED
      BY <3>1, <3>2, <3>3 DEF Probing
  <2>7. \A s \in Requests \ {r} : Probing(s)'
    BY <2>4, <2>5 DEF Inv, Probing, ProbesOf, FullReport, Readiness
  <2>. QED
    BY <1>2, <2>2, <2>3, <2>5, <2>6, <2>7, OneMoves DEF Inv
<1>. QED
  BY <1>1, <1>8, <1>9 DEF Handle

LEMMA RespondInv ==
  ASSUME Inv, NEW r \in Requests, Respond(r)
  PROVE  Inv'
<1>1. PICK q : q = req[r]
  OBVIOUS
<1>2. q.at = "engine" /\ UNCHANGED <<config, store, healthVars>>
  BY <1>1 DEF Respond
<1>3. /\ q \in Records /\ Fits(q) /\ store[r] = q.id /\ q.id \in Ids /\ q.call \in Calls
  BY <1>1, <1>2, InProgress
<1>4. Unsettled(q) /\ q.ran /\ AtRoute(q) /\ Paid(q) /\ Keyed(q)
  BY <1>2, <1>3 DEF Fits
<1>5. Throws(q.call.path) \subseteq Causes \ {"route"}
  BY CauseList DEF Throws, EngineErrors
<1>6. \A cause \in Throws(q.call.path) : Sound(Failed(q, cause, store[r]), store[r])
  BY <1>3, <1>4, <1>5, RoutedFails
<1>7. Sound(Succeeded(q, 200, store[r]), store[r])
  <2>1. q.cause = "none" /\ Account(q) = {} /\ \A line \in q.lines : line.id = q.id
    BY <1>4 DEF Unsettled, Account
  <2>. QED
    BY <1>3, <1>4, <2>1, SucceededFits
<1>8. \/ Set(r, Succeeded(q, 200, store[r]))
      \/ \E cause \in Throws(q.call.path) : Set(r, Failed(q, cause, store[r]))
  BY <1>1 DEF Respond
<1>. QED
  BY <1>2, <1>6, <1>7, <1>8, QuietMoves

LEMMA RenderInv ==
  ASSUME Inv, NEW r \in Requests, Render(r)
  PROVE  Inv'
<1>1. PICK q : q = req[r]
  OBVIOUS
<1>2. q.at = "probes" /\ UNCHANGED <<config, store>>
  BY <1>1 DEF Render
<1>3. /\ q \in Records /\ Fits(q) /\ store[r] = q.id /\ q.id \in Ids /\ q.call \in Calls
  BY <1>1, <1>2, InProgress
<1>4. Unsettled(q) /\ q.ran /\ AtRoute(q) /\ Paid(q) /\ Keyed(q)
  BY <1>2, <1>3 DEF Fits
<1>report. PICK statuses \in Settled(r) :
        LET changes == Transitions(statuses)
            lines == {Line("CheckHealth", <<"is down", d>>, store[r]) : d \in changes.down}
                       \cup {Line("CheckHealth", <<"recovered", d>>, store[r]) :
                                d \in changes.recovered}
        IN /\ FinishReport(r, statuses)
           /\ Set(r, Succeeded([req[r] EXCEPT !.lines = @ \cup lines],
                               IF Verdict(statuses) = "ok" THEN 200 ELSE 503, store[r]))
  BY DEF Render
<1>. DEFINE beside == {Line("CheckHealth", <<"is down", d>>, store[r]) : d \in Transitions(statuses).down}
                        \cup {Line("CheckHealth", <<"recovered", d>>, store[r]) :
                                 d \in Transitions(statuses).recovered}
            with == [q EXCEPT !.lines = @ \cup beside]
            status == IF Verdict(statuses) = "ok" THEN 200 ELSE 503
<1>5. /\ statuses \in Settled(r)
      /\ beside = {Line("CheckHealth", <<"is down", d>>, store[r]) : d \in Transitions(statuses).down}
                    \cup {Line("CheckHealth", <<"recovered", d>>, store[r]) :
                             d \in Transitions(statuses).recovered}
      /\ with = [q EXCEPT !.lines = @ \cup beside]
      /\ status = IF Verdict(statuses) = "ok" THEN 200 ELSE 503
      /\ FinishReport(r, statuses)
      /\ Set(r, Succeeded(with, status, store[r]))
  BY <1>1, <1>report
<1>. HIDE DEF beside, with, status
<1>6. DOMAIN statuses \subseteq Dependencies
  BY <1>5 DEF Settled, Inv, Probing
<1>7. \A line \in beside : line.by = "CheckHealth" /\ line.id = store[r] /\ line \in LineTypes
  <2>1. Transitions(statuses).down \subseteq Dependencies
    BY <1>6 DEF Transitions, DownIn
  <2>2. Transitions(statuses).recovered \subseteq Dependencies
    BY <1>6 DEF Transitions, UpIn
  <2>3. ASSUME NEW d \in Dependencies, NEW word \in {"is down", "recovered"}
        PROVE  LET line == Line("CheckHealth", <<word, d>>, store[r]) IN
               line.by = "CheckHealth" /\ line.id = store[r] /\ line \in LineTypes
    <3>1. <<word, d>> \in {"is down", "recovered"} \X Dependencies
      OBVIOUS
    <3>2. Line("CheckHealth", <<word, d>>, store[r]) \in LineTypes
      BY <1>3, <3>1 DEF Line, LineTypes, Ids
    <3>. QED
      BY <3>2 DEF Line
  <2>4. \A line \in beside : \E d \in Dependencies, word \in {"is down", "recovered"} :
            line = Line("CheckHealth", <<word, d>>, store[r])
    BY <1>5, <2>1, <2>2
  <2>5. ASSUME NEW line \in beside
        PROVE  line.by = "CheckHealth" /\ line.id = store[r] /\ line \in LineTypes
    <3>1. PICK d \in Dependencies, word \in {"is down", "recovered"} :
              line = Line("CheckHealth", <<word, d>>, store[r])
      BY <2>4
    <3>. QED
      BY <2>3, <3>1
  <2>. QED
    BY <2>5
<1>8. /\ with \in Records /\ with.lines = beside
      /\ with.call = q.call /\ with.id = q.id /\ with.cause = q.cause /\ with.route = q.route
      /\ with.ran = q.ran /\ with.counted = q.counted
  <2>1. q.lines \cup beside \in LineSets
    BY <1>4, <1>7 DEF LineSets, Unsettled
  <2>2. with = [q EXCEPT !.lines = q.lines \cup beside]
    BY <1>5
  <2>3. q.lines = {}
    BY <1>4 DEF Unsettled
  <2>. QED
    BY <1>3, <2>1, <2>2, <2>3 DEF Records
<1>9. PICK new : new = Succeeded(with, status, store[r])
  OBVIOUS
<1>10. Sound(new, store[r])
  <2>1. with.cause = "none" /\ Account(with) = {} /\ \A line \in with.lines : line.id = with.id
    BY <1>3, <1>4, <1>7, <1>8 DEF Account, Unsettled
  <2>2. AtRoute(with) /\ Paid(with) /\ Keyed(with)
    BY <1>4, <1>8 DEF AtRoute, Paid, Keyed
  <2>3. status \in {200, 503}
    BY <1>5
  <2>4. with \in Records /\ with.id \in Ids /\ with.call \in Calls /\ with.ran
    BY <1>3, <1>4, <1>8
  <2>5. Sound(Succeeded(with, status, with.id), with.id)
    BY <2>1, <2>2, <2>3, <2>4, SucceededFits
  <2>. QED
    BY <1>3, <1>8, <1>9, <2>5
<1>11. /\ Fits(new) /\ new.at # "probes" /\ new.id = store[r] /\ Set(r, new)
  BY <1>5, <1>9, <1>10 DEF Sound
<1>12. req'[r] = new /\ \A s \in Requests \ {r} : req'[s] = req[s]
  BY <1>11 DEF Inv, Set
<1>13. /\ DOMAIN witnessed' = Requests /\ witnessed'[r] = NoProbes
       /\ \A s \in Requests \ {r} : witnessed'[s] = witnessed[s]
       /\ up' \subseteq Dependencies /\ downDependencies' \subseteq Dependencies
  BY <1>5, <1>6 DEF FinishReport, Inv, Remembered, DownIn
<1>14. Probing(r)'
  <2>1. DOMAIN NoProbes = {} /\ NoProbes \in [{} -> SUBSET Statuses]
    BY DEF NoProbes
  <2>. QED
    BY <1>11, <1>12, <1>13, <2>1 DEF Probing
<1>15. \A s \in Requests \ {r} : Probing(s)'
  BY <1>12, <1>13 DEF Inv, Probing, ProbesOf, FullReport, Readiness
<1>. QED
  BY <1>2, <1>11, <1>13, <1>14, <1>15, OneMoves DEF Inv

LEMMA FinishInv ==
  ASSUME Inv, NEW r \in Requests, Finish(r)
  PROVE  Inv'
<1>1. PICK q, fresh, sample : /\ q = req[r] /\ fresh = Fresh(q.call, q.id)
                              /\ sample = [route |-> RouteLabel(q.route), status |-> q.status]
  OBVIOUS
<1>2. q.at = "answered" /\ UNCHANGED <<config, store, healthVars>>
  BY <1>1 DEF Finish
<1>3. /\ q \in Records /\ Fits(q) /\ store[r] = q.id /\ q.id \in Ids /\ q.call \in Calls
  BY <1>1, <1>2, InProgress
<1>4. Told(q) /\ Earned(q)
  BY <1>2, <1>3 DEF Fits
<1>5. /\ fresh \in Records /\ fresh.call = q.call /\ fresh.id = q.id /\ Unserved(fresh)
  BY <1>1, <1>3, FreshFits DEF CallsOrNobody, IdsOrNone
<1>6. PICK new : new = [fresh EXCEPT !.at = "done", !.counted = q.counted, !.ran = q.ran,
                                     !.status = q.status, !.sample = sample]
  OBVIOUS
<1>7. sample.route = RouteLabel(q.route) /\ sample.status = q.status /\ sample \in SamplesOrNone
  <2>1. q.route \in RoutesOrNone /\ q.status \in 200..599
    BY <1>3, <1>4 DEF Records, Told
  <2>2. RouteLabel(q.route) \in {Unmatched} \cup Routes \cup MountedPaths
    BY <2>1 DEF RouteLabel, RoutesOrNone
  <2>. QED
    BY <1>1, <2>1, <2>2 DEF SamplesOrNone, Samples
<1>8. /\ new \in Records /\ new.at = "done" /\ new.call = q.call /\ new.id = q.id
      /\ new.counted = q.counted /\ new.ran = q.ran /\ new.status = q.status
      /\ new.sample = sample /\ new.cause = "none" /\ new.lines = {}
  <2>1. "done" \in Places /\ q.status \in CodesOrNone /\ q.counted \in BOOLEAN /\ q.ran \in BOOLEAN
    BY <1>3 DEF Places, Records
  <2>. QED
    BY <1>5, <1>6, <1>7, <2>1 DEF Records, Unserved, Unsettled
<1>9. Measured(new)
  <2>1. /\ q.route \in {None, q.call.path}
        /\ q.ran => q.route # None
        /\ q.status \in {404, 405} => q.route = None
        /\ q.status \in 200..599
    BY <1>4 DEF Told
  <2>2. q.route # None => q.route # Unmatched
    <3>1. q.route \in RoutesOrNone
      BY <1>3 DEF Records
    <3>. QED
      BY <3>1, PathsApart DEF RoutesOrNone
  <2>3. sample.route \in {Unmatched, q.call.path} /\ (sample.route = Unmatched <=> q.route = None)
    BY <1>7, <2>1, <2>2 DEF RouteLabel
  <2>. QED
    BY <1>7, <1>8, <2>1, <2>3 DEF Measured, Unsettled
<1>10. Earned(new)
  BY <1>4, <1>8 DEF Earned, Paid, Keyed, DocsPaid
<1>11. Sound(new, store[r])
  BY <1>3, <1>8, <1>9, <1>10 DEF Sound, Fits
<1>12. Set(r, new)
  BY <1>1, <1>6 DEF Finish
<1>. QED
  BY <1>2, <1>11, <1>12, QuietMoves

LEMMA LeaveInv ==
  ASSUME Inv, NEW r \in Requests, Leave(r)
  PROVE  Inv'
<1>1. PICK q : q = Fresh(Nobody, None)
  OBVIOUS
<1>2. Fits(q) /\ q.at = "free"
  BY <1>1, FreshFits DEF CallsOrNobody, IdsOrNone
<1>3. Set(r, q) /\ UNCHANGED <<config, store, healthVars>>
  BY <1>1 DEF Leave
<1>4. req'[r] = q /\ \A s \in Requests \ {r} : req'[s] = req[s]
  BY <1>3 DEF Inv, Set
<1>5. \A s \in Requests : Probing(s)'
  BY <1>2, <1>3, <1>4 DEF Inv, Probing, ProbesOf, FullReport, Readiness, healthVars
<1>. QED
  BY <1>2, <1>3, <1>5, OneMoves DEF Inv, healthVars

LEMMA FailsInv ==
  ASSUME Inv, NEW d \in Dependencies, Fails(d)
  PROVE  Inv'
<1>1. /\ up' = (up \ {d}) \cup ({d} \ up) /\ UNCHANGED <<downDependencies, config, store, req>>
      /\ witnessed' = [r \in Reports |->
           [e \in DOMAIN witnessed[r] |-> IF e = d THEN Statuses ELSE witnessed[r][e]]]
  BY DEF Fails, Change
<1>2. DOMAIN witnessed' = Requests
  BY <1>1, PipelineAssumption
<1>3. ASSUME NEW r \in Requests
      PROVE  Probing(r)'
  <2>1. witnessed'[r] = [e \in DOMAIN witnessed[r] |-> IF e = d THEN Statuses ELSE witnessed[r][e]]
    BY <1>1, PipelineAssumption
  <2>2. DOMAIN witnessed'[r] = DOMAIN witnessed[r]
    BY <2>1
  <2>3. witnessed'[r] \in [DOMAIN witnessed[r] -> SUBSET Statuses]
    BY <2>1 DEF Inv, Probing
  <2>4. Probing(r) /\ req'[r] = req[r]
    BY <1>1 DEF Inv
  <2>. QED
    BY <2>2, <2>3, <2>4 DEF Probing, ProbesOf, FullReport, Readiness
<1>4. \A r \in Requests : Fits(req[r])'
  BY <1>1, FitsStays DEF Inv
<1>. QED
  BY <1>1, <1>2, <1>3, <1>4 DEF Inv

LEMMA StepInv == Inv /\ [Next]_vars => Inv'
<1>. SUFFICES ASSUME Inv, [Next]_vars PROVE Inv'
  OBVIOUS
<1>1. CASE UNCHANGED vars
  <2>1. UNCHANGED <<config, store, req, up, downDependencies, witnessed>>
    BY <1>1 DEF vars, healthVars
  <2>2. \A r \in Requests : Fits(req[r])'
    BY <2>1, FitsStays DEF Inv
  <2>3. \A r \in Requests : Probing(r)'
    BY <2>1 DEF Inv, Probing, ProbesOf, FullReport, Readiness
  <2>. QED
    BY <2>1, <2>2, <2>3 DEF Inv
<1>2. ASSUME NEW r \in Requests, Step(r)
      PROVE  Inv'
  BY <1>2, CountDocsInv, RateLimitGuardInv, ApiKeyGuardInv, HandleInv, RespondInv, RenderInv,
     FinishInv, LeaveInv DEF Step
<1>. QED
  BY <1>1, <1>2, ArriveInv, FailsInv DEF Next

THEOREM Invariant == Spec => []Inv
  BY InitInv, StepInv, PTL DEF Spec

-----------------------------------------------------------------------------
(* What follows.                                                           *)

LEMMA InvTyped == Inv => TypeOK
  BY DEF Inv, TypeOK, Records, Probing, CallsOrNobody, CodesOrNone, LineSets

\* Every reachable state is well typed (RequestPipeline, Health).
THEOREM TypeCorrect == Spec => []TypeOK
  BY Invariant, InvTyped, PTL

LEMMA InvAccounts == Inv => AccountsAgree
<1>. SUFFICES ASSUME Inv, NEW r \in Requests
              PROVE  /\ req[r].at = "answered" =>
                        /\ Cardinality(RequestLines(r)) <= 1
                        /\ \A line \in RequestLines(r) : line.says[2] = req[r].status
                        /\ ByNest(r) /\ req[r].cause # "none" =>
                              \E line \in RequestLines(r) :
                                 line.says[1] = IF req[r].status \in 500..599 THEN "error" ELSE "warn"
                     /\ req[r].at = "done" =>
                        /\ req[r].sample.status = req[r].status
                        /\ req[r].sample.route \in {Unmatched, req[r].call.path}
                        /\ req[r].sample.route = Unmatched => ~req[r].ran
                        /\ req[r].status \in {404, 405} => req[r].sample.route = Unmatched
  BY DEF AccountsAgree
<1>1. Fits(req[r])
  BY DEF Inv
<1>2. CASE req[r].at = "answered"
  <2>1. Told(req[r])
    BY <1>1, <1>2 DEF Fits
  <2>2. RequestLines(r) = Account(req[r])
    BY DEF RequestLines, LinesBy, Account
  <2>3. Cardinality(RequestLines(r)) <= 1
    <3>1. CASE RequestLines(r) = {}
      BY <3>1, FS_EmptySet
    <3>2. CASE RequestLines(r) # {}
      <4>1. PICK line \in RequestLines(r) : TRUE
        BY <3>2
      <4>2. \A l \in RequestLines(r) : l = line
        BY <2>1, <2>2, <4>1 DEF Told
      <4>3. RequestLines(r) = {line}
        BY <4>1, <4>2
      <4>. QED
        BY <4>3, FS_Singleton
    <3>. QED
      BY <3>1, <3>2
  <2>4. ByNest(r) = Handled(req[r])
    BY DEF ByNest, Handled
  <2>. QED
    BY <1>2, <2>1, <2>2, <2>3, <2>4 DEF Told
<1>3. CASE req[r].at = "done"
  BY <1>1, <1>3 DEF Fits, Measured
<1>. QED
  BY <1>2, <1>3

\* The answer, the log line and the sample of every request agree, though three layers
\* make them (AllExceptionsFilter, LoggingInterceptor, metricsMiddleware).
THEOREM OneStory == Spec => []AccountsAgree
  BY Invariant, InvAccounts, PTL

LEMMA InvTraceable == Inv => LinesTraceable
<1>. SUFFICES ASSUME Inv, NEW r \in Requests, NEW line \in req[r].lines
              PROVE  line.id = req[r].id
  BY DEF LinesTraceable
<1>1. Fits(req[r]) /\ req[r].at \in Places
  BY DEF Inv, Records
<1>2. CASE req[r].at = "answered"
  <2>1. Told(req[r])
    BY <1>1, <1>2 DEF Fits
  <2>. QED
    BY <2>1 DEF Told
<1>3. CASE req[r].at # "answered"
  <2>1. Unsettled(req[r])
    BY <1>1, <1>3 DEF Fits, Places, Unserved, Measured
  <2>. QED
    BY <2>1 DEF Unsettled
<1>. QED
  BY <1>2, <1>3

\* Every line carries the id its client was given (runWithCorrelationId).
THEOREM EveryLineTraceable == Spec => []LinesTraceable
  BY Invariant, InvTraceable, PTL

LEMMA InvBlame == Inv => BlameFollowsCause
<1>. SUFFICES ASSUME Inv, NEW r \in Requests, Answered(r), req[r].cause # "none"
              PROVE  req[r].status \in IF req[r].cause \in Client THEN 400..499
                                       ELSE IF req[r].cause \in Engine THEN {502, 503} ELSE {500}
  BY DEF BlameFollowsCause
<1>1. Fits(req[r]) /\ req[r].at = "answered"
  BY DEF Inv, Answered
<1>2. Told(req[r])
  BY <1>1 DEF Fits
<1>. QED
  BY <1>2 DEF Told, Blame

\* A failure's status blames whoever caused it (AllExceptionsFilter.resolveError).
THEOREM BlamedOnTheirCause == Spec => []BlameFollowsCause
  BY Invariant, InvBlame, PTL

LEMMA InvPaid == Inv => NothingForFree
<1>. SUFFICES ASSUME Inv, NEW r \in Requests, req[r].call.path \notin Unguarded
              PROVE  /\ req[r].ran \/ req[r].cause \in {"key", "token", "input"} =>
                          ((IF UnderDocs(req[r].call.path) THEN config.auth /\ config.limiter
                            ELSE Limited(req[r].call)) => req[r].counted)
                     /\ req[r].ran /\ NeedsKey(req[r].call) => Identified(req[r].call)
  BY DEF NothingForFree
<1>1. Fits(req[r])
  BY DEF Inv
<1>2. Earned(req[r])
  BY <1>1 DEF Fits
<1>. QED
  BY <1>2 DEF Earned, DocsPaid, Paid, Keyed

\* What is limited is counted before it is served and before it is refused for its key, token
\* or input, and what needs a key is served with one, but for the copy of the contract that
\* nothing guards (the order of the guards, and of the documentation's middleware).
THEOREM NobodyIsServedForFree == Spec => []NothingForFree
  BY Invariant, InvPaid, PTL

LEMMA InvStrangers == Inv => WrongVerbsHideRoutes
<1>1. ASSUME Inv, NEW r \in Requests, config.auth, Answered(r),
             req[r].call.method \notin AllowedMethods, ~UnderDocs(req[r].call.path),
             ~req[r].call.key
      PROVE  req[r].status = 404
  <2>1. Fits(req[r]) /\ req[r].at = "answered"
    BY <1>1 DEF Inv, Answered
  <2>2. Told(req[r])
    BY <2>1 DEF Fits
  <2>. QED
    BY <1>1, <2>2 DEF Told
<1>. QED
  BY <1>1 DEF WrongVerbsHideRoutes

\* To callers without a key every path but the documentation's answers a verb no route takes
\* alike (upgradeMethodNotAllowed).
THEOREM WrongVerbsTellNothing == Spec => []WrongVerbsHideRoutes
  BY Invariant, InvStrangers, PTL

LEMMA StatusSet ==
  ASSUME NEW q \in Records, NEW lines, NEW status, NEW id
  PROVE  Succeeded([q EXCEPT !.lines = lines], status, id).status = status
  BY DEF Succeeded, Records

LEMMA RenderWitnessed ==
  ASSUME Inv, NEW r \in Requests, Render(r)
  PROVE  IF req'[r].status = 200
         THEN \A d \in Critical : "up" \in witnessed[r][d]
         ELSE \E d \in Critical : "down" \in witnessed[r][d]
<1>1. req[r] \in Records /\ req[r].at = "probes" /\ Fits(req[r])
  BY DEF Inv, Render
<1>2. PICK statuses \in Settled(r) :
         req'[r].status = IF Verdict(statuses) = "ok" THEN 200 ELSE 503
  <2>1. PICK statuses \in Settled(r) :
          LET changes == Transitions(statuses)
              lines == {Line("CheckHealth", <<"is down", d>>, store[r]) : d \in changes.down}
                         \cup {Line("CheckHealth", <<"recovered", d>>, store[r]) :
                                  d \in changes.recovered}
          IN Set(r, Succeeded([req[r] EXCEPT !.lines = @ \cup lines],
                              IF Verdict(statuses) = "ok" THEN 200 ELSE 503, store[r]))
    BY DEF Render
  <2>2. PICK lines, status :
          /\ status = IF Verdict(statuses) = "ok" THEN 200 ELSE 503
          /\ Set(r, Succeeded([req[r] EXCEPT !.lines = lines], status, store[r]))
    BY <2>1
  <2>3. req'[r] = Succeeded([req[r] EXCEPT !.lines = lines], status, store[r])
    BY <2>2 DEF Inv, Set
  <2>4. req'[r].status = status
    BY <1>1, <2>3, StatusSet
  <2>. QED
    BY <2>2, <2>4
<1>3. /\ DOMAIN statuses = DOMAIN witnessed[r] /\ Critical \subseteq DOMAIN statuses
      /\ \A d \in DOMAIN statuses : /\ statuses[d] \in Statuses
                                    /\ witnessed[r][d] \subseteq Statuses
                                    /\ \E state \in witnessed[r][d] :
                                          statuses[d] = ToDependencyHealth(state)
  <2>1. Probing(r)
    BY DEF Inv
  <2>2. DOMAIN statuses = DOMAIN witnessed[r]
    BY DEF Settled
  <2>3. Critical \subseteq DOMAIN statuses
    BY <1>1, <2>1, <2>2, HealthAssumption DEF Probing, ProbesOf, FullReport, Readiness
  <2>. QED
    BY <2>1, <2>2, <2>3 DEF Settled, Probing
<1>4. CASE Verdict(statuses) = "ok"
  <2>1. req'[r].status = 200
    BY <1>2, <1>4
  <2>2. \A d \in Critical : statuses[d] = "up"
    BY <1>3, <1>4 DEF Verdict
  <2>. QED
    BY <1>3, <2>1, <2>2 DEF ToDependencyHealth
<1>5. CASE Verdict(statuses) # "ok"
  <2>1. req'[r].status # 200
    BY <1>2, <1>5
  <2>2. PICK d \in Critical : statuses[d] = "down"
    BY <1>3, <1>5 DEF Verdict, Statuses
  <2>3. "down" \in witnessed[r][d]
    BY <1>3, <2>2 DEF ToDependencyHealth, Statuses
  <2>. QED
    BY <2>1, <2>3
<1>. QED
  BY <1>4, <1>5

\* The steps of others leave a report alone, and no other step of its own ends it.
LEMMA OnlyRenderAnswers ==
  ASSUME Inv, [Next]_vars, NEW r \in Requests, req[r].at = "probes", req'[r].at = "answered"
  PROVE  Render(r)
<1>1. ~UNCHANGED vars
  BY DEF vars
<1>2. \A s \in Requests \ {r} : \A q : Set(s, q) => req'[r] = req[r]
  BY DEF Set, Inv
<1>3. ~\E s \in Requests, call \in Calls : Arrive(s, call)
  BY <1>2 DEF Arrive, Over
<1>4. ~\E d \in Dependencies : Fails(d)
  BY DEF Fails
<1>5. PICK s \in Requests : Step(s)
  BY <1>1, <1>3, <1>4 DEF Next
<1>6. s = r
  BY <1>2, <1>5 DEF Step, CountDocs, RateLimitGuard, ApiKeyGuard, Handle, Respond, Render, Finish, Leave
<1>. QED
  BY <1>5, <1>6 DEF Step, CountDocs, RateLimitGuard, ApiKeyGuard, Guarding, Handle, Respond, Finish, Leave

LEMMA StepWitnessed ==
  Inv /\ [Next]_vars =>
     [\A r \in Requests :
         req[r].at = "probes" /\ req'[r].at = "answered" =>
           IF req'[r].status = 200
           THEN \A d \in Critical : "up" \in witnessed[r][d]
           ELSE \E d \in Critical : "down" \in witnessed[r][d]]_vars
  BY OnlyRenderAnswers, RenderWitnessed

\* A verdict is about what its own probes saw, whatever other reports note meanwhile
\* (CheckHealthUseCase.report).
THEOREM VerdictsAreWitnessed == Spec => VerdictWitnessed
  BY Invariant, StepWitnessed, PTL DEF Spec, VerdictWitnessed

-----------------------------------------------------------------------------
(* What is noted of the dependencies.                                      *)

Saw(r, d, state) == d \in DOMAIN witnessed[r] /\ state \in witnessed[r][d]

\* What LastingOutageNoted needs besides fairness.  An outage is noted, and its note is
\* withdrawn, by a report whose own probe saw it so; a report that saw nothing but the
\* outage notes it; and while it lasts no report learns of the time before, so that those
\* that could withdraw the note die out.
NotesAreWitnessed ==
    [][\A d \in Dependencies :
          /\ d \in downDependencies' \ downDependencies => \E r \in Requests : Saw(r, d, "down")
          /\ d \in downDependencies \ downDependencies' => \E r \in Requests : Saw(r, d, "up")
          /\ \A r \in Requests :
                /\ req[r].at = "probes" /\ req'[r].at = "answered"
                      /\ d \in DOMAIN witnessed[r] /\ ~Saw(r, d, "up") => d \in downDependencies'
                /\ d \notin up /\ d \notin up' /\ ~Saw(r, d, "up") => ~Saw(r, d, "up")']_vars

\* A report that ends notes what its probes settled to.
LEMMA RenderNotes ==
  ASSUME Inv, NEW r \in Requests, Render(r), NEW d \in Dependencies
  PROVE  /\ d \in downDependencies' \ downDependencies => Saw(r, d, "down")
         /\ d \in downDependencies \ downDependencies' => Saw(r, d, "up")
         /\ d \in DOMAIN witnessed[r] /\ ~Saw(r, d, "up") => d \in downDependencies'
         /\ \A s \in Requests : Saw(s, d, "up")' => Saw(s, d, "up")
<1>1. PICK statuses \in Settled(r) : FinishReport(r, statuses)
  BY DEF Render
<1>2. /\ downDependencies' = (downDependencies \ UpIn(statuses)) \cup DownIn(statuses)
      /\ witnessed' = [witnessed EXCEPT ![r] = NoProbes]
  BY <1>1 DEF FinishReport, Remembered
<1>3. DOMAIN statuses = DOMAIN witnessed[r]
  BY DEF Settled
<1>4. \A e \in DOMAIN statuses : /\ statuses[e] \in Statuses /\ statuses[e] \in witnessed[r][e]
  <2>1. Probing(r)
    BY DEF Inv
  <2>. QED
    BY <2>1 DEF Settled, Probing, ToDependencyHealth, Statuses
<1>5. d \in UpIn(statuses) => Saw(r, d, "up")
  BY <1>3, <1>4 DEF UpIn, DownIn, Statuses, Saw
<1>6. d \in DownIn(statuses) => Saw(r, d, "down")
  BY <1>3, <1>4 DEF DownIn, Saw
<1>7. d \in DOMAIN witnessed[r] => d \in UpIn(statuses) \cup DownIn(statuses)
  BY <1>3 DEF UpIn
<1>8. ASSUME NEW s \in Requests, Saw(s, d, "up")'
      PROVE  Saw(s, d, "up")
  <2>1. s # r
    BY <1>2, <1>8 DEF Saw, NoProbes, Inv
  <2>. QED
    BY <1>2, <1>8, <2>1 DEF Saw, Inv
<1>. QED
  BY <1>2, <1>5, <1>6, <1>7, <1>8

\* A report that starts sees what is; one under way sees every change.
LEMMA HandleNotes ==
  ASSUME Inv, NEW r \in Requests, Handle(r), NEW d \in Dependencies, d \notin up,
         NEW s \in Requests, Saw(s, d, "up")'
  PROVE  Saw(s, d, "up")
<1>1. CASE UNCHANGED healthVars
  BY <1>1 DEF Saw, healthVars
<1>2. CASE \E probes : StartReport(r, probes)
  <2>1. PICK probes : witnessed' = [witnessed EXCEPT ![r] = [e \in probes |-> {Ping(e)}]]
    BY <1>2 DEF StartReport
  <2>2. ~Saw(r, d, "up")'
    BY <2>1 DEF Saw, Ping, Inv
  <2>. QED
    BY <2>1, <2>2 DEF Saw, Inv
<1>. QED
  BY <1>1, <1>2 DEF Handle

LEMMA FailsNotes ==
  ASSUME Inv, NEW e \in Dependencies, Fails(e), NEW d \in Dependencies, d \notin up, d \notin up',
         NEW s \in Requests, Saw(s, d, "up")'
  PROVE  Saw(s, d, "up")
<1>1. /\ up' = (up \ {e}) \cup ({e} \ up)
      /\ witnessed' = [r \in Requests |->
           [f \in DOMAIN witnessed[r] |-> IF f = e THEN Statuses ELSE witnessed[r][f]]]
  BY PipelineAssumption DEF Fails, Change
<1>2. d # e
  BY <1>1
<1>3. witnessed'[s] = [f \in DOMAIN witnessed[s] |-> IF f = e THEN Statuses ELSE witnessed[s][f]]
  BY <1>1
<1>. QED
  BY <1>2, <1>3 DEF Saw

\* Only the end of a report changes the notes, and only a start, an end or a change of a
\* dependency what reports saw.
LEMMA OtherSteps ==
  ASSUME [Next]_vars, ~\E r \in Requests : Render(r)
  PROVE  /\ downDependencies' = downDependencies
         /\ \/ UNCHANGED healthVars
            \/ \E r \in Requests : Handle(r)
            \/ \E e \in Dependencies : Fails(e)
<1>1. CASE UNCHANGED vars
  BY <1>1 DEF vars, healthVars
<1>2. ASSUME NEW r \in Requests, Step(r) \/ \E call \in Calls : Arrive(r, call)
      PROVE  UNCHANGED healthVars \/ (Handle(r) /\ downDependencies' = downDependencies)
  BY <1>2 DEF Step, CountDocs, RateLimitGuard, ApiKeyGuard, Handle, StartReport, Respond, Finish,
     Leave, Arrive, healthVars
<1>3. ASSUME NEW e \in Dependencies, Fails(e)
      PROVE  downDependencies' = downDependencies
  BY <1>3 DEF Fails, Change
<1>. QED
  BY <1>1, <1>2, <1>3 DEF Next, healthVars

LEMMA StepNotes ==
  ASSUME Inv, [Next]_vars, NEW d \in Dependencies
  PROVE  /\ d \in downDependencies' \ downDependencies => \E r \in Requests : Saw(r, d, "down")
         /\ d \in downDependencies \ downDependencies' => \E r \in Requests : Saw(r, d, "up")
         /\ \A r \in Requests :
               /\ req[r].at = "probes" /\ req'[r].at = "answered"
                     /\ d \in DOMAIN witnessed[r] /\ ~Saw(r, d, "up") => d \in downDependencies'
               /\ d \notin up /\ d \notin up' /\ ~Saw(r, d, "up") => ~Saw(r, d, "up")'
<1>1. ASSUME NEW r \in Requests, req[r].at = "probes", req'[r].at = "answered",
             d \in DOMAIN witnessed[r], ~Saw(r, d, "up")
      PROVE  d \in downDependencies'
  BY <1>1, OnlyRenderAnswers, RenderNotes
<1>2. CASE \E r \in Requests : Render(r)
  BY <1>1, <1>2, RenderNotes
<1>3. CASE ~\E r \in Requests : Render(r)
  <2>1. downDependencies' = downDependencies
    BY <1>3, OtherSteps
  <2>2. ASSUME NEW s \in Requests, d \notin up, d \notin up', Saw(s, d, "up")'
        PROVE  Saw(s, d, "up")
    <3>1. CASE UNCHANGED healthVars
      BY <2>2, <3>1 DEF Saw, healthVars
    <3>. QED
      BY <1>3, <2>2, <3>1, OtherSteps, HandleNotes, FailsNotes
  <2>. QED
    BY <1>1, <2>1, <2>2
<1>. QED
  BY <1>2, <1>3

\* The memory of what was logged as down follows what reports saw, however they overlap
\* (CheckHealthUseCase.reportTransitions).
THEOREM NotesFollowProbes == Spec => NotesAreWitnessed
<1>1. Inv /\ [Next]_vars =>
         [\A d \in Dependencies :
          /\ d \in downDependencies' \ downDependencies => \E r \in Requests : Saw(r, d, "down")
          /\ d \in downDependencies \ downDependencies' => \E r \in Requests : Saw(r, d, "up")
          /\ \A r \in Requests :
                /\ req[r].at = "probes" /\ req'[r].at = "answered"
                      /\ d \in DOMAIN witnessed[r] /\ ~Saw(r, d, "up") => d \in downDependencies'
                /\ d \notin up /\ d \notin up' /\ ~Saw(r, d, "up") => ~Saw(r, d, "up")']_vars
  BY StepNotes
<1>. QED
  BY Invariant, <1>1, PTL DEF Spec, NotesAreWitnessed

=============================================================================
