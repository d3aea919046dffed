------------------------------- MODULE Lifecycle -------------------------------
(***************************************************************************)
(* One process from its start to its exit: the bootstrap of main.ts, the   *)
(* start of tracing before it, the two ways of closing the application     *)
(* (the shutdown hooks of Nest on SIGTERM, handleFatalError after a        *)
(* failure nobody caught), the flush of telemetry, and the requests caught *)
(* in between.  Everything between the creation of the application and     *)
(* the call of listen() is one run of the event loop, and one step here.   *)
(*                                                                         *)
(* Node, Nest, the SDKs of OpenTelemetry, the clients and the backend of   *)
(* the telemetry are external.                                             *)
(***************************************************************************)
EXTENDS Configuration, FiniteSets

CONSTANTS
    Environments,  \* the environments a process may be started in
    Requests,
    MaxSignals     \* how often SIGTERM may be sent

ASSUME LifecycleAssumption ==
    /\ MaxSignals \in Nat
    /\ \A env \in Environments :
         DOMAIN env = {"flag", "number", "choice", "text", "list"}

Closers == {"signal", "fatal"}
Phases == {"idle", "destroy", "dispose", "drain", "hooks", "flush", "ended"}

VARIABLES
    env, config,
    stage,      \* how far bootstrap() is
    server,     \* "reopened": told to listen after it had been closed
    clients,    \* the clients of Elasticsearch and Redis
    request,    \* where each request is
    listeners,  \* who listens for SIGTERM
    net,        \* the process safety net
    closing,    \* how far each closer of the application is
    tracer, spans,   \* the trace SDK, and the requests whose spans it holds
    meter, samples,  \* the metrics SDK, and the requests it has not exported
    backendUp,
    signals, fault,  \* how often SIGTERM was sent; whether the program failed
    exit        \* "failed" is exit code 1, "terminated" is death by SIGTERM

program == <<env, config, stage>>
serving == <<server, clients, request>>
handlers == <<listeners, net, closing>>
telemetry == <<tracer, spans, meter, samples>>
events == <<backendUp, signals, fault, exit>>
vars == <<program, serving, handlers, telemetry, events>>

Init ==
    /\ env \in Environments
    /\ config = None
    /\ stage = "loading"
    /\ server = "down" /\ clients = "open"
    /\ request = [r \in Requests |-> "new"]
    /\ listeners = {} /\ net = "off"
    /\ closing = [c \in Closers |-> "idle"]
    /\ tracer = "off" /\ spans = {} /\ meter = "off" /\ samples = {}
    /\ backendUp \in BOOLEAN
    /\ signals = 0 /\ fault = FALSE /\ exit = "running"

-----------------------------------------------------------------------------
(* Failures nobody caught, and the two closers.                            *)

Begin(c) ==
    /\ closing' = [closing EXCEPT ![c] = "destroy"]
    /\ clients' = IF clients = "open" THEN "closing" ELSE clients

\* What becomes of an unhandled rejection or an uncaught exception.
OnFatal ==
    CASE net = "off"      -> exit' = "failed" /\ UNCHANGED <<net, closing, clients>>
      [] net = "armed"    -> net' = "handling" /\ Begin("fatal") /\ UNCHANGED exit
      [] net = "handling" -> UNCHANGED <<exit, net, closing, clients>>

\* Variant: the listener of the trace SDK is not removed by its first run.
ListenersStay(ls) == ls
AfterSignal(ls) == ls \ {"tracing"}

\* What SIGTERM does to a process with these listeners.
Raise(ls) ==
    /\ exit' = IF ls = {} THEN "terminated" ELSE exit
    /\ listeners' = AfterSignal(ls)
    /\ tracer' = IF "tracing" \in ls /\ tracer = "running" THEN "flushing" ELSE tracer
    /\ IF "nest" \in ls /\ closing["signal"] = "idle"
       THEN Begin("signal")
       ELSE UNCHANGED <<closing, clients>>

Sigterm ==
    /\ signals < MaxSignals
    /\ signals' = signals + 1
    /\ Raise(listeners)
    /\ UNCHANGED <<program, server, request, net, spans, meter, samples, backendUp, fault>>

StrayFailure ==
    /\ ~fault
    /\ fault' = TRUE
    /\ OnFatal
    /\ UNCHANGED <<program, server, request, listeners, telemetry, backendUp, signals>>

-----------------------------------------------------------------------------
(* Start.                                                                  *)

LoadConfig ==
    /\ stage = "loading"
    /\ IF ValidateEnv(env)
       THEN /\ stage' = "creating"
            /\ config' = BuildConfig(Parsed(env))
            /\ UNCHANGED exit
       ELSE exit' = "failed" /\ UNCHANGED <<stage, config>>
    /\ IF ValidateEnv(env) /\ TracingConfigured(BuildConfig(Parsed(env)))
       THEN tracer' = "running" /\ listeners' = {"tracing"}
       ELSE UNCHANGED <<tracer, listeners>>
    /\ UNCHANGED <<env, serving, net, closing, spans, meter, samples, backendUp, signals, fault>>

Bootstrap ==
    /\ stage = "creating"
    /\ stage' = "starting"
    /\ meter' = IF BuildMetricsAdapter(config) = "composite" THEN "running" ELSE "off"
    /\ listeners' = listeners \cup {"nest"}
    /\ net' = "armed"
    /\ UNCHANGED <<env, config, serving, closing, tracer, spans, samples, events>>

Listen ==
    /\ stage = "starting"
    /\ \/ /\ stage' = "up"
          /\ server' = IF server = "down" THEN "accepting" ELSE "reopened"
          /\ UNCHANGED <<clients, net, closing, fault, exit>>
       \/ /\ stage' = "failed"
          /\ fault' = TRUE
          /\ OnFatal
          /\ UNCHANGED server
    /\ UNCHANGED <<env, config, request, listeners, telemetry, backendUp, signals>>

-----------------------------------------------------------------------------
(* Requests.                                                               *)

Accept(r) ==
    /\ server \in {"accepting", "reopened"}
    /\ request[r] = "new"
    /\ request' = [request EXCEPT ![r] = "accepted"]
    /\ UNCHANGED <<program, server, clients, handlers, telemetry, events>>

Query(r) ==
    /\ request[r] = "accepted"
    /\ clients = "open"
    /\ request' = [request EXCEPT ![r] = "querying"]
    /\ UNCHANGED <<program, server, clients, handlers, telemetry, events>>

\* The answer, whichever it is: from the engine, from the cache, a refusal,
\* or a 503 because the clients are closed.
Finish(r) ==
    /\ request[r] \in {"accepted", "querying"}
    /\ request' = [request EXCEPT ![r] = "done"]
    /\ samples' = IF meter = "off" THEN samples ELSE samples \cup {r}
    /\ \E sampled \in BOOLEAN :
         spans' = IF sampled /\ tracer = "running" THEN spans \cup {r} ELSE spans
    /\ UNCHANGED <<program, server, clients, handlers, tracer, meter, events>>

-----------------------------------------------------------------------------
(* Close: the phases of NestApplicationContext.close().                    *)

InFlight(states) == \E r \in Requests : request[r] \in states

\* Variant: the metrics are flushed before the server is drained.
FlushFirst(phase) ==
    CASE phase = "destroy" -> "hooks" [] phase = "drain" -> "ended"
      [] phase \in {"hooks", "flush"} -> "dispose"
After(phase) ==
    CASE phase = "destroy" -> "dispose" [] phase = "drain" -> "hooks"
      [] phase \in {"hooks", "flush"} -> "ended"

Move(c, phase) == closing' = [closing EXCEPT ![c] = phase]

\* OnModuleDestroy: the clients wait for the queries they have sent.
OnModuleDestroy(c) ==
    /\ closing[c] = "destroy"
    /\ ~InFlight({"querying"})
    /\ clients' = "closed"
    /\ Move(c, After("destroy"))
    /\ UNCHANGED <<program, server, request, listeners, net, telemetry, events>>

\* A client that the other closer has closed may refuse to be closed again;
\* close() rejects, and either closer ends the process.
CloseRejects(c) ==
    /\ closing[c] = "destroy"
    /\ clients = "closed"
    /\ exit' = "failed"
    /\ UNCHANGED <<program, serving, handlers, telemetry, backendUp, signals, fault>>

Dispose(c) ==
    /\ closing[c] = "dispose"
    /\ server' = "closed"
    /\ Move(c, "drain")
    /\ UNCHANGED <<program, clients, request, listeners, net, telemetry, events>>

\* Variant: the connections of the server are cut instead of drained.
NobodyWaitedFor == TRUE
Drained == ~InFlight({"accepted", "querying"})

AwaitDrained(c) ==
    /\ closing[c] = "drain"
    /\ Drained
    /\ Move(c, After("drain"))
    /\ UNCHANGED <<program, serving, listeners, net, telemetry, events>>

\* The hook of the composite adapter: a provider is shut down only once, and
\* a second call returns at once.
OnApplicationShutdown(c) ==
    /\ closing[c] = "hooks"
    /\ IF meter = "running"
       THEN meter' = "flushing" /\ Move(c, "flush")
       ELSE Move(c, After("hooks")) /\ UNCHANGED meter
    /\ UNCHANGED <<program, serving, listeners, net, tracer, spans, samples, events>>

\* Variant: the failure of the last export reaches whoever closes.
FlushThrows(c) == exit' = "failed" /\ UNCHANGED closing
FlushSwallowed(c) == Move(c, After("flush")) /\ UNCHANGED exit

ShutdownMetrics(c) ==
    /\ closing[c] = "flush"
    /\ IF backendUp
       THEN meter' = "shut" /\ samples' = {} /\ Move(c, After("flush")) /\ UNCHANGED exit
       ELSE meter' = "lost" /\ FlushSwallowed(c) /\ UNCHANGED samples
    /\ UNCHANGED <<program, serving, listeners, net, tracer, spans, backendUp, signals, fault>>

\* The hooks of Nest pass the signal on once nobody of theirs listens.
KillItself ==
    /\ closing["signal"] = "ended"
    /\ "nest" \in listeners
    /\ Raise(listeners \ {"nest"})
    /\ UNCHANGED <<program, server, request, net, spans, meter, samples,
                   backendUp, signals, fault>>

ExitCode == "failed"

HandleFatalErrorEnds ==
    /\ closing["fatal"] = "ended"
    /\ exit' = ExitCode
    /\ UNCHANGED <<program, serving, handlers, telemetry, backendUp, signals, fault>>

-----------------------------------------------------------------------------
(* Telemetry.                                                              *)

ExportSamples ==
    /\ meter = "running" /\ backendUp /\ samples # {}
    /\ samples' = {}
    /\ UNCHANGED <<program, serving, handlers, tracer, spans, meter, events>>

\* A batch that cannot be sent is dropped.
ExportSpans ==
    /\ tracer = "running" /\ spans # {}
    /\ spans' = {}
    /\ UNCHANGED <<program, serving, handlers, tracer, meter, samples, events>>

\* Nobody awaits stopTracing(): a flush that fails is an unhandled rejection.
StopTracing ==
    /\ tracer = "flushing"
    /\ spans' = {}
    /\ IF backendUp \/ spans = {}
       THEN tracer' = "shut" /\ UNCHANGED <<exit, net, closing, clients>>
       ELSE tracer' = "lost" /\ OnFatal
    /\ UNCHANGED <<program, server, request, listeners, meter, samples,
                   backendUp, signals, fault>>

BackendFlips ==
    /\ backendUp' = ~backendUp
    /\ UNCHANGED <<program, serving, handlers, telemetry, signals, fault, exit>>

-----------------------------------------------------------------------------

Close(c) ==
    \/ OnModuleDestroy(c) \/ CloseRejects(c) \/ Dispose(c) \/ AwaitDrained(c)
    \/ OnApplicationShutdown(c) \/ ShutdownMetrics(c)

Next ==
    /\ exit = "running"
    /\ \/ Sigterm \/ StrayFailure \/ LoadConfig \/ Bootstrap \/ Listen
       \/ \E r \in Requests : Accept(r) \/ Query(r) \/ Finish(r)
       \/ \E c \in Closers : Close(c)
       \/ KillItself \/ HandleFatalErrorEnds
       \/ ExportSamples \/ ExportSpans \/ StopTracing \/ BackendFlips

\* The event loop keeps running, requests end (every call they make has a
\* timeout), and so do the exports; nothing else is promised.
Fairness ==
    /\ WF_vars(exit = "running" /\ (LoadConfig \/ Bootstrap \/ Listen))
    /\ \A r \in Requests : WF_vars(exit = "running" /\ Finish(r))
    /\ \A c \in Closers : WF_vars(exit = "running" /\ Close(c))
    /\ WF_vars(exit = "running" /\ (KillItself \/ HandleFatalErrorEnds))
    /\ WF_vars(exit = "running" /\ StopTracing)

Spec == Init /\ [][Next]_vars /\ Fairness

-----------------------------------------------------------------------------
(* Properties.                                                             *)

(* Every variable has a value of its type, and the states of the parts     *)
(* that have to agree do: only a configured process serves, only a heard   *)
(* signal or an armed net closes, a provider is shut down only by a closer *)
(* (bootstrap, installProcessSafetyNet, startTracing).                     *)
TypeOK ==
    /\ env \in Environments
    /\ stage \in {"loading", "creating", "starting", "up", "failed"}
    /\ stage = "loading" => config = None
    /\ server \in {"down", "accepting", "closed", "reopened"}
    /\ server = "accepting" => stage = "up"
    /\ clients \in {"open", "closing", "closed"}
    /\ request \in [Requests -> {"new", "accepted", "querying", "done"}]
    /\ listeners \subseteq {"tracing", "nest"}
    /\ net \in {"off", "armed", "handling"}
    /\ closing \in [Closers -> Phases]
    /\ closing["fatal"] # "idle" <=> net = "handling"
    /\ closing["signal"] # "idle" => signals > 0
    /\ tracer \in {"off", "running", "flushing", "shut", "lost"}
    /\ meter \in {"off", "running", "flushing", "shut", "lost"}
    /\ meter = "flushing" => \E c \in Closers : closing[c] = "flush"
    /\ spans \subseteq Requests /\ samples \subseteq Requests
    /\ backendUp \in BOOLEAN /\ fault \in BOOLEAN
    /\ signals \in 0 .. MaxSignals
    /\ exit \in {"running", "failed", "terminated"}

(* One closer at a time, and no server that listens after it was closed.   *)
Orderly ==
    /\ closing["signal"] = "idle" \/ closing["fatal"] = "idle"
    /\ server # "reopened"

(* Every request the server has accepted is answered before the process    *)
(* ends, by a signal or by a fatal error, unless the two closers overlap   *)
(* (the second may end the process while the first one drains) or the      *)
(* server was started during its own shutdown (dispose before listen).     *)
NobodyCutOff ==
    exit # "running" /\ Orderly => \A r \in Requests : request[r] \in {"new", "done"}

(* The samples of the last interval reach the backend, those of requests   *)
(* answered during the shutdown included: when a process ends, nothing it  *)
(* measured is unsent, unless the last flush itself failed                 *)
(* (otlp-metrics.adapter.ts, shutdown; composite-metrics.adapter.ts).      *)
SamplesReachBackend ==
    exit # "running" /\ Orderly => samples = {} \/ meter = "lost"

(* The exit code tells why.  A process ends as though told to only if it   *)
(* was told to, and, if the program failed, only if a signal was being     *)
(* obeyed; it reports failure only if the program failed, its environment  *)
(* was rejected or the flush of the spans failed.  In particular no        *)
(* failing flush of metrics turns a clean shutdown into a crash.           *)
ExitTellsWhy ==
    /\ exit = "terminated" => signals > 0 /\ (fault => closing["signal"] # "idle")
    /\ exit = "failed" => fault \/ tracer = "lost" \/ stage = "loading"

(* A process that serves is as closed as its environment says: unless      *)
(* authentication is switched off by name there are keys, and each of them *)
(* is long enough, although the keys that are checked and the keys that    *)
(* are served are parsed by two functions; in production the metrics have  *)
(* a token and no unlisted origin is allowed (env.schema.ts, app-config.ts,*)
(* resolveCorsOrigin).                                                     *)
DoorsAsConfigured ==
    server # "down" =>
        /\ \/ env.flag["API_AUTH_ENABLED"] = "false"
           \/ /\ config.list["API_KEYS"] # <<>>
              /\ \A i \in DOMAIN config.list["API_KEYS"] :
                     config.list["API_KEYS"][i] >= MinApiKeyLength
        /\ env.choice["NODE_ENV"] = "production" =>
             /\ env.flag["METRICS_ENABLED"] # "false" => config.text["METRICS_TOKEN"] # None
             /\ ResolveCorsOrigin(config) # "any"

(* What the status line says and what is built, both from the environment. *)
(* Traces and logs: the line names them if and only if they leave.         *)
(* Metrics: the line follows the flag of the export alone, and the export  *)
(* also needs metrics to be measured; so the two disagree in exactly one   *)
(* case, the flags METRICS_ENABLED=false and OTEL_METRICS_EXPORT_ENABLED=  *)
(* true (telemetry-status.ts against startTracing, buildMetricsAdapter and *)
(* PinoLoggerAdapter).                                                     *)
TelemetryAsTold ==
    LET told == TelemetryStatusLine(config, tracer # "off")
        exported == env.flag["OTEL_METRICS_EXPORT_ENABLED"] = "true"
        measured == env.flag["METRICS_ENABLED"] # "false"
    IN stage \in {"starting", "up"} =>
        /\ "traces" \in told <=> env.text["OTEL_EXPORTER_OTLP_ENDPOINT"] # None
        /\ "logs" \in told <=> "pino-loki" \in LogTargets(config)
        /\ "metrics" \in told <=> exported
        /\ meter # "off" <=> exported /\ measured
        /\ ("metrics" \in told <=> meter # "off") <=> ~(exported /\ ~measured)

(* A process that has begun to close ends, whatever else happens to it:    *)
(* more signals, more failures, a backend that is gone.  So does every     *)
(* process that is sent SIGTERM, except one that starts with tracing and   *)
(* has not installed the hooks of Nest: there the listener of the trace    *)
(* SDK takes the signal and nothing stops (startTracing, configureApp,     *)
(* handleFatalError).                                                      *)
StopsWhenTold ==
    \/ \E c \in Closers : closing[c] # "idle"
    \/ signals > 0 /\ tracer = "off"
    ~> exit # "running"

=============================================================================
