---------------------------- MODULE LifecycleProofs ----------------------------
(***************************************************************************)
(* How a process ends, proved for every environment, every number of       *)
(* requests and of signals: nobody is cut off, nothing measured is left    *)
(* unsent, and the exit code tells why.  What has to be carried along is   *)
(* how far each closer is and what that says of the server, the clients    *)
(* and the metrics.                                                        *)
(***************************************************************************)
EXTENDS Lifecycle, TLAPS

Providers == {"off", "running", "flushing", "shut", "lost"}
States ==
    /\ stage \in {"loading", "creating", "starting", "up", "failed"}
    /\ server \in {"down", "accepting", "closed", "reopened"}
    /\ server = "accepting" => stage = "up"
    /\ clients \in {"open", "closing", "closed"}
    /\ request \in [Requests -> {"new", "accepted", "querying", "done"}]
    /\ listeners \subseteq {"tracing", "nest"}
    /\ net \in {"off", "armed", "handling"}
    /\ closing \in [Closers -> Phases]
    /\ tracer \in Providers /\ meter \in Providers
    /\ spans \subseteq Requests /\ samples \subseteq Requests
    /\ signals \in Nat /\ fault \in BOOLEAN
    /\ exit \in {"running", "failed", "terminated"}

Early == stage \in {"loading", "creating"}
Closing(c, phases) == closing[c] \in phases

\* Before bootstrap() has installed the hooks and the net, nothing can be closed.
StartInv ==
    /\ Early => /\ net = "off" /\ server = "down" /\ clients = "open" /\ meter = "off"
                /\ "nest" \notin listeners
                /\ \A c \in Closers : closing[c] = "idle"
                /\ exit = "running" => ~fault
    /\ ~Early => net # "off" /\ (exit = "running" => "nest" \in listeners)

\* A closer has its reason.
ReasonInv ==
    /\ closing["signal"] # "idle" => signals > 0 /\ "tracing" \notin listeners
    /\ closing["fatal"] # "idle" => net = "handling"
    /\ net = "handling" => fault \/ tracer = "lost"

\* The server: it drains after it was closed, and a closer is past the drain when nobody
\* is left.
ServerInv ==
    /\ server = "down" => \A r \in Requests : request[r] = "new"
    /\ server \in {"closed", "reopened"} =>
          \E c \in Closers : ~Closing(c, {"idle", "destroy", "dispose"})
    /\ \A c \in Closers : Closing(c, {"drain", "hooks", "flush", "ended"}) =>
          server \in {"closed", "reopened"}
    /\ \A c \in Closers : Orderly /\ Closing(c, {"hooks", "flush", "ended"}) => Drained

ClientsInv == clients = "closed" => \E c \in Closers : ~Closing(c, {"idle", "destroy"})

\* The metrics: whoever is past their hook has flushed them, or waits for who does.
MeterInv ==
    /\ meter = "off" => samples = {}
    /\ \A c \in Closers : closing[c] = "flush" => meter = "flushing"
    /\ \A c, d \in Closers : closing[c] = "flush" /\ closing[d] = "flush" => c = d
    /\ meter = "flushing" => \E c \in Closers : closing[c] = "flush"
    /\ meter \in {"shut", "lost"} => \E c \in Closers : closing[c] = "ended"
    /\ meter = "running" => \A c \in Closers : ~Closing(c, {"flush", "ended"})
    /\ Orderly /\ meter = "shut" => samples = {}

Properties == NobodyCutOff /\ SamplesReachBackend /\ ExitTellsWhy
Inv == States /\ StartInv /\ ReasonInv /\ ServerInv /\ ClientsInv /\ MeterInv /\ Properties

LEMMA InitInv == Init => Inv
<1>. SUFFICES ASSUME Init PROVE Inv
  OBVIOUS
<1>. USE DEF Init
<1>1. States
  BY DEF States, Closers, Phases, Providers
<1>2. StartInv /\ ReasonInv
  BY DEF StartInv, ReasonInv, Early, Closers
<1>3. ServerInv /\ ClientsInv /\ MeterInv
  BY DEF ServerInv, ClientsInv, MeterInv, Closing
<1>4. Properties
  BY DEF Properties, NobodyCutOff, SamplesReachBackend, ExitTellsWhy
<1>. QED
  BY <1>1, <1>2, <1>3, <1>4 DEF Inv

LEMMA OnFatalCases ==
  ASSUME net \in {"off", "armed", "handling"}, OnFatal
  PROVE  \/ net = "off" /\ exit' = "failed" /\ UNCHANGED <<net, closing, clients>>
         \/ /\ net = "armed" /\ net' = "handling" /\ UNCHANGED exit
            /\ closing' = [closing EXCEPT !["fatal"] = "destroy"]
            /\ clients' = IF clients = "open" THEN "closing" ELSE clients
         \/ net = "handling" /\ UNCHANGED <<exit, net, closing, clients>>
BY DEF OnFatal, Begin

(* A failure nobody caught, wherever it comes from.                        *)
LEMMA FatalInv ==
  ASSUME Inv, exit = "running", OnFatal,
         UNCHANGED <<server, request, listeners, meter, samples, signals>>,
         stage' = stage \/ (stage = "starting" /\ stage' = "failed"),
         tracer' \in Providers, spans' \subseteq Requests, fault' \in BOOLEAN,
         fault' \/ tracer' = "lost"
  PROVE  Inv'
<1>. USE DEF Inv, Properties, States, StartInv, ReasonInv, ServerInv, ClientsInv, MeterInv,
         NobodyCutOff, SamplesReachBackend, ExitTellsWhy,
         Early, Closing, Closers, Phases, Providers, Orderly, Drained, InFlight
<1>1. CASE net = "off" /\ exit' = "failed" /\ UNCHANGED <<net, closing, clients>>
  BY <1>1
<1>2. CASE /\ net = "armed" /\ net' = "handling" /\ UNCHANGED exit
           /\ closing' = [closing EXCEPT !["fatal"] = "destroy"]
           /\ clients' = IF clients = "open" THEN "closing" ELSE clients
  <2>1. closing["fatal"] = "idle" /\ closing'["fatal"] = "destroy"
        /\ closing'["signal"] = closing["signal"]
    BY <1>2
  <2>2. closing' \in [Closers -> Phases] /\ clients' \in {"open", "closing", "closed"}
    BY <1>2
  <2>3. Orderly' => Orderly
    BY <2>1
  <2>. HIDE <1>2
  <2>4. net' = "handling" /\ net # "off" /\ exit' = exit /\ (clients' = "closed" => clients = "closed")
    BY <1>2
  <2>. QED
    BY <2>1, <2>2, <2>3, <2>4
<1>3. CASE net = "handling" /\ UNCHANGED <<exit, net, closing, clients>>
  BY <1>3
<1>. QED
  BY <1>1, <1>2, <1>3, OnFatalCases

(* What every step leaves true; each of the three properties says nothing  *)
(* before the end, and holds where a process ends.                         *)
LEMMA NextInv == Inv /\ [Next]_vars => Inv'
<1>. SUFFICES ASSUME Inv, [Next]_vars PROVE Inv'
  OBVIOUS
<1>. USE DEF Inv, Properties, States, StartInv, ReasonInv, ServerInv, ClientsInv, MeterInv,
         NobodyCutOff, SamplesReachBackend, ExitTellsWhy,
         Early, Closing, Closers, Phases, Providers, Orderly, Drained, InFlight,
         program, serving, handlers, telemetry, events
<1>1. ASSUME exit = "running", Sigterm PROVE Inv'
  BY <1>1 DEF Sigterm, Raise, Begin, AfterSignal
<1>2. ASSUME exit = "running", StrayFailure PROVE Inv'
  <2>. HIDE DEF Inv, Properties
  <2>. QED
    BY <1>2, FatalInv DEF StrayFailure, Inv
<1>3. ASSUME exit = "running", LoadConfig PROVE Inv'
  <2>1. \/ exit' = "failed" /\ UNCHANGED <<stage, tracer, listeners>>
        \/ /\ stage' = "creating" /\ UNCHANGED exit
           /\ \/ tracer' = "running" /\ listeners' = {"tracing"}
              \/ UNCHANGED <<tracer, listeners>>
    BY <1>3 DEF LoadConfig
  <2>2. stage = "loading"
        /\ UNCHANGED <<server, clients, request, net, closing, spans, meter, samples, signals, fault>>
    BY <1>3 DEF LoadConfig
  <2>3. exit = "running"
    BY <1>3
  <2>. QED
    BY <2>1, <2>2, <2>3
<1>4. ASSUME exit = "running", Bootstrap PROVE Inv'
  BY <1>4 DEF Bootstrap
<1>5. ASSUME exit = "running", Listen PROVE Inv'
  <2>1. CASE stage' = "up"
    <3>1. /\ stage = "starting" /\ server' = IF server = "down" THEN "accepting" ELSE "reopened"
          /\ UNCHANGED <<clients, net, closing, fault, exit>>
          /\ UNCHANGED <<request, listeners, tracer, spans, meter, samples, signals>>
      BY <1>5, <2>1 DEF Listen
    <3>2. exit = "running"
      BY <1>5
    <3>3. CASE server = "down" /\ server' = "accepting"
      <4>1. \A c \in Closers : ~Closing(c, {"drain", "hooks", "flush", "ended"})
        BY <3>3
      <4>2. Orderly' = Orderly
        BY <3>1, <3>3
      <4>. QED
        BY <2>1, <3>1, <3>2, <3>3, <4>1, <4>2
    <3>4. CASE server \in {"closed", "reopened"} /\ server' = "reopened"
      <4>1. ~Orderly'
        BY <3>4
      <4>2. meter' = meter /\ closing' = closing /\ samples' = samples /\ exit' = exit
        BY <3>1
      <4>3. ServerInv' /\ MeterInv'
        BY <3>1, <3>4, <4>1, <4>2
      <4>4. States' /\ StartInv' /\ ReasonInv' /\ ClientsInv'
        BY <2>1, <3>1, <3>2, <3>4
      <4>5. Properties'
        BY <3>2, <4>2
      <4>. HIDE DEF States, StartInv, ReasonInv, ClientsInv, ServerInv, MeterInv, Properties
      <4>. QED
        BY <4>3, <4>4, <4>5
    <3>5. server # "accepting"
      BY <3>1
    <3>. QED
      BY <3>1, <3>3, <3>4, <3>5
  <2>2. CASE stage' = "failed"
    <3>. HIDE DEF Inv, Properties
    <3>. QED
      BY <1>5, <2>2, FatalInv DEF Listen, Inv
  <2>. QED
    BY <1>5, <2>1, <2>2 DEF Listen
<1>6. ASSUME exit = "running", NEW r \in Requests, Accept(r) PROVE Inv'
  BY <1>6 DEF Accept
<1>7. ASSUME exit = "running", NEW r \in Requests, Query(r) PROVE Inv'
  BY <1>7 DEF Query
<1>8. ASSUME exit = "running", NEW r \in Requests, Finish(r) PROVE Inv'
  BY <1>8 DEF Finish
<1>9. ASSUME exit = "running", NEW c \in Closers, OnModuleDestroy(c) PROVE Inv'
  BY <1>9 DEF OnModuleDestroy, Move, After
<1>10. ASSUME exit = "running", NEW c \in Closers, CloseRejects(c) PROVE Inv'
  BY <1>10 DEF CloseRejects
<1>11. ASSUME exit = "running", NEW c \in Closers, Dispose(c) PROVE Inv'
  BY <1>11 DEF Dispose, Move
<1>12. ASSUME exit = "running", NEW c \in Closers, AwaitDrained(c) PROVE Inv'
  BY <1>12 DEF AwaitDrained, Move, After
<1>13. ASSUME exit = "running", NEW c \in Closers, OnApplicationShutdown(c) PROVE Inv'
  BY <1>13 DEF OnApplicationShutdown, Move, After
<1>14. ASSUME exit = "running", NEW c \in Closers, ShutdownMetrics(c) PROVE Inv'
  BY <1>14 DEF ShutdownMetrics, FlushSwallowed, Move, After
<1>15. ASSUME exit = "running", KillItself PROVE Inv'
  BY <1>15 DEF KillItself, Raise, Begin, AfterSignal
<1>16. ASSUME exit = "running", HandleFatalErrorEnds PROVE Inv'
  BY <1>16 DEF HandleFatalErrorEnds, ExitCode
<1>17. ASSUME exit = "running", ExportSamples PROVE Inv'
  BY <1>17 DEF ExportSamples
<1>18. ASSUME exit = "running", ExportSpans PROVE Inv'
  BY <1>18 DEF ExportSpans
<1>19. ASSUME exit = "running", StopTracing PROVE Inv'
  <2>1. CASE tracer' = "shut"
    BY <1>19, <2>1 DEF StopTracing
  <2>2. CASE tracer' = "lost"
    <3>1. OnFatal /\ UNCHANGED <<stage, server, request, listeners, meter, samples, signals, fault>>
      BY <1>19, <2>2 DEF StopTracing
    <3>2. tracer' \in Providers /\ spans' \subseteq Requests /\ fault' \in BOOLEAN
      BY <1>19, <2>2 DEF StopTracing
    <3>. HIDE DEF Inv, Properties
    <3>. QED
      BY <1>19, <2>2, <3>1, <3>2, FatalInv
  <2>. QED
    BY <1>19, <2>1, <2>2 DEF StopTracing
<1>20. ASSUME exit = "running", BackendFlips PROVE Inv'
  BY <1>20 DEF BackendFlips
<1>21. CASE UNCHANGED vars
  BY <1>21 DEF vars
<1>. HIDE DEF Inv, Closers, program, serving, handlers, telemetry, events
<1>. QED
  BY <1>1, <1>2, <1>3, <1>4, <1>5, <1>6, <1>7, <1>8, <1>9, <1>10, <1>11,
     <1>12, <1>13, <1>14, <1>15, <1>16, <1>17, <1>18, <1>19, <1>20, <1>21 DEF Next, Close

LEMMA Lives == Spec => []Inv
BY InitInv, NextInv, PTL DEF Spec

(* Every request that was accepted is answered before the process ends,    *)
(* whether by a signal or by a fatal error at whatever moment, while the   *)
(* closers do not overlap.                                                 *)
THEOREM DrainsBeforeExit == Spec => []NobodyCutOff
<1>1. Inv => NobodyCutOff
  BY DEF Inv, Properties
<1>. QED
  BY <1>1, Lives, PTL

(* A process ends with nothing measured unsent, unless the last flush      *)
(* failed.                                                                 *)
THEOREM FlushesBeforeExit == Spec => []SamplesReachBackend
<1>1. Inv => SamplesReachBackend
  BY DEF Inv, Properties
<1>. QED
  BY <1>1, Lives, PTL

(* The exit code tells why a process ended, closers that overlap included. *)
THEOREM ExitHasItsReason == Spec => []ExitTellsWhy
<1>1. Inv => ExitTellsWhy
  BY DEF Inv, Properties
<1>. QED
  BY <1>1, Lives, PTL

-----------------------------------------------------------------------------
(* What a process is configured to be.                                     *)

Built == BuildConfig(Parsed(env))

ConfigInv ==
    /\ ~Early => stage # "loading"
    /\ stage = "loading" => tracer = "off"
    /\ stage # "loading" => /\ ValidateEnv(env) /\ config = Built
                            /\ tracer # "off" <=> TracingConfigured(config)
    /\ ~Early => (meter # "off" <=> BuildMetricsAdapter(config) = "composite")

LEMMA ConfigInit == Init => ConfigInv
BY DEF Init, ConfigInv, Early

\* After the start nothing turns a provider on or off: it can only be shut down.
LEMMA ProvidersStay ==
  ASSUME Inv, Next, ~LoadConfig, ~Bootstrap
  PROVE  /\ UNCHANGED <<env, config>>
         /\ tracer = "off" <=> tracer' = "off"
         /\ meter = "off" <=> meter' = "off"
         /\ stage' = stage \/ (stage = "starting" /\ stage' \in {"up", "failed"})
<1>. DEFINE Goal == /\ UNCHANGED <<env, config>>
                    /\ tracer = "off" <=> tracer' = "off"
                    /\ meter = "off" <=> meter' = "off"
                    /\ stage' = stage \/ (stage = "starting" /\ stage' \in {"up", "failed"})
<1>. USE DEF program, serving, handlers, telemetry, events
<1>1. ASSUME NEW c \in Closers, Close(c) PROVE Goal
  <2>1. closing[c] = "flush" => meter = "flushing"
    BY DEF Inv, MeterInv
  <2>. QED
    BY <1>1, <2>1 DEF Close, OnModuleDestroy, CloseRejects, Dispose, AwaitDrained,
       OnApplicationShutdown, ShutdownMetrics
<1>2. ASSUME NEW r \in Requests, Accept(r) \/ Query(r) \/ Finish(r) PROVE Goal
  BY <1>2 DEF Accept, Query, Finish
<1>3. CASE Sigterm \/ KillItself
  BY <1>3 DEF Sigterm, KillItself, Raise
<1>4. CASE StrayFailure \/ Listen
  BY <1>4 DEF StrayFailure, Listen
<1>5. CASE StopTracing
  BY <1>5 DEF StopTracing
<1>6. CASE HandleFatalErrorEnds \/ ExportSamples \/ ExportSpans \/ BackendFlips
  BY <1>6 DEF HandleFatalErrorEnds, ExportSamples, ExportSpans, BackendFlips
<1>. QED
  BY <1>1, <1>2, <1>3, <1>4, <1>5, <1>6 DEF Next

LEMMA ConfigNext == Inv /\ ConfigInv /\ [Next]_vars => ConfigInv'
<1>. SUFFICES ASSUME Inv, ConfigInv, [Next]_vars PROVE ConfigInv'
  OBVIOUS
<1>1. CASE LoadConfig
  <2>1. env' = env /\ stage = "loading" /\ meter' = meter /\ tracer = "off"
    BY <1>1 DEF LoadConfig, ConfigInv
  <2>. QED
    BY <1>1, <2>1 DEF LoadConfig, ConfigInv, Early, Built
<1>2. CASE Bootstrap
  BY <1>2 DEF Bootstrap, ConfigInv, Early, Built
<1>3. CASE Next /\ ~LoadConfig /\ ~Bootstrap
  BY <1>3, ProvidersStay DEF ConfigInv, Early, Built
<1>4. CASE UNCHANGED vars
  BY <1>4 DEF vars, program, telemetry, ConfigInv, Early, Built
<1>. QED
  BY <1>1, <1>2, <1>3, <1>4

LEMMA ConfigLives == Spec => []ConfigInv
BY ConfigInit, ConfigNext, Lives, PTL DEF Spec

(* A process that serves is as closed as its environment says.             *)
THEOREM DoorsAreClosed == Spec => []DoorsAsConfigured
<1>1. Inv /\ ConfigInv => DoorsAsConfigured
  <2>. SUFFICES ASSUME Inv, ConfigInv, server # "down" PROVE DoorsAsConfigured
    BY DEF DoorsAsConfigured
  <2>1. ValidateEnv(env) /\ config = Built
    BY DEF Inv, StartInv, Early, ConfigInv
  <2>. DEFINE e == Parsed(env)
  <2>2. Refined(e) /\ FieldsValid(env)
    BY <2>1 DEF ValidateEnv
  <2>3. config.list["API_KEYS"] = ParseKeys(e.list["API_KEYS"])
    BY <2>1 DEF Built, BuildConfig, Lists, ParseList, ParseKeys
  <2>4. /\ e.flag["API_AUTH_ENABLED"] \/ env.flag["API_AUTH_ENABLED"] = "false"
        /\ e.flag["METRICS_ENABLED"] \/ env.flag["METRICS_ENABLED"] = "false"
    BY <2>2 DEF FieldsValid, Parsed, Flags, FlagDefaults, Or
  <2>5. e.flag["API_AUTH_ENABLED"] =>
          /\ config.list["API_KEYS"] # <<>>
          /\ \A i \in DOMAIN config.list["API_KEYS"] :
                 config.list["API_KEYS"][i] >= MinApiKeyLength
    BY <2>2, <2>3 DEF Refined, KeysStrong
  <2>6. ASSUME env.choice["NODE_ENV"] = "production"
        PROVE  /\ env.flag["METRICS_ENABLED"] # "false" => config.text["METRICS_TOKEN"] # None
               /\ ResolveCorsOrigin(config) # "any"
    <3>1. config.choice = e.choice /\ config.text = e.text
      BY <2>1 DEF Built, BuildConfig, Parsed
    <3>2. e.choice["NODE_ENV"] = "production"
      BY <2>6, NoneIsNoValue DEF Parsed, Choices, ChoiceSchema, Or
    <3>3. e.flag["METRICS_ENABLED"] => e.text["METRICS_TOKEN"] # None
      BY <2>2, <3>2 DEF Refined
    <3>. HIDE DEF e
    <3>. QED
      BY <2>4, <3>1, <3>2, <3>3 DEF ResolveCorsOrigin
  <2>. QED
    BY <2>4, <2>5, <2>6 DEF DoorsAsConfigured
<1>. QED
  BY <1>1, Lives, ConfigLives, PTL

(* The status line and the pipelines agree, but in the one case of metrics *)
(* that are to be exported and not measured.                               *)
THEOREM ToldAsIs == Spec => []TelemetryAsTold
<1>1. Inv /\ ConfigInv => TelemetryAsTold
  <2>. SUFFICES ASSUME Inv, ConfigInv, stage \in {"starting", "up"} PROVE TelemetryAsTold
    BY DEF TelemetryAsTold
  <2>. DEFINE e == Parsed(env)
  <2>1. /\ ValidateEnv(env) /\ config = Built
        /\ tracer # "off" <=> TracingConfigured(config)
        /\ meter # "off" <=> BuildMetricsAdapter(config) = "composite"
    BY DEF ConfigInv, Early
  <2>2. config.flag = e.flag /\ config.text = e.text
    BY <2>1 DEF Built, BuildConfig, Parsed
  <2>3. e.text["OTEL_EXPORTER_OTLP_ENDPOINT"] = env.text["OTEL_EXPORTER_OTLP_ENDPOINT"]
    BY DEF Parsed, Texts, Urls, NonEmptyWithDefault
  <2>4. /\ e.flag["OTEL_METRICS_EXPORT_ENABLED"]
             <=> env.flag["OTEL_METRICS_EXPORT_ENABLED"] = "true"
        /\ e.flag["METRICS_ENABLED"] <=> env.flag["METRICS_ENABLED"] # "false"
    <3>1. FieldsValid(env)
      BY <2>1 DEF ValidateEnv
    <3>2. "OTEL_METRICS_EXPORT_ENABLED" \in Flags /\ "METRICS_ENABLED" \in Flags
      BY DEF Flags, FlagDefaults
    <3>3. /\ FlagDefaults["OTEL_METRICS_EXPORT_ENABLED"] = "false"
          /\ FlagDefaults["METRICS_ENABLED"] = "true"
      BY DEF FlagDefaults
    <3>4. env.flag["METRICS_ENABLED"] \in {None, "true", "false"}
      BY <3>1, <3>2 DEF FieldsValid
    <3>5. \A n \in Flags : e.flag[n] = (Or(env.flag[n], FlagDefaults[n]) = "true")
      BY DEF Parsed
    <3>. QED
      BY <3>2, <3>3, <3>4, <3>5, NoneIsNoValue DEF Or
  <2>5. e.flag["OTEL_METRICS_EXPORT_ENABLED"] => e.text["OTEL_EXPORTER_OTLP_ENDPOINT"] # None
    BY <2>1 DEF ValidateEnv, Refined
  <2>. HIDE DEF e
  <2>. QED
    BY <2>1, <2>2, <2>3, <2>4, <2>5 DEF TelemetryAsTold, TelemetryStatusLine, LogTargets,
       TracingConfigured, BuildMetricsAdapter
<1>. QED
  BY <1>1, Lives, ConfigLives, PTL

-----------------------------------------------------------------------------
(* The type invariant: what Inv leaves out of it.                          *)

TypeInv ==
    /\ env \in Environments /\ (stage = "loading" => config = None)
    /\ backendUp \in BOOLEAN /\ signals \in 0 .. MaxSignals
    /\ net = "handling" => closing["fatal"] # "idle"

LEMMA TypeInit == Init => TypeInv
BY LifecycleAssumption DEF Init, TypeInv

\* The net and the closer of a fatal error start together.
LEMMA FatalStarts ==
  ASSUME Inv, TypeInv, OnFatal
  PROVE  net' = "handling" => closing'["fatal"] # "idle"
BY OnFatalCases DEF Inv, States, TypeInv, Closers

LEMMA SignalKeepsFatal ==
  ASSUME Inv, NEW ls, Raise(ls)
  PROVE  closing'["fatal"] = closing["fatal"]
BY DEF Inv, States, Raise, Begin, Closers

LEMMA TypeNext == Inv /\ TypeInv /\ [Next]_vars => TypeInv'
<1>. SUFFICES ASSUME Inv, TypeInv, [Next]_vars PROVE TypeInv'
  OBVIOUS
<1>. USE DEF TypeInv, program, serving, handlers, telemetry, events
<1>1. ASSUME NEW c \in Closers, Close(c) PROVE TypeInv'
  <2>1. closing \in [Closers -> Phases] /\ closing["fatal"] \in Phases /\ "fatal" \in Closers
    BY DEF Inv, States, Closers
  <2>2. /\ UNCHANGED <<env, config, stage, backendUp, signals, net>>
        /\ closing' = closing \/ \E p \in Phases \ {"idle"} : closing' = [closing EXCEPT ![c] = p]
    BY <1>1 DEF Close, OnModuleDestroy, CloseRejects, Dispose, AwaitDrained, Phases,
       OnApplicationShutdown, ShutdownMetrics, FlushSwallowed, Move, After
  <2>. QED
    BY <2>1, <2>2
<1>2. ASSUME NEW r \in Requests, Accept(r) \/ Query(r) \/ Finish(r) PROVE TypeInv'
  BY <1>2 DEF Accept, Query, Finish
<1>3. CASE Sigterm
  BY <1>3, LifecycleAssumption, SignalKeepsFatal DEF Sigterm
<1>4. CASE KillItself
  BY <1>4, SignalKeepsFatal DEF KillItself
<1>5. CASE StrayFailure
  BY <1>5, FatalStarts DEF StrayFailure
<1>6. CASE LoadConfig \/ Bootstrap
  BY <1>6 DEF LoadConfig, Bootstrap, Inv, StartInv, Early
<1>7. CASE Listen
  BY <1>7, FatalStarts DEF Listen
<1>8. CASE StopTracing
  BY <1>8, FatalStarts DEF StopTracing
<1>9. CASE HandleFatalErrorEnds \/ ExportSamples \/ ExportSpans \/ BackendFlips
  BY <1>9 DEF HandleFatalErrorEnds, ExportSamples, ExportSpans, BackendFlips
<1>10. CASE UNCHANGED vars
  BY <1>10 DEF vars
<1>. QED
  BY <1>1, <1>2, <1>3, <1>4, <1>5, <1>6, <1>7, <1>8, <1>9, <1>10 DEF Next

(* Every variable keeps its type, and the states of the parts that have to *)
(* agree do.                                                               *)
THEOREM TypeCorrect == Spec => []TypeOK
<1>1. Inv /\ TypeInv => TypeOK
  BY DEF Inv, States, ReasonInv, MeterInv, TypeInv, TypeOK, Providers
<1>. QED
  BY <1>1, TypeInit, TypeNext, Lives, PTL DEF Spec

-----------------------------------------------------------------------------
(* What a shutdown has reached it does not lose.                           *)

Place ==
    [phase \in Phases |->
       CASE phase = "idle" -> 0 [] phase = "destroy" -> 1 [] phase = "dispose" -> 2
         [] phase = "drain" -> 3 [] phase = "hooks" -> 4 [] phase = "flush" -> 5
         [] phase = "ended" -> 6]

\* A closer goes from phase to phase and never back, whatever signals and failures arrive
\* meanwhile; and the step that follows the last phase ends the process: when the hooks of
\* Nest raise the signal again, nobody is left who listens for it.
ShutdownAdvances ==
    [][/\ \A c \in Closers : Place[closing[c]] <= Place[closing'[c]]
       /\ KillItself \/ HandleFatalErrorEnds => exit' # "running"]_vars

LEMMA PlaceNat == \A phase \in Phases : Place[phase] \in 0 .. 6
BY DEF Place, Phases

LEMMA BeginAdvances ==
  ASSUME Inv, NEW c \in Closers, NEW d \in Closers, closing[d] = "idle", Begin(d)
  PROVE  Place[closing[c]] <= Place[closing'[c]]
<1>1. closing' = [closing EXCEPT ![d] = "destroy"] /\ closing \in [Closers -> Phases]
  BY DEF Begin, Inv, States
<1>2. Place["idle"] = 0 /\ Place["destroy"] = 1
  BY DEF Place, Phases
<1>3. closing[c] \in Phases
  BY <1>1
<1>4. CASE c = d
  BY <1>1, <1>2, <1>4
<1>5. CASE c # d
  <2>1. closing'[c] = closing[c]
    BY <1>1, <1>5
  <2>. QED
    BY <1>3, <2>1, PlaceNat
<1>. QED
  BY <1>4, <1>5

LEMMA FatalAdvances ==
  ASSUME Inv, TypeInv, OnFatal, NEW c \in Closers
  PROVE  Place[closing[c]] <= Place[closing'[c]]
<1>1. CASE net = "armed" /\ Begin("fatal")
  <2>1. closing["fatal"] = "idle" /\ "fatal" \in Closers
    BY <1>1 DEF Inv, ReasonInv, Closers
  <2>. QED
    BY <1>1, <2>1, BeginAdvances
<1>2. CASE closing' = closing
  <2>1. closing[c] \in Phases
    BY DEF Inv, States
  <2>. QED
    BY <1>2, <2>1, PlaceNat
<1>. QED
  BY <1>1, <1>2 DEF OnFatal, Inv, States

LEMMA RaiseAdvances ==
  ASSUME Inv, NEW ls, Raise(ls), NEW c \in Closers
  PROVE  Place[closing[c]] <= Place[closing'[c]]
<1>1. CASE closing["signal"] = "idle" /\ Begin("signal")
  BY <1>1, BeginAdvances DEF Closers
<1>2. CASE closing' = closing
  <2>1. closing[c] \in Phases
    BY DEF Inv, States
  <2>. QED
    BY <1>2, <2>1, PlaceNat
<1>. QED
  BY <1>1, <1>2 DEF Raise

LEMMA CloseAdvances ==
  ASSUME Inv, NEW d \in Closers, Close(d), NEW c \in Closers
  PROVE  Place[closing[c]] <= Place[closing'[c]]
<1>1. closing \in [Closers -> Phases] /\ closing[c] \in Phases
  BY DEF Inv, States
<1>2. CASE closing' = closing
  BY <1>1, <1>2, PlaceNat
<1>3. ASSUME NEW from \in Phases, NEW to \in Phases, Place[from] <= Place[to],
             closing[d] = from, closing' = [closing EXCEPT ![d] = to]
      PROVE  Place[closing[c]] <= Place[closing'[c]]
  BY <1>1, <1>3, PlaceNat
<1>4. /\ Place["destroy"] <= Place["dispose"] /\ Place["dispose"] <= Place["drain"]
      /\ Place["drain"] <= Place["hooks"] /\ Place["hooks"] <= Place["flush"]
      /\ Place["hooks"] <= Place["ended"] /\ Place["flush"] <= Place["ended"]
      /\ {"destroy", "dispose", "drain", "hooks", "flush", "ended"} \subseteq Phases
  BY DEF Place, Phases
<1>5. CASE OnModuleDestroy(d) \/ CloseRejects(d)
  BY <1>2, <1>3, <1>4, <1>5 DEF OnModuleDestroy, CloseRejects, Move, After, handlers
<1>6. CASE Dispose(d) \/ AwaitDrained(d)
  BY <1>3, <1>4, <1>6 DEF Dispose, AwaitDrained, Move, After
<1>7. CASE OnApplicationShutdown(d)
  BY <1>3, <1>4, <1>7 DEF OnApplicationShutdown, Move, After
<1>8. CASE ShutdownMetrics(d)
  BY <1>3, <1>4, <1>8 DEF ShutdownMetrics, FlushSwallowed, Move, After
<1>. QED
  BY <1>5, <1>6, <1>7, <1>8 DEF Close

\* The hooks of Nest have been told of the signal when they raise it again, and so has the
\* trace SDK, whose listener goes the first time.
LEMMA KillEnds ==
  ASSUME Inv, exit = "running", KillItself
  PROVE  exit' = "terminated"
<1>1. listeners \ {"nest"} = {}
  BY DEF KillItself, Inv, States, ReasonInv
<1>. QED
  BY <1>1 DEF KillItself, Raise

\* Nothing turns a shutdown back, and its last step ends the process: what StopsWhenTold
\* needs besides fairness.
THEOREM ShutdownNeverTurnsBack == Spec => ShutdownAdvances
<1>1. ASSUME Inv, TypeInv, [Next]_vars, NEW c \in Closers
      PROVE  Place[closing[c]] <= Place[closing'[c]]
  <2>1. closing[c] \in Phases
    BY <1>1 DEF Inv, States
  <2>2. CASE closing' = closing
    BY <2>1, <2>2, PlaceNat
  <2>3. ASSUME NEW d \in Closers, Close(d) PROVE Place[closing[c]] <= Place[closing'[c]]
    BY <1>1, <2>3, CloseAdvances
  <2>4. CASE Sigterm \/ KillItself
    BY <1>1, <2>4, RaiseAdvances DEF Sigterm, KillItself
  <2>5. CASE StrayFailure \/ Listen \/ StopTracing
    BY <1>1, <2>2, <2>5, FatalAdvances DEF StrayFailure, Listen, StopTracing
  <2>6. CASE LoadConfig \/ Bootstrap \/ HandleFatalErrorEnds \/ ExportSamples \/ ExportSpans
             \/ BackendFlips \/ (\E r \in Requests : Accept(r) \/ Query(r) \/ Finish(r))
             \/ UNCHANGED vars
    BY <2>2, <2>6 DEF LoadConfig, Bootstrap, HandleFatalErrorEnds, ExportSamples, ExportSpans,
       BackendFlips, Accept, Query, Finish, vars, handlers
  <2>. QED
    BY <1>1, <2>3, <2>4, <2>5, <2>6 DEF Next
<1>2. Inv /\ TypeInv /\ [Next]_vars =>
        [/\ \A c \in Closers : Place[closing[c]] <= Place[closing'[c]]
         /\ KillItself \/ HandleFatalErrorEnds => exit' # "running"]_vars
  BY <1>1, KillEnds DEF Next, HandleFatalErrorEnds, ExitCode
<1>. QED
  BY <1>2, TypeInit, TypeNext, Lives, PTL DEF Spec, ShutdownAdvances

=============================================================================
