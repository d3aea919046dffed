----------------------------- MODULE Configuration -----------------------------
(***************************************************************************)
(* From the environment to the configuration of a process: the schema and  *)
(* the refinements of env.schema.ts, the mapping of app-config.ts, and the *)
(* decisions about telemetry taken from the result.                        *)
(*                                                                         *)
(* An environment is grouped by the type of its variables.  A variable     *)
(* that is not set is None.  Of a text only what validation asks is kept:  *)
(* "" is empty, "url" parses as a URL, "text" is any other.  A list is the *)
(* sequence of the lengths of its entries, trimmed; a number that does not *)
(* parse is -1.  Ratios are in hundredths.  The configuration keeps the    *)
(* names of the variables; app-config.ts only regroups them.               *)
(***************************************************************************)
EXTENDS Integers, Sequences

CONSTANT None

ASSUME NoneIsNoValue == None \notin {"true", "false", "production", "url", "text"}

MinApiKeyLength == 16
Unbounded == 1000000

FlagDefaults ==
    [ELASTICSEARCH_TLS_REJECT_UNAUTHORIZED |-> "true", RATE_LIMIT_ENABLED |-> "true",
     API_AUTH_ENABLED |-> "true", LOG_PRETTY |-> "false", METRICS_ENABLED |-> "true",
     OTEL_METRICS_EXPORT_ENABLED |-> "false"]

NumberSchema ==
    LET Positive(default) == [default |-> default, least |-> 1, most |-> Unbounded]
        Natural(default)  == [default |-> default, least |-> 0, most |-> Unbounded]
    IN [PORT |-> Positive(3000),
        ELASTICSEARCH_REQUEST_TIMEOUT_MS |-> Positive(4000),
        ELASTICSEARCH_MAX_RETRIES |-> Natural(2),
        CACHE_TTL_SEARCH |-> Natural(300), CACHE_TTL_AUTOCOMPLETE |-> Natural(60),
        SEARCH_DEFAULT_PAGE_SIZE |-> Positive(20), SEARCH_MAX_PAGE_SIZE |-> Positive(100),
        SEARCH_SUGGEST_MAX_HITS |-> Natural(5), SEARCH_MAX_RESULT_WINDOW |-> Positive(10000),
        RELEVANCE_POPULARITY_FACTOR |-> Natural(100),
        RELEVANCE_RECENCY_DECAY |-> [default |-> 50, least |-> 1, most |-> 99],
        RATE_LIMIT_WINDOW_SECONDS |-> Positive(60), RATE_LIMIT_SEARCH |-> Positive(60),
        RATE_LIMIT_AUTOCOMPLETE |-> Positive(300), RATE_LIMIT_SUGGEST |-> Positive(60),
        RATE_LIMIT_DEFAULT |-> Positive(120), TRUST_PROXY_HOPS |-> Natural(0),
        OTEL_TRACES_SAMPLER_RATIO |-> [default |-> 10, least |-> 0, most |-> 100],
        OTEL_METRIC_EXPORT_INTERVAL_MS |-> Positive(60000)]

ChoiceSchema ==
    [NODE_ENV  |-> [default |-> "development", among |-> {"development", "test", "production"}],
     LOG_LEVEL |-> [default |-> "info",
                    among |-> {"fatal", "error", "warn", "info", "debug", "trace"}]]

Urls == {"ELASTICSEARCH_NODE", "REDIS_URL", "OTEL_EXPORTER_OTLP_ENDPOINT", "LOKI_URL"}
Required == {"ELASTICSEARCH_NODE", "REDIS_URL"}
NonEmpty == {"ELASTICSEARCH_API_KEY", "ELASTICSEARCH_USERNAME", "ELASTICSEARCH_PASSWORD",
             "METRICS_TOKEN", "LOKI_USERNAME", "LOKI_PASSWORD"}
NonEmptyWithDefault == {"ELASTICSEARCH_INDEX", "RELEVANCE_RECENCY_SCALE", "OTEL_SERVICE_NAME"}
Texts == Urls \cup NonEmpty \cup NonEmptyWithDefault
Lists == {"CORS_ORIGINS", "API_KEYS"}

Flags == DOMAIN FlagDefaults
Numbers == DOMAIN NumberSchema
Choices == DOMAIN ChoiceSchema

-----------------------------------------------------------------------------
(* Validation.                                                             *)

FieldsValid(env) ==
    /\ \A n \in Flags : env.flag[n] \in {None, "true", "false"}
    /\ \A n \in Numbers : \/ env.number[n] = None
                          \/ env.number[n] \in NumberSchema[n].least .. NumberSchema[n].most
    /\ \A n \in Choices : env.choice[n] = None \/ env.choice[n] \in ChoiceSchema[n].among
    /\ \A n \in Required : env.text[n] = "url"
    /\ \A n \in Urls : env.text[n] \in {None, "url"}
    /\ \A n \in NonEmpty \cup NonEmptyWithDefault : env.text[n] # ""

Or(value, default) == IF value = None THEN default ELSE value

Parsed(env) ==
    [flag   |-> [n \in Flags |-> Or(env.flag[n], FlagDefaults[n]) = "true"],
     number |-> [n \in Numbers |-> Or(env.number[n], NumberSchema[n].default)],
     choice |-> [n \in Choices |-> Or(env.choice[n], ChoiceSchema[n].default)],
     text   |-> [n \in Texts |-> IF n \in NonEmptyWithDefault THEN Or(env.text[n], "text")
                                                              ELSE env.text[n]],
     list   |-> env.list]

Positive(n) == n > 0
ParseKeys(raw) == IF raw = None THEN <<>> ELSE SelectSeq(raw, Positive)

KeysStrong(keys) == \A i \in DOMAIN keys : keys[i] >= MinApiKeyLength

Refined(e) ==
    /\ e.text["ELASTICSEARCH_USERNAME"] # None => e.text["ELASTICSEARCH_PASSWORD"] # None
    /\ e.number["SEARCH_MAX_PAGE_SIZE"] >= e.number["SEARCH_DEFAULT_PAGE_SIZE"]
    /\ e.flag["API_AUTH_ENABLED"] => ParseKeys(e.list["API_KEYS"]) # <<>>
    /\ e.flag["API_AUTH_ENABLED"] => KeysStrong(ParseKeys(e.list["API_KEYS"]))
    /\ \/ e.choice["NODE_ENV"] # "production"
       \/ ~e.flag["METRICS_ENABLED"]
       \/ e.text["METRICS_TOKEN"] # None
    /\ e.flag["OTEL_METRICS_EXPORT_ENABLED"] => e.text["OTEL_EXPORTER_OTLP_ENDPOINT"] # None
    /\ e.text["LOKI_USERNAME"] = None <=> e.text["LOKI_PASSWORD"] = None
    /\ e.text["LOKI_URL"] = None => e.text["LOKI_USERNAME"] = None

ValidateEnv(env) == FieldsValid(env) /\ Refined(Parsed(env))

-----------------------------------------------------------------------------
(* The configuration, and what is built from it.                           *)

\* Variant: the entries are trimmed but the empty ones are kept.
ParseListKeepsEmpty(raw) == IF raw = None THEN <<>> ELSE raw
ParseList(raw) == IF raw = None THEN <<>> ELSE SelectSeq(raw, Positive)

BuildConfig(e) == [e EXCEPT !.list = [n \in Lists |-> ParseList(e.list[n])]]

\* An explicit list wins; else any origin in development, none in production.
ResolveCorsOrigin(config) ==
    IF config.list["CORS_ORIGINS"] # <<>> THEN "listed"
    ELSE IF config.choice["NODE_ENV"] # "production" THEN "any" ELSE "none"

TracingConfigured(config) == config.text["OTEL_EXPORTER_OTLP_ENDPOINT"] # None

BuildMetricsAdapter(config) ==
    IF ~config.flag["METRICS_ENABLED"] THEN "noop"
    ELSE IF \/ ~config.flag["OTEL_METRICS_EXPORT_ENABLED"]
            \/ config.text["OTEL_EXPORTER_OTLP_ENDPOINT"] = None
    THEN "local" ELSE "composite"

\* Where log lines go: pino-pretty is a development dependency.
LogTargets(config) ==
    {IF config.flag["LOG_PRETTY"] /\ config.choice["NODE_ENV"] # "production"
     THEN "pino-pretty" ELSE "stdout"}
    \cup (IF config.text["LOKI_URL"] # None THEN {"pino-loki"} ELSE {})

\* The pipelines the status line calls live.
TelemetryStatusLine(config, tracingStarted) ==
    {p \in {"traces", "metrics", "logs"} :
        \/ p = "traces" /\ tracingStarted
        \/ p = "metrics" /\ config.flag["OTEL_METRICS_EXPORT_ENABLED"]
        \/ p = "logs" /\ config.text["LOKI_URL"] # None}

=============================================================================
