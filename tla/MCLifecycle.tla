------------------------------ MODULE MCLifecycle ------------------------------
(* TLC instances of Lifecycle.                                               *)
EXTENDS Lifecycle, TLC

CONSTANTS r1, r2

Unset ==
    [flag   |-> [n \in Flags |-> None],
     number |-> [n \in Numbers |-> None],
     choice |-> [n \in Choices |-> None],
     text   |-> [n \in Texts |-> IF n \in Required THEN "url" ELSE None],
     list   |-> [n \in Lists |-> None]]

\* The keys of a rotation, with the empty entry a trailing comma leaves.
Rotation == <<16, 32, 0>>
Local == [Unset EXCEPT !.flag["API_AUTH_ENABLED"] = "false", !.flag["LOG_PRETTY"] = "true"]
Keyed == [Unset EXCEPT !.list["API_KEYS"] = Rotation, !.text["LOKI_URL"] = "url"]
Traced == [Local EXCEPT !.text["OTEL_EXPORTER_OTLP_ENDPOINT"] = "url"]
Exporting == [Traced EXCEPT !.flag["OTEL_METRICS_EXPORT_ENABLED"] = "true"]
Production ==
    [Keyed EXCEPT !.choice["NODE_ENV"] = "production", !.text["METRICS_TOKEN"] = "text",
                  !.list["CORS_ORIGINS"] = <<0>>]
Unmeasured == [Exporting EXCEPT !.flag["METRICS_ENABLED"] = "false"]

Accepted == {Local, Keyed, Traced, Exporting, Production, Unmeasured}
Rejected ==
    {Unset,
     [Keyed EXCEPT !.list["API_KEYS"] = <<32, 15>>],
     [Keyed EXCEPT !.list["API_KEYS"] = <<0>>],
     [Keyed EXCEPT !.flag["API_AUTH_ENABLED"] = "no"],
     [Production EXCEPT !.text["METRICS_TOKEN"] = None],
     [Local EXCEPT !.flag["OTEL_METRICS_EXPORT_ENABLED"] = "true"],
     [Local EXCEPT !.text["ELASTICSEARCH_USERNAME"] = "text"],
     [Local EXCEPT !.text["LOKI_USERNAME"] = "text", !.text["LOKI_PASSWORD"] = "text"],
     [Keyed EXCEPT !.text["LOKI_PASSWORD"] = "text"],
     [Local EXCEPT !.text["REDIS_URL"] = None],
     [Local EXCEPT !.text["ELASTICSEARCH_API_KEY"] = ""],
     [Local EXCEPT !.number["SEARCH_DEFAULT_PAGE_SIZE"] = 101],
     [Local EXCEPT !.number["PORT"] = 0],
     [Local EXCEPT !.number["OTEL_TRACES_SAMPLER_RATIO"] = 101],
     [Local EXCEPT !.choice["LOG_LEVEL"] = "verbose"]}
AllEnvironments == Accepted \cup Rejected

=============================================================================
