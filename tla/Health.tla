-------------------------------- MODULE Health --------------------------------
(***************************************************************************)
(* Reports on the dependencies of one process (check-health.use-case.ts).  *)
(* A report pings its probes together and waits for the slowest; when all  *)
(* have settled it logs what changed since the last report that finished   *)
(* and gives its verdict.  Reports overlap and share the memory of what    *)
(* was logged.  The dependencies themselves are external.                  *)
(***************************************************************************)
EXTENDS Naturals, FiniteSets

CONSTANTS
    Dependencies,  \* what is probed
    Critical,      \* the probes that decide the verdict
    Reports        \* reports that may be in progress at once

ASSUME HealthAssumption == Critical \subseteq Dependencies

VARIABLES
    up,                \* the dependencies that answer as they should
    downDependencies,  \* the dependencies last logged as down
    witnessed          \* the states of each probed dependency since its ping

healthVars == <<up, downDependencies, witnessed>>

Statuses == {"up", "down"}
NoProbes == [d \in {} |-> {}]

(* A ping says up only for the expected answer: Elasticsearch has the      *)
(* configured index, Redis says PONG.  Any other answer and any error is   *)
(* down, and so is a probe that rejects.                                   *)
Ping(d) == IF d \in up THEN "up" ELSE "down"
ToDependencyHealth(settled) == IF settled = "up" THEN "up" ELSE "down"

FullReport == Dependencies
Readiness == Dependencies \cap Critical

\* Variant: every dependency decides.
VerdictOfAll(statuses) ==
    IF \A d \in DOMAIN statuses : statuses[d] = "up" THEN "ok" ELSE "error"

Verdict(statuses) ==
    IF \A d \in DOMAIN statuses : d \in Critical => statuses[d] = "up"
    THEN "ok" ELSE "error"

DownIn(statuses) == {d \in DOMAIN statuses : statuses[d] = "down"}
UpIn(statuses) == DOMAIN statuses \ DownIn(statuses)

(* reportTransitions: the lines it logs, and what it remembers.            *)
Transitions(statuses) ==
    [down |-> DownIn(statuses) \ downDependencies,
     recovered |-> UpIn(statuses) \cap downDependencies]
\* Variant: an outage is logged and not remembered.
RememberedRecoveries(statuses) == downDependencies \ UpIn(statuses)
Remembered(statuses) == (downDependencies \ UpIn(statuses)) \cup DownIn(statuses)

HealthInit ==
    /\ up = Dependencies
    /\ downDependencies = {}
    /\ witnessed = [r \in Reports |-> NoProbes]

(* Promise.allSettled over the pings of the given probes.                  *)
StartReport(r, probes) ==
    /\ witnessed' = [witnessed EXCEPT ![r] = [d \in probes |-> {Ping(d)}]]
    /\ UNCHANGED <<up, downDependencies>>

(* A ping tells of some moment since it was sent: a fast one of an early   *)
(* moment, although its report still waits for a slow one.                 *)
Settled(r) ==
    {statuses \in [DOMAIN witnessed[r] -> Statuses] :
       \A d \in DOMAIN witnessed[r] :
          \E state \in witnessed[r][d] : statuses[d] = ToDependencyHealth(state)}

FinishReport(r, statuses) ==
    /\ downDependencies' = Remembered(statuses)
    /\ witnessed' = [witnessed EXCEPT ![r] = NoProbes]
    /\ UNCHANGED up

(* A dependency fails or comes back.                                       *)
Change(d) ==
    /\ up' = (up \ {d}) \cup ({d} \ up)
    /\ witnessed' = [r \in Reports |->
         [e \in DOMAIN witnessed[r] |-> IF e = d THEN Statuses ELSE witnessed[r][e]]]
    /\ UNCHANGED downDependencies

=============================================================================
