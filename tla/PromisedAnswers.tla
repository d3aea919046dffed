---------------------------- MODULE PromisedAnswers ----------------------------
(***************************************************************************)
(* What clients of the cached questions are promised, without a cache:     *)
(* every answer is one the engine gave, to the very question, about the    *)
(* same index, under the same relevance settings and in a shape that is    *)
(* accepted; a process has the engine compute it once at a time; and a     *)
(* request fails only with the computation that it waited for.             *)
(***************************************************************************)
EXTENDS Naturals

CONSTANTS Requests, Processes, Process, Question, Deployments, None

VARIABLES
    deploy,    \* what each process runs
    status,    \* of each request: new, waiting, served, failed or dropped
    given,     \* what each request was answered
    asking,    \* the requests the engine computes an answer for
    known      \* answers the engine gave and somebody remembers

Waiting(r) == status[r] = "waiting"

Computed(r) ==
    LET d == deploy[Process[r]]
    IN [question |-> Question[r], config |-> d.config, shape |-> d.shape]

\* Answer a is one to what request r asks its process.
Suits(a, r) ==
    LET d == deploy[Process[r]] IN
    /\ a.question = Question[r]
    /\ a.config.index = d.config.index
    /\ a.config.relevance = d.config.relevance
    /\ a.shape \in d.accepts

Alike(q, r) == Process[q] = Process[r] /\ Question[q] = Question[r]

Init ==
    /\ deploy \in [Processes -> Deployments]
    /\ status = [r \in Requests |-> "new"]
    /\ given = [r \in Requests |-> None]
    /\ asking = {}
    /\ known = {}

\* Nobody promises to remember.
Remember(answers) == known' \subseteq answers

Starts(r) ==
    /\ \A q \in asking : ~Alike(q, r)
    /\ asking' = asking \cup {r}

Ask(r) ==
    /\ status[r] = "new"
    /\ status' = [status EXCEPT ![r] = "waiting"]
    /\ asking' = asking \/ Starts(r)
    /\ Remember(known)
    /\ UNCHANGED <<deploy, given>>

Start(r) ==
    /\ Waiting(r)
    /\ Starts(r)
    /\ Remember(known)
    /\ UNCHANGED <<deploy, status, given>>

Answered(r) ==
    /\ r \in asking
    /\ asking' = asking \ {r}
    /\ Remember(known \cup {Computed(r)})
    /\ UNCHANGED <<deploy, status, given>>

\* Some of those that wait are answered together.
Serve(S, a) ==
    /\ \A r \in S : Suits(a, r)
    /\ status' = [r \in Requests |-> IF r \in S THEN "served" ELSE status[r]]
    /\ given' = [r \in Requests |-> IF r \in S THEN a ELSE given[r]]
    /\ asking' = asking \ S
    /\ Remember(known)
    /\ UNCHANGED deploy

\* The engine fails request r, and those that wait for the same.
Fail(S, r) ==
    /\ r \in asking \cap S
    /\ \A q \in S : Alike(q, r)
    /\ status' = [q \in Requests |-> IF q \in S THEN "failed" ELSE status[q]]
    /\ asking' = asking \ {r}
    /\ Remember(known)
    /\ UNCHANGED <<deploy, given>>

\* A process dies, with the requests it has not answered, and is deployed again.
Restart(p, d) ==
    LET dropped == {r \in Requests : Process[r] = p /\ Waiting(r)} IN
    /\ deploy' = [deploy EXCEPT ![p] = d]
    /\ status' = [r \in Requests |-> IF r \in dropped THEN "dropped" ELSE status[r]]
    /\ asking' = asking \ dropped
    /\ Remember(known)
    /\ UNCHANGED given

Forget ==
    /\ Remember(known)
    /\ UNCHANGED <<deploy, status, given, asking>>

Next ==
    \/ Forget
    \/ \E r \in Requests : Ask(r) \/ Start(r) \/ Answered(r)
    \/ \E S \in SUBSET {r \in Requests : Waiting(r)} :
          \/ \E a \in known \cup {Computed(r) : r \in asking \cap S} : Serve(S, a)
          \/ \E r \in S : Fail(S, r)
    \/ \E p \in Processes, d \in Deployments : Restart(p, d)

Spec == Init /\ [][Next]_<<deploy, status, given, asking, known>>

=============================================================================
