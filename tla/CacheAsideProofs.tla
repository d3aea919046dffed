--------------------------- MODULE CacheAsideProofs ---------------------------
(***************************************************************************)
(* Proofs about CacheAside, for any requests, processes and deployments.   *)
(*                                                                         *)
(* Neither the type invariant nor SingleFlight is inductive: what a        *)
(* command on a connection does when it is answered depends on where its   *)
(* request is, and what it brings on what is stored under its key.  That   *)
(* no load is redundant rests on the order of the commands as well.        *)
(***************************************************************************)
EXTENDS CacheAside, SequenceTheorems, TLAPS

-----------------------------------------------------------------------------
(* The invariant.                                                          *)

Busy == {"loading", "writing"}
Commanded == {"reading", "writing"}

\* A request that loads or writes is the one in flight for its key, a request that
\* joined has one to wait for, and what is in flight loads or writes that key.
FlightInv ==
    /\ \A r \in Requests : pc[r] \in Busy => inFlight[Process[r]][Key(r)] = r
    /\ \A r \in Requests : pc[r] = "joined" => inFlight[Process[r]][Key(r)] # None
    /\ \A p \in Processes, k \in Keys : inFlight[p][k] # None =>
          LET r == inFlight[p][k] IN Process[r] = p /\ Key(r) = k /\ pc[r] \in Busy

\* An entry holds an answer to the question of its key, computed under its scope.
Fits(entry, k) ==
    /\ entry.answer.question = k.question
    /\ entry.answer.config.index = k.scope.index
    /\ entry.answer.config.relevance = k.scope.relevance

\* A command belongs to a request of its process that waits for it.
CommandOf(c, p) ==
    /\ Process[c.request] = p
    /\ c.kind = "get" => pc[c.request] = "reading"
    /\ c.kind = "set" => pc[c.request] = "writing"
    /\ c.got # None => Fits(c.got, Key(c.request))

\* No request waits for two commands.
CommandInv ==
    \A p \in Processes : \A i \in 1 .. Len(conn[p]) :
        /\ CommandOf(conn[p][i], p)
        /\ \A j \in 1 .. Len(conn[p]) : conn[p][i].request = conn[p][j].request => i = j

AnswerInv ==
    /\ \A k \in Keys : cache[k] # None => Fits(cache[k], k)
    /\ \A r \in Requests : pc[r] = "writing" =>
          answer[r] = Answer(deploy[Process[r]], Question[r])

CacheInv == TypeOK /\ FlightInv /\ CommandInv /\ AnswerInv

-----------------------------------------------------------------------------
(* Keys, answers and commands.                                             *)

LEMMA KeyType ==
  ASSUME TypeOK, NEW r \in Requests
  PROVE  /\ Process[r] \in Processes
         /\ deploy[Process[r]] \in Deployments
         /\ Key(r) \in Keys
         /\ Answer(deploy[Process[r]], Question[r]) \in Answers
<1>1. Process[r] \in Processes
  BY DeploymentAssumption
<1>2. deploy[Process[r]] \in Deployments
  BY <1>1 DEF TypeOK
<1>3. Key(r) \in Keys
  BY <1>2 DEF Key, Keys
<1>4. Answer(deploy[Process[r]], Question[r]) \in Answers
  BY <1>2 DEF Answers
<1>. QED
  BY <1>1, <1>2, <1>3, <1>4

LEMMA KeyStays ==
  ASSUME deploy' = deploy, NEW r \in Requests
  PROVE  Key(r)' = Key(r)
BY DEF Key, KeyUnder, Scope

\* A process's own answer fits the key it is stored under.
LEMMA AnswerFits ==
  ASSUME NEW r \in Requests, NEW entry, entry.answer = Answer(deploy[Process[r]], Question[r])
  PROVE  Fits(entry, Key(r))
BY DEF Fits, Answer, Key, KeyUnder, Scope

\* None stands for no request, and no request in flight.
LEMMA Leader ==
  ASSUME CacheInv, NEW p \in Processes, NEW k \in Keys, inFlight[p][k] # None
  PROVE  inFlight[p][k] \in Requests
BY DEF CacheInv, TypeOK

LEMMA SendType ==
  ASSUME TypeOK, NEW r \in Requests, NEW kind \in {"get", "set"}, Send(r, kind)
  PROVE  conn' \in [Processes -> Seq(Command)]
<1>1. [request |-> r, kind |-> kind, done |-> FALSE, got |-> None] \in Command
  BY DEF Command
<1>. QED
  BY <1>1, KeyType, AppendProperties DEF Send, TypeOK

LEMMA HeadType ==
  ASSUME TypeOK, NEW p \in Processes, conn[p] # <<>>, conn' = [conn EXCEPT ![p] = Tail(@)]
  PROVE  Head(conn[p]) \in Command /\ conn' \in [Processes -> Seq(Command)]
BY HeadTailProperties DEF TypeOK

LEMMA JoinType ==
  ASSUME TypeOK, NEW r \in Requests, JoinOrLoad(r)
  PROVE  /\ pc' \in [Requests -> {"new"} \cup Working \cup Ended]
         /\ inFlight' \in [Processes -> [Keys -> Requests \cup {None}]]
         /\ answer' = answer
<1>1. Process[r] \in Processes /\ Key(r) \in Keys
  BY KeyType
<1>2. CASE inFlight[Process[r]][Key(r)] # None
  BY <1>1, <1>2 DEF JoinOrLoad, TypeOK, Working
<1>3. CASE inFlight[Process[r]][Key(r)] = None
  <2>1. /\ pc' = [pc EXCEPT ![r] = "loading"]
        /\ inFlight' = [inFlight EXCEPT ![Process[r]][Key(r)] = r]
        /\ answer' = answer
    BY <1>3 DEF JoinOrLoad
  <2>. QED
    BY <1>1, <2>1 DEF TypeOK, Working
<1>. QED
  BY <1>2, <1>3

LEMMA SettleType ==
  ASSUME TypeOK, NEW r \in Requests, NEW outcome \in Ended, NEW value \in Answers \cup {None},
         Settle(r, outcome, value)
  PROVE  /\ pc' \in [Requests -> {"new"} \cup Working \cup Ended]
         /\ inFlight' \in [Processes -> [Keys -> Requests \cup {None}]]
         /\ answer' \in [Requests -> Answers \cup {None}]
<1>1. inFlight' \in [Processes -> [Keys -> Requests \cup {None}]]
  BY KeyType DEF Settle, TypeOK
<1>2. pc' \in [Requests -> {"new"} \cup Working \cup Ended]
  BY DEF Settle, TypeOK
<1>3. answer' \in [Requests -> Answers \cup {None}]
  BY DEF Settle, TypeOK
<1>. QED
  BY <1>1, <1>2, <1>3

-----------------------------------------------------------------------------
(* What a step does to the loads in flight.                                *)

\* One request moves on that neither loads, nor writes, nor waits for another.
LEMMA FlightQuiet ==
  ASSUME CacheInv, deploy' = deploy, inFlight' = inFlight,
         \A q \in Requests : \/ pc'[q] = pc[q]
                             \/ pc[q] \notin Busy /\ pc'[q] \notin Busy \cup {"joined"}
                             \/ pc[q] \in Busy /\ pc'[q] \in Busy
  PROVE  FlightInv'
<1>1. \A q \in Requests : Key(q)' = Key(q)
  BY KeyStays
<1>2. ASSUME NEW p \in Processes, NEW k \in Keys, inFlight[p][k] # None
      PROVE  LET r == inFlight[p][k] IN Process[r] = p /\ Key(r)' = k /\ pc'[r] \in Busy
  BY <1>1, <1>2, Leader DEF CacheInv, FlightInv
<1>. QED
  BY <1>1, <1>2 DEF CacheInv, FlightInv, Busy

LEMMA FlightJoin ==
  ASSUME CacheInv, NEW r \in Requests, pc[r] \notin Busy, deploy' = deploy, JoinOrLoad(r)
  PROVE  FlightInv'
<1>1. \A q \in Requests : Key(q)' = Key(q)
  BY KeyStays
<1>2. Process[r] \in Processes /\ Key(r) \in Keys
  BY KeyType DEF CacheInv
<1>3. CASE inFlight[Process[r]][Key(r)] # None
  <2>1. pc' = [pc EXCEPT ![r] = "joined"] /\ inFlight' = inFlight
    BY <1>3 DEF JoinOrLoad
  <2>2. ASSUME NEW p \in Processes, NEW k \in Keys, inFlight[p][k] # None
        PROVE  LET q == inFlight[p][k] IN Process[q] = p /\ Key(q)' = k /\ pc'[q] \in Busy
    BY <1>1, <2>1, <2>2, Leader DEF CacheInv, FlightInv, TypeOK
  <2>. QED
    BY <1>1, <1>2, <1>3, <2>1, <2>2 DEF CacheInv, FlightInv, TypeOK, Busy
<1>4. CASE inFlight[Process[r]][Key(r)] = None
  <2>1. /\ pc' = [pc EXCEPT ![r] = "loading"]
        /\ inFlight' = [inFlight EXCEPT ![Process[r]][Key(r)] = r]
    BY <1>4 DEF JoinOrLoad
  <2>2. \A p \in Processes, k \in Keys :
           inFlight'[p][k] = IF p = Process[r] /\ k = Key(r) THEN r ELSE inFlight[p][k]
    BY <1>2, <2>1 DEF CacheInv, TypeOK
  <2>3. r # None
    BY DeploymentAssumption
  <2>4. ASSUME NEW p \in Processes, NEW k \in Keys, inFlight'[p][k] # None
        PROVE  \E q \in Requests : inFlight'[p][k] = q /\ Process[q] = p /\ Key(q) = k /\ pc'[q] \in Busy
    <3>1. CASE p = Process[r] /\ k = Key(r)
      BY <2>1, <2>2, <3>1 DEF CacheInv, TypeOK, Busy
    <3>2. CASE ~(p = Process[r] /\ k = Key(r))
      <4>1. inFlight'[p][k] = inFlight[p][k] /\ inFlight[p][k] \in Requests
        BY <2>2, <2>4, <3>2, Leader
      <4>. QED
        BY <2>1, <2>4, <4>1 DEF CacheInv, FlightInv, TypeOK, Busy
    <3>. QED
      BY <3>1, <3>2
  <2>5. ASSUME NEW q \in Requests
        PROVE  /\ Process[q] \in Processes /\ Key(q) \in Keys
               /\ pc'[q] \in Busy => inFlight'[Process[q]][Key(q)] = q
               /\ pc'[q] = "joined" => inFlight'[Process[q]][Key(q)] # None
    <3>1. Process[q] \in Processes /\ Key(q) \in Keys
      BY KeyType DEF CacheInv
    <3>2. CASE q = r
      BY <2>1, <2>2, <3>1, <3>2 DEF CacheInv, TypeOK
    <3>3. CASE q # r
      <4>1. pc'[q] = pc[q]
        BY <2>1, <3>3 DEF CacheInv, TypeOK
      <4>2. pc[q] \in Busy => inFlight'[Process[q]][Key(q)] = q
        BY <1>4, <2>2, <2>3, <3>1, DeploymentAssumption DEF CacheInv, FlightInv
      <4>3. pc[q] = "joined" => inFlight'[Process[q]][Key(q)] # None
        BY <2>2, <2>3, <3>1 DEF CacheInv, FlightInv
      <4>. QED
        BY <3>1, <4>1, <4>2, <4>3
    <3>. QED
      BY <3>2, <3>3
  <2>. QED
    BY <1>1, <2>4, <2>5 DEF FlightInv
<1>. QED
  BY <1>3, <1>4

LEMMA FlightSettle ==
  ASSUME CacheInv, NEW r \in Requests, pc[r] \in Busy, deploy' = deploy,
         NEW outcome \in Ended, NEW value, Settle(r, outcome, value)
  PROVE  FlightInv'
<1>1. \A q \in Requests : Key(q)' = Key(q)
  BY KeyStays
<1>2. Process[r] \in Processes /\ Key(r) \in Keys /\ inFlight[Process[r]][Key(r)] = r
  BY KeyType DEF CacheInv, FlightInv
<1>3. \A p \in Processes, k \in Keys :
         inFlight'[p][k] = IF p = Process[r] /\ k = Key(r) THEN None ELSE inFlight[p][k]
  BY <1>2 DEF CacheInv, TypeOK, Settle
<1>4. \A q \in Requests : pc'[q] = IF q \in Sharing(r) THEN outcome ELSE pc[q]
  BY DEF Settle
<1>5. outcome \notin Busy \cup {"joined"}
  BY DEF Ended, Busy
<1>6. ASSUME NEW q \in Requests
      PROVE  /\ Process[q] \in Processes /\ Key(q) \in Keys
             /\ pc'[q] \in Busy => inFlight'[Process[q]][Key(q)] = q
             /\ pc'[q] = "joined" => inFlight'[Process[q]][Key(q)] # None
  <2>1. Process[q] \in Processes /\ Key(q) \in Keys
    BY KeyType DEF CacheInv
  <2>2. CASE q \in Sharing(r)
    BY <1>4, <1>5, <2>1, <2>2
  <2>3. CASE q \notin Sharing(r)
    <3>1. q # r /\ pc'[q] = pc[q]
      BY <1>4, <2>3 DEF Sharing
    <3>2. pc[q] \in Busy => ~(Process[q] = Process[r] /\ Key(q) = Key(r))
      BY <1>2, <3>1 DEF CacheInv, FlightInv
    <3>3. pc[q] = "joined" => ~(Process[q] = Process[r] /\ Key(q) = Key(r))
      BY <2>3 DEF Sharing
    <3>. QED
      BY <1>3, <2>1, <3>1, <3>2, <3>3 DEF CacheInv, FlightInv
  <2>. QED
    BY <2>2, <2>3
<1>7. ASSUME NEW p \in Processes, NEW k \in Keys, inFlight'[p][k] # None
      PROVE  \E q \in Requests : inFlight'[p][k] = q /\ Process[q] = p /\ Key(q) = k /\ pc'[q] \in Busy
  <2>. DEFINE q == inFlight[p][k]
  <2>1. ~(p = Process[r] /\ k = Key(r)) /\ inFlight'[p][k] = q /\ q # None
    BY <1>3, <1>7
  <2>2. q \in Requests /\ Process[q] = p /\ Key(q) = k /\ pc[q] \in Busy
    BY <2>1, Leader DEF CacheInv, FlightInv
  <2>3. q \notin Sharing(r)
    BY <2>1, <2>2 DEF Sharing, Busy
  <2>. QED
    BY <1>4, <2>1, <2>2, <2>3
<1>. QED
  BY <1>1, <1>6, <1>7 DEF FlightInv

-----------------------------------------------------------------------------
(* What a step does to the commands on the connections.                    *)

LEMMA CommandOfType ==
  ASSUME TypeOK, NEW p \in Processes, NEW i \in 1 .. Len(conn[p])
  PROVE  conn[p][i] \in Command /\ conn[p][i].request \in Requests
<1>1. conn[p] \in Seq(Command)
  BY DEF TypeOK
<1>2. conn[p][i] \in Command
  BY <1>1, ElementOfSeq
<1>. QED
  BY <1>2 DEF Command

\* The commands stay, executed or to be executed again, and so do their requests.
LEMMA CommandKept ==
  ASSUME CacheInv, deploy' = deploy, 
         \A q \in Requests : pc[q] \in Commanded => pc'[q] = pc[q],
         \A p \in Processes :
            /\ Len(conn'[p]) = Len(conn[p])
            /\ \A i \in 1 .. Len(conn[p]) :
                  /\ conn'[p][i].request = conn[p][i].request
                  /\ conn'[p][i].kind = conn[p][i].kind
                  /\ \/ conn'[p][i].got = conn[p][i].got
                     \/ conn'[p][i].got = None
                     \/ Fits(conn'[p][i].got, Key(conn[p][i].request))
  PROVE  CommandInv'
<1>. SUFFICES ASSUME NEW p \in Processes, NEW i \in 1 .. Len(conn[p])
              PROVE  /\ CommandOf(conn[p][i], p)'
                     /\ \A j \in 1 .. Len(conn[p]) :
                           conn'[p][i].request = conn'[p][j].request => i = j
  BY DEF CommandInv
<1>1. conn[p][i].request \in Requests
  BY CommandOfType DEF CacheInv
<1>2. Key(conn[p][i].request)' = KeyUnder(deploy[Process[conn'[p][i].request]], conn'[p][i].request)
  BY DEF Key, KeyUnder, Scope
<1>3. CommandOf(conn[p][i], p)
  BY DEF CacheInv, CommandInv
<1>4. CommandOf(conn[p][i], p)'
  BY <1>1, <1>2, <1>3 DEF CommandOf, Commanded, Fits, Key
<1>. QED
  BY <1>4 DEF CacheInv, CommandInv

LEMMA CommandQuiet ==
  ASSUME CacheInv, deploy' = deploy, conn' = conn,
         \A q \in Requests : pc[q] \in Commanded => pc'[q] = pc[q]
  PROVE  CommandInv'
BY CommandKept

\* A request that waits for no command gets one.
LEMMA CommandSend ==
  ASSUME CacheInv, NEW r \in Requests, NEW kind \in {"get", "set"}, pc[r] \notin Commanded,
         deploy' = deploy, Send(r, kind),
         pc' = [pc EXCEPT ![r] = IF kind = "get" THEN "reading" ELSE "writing"]
  PROVE  CommandInv'
<1>. DEFINE c == [request |-> r, kind |-> kind, done |-> FALSE, got |-> None]
<1>1. Process[r] \in Processes /\ c \in Command
  BY KeyType DEF CacheInv, Command
<1>2. ASSUME NEW p \in Processes, NEW i \in 1 .. Len(conn[p])
      PROVE  /\ CommandOf(conn[p][i], p)
             /\ conn[p][i].request \in Requests
             /\ conn[p][i].request # r
             /\ pc'[conn[p][i].request] = pc[conn[p][i].request]
  <2>1. CommandOf(conn[p][i], p) /\ conn[p][i] \in Command
    BY CommandOfType DEF CacheInv, CommandInv
  <2>2. conn[p][i].request # r
    BY <2>1 DEF CommandOf, Command, Commanded
  <2>. QED
    BY <2>1, <2>2 DEF CacheInv, TypeOK, Command
<1>3. ASSUME NEW p \in Processes
      PROVE  \/ conn'[p] = conn[p]
             \/ /\ p = Process[r]
                /\ Len(conn'[p]) = Len(conn[p]) + 1
                /\ \A i \in 1 .. Len(conn[p]) : conn'[p][i] = conn[p][i]
                /\ conn'[p][Len(conn[p]) + 1] = c
  BY <1>1, AppendProperties DEF Send, CacheInv, TypeOK
<1>4. ASSUME NEW q \in Requests PROVE Key(q)' = Key(q)
  BY KeyStays
<1>5. ASSUME NEW p \in Processes, NEW i \in 1 .. Len(conn'[p])
      PROVE  \/ i \in 1 .. Len(conn[p]) /\ conn'[p][i] = conn[p][i]
             \/ i = Len(conn[p]) + 1 /\ p = Process[r] /\ conn'[p][i] = c
  <2>1. Len(conn[p]) \in Nat
    BY LenProperties DEF CacheInv, TypeOK
  <2>2. CASE conn'[p] = conn[p]
    BY <2>2
  <2>3. CASE conn'[p] # conn[p]
    <3>1. Len(conn'[p]) = Len(conn[p]) + 1
      BY <1>3, <2>3
    <3>2. i \in 1 .. Len(conn[p]) \/ i = Len(conn[p]) + 1
      BY <2>1, <3>1
    <3>. QED
      BY <1>3, <2>3, <3>2
  <2>. QED
    BY <2>2, <2>3
<1>6. ASSUME NEW p \in Processes, NEW i \in 1 .. Len(conn'[p])
      PROVE  CommandOf(conn[p][i], p)'
  <2>1. CASE i \in 1 .. Len(conn[p]) /\ conn'[p][i] = conn[p][i]
    <3>. DEFINE q == conn[p][i].request
    <3>1. Key(conn[p][i].request)' = Key(q)
      BY <2>1 DEF Key, KeyUnder, Scope
    <3>. QED
      BY <1>2, <2>1, <3>1 DEF CommandOf, Fits
  <2>2. CASE p = Process[r] /\ conn'[p][i] = c
    BY <2>2 DEF CommandOf, CacheInv, TypeOK
  <2>. QED
    BY <1>5, <2>1, <2>2
<1>7. ASSUME NEW p \in Processes, NEW i \in 1 .. Len(conn'[p]), NEW j \in 1 .. Len(conn'[p]),
             conn'[p][i].request = conn'[p][j].request
      PROVE  i = j
  BY <1>2, <1>5, <1>7 DEF CacheInv, CommandInv
<1>. QED
  BY <1>6, <1>7 DEF CommandInv

\* The oldest command is answered: no other command is of its request.
LEMMA CommandAnswered ==
  ASSUME CacheInv, NEW p \in Processes, conn[p] # <<>>, deploy' = deploy,
         conn' = [conn EXCEPT ![p] = Tail(@)],
         \A q \in Requests \ {Head(conn[p]).request} : pc[q] \in Commanded => pc'[q] = pc[q]
  PROVE  CommandInv'
<1>1. conn[p] \in Seq(Command) /\ Head(conn[p]) = conn[p][1] /\ 1 \in 1 .. Len(conn[p])
  BY HeadTailProperties DEF CacheInv, TypeOK
<1>2. /\ Len(conn'[p]) = Len(conn[p]) - 1
      /\ \A i \in 1 .. Len(conn'[p]) : i + 1 \in 1 .. Len(conn[p]) /\ conn'[p][i] = conn[p][i + 1]
  BY <1>1, HeadTailProperties DEF CacheInv, TypeOK
<1>3. \A q \in Processes \ {p} : conn'[q] = conn[q]
  BY DEF CacheInv, TypeOK
<1>4. ASSUME NEW o \in Processes, NEW i \in 1 .. Len(conn'[o])
      PROVE  \E k \in 1 .. Len(conn[o]) :
                /\ conn'[o][i] = conn[o][k]
                /\ k = IF o = p THEN i + 1 ELSE i
  BY <1>2, <1>3
<1>5. ASSUME NEW o \in Processes, NEW k \in 1 .. Len(conn[o]), o = p => k # 1
      PROVE  pc'[conn[o][k].request] = pc[conn[o][k].request]
  <2>1. conn[o][k] \in Command /\ CommandOf(conn[o][k], o)
    BY CommandOfType DEF CacheInv, CommandInv
  <2>2. CommandOf(conn[p][1], p)
    BY <1>1 DEF CacheInv, CommandInv
  <2>3. conn[o][k].request # conn[p][1].request
    <3>1. CASE o = p
      BY <1>1, <1>5, <3>1 DEF CacheInv, CommandInv
    <3>2. CASE o # p
      BY <2>1, <2>2, <3>2 DEF CommandOf
    <3>. QED
      BY <3>1, <3>2
  <2>. QED
    BY <1>1, <2>1, <2>3 DEF CommandOf, Command, Commanded
<1>6. ASSUME NEW o \in Processes, NEW i \in 1 .. Len(conn'[o])
      PROVE  CommandOf(conn[o][i], o)'
  <2>1. PICK k \in 1 .. Len(conn[o]) : /\ conn'[o][i] = conn[o][k]
                                       /\ k = IF o = p THEN i + 1 ELSE i
    BY <1>4
  <2>2. Key(conn[o][i].request)' = Key(conn[o][k].request)
    BY <2>1 DEF Key, KeyUnder, Scope
  <2>3. CommandOf(conn[o][k], o)
    BY DEF CacheInv, CommandInv
  <2>4. pc'[conn[o][k].request] = pc[conn[o][k].request]
    BY <1>2, <1>5, <2>1 DEF CacheInv, TypeOK
  <2>. QED
    BY <2>1, <2>2, <2>3, <2>4 DEF CommandOf, Fits
<1>7. ASSUME NEW o \in Processes, NEW i \in 1 .. Len(conn'[o]), NEW j \in 1 .. Len(conn'[o]),
             conn'[o][i].request = conn'[o][j].request
      PROVE  i = j
  <2>1. PICK k \in 1 .. Len(conn[o]) : /\ conn'[o][i] = conn[o][k]
                                       /\ k = IF o = p THEN i + 1 ELSE i
    BY <1>4
  <2>2. PICK l \in 1 .. Len(conn[o]) : /\ conn'[o][j] = conn[o][l]
                                       /\ l = IF o = p THEN j + 1 ELSE j
    BY <1>4
  <2>3. k = l
    BY <1>7, <2>1, <2>2 DEF CacheInv, CommandInv
  <2>4. i \in Int /\ j \in Int
    OBVIOUS
  <2>. QED
    BY <2>1, <2>2, <2>3, <2>4
<1>. QED
  BY <1>6, <1>7 DEF CommandInv

-----------------------------------------------------------------------------
(* What a step does to the stored answers.                                 *)

LEMMA AnswerQuiet ==
  ASSUME CacheInv, deploy' = deploy, cache' = cache,
         \A q \in Requests : pc'[q] = "writing" => pc[q] = "writing" /\ answer'[q] = answer[q]
  PROVE  AnswerInv'
BY DEF CacheInv, AnswerInv, Fits

-----------------------------------------------------------------------------
(* The steps of a request.                                                 *)

\* A load settles: whoever shared it ends, and the other commands' requests stay.
LEMMA SettleInv ==
  ASSUME CacheInv, NEW r \in Requests, pc[r] \in Busy, UNCHANGED <<deploy, cache>>,
         NEW outcome \in Ended, NEW value \in Answers \cup {None}, Settle(r, outcome, value)
  PROVE  /\ TypeOK /\ conn' \in [Processes -> Seq(Command)] => TypeOK'
         /\ FlightInv' /\ AnswerInv'
         /\ \A q \in Requests \ {r} : pc[q] \in Commanded => pc'[q] = pc[q]
<1>1. \A q \in Requests : /\ pc'[q] = IF q \in Sharing(r) THEN outcome ELSE pc[q]
                          /\ answer'[q] = IF q \in Sharing(r) THEN value ELSE answer[q]
  BY DEF Settle
<1>2. \A q \in Requests \ {r} : pc[q] \in Commanded => q \notin Sharing(r)
  BY DEF Sharing, Commanded
<1>3. outcome # "writing"
  BY DEF Ended
<1>4. AnswerInv'
  BY <1>1, <1>3, AnswerQuiet
<1>5. TypeOK /\ conn' \in [Processes -> Seq(Command)] => TypeOK'
  BY SettleType DEF TypeOK
<1>6. FlightInv'
  BY FlightSettle
<1>. QED
  BY <1>1, <1>2, <1>4, <1>5, <1>6

LEMMA JoinInv ==
  ASSUME CacheInv, NEW r \in Requests, pc[r] \notin Busy, UNCHANGED <<deploy, cache>>,
         JoinOrLoad(r)
  PROVE  /\ TypeOK /\ conn' \in [Processes -> Seq(Command)] => TypeOK'
         /\ FlightInv' /\ AnswerInv'
         /\ \A q \in Requests \ {r} : pc'[q] = pc[q]
<1>1. /\ \A q \in Requests \ {r} : pc'[q] = pc[q]
      /\ pc'[r] \in {"joined", "loading"}
      /\ answer' = answer
  BY DEF JoinOrLoad, CacheInv, TypeOK
<1>2. AnswerInv'
  BY <1>1, AnswerQuiet
<1>3. TypeOK /\ conn' \in [Processes -> Seq(Command)] => TypeOK'
  BY JoinType DEF TypeOK
<1>4. FlightInv'
  BY FlightJoin
<1>. QED
  BY <1>1, <1>2, <1>3, <1>4

LEMMA ReadInv ==
  ASSUME CacheInv, NEW r \in Requests, pc[r] = "reading", UNCHANGED <<deploy, cache>>,
         NEW entry \in Entry \cup {None}, ReadAnswered(r, entry)
  PROVE  /\ TypeOK /\ conn' \in [Processes -> Seq(Command)] => TypeOK'
         /\ FlightInv' /\ AnswerInv'
         /\ \A q \in Requests \ {r} : pc'[q] = pc[q]
<1>1. CASE entry # None /\ entry.answer.shape \in deploy[Process[r]].accepts
  <2>1. /\ pc' = [pc EXCEPT ![r] = "served"]
        /\ answer' = [answer EXCEPT ![r] = entry.answer]
        /\ inFlight' = inFlight
    BY <1>1 DEF ReadAnswered
  <2>2. entry.answer \in Answers
    BY <1>1 DEF Entry
  <2>3. AnswerInv'
    BY <2>1, AnswerQuiet DEF CacheInv, TypeOK
  <2>4. FlightInv'
    BY <2>1, FlightQuiet DEF CacheInv, TypeOK, Busy
  <2>5. TypeOK /\ conn' \in [Processes -> Seq(Command)] => TypeOK'
    BY <2>1, <2>2 DEF TypeOK, Ended
  <2>. QED
    BY <2>1, <2>3, <2>4, <2>5 DEF CacheInv, TypeOK
<1>2. CASE ~(entry # None /\ entry.answer.shape \in deploy[Process[r]].accepts)
  BY <1>2, JoinInv DEF ReadAnswered, Busy
<1>. QED
  BY <1>1, <1>2

LEMMA ArriveInv ==
  ASSUME CacheInv, NEW r \in Requests, Arrive(r)
  PROVE  CacheInv'
<1>1. CASE JoinOrLoad(r) /\ UNCHANGED conn
  <2>1. pc[r] = "new" /\ UNCHANGED <<deploy, cache>>
    BY DEF Arrive
  <2>2. TypeOK' /\ FlightInv' /\ AnswerInv' /\ \A q \in Requests \ {r} : pc'[q] = pc[q]
    BY <1>1, <2>1, JoinInv DEF CacheInv, TypeOK, Busy
  <2>3. CommandInv'
    BY <1>1, <2>1, <2>2, CommandQuiet DEF Commanded
  <2>. QED
    BY <2>2, <2>3 DEF CacheInv
<1>2. CASE Send(r, "get") /\ pc' = [pc EXCEPT ![r] = "reading"] /\ UNCHANGED <<inFlight, answer>>
  <2>1. pc[r] = "new" /\ UNCHANGED <<deploy, cache>>
    BY DEF Arrive
  <2>2. TypeOK'
    BY <1>2, <2>1, SendType DEF CacheInv, TypeOK, Working
  <2>3. FlightInv'
    BY <1>2, <2>1, FlightQuiet DEF CacheInv, TypeOK, Busy
  <2>4. CommandInv'
    BY <1>2, <2>1, CommandSend DEF Commanded
  <2>5. AnswerInv'
    BY <1>2, <2>1, AnswerQuiet DEF CacheInv, TypeOK
  <2>. QED
    BY <2>2, <2>3, <2>4, <2>5 DEF CacheInv
<1>. QED
  BY <1>1, <1>2 DEF Arrive

LEMMA LoadInv ==
  ASSUME CacheInv, NEW r \in Requests, Load(r)
  PROVE  CacheInv'
<1>1. pc[r] = "loading" /\ UNCHANGED <<deploy, cache>>
  BY DEF Load, LoadAnswered, LoadAnsweredUncached, LoadFailed
<1>2. Answer(deploy[Process[r]], Question[r]) \in Answers
  BY KeyType DEF CacheInv
<1>3. CASE LoadAnswered(r)
  <2>1. /\ pc' = [pc EXCEPT ![r] = "writing"]
        /\ answer' = [answer EXCEPT ![r] = Answer(deploy[Process[r]], Question[r])]
        /\ Send(r, "set") /\ inFlight' = inFlight
    BY <1>3 DEF LoadAnswered
  <2>2. TypeOK'
    BY <1>1, <1>2, <2>1, SendType DEF CacheInv, TypeOK, Working
  <2>3. FlightInv'
    BY <1>1, <2>1, FlightQuiet DEF CacheInv, TypeOK, Busy
  <2>4. CommandInv'
    BY <1>1, <2>1, CommandSend DEF Commanded
  <2>5. AnswerInv'
    BY <1>1, <2>1 DEF CacheInv, TypeOK, AnswerInv, Fits, Answer
  <2>. QED
    BY <2>2, <2>3, <2>4, <2>5 DEF CacheInv
<1>4. ASSUME NEW outcome \in Ended, NEW value \in Answers \cup {None},
             Settle(r, outcome, value), UNCHANGED conn
      PROVE  CacheInv'
  <2>1. TypeOK' /\ FlightInv' /\ AnswerInv'
           /\ \A q \in Requests \ {r} : pc[q] \in Commanded => pc'[q] = pc[q]
    BY <1>1, <1>4, SettleInv DEF CacheInv, TypeOK, Busy
  <2>2. CommandInv'
    BY <1>1, <1>4, <2>1, CommandQuiet DEF Commanded
  <2>. QED
    BY <2>1, <2>2 DEF CacheInv
<1>5. CASE LoadAnsweredUncached(r)
  BY <1>2, <1>4, <1>5 DEF LoadAnsweredUncached, Ended
<1>6. CASE LoadFailed(r)
  BY <1>4, <1>6 DEF LoadFailed, Ended
<1>. QED
  BY <1>3, <1>5, <1>6 DEF Load

-----------------------------------------------------------------------------
(* The steps of Redis, and of processes.                                   *)

\* The first command of a connection, and where its request is.
LEMMA HeadCommand ==
  ASSUME CacheInv, NEW p \in Processes, conn[p] # <<>>
  PROVE  /\ Head(conn[p]) \in Command
         /\ Head(conn[p]).request \in Requests
         /\ Head(conn[p]).got \in Entry \cup {None}
         /\ CommandOf(Head(conn[p]), p)
<1>1. Head(conn[p]) = conn[p][1] /\ 1 \in 1 .. Len(conn[p]) /\ Head(conn[p]) \in Command
  BY HeadTailProperties DEF CacheInv, TypeOK
<1>. QED
  BY <1>1 DEF CacheInv, CommandInv, Command

\* One command is marked: the others stay.
Marked(p, i, c) == conn' = [conn EXCEPT ![p] = [@ EXCEPT ![i] = c]]

LEMMA MarkType ==
  ASSUME TypeOK, NEW p \in Processes, NEW i \in 1 .. Len(conn[p]), NEW c \in Command,
         Marked(p, i, c)
  PROVE  /\ conn' \in [Processes -> Seq(Command)]
         /\ \A o \in Processes :
               /\ Len(conn'[o]) = Len(conn[o])
               /\ \A j \in 1 .. Len(conn[o]) :
                     conn'[o][j] = IF o = p /\ j = i THEN c ELSE conn[o][j]
<1>1. conn[p] \in Seq(Command) /\ conn[p] \in [1 .. Len(conn[p]) -> Command]
  BY LenProperties DEF TypeOK
<1>2. /\ conn' = [conn EXCEPT ![p] = [@ EXCEPT ![i] = c]]
      /\ conn'[p] = [conn[p] EXCEPT ![i] = c] /\ \A o \in Processes \ {p} : conn'[o] = conn[o]
  BY DEF TypeOK, Marked
<1>3. conn'[p] \in Seq(Command) /\ Len(conn'[p]) = Len(conn[p])
  BY <1>1, <1>2, ExceptSeq
<1>. QED
  BY <1>1, <1>2, <1>3 DEF TypeOK

LEMMA ExecuteInv ==
  ASSUME CacheInv, NEW p \in Processes, RedisExecutes(p)
  PROVE  CacheInv'
<1>1. PICK i \in DOMAIN conn[p] :
        LET r == conn[p][i].request IN
        \/ /\ conn[p][i].kind = "get"
           /\ conn' = [conn EXCEPT ![p][i].done = TRUE, ![p][i].got = cache[Key(r)]]
           /\ UNCHANGED cache
        \/ /\ conn[p][i].kind = "set"
           /\ conn' = [conn EXCEPT ![p][i].done = TRUE]
           /\ cache' = [cache EXCEPT ![Key(r)] = [answer |-> answer[r], by |-> p]]
  BY DEF RedisExecutes
<1>2. UNCHANGED <<deploy, pc, inFlight, answer>>
  BY DEF RedisExecutes
<1>. DEFINE r == conn[p][i].request
<1>3. conn[p] \in Seq(Command) /\ i \in 1 .. Len(conn[p])
  BY LenProperties DEF CacheInv, TypeOK
<1>4. conn[p][i] \in Command /\ CommandOf(conn[p][i], p) /\ r \in Requests /\ Key(r) \in Keys
  BY <1>3, CommandOfType, KeyType DEF CacheInv, CommandInv, Command
<1>5. FlightInv'
  BY <1>2, FlightQuiet
<1>6. CASE conn[p][i].kind = "get"
  <2>1. cache[Key(r)] \in Entry \cup {None} /\ cache' = cache
    BY <1>1, <1>4, <1>6 DEF CacheInv, TypeOK
  <2>2. PICK c \in Command : /\ Marked(p, i, c)
                             /\ c.request = r /\ c.kind = conn[p][i].kind
                             /\ c.got = cache[Key(r)]
    <3>. DEFINE e == [conn[p][i] EXCEPT !.done = TRUE, !.got = cache[Key(r)]]
    <3>1. Marked(p, i, e) /\ e \in Command
      BY <1>1, <1>3, <1>4, <1>6, <2>1 DEF CacheInv, TypeOK, Command, Marked
    <3>2. e.request = r /\ e.kind = conn[p][i].kind /\ e.got = cache[Key(r)]
      BY <1>4 DEF Command
    <3>. QED
      BY <3>1, <3>2
  <2>3. conn' \in [Processes -> Seq(Command)]
    BY <1>3, <2>2, MarkType DEF CacheInv
  <2>4. cache[Key(r)] = None \/ Fits(cache[Key(r)], Key(r))
    BY <1>4 DEF CacheInv, AnswerInv
  <2>5. ASSUME NEW o \in Processes
        PROVE  /\ Len(conn'[o]) = Len(conn[o])
               /\ \A j \in 1 .. Len(conn[o]) :
                     /\ conn'[o][j].request = conn[o][j].request
                     /\ conn'[o][j].kind = conn[o][j].kind
                     /\ \/ conn'[o][j].got = conn[o][j].got
                        \/ conn'[o][j].got = None
                        \/ Fits(conn'[o][j].got, Key(conn[o][j].request))
    <3>2. TypeOK
      BY DEF CacheInv
    <3>3. \A q \in Processes :
             /\ Len(conn'[q]) = Len(conn[q])
             /\ \A j \in 1 .. Len(conn[q]) :
                   conn'[q][j] = IF q = p /\ j = i THEN c ELSE conn[q][j]
      BY <1>3, <2>2, <3>2, MarkType
    <3>. QED
      BY <2>2, <2>4, <3>3
  <2>6. CommandInv'
    BY <1>2, <2>5, CommandKept
  <2>7. AnswerInv'
    BY <1>2, <2>1, AnswerQuiet
  <2>. QED
    BY <1>2, <1>5, <2>1, <2>3, <2>6, <2>7 DEF CacheInv, TypeOK
<1>7. CASE conn[p][i].kind = "set"
  <2>1. /\ conn' = [conn EXCEPT ![p][i].done = TRUE]
        /\ cache' = [cache EXCEPT ![Key(r)] = [answer |-> answer[r], by |-> p]]
    BY <1>1, <1>7
  <2>2. PICK c \in Command : /\ Marked(p, i, c)
                             /\ c.request = r /\ c.kind = conn[p][i].kind
                             /\ c.got = conn[p][i].got
    <3>. DEFINE e == [conn[p][i] EXCEPT !.done = TRUE]
    <3>1. Marked(p, i, e) /\ e \in Command
      BY <1>3, <1>4, <2>1 DEF CacheInv, TypeOK, Command, Marked
    <3>2. e.request = r /\ e.kind = conn[p][i].kind /\ e.got = conn[p][i].got
      BY <1>4 DEF Command
    <3>. QED
      BY <3>1, <3>2
  <2>4. conn' \in [Processes -> Seq(Command)]
    BY <1>3, <2>2, MarkType DEF CacheInv
  <2>5. ASSUME NEW o \in Processes
        PROVE  /\ Len(conn'[o]) = Len(conn[o])
               /\ \A j \in 1 .. Len(conn[o]) :
                     /\ conn'[o][j].request = conn[o][j].request
                     /\ conn'[o][j].kind = conn[o][j].kind
                     /\ conn'[o][j].got = conn[o][j].got
    <3>2. TypeOK
      BY DEF CacheInv
    <3>3. \A q \in Processes :
             /\ Len(conn'[q]) = Len(conn[q])
             /\ \A j \in 1 .. Len(conn[q]) :
                   conn'[q][j] = IF q = p /\ j = i THEN c ELSE conn[q][j]
      BY <1>3, <2>2, <3>2, MarkType
    <3>. QED
      BY <2>2, <3>3
  <2>6. CommandInv'
    BY <1>2, <2>5, CommandKept
  <2>. DEFINE e == [answer |-> answer[r], by |-> p]
  <2>7. answer[r] = Answer(deploy[Process[r]], Question[r]) /\ answer[r] \in Answers
    BY <1>4, <1>7, KeyType DEF CommandOf, CacheInv, AnswerInv
  <2>8. e \in Entry /\ Fits(e, Key(r))
    BY <1>4, <2>7, AnswerFits DEF Entry
  <2>9. cache' \in [Keys -> Entry \cup {None}] /\ AnswerInv'
    BY <1>2, <1>4, <2>1, <2>8 DEF CacheInv, TypeOK, AnswerInv, Fits
  <2>. QED
    BY <1>2, <1>5, <2>4, <2>6, <2>9 DEF CacheInv, TypeOK
<1>. QED
  BY <1>4, <1>6, <1>7 DEF Command

LEMMA ReconnectInv ==
  ASSUME CacheInv, NEW p \in Processes, Reconnect(p)
  PROVE  CacheInv'
<1>1. /\ UNCHANGED <<deploy, pc, inFlight, cache, answer>>
      /\ conn' = [conn EXCEPT ![p] =
                     [i \in DOMAIN @ |-> [@[i] EXCEPT !.done = FALSE, !.got = None]]]
  BY DEF Reconnect
<1>2. /\ conn[p] \in Seq(Command) /\ Len(conn[p]) \in Nat /\ DOMAIN conn[p] = 1 .. Len(conn[p])
      /\ \A i \in 1 .. Len(conn[p]) : conn[p][i] \in Command
  BY LenProperties, CommandOfType DEF CacheInv, TypeOK
<1>3. /\ conn'[p] = [i \in 1 .. Len(conn[p]) |-> [conn[p][i] EXCEPT !.done = FALSE, !.got = None]]
      /\ \A o \in Processes \ {p} : conn'[o] = conn[o]
  BY <1>1, <1>2 DEF CacheInv, TypeOK
<1>4. conn'[p] \in Seq(Command) /\ Len(conn'[p]) = Len(conn[p])
  <2>1. \A i \in 1 .. Len(conn[p]) : [conn[p][i] EXCEPT !.done = FALSE, !.got = None] \in Command
    BY <1>2 DEF Command
  <2>. DEFINE n == Len(conn[p])
  <2>2. conn'[p] \in [1 .. n -> Command]
    BY <1>3, <2>1
  <2>3. n \in Nat
    BY <1>2
  <2>. HIDE DEF n
  <2>4. conn'[p] \in Seq(Command) /\ Len(conn'[p]) = n
    BY <2>2, <2>3
  <2>. QED
    BY <2>4 DEF n
<1>5. conn' \in [Processes -> Seq(Command)]
  BY <1>1, <1>3, <1>4 DEF CacheInv, TypeOK
<1>6. ASSUME NEW o \in Processes
      PROVE  /\ Len(conn'[o]) = Len(conn[o])
             /\ \A i \in 1 .. Len(conn[o]) :
                   /\ conn'[o][i].request = conn[o][i].request
                   /\ conn'[o][i].kind = conn[o][i].kind
                   /\ conn'[o][i].got = conn[o][i].got \/ conn'[o][i].got = None
  <2>1. CASE o = p
    <3>1. \A i \in 1 .. Len(conn[p]) :
             LET c == [conn[p][i] EXCEPT !.done = FALSE, !.got = None] IN
             c.request = conn[p][i].request /\ c.kind = conn[p][i].kind /\ c.got = None
      BY <1>2 DEF Command
    <3>. QED
      BY <1>3, <1>4, <2>1, <3>1
  <2>2. CASE o # p
    BY <1>3, <2>2
  <2>. QED
    BY <2>1, <2>2
<1>7. CommandInv'
  BY <1>1, <1>6, CommandKept
<1>8. FlightInv' /\ AnswerInv'
  BY <1>1, FlightQuiet, AnswerQuiet
<1>. QED
  BY <1>1, <1>5, <1>7, <1>8 DEF CacheInv, TypeOK

\* The head of a connection is answered: a read goes on, a write settles its load.
LEMMA AnsweredInv ==
  ASSUME CacheInv, NEW p \in Processes, RedisReplies(p) \/ RedisRejects(p)
  PROVE  CacheInv'
<1>. DEFINE c == Head(conn[p])
            r == c.request
<1>1. /\ conn[p] # <<>> /\ conn' = [conn EXCEPT ![p] = Tail(@)] /\ UNCHANGED <<deploy, cache>>
      /\ \/ c.kind = "get" /\ \E entry \in {c.got, None} : ReadAnswered(r, entry)
         \/ c.kind = "set" /\ Settle(r, "served", answer[r])
  BY DEF RedisReplies, RedisRejects
<1>2. c \in Command /\ r \in Requests /\ c.got \in Entry \cup {None} /\ CommandOf(c, p)
  BY <1>1, HeadCommand
<1>3. conn' \in [Processes -> Seq(Command)]
  BY <1>1, HeadType DEF CacheInv
<1>4. TypeOK' /\ FlightInv' /\ AnswerInv'
         /\ \A q \in Requests \ {r} : pc[q] \in Commanded => pc'[q] = pc[q]
  <2>1. CASE c.kind = "get"
    <3>1. PICK entry \in {c.got, None} : ReadAnswered(r, entry)
      BY <1>1, <2>1
    <3>2. entry \in Entry \cup {None} /\ pc[r] = "reading"
      BY <1>2, <2>1 DEF CommandOf
    <3>. QED
      BY <1>1, <1>2, <1>3, <3>1, <3>2, ReadInv DEF CacheInv
  <2>2. CASE c.kind = "set"
    <3>1. pc[r] \in Busy /\ answer[r] \in Answers \cup {None} /\ "served" \in Ended
      BY <1>2, <2>2 DEF CommandOf, Busy, CacheInv, TypeOK, Ended
    <3>2. Settle(r, "served", answer[r])
      BY <1>1, <2>2
    <3>. QED
      BY <1>1, <1>2, <1>3, <3>1, <3>2, SettleInv DEF CacheInv
  <2>. QED
    BY <1>1, <2>1, <2>2
<1>5. CommandInv'
  BY <1>1, <1>4, CommandAnswered
<1>. QED
  BY <1>4, <1>5 DEF CacheInv

LEMMA ExpireInv ==
  ASSUME CacheInv, NEW k \in Keys, Expire(k)
  PROVE  CacheInv'
<1>1. UNCHANGED <<deploy, pc, inFlight, conn, answer>> /\ cache' = [cache EXCEPT ![k] = None]
  BY DEF Expire
<1>2. FlightInv' /\ CommandInv'
  BY <1>1, FlightQuiet, CommandQuiet
<1>. QED
  BY <1>1, <1>2 DEF CacheInv, TypeOK, AnswerInv, Fits

\* A process that restarts takes its loads, commands and waiting requests with it, and
\* with them all that depends on what it was deployed as.
LEMMA RestartInv ==
  ASSUME CacheInv, NEW p \in Processes, NEW d \in Deployments, Restart(p, d)
  PROVE  CacheInv'
<1>1. /\ deploy' = [deploy EXCEPT ![p] = d]
      /\ inFlight' = [inFlight EXCEPT ![p] = [k \in Keys |-> None]]
      /\ conn' = [conn EXCEPT ![p] = <<>>]
      /\ pc' = [r \in Requests |-> IF Process[r] = p /\ pc[r] \in Working THEN "dropped" ELSE pc[r]]
      /\ UNCHANGED <<cache, answer>>
  BY DEF Restart
<1>2. TypeOK'
  BY <1>1, EmptySeq DEF CacheInv, TypeOK, Ended
<1>3. ASSUME NEW r \in Requests
      PROVE  IF Process[r] = p THEN pc'[r] \notin Working
             ELSE pc'[r] = pc[r] /\ deploy'[Process[r]] = deploy[Process[r]] /\ Key(r)' = Key(r)
                     /\ inFlight'[Process[r]] = inFlight[Process[r]]
  <2>1. Process[r] \in Processes
    BY DeploymentAssumption
  <2>2. CASE Process[r] = p
    BY <1>1, <2>2 DEF Working
  <2>3. CASE Process[r] # p
    BY <1>1, <2>1, <2>3 DEF Key, KeyUnder, Scope, CacheInv, TypeOK
  <2>. QED
    BY <2>2, <2>3
<1>4. ASSUME NEW o \in Processes, NEW k \in Keys, inFlight'[o][k] # None
      PROVE  \E r \in Requests :
                inFlight'[o][k] = r /\ Process[r] = o /\ Key(r)' = k /\ pc'[r] \in Busy
  <2>1. o # p /\ inFlight'[o][k] = inFlight[o][k]
    BY <1>1, <1>4 DEF CacheInv, TypeOK
  <2>2. inFlight[o][k] \in Requests
    BY <1>4, <2>1, Leader
  <2>. QED
    BY <1>3, <1>4, <2>1, <2>2 DEF CacheInv, FlightInv
<1>5. FlightInv'
  <2>1. \A r \in Requests : pc'[r] \in Busy \cup {"joined"} => Process[r] # p
    BY <1>3 DEF Busy, Working
  <2>2. \A o \in Processes, k \in Keys : inFlight'[o][k] # None =>
           LET r == inFlight'[o][k] IN Process[r] = o /\ KeyUnder(deploy'[Process[r]], r) = k /\ pc'[r] \in Busy
    BY <1>4 DEF Key, KeyUnder, Scope
  <2>. QED
    BY <1>3, <2>1, <2>2 DEF FlightInv, CacheInv, Key, KeyUnder, Scope
<1>6. CommandInv'
  <2>. SUFFICES ASSUME NEW o \in Processes, NEW i \in 1 .. Len(conn'[o])
                PROVE  /\ CommandOf(conn[o][i], o)'
                       /\ \A j \in 1 .. Len(conn'[o]) :
                             conn'[o][i].request = conn'[o][j].request => i = j
    BY DEF CommandInv
  <2>1. o # p /\ conn'[o] = conn[o]
    BY <1>1 DEF CacheInv, TypeOK
  <2>2. conn[o][i].request \in Requests /\ CommandOf(conn[o][i], o)
    BY <2>1, CommandOfType DEF CacheInv, CommandInv
  <2>3. Key(conn[o][i].request)' = Key(conn[o][i].request)
    BY <1>1, <2>1, <2>2 DEF CommandOf, Key, KeyUnder, Scope, CacheInv, TypeOK
  <2>4. pc'[conn[o][i].request] = pc[conn[o][i].request]
    BY <1>3, <2>1, <2>2 DEF CommandOf
  <2>5. CommandOf(conn[o][i], o)'
    BY <2>1, <2>2, <2>3, <2>4 DEF CommandOf, Fits
  <2>. QED
    BY <2>1, <2>5 DEF CacheInv, CommandInv
<1>7. AnswerInv'
  <2>1. \A r \in Requests : pc'[r] = "writing" => Process[r] # p
    BY <1>3 DEF Working
  <2>. QED
    BY <1>1, <1>3, <2>1 DEF CacheInv, AnswerInv, Fits
<1>. QED
  BY <1>2, <1>5, <1>6, <1>7 DEF CacheInv

-----------------------------------------------------------------------------
(* The theorems.                                                           *)

LEMMA CacheInit == Init => CacheInv
<1>. SUFFICES ASSUME Init PROVE CacheInv
  OBVIOUS
<1>1. TypeOK
  BY EmptySeq DEF Init, TypeOK
<1>2. \A r \in Requests : pc[r] = "new"
  BY DEF Init
<1>3. \A p \in Processes : conn[p] = <<>> /\ \A k \in Keys : inFlight[p][k] = None
  BY DEF Init
<1>. QED
  BY <1>1, <1>2, <1>3 DEF Init, CacheInv, FlightInv, CommandInv, AnswerInv, Busy

LEMMA CacheStep ==
  ASSUME CacheInv, [Next]_vars
  PROVE  CacheInv'
<1>1. CASE UNCHANGED vars
  BY <1>1, FlightQuiet, CommandQuiet, AnswerQuiet DEF vars, CacheInv, TypeOK
<1>2. ASSUME NEW r \in Requests, Arrive(r) \/ Load(r) PROVE CacheInv'
  BY <1>2, ArriveInv, LoadInv
<1>3. ASSUME NEW p \in Processes, Redis(p) PROVE CacheInv'
  BY <1>3, ExecuteInv, AnsweredInv, ReconnectInv DEF Redis
<1>4. ASSUME NEW p \in Processes, NEW d \in Deployments, Restart(p, d) PROVE CacheInv'
  BY <1>4, RestartInv
<1>5. ASSUME NEW k \in Keys, Expire(k) PROVE CacheInv'
  BY <1>5, ExpireInv
<1>. QED
  BY <1>1, <1>2, <1>3, <1>4, <1>5 DEF Next

LEMMA CacheInvariant == Spec => []CacheInv
BY CacheInit, CacheStep, PTL DEF Spec

\* Every reachable state is well typed, for any requests, processes and deployments.
THEOREM TypeCorrect == Spec => []TypeOK
<1>1. CacheInv => TypeOK
  BY DEF CacheInv
<1>. QED
  BY <1>1, CacheInvariant, PTL

\* A process never has two loads of a key at a time, and nobody waits for a load that is
\* over: the map of singleFlight is exact under every interleaving of reads, loads,
\* failures, restarts and repeated commands.
THEOREM OneLoadPerKey == Spec => []SingleFlight
<1>1. ASSUME CacheInv, NEW r \in Requests, inFlight[Process[r]][Key(r)] # None
      PROVE  LET leader == inFlight[Process[r]][Key(r)] IN
             Process[leader] = Process[r] /\ pc[leader] \in Busy
  BY <1>1, KeyType DEF CacheInv, FlightInv
<1>2. CacheInv => SingleFlight
  BY <1>1 DEF CacheInv, FlightInv, SingleFlight, Busy
<1>. QED
  BY <1>2, CacheInvariant, PTL

\* Who shares a load is of the leader's process and key.
LEMMA SharedOutcome ==
  ASSUME CacheInv, NEW q \in Requests, NEW r \in Requests, NEW outcome, NEW value,
         Settle(q, outcome, value), pc'[r] # pc[r]
  PROVE  /\ Process[r] = Process[q] /\ Key(r) = Key(q)
         /\ pc'[r] = outcome /\ answer'[r] = value /\ pc'[q] = outcome
BY DEF Settle, Sharing

\* What a step that ends a request does: it serves what it read, or settles the load it
\* shares.
LEMMA EndingStep ==
  ASSUME CacheInv, [Next]_vars, NEW r \in Requests,
         pc'[r] # pc[r], pc'[r] \in {"served", "failed"}
  PROVE  \/ \E entry \in Entry :
               /\ Fits(entry, Key(r)) /\ entry.answer.shape \in deploy[Process[r]].accepts
               /\ pc'[r] = "served" /\ answer'[r] = entry.answer
         \/ \E q \in Requests :
               /\ Process[r] = Process[q] /\ Key(r) = Key(q) /\ pc'[q] = pc'[r]
               /\ \/ /\ pc'[r] = "served"
                     /\ answer'[r] = Answer(deploy[Process[q]], Question[q])
                  \/ pc'[r] = "failed" /\ pc[q] = "loading"
<1>1. CASE UNCHANGED vars
  BY <1>1 DEF vars
<1>2. ASSUME NEW q \in Requests, JoinOrLoad(q) PROVE FALSE
  BY <1>2 DEF JoinOrLoad, CacheInv, TypeOK
<1>3. ASSUME NEW q \in Requests, Arrive(q) PROVE FALSE
  BY <1>2, <1>3 DEF Arrive, CacheInv, TypeOK
<1>4. ASSUME NEW q \in Requests, Load(q)
      PROVE  /\ Process[r] = Process[q] /\ Key(r) = Key(q) /\ pc'[q] = pc'[r]
             /\ \/ /\ pc'[r] = "served"
                   /\ answer'[r] = Answer(deploy[Process[q]], Question[q])
                \/ pc'[r] = "failed" /\ pc[q] = "loading"
  <2>1. CASE LoadAnswered(q)
    BY <2>1 DEF LoadAnswered, CacheInv, TypeOK
  <2>2. CASE LoadAnsweredUncached(q)
    BY <2>2, SharedOutcome DEF LoadAnsweredUncached
  <2>3. CASE LoadFailed(q)
    BY <2>3, SharedOutcome DEF LoadFailed
  <2>. QED
    BY <1>4, <2>1, <2>2, <2>3 DEF Load
<1>5. ASSUME NEW p \in Processes, RedisReplies(p) \/ RedisRejects(p)
      PROVE  \/ \E entry \in Entry :
                   /\ Fits(entry, Key(r)) /\ entry.answer.shape \in deploy[Process[r]].accepts
                   /\ pc'[r] = "served" /\ answer'[r] = entry.answer
             \/ \E q \in Requests :
                   /\ Process[r] = Process[q] /\ Key(r) = Key(q) /\ pc'[q] = pc'[r]
                   /\ pc'[r] = "served"
                   /\ answer'[r] = Answer(deploy[Process[q]], Question[q])
  <2>. DEFINE c == Head(conn[p])
              q == c.request
  <2>1. /\ conn[p] # <<>>
        /\ \/ c.kind = "get" /\ \E entry \in {c.got, None} : ReadAnswered(q, entry)
           \/ c.kind = "set" /\ Settle(q, "served", answer[q])
    BY <1>5 DEF RedisReplies, RedisRejects
  <2>2. c \in Command /\ q \in Requests /\ c.got \in Entry \cup {None} /\ CommandOf(c, p)
    BY <2>1, HeadCommand
  <2>3. CASE c.kind = "get"
    <3>1. PICK entry \in {c.got, None} : ReadAnswered(q, entry)
      BY <2>1, <2>3
    <3>2. /\ entry # None /\ entry.answer.shape \in deploy[Process[q]].accepts
          /\ pc' = [pc EXCEPT ![q] = "served"]
          /\ answer' = [answer EXCEPT ![q] = entry.answer]
      BY <1>2, <2>2, <3>1 DEF ReadAnswered
    <3>3. q = r
      BY <3>2 DEF CacheInv, TypeOK
    <3>4. entry \in Entry /\ Fits(entry, Key(q))
      BY <2>2, <3>2 DEF CommandOf
    <3>5. pc'[q] = "served" /\ answer'[q] = entry.answer
      BY <2>2, <3>2 DEF CacheInv, TypeOK
    <3>. QED
      BY <3>2, <3>3, <3>4, <3>5
  <2>4. CASE c.kind = "set"
    <3>1. Settle(q, "served", answer[q])
      BY <2>1, <2>4
    <3>2. answer[q] = Answer(deploy[Process[q]], Question[q])
      BY <2>2, <2>4 DEF CommandOf, CacheInv, AnswerInv
    <3>. QED
      BY <2>2, <3>1, <3>2, SharedOutcome
  <2>. QED
    BY <2>1, <2>3, <2>4
<1>6. ASSUME NEW p \in Processes, RedisExecutes(p) \/ Reconnect(p) PROVE FALSE
  BY <1>6 DEF RedisExecutes, Reconnect
<1>7. ASSUME NEW p \in Processes, NEW d \in Deployments, Restart(p, d) PROVE FALSE
  BY <1>7 DEF Restart
<1>8. ASSUME NEW k \in Keys, Expire(k) PROVE FALSE
  BY <1>8 DEF Expire
<1>. QED
  BY <1>1, <1>3, <1>4, <1>5, <1>6, <1>7, <1>8 DEF Next, Redis

\* Whatever deployments share the cache, a request is served an answer to its own
\* question from its own index, under its own relevance settings, in a shape it accepts:
\* every entry fits its key, and every shared load is of the key of those who share it.
THEOREM AnswersAreOwn == Spec => ServedIsOwn
<1>. DEFINE Own(r) ==
        /\ answer'[r].question = Question[r]
        /\ answer'[r].config.index = deploy[Process[r]].config.index
        /\ answer'[r].config.relevance = deploy[Process[r]].config.relevance
        /\ answer'[r].shape \in deploy[Process[r]].accepts
<1>1. ASSUME CacheInv, [Next]_vars, NEW r \in Requests, pc[r] # "served", pc'[r] = "served"
      PROVE  Own(r)
  <2>1. deploy[Process[r]] \in Deployments
    BY <1>1, KeyType DEF CacheInv
  <2>2. deploy[Process[r]].shape \in deploy[Process[r]].accepts
    BY <2>1, DeploymentAssumption
  <2>3. CASE \E entry \in Entry :
                /\ Fits(entry, Key(r)) /\ entry.answer.shape \in deploy[Process[r]].accepts
                /\ pc'[r] = "served" /\ answer'[r] = entry.answer
    BY <2>3 DEF Fits, Key, KeyUnder, Scope
  <2>4. CASE \E q \in Requests :
                /\ Process[r] = Process[q] /\ Key(r) = Key(q)
                /\ answer'[r] = Answer(deploy[Process[q]], Question[q])
    <3>1. PICK q \in Requests : /\ Process[r] = Process[q] /\ Key(r) = Key(q)
                                /\ answer'[r] = Answer(deploy[Process[q]], Question[q])
      BY <2>4
    <3>2. Question[q] = Question[r]
      BY <3>1 DEF Key, KeyUnder
    <3>. QED
      BY <2>2, <3>1, <3>2 DEF Answer
  <2>. QED
    BY <1>1, <2>3, <2>4, EndingStep
<1>2. CacheInv /\ [Next]_vars
        => [\A r \in Requests : pc[r] # "served" /\ pc'[r] = "served" => Own(r)]_vars
  BY <1>1
<1>. QED
  BY <1>2, CacheInvariant, PTL DEF Spec, ServedIsOwn

\* The cache is fail-open: a request fails only with the load it started or joined, at
\* the moment that load fails, whatever Redis does.
THEOREM OnlyLoadsFail == Spec => FailsOnlyWithItsLoad
<1>1. ASSUME CacheInv, [Next]_vars, NEW r \in Requests, pc[r] # "failed", pc'[r] = "failed"
      PROVE  \E q \in Requests : /\ inFlight[Process[r]][Key(r)] = q
                                 /\ pc[q] = "loading" /\ pc'[q] = "failed"
  <2>1. PICK q \in Requests : /\ Process[r] = Process[q] /\ Key(r) = Key(q)
                              /\ pc'[q] = "failed" /\ pc[q] = "loading"
    BY <1>1, EndingStep
  <2>2. inFlight[Process[q]][Key(q)] = q
    BY <1>1, <2>1 DEF CacheInv, FlightInv, Busy
  <2>. QED
    BY <2>1, <2>2
<1>2. CacheInv /\ [Next]_vars
        => [\A r \in Requests : pc[r] # "failed" /\ pc'[r] = "failed"
               => \E q \in Requests : /\ inFlight[Process[r]][Key(r)] = q
                                      /\ pc[q] = "loading" /\ pc'[q] = "failed"]_vars
  BY <1>1
<1>. QED
  BY <1>2, CacheInvariant, PTL DEF Spec, FailsOnlyWithItsLoad

-----------------------------------------------------------------------------
(* Reads that found nothing.                                               *)

Places(p) == 1 .. Len(conn[p])
KeyAt(p, i) == KeyUnder(deploy[p], conn[p][i].request)
FoundNothing(p, i) == conn[p][i].kind = "get" /\ conn[p][i].done /\ conn[p][i].got = None
Written(p, k) == cache[k] # None /\ cache[k].by = p

\* Commands are executed in their order; and if a process has written the entry of a key
\* since a read found none, that write is still awaited, behind the read.
OrderAt(p) ==
    /\ \A i, j \in Places(p) : i < j /\ conn[p][j].done => conn[p][i].done
    /\ \A i \in Places(p) : FoundNothing(p, i) /\ Written(p, KeyAt(p, i)) =>
          \E j \in Places(p) : i < j /\ conn[p][j].kind = "set" /\ KeyAt(p, j) = KeyAt(p, i)

OrderInv == \A p \in Processes : OrderAt(p)

\* No process has written anything new.
NothingWritten == \A p \in Processes, k \in Keys : Written(p, k)' => Written(p, k)

LEMMA KeyAtType ==
  ASSUME CacheInv, NEW p \in Processes, NEW i \in Places(p)
  PROVE  /\ conn[p][i] \in Command /\ Process[conn[p][i].request] = p
         /\ KeyAt(p, i) = Key(conn[p][i].request) /\ KeyAt(p, i) \in Keys
<1>1. conn[p][i] \in Command /\ conn[p][i].request \in Requests
  BY CommandOfType DEF CacheInv, Places
<1>2. Process[conn[p][i].request] = p
  BY DEF CacheInv, CommandInv, CommandOf, Places
<1>. QED
  BY <1>1, <1>2, KeyType DEF CacheInv, KeyAt, Key

\* Places that a step moves down together, none of them marked as done.
LEMMA OrderMoved ==
  ASSUME CacheInv, NEW p \in Processes, OrderAt(p), NEW m \in Nat,
         deploy'[p] = deploy[p], \A k \in Keys : Written(p, k)' => Written(p, k),
         Len(conn'[p]) \in Nat,
         \A i \in 1 .. Len(conn'[p]) :
            \/ i + m \in Places(p) /\ conn'[p][i] = conn[p][i + m]
            \/ i + m = Len(conn[p]) + 1 /\ ~conn'[p][i].done,
         \A i \in Places(p) : i > m => i - m \in 1 .. Len(conn'[p]) /\ conn'[p][i - m] = conn[p][i]
  PROVE  OrderAt(p)'
<1>. Len(conn[p]) \in Nat
  BY LenProperties DEF CacheInv, TypeOK
<1>1. ASSUME NEW i \in 1 .. Len(conn'[p]), NEW j \in 1 .. Len(conn'[p]), i < j, conn'[p][j].done
      PROVE  conn'[p][i].done
  <2>1. j + m \in Places(p) /\ conn'[p][j] = conn[p][j + m]
    BY <1>1
  <2>2. i + m \in Places(p) /\ i + m < j + m
    BY <1>1, <2>1 DEF Places
  <2>3. i + m - m = i /\ i + m > m
    OBVIOUS
  <2>4. conn'[p][i] = conn[p][i + m]
    BY <2>2, <2>3
  <2>. QED
    BY <1>1, <2>1, <2>2, <2>4 DEF OrderAt
<1>2. ASSUME NEW i \in 1 .. Len(conn'[p]), FoundNothing(p, i)', Written(p, KeyAt(p, i))'
      PROVE  \E j \in 1 .. Len(conn'[p]) :
                i < j /\ conn'[p][j].kind = "set" /\ KeyAt(p, j)' = KeyAt(p, i)'
  <2>1. i + m \in Places(p) /\ conn'[p][i] = conn[p][i + m]
    BY <1>2 DEF FoundNothing
  <2>2. KeyAt(p, i)' = KeyAt(p, i + m) /\ KeyAt(p, i + m) \in Keys
    BY <2>1, KeyAtType DEF KeyAt
  <2>3. FoundNothing(p, i + m) /\ Written(p, KeyAt(p, i + m))
    BY <1>2, <2>1, <2>2 DEF FoundNothing, Written
  <2>4. PICK j \in Places(p) : i + m < j /\ conn[p][j].kind = "set" /\ KeyAt(p, j) = KeyAt(p, i + m)
    BY <2>1, <2>3 DEF OrderAt
  <2>5. j > m /\ i < j - m
    BY <2>4 DEF Places
  <2>6. j - m \in 1 .. Len(conn'[p]) /\ conn'[p][j - m] = conn[p][j]
    BY <2>5
  <2>7. KeyAt(p, j - m)' = KeyAt(p, j)
    BY <2>6 DEF KeyAt
  <2>. QED
    BY <2>2, <2>4, <2>5, <2>6, <2>7
<1>. QED
  BY <1>1, <1>2 DEF OrderAt, Places

LEMMA OrderStays ==
  ASSUME CacheInv, NEW p \in Processes, OrderAt(p), deploy'[p] = deploy[p], conn'[p] = conn[p],
         \A k \in Keys : Written(p, k)' => Written(p, k)
  PROVE  OrderAt(p)'
<1>1. Len(conn[p]) \in Nat
  BY LenProperties DEF CacheInv, TypeOK
<1>2. \A i \in Places(p) : i + 0 = i /\ i - 0 = i
  BY DEF Places
<1>. QED
  BY <1>1, <1>2, OrderMoved DEF Places

LEMMA OrderQuiet ==
  ASSUME CacheInv, OrderInv, deploy' = deploy, conn' = conn, NothingWritten
  PROVE  OrderInv'
BY OrderStays DEF OrderInv, NothingWritten

LEMMA OrderSend ==
  ASSUME CacheInv, OrderInv, NEW r \in Requests, NEW kind, Send(r, kind), UNCHANGED <<deploy, cache>>
  PROVE  OrderInv'
<1>. DEFINE c == [request |-> r, kind |-> kind, done |-> FALSE, got |-> None]
            p == Process[r]
<1>1. p \in Processes /\ conn[p] \in Seq(Command)
  BY KeyType DEF CacheInv, TypeOK
<1>2. conn'[p] = Append(conn[p], c) /\ \A o \in Processes \ {p} : conn'[o] = conn[o]
  BY <1>1 DEF Send, CacheInv, TypeOK
<1>3. /\ Len(conn[p]) \in Nat /\ Len(conn'[p]) = Len(conn[p]) + 1
      /\ \A i \in 1 .. Len(conn[p]) : conn'[p][i] = conn[p][i]
      /\ conn'[p][Len(conn[p]) + 1] = c
  <2>. DEFINE S == Command \cup {c}
  <2>1. conn[p] \in Seq(S) /\ c \in S
    BY <1>1
  <2>. HIDE DEF c, S, p
  <2>. QED
    BY <1>2, <2>1, AppendProperties, LenProperties
<1>4. \A k \in Keys, o \in Processes : Written(o, k)' => Written(o, k)
  BY DEF Written
<1>5. OrderAt(p)'
  <2>1. \A i \in Places(p) : i + 0 = i /\ i - 0 = i /\ i \in 1 .. Len(conn'[p])
    BY <1>3 DEF Places
  <2>2. \A i \in 1 .. Len(conn'[p]) :
            /\ i + 0 = i
            /\ \/ i \in Places(p) /\ conn'[p][i] = conn[p][i]
               \/ i = Len(conn[p]) + 1 /\ ~conn'[p][i].done
    BY <1>3 DEF Places
  <2>. HIDE DEF p
  <2>3. \A i \in 1 .. Len(conn'[p]) :
            \/ i + 0 \in Places(p) /\ conn'[p][i] = conn[p][i + 0]
            \/ i + 0 = Len(conn[p]) + 1 /\ ~conn'[p][i].done
    BY <2>2
  <2>4. \A i \in Places(p) : i > 0 => i - 0 \in 1 .. Len(conn'[p]) /\ conn'[p][i - 0] = conn[p][i]
    BY <1>3, <2>1 DEF Places
  <2>5. Len(conn'[p]) \in Nat
    BY <1>3
  <2>. QED
    BY <1>1, <1>4, <2>3, <2>4, <2>5, OrderMoved DEF OrderInv
<1>. QED
  BY <1>2, <1>4, <1>5, OrderStays DEF OrderInv

LEMMA OrderAnswered ==
  ASSUME CacheInv, OrderInv, NEW p \in Processes, conn[p] # <<>>,
         conn' = [conn EXCEPT ![p] = Tail(@)], UNCHANGED <<deploy, cache>>
  PROVE  OrderInv'
<1>1. conn[p] \in Seq(Command)
  BY DEF CacheInv, TypeOK
<1>2. conn'[p] = Tail(conn[p]) /\ \A o \in Processes \ {p} : conn'[o] = conn[o]
  BY DEF CacheInv, TypeOK
<1>3. /\ Len(conn[p]) \in Nat /\ Len(conn'[p]) = Len(conn[p]) - 1 /\ Len(conn'[p]) \in Nat
      /\ \A i \in 1 .. Len(conn'[p]) : conn'[p][i] = conn[p][i + 1]
  <2>1. /\ Len(conn[p]) \in Nat /\ Len(Tail(conn[p])) = Len(conn[p]) - 1
        /\ Tail(conn[p]) \in Seq(Command)
        /\ \A i \in 1 .. Len(Tail(conn[p])) : Tail(conn[p])[i] = conn[p][i + 1]
    BY <1>1, HeadTailProperties, LenProperties
  <2>2. Len(Tail(conn[p])) \in Nat
    BY <2>1, LenProperties
  <2>. QED
    BY <1>2, <2>1, <2>2
<1>4. \A k \in Keys, o \in Processes : Written(o, k)' => Written(o, k)
  BY DEF Written
<1>5. \A i \in 1 .. Len(conn'[p]) : i + 1 \in Places(p) /\ conn'[p][i] = conn[p][i + 1]
  BY <1>3 DEF Places
<1>6. \A i \in Places(p) : i > 1 => i - 1 \in 1 .. Len(conn'[p]) /\ conn'[p][i - 1] = conn[p][i]
  <2>1. \A i \in Places(p) : i > 1 => i - 1 \in 1 .. Len(conn'[p]) /\ i - 1 + 1 = i
    BY <1>3 DEF Places
  <2>. QED
    BY <1>3, <2>1
<1>7. OrderAt(p)'
  BY <1>3, <1>4, <1>5, <1>6, OrderMoved DEF OrderInv
<1>. QED
  BY <1>2, <1>4, <1>7, OrderStays DEF OrderInv


\* Redis executes the oldest command it has not executed: all before it are done, none
\* after it.  A write that is executed now is behind every read that found nothing.
LEMMA OrderExecuted ==
  ASSUME CacheInv, OrderInv, NEW p \in Processes, RedisExecutes(p)
  PROVE  OrderInv'
<1>1. PICK i \in DOMAIN conn[p] :
        /\ ~conn[p][i].done /\ \A j \in 1 .. i - 1 : conn[p][j].done
        /\ LET r == conn[p][i].request IN
           \/ /\ conn[p][i].kind = "get"
              /\ conn' = [conn EXCEPT ![p][i].done = TRUE, ![p][i].got = cache[Key(r)]]
              /\ UNCHANGED cache
           \/ /\ conn[p][i].kind = "set"
              /\ conn' = [conn EXCEPT ![p][i].done = TRUE]
              /\ cache' = [cache EXCEPT ![Key(r)] = [answer |-> answer[r], by |-> p]]
  BY DEF RedisExecutes
<1>2. deploy' = deploy
  BY DEF RedisExecutes
<1>3. conn[p] \in Seq(Command) /\ Len(conn[p]) \in Nat /\ i \in Places(p)
  BY <1>1, LenProperties DEF CacheInv, TypeOK, Places
<1>4. conn[p][i] \in Command /\ KeyAt(p, i) = Key(conn[p][i].request) /\ KeyAt(p, i) \in Keys
  BY <1>3, KeyAtType
<1>5. /\ \A o \in Processes \ {p} : conn'[o] = conn[o]
      /\ Len(conn'[p]) = Len(conn[p])
      /\ \A j \in Places(p) \ {i} : conn'[p][j] = conn[p][j]
      /\ conn'[p][i].request = conn[p][i].request /\ conn'[p][i].kind = conn[p][i].kind
      /\ conn'[p][i].done
      /\ conn[p][i].kind = "get" => conn'[p][i].got = cache[KeyAt(p, i)] /\ cache' = cache
      /\ conn[p][i].kind = "set" =>
            cache' = [cache EXCEPT ![KeyAt(p, i)] =
                         [answer |-> answer[conn[p][i].request], by |-> p]]
  <2>1. conn[p] \in [1 .. Len(conn[p]) -> Command]
    BY <1>3, LenProperties
  <2>2. \E c : /\ conn' = [conn EXCEPT ![p] = [@ EXCEPT ![i] = c]]
               /\ c.request = conn[p][i].request /\ c.kind = conn[p][i].kind /\ c.done
               /\ conn[p][i].kind = "get" => c.got = cache[KeyAt(p, i)] /\ c \in Command
               /\ conn[p][i].kind = "set" => c \in Command
    <3>1. CASE conn[p][i].kind = "get"
      <4>. DEFINE e == [conn[p][i] EXCEPT !.done = TRUE, !.got = cache[KeyAt(p, i)]]
      <4>1. cache[KeyAt(p, i)] \in Entry \cup {None}
        BY <1>4 DEF CacheInv, TypeOK
      <4>2. e \in Command /\ e.request = conn[p][i].request /\ e.kind = conn[p][i].kind
            /\ e.done /\ e.got = cache[KeyAt(p, i)]
        BY <1>4, <4>1 DEF Command
      <4>3. conn' = [conn EXCEPT ![p] = [@ EXCEPT ![i] = e]]
        BY <1>1, <1>4, <3>1
      <4>. QED
        BY <3>1, <4>2, <4>3
    <3>2. CASE conn[p][i].kind = "set"
      <4>. DEFINE e == [conn[p][i] EXCEPT !.done = TRUE]
      <4>1. e \in Command /\ e.request = conn[p][i].request /\ e.kind = conn[p][i].kind /\ e.done
        BY <1>4 DEF Command
      <4>2. conn' = [conn EXCEPT ![p] = [@ EXCEPT ![i] = e]]
        BY <1>1, <3>2
      <4>. QED
        BY <3>2, <4>1, <4>2
    <3>. QED
      BY <1>4, <3>1, <3>2 DEF Command
  <2>3. PICK c \in Command :
           /\ Marked(p, i, c)
           /\ c.request = conn[p][i].request /\ c.kind = conn[p][i].kind /\ c.done
           /\ conn[p][i].kind = "get" => c.got = cache[KeyAt(p, i)]
    BY <1>4, <2>2 DEF Command, Marked
  <2>4. \A o \in Processes :
           /\ Len(conn'[o]) = Len(conn[o])
           /\ \A j \in 1 .. Len(conn[o]) :
                 conn'[o][j] = IF o = p /\ j = i THEN c ELSE conn[o][j]
    BY <1>3, <2>3, MarkType DEF CacheInv, Places
  <2>5. \A o \in Processes \ {p} : conn'[o] = conn[o]
    BY <2>3 DEF Marked, CacheInv, TypeOK
  <2>6. /\ conn[p][i].kind = "get" => cache' = cache
        /\ conn[p][i].kind = "set" =>
              cache' = [cache EXCEPT ![KeyAt(p, i)] =
                           [answer |-> answer[conn[p][i].request], by |-> p]]
    BY <1>1, <1>4
  <2>. QED
    BY <1>3, <2>3, <2>4, <2>5, <2>6 DEF Places
<1>6. \/ conn[p][i].kind = "get" /\ cache' = cache
      \/ /\ conn[p][i].kind = "set"
         /\ \A k \in Keys \ {KeyAt(p, i)} : cache'[k] = cache[k]
         /\ cache'[KeyAt(p, i)].by = p
  <2>1. conn[p][i].kind \in {"get", "set"} /\ cache \in [Keys -> Entry \cup {None}]
    BY <1>4 DEF Command, CacheInv, TypeOK
  <2>. DEFINE k == KeyAt(p, i)
              e == [answer |-> answer[conn[p][i].request], by |-> p]
  <2>2. CASE conn[p][i].kind = "set"
    <3>1. cache' = [cache EXCEPT ![k] = e] /\ k \in Keys /\ e.by = p
      BY <1>4, <1>5, <2>2
    <3>. HIDE DEF k, e
    <3>2. cache'[k] = e /\ \A l \in Keys \ {k} : cache'[l] = cache[l]
      BY <2>1, <3>1
    <3>. QED
      BY <2>2, <3>1, <3>2 DEF k
  <2>. QED
    BY <1>5, <2>1, <2>2
<1>7. /\ \A o \in Processes \ {p}, k \in Keys : Written(o, k)' => Written(o, k)
      /\ \A k \in Keys \ {KeyAt(p, i)} : Written(p, k)' => Written(p, k)
  BY <1>4, <1>6 DEF Written
<1>8. \A j \in Places(p) : KeyAt(p, j)' = KeyAt(p, j)
  BY <1>2, <1>5 DEF KeyAt
<1>9. \A j \in Places(p) : j > i => ~conn[p][j].done
  BY <1>1, <1>3 DEF OrderInv, OrderAt
<1>10. \A j \in Places(p) : j < i => conn'[p][j].done
  BY <1>1, <1>3, <1>5 DEF Places
<1>11. ASSUME NEW j \in Places(p), NEW k \in Places(p), j < k, conn'[p][k].done
       PROVE  conn'[p][j].done
  <2>1. k <= i
    BY <1>3, <1>5, <1>9, <1>11 DEF Places
  <2>. QED
    BY <1>3, <1>10, <1>11, <2>1 DEF Places
<1>12. ASSUME NEW j \in Places(p), FoundNothing(p, j)', Written(p, KeyAt(p, j))'
       PROVE  \E k \in Places(p) :
                 j < k /\ conn'[p][k].kind = "set" /\ KeyAt(p, k)' = KeyAt(p, j)'
  <2>1. KeyAt(p, j)' = KeyAt(p, j) /\ KeyAt(p, j) \in Keys
    BY <1>8, KeyAtType
  <2>2. \A k \in Places(p) : conn'[p][k].kind = conn[p][k].kind
    BY <1>5
  <2>3. CASE j = i
    <3>1. conn[p][i].kind = "get" /\ cache[KeyAt(p, i)] = None /\ cache' = cache
      BY <1>5, <1>12, <2>3 DEF FoundNothing
    <3>. QED
      BY <1>12, <2>1, <2>3, <3>1 DEF Written
  <2>4. CASE j # i
    <3>1. FoundNothing(p, j)
      BY <1>5, <1>12, <2>4 DEF FoundNothing
    <3>2. CASE Written(p, KeyAt(p, j))
      <4>1. PICK k \in Places(p) : j < k /\ conn[p][k].kind = "set" /\ KeyAt(p, k) = KeyAt(p, j)
        BY <3>1, <3>2 DEF OrderInv, OrderAt
      <4>. QED
        BY <1>8, <2>1, <2>2, <4>1
    <3>3. CASE ~Written(p, KeyAt(p, j))
      <4>1. KeyAt(p, j) = KeyAt(p, i)
        BY <1>7, <1>12, <2>1, <3>3
      <4>2. conn[p][i].kind = "set"
        BY <1>4, <1>5, <1>12, <2>1, <3>3 DEF Command, Written
      <4>3. j < i
        BY <1>3, <1>9, <2>4, <3>1 DEF FoundNothing, Places
      <4>. QED
        BY <1>3, <1>8, <2>1, <2>2, <4>1, <4>2, <4>3
    <3>. QED
      BY <3>2, <3>3
  <2>. QED
    BY <2>3, <2>4
<1>13. OrderAt(p)'
  BY <1>5, <1>11, <1>12 DEF OrderAt, Places
<1>. QED
  BY <1>2, <1>5, <1>7, <1>13, OrderStays DEF OrderInv

LEMMA OrderReconnect ==
  ASSUME CacheInv, OrderInv, NEW p \in Processes, Reconnect(p)
  PROVE  OrderInv'
<1>1. /\ UNCHANGED <<deploy, cache>>
      /\ conn' = [conn EXCEPT ![p] =
                     [i \in DOMAIN @ |-> [@[i] EXCEPT !.done = FALSE, !.got = None]]]
  BY DEF Reconnect
<1>2. /\ Len(conn[p]) \in Nat /\ DOMAIN conn[p] = 1 .. Len(conn[p])
      /\ \A i \in 1 .. Len(conn[p]) : conn[p][i] \in Command
  BY LenProperties, CommandOfType DEF CacheInv, TypeOK
<1>3. /\ conn'[p] = [i \in 1 .. Len(conn[p]) |-> [conn[p][i] EXCEPT !.done = FALSE, !.got = None]]
      /\ \A o \in Processes \ {p} : conn'[o] = conn[o]
  BY <1>1, <1>2 DEF CacheInv, TypeOK
<1>4. \A i \in 1 .. Len(conn[p]) : ~conn'[p][i].done
  <2>1. \A i \in 1 .. Len(conn[p]) : ~[conn[p][i] EXCEPT !.done = FALSE, !.got = None].done
    BY <1>2 DEF Command
  <2>. QED
    BY <1>3, <2>1
<1>5. DOMAIN conn'[p] = 1 .. Len(conn[p]) /\ conn'[p] \in Seq(Command)
  <2>1. CacheInv'
    BY ReconnectInv
  <2>. QED
    BY <1>3, <2>1 DEF CacheInv, TypeOK
<1>6. Len(conn'[p]) = Len(conn[p])
  BY <1>2, <1>5, LenProperties
<1>7. OrderAt(p)'
  BY <1>4, <1>6 DEF OrderAt, Places, FoundNothing
<1>. QED
  BY <1>1, <1>3, <1>7, OrderStays DEF OrderInv, Written

LEMMA OrderRestart ==
  ASSUME CacheInv, OrderInv, NEW p \in Processes, NEW d \in Deployments, Restart(p, d)
  PROVE  OrderInv'
<1>1. /\ conn'[p] = <<>> /\ cache' = cache
      /\ \A o \in Processes \ {p} : conn'[o] = conn[o] /\ deploy'[o] = deploy[o]
  BY DEF Restart, CacheInv, TypeOK
<1>2. OrderAt(p)'
  <2>1. Len(conn'[p]) = 0
    BY <1>1, EmptySeq
  <2>. QED
    BY <2>1 DEF OrderAt, Places
<1>. QED
  BY <1>1, <1>2, OrderStays DEF OrderInv, Written

LEMMA OrderInit == Init => OrderInv
<1>1. ASSUME Init, NEW p \in Processes PROVE OrderAt(p)
  <2>1. Len(conn[p]) = 0
    BY <1>1, EmptySeq DEF Init
  <2>. QED
    BY <2>1 DEF OrderAt, Places
<1>. QED
  BY <1>1 DEF OrderInv

LEMMA OrderStep ==
  ASSUME CacheInv, OrderInv, [Next]_vars
  PROVE  OrderInv'
<1>1. CASE UNCHANGED vars
  BY <1>1, OrderQuiet DEF vars, NothingWritten, Written
<1>2. ASSUME NEW r \in Requests, Arrive(r) \/ Load(r) PROVE OrderInv'
  <2>1. /\ UNCHANGED <<deploy, cache>>
        /\ conn' = conn \/ \E kind \in {"get", "set"} : Send(r, kind)
    BY <1>2 DEF Arrive, Load, LoadAnswered, LoadAnsweredUncached, LoadFailed
  <2>. QED
    BY <2>1, OrderQuiet, OrderSend DEF NothingWritten, Written
<1>3. ASSUME NEW p \in Processes, Redis(p) PROVE OrderInv'
  BY <1>3, OrderExecuted, OrderAnswered, OrderReconnect DEF Redis, RedisReplies, RedisRejects
<1>4. ASSUME NEW p \in Processes, NEW d \in Deployments, Restart(p, d) PROVE OrderInv'
  BY <1>4, OrderRestart
<1>5. ASSUME NEW k \in Keys, Expire(k) PROVE OrderInv'
  <2>1. /\ deploy' = deploy /\ conn' = conn /\ cache' = [cache EXCEPT ![k] = None]
        /\ cache \in [Keys -> Entry \cup {None}]
    BY <1>5 DEF Expire, CacheInv, TypeOK
  <2>2. \A l \in Keys : cache'[l] = None \/ cache'[l] = cache[l]
    BY <2>1
  <2>. QED
    BY <2>1, <2>2, OrderQuiet DEF NothingWritten, Written
<1>. QED
  BY <1>1, <1>2, <1>3, <1>4, <1>5 DEF Next

LEMMA OrderInvariant == Spec => []OrderInv
BY OrderInit, OrderStep, CacheInvariant, PTL DEF Spec

\* Which step starts the load of a request that was reading: the answer to its read, with
\* no load of its key in flight.
LEMMA LoadStarts ==
  ASSUME CacheInv, [Next]_vars, NEW r \in Requests, pc[r] = "reading", pc'[r] = "loading"
  PROVE  /\ conn[Process[r]] # <<>> /\ Head(conn[Process[r]]).request = r
         /\ Head(conn[Process[r]]).kind = "get" /\ inFlight[Process[r]][Key(r)] = None
<1>1. ASSUME NEW q \in Requests, JoinOrLoad(q)
      PROVE  q = r /\ inFlight[Process[r]][Key(r)] = None
  BY <1>1 DEF JoinOrLoad, CacheInv, TypeOK
<1>2. ASSUME NEW q \in Requests, NEW outcome \in Ended, NEW value, Settle(q, outcome, value)
      PROVE  FALSE
  BY <1>2 DEF Settle, Ended
<1>3. CASE UNCHANGED vars
  BY <1>3 DEF vars
<1>4. ASSUME NEW q \in Requests, Arrive(q) PROVE FALSE
  BY <1>1, <1>4 DEF Arrive, CacheInv, TypeOK
<1>5. ASSUME NEW q \in Requests, Load(q) PROVE FALSE
  BY <1>2, <1>5 DEF Load, LoadAnswered, LoadAnsweredUncached, LoadFailed, CacheInv, TypeOK, Ended
<1>6. ASSUME NEW p \in Processes, RedisReplies(p) \/ RedisRejects(p)
      PROVE  /\ p = Process[r] /\ conn[p] # <<>> /\ Head(conn[p]).request = r
             /\ Head(conn[p]).kind = "get" /\ inFlight[Process[r]][Key(r)] = None
  <2>. DEFINE c == Head(conn[p])
  <2>1. /\ conn[p] # <<>>
        /\ \/ c.kind = "get" /\ \E entry \in {c.got, None} : ReadAnswered(c.request, entry)
           \/ c.kind = "set" /\ Settle(c.request, "served", answer[c.request])
    BY <1>6 DEF RedisReplies, RedisRejects
  <2>2. c.request \in Requests /\ Process[c.request] = p
    BY <2>1, HeadCommand DEF CommandOf
  <2>3. PICK entry : c.kind = "get" /\ ReadAnswered(c.request, entry)
    BY <1>2, <2>1, <2>2 DEF Ended
  <2>4. JoinOrLoad(c.request)
    BY <2>2, <2>3 DEF ReadAnswered, CacheInv, TypeOK
  <2>. QED
    BY <1>1, <2>1, <2>2, <2>3, <2>4
<1>7. ASSUME NEW p \in Processes, RedisExecutes(p) \/ Reconnect(p) PROVE FALSE
  BY <1>7 DEF RedisExecutes, Reconnect
<1>8. ASSUME NEW p \in Processes, NEW d \in Deployments, Restart(p, d) PROVE FALSE
  BY <1>8 DEF Restart
<1>9. ASSUME NEW k \in Keys, Expire(k) PROVE FALSE
  BY <1>9 DEF Expire
<1>. QED
  BY <1>3, <1>4, <1>5, <1>6, <1>7, <1>8, <1>9 DEF Next, Redis

\* A read that found nothing starts no load of an entry its own process has written
\* meanwhile: the write is still awaited, so its load is in flight and is joined.
THEOREM NothingLoadedTwice == Spec => NoRedundantLoad
<1>. DEFINE Good(r) ==
        LET p == Process[r]
            foundNothing == Head(conn[p]).done /\ Head(conn[p]).got = None
            entryIsThere == /\ cache[Key(r)] # None
                            /\ cache[Key(r)].by = p
                            /\ cache[Key(r)].answer.shape = deploy[p].shape
        IN pc[r] = "reading" /\ pc'[r] = "loading" /\ foundNothing => ~entryIsThere
<1>1. ASSUME CacheInv, OrderInv, [Next]_vars, NEW r \in Requests PROVE Good(r)
  <2>. DEFINE p == Process[r]
  <2>. SUFFICES ASSUME pc[r] = "reading", pc'[r] = "loading",
                       Head(conn[p]).done, Head(conn[p]).got = None,
                       cache[Key(r)] # None, cache[Key(r)].by = p
                PROVE  FALSE
    OBVIOUS
  <2>1. /\ conn[p] # <<>> /\ Head(conn[p]).request = r /\ Head(conn[p]).kind = "get"
        /\ inFlight[p][Key(r)] = None
    BY <1>1, LoadStarts
  <2>2. p \in Processes
    BY <1>1, KeyType DEF CacheInv
  <2>3. Head(conn[p]) = conn[p][1] /\ 1 \in Places(p)
    BY <1>1, <2>1, <2>2, HeadTailProperties DEF CacheInv, TypeOK, Places
  <2>4. KeyAt(p, 1) = Key(r) /\ FoundNothing(p, 1) /\ Written(p, KeyAt(p, 1))
    BY <1>1, <2>1, <2>2, <2>3, KeyAtType DEF FoundNothing, Written
  <2>5. PICK j \in Places(p) : conn[p][j].kind = "set" /\ KeyAt(p, j) = Key(r)
    BY <1>1, <2>2, <2>3, <2>4 DEF OrderInv, OrderAt
  <2>6. /\ conn[p][j].request \in Requests /\ pc[conn[p][j].request] = "writing"
        /\ Process[conn[p][j].request] = p /\ Key(conn[p][j].request) = Key(r)
    BY <1>1, <2>2, <2>5, KeyAtType DEF CacheInv, CommandInv, CommandOf, Places, Command
  <2>7. inFlight[p][Key(r)] # None
    BY <1>1, <2>6, DeploymentAssumption DEF CacheInv, FlightInv, Busy
  <2>. QED
    BY <2>1, <2>7
<1>2. CacheInv /\ OrderInv /\ [Next]_vars => [\A r \in Requests : Good(r)]_vars
  BY <1>1
<1>. QED
  BY <1>2, CacheInvariant, OrderInvariant, PTL DEF Spec, NoRedundantLoad

-----------------------------------------------------------------------------
(* What clients are promised.                                              *)

Known == Stored \cup Unwritten \cup UNION {Fetched(p) : p \in Processes}
Asking == {r \in Requests : pc[r] = "loading"}

LEMMA KnownAnswers ==
  /\ \A k \in Keys : cache[k] # None => cache[k].answer \in Known
  /\ \A p \in Processes : \A i \in DOMAIN conn[p] :
        conn[p][i].got # None => conn[p][i].got.answer \in Known
  /\ \A r \in Requests : pc[r] = "writing" => answer[r] \in Known
BY DEF Known, Stored, Fetched, Unwritten

LEMMA KnownWithin ==
  ASSUME NEW A,
         \A k \in Keys : cache'[k] # None => cache'[k].answer \in A,
         \A p \in Processes : \A i \in DOMAIN conn'[p] :
            conn'[p][i].got # None => conn'[p][i].got.answer \in A,
         \A r \in Requests : pc'[r] = "writing" => answer'[r] \in A
  PROVE  Known' \subseteq A
BY DEF Known, Stored, Fetched, Unwritten

\* A step that sends nothing to write and reads nothing makes nothing known.
LEMMA KnownShrinks ==
  ASSUME \A k \in Keys : cache'[k] # None => cache'[k] = cache[k],
         \A p \in Processes : \A i \in DOMAIN conn'[p] : conn'[p][i].got # None =>
            \E j \in DOMAIN conn[p] : conn'[p][i].got = conn[p][j].got,
         \A r \in Requests : pc'[r] = "writing" => pc[r] = "writing" /\ answer'[r] = answer[r]
  PROVE  Known' \subseteq Known
<1>1. \A k \in Keys : cache'[k] # None => cache'[k].answer \in Known
  BY KnownAnswers
<1>2. \A p \in Processes : \A i \in DOMAIN conn'[p] :
        conn'[p][i].got # None => conn'[p][i].got.answer \in Known
  BY KnownAnswers
<1>3. \A r \in Requests : pc'[r] = "writing" => answer'[r] \in Known
  BY KnownAnswers
<1>. QED
  BY <1>1, <1>2, <1>3, KnownWithin

\* A command is answered: the others keep what they brought.
LEMMA TailGot ==
  ASSUME TypeOK, NEW p \in Processes, conn[p] # <<>>, conn' = [conn EXCEPT ![p] = Tail(@)]
  PROVE  \A q \in Processes : \A i \in DOMAIN conn'[q] : conn'[q][i].got # None =>
            \E j \in DOMAIN conn[q] : conn'[q][i].got = conn[q][j].got
<1>. SUFFICES ASSUME NEW q \in Processes, NEW i \in DOMAIN conn'[q]
              PROVE  \E j \in DOMAIN conn[q] : conn'[q][i] = conn[q][j]
  OBVIOUS
<1>1. conn[q] \in Seq(Command) /\ conn'[q] = IF q = p THEN Tail(conn[q]) ELSE conn[q]
  BY DEF TypeOK
<1>2. CASE q = p
  <2>1. /\ conn'[q] \in Seq(Command) /\ Len(conn'[q]) = Len(conn[q]) - 1
        /\ i \in 1 .. Len(conn'[q])
    BY <1>1, <1>2, HeadTailProperties, LenProperties
  <2>2. i \in 1 .. Len(conn[q]) - 1 /\ conn'[q][i] = conn[q][i + 1]
    BY <1>1, <1>2, <2>1, HeadTailProperties
  <2>3. i + 1 \in DOMAIN conn[q]
    BY <1>1, <2>2, LenProperties
  <2>. QED
    BY <2>2, <2>3
<1>3. CASE q # p
  BY <1>1, <1>3
<1>. QED
  BY <1>2, <1>3

\* A command that is sent has brought nothing yet.
LEMMA SendGot ==
  ASSUME TypeOK, NEW r \in Requests, NEW kind \in {"get", "set"}, Send(r, kind)
  PROVE  \A q \in Processes : \A i \in DOMAIN conn'[q] : conn'[q][i].got # None =>
            \E j \in DOMAIN conn[q] : conn'[q][i].got = conn[q][j].got
<1>. DEFINE c == [request |-> r, kind |-> kind, done |-> FALSE, got |-> None]
<1>. SUFFICES ASSUME NEW q \in Processes, NEW i \in DOMAIN conn'[q], conn'[q][i].got # None
              PROVE  \E j \in DOMAIN conn[q] : conn'[q][i] = conn[q][j]
  OBVIOUS
<1>1. conn[q] \in Seq(Command) /\ c \in Command /\ c.got = None
  BY DEF TypeOK, Command
<1>2. conn'[q] = IF q = Process[r] THEN Append(conn[q], c) ELSE conn[q]
  BY DEF Send, TypeOK
<1>3. CASE q = Process[r]
  <2>. HIDE DEF c
  <2>1. i \in 1 .. Len(conn[q]) + 1
    BY <1>1, <1>2, <1>3, AppendProperties
  <2>2. i # Len(conn[q]) + 1
    BY <1>1, <1>2, <1>3, AppendProperties
  <2>3. i \in DOMAIN conn[q] /\ conn'[q][i] = conn[q][i]
    BY <1>1, <1>2, <1>3, <2>1, <2>2, AppendProperties, LenProperties
  <2>. QED
    BY <2>3
<1>4. CASE q # Process[r]
  BY <1>2, <1>4
<1>. QED
  BY <1>3, <1>4

\* No two that ask the same of one process have it computed.
LEMMA AskedOnce ==
  ASSUME CacheInv, NEW r \in Requests, inFlight[Process[r]][Key(r)] = None, NEW q \in Asking
  PROVE  ~Clients!Alike(q, r)
<1>1. q \in Requests /\ inFlight[Process[q]][Key(q)] = q
  BY DEF Asking, Busy, CacheInv, FlightInv
<1>2. Clients!Alike(q, r) => Key(q) = Key(r)
  BY DEF Clients!Alike, Key, KeyUnder
<1>. QED
  BY <1>1, <1>2, DeploymentAssumption DEF Clients!Alike

\* A request joins a load, or the engine is asked.
LEMMA JoinPromised ==
  ASSUME CacheInv, NEW r \in Requests, JoinOrLoad(r), deploy' = deploy, Known' \subseteq Known
  PROVE  /\ pc[r] = "new" => Clients!Ask(r)
         /\ pc[r] = "reading" => Clients!Start(r) \/ Clients!Forget
<1>. USE DEF CacheInv, TypeOK, Working, Ended
<1>1. /\ pc' \in {[pc EXCEPT ![r] = "joined"], [pc EXCEPT ![r] = "loading"]}
      /\ answer' = answer
  BY DEF JoinOrLoad
<1>2. pc[r] \in {"new", "reading"} => Given' = Given
  BY <1>1 DEF Given
<1>3. pc[r] = "new" => Status[r] = "new" /\ Status' = [Status EXCEPT ![r] = "waiting"]
  BY <1>1 DEF Status
<1>4. pc[r] = "reading" => Status[r] = "waiting" /\ Status' = Status
  BY <1>1 DEF Status
<1>5. CASE pc' = [pc EXCEPT ![r] = "joined"]
  <2>1. pc[r] \in {"new", "reading"} => Asking' = Asking
    BY <1>5 DEF Asking
  <2>. QED
    BY <1>2, <1>3, <1>4, <2>1
    DEF Clients!Ask, Clients!Forget, Clients!Remember, Known, Asking
<1>6. CASE pc' = [pc EXCEPT ![r] = "loading"]
  <2>1. pc'[r] # "joined"
    BY <1>6
  <2>2. inFlight[Process[r]][Key(r)] = None
    BY <2>1 DEF JoinOrLoad
  <2>3. \A q \in Asking : ~Clients!Alike(q, r)
    BY <2>2, AskedOnce
  <2>4. Asking' = Asking \cup {r}
    BY <1>6 DEF Asking
  <2>5. Clients!Starts(r)
    BY <2>3, <2>4 DEF Clients!Starts, Asking
  <2>. QED
    BY <1>2, <1>3, <1>4, <2>5
    DEF Clients!Ask, Clients!Start, Clients!Remember, Clients!Waiting, Known, Asking
<1>. QED
  BY <1>1, <1>5, <1>6

\* A load that is answered serves everyone who shares it, or fails them all.
LEMMA SettlePromised ==
  ASSUME CacheInv, NEW r \in Requests, pc[r] \in Busy, deploy' = deploy, Known' \subseteq Known,
         NEW outcome \in {"served", "failed"}, NEW value, Settle(r, outcome, value),
         \/ outcome = "failed" /\ pc[r] = "loading"
         \/ /\ outcome = "served" /\ value = Answer(deploy[Process[r]], Question[r])
            /\ pc[r] = "loading" \/ value \in Known
  PROVE  Clients!Next
<1>. USE DEF CacheInv, TypeOK, Working, Ended
<1>. DEFINE S == Sharing(r)
<1>1. \A q \in S : /\ q \in Requests /\ Process[q] = Process[r] /\ Key(q) = Key(r)
                   /\ pc[q] = "joined" \/ q = r
  BY DEF Sharing
<1>2. S \in SUBSET {q \in Requests : Clients!Waiting(q)}
  BY <1>1 DEF Clients!Waiting, Status, Busy
<1>3. /\ pc' = [q \in Requests |-> IF q \in S THEN outcome ELSE pc[q]]
      /\ answer' = [q \in Requests |-> IF q \in S THEN value ELSE answer[q]]
  BY DEF Settle
<1>4. r \in S
  BY DEF Sharing
<1>. HIDE DEF S
<1>5. Status' = [q \in Requests |-> IF q \in S THEN outcome ELSE Status[q]]
  BY <1>3 DEF Status
<1>6. Asking' = Asking \ {r} /\ Asking' = Asking \ S
  BY <1>1, <1>3, <1>4 DEF Asking
<1>7. \A q \in S : Clients!Alike(q, r)
  BY <1>1 DEF Clients!Alike, Key, KeyUnder
<1>8. CASE outcome = "failed"
  <2>1. Given' = Given
    BY <1>1, <1>2, <1>3, <1>8 DEF Given, Busy
  <2>2. r \in Asking
    BY <1>8 DEF Asking
  <2>3. Clients!Fail(S, r)
    BY <1>4, <1>5, <1>6, <1>7, <1>8, <2>1, <2>2
    DEF Clients!Fail, Clients!Remember, Known, Asking
  <2>. QED
    BY <1>2, <1>4, <2>3 DEF Clients!Next
<1>9. CASE outcome = "served"
  <2>1. Given' = [q \in Requests |-> IF q \in S THEN value ELSE Given[q]]
    BY <1>3, <1>9 DEF Given
  <2>2. value = Clients!Computed(r) /\ (r \in Asking \/ value \in Known)
    BY <1>9 DEF Clients!Computed, Answer, Asking
  <2>3. deploy[Process[r]] \in Deployments /\ deploy[Process[r]].shape \in deploy[Process[r]].accepts
    BY KeyType, DeploymentAssumption
  <2>4. \A q \in S : Clients!Suits(value, q)
    BY <1>7, <2>2, <2>3 DEF Clients!Suits, Clients!Computed, Clients!Alike
  <2>5. Clients!Serve(S, value)
    BY <1>5, <1>6, <1>9, <2>1, <2>4 DEF Clients!Serve, Clients!Remember, Known, Asking
  <2>. QED
    BY <1>2, <1>4, <2>2, <2>5 DEF Clients!Next, Known, Asking
<1>. QED
  BY <1>8, <1>9

LEMMA ArrivePromised ==
  ASSUME CacheInv, NEW r \in Requests, Arrive(r)
  PROVE  Clients!Next
<1>. USE DEF CacheInv, TypeOK
<1>1. pc[r] = "new" /\ deploy' = deploy /\ cache' = cache
  BY DEF Arrive
<1>2. CASE JoinOrLoad(r) /\ UNCHANGED conn
  <2>1. answer' = answer /\ \A q \in Requests : pc'[q] = "writing" => pc[q] = "writing"
    BY <1>2 DEF JoinOrLoad
  <2>2. Known' \subseteq Known
    BY <1>1, <1>2, <2>1, KnownShrinks
  <2>. QED
    BY <1>1, <1>2, <2>2, JoinPromised DEF Clients!Next
<1>3. CASE Send(r, "get") /\ pc' = [pc EXCEPT ![r] = "reading"] /\ UNCHANGED answer
  <2>1. Known' \subseteq Known
    BY <1>1, <1>3, SendGot, KnownShrinks
  <2>2. Asking' = Asking /\ Given' = Given
    BY <1>1, <1>3 DEF Asking, Given
  <2>3. Status[r] = "new" /\ Status' = [Status EXCEPT ![r] = "waiting"]
    BY <1>1, <1>3 DEF Status, Working
  <2>4. Clients!Ask(r)
    BY <1>1, <2>1, <2>2, <2>3 DEF Clients!Ask, Clients!Remember, Known, Asking
  <2>. QED
    BY <2>4 DEF Clients!Next
<1>. QED
  BY <1>2, <1>3 DEF Arrive

LEMMA LoadPromised ==
  ASSUME CacheInv, NEW r \in Requests, Load(r)
  PROVE  Clients!Next
<1>. USE DEF CacheInv, TypeOK
<1>. DEFINE value == Answer(deploy[Process[r]], Question[r])
<1>1. CASE LoadAnswered(r)
  <2>1. /\ pc[r] = "loading" /\ pc' = [pc EXCEPT ![r] = "writing"]
        /\ answer' = [answer EXCEPT ![r] = value]
        /\ Send(r, "set") /\ UNCHANGED <<deploy, cache>>
    BY <1>1 DEF LoadAnswered
  <2>2. \A p \in Processes : \A i \in DOMAIN conn'[p] :
           conn'[p][i].got # None => conn'[p][i].got.answer \in Known
    BY <2>1, SendGot, KnownAnswers
  <2>3. \A q \in Requests : pc'[q] = "writing" => answer'[q] \in Known \cup {value}
    BY <2>1, KnownAnswers
  <2>4. Known' \subseteq Known \cup {value}
    BY <2>1, <2>2, <2>3, KnownAnswers, KnownWithin
  <2>5. Status' = Status /\ Given' = Given /\ r \in Asking /\ Asking' = Asking \ {r}
    BY <2>1 DEF Status, Given, Asking, Working
  <2>6. Clients!Answered(r)
    BY <2>1, <2>4, <2>5
    DEF Clients!Answered, Clients!Computed, Clients!Remember, Answer, Known, Asking
  <2>. QED
    BY <2>6 DEF Clients!Next
<1>2. ASSUME NEW outcome \in {"served", "failed"}, NEW v, Settle(r, outcome, v),
             UNCHANGED <<conn, cache>>
      PROVE  Known' \subseteq Known
  <2>1. \A q \in Requests : pc'[q] = "writing" => pc[q] = "writing" /\ answer'[q] = answer[q]
    BY <1>2 DEF Settle
  <2>. QED
    BY <1>2, <2>1, KnownShrinks
<1>3. CASE LoadAnsweredUncached(r)
  <2>1. /\ pc[r] = "loading" /\ Settle(r, "served", value)
        /\ UNCHANGED <<deploy, conn, cache>>
    BY <1>3 DEF LoadAnsweredUncached
  <2>. QED
    BY <1>2, <2>1, SettlePromised DEF Busy
<1>4. CASE LoadFailed(r)
  <2>1. pc[r] = "loading" /\ Settle(r, "failed", None) /\ UNCHANGED <<deploy, conn, cache>>
    BY <1>4 DEF LoadFailed
  <2>. QED
    BY <1>2, <2>1, SettlePromised DEF Busy
<1>. QED
  BY <1>1, <1>3, <1>4 DEF Load

LEMMA AnsweredPromised ==
  ASSUME CacheInv, NEW p \in Processes, RedisReplies(p) \/ RedisRejects(p)
  PROVE  Clients!Next
<1>. USE DEF CacheInv, TypeOK
<1>. DEFINE c == Head(conn[p])
            r == c.request
<1>1. /\ conn[p] # <<>> /\ conn' = [conn EXCEPT ![p] = Tail(@)] /\ UNCHANGED <<deploy, cache>>
      /\ \/ c.kind = "get" /\ \E entry \in {c.got, None} : ReadAnswered(r, entry)
         \/ c.kind = "set" /\ Settle(r, "served", answer[r])
  BY DEF RedisReplies, RedisRejects
<1>2. c \in Command /\ r \in Requests /\ c.got \in Entry \cup {None} /\ CommandOf(c, p)
  BY <1>1, HeadCommand
<1>3. /\ c.got # None => c.got.answer \in Known
      /\ \A q \in Processes : \A i \in DOMAIN conn'[q] : conn'[q][i].got # None =>
            \E j \in DOMAIN conn[q] : conn'[q][i].got = conn[q][j].got
  <2>1. c = conn[p][1] /\ 1 \in DOMAIN conn[p]
    BY <1>1, HeadTailProperties, LenProperties
  <2>. QED
    BY <1>1, <2>1, KnownAnswers, TailGot
<1>. HIDE DEF c
<1>4. CASE c.kind = "set" /\ Settle(r, "served", answer[r])
  <2>1. pc[r] = "writing" /\ answer[r] = Answer(deploy[Process[r]], Question[r])
    BY <1>2, <1>4 DEF CommandOf, AnswerInv
  <2>2. answer[r] \in Known
    BY <1>2, <2>1, KnownAnswers
  <2>3. \A q \in Requests : pc'[q] = "writing" => pc[q] = "writing" /\ answer'[q] = answer[q]
    BY <1>4 DEF Settle
  <2>4. Known' \subseteq Known
    BY <1>1, <1>3, <2>3, KnownShrinks
  <2>. QED
    BY <1>1, <1>2, <1>4, <2>1, <2>2, <2>4, SettlePromised DEF Busy
<1>5. ASSUME c.kind = "get", JoinOrLoad(r)
      PROVE  Clients!Next
  <2>1. pc[r] = "reading"
    BY <1>2, <1>5 DEF CommandOf
  <2>2. answer' = answer /\ \A q \in Requests : pc'[q] = "writing" => pc[q] = "writing"
    BY <1>2, <1>5 DEF JoinOrLoad
  <2>3. Known' \subseteq Known
    BY <1>1, <1>3, <2>2, KnownShrinks
  <2>. QED
    BY <1>1, <1>2, <1>5, <2>1, <2>3, JoinPromised DEF Clients!Next
<1>6. ASSUME NEW q \in Requests, NEW a, q = r, a = c.got.answer, c.kind = "get", c.got # None,
             a.shape \in deploy[Process[q]].accepts,
             pc' = [pc EXCEPT ![q] = "served"], answer' = [answer EXCEPT ![q] = a]
      PROVE  Clients!Next
  <2>1. pc[q] = "reading" /\ Fits(c.got, Key(q))
    BY <1>2, <1>6 DEF CommandOf
  <2>2. \A o \in Requests : pc'[o] = "writing" => pc[o] = "writing" /\ answer'[o] = answer[o]
    BY <1>6
  <2>3. Known' \subseteq Known
    BY <1>1, <1>3, <2>2, KnownShrinks
  <2>4. Status' = [o \in Requests |-> IF o \in {q} THEN "served" ELSE Status[o]]
    BY <1>6 DEF Status, Working
  <2>5. Given' = [o \in Requests |-> IF o \in {q} THEN a ELSE Given[o]]
    BY <1>6 DEF Given
  <2>6. Asking' = Asking \ {q}
    BY <1>6, <2>1 DEF Asking
  <2>7. Clients!Suits(a, q)
    BY <1>6, <2>1 DEF Clients!Suits, Fits, Key, KeyUnder, Scope
  <2>8. Clients!Serve({q}, a)
    BY <1>1, <2>3, <2>4, <2>5, <2>6, <2>7 DEF Clients!Serve, Clients!Remember, Known, Asking
  <2>9. {q} \in SUBSET {o \in Requests : Clients!Waiting(o)} /\ a \in Known
    BY <1>3, <1>6, <2>1 DEF Clients!Waiting, Status, Working
  <2>. QED
    BY <2>8, <2>9 DEF Clients!Next, Known
<1>7. CASE c.kind = "get" /\ \E entry \in {c.got, None} : ReadAnswered(r, entry)
  <2>1. PICK q, a : q \in Requests /\ q = r /\ a = c.got.answer
    BY <1>2
  <2>2. CASE JoinOrLoad(r)
    BY <1>5, <1>7, <2>2
  <2>3. CASE /\ c.got # None /\ a.shape \in deploy[Process[q]].accepts
             /\ pc' = [pc EXCEPT ![q] = "served"] /\ answer' = [answer EXCEPT ![q] = a]
    BY <1>6, <1>7, <2>1, <2>3
  <2>. QED
    BY <1>7, <2>1, <2>2, <2>3 DEF ReadAnswered
<1>. QED
  BY <1>1, <1>4, <1>7

LEMMA ExecutePromised ==
  ASSUME CacheInv, NEW p \in Processes, RedisExecutes(p)
  PROVE  Clients!Next
<1>. USE DEF CacheInv, TypeOK
<1>1. PICK i \in DOMAIN conn[p] :
        LET r == conn[p][i].request IN
        \/ /\ conn' = [conn EXCEPT ![p][i].done = TRUE, ![p][i].got = cache[Key(r)]]
           /\ UNCHANGED cache
        \/ /\ conn[p][i].kind = "set"
           /\ conn' = [conn EXCEPT ![p][i].done = TRUE]
           /\ cache' = [cache EXCEPT ![Key(r)] = [answer |-> answer[r], by |-> p]]
  BY DEF RedisExecutes
<1>2. UNCHANGED <<deploy, pc, inFlight, answer>>
  BY DEF RedisExecutes
<1>. DEFINE r == conn[p][i].request
<1>3. i \in 1 .. Len(conn[p]) /\ conn[p] \in Seq(Command)
  BY LenProperties
<1>4. r \in Requests /\ CommandOf(conn[p][i], p) /\ conn[p][i] \in Command
  BY <1>3, CommandOfType DEF CommandInv
<1>5. Key(r) \in Keys
  BY <1>4, KeyType
<1>6. \A k \in Keys : cache'[k] # None => cache'[k].answer \in Known
  BY <1>1, <1>4, <1>5, KnownAnswers DEF CommandOf
<1>7. \A q \in Processes : \A j \in DOMAIN conn'[q] :
        conn'[q][j].got # None => conn'[q][j].got.answer \in Known
  <2>1. \A q \in Processes : DOMAIN conn'[q] = DOMAIN conn[q]
    BY <1>1
  <2>. DEFINE executed == [conn[p][i] EXCEPT !.done = TRUE]
              found == [conn[p][i] EXCEPT !.done = TRUE, !.got = cache[Key(r)]]
  <2>2. PICK c \in {executed, found} : conn' = [conn EXCEPT ![p] = [@ EXCEPT ![i] = c]]
    BY <1>1
  <2>3. c.got \in {conn[p][i].got, cache[Key(r)]}
    BY <1>4, <2>2 DEF Command
  <2>. HIDE DEF executed, found
  <2>4. \A q \in Processes : \A j \in DOMAIN conn[q] :
           conn'[q][j].got \in {conn[q][j].got, cache[Key(r)]}
    BY <1>3, <2>2, <2>3
  <2>. QED
    BY <1>5, <2>1, <2>4, KnownAnswers
<1>8. Known' \subseteq Known
  BY <1>2, <1>6, <1>7, KnownAnswers, KnownWithin
<1>9. Status' = Status /\ Given' = Given /\ Asking' = Asking
  BY <1>2 DEF Status, Given, Asking
<1>. QED
  BY <1>2, <1>8, <1>9 DEF Clients!Next, Clients!Forget, Clients!Remember, Known, Asking

LEMMA ReconnectPromised ==
  ASSUME CacheInv, NEW p \in Processes, Reconnect(p)
  PROVE  Clients!Next
<1>. USE DEF CacheInv, TypeOK
<1>1. /\ conn' = [conn EXCEPT ![p] =
                     [i \in DOMAIN @ |-> [@[i] EXCEPT !.done = FALSE, !.got = None]]]
      /\ UNCHANGED <<deploy, pc, inFlight, cache, answer>>
  BY DEF Reconnect
<1>2. \A i \in DOMAIN conn[p] : conn[p][i] \in Command
  BY LenProperties
<1>3. \A q \in Processes : \A i \in DOMAIN conn'[q] : conn'[q][i].got # None =>
         i \in DOMAIN conn[q] /\ conn'[q][i].got = conn[q][i].got
  BY <1>1, <1>2 DEF Command
<1>4. Known' \subseteq Known
  BY <1>1, <1>3, KnownShrinks
<1>5. Status' = Status /\ Given' = Given /\ Asking' = Asking
  BY <1>1 DEF Status, Given, Asking
<1>. QED
  BY <1>1, <1>4, <1>5 DEF Clients!Next, Clients!Forget, Clients!Remember, Known, Asking

LEMMA ExpirePromised ==
  ASSUME CacheInv, NEW k \in Keys, Expire(k)
  PROVE  Clients!Next
<1>. USE DEF CacheInv, TypeOK
<1>1. cache' = [cache EXCEPT ![k] = None] /\ UNCHANGED <<deploy, pc, inFlight, conn, answer>>
  BY DEF Expire
<1>2. Known' \subseteq Known
  BY <1>1, KnownShrinks
<1>3. Status' = Status /\ Given' = Given /\ Asking' = Asking
  BY <1>1 DEF Status, Given, Asking
<1>. QED
  BY <1>1, <1>2, <1>3 DEF Clients!Next, Clients!Forget, Clients!Remember, Known, Asking

LEMMA RestartPromised ==
  ASSUME CacheInv, NEW p \in Processes, NEW d \in Deployments, Restart(p, d)
  PROVE  Clients!Next
<1>. USE DEF CacheInv, TypeOK, Working, Ended
<1>1. /\ deploy' = [deploy EXCEPT ![p] = d]
      /\ pc' = [r \in Requests |-> IF Process[r] = p /\ pc[r] \in Working
                                   THEN "dropped" ELSE pc[r]]
      /\ conn' = [conn EXCEPT ![p] = <<>>] /\ UNCHANGED <<cache, answer>>
  BY DEF Restart
<1>2. \A q \in Processes : \A i \in DOMAIN conn'[q] : conn'[q][i].got # None =>
         i \in DOMAIN conn[q] /\ conn'[q][i].got = conn[q][i].got
  BY <1>1
<1>3. Known' \subseteq Known
  BY <1>1, <1>2, KnownShrinks
<1>4. \A r \in Requests : Clients!Waiting(r) <=> pc[r] \in Working
  BY DEF Clients!Waiting, Status
<1>. DEFINE dropped == {r \in Requests : Process[r] = p /\ Clients!Waiting(r)}
<1>5. Status' = [r \in Requests |-> IF r \in dropped THEN "dropped" ELSE Status[r]]
  BY <1>1, <1>4 DEF Status
<1>6. Given' = Given /\ Asking' = Asking \ dropped
  BY <1>1, <1>4 DEF Given, Asking
<1>7. Clients!Restart(p, d)
  BY <1>1, <1>3, <1>5, <1>6 DEF Clients!Restart, Clients!Remember, Known, Asking
<1>. QED
  BY <1>7 DEF Clients!Next

LEMMA PromisedInit == Init => Clients!Init
<1>. SUFFICES ASSUME Init PROVE Clients!Init
  OBVIOUS
<1>1. Known = {}
  BY DEF Init, Known, Stored, Unwritten, Fetched
<1>2. Asking = {}
  BY DEF Init, Asking
<1>3. Status = [r \in Requests |-> "new"] /\ Given = [r \in Requests |-> None]
  BY DEF Init, Status, Given, Working
<1>. QED
  BY <1>1, <1>2, <1>3 DEF Init, Clients!Init, Known, Asking

\* The answer cache is not to be told from having none: whatever processes share it,
\* however commands are lost, repeated or rejected and entries expire, every step is to
\* clients one of PromisedAnswers, or none.
THEOREM CacheIsInvisible == Spec => ImplementsPromisedAnswers
<1>1. CacheInv /\ [Next]_vars => [Clients!Next]_<<deploy, Status, Given, Asking, Known>>
  <2>. SUFFICES ASSUME CacheInv, [Next]_vars
                PROVE  Clients!Next \/ UNCHANGED <<deploy, Status, Given, Asking, Known>>
    OBVIOUS
  <2>1. ASSUME NEW r \in Requests, Arrive(r) \/ Load(r) PROVE Clients!Next
    BY <2>1, ArrivePromised, LoadPromised
  <2>2. ASSUME NEW p \in Processes, Redis(p) PROVE Clients!Next
    BY <2>2, ExecutePromised, AnsweredPromised, ReconnectPromised DEF Redis
  <2>3. ASSUME NEW p \in Processes, NEW d \in Deployments, Restart(p, d) PROVE Clients!Next
    BY <2>3, RestartPromised
  <2>4. ASSUME NEW k \in Keys, Expire(k) PROVE Clients!Next
    BY <2>4, ExpirePromised
  <2>5. CASE UNCHANGED vars
    BY <2>5 DEF vars, Status, Given, Asking, Known, Stored, Unwritten, Fetched
  <2>. QED
    BY <2>1, <2>2, <2>3, <2>4, <2>5 DEF Next
<1>. QED
  BY <1>1, PromisedInit, CacheInvariant, PTL
  DEF Spec, ImplementsPromisedAnswers, Clients!Spec, Asking, Known

-----------------------------------------------------------------------------
(* Nobody is stranded.                                                     *)

Awaits(r) ==
    \E i \in 1 .. Len(conn[Process[r]]) :
        /\ conn[Process[r]][i].request = r
        /\ conn[Process[r]][i].kind = IF pc[r] = "reading" THEN "get" ELSE "set"

\* What EveryRequestEnds needs besides fairness: whoever reads or writes has its command
\* among those its own process awaits, and whoever joined waits for a load of its own key
\* that waits for Elasticsearch or has such a command, and for no one who joined.
NobodyStranded ==
    \A r \in Requests :
        /\ pc[r] \in Commanded => Awaits(r)
        /\ pc[r] = "joined" =>
              \E q \in Requests :
                  /\ Process[q] = Process[r] /\ Key(q) = Key(r)
                  /\ pc[q] = "loading" \/ (pc[q] = "writing" /\ Awaits(q))

\* Every wait has a command; CommandInv says of which kind.
WaitInv ==
    \A r \in Requests : pc[r] \in Commanded =>
        \E i \in 1 .. Len(conn[Process[r]]) : conn[Process[r]][i].request = r

LEMMA WaitKept ==
  ASSUME WaitInv,
         \A q \in Requests : pc'[q] \in Commanded => pc[q] \in Commanded,
         \A p \in Processes :
            /\ Len(conn'[p]) = Len(conn[p])
            /\ \A i \in 1 .. Len(conn[p]) : conn'[p][i].request = conn[p][i].request
  PROVE  WaitInv'
BY DeploymentAssumption DEF WaitInv

LEMMA WaitQuiet ==
  ASSUME WaitInv, conn' = conn, \A q \in Requests : pc'[q] \in Commanded => pc[q] \in Commanded
  PROVE  WaitInv'
BY WaitKept

\* The one that starts to wait has the last command.
LEMMA WaitSend ==
  ASSUME CacheInv, WaitInv, NEW r \in Requests, NEW kind \in {"get", "set"}, Send(r, kind),
         \A q \in Requests \ {r} : pc'[q] = pc[q]
  PROVE  WaitInv'
<1>. DEFINE p == Process[r]
            c == [request |-> r, kind |-> kind, done |-> FALSE, got |-> None]
<1>1. p \in Processes /\ c \in Command /\ conn[p] \in Seq(Command)
  BY KeyType DEF CacheInv, Command, TypeOK
<1>2. conn'[p] = Append(conn[p], c) /\ \A o \in Processes \ {p} : conn'[o] = conn[o]
  BY <1>1 DEF Send, CacheInv, TypeOK
<1>3. /\ Len(conn'[p]) = Len(conn[p]) + 1 /\ conn'[p][Len(conn[p]) + 1] = c
      /\ \A i \in 1 .. Len(conn[p]) : conn'[p][i] = conn[p][i]
      /\ Len(conn[p]) \in Nat
  BY <1>1, <1>2, AppendProperties, LenProperties
<1>4. ASSUME NEW q \in Requests, pc'[q] \in Commanded
      PROVE  \E i \in 1 .. Len(conn'[Process[q]]) : conn'[Process[q]][i].request = q
  <2>1. CASE q = r
    <3>1. Len(conn'[p]) \in 1 .. Len(conn'[p]) /\ conn'[p][Len(conn'[p])].request = r
      BY <1>3
    <3>. QED
      BY <2>1, <3>1
  <2>2. CASE q # r
    <3>1. PICK i \in 1 .. Len(conn[Process[q]]) : conn[Process[q]][i].request = q
      BY <1>4, <2>2 DEF WaitInv
    <3>2. Process[q] \in Processes
      BY DeploymentAssumption
    <3>3. CASE Process[q] = p
      <4>1. i \in 1 .. Len(conn'[p]) /\ conn'[p][i] = conn[p][i]
        BY <1>3, <3>1, <3>3
      <4>. QED
        BY <3>1, <3>3, <4>1
    <3>4. CASE Process[q] # p
      BY <1>2, <3>1, <3>2, <3>4
    <3>. QED
      BY <3>3, <3>4
  <2>. QED
    BY <2>1, <2>2
<1>. QED
  BY <1>4 DEF WaitInv

\* The one whose command is answered waits for it no more.
LEMMA WaitAnswered ==
  ASSUME CacheInv, WaitInv, NEW p \in Processes, conn[p] # <<>>,
         conn' = [conn EXCEPT ![p] = Tail(@)],
         \A q \in Requests : pc'[q] \in Commanded =>
            pc[q] \in Commanded /\ q # Head(conn[p]).request
  PROVE  WaitInv'
<1>1. /\ conn[p] \in Seq(Command) /\ Head(conn[p]) = conn[p][1]
      /\ Len(conn'[p]) = Len(conn[p]) - 1 /\ Len(conn[p]) \in Nat
      /\ \A i \in 1 .. Len(conn'[p]) : conn'[p][i] = conn[p][i + 1]
      /\ \A o \in Processes \ {p} : conn'[o] = conn[o]
  BY HeadTailProperties, LenProperties DEF CacheInv, TypeOK
<1>2. ASSUME NEW q \in Requests, pc'[q] \in Commanded
      PROVE  \E i \in 1 .. Len(conn'[Process[q]]) : conn'[Process[q]][i].request = q
  <2>1. PICK i \in 1 .. Len(conn[Process[q]]) : conn[Process[q]][i].request = q
    BY <1>2 DEF WaitInv
  <2>2. Process[q] \in Processes /\ q # conn[p][1].request
    BY <1>1, <1>2, DeploymentAssumption
  <2>3. CASE Process[q] = p
    <3>1. i # 1
      BY <2>1, <2>2, <2>3
    <3>2. i - 1 \in 1 .. Len(conn'[p]) /\ (i - 1) + 1 = i
      BY <1>1, <2>1, <2>3, <3>1
    <3>3. conn'[p][i - 1] = conn[p][i]
      BY <1>1, <3>2
    <3>. QED
      BY <2>1, <2>3, <3>2, <3>3
  <2>4. CASE Process[q] # p
    BY <1>1, <2>1, <2>2, <2>4
  <2>. QED
    BY <2>3, <2>4
<1>. QED
  BY <1>2 DEF WaitInv

LEMMA ArriveWaits ==
  ASSUME CacheInv, WaitInv, NEW r \in Requests, Arrive(r)
  PROVE  WaitInv'
<1>1. CASE Send(r, "get") /\ pc' = [pc EXCEPT ![r] = "reading"]
  <2>1. \A q \in Requests \ {r} : pc'[q] = pc[q]
    BY <1>1 DEF CacheInv, TypeOK
  <2>. QED
    BY <1>1, <2>1, WaitSend
<1>2. CASE JoinOrLoad(r) /\ UNCHANGED conn
  <2>1. \A q \in Requests : pc'[q] \in Commanded => pc[q] \in Commanded
    BY <1>2 DEF JoinOrLoad, CacheInv, TypeOK, Commanded
  <2>. QED
    BY <1>2, <2>1, WaitQuiet
<1>. QED
  BY <1>1, <1>2 DEF Arrive

LEMMA LoadWaits ==
  ASSUME CacheInv, WaitInv, NEW r \in Requests, Load(r)
  PROVE  WaitInv'
<1>1. CASE LoadAnswered(r)
  <2>1. Send(r, "set") /\ \A q \in Requests \ {r} : pc'[q] = pc[q]
    BY <1>1 DEF LoadAnswered, CacheInv, TypeOK
  <2>. QED
    BY <2>1, WaitSend
<1>2. ASSUME NEW outcome \in Ended, NEW value, Settle(r, outcome, value), UNCHANGED conn
      PROVE  WaitInv'
  <2>1. \A q \in Requests : pc'[q] \in Commanded => pc[q] \in Commanded
    BY <1>2 DEF Settle, Ended, Commanded
  <2>. QED
    BY <1>2, <2>1, WaitQuiet
<1>. QED
  BY <1>1, <1>2 DEF Load, LoadAnsweredUncached, LoadFailed, Ended

LEMMA AnsweredWaits ==
  ASSUME CacheInv, WaitInv, NEW p \in Processes, RedisReplies(p) \/ RedisRejects(p)
  PROVE  WaitInv'
<1>. DEFINE c == Head(conn[p])
            r == c.request
<1>1. /\ conn[p] # <<>> /\ conn' = [conn EXCEPT ![p] = Tail(@)]
      /\ \/ \E entry \in {c.got, None} : ReadAnswered(r, entry)
         \/ Settle(r, "served", answer[r])
  BY DEF RedisReplies, RedisRejects
<1>2. r \in Requests
  BY <1>1, HeadCommand
<1>3. CASE \E entry \in {c.got, None} : ReadAnswered(r, entry)
  <2>1. PICK place \in {"served", "joined", "loading"} : pc' = [pc EXCEPT ![r] = place]
    BY <1>3 DEF ReadAnswered, JoinOrLoad
  <2>2. \A q \in Requests : pc'[q] \in Commanded => pc[q] \in Commanded /\ q # r
    BY <1>2, <2>1 DEF CacheInv, TypeOK, Commanded
  <2>. QED
    BY <1>1, <2>2, WaitAnswered
<1>4. CASE Settle(r, "served", answer[r])
  <2>1. \A q \in Requests : pc'[q] \in Commanded => pc[q] \in Commanded /\ q # r
    BY <1>2, <1>4 DEF Settle, Sharing, Commanded
  <2>. QED
    BY <1>1, <2>1, WaitAnswered
<1>. QED
  BY <1>1, <1>3, <1>4

\* Redis marks its commands, done or to be done again.
LEMMA MarkedWaits ==
  ASSUME CacheInv, WaitInv, NEW p \in Processes, RedisExecutes(p) \/ Reconnect(p)
  PROVE  WaitInv'
<1>1. pc' = pc
  BY DEF RedisExecutes, Reconnect
<1>2. conn[p] \in Seq(Command) /\ conn[p] \in [1 .. Len(conn[p]) -> Command]
      /\ DOMAIN conn[p] = 1 .. Len(conn[p]) /\ Len(conn[p]) \in Nat
  BY LenProperties DEF CacheInv, TypeOK
<1>3. \A o \in Processes : /\ Len(conn'[o]) = Len(conn[o])
                           /\ \A i \in 1 .. Len(conn[o]) : conn'[o][i].request = conn[o][i].request
  <2>1. CASE RedisExecutes(p)
    <3>1. PICK i \in 1 .. Len(conn[p]), got \in Entry \cup {None} :
             conn' = [conn EXCEPT ![p][i].done = TRUE, ![p][i].got = got]
      <4>1. PICK i \in 1 .. Len(conn[p]) :
               \/ conn' = [conn EXCEPT ![p][i].done = TRUE, ![p][i].got = cache[Key(conn[p][i].request)]]
               \/ conn' = [conn EXCEPT ![p][i].done = TRUE]
        BY <1>2, <2>1 DEF RedisExecutes
      <4>2. conn[p][i] \in Command /\ conn[p][i].request \in Requests
        BY CommandOfType DEF CacheInv
      <4>3. cache[Key(conn[p][i].request)] \in Entry \cup {None}
        BY <4>2, KeyType DEF CacheInv, TypeOK
      <4>4. CASE conn' = [conn EXCEPT ![p][i].done = TRUE]
        <5>1. conn' = [conn EXCEPT ![p][i].done = TRUE, ![p][i].got = conn[p][i].got]
          BY <1>2, <4>2, <4>4 DEF Command, CacheInv, TypeOK
        <5>. QED
          BY <4>2, <5>1 DEF Command
      <4>. QED
        BY <4>1, <4>3, <4>4
    <3>2. /\ conn'[p] = [conn[p] EXCEPT ![i] = [conn[p][i] EXCEPT !.done = TRUE, !.got = got]]
          /\ \A o \in Processes \ {p} : conn'[o] = conn[o]
      BY <1>2, <3>1 DEF CacheInv, TypeOK
    <3>3. [conn[p][i] EXCEPT !.done = TRUE, !.got = got] \in Command
      BY <1>2 DEF Command
    <3>4. Len(conn'[p]) = Len(conn[p])
      BY <1>2, <3>2, <3>3, ExceptSeq
    <3>5. \A j \in 1 .. Len(conn[p]) : conn'[p][j].request = conn[p][j].request
      BY <1>2, <3>2 DEF Command
    <3>. QED
      BY <3>2, <3>4, <3>5
  <2>2. CASE Reconnect(p)
    <3>1. /\ conn'[p] = [i \in 1 .. Len(conn[p]) |-> [conn[p][i] EXCEPT !.done = FALSE, !.got = None]]
          /\ \A o \in Processes \ {p} : conn'[o] = conn[o]
      BY <1>2, <2>2 DEF Reconnect, CacheInv, TypeOK
    <3>2. Len(conn'[p]) = Len(conn[p])
      <4>1. \A i \in 1 .. Len(conn[p]) : [conn[p][i] EXCEPT !.done = FALSE, !.got = None] \in Command
        BY <1>2 DEF Command
      <4>. DEFINE n == Len(conn[p])
      <4>2. conn'[p] \in [1 .. n -> Command] /\ n \in Nat
        BY <1>2, <3>1, <4>1
      <4>. HIDE DEF n
      <4>3. Len(conn'[p]) = n
        BY <4>2
      <4>. QED
        BY <4>3 DEF n
    <3>3. \A i \in 1 .. Len(conn[p]) : conn'[p][i].request = conn[p][i].request
      <4>1. \A i \in 1 .. Len(conn[p]) :
               LET c == [conn[p][i] EXCEPT !.done = FALSE, !.got = None] IN c.request = conn[p][i].request
        BY <1>2 DEF Command
      <4>. QED
        BY <3>1, <4>1
    <3>. QED
      BY <3>1, <3>2, <3>3
  <2>. QED
    BY <2>1, <2>2
<1>. QED
  BY <1>1, <1>3, WaitKept

LEMMA RestartWaits ==
  ASSUME CacheInv, WaitInv, NEW p \in Processes, NEW d \in Deployments, Restart(p, d)
  PROVE  WaitInv'
<1>1. ASSUME NEW q \in Requests, pc'[q] \in Commanded
      PROVE  pc[q] \in Commanded /\ conn'[Process[q]] = conn[Process[q]]
  <2>1. Process[q] # p /\ pc'[q] = pc[q]
    BY <1>1 DEF Restart, Commanded, Working
  <2>2. conn'[Process[q]] = conn[Process[q]]
    BY <2>1, DeploymentAssumption DEF Restart, CacheInv, TypeOK
  <2>. QED
    BY <1>1, <2>1, <2>2
<1>. QED
  BY <1>1 DEF WaitInv

LEMMA WaitStep == CacheInv /\ WaitInv /\ [Next]_vars => WaitInv'
<1>. SUFFICES ASSUME CacheInv, WaitInv, [Next]_vars PROVE WaitInv'
  OBVIOUS
<1>1. CASE UNCHANGED vars
  BY <1>1, WaitQuiet DEF vars
<1>2. ASSUME NEW r \in Requests, Arrive(r) \/ Load(r) PROVE WaitInv'
  BY <1>2, ArriveWaits, LoadWaits
<1>3. ASSUME NEW p \in Processes, Redis(p) PROVE WaitInv'
  BY <1>3, AnsweredWaits, MarkedWaits DEF Redis
<1>4. ASSUME NEW p \in Processes, NEW d \in Deployments, Restart(p, d) PROVE WaitInv'
  BY <1>4, RestartWaits
<1>5. ASSUME NEW k \in Keys, Expire(k) PROVE WaitInv'
  BY <1>5, WaitQuiet DEF Expire
<1>. QED
  BY <1>1, <1>2, <1>3, <1>4, <1>5 DEF Next

LEMMA WaitsAreKnown ==
  ASSUME CacheInv, WaitInv
  PROVE  NobodyStranded
<1>1. ASSUME NEW r \in Requests, pc[r] \in Commanded
      PROVE  Awaits(r)
  <2>1. PICK i \in 1 .. Len(conn[Process[r]]) : conn[Process[r]][i].request = r
    BY <1>1 DEF WaitInv
  <2>2. Process[r] \in Processes
    BY DeploymentAssumption
  <2>3. conn[Process[r]][i] \in Command /\ CommandOf(conn[Process[r]][i], Process[r])
    BY <2>2, CommandOfType DEF CacheInv, CommandInv
  <2>4. conn[Process[r]][i].kind = IF pc[r] = "reading" THEN "get" ELSE "set"
    BY <1>1, <2>1, <2>3 DEF CommandOf, Command, Commanded
  <2>. QED
    BY <2>1, <2>4 DEF Awaits
<1>2. ASSUME NEW r \in Requests, pc[r] = "joined"
      PROVE  \E q \in Requests :
                  /\ Process[q] = Process[r] /\ Key(q) = Key(r)
                  /\ pc[q] = "loading" \/ (pc[q] = "writing" /\ Awaits(q))
  <2>1. Process[r] \in Processes /\ Key(r) \in Keys
    BY KeyType DEF CacheInv
  <2>2. PICK q : q = inFlight[Process[r]][Key(r)]
    OBVIOUS
  <2>3. q \in Requests /\ Process[q] = Process[r] /\ Key(q) = Key(r) /\ pc[q] \in Busy
    BY <1>2, <2>1, <2>2 DEF CacheInv, FlightInv, TypeOK
  <2>. QED
    BY <1>1, <2>3 DEF Busy, Commanded
<1>. QED
  BY <1>1, <1>2 DEF NobodyStranded

\* Nobody waits for a command that was never sent or already answered, or for a load that
\* is over, whatever Redis and restarts do (singleFlight, readThrough, writeThrough).
THEOREM NobodyIsStranded == Spec => []NobodyStranded
<1>1. Init => WaitInv
  BY DEF Init, WaitInv, Commanded
<1>. QED
  BY CacheInvariant, <1>1, WaitStep, WaitsAreKnown, PTL DEF Spec

=============================================================================
