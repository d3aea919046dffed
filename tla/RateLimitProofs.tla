----------------------------- MODULE RateLimitProofs -----------------------------
(***************************************************************************)
(* The limiter of RateLimit keeps its promises for any requests, instances, *)
(* budgets and lengths of time, whatever Redis does.                       *)
(*                                                                         *)
(* A window leaves no trace in the code once it has elapsed, so the        *)
(* invariant asserts that the history of every counter can be divided into *)
(* windows: o[i] is the place of the hit that opened the window of hit i,  *)
(* and e[i], for a hit that opened one, how often Redis had then lost its  *)
(* memory.                                                                 *)
(***************************************************************************)
EXTENDS RateLimit, FunctionTheorems, FiniteSetTheorems, TLAPS

Epoch(c) == IF c = "redis" THEN losses ELSE 0
Places(c) == 1 .. Len(log[c])
Client(c, i) == Bucket(log[c][i].request)
When(c, i) == log[c][i].at
Ends(c, o, i) == When(c, o[i]) + WindowMs

\* The hits of the window of hit i, up to hit i.
Span(c, o, i) == {j \in 1 .. i : Client(c, j) = Client(c, i) /\ o[j] = o[i]}

(* Hits are in the order of time and within their windows; the windows of  *)
(* a client follow each other, those of one epoch at their full length.    *)
PlacePast(c, o, e, i) ==
    /\ o[i] \in 1 .. i /\ o[o[i]] = o[i] /\ Client(c, o[i]) = Client(c, i)
    /\ e[i] \in 0 .. Epoch(c)
    /\ When(c, i) <= now
    /\ When(c, i) <= Ends(c, o, i)

PairPast(c, o, e, i, j) ==
    /\ When(c, i) <= When(c, j)
    /\ Client(c, i) = Client(c, j) =>
         /\ o[j] = o[i] \/ o[j] > i
         /\ i # j /\ o[i] = i /\ o[j] = j /\ e[i] = e[j] => When(c, i) + WindowMs <= When(c, j)

Past(c, o, e) ==
    /\ \A i \in Places(c) : PlacePast(c, o, e, i)
    /\ \A i, j \in Places(c) : i <= j => PairPast(c, o, e, i, j)

(* An open window is that of the last hit of its client, and no window of  *)
(* this epoch lasts longer.                                                *)
Last(c, b, i) ==
    /\ i \in Places(c) /\ Client(c, i) = b
    /\ \A j \in Places(c) : Client(c, j) = b => j <= i

IsOpen(c, o, b) ==
    window[c][b] # None =>
        \E i \in Places(c) : /\ Last(c, b, i)
                             /\ window[c][b].expiresAt = Ends(c, o, i)
                             /\ window[c][b].count = Cardinality(Span(c, o, i))

IsOver(c, o, e, b) ==
    \A i \in Places(c) :
        Client(c, i) = b /\ o[i] = i /\ e[i] = Epoch(c) =>
            \/ When(c, i) + WindowMs <= now
            \/ window[c][b] # None /\ When(c, i) + WindowMs <= window[c][b].expiresAt

Current(c, o, e) == \A b \in Buckets : IsOpen(c, o, b) /\ IsOver(c, o, e, b)

(* What was told of a hit: its rank in its window, and the time left of it. *)
Counted(c, o, r, counted) ==
    /\ counted.hit \in Places(c) /\ log[c][counted.hit].request = r
    /\ counted.totalHits = Cardinality(Span(c, o, counted.hit))
    /\ counted.timeToExpireMs = Ends(c, o, counted.hit) - When(c, counted.hit)

ResultsTold(c, o) ==
    c = "redis" => \A r \in Requests : result[r] # None => Counted(c, o, r, result[r])

VerdictsTold(c, o) ==
    \A r \in Requests : verdict[r] # None /\ verdict[r].by = c =>
        \E counted \in Results : Counted(c, o, r, counted) /\ verdict[r] = VerdictOn(r, c, counted)

Book(c, o, e) == Past(c, o, e) /\ Current(c, o, e) /\ ResultsTold(c, o) /\ VerdictsTold(c, o)

BookInv == \A c \in Counters : \E o \in [Nat -> Nat], e \in [Nat -> Nat] : Book(c, o, e)

(* Only what was asked is counted, and only what is exempt goes uncounted. *)
AskInv ==
    /\ \A p \in Instances : \A i \in DOMAIN conn[p] : ask[conn[p][i]] # None
    /\ \A c \in Counters : \A i \in Places(c) : ask[log[c][i].request] # None
    /\ \A r \in Requests : verdict[r] # None =>
         /\ ask[r] # None
         /\ verdict[r].by \in Counters
              \/ (verdict[r].by = None /\ ~Limited(ask[r]) /\ verdict[r].outcome # "refused")

(* A window that has elapsed before the last sweep was taken by it.        *)
SweepInv ==
    \A p \in Instances :
        /\ lastSweep[p] <= now
        /\ \A b \in Buckets : window[p][b] # None => window[p][b].expiresAt > lastSweep[p]

Inv == TypeOK /\ losses \in Nat /\ AskInv /\ SweepInv /\ BookInv

-----------------------------------------------------------------------------
(* Types.                                                                  *)

LEMMA Constants ==
    /\ {WindowMs, SweepMs, SweepSize, Second} \subseteq Nat \ {0}
    /\ None \notin Asks /\ None \notin Instances /\ "redis" \notin Instances
    /\ None \notin Counters
    /\ "redis" \in Counters /\ Instances \subseteq Counters
BY BudgetAssumption DEF Counters

LEMMA LimitTyped ==
  ASSUME NEW r \in Requests, ask[r] \in Asks
  PROVE  Limit(r) \in Nat \ {0} /\ Bucket(r) \in Buckets
<1>1. DOMAIN ask[r] = {"route", "key", "address"}
  BY BudgetAssumption
<1>2. Limits["default"] \in Nat \ {0} /\ \A route \in DOMAIN Limits : Limits[route] \in Nat \ {0}
  BY BudgetAssumption
<1>. QED
  BY <1>2 DEF Limit, Bucket, Buckets

LEMMA SecondsRounded ==
  ASSUME NEW ms \in Nat
  PROVE  SecondsLeft(ms) \in Nat /\ SecondsLeft(ms) * Second >= ms
<1>1. Second \in Nat \ {0}
  BY Constants
<1>2. \A a \in Nat, b \in Nat \ {0} : a \div b \in Nat /\ (a \div b) * b + b > a
  OBVIOUS
<1>. DEFINE a == ms + Second - 1
             k == a \div Second
<1>3. a \in Nat /\ k \in Nat /\ k * Second + Second > a
  BY <1>1, <1>2
<1>4. k * Second \in Nat
  BY <1>1, <1>3
<1>5. k * Second >= ms
  BY <1>1, <1>3, <1>4
<1>. QED
  BY <1>3, <1>5 DEF SecondsLeft

LEMMA VerdictTyped ==
  ASSUME NEW r, NEW c \in Counters, NEW counted \in Results
  PROVE  VerdictOn(r, c, counted) \in Verdicts
<1>1. SecondsLeft(counted.timeToExpireMs) \in Nat
  BY SecondsRounded DEF Results
<1>2. counted.hit \in Nat
  BY DEF Results
<1>. QED
  BY <1>1, <1>2 DEF VerdictOn, Verdicts, Outcomes, Passed

-----------------------------------------------------------------------------
(* The place a hit takes in the history of its counter.                    *)

NextPlace(c) == Len(log[c]) + 1

LEMMA Grown ==
  ASSUME TypeOK, NEW c \in Counters, NEW r \in Requests, UNCHANGED ask, Logged(r, c),
         NEW n, n = NextPlace(c)
  PROVE  /\ n \in Nat \ {0} /\ Places(c) = 1 .. n - 1
         /\ Places(c)' = Places(c) \cup {n}
         /\ \A i \in Places(c) : /\ Client(c, i)' = Client(c, i) /\ When(c, i)' = When(c, i)
                                 /\ When(c, i) \in Nat
                                 /\ log'[c][i] = log[c][i]
         /\ Client(c, n)' = Bucket(r)
         /\ When(c, n)' = now
         /\ log'[c][n] = [request |-> r, at |-> now]
<1>. DEFINE h == [request |-> r, at |-> now]
            H == [request : Requests, at : Nat]
<1>1. log[c] \in Seq(H) /\ h \in H /\ DOMAIN log = Counters
  BY DEF TypeOK
<1>2. log'[c] = Append(log[c], h)
  BY <1>1 DEF Logged
<1>. HIDE DEF h, H
<1>3. Len(log[c]) \in Nat /\ n = Len(log[c]) + 1 /\ Len(log'[c]) = n
  BY <1>1, <1>2 DEF NextPlace
<1>4. \A i \in 1 .. Len(log[c]) : log'[c][i] = log[c][i] /\ log[c][i] \in H
  BY <1>1, <1>2
<1>5. log'[c][n] = h
  BY <1>1, <1>2, <1>3
<1>6. Places(c)' = Places(c) \cup {n} /\ n \in Nat \ {0} /\ Places(c) = 1 .. n - 1
  BY <1>3 DEF Places
<1>7. \A i \in Places(c) : /\ Client(c, i)' = Client(c, i) /\ When(c, i)' = When(c, i)
                           /\ When(c, i) \in Nat
  BY <1>4 DEF H, Places, Client, When, Bucket
<1>8. Client(c, n)' = Bucket(r) /\ When(c, n)' = now
  BY <1>5 DEF h, Client, When, Bucket
<1>. QED
  BY <1>4, <1>5, <1>6, <1>7, <1>8 DEF h, Places

LEMMA SpanFinite ==
  ASSUME NEW c, NEW o, NEW i \in Nat
  PROVE  IsFiniteSet(Span(c, o, i)) /\ Cardinality(Span(c, o, i)) \in Nat
BY FS_Interval, FS_Subset, FS_CardinalityType, 1 \in Int, i \in Int DEF Span

LEMMA UpTo ==
  ASSUME NEW n \in Nat \ {0}
  PROVE  /\ n \in Nat /\ n \in 1 .. n /\ (1 .. n - 1) \cup {n} = 1 .. n
         /\ \A i \in 1 .. n - 1 : i \in Nat /\ i < n /\ i # n /\ 1 .. i \subseteq 1 .. n - 1
OBVIOUS

(* A hit joins the window that begins at place k, or opens one (k = n).    *)
Opens(c, o, e, r) ==
    \A i \in Places(c) : Client(c, i) = Bucket(r) /\ o[i] = i /\ e[i] = Epoch(c)
        => When(c, i) + WindowMs <= now
Joins(c, o, r, k) ==
    \E i \in Places(c) : Last(c, Bucket(r), i) /\ k = o[i] /\ now <= When(c, k) + WindowMs

LEMMA Divided ==
  ASSUME TypeOK, losses \in Nat, NEW c \in Counters, NEW r \in Requests,
         UNCHANGED <<ask, now, losses>>, Logged(r, c),
         NEW o \in [Nat -> Nat], NEW e \in [Nat -> Nat], Past(c, o, e),
         NEW k \in Nat, NEW n, n = NextPlace(c),
         (k = n /\ Opens(c, o, e, r)) \/ Joins(c, o, r, k),
         NEW o2, o2 = [o EXCEPT ![n] = k], NEW e2, e2 = [e EXCEPT ![n] = Epoch(c)]
  PROVE  o2 \in [Nat -> Nat] /\ e2 \in [Nat -> Nat] /\ Past(c, o2, e2)'
<1>. DEFINE b == Bucket(r)
<1>1. /\ n \in Nat \ {0} /\ Places(c)' = Places(c) \cup {n} /\ Places(c) = 1 .. n - 1
      /\ \A i \in Places(c) : Client(c, i)' = Client(c, i) /\ When(c, i)' = When(c, i)
                              /\ When(c, i) \in Nat
      /\ Client(c, n)' = b /\ When(c, n)' = now
  BY Grown
<1>0. /\ n \in Nat /\ n \in 1 .. n
      /\ \A i \in Places(c) : i \in Nat /\ i < n /\ 1 .. i \subseteq Places(c)
  BY <1>1, UpTo
<1>2. Epoch(c) \in Nat /\ Epoch(c)' = Epoch(c) /\ now \in Nat /\ now' = now /\ WindowMs \in Nat \ {0}
  BY Constants DEF Epoch, TypeOK
<1>3. o2 \in [Nat -> Nat] /\ e2 \in [Nat -> Nat]
  BY <1>0, <1>2
<1>4. /\ o2[n] = k /\ e2[n] = Epoch(c)
      /\ \A i \in Places(c) : o2[i] = o[i] /\ e2[i] = e[i]
  BY <1>0
<1>5. \A i \in Places(c) : /\ o[i] \in Places(c) /\ o[i] \in 1 .. i /\ o[o[i]] = o[i]
                           /\ Client(c, o[i]) = Client(c, i)
                           /\ e[i] \in 0 .. Epoch(c) /\ When(c, i) <= now
                           /\ When(c, i) <= When(c, o[i]) + WindowMs
  BY <1>0 DEF Past, PlacePast, Ends
<1>6. \/ k = n
      \/ k \in Places(c) /\ o[k] = k /\ Client(c, k) = b /\ now <= When(c, k) + WindowMs
  BY <1>5 DEF Joins, Last
<1>. HIDE DEF b
<1>7. \A i \in Places(c)' : PlacePast(c, o2, e2, i)'
  <2>1. ASSUME NEW i \in Places(c) PROVE PlacePast(c, o2, e2, i)'
    <3>1. When(c, i)' = When(c, i) /\ When(c, o[i])' = When(c, o[i])
          /\ Client(c, i)' = Client(c, i) /\ Client(c, o[i])' = Client(c, o[i])
      BY <2>1, <1>1, <1>5
    <3>2. o2[i] = o[i] /\ o2[o[i]] = o[i] /\ e2[i] = e[i]
      BY <2>1, <1>4, <1>5
    <3>. QED
      BY <2>1, <3>1, <3>2, <1>2, <1>5 DEF PlacePast, Ends
  <2>2. PlacePast(c, o2, e2, n)'
    <3>1. k \in 1 .. n /\ o2[k] = k /\ Client(c, k)' = b /\ now <= When(c, k)' + WindowMs
      <4>1. CASE k = n
        <5>1. now <= now + WindowMs
          BY <1>2
        <5>. QED
          BY <4>1, <5>1, <1>0, <1>1, <1>4
      <4>2. CASE k \in Places(c) /\ o[k] = k /\ Client(c, k) = b /\ now <= When(c, k) + WindowMs
        <5>1. k \in 1 .. n
          BY <4>2, <1>1
        <5>. QED
          BY <4>2, <5>1, <1>1, <1>4
      <4>. QED
        BY <4>1, <4>2, <1>6
    <3>. QED
      BY <3>1, <1>1, <1>2, <1>4 DEF PlacePast, Ends
  <2>. QED
    BY <1>1, <2>1, <2>2
<1>8. \A i, j \in Places(c)' : i <= j => PairPast(c, o2, e2, i, j)'
  <2>1. ASSUME NEW i \in Places(c), NEW j \in Places(c), i <= j PROVE PairPast(c, o2, e2, i, j)'
    <3>1. PairPast(c, o, e, i, j)
      BY <2>1 DEF Past
    <3>2. /\ Client(c, i)' = Client(c, i) /\ Client(c, j)' = Client(c, j)
          /\ When(c, i)' = When(c, i) /\ When(c, j)' = When(c, j) /\ WindowMs' = WindowMs
      BY <2>1, <1>1
    <3>3. o2[i] = o[i] /\ o2[j] = o[j] /\ e2[i] = e[i] /\ e2[j] = e[j]
      BY <2>1, <1>4
    <3>. QED
      BY <3>1, <3>2, <3>3 DEF PairPast
  <2>2. ASSUME NEW i \in Places(c) PROVE PairPast(c, o2, e2, i, n)'
    <3>1. When(c, i)' <= When(c, n)'
      BY <2>2, <1>1, <1>5
    <3>2. ASSUME Client(c, i) = b PROVE o2[n] = o2[i] \/ o2[n] > i
      <4>1. CASE k = n
        BY <4>1, <1>0, <1>4
      <4>2. ASSUME NEW l \in Places(c), Last(c, b, l), k = o[l] PROVE o2[n] = o2[i] \/ o2[n] > i
        <5>1. i <= l /\ Client(c, l) = b
          BY <3>2, <4>2 DEF Last
        <5>2. o[l] = o[i] \/ o[l] > i
          BY <5>1, <3>2 DEF Past, PairPast
        <5>. QED
          BY <5>2, <4>2, <1>4
      <4>. QED
        BY <4>1, <4>2 DEF Joins, b
    <3>3. ASSUME Client(c, i) = b, o2[i] = i, o2[n] = n, e2[i] = e2[n]
          PROVE  When(c, i) + WindowMs <= now
      <4>1. k = n
        BY <3>3, <1>4
      <4>2. k \notin Places(c)
        BY <4>1, <1>0
      <4>3. \A l \in Places(c) : k # o[l]
        BY <4>2, <1>5
      <4>. QED
        BY <3>3, <4>3, <1>4 DEF Joins, Opens, b
    <3>. QED
      <4>1. Client(c, i)' = Client(c, i) /\ When(c, i)' = When(c, i)
            /\ Client(c, n)' = b /\ When(c, n)' = now
        BY <2>2, <1>1
      <4>. QED
        BY <3>1, <3>2, <3>3, <4>1 DEF PairPast
  <2>3. PairPast(c, o2, e2, n, n)'
    BY <1>1, <1>2 DEF PairPast
  <2>4. \A i \in Places(c) : ~(n <= i)
    BY <1>0
  <2>5. Places(c)' = Places(c) \cup {n}
    BY <1>1
  <2>. QED
    BY <2>1, <2>2, <2>3, <2>4, <2>5
<1>. QED
  BY <1>3, <1>7, <1>8 DEF Past

(* A hit on window w: one more of it, or the first of a new one.           *)
HitOn(c, r, w) ==
    LET old == window[c][Bucket(r)] IN
    \/ w = Opened /\ (old = None \/ old.expiresAt <= now)
    \/ w = [old EXCEPT !.count = @ + 1] /\ old # None /\ now <= old.expiresAt

\* Windows only go when they are over.
OthersKept(c, b) ==
    \A a \in Buckets \ {b} :
        \/ window'[c][a] = window[c][a]
        \/ window'[c][a] = None /\ window[c][a].expiresAt <= now

\* The new place in the history, and what it leaves of the old ones.
Placed(c, o, e, o2, e2, n, b) ==
    /\ Places(c) = 1 .. n - 1 /\ Places(c)' = 1 .. n /\ n \in Nat \ {0}
    /\ \A i \in Places(c) : /\ Client(c, i)' = Client(c, i) /\ When(c, i)' = When(c, i)
                            /\ When(c, i) \in Nat
                            /\ o2[i] = o[i] /\ e2[i] = e[i]
    /\ Client(c, n)' = b /\ When(c, n)' = now /\ now' = now /\ Epoch(c)' = Epoch(c)
    /\ now \in Nat /\ WindowMs \in Nat

LEMMA SpanKept ==
  ASSUME NEW c, NEW o, NEW e, NEW o2, NEW e2, NEW n, NEW b, Placed(c, o, e, o2, e2, n, b),
         NEW i \in Places(c)
  PROVE  Span(c, o2, i)' = Span(c, o, i)
<1>1. 1 .. i \subseteq Places(c) /\ i \in 1 .. i
  BY DEF Placed
<1>2. \A j \in 1 .. i : Client(c, j)' = Client(c, j) /\ o2[j] = o[j]
  BY <1>1 DEF Placed
<1>. QED
  BY <1>1, <1>2 DEF Span

LEMMA OthersCurrent ==
  ASSUME NEW c, NEW o, NEW e, NEW o2, NEW e2, NEW n, NEW b, Placed(c, o, e, o2, e2, n, b),
         OthersKept(c, b), NEW a \in Buckets \ {b}, IsOpen(c, o, a), IsOver(c, o, e, a),
         window[c][a] \in Windows \cup {None}, \A i \in Places(c) : o[i] \in Places(c)
  PROVE  IsOpen(c, o2, a)' /\ IsOver(c, o2, e2, a)'
<1>1. Places(c)' = Places(c) \cup {n}
  BY DEF Placed
<1>2. \A i \in Places(c)' : Client(c, i)' = a => i \in Places(c)
  BY <1>1 DEF Placed
<1>3. IsOpen(c, o2, a)'
  <2>. SUFFICES ASSUME window'[c][a] # None PROVE IsOpen(c, o2, a)'
    BY DEF IsOpen
  <2>1. window'[c][a] = window[c][a]
    BY DEF OthersKept
  <2>2. PICK i \in Places(c) : /\ Last(c, a, i)
                               /\ window[c][a].expiresAt = Ends(c, o, i)
                               /\ window[c][a].count = Cardinality(Span(c, o, i))
    BY <2>1 DEF IsOpen
  <2>3. Last(c, a, i)'
    BY <2>2, <1>1, <1>2 DEF Last, Placed
  <2>4. Ends(c, o2, i)' = Ends(c, o, i)
    BY DEF Ends, Placed
  <2>5. Span(c, o2, i)' = Span(c, o, i)
    BY SpanKept
  <2>. QED
    BY <2>1, <2>2, <2>3, <2>4, <2>5, <1>1 DEF IsOpen
<1>4. IsOver(c, o2, e2, a)'
  <2>. SUFFICES ASSUME NEW i \in Places(c), Client(c, i) = a, o[i] = i, e[i] = Epoch(c)
                PROVE  \/ When(c, i) + WindowMs <= now
                       \/ window'[c][a] # None /\ When(c, i) + WindowMs <= window'[c][a].expiresAt
    BY <1>2 DEF IsOver, Placed
  <2>. DEFINE ends == When(c, i) + WindowMs
  <2>1. ends <= now \/ (window[c][a] # None /\ ends <= window[c][a].expiresAt)
    BY DEF IsOver
  <2>2. ends \in Nat /\ now \in Nat
    BY DEF Placed
  <2>. HIDE DEF ends
  <2>3. CASE window'[c][a] = window[c][a]
    BY <2>1, <2>3 DEF ends
  <2>4. CASE window[c][a].expiresAt <= now
    <3>1. window[c][a] # None => window[c][a].expiresAt \in Nat
      BY DEF Windows
    <3>. QED
      BY <2>1, <2>2, <2>4, <3>1 DEF ends
  <2>. QED
    BY <2>3, <2>4 DEF OthersKept
<1>. QED
  BY <1>3, <1>4

(* The window of the last hit is the one it counts in.                     *)
LEMMA OwnCurrent ==
  ASSUME NEW c, NEW o, NEW e, NEW o2, NEW e2, NEW n, NEW b, Placed(c, o, e, o2, e2, n, b),
         NEW w \in Windows, window'[c][b] = w,
         w.expiresAt = Ends(c, o2, n)', w.count = Cardinality(Span(c, o2, n))',
         \A i \in Places(c) : Client(c, i) = b /\ o[i] = i /\ e[i] = Epoch(c)
            => When(c, i) + WindowMs <= now \/ When(c, i) + WindowMs <= w.expiresAt
  PROVE  IsOpen(c, o2, b)' /\ IsOver(c, o2, e2, b)'
<1>1. Places(c)' = Places(c) \cup {n} /\ n \in Places(c)'
  BY DEF Placed
<1>2. w # None
  BY NoneAssumption
<1>3. IsOpen(c, o2, b)'
  <2>1. Last(c, b, n)'
    BY DEF Last, Placed
  <2>. QED
    BY <2>1, <1>1 DEF IsOpen
<1>4. IsOver(c, o2, e2, b)'
  <2>. SUFFICES ASSUME NEW i \in Places(c)', Client(c, i)' = b, o2[i] = i, e2[i] = Epoch(c)
                PROVE  \/ When(c, i)' + WindowMs <= now
                       \/ When(c, i)' + WindowMs <= w.expiresAt
    BY <1>2 DEF IsOver, Placed
  <2>1. CASE i = n
    BY <2>1 DEF Ends, Placed, Windows
  <2>2. CASE i \in Places(c)
    BY <2>2 DEF Placed
  <2>. QED
    BY <1>1, <2>1, <2>2
<1>. QED
  BY <1>3, <1>4

(* A first hit has its window for itself.                                  *)
LEMMA SpanOpened ==
  ASSUME NEW c, NEW o, NEW e, NEW o2, NEW e2, NEW n, NEW b, Placed(c, o, e, o2, e2, n, b),
         \A i \in Places(c) : o[i] \in Places(c), o2[n] = n
  PROVE  Cardinality(Span(c, o2, n))' = 1
<1>1. n \in 1 .. n /\ \A j \in 1 .. n : j = n \/ j \in Places(c)
  BY DEF Placed
<1>2. \A j \in Places(c) : o2[j] # n
  <2>1. n \notin Places(c)
    BY DEF Placed
  <2>. QED
    BY <2>1 DEF Placed
<1>3. Span(c, o2, n)' = {n}
  BY <1>1, <1>2 DEF Span
<1>. QED
  BY <1>3, FS_Singleton

(* Another hit is one more than the last one.                              *)
LEMMA SpanGrown ==
  ASSUME NEW c, NEW o, NEW e, NEW o2, NEW e2, NEW n, NEW b, Placed(c, o, e, o2, e2, n, b),
         NEW i, Last(c, b, i), o2[n] = o[i]
  PROVE  Cardinality(Span(c, o2, n))' = Cardinality(Span(c, o, i)) + 1
<1>1. i \in Nat /\ i \in Places(c) /\ n \notin Places(c)
  BY DEF Last, Placed
<1>2. \A j \in 1 .. n : j = n \/ j \in Places(c)
  BY DEF Placed
<1>3. \A j \in Places(c) : Client(c, j) = b => j \in 1 .. i
  BY DEF Last, Placed
<1>4. 1 .. i \subseteq Places(c) /\ 1 .. i \subseteq 1 .. n /\ n \in 1 .. n
  BY <1>1 DEF Placed
<1>5. Client(c, i) = b /\ Client(c, n)' = b
  BY DEF Last, Placed
<1>6. \A j \in Places(c) : Client(c, j)' = Client(c, j) /\ o2[j] = o[j]
  BY DEF Placed
<1>7. Span(c, o2, n)' = Span(c, o, i) \cup {n}
  BY <1>1, <1>2, <1>3, <1>4, <1>5, <1>6 DEF Span
<1>8. n \notin Span(c, o, i)
  BY <1>1, <1>4 DEF Span
<1>9. IsFiniteSet(Span(c, o, i))
  BY <1>1, SpanFinite
<1>. QED
  BY <1>7, <1>8, <1>9, FS_AddElement

LEMMA Recorded ==
  ASSUME TypeOK, losses \in Nat, NEW c \in Counters, NEW r \in Requests, ask[r] # None,
         UNCHANGED <<ask, now, losses>>, Logged(r, c),
         NEW o \in [Nat -> Nat], NEW e \in [Nat -> Nat], Past(c, o, e), Current(c, o, e),
         NEW w \in Windows, HitOn(c, r, w), window'[c][Bucket(r)] = w, OthersKept(c, Bucket(r)),
         NEW counted, counted = Count(c, w)
  PROVE  \E o2 \in [Nat -> Nat], e2 \in [Nat -> Nat] :
             /\ Past(c, o2, e2)' /\ Current(c, o2, e2)'
             /\ \A i \in Places(c) : o2[i] = o[i]
             /\ Counted(c, o2, r, counted)'
<1>0. PICK n, b : n = NextPlace(c) /\ b = Bucket(r)
  OBVIOUS
<1>. DEFINE old == window[c][b]
<1>1. /\ n \in Nat \ {0} /\ Places(c)' = Places(c) \cup {n} /\ Places(c) = 1 .. n - 1
      /\ \A i \in Places(c) : Client(c, i)' = Client(c, i) /\ When(c, i)' = When(c, i)
                              /\ When(c, i) \in Nat
      /\ Client(c, n)' = b /\ When(c, n)' = now
      /\ log'[c][n] = [request |-> r, at |-> now]
  BY <1>0, Grown
<1>2. ask[r] \in Asks /\ b \in Buckets
  BY <1>0, LimitTyped DEF TypeOK
<1>3. IsOpen(c, o, b) /\ IsOver(c, o, e, b)
  BY <1>2 DEF Current
<1>4. \A i \in Places(c) : o[i] \in Places(c) /\ When(c, i) \in Nat
  <2>1. \A i \in 1 .. n - 1 : \A j \in 1 .. i : j \in 1 .. n - 1
    BY <1>1
  <2>. QED
    BY <1>1, <2>1 DEF Past, PlacePast
<1>5. now \in Nat /\ WindowMs \in Nat \ {0} /\ old \in Windows \cup {None}
  BY <1>2, Constants DEF TypeOK
<1>. DEFINE Ended == \A i \in Places(c) : Client(c, i) = b /\ o[i] = i /\ e[i] = Epoch(c)
                => When(c, i) + WindowMs <= now \/ When(c, i) + WindowMs <= w.expiresAt
            Fits(k) == /\ w.expiresAt = (IF k = n THEN now ELSE When(c, k)) + WindowMs
                       /\ \/ k = n /\ Opens(c, o, e, r) /\ w.count = 1
                          \/ \E i \in Places(c) : /\ Last(c, b, i) /\ k = o[i] /\ k # n
                                                  /\ now <= When(c, k) + WindowMs
                                                  /\ w.count = Cardinality(Span(c, o, i)) + 1
<1>6. ASSUME w = Opened, old = None \/ old.expiresAt <= now PROVE Fits(n) /\ Ended
  <2>1. Opens(c, o, e, r)
    <3>. SUFFICES ASSUME NEW i \in Places(c), Client(c, i) = b, o[i] = i, e[i] = Epoch(c)
                  PROVE  When(c, i) + WindowMs <= now
      BY <1>0 DEF Opens
    <3>. DEFINE ends == When(c, i) + WindowMs
    <3>1. ends \in Nat
      BY <1>4, <1>5
    <3>2. ends <= now \/ (old # None /\ ends <= old.expiresAt)
      BY <1>3 DEF IsOver
    <3>3. old # None => old.expiresAt \in Nat /\ old.expiresAt <= now
      BY <1>5, <1>6 DEF Windows
    <3>. HIDE DEF ends, old
    <3>. QED
      BY <3>1, <3>2, <3>3, <1>5 DEF ends
  <2>2. Fits(n)
    BY <1>0, <1>6, <2>1 DEF Opened
  <2>3. Ended
    BY <1>0, <2>1 DEF Opens
  <2>. QED
    BY <2>2, <2>3
<1>7. ASSUME w = [old EXCEPT !.count = @ + 1], old # None, now <= old.expiresAt
      PROVE  Ended /\ \E k \in Places(c) : Fits(k)
  <2>1. PICK i \in Places(c) : /\ Last(c, b, i)
                               /\ old.expiresAt = Ends(c, o, i)
                               /\ old.count = Cardinality(Span(c, o, i))
    BY <1>3, <1>7 DEF IsOpen
  <2>2. w.expiresAt = old.expiresAt /\ w.count = old.count + 1
    BY <1>5, <1>7 DEF Windows
  <2>3. o[i] \in Places(c) /\ n \notin Places(c)
    BY <1>1, <1>4
  <2>4. Fits(o[i])
    BY <2>1, <2>2, <2>3, <1>7 DEF Ends
  <2>5. Ended
    BY <2>2, <1>3 DEF IsOver
  <2>. QED
    BY <2>3, <2>4, <2>5
<1>8. Ended /\ \E k \in Nat : Fits(k)
  <2>1. CASE w = Opened /\ (old = None \/ old.expiresAt <= now)
    BY <2>1, <1>6, <1>1
  <2>2. CASE w = [old EXCEPT !.count = @ + 1] /\ old # None /\ now <= old.expiresAt
    <3>1. Places(c) \subseteq Nat
      BY <1>1, UpTo
    <3>. HIDE DEF Ended, Fits, old
    <3>. QED
      BY <2>2, <3>1, <1>7 DEF old
  <2>. QED
    BY <1>0, <2>1, <2>2 DEF HitOn
<1>9. PICK k \in Nat : Fits(k)
  BY <1>8
<1>10. PICK o2, e2 : o2 = [o EXCEPT ![n] = k] /\ e2 = [e EXCEPT ![n] = Epoch(c)]
  OBVIOUS
<1>11. (k = n /\ Opens(c, o, e, r)) \/ Joins(c, o, r, k)
  BY <1>0, <1>9 DEF Joins
<1>12. o2 \in [Nat -> Nat] /\ e2 \in [Nat -> Nat] /\ Past(c, o2, e2)'
  BY <1>0, <1>10, <1>11, Divided
<1>13. Placed(c, o, e, o2, e2, n, b)
  <2>1. \A i \in Places(c) : i \in Nat /\ i # n
    BY <1>1, UpTo
  <2>2. \A i \in Places(c) : o2[i] = o[i] /\ e2[i] = e[i]
    BY <2>1, <1>10
  <2>3. Places(c)' = 1 .. n
    BY <1>1, UpTo
  <2>4. Epoch(c)' = Epoch(c) /\ now' = now
    BY DEF Epoch
  <2>. HIDE DEF old
  <2>. QED
    BY <1>1, <1>4, <1>5, <2>2, <2>3, <2>4 DEF Placed
<1>14. o2[n] = k
  BY <1>1, <1>10
<1>15. w.expiresAt = Ends(c, o2, n)'
  <2>1. CASE k = n
    BY <2>1, <1>9, <1>13, <1>14 DEF Ends, Placed
  <2>2. CASE k # n
    <3>1. k \in Places(c)
      BY <2>2, <1>9, <1>4
    <3>. QED
      BY <3>1, <2>2, <1>9, <1>13, <1>14 DEF Ends, Placed
  <2>. QED
    BY <2>1, <2>2
<1>16. w.count = Cardinality(Span(c, o2, n))'
  <2>1. CASE k = n
    BY <2>1, <1>4, <1>9, <1>13, <1>14, SpanOpened
  <2>2. ASSUME NEW i \in Places(c), Last(c, b, i), k = o[i]
        PROVE  Cardinality(Span(c, o2, n))' = Cardinality(Span(c, o, i)) + 1
    BY <2>2, <1>13, <1>14, SpanGrown
  <2>. QED
    BY <2>1, <2>2, <1>9
<1>. HIDE DEF old
<1>17. IsOpen(c, o2, b)' /\ IsOver(c, o2, e2, b)'
  <2>1. window'[c][b] = w
    BY <1>0
  <2>. QED
    BY <2>1, <1>8, <1>13, <1>15, <1>16, OwnCurrent
<1>18. ASSUME NEW a \in Buckets \ {b} PROVE IsOpen(c, o2, a)' /\ IsOver(c, o2, e2, a)'
  <2>1. IsOpen(c, o, a) /\ IsOver(c, o, e, a)
    BY DEF Current
  <2>2. window[c][a] \in Windows \cup {None}
    BY DEF TypeOK
  <2>. QED
    BY <2>1, <2>2, <1>4, <1>13, <1>18, <1>0, OthersCurrent
<1>19. Current(c, o2, e2)'
  <2>1. \A a \in Buckets : IsOpen(c, o2, a)' /\ IsOver(c, o2, e2, a)'
    BY <1>17, <1>18
  <2>. QED
    BY <2>1 DEF Current
<1>20. Counted(c, o2, r, counted)'
  <2>1. counted.totalHits = w.count /\ counted.timeToExpireMs = w.expiresAt - now /\ counted.hit = n
    BY <1>0 DEF Count, NextPlace
  <2>2. n \in Places(c)' /\ When(c, n)' = now /\ log'[c][n].request = r
    BY <1>1
  <2>. QED
    BY <2>1, <2>2, <1>15, <1>16 DEF Counted
<1>. QED
  BY <1>12, <1>13, <1>19, <1>20 DEF Placed

-----------------------------------------------------------------------------
(* What has been counted stays as it was counted.                          *)

AskGrows == \A q \in Requests : ask[q] # None => ask'[q] = ask[q]

Prolongs(c, o, o2) ==
    /\ Places(c) \subseteq Places(c)'
    /\ \A i \in Places(c) : /\ o[i] \in Places(c) /\ 1 .. i \subseteq Places(c) /\ o2[i] = o[i]
                            /\ Client(c, i)' = Client(c, i) /\ When(c, i)' = When(c, i)
                            /\ log'[c][i] = log[c][i]

LEMMA PlacesKept ==
  ASSUME TypeOK, AskInv, AskGrows, NEW c \in Counters, log'[c] = log[c]
  PROVE  /\ Places(c)' = Places(c)
         /\ \A i \in Places(c) : /\ Client(c, i)' = Client(c, i) /\ When(c, i)' = When(c, i)
                                 /\ When(c, i) \in Nat /\ i \in Nat /\ 1 .. i \subseteq Places(c)
<1>. DEFINE H == [request : Requests, at : Nat]
<1>1. log[c] \in Seq(H)
  BY DEF TypeOK
<1>2. Len(log[c]) \in Nat /\ Places(c)' = Places(c)
  BY <1>1 DEF Places
<1>3. ASSUME NEW i \in Places(c)
      PROVE  Client(c, i)' = Client(c, i) /\ When(c, i)' = When(c, i) /\ When(c, i) \in Nat
  <2>. HIDE DEF H
  <2>0. log[c][i] \in H
    BY <1>1 DEF Places
  <2>1. log[c][i].request \in Requests /\ log[c][i].at \in Nat
    BY <2>0 DEF H
  <2>2. ask'[log[c][i].request] = ask[log[c][i].request]
    BY <2>1 DEF AskInv, AskGrows
  <2>. QED
    BY <2>1, <2>2 DEF Client, When, Bucket
<1>4. \A i \in Places(c) : i \in Nat /\ 1 .. i \subseteq Places(c)
  BY <1>2 DEF Places
<1>. QED
  BY <1>2, <1>3, <1>4

LEMMA PlacesTyped ==
  ASSUME TypeOK, NEW c \in Counters
  PROVE  Places(c) \subseteq Nat \ {0}
<1>1. Len(log[c]) \in Nat
  BY DEF TypeOK
<1>. QED
  BY <1>1 DEF Places

LEMMA PastKept ==
  ASSUME TypeOK, AskInv, AskGrows, NEW c \in Counters, log'[c] = log[c],
         now' \in Nat, now <= now', Epoch(c) \in Nat, Epoch(c)' \in Nat, Epoch(c) <= Epoch(c)',
         NEW o \in [Nat -> Nat], NEW e \in [Nat -> Nat], Past(c, o, e)
  PROVE  Past(c, o, e)' /\ Prolongs(c, o, o)
<1>1. /\ Places(c)' = Places(c)
      /\ \A i \in Places(c) : /\ Client(c, i)' = Client(c, i) /\ When(c, i)' = When(c, i)
                              /\ When(c, i) \in Nat /\ i \in Nat /\ 1 .. i \subseteq Places(c)
  BY PlacesKept
<1>2. \A i \in Places(c) : o[i] \in Places(c)
  BY <1>1 DEF Past, PlacePast
<1>3. ASSUME NEW i \in Places(c) PROVE PlacePast(c, o, e, i)'
  <2>1. PlacePast(c, o, e, i)
    BY DEF Past
  <2>2. now \in Nat
    BY DEF TypeOK
  <2>3. /\ Client(c, i)' = Client(c, i) /\ When(c, i)' = When(c, i) /\ When(c, i) \in Nat
        /\ Client(c, o[i])' = Client(c, o[i]) /\ When(c, o[i])' = When(c, o[i])
    BY <1>1, <1>2
  <2>. QED
    BY <2>1, <2>2, <2>3 DEF PlacePast, Ends
<1>4. ASSUME NEW i \in Places(c), NEW j \in Places(c), i <= j PROVE PairPast(c, o, e, i, j)'
  <2>1. PairPast(c, o, e, i, j)
    BY <1>4 DEF Past
  <2>2. /\ Client(c, i)' = Client(c, i) /\ When(c, i)' = When(c, i)
        /\ Client(c, j)' = Client(c, j) /\ When(c, j)' = When(c, j)
    BY <1>1
  <2>. QED
    BY <2>1, <2>2 DEF PairPast
<1>5. Past(c, o, e)'
  BY <1>1, <1>3, <1>4 DEF Past
<1>6. log' = log' /\ \A i : log'[c][i] = log[c][i]
  OBVIOUS
<1>. QED
  BY <1>1, <1>2, <1>5, <1>6 DEF Prolongs

LEMMA SpanProlonged ==
  ASSUME NEW c, NEW o, NEW o2, Prolongs(c, o, o2), NEW i \in Places(c), i \in 1 .. i
  PROVE  Span(c, o2, i)' = Span(c, o, i)
BY DEF Span, Prolongs

LEMMA CountedKept ==
  ASSUME NEW c, NEW o, NEW o2, Prolongs(c, o, o2), NEW r, NEW counted, Counted(c, o, r, counted),
         Places(c) \subseteq Nat \ {0}
  PROVE  Counted(c, o2, r, counted)'
<1>. DEFINE n == counted.hit
<1>1. n \in Places(c) /\ n \in 1 .. n
  BY DEF Counted
<1>2. Span(c, o2, n)' = Span(c, o, n)
  BY <1>1, SpanProlonged
<1>3. /\ n \in Places(c)' /\ o2[n] = o[n] /\ o[n] \in Places(c)
      /\ When(c, n)' = When(c, n) /\ When(c, o[n])' = When(c, o[n])
      /\ log'[c][n] = log[c][n]
  BY <1>1 DEF Prolongs
<1>. QED
  BY <1>2, <1>3 DEF Counted, Ends

LEMMA CurrentKept ==
  ASSUME TypeOK, AskInv, AskGrows, NEW c \in Counters, log'[c] = log[c], window'[c] = window[c],
         now' \in Nat, now <= now', Epoch(c)' = Epoch(c),
         NEW o \in [Nat -> Nat], NEW e \in [Nat -> Nat], Past(c, o, e), Current(c, o, e)
  PROVE  Current(c, o, e)'
<1>1. /\ Places(c)' = Places(c)
      /\ \A i \in Places(c) : /\ Client(c, i)' = Client(c, i) /\ When(c, i)' = When(c, i)
                              /\ When(c, i) \in Nat /\ i \in Nat /\ 1 .. i \subseteq Places(c)
  BY PlacesKept
<1>2. \A i \in Places(c) : o[i] \in Places(c)
  BY <1>1 DEF Past, PlacePast
<1>3. ASSUME NEW b \in Buckets PROVE IsOpen(c, o, b)'
  <2>. SUFFICES ASSUME window[c][b] # None PROVE IsOpen(c, o, b)'
    BY DEF IsOpen
  <2>1. PICK i \in Places(c) : /\ Last(c, b, i)
                               /\ window[c][b].expiresAt = Ends(c, o, i)
                               /\ window[c][b].count = Cardinality(Span(c, o, i))
    BY DEF Current, IsOpen
  <2>2. Last(c, b, i)'
    BY <2>1, <1>1 DEF Last
  <2>3. Ends(c, o, i)' = Ends(c, o, i)
    BY <1>1, <1>2 DEF Ends
  <2>4. Span(c, o, i)' = Span(c, o, i)
    BY <1>1 DEF Span
  <2>. QED
    BY <2>1, <2>2, <2>3, <2>4, <1>1 DEF IsOpen
<1>4. ASSUME NEW b \in Buckets PROVE IsOver(c, o, e, b)'
  <2>. SUFFICES ASSUME NEW i \in Places(c), Client(c, i) = b, o[i] = i, e[i] = Epoch(c)
                PROVE  \/ When(c, i) + WindowMs <= now'
                       \/ window[c][b] # None /\ When(c, i) + WindowMs <= window[c][b].expiresAt
    BY <1>1 DEF IsOver
  <2>1. When(c, i) + WindowMs \in Nat /\ now \in Nat
    <3>1. WindowMs \in Nat /\ now \in Nat
      BY Constants DEF TypeOK
    <3>2. When(c, i) \in Nat
      BY <1>1
    <3>. QED
      BY <3>1, <3>2
  <2>2. \/ When(c, i) + WindowMs <= now
        \/ window[c][b] # None /\ When(c, i) + WindowMs <= window[c][b].expiresAt
    BY DEF Current, IsOver
  <2>. QED
    BY <2>1, <2>2
<1>. QED
  BY <1>3, <1>4 DEF Current

LEMMA VerdictKept ==
  ASSUME NEW q, ask'[q] = ask[q], NEW c, NEW counted
  PROVE  VerdictOn(q, c, counted)' = VerdictOn(q, c, counted)
BY DEF VerdictOn, OverBudget, Limit, SecondsLeft, Passed

ResultsFrom(c, o2) ==
    c = "redis" => \A q \in Requests :
        \/ result'[q] \in {None, result[q]}
        \/ \E counted : result'[q] = counted /\ Counted(c, o2, q, counted)'

VerdictsFrom(c, o2) ==
    \A q \in Requests : verdict'[q] # None /\ verdict'[q].by = c =>
        \/ verdict'[q] = verdict[q]
        \/ /\ ask'[q] = ask[q]
           /\ \E counted \in Results :
                 Counted(c, o2, q, counted)' /\ verdict'[q] = VerdictOn(q, c, counted)

LEMMA ToldKept ==
  ASSUME AskInv, AskGrows, NEW c, NEW o, NEW o2, Prolongs(c, o, o2),
         Places(c) \subseteq Nat \ {0}, ResultsTold(c, o), VerdictsTold(c, o),
         ResultsFrom(c, o2), VerdictsFrom(c, o2)
  PROVE  ResultsTold(c, o2)' /\ VerdictsTold(c, o2)'
<1>1. ASSUME c = "redis", NEW q \in Requests, result'[q] # None
      PROVE  \E counted : result'[q] = counted /\ Counted(c, o2, q, counted)'
  <2>1. CASE result'[q] = result[q]
    <3>1. PICK counted : counted = result[q]
      OBVIOUS
    <3>2. Counted(c, o, q, counted)
      BY <1>1, <2>1, <3>1 DEF ResultsTold
    <3>3. Counted(c, o2, q, counted)'
      BY <3>2, CountedKept
    <3>. QED
      BY <2>1, <3>1, <3>3
  <2>. QED
    BY <1>1, <2>1 DEF ResultsFrom
<1>2. ASSUME NEW q \in Requests, verdict'[q] # None, verdict'[q].by = c
      PROVE  \E counted \in Results : /\ Counted(c, o2, q, counted)'
                                      /\ verdict'[q] = VerdictOn(q, c, counted)'
  <2>1. CASE verdict'[q] = verdict[q]
    <3>1. PICK counted \in Results : /\ Counted(c, o, q, counted)
                                     /\ verdict[q] = VerdictOn(q, c, counted)
      BY <1>2, <2>1 DEF VerdictsTold
    <3>2. Counted(c, o2, q, counted)'
      BY <3>1, CountedKept
    <3>3. ask'[q] = ask[q]
      BY <1>2, <2>1 DEF AskInv, AskGrows
    <3>. QED
      BY <2>1, <3>1, <3>2, <3>3, VerdictKept
  <2>2. CASE /\ ask'[q] = ask[q]
             /\ \E counted \in Results :
                   Counted(c, o2, q, counted)' /\ verdict'[q] = VerdictOn(q, c, counted)
    BY <2>2, VerdictKept
  <2>. QED
    BY <1>2, <2>1, <2>2 DEF VerdictsFrom
<1>3. ResultsTold(c, o2)'
  BY <1>1 DEF ResultsTold, Counted
<1>4. VerdictsTold(c, o2)'
  BY <1>2 DEF VerdictsTold
<1>. QED
  BY <1>3, <1>4

(* A counter that counts nothing keeps its book.                           *)
LEMMA BookStays ==
  ASSUME TypeOK, losses \in Nat, AskInv, AskGrows, NEW c \in Counters,
         log'[c] = log[c], window'[c] = window[c], now' \in Nat, now <= now', Epoch(c)' = Epoch(c),
         NEW o \in [Nat -> Nat], NEW e \in [Nat -> Nat], Book(c, o, e),
         ResultsFrom(c, o), VerdictsFrom(c, o)
  PROVE  Book(c, o, e)'
<1>1. Epoch(c)' = Epoch(c) /\ Epoch(c) \in Nat
  BY DEF Epoch
<1>2. Past(c, o, e) /\ Current(c, o, e) /\ ResultsTold(c, o) /\ VerdictsTold(c, o)
  BY DEF Book
<1>3. Past(c, o, e)' /\ Prolongs(c, o, o)
  BY <1>1, <1>2, PastKept
<1>4. Current(c, o, e)'
  BY <1>1, <1>2, CurrentKept
<1>5. Places(c) \subseteq Nat \ {0}
  BY PlacesTyped
<1>6. ResultsTold(c, o)' /\ VerdictsTold(c, o)'
  BY <1>2, <1>3, <1>5, ToldKept
<1>. QED
  BY <1>3, <1>4, <1>6 DEF Book

(* A counter that counts a hit goes on with its book.                      *)
LEMMA BookGrows ==
  ASSUME TypeOK, losses \in Nat, AskInv, NEW c \in Counters, NEW r \in Requests, ask[r] # None,
         UNCHANGED <<ask, now, losses>>, Logged(r, c),
         NEW o \in [Nat -> Nat], NEW e \in [Nat -> Nat], Book(c, o, e),
         NEW w \in Windows, HitOn(c, r, w), window'[c][Bucket(r)] = w, OthersKept(c, Bucket(r)),
         NEW counted \in Results, counted = Count(c, w),
         c = "redis" => /\ verdict' = verdict
                        /\ \A q \in Requests : result'[q] \in {None, result[q]}
                                               \/ (q = r /\ result'[q] = counted),
         c # "redis" => \A q \in Requests : verdict'[q] = verdict[q]
                                            \/ (q = r /\ verdict'[q] = VerdictOn(r, c, counted))
  PROVE  \E o2 \in [Nat -> Nat], e2 \in [Nat -> Nat] : Book(c, o2, e2)'
<1>1. Past(c, o, e) /\ Current(c, o, e) /\ ResultsTold(c, o) /\ VerdictsTold(c, o)
  BY DEF Book
<1>2. PICK o2 \in [Nat -> Nat], e2 \in [Nat -> Nat] :
          /\ Past(c, o2, e2)' /\ Current(c, o2, e2)'
          /\ \A i \in Places(c) : o2[i] = o[i]
          /\ Counted(c, o2, r, counted)'
  BY <1>1, Recorded
<1>3. AskGrows
  BY DEF AskGrows
<1>4. Places(c) \subseteq Nat \ {0}
  BY PlacesTyped
<1>5. Prolongs(c, o, o2)
  <2>0. PICK n : n = NextPlace(c)
    OBVIOUS
  <2>1. /\ n \in Nat \ {0} /\ Places(c) = 1 .. n - 1 /\ Places(c)' = Places(c) \cup {n}
        /\ \A i \in Places(c) : /\ Client(c, i)' = Client(c, i) /\ When(c, i)' = When(c, i)
                                /\ log'[c][i] = log[c][i]
    BY <2>0, Grown
  <2>2. \A i \in Places(c) : 1 .. i \subseteq Places(c)
    BY <2>1, UpTo
  <2>3. \A i \in Places(c) : o[i] \in Places(c)
    BY <2>2, <1>1 DEF Past, PlacePast
  <2>. QED
    BY <2>1, <2>2, <2>3, <1>2 DEF Prolongs
<1>6. ResultsFrom(c, o2)
  BY <1>2 DEF ResultsFrom
<1>7. VerdictsFrom(c, o2)
  BY <1>2 DEF VerdictsFrom
<1>8. ResultsTold(c, o2)' /\ VerdictsTold(c, o2)'
  BY <1>1, <1>3, <1>4, <1>5, <1>6, <1>7, ToldKept
<1>. QED
  BY <1>2, <1>8 DEF Book

LEMMA BooksAfterHit ==
  ASSUME TypeOK, losses \in Nat, AskInv, BookInv, NEW c \in Counters,
         NEW r \in Requests, ask[r] # None, UNCHANGED <<ask, now, losses>>, Logged(r, c),
         NEW w \in Windows, HitOn(c, r, w), window'[c][Bucket(r)] = w, OthersKept(c, Bucket(r)),
         \A d \in Counters \ {c} : window'[d] = window[d],
         NEW counted \in Results, counted = Count(c, w),
         \A q \in Requests : result'[q] \in {None, result[q]}
                             \/ (c = "redis" /\ q = r /\ result'[q] = counted),
         c = "redis" => verdict' = verdict,
         c # "redis" => \A q \in Requests : verdict'[q] = verdict[q]
                                            \/ (q = r /\ verdict'[q] = VerdictOn(r, c, counted))
  PROVE  BookInv'
<1>1. ASSUME NEW d \in Counters \ {c}
      PROVE  \E o \in [Nat -> Nat], e \in [Nat -> Nat] : Book(d, o, e)'
  <2>1. PICK o \in [Nat -> Nat], e \in [Nat -> Nat] : Book(d, o, e)
    BY <1>1 DEF BookInv
  <2>2. log'[d] = log[d]
    BY <1>1 DEF Logged, TypeOK
  <2>3. ResultsFrom(d, o)
    BY <1>1 DEF ResultsFrom
  <2>4. VerdictsFrom(d, o)
    BY <1>1 DEF VerdictsFrom, VerdictOn
  <2>5. AskGrows
    BY DEF AskGrows
  <2>6. now' \in Nat /\ now <= now' /\ Epoch(d)' = Epoch(d)
    BY DEF TypeOK, Epoch
  <2>7. Book(d, o, e)'
    BY <1>1, <2>1, <2>2, <2>3, <2>4, <2>5, <2>6, BookStays
  <2>. QED
    BY <2>7
<1>2. \E o \in [Nat -> Nat], e \in [Nat -> Nat] : Book(c, o, e)'
  <2>1. PICK o \in [Nat -> Nat], e \in [Nat -> Nat] : Book(c, o, e)
    BY DEF BookInv
  <2>2. c = "redis" => /\ verdict' = verdict
                       /\ \A q \in Requests : result'[q] \in {None, result[q]}
                                              \/ (q = r /\ result'[q] = counted)
    OBVIOUS
  <2>. QED
    BY <2>1, <2>2, BookGrows
<1>3. Counters' = Counters
  BY DEF Counters
<1>. QED
  BY <1>1, <1>2, <1>3 DEF BookInv

(* A step that counts nothing.                                             *)
LEMMA BooksStay ==
  ASSUME TypeOK, losses \in Nat, AskInv, BookInv, AskGrows, UNCHANGED <<log, window, losses>>,
         now' \in Nat, now <= now',
         \A q \in Requests : result'[q] \in {None, result[q]},
         \A q \in Requests : \/ verdict'[q] = verdict[q]
                             \/ verdict'[q].by \notin Counters
                             \/ /\ ask'[q] = ask[q] /\ result[q] \in Results /\ result[q] # None
                                /\ verdict'[q] = VerdictOn(q, "redis", result[q])
  PROVE  BookInv'
<1>1. ASSUME NEW c \in Counters
      PROVE  \E o \in [Nat -> Nat], e \in [Nat -> Nat] : Book(c, o, e)'
  <2>1. PICK o \in [Nat -> Nat], e \in [Nat -> Nat] : Book(c, o, e)
    BY <1>1 DEF BookInv
  <2>2. ResultsFrom(c, o)
    BY DEF ResultsFrom
  <2>3. Prolongs(c, o, o) /\ Places(c) \subseteq Nat \ {0}
    <3>1. Epoch(c) \in Nat /\ Epoch(c)' = Epoch(c)
      BY DEF Epoch
    <3>. QED
      BY <2>1, <3>1, PastKept, PlacesTyped DEF Book
  <2>4. VerdictsFrom(c, o)
    <3>. SUFFICES ASSUME NEW q \in Requests, verdict'[q] # None, verdict'[q].by = c,
                         verdict'[q] # verdict[q]
                  PROVE  /\ ask'[q] = ask[q]
                         /\ \E counted \in Results :
                               Counted(c, o, q, counted)' /\ verdict'[q] = VerdictOn(q, c, counted)
      BY DEF VerdictsFrom
    <3>1. /\ ask'[q] = ask[q] /\ result[q] \in Results /\ result[q] # None
          /\ verdict'[q] = VerdictOn(q, "redis", result[q])
      OBVIOUS
    <3>2. c = "redis"
      BY <3>1 DEF VerdictOn
    <3>3. PICK counted \in Results : counted = result[q]
      BY <3>1
    <3>4. Counted(c, o, q, counted)
      BY <2>1, <3>1, <3>2, <3>3 DEF Book, ResultsTold
    <3>5. Counted(c, o, q, counted)'
      BY <2>3, <3>4, CountedKept
    <3>. QED
      BY <3>1, <3>2, <3>3, <3>5
  <2>5. Epoch(c)' = Epoch(c)
    BY DEF Epoch
  <2>6. Book(c, o, e)'
    BY <2>1, <2>2, <2>4, <2>5, BookStays
  <2>. QED
    BY <2>6
<1>2. Counters' = Counters
  BY DEF Counters
<1>. QED
  BY <1>1, <1>2 DEF BookInv

-----------------------------------------------------------------------------
(* Every step keeps the invariant.                                         *)

LEMMA InitInv == Init => Inv
<1>. SUFFICES ASSUME Init PROVE Inv
  OBVIOUS
<1>1. SweepMs \in Nat
  BY Constants
<1>2. TypeOK
  <2>1. log \in [Counters -> Seq([request : Requests, at : Nat])]
    BY DEF Init
  <2>2. conn \in [Instances -> Seq(Requests)]
    BY DEF Init
  <2>. QED
    BY <2>1, <2>2, <1>1 DEF Init, TypeOK
<1>3. \A c \in Counters : Places(c) = {}
  BY DEF Init, Places
<1>4. AskInv
  BY <1>3 DEF Init, AskInv
<1>5. SweepInv
  BY <1>1, Constants DEF Init, SweepInv
<1>6. BookInv
  <2>. SUFFICES ASSUME NEW c \in Counters
                PROVE  \E o \in [Nat -> Nat], e \in [Nat -> Nat] : Book(c, o, e)
    BY DEF BookInv
  <2>. DEFINE o == [n \in Nat |-> 0]
  <2>1. o \in [Nat -> Nat]
    OBVIOUS
  <2>. HIDE DEF o
  <2>2. Past(c, o, o)
    BY <1>3 DEF Past
  <2>3. Current(c, o, o)
    BY <1>3 DEF Init, Current, IsOpen, IsOver
  <2>4. ResultsTold(c, o) /\ VerdictsTold(c, o)
    BY DEF Init, ResultsTold, VerdictsTold
  <2>. QED
    BY <2>1, <2>2, <2>3, <2>4 DEF Book
<1>7. losses \in Nat
  BY DEF Init
<1>. QED
  BY <1>2, <1>4, <1>5, <1>6, <1>7 DEF Inv

LEMMA HitTyped ==
  ASSUME TypeOK, NEW c \in Counters, NEW r \in Requests, ask[r] # None, NEW w, HitOn(c, r, w)
  PROVE  /\ Bucket(r) \in Buckets
         /\ w \in Windows /\ Count(c, w) \in Results /\ w.expiresAt >= now
<1>1. Bucket(r) \in Buckets
  BY LimitTyped DEF TypeOK
<1>. PICK old : old = window[c][Bucket(r)]
  OBVIOUS
<1>2. now \in Nat /\ WindowMs \in Nat /\ old \in Windows \cup {None}
  BY <1>1, Constants DEF TypeOK
<1>3. Len(log[c]) \in Nat
  BY DEF TypeOK
<1>4. CASE w = Opened
  BY <1>1, <1>2, <1>3, <1>4 DEF Opened, Windows, Results, Count
<1>5. CASE w = [old EXCEPT !.count = @ + 1] /\ old # None /\ now <= old.expiresAt
  <2>1. w = [count |-> old.count + 1, expiresAt |-> old.expiresAt]
        /\ old.count \in Nat \ {0} /\ old.expiresAt \in Nat
    BY <1>2, <1>5 DEF Windows
  <2>. QED
    BY <1>1, <1>2, <1>3, <1>5, <2>1 DEF Windows, Results, Count
<1>. QED
  BY <1>4, <1>5 DEF HitOn

LEMMA LogTyped ==
  ASSUME TypeOK, NEW c \in Counters, NEW r \in Requests, Logged(r, c), UNCHANGED now
  PROVE  log' \in [Counters -> Seq([request : Requests, at : Nat])]
<1>. DEFINE H == [request : Requests, at : Nat]
            h == [request |-> r, at |-> now]
<1>1. log \in [Counters -> Seq(H)] /\ h \in H
  BY DEF TypeOK
<1>2. log' = [log EXCEPT ![c] = Append(@, h)]
  BY DEF Logged
<1>. HIDE DEF H, h
<1>3. Append(log[c], h) \in Seq(H)
  BY <1>1
<1>4. log' \in [Counters -> Seq(H)]
  BY <1>1, <1>2, <1>3
<1>. QED
  BY <1>4 DEF H

\* Who is asked about, and what is counted, stays asked.
LEMMA AskStays ==
  ASSUME TypeOK, AskInv, AskGrows, ask' \in [Requests -> Asks \cup {None}],
         \A c \in Counters : \/ log'[c] = log[c]
                             \/ \E r \in Requests : ask[r] # None /\ Logged(r, c),
         \A p \in Instances : \A i \in DOMAIN conn'[p] :
             conn'[p][i] \in Requests /\ ask'[conn'[p][i]] # None,
         \A q \in Requests :
             \/ verdict'[q] = verdict[q]
             \/ ask'[q] # None /\ verdict'[q].by \in Counters
             \/ /\ ask'[q] # None
                /\ verdict'[q].by = None /\ ~Limited(ask'[q]) /\ verdict'[q].outcome # "refused"
  PROVE  AskInv'
<1>1. ASSUME NEW c \in Counters, NEW i \in Places(c)' PROVE ask'[log'[c][i].request] # None
  <2>1. \A j \in Places(c) : log[c][j].request \in Requests
    <3>. DEFINE H == [request : Requests, at : Nat]
    <3>1. log[c] \in Seq(H)
      BY DEF TypeOK
    <3>. HIDE DEF H
    <3>2. \A j \in Places(c) : log[c][j] \in H
      BY <3>1 DEF Places
    <3>. QED
      BY <3>2 DEF H
  <2>2. CASE log'[c] = log[c]
    <3>1. Places(c)' = Places(c)
      BY <2>2 DEF Places
    <3>. QED
      BY <1>1, <2>1, <2>2, <3>1 DEF AskInv, AskGrows
  <2>3. ASSUME NEW r \in Requests, ask[r] # None, Logged(r, c)
        PROVE  ask'[log'[c][i].request] # None
    <3>. DEFINE h == [request |-> r, at |-> now]
                n == Len(log[c]) + 1
    <3>1. log'[c] = Append(log[c], h) /\ log[c] \in Seq([request : Requests, at : Nat])
      BY <2>3 DEF Logged, TypeOK
    <3>. HIDE DEF h
    <3>2. i \in 1 .. n /\ log'[c][n] = h /\ \A j \in 1 .. n - 1 : log'[c][j] = log[c][j]
      BY <1>1, <3>1 DEF Places
    <3>3. CASE i = n
      BY <2>3, <3>2, <3>3 DEF h, AskGrows
    <3>4. CASE i \in 1 .. n - 1
      <4>1. i \in Places(c) /\ log'[c][i] = log[c][i]
        BY <3>1, <3>2, <3>4 DEF Places
      <4>. QED
        BY <2>1, <4>1 DEF AskInv, AskGrows
    <3>5. n - 1 \in Nat
      BY <3>1
    <3>. QED
      BY <3>2, <3>3, <3>4, <3>5
  <2>. QED
    BY <2>2, <2>3
<1>2. ASSUME NEW q \in Requests, verdict'[q] # None
      PROVE  /\ ask'[q] # None
             /\ verdict'[q].by \in Counters
                \/ (verdict'[q].by = None /\ ~Limited(ask'[q]) /\ verdict'[q].outcome # "refused")
  BY <1>2 DEF AskInv, AskGrows
<1>3. Counters' = Counters
  BY DEF Counters
<1>4. \A a : Limited(a)' = Limited(a)
  BY DEF Limited, Exempt
<1>. QED
  BY <1>1, <1>2, <1>3, <1>4 DEF AskInv, Limited

LEMMA SkipInv ==
  ASSUME Inv, NEW r \in Requests, NEW a \in Asks, Skip(r, a)
  PROVE  Inv'
<1>. USE DEF Inv
<1>1. /\ ask[r] = None /\ ask' = [ask EXCEPT ![r] = a] /\ ~Limited(a)
      /\ verdict' = [verdict EXCEPT ![r] =
                        [outcome |-> Passed(a), retryAfter |-> 0, by |-> None, hit |-> 0]]
      /\ UNCHANGED <<now, window, lastSweep, conn, result, log, resends, losses>>
  BY DEF Skip, Made, DecideUncounted
<1>2. AskGrows /\ ask' \in [Requests -> Asks \cup {None}] /\ a # None
  BY <1>1, Constants DEF AskGrows, TypeOK
<1>3. [outcome |-> Passed(a), retryAfter |-> 0, by |-> None, hit |-> 0] \in Verdicts
  BY DEF Verdicts, Outcomes, Passed
<1>4. TypeOK'
  BY <1>1, <1>2, <1>3 DEF TypeOK
<1>5. AskInv'
  <2>1. \A p \in Instances : \A i \in DOMAIN conn'[p] :
            conn'[p][i] \in Requests /\ ask'[conn'[p][i]] # None
    BY <1>1, <1>2 DEF AskInv, AskGrows, TypeOK
  <2>2. ask'[r] = a /\ verdict'[r].by = None /\ verdict'[r].outcome # "refused"
    BY <1>1 DEF TypeOK, Passed
  <2>3. \A q \in Requests \ {r} : verdict'[q] = verdict[q]
    BY <1>1 DEF TypeOK
  <2>. QED
    BY <2>1, <2>2, <2>3, <1>1, <1>2, AskStays
<1>6. SweepInv'
  BY <1>1 DEF SweepInv
<1>7. BookInv'
  <2>1. \A q \in Requests : verdict'[q] = verdict[q] \/ verdict'[q].by \notin Counters
    BY <1>1, Constants DEF TypeOK
  <2>. QED
    BY <2>1, <1>1, <1>2, BooksStay DEF TypeOK
<1>. QED
  BY <1>1, <1>4, <1>5, <1>6, <1>7

LEMMA AskStepInv ==
  ASSUME Inv, NEW r \in Requests, NEW a \in Asks, NEW p \in Instances, Ask(r, a, p)
  PROVE  Inv'
<1>. USE DEF Inv
<1>1. /\ ask[r] = None /\ ask' = [ask EXCEPT ![r] = a]
      /\ conn' = [conn EXCEPT ![p] = Append(@, r)]
      /\ UNCHANGED <<now, window, lastSweep, result, verdict, log, resends, losses>>
  BY DEF Ask, Made
<1>2. AskGrows /\ ask' \in [Requests -> Asks \cup {None}] /\ a # None
  BY <1>1, Constants DEF AskGrows, TypeOK
<1>3. conn' \in [Instances -> Seq(Requests)]
  BY <1>1 DEF TypeOK
<1>4. TypeOK'
  BY <1>1, <1>2, <1>3 DEF TypeOK
<1>5. AskInv'
  <2>1. ASSUME NEW q \in Instances, NEW i \in DOMAIN conn'[q]
        PROVE  conn'[q][i] \in Requests /\ ask'[conn'[q][i]] # None
    <3>1. CASE q # p
      BY <2>1, <3>1, <1>1, <1>2 DEF AskInv, AskGrows, TypeOK
    <3>2. CASE q = p
      <4>1. conn[p] \in Seq(Requests) /\ conn'[p] = Append(conn[p], r)
        BY <1>1 DEF TypeOK
      <4>2. CASE i = Len(conn[p]) + 1
        BY <4>1, <4>2, <3>2, <1>1, <1>2 DEF TypeOK
      <4>3. CASE i \in DOMAIN conn[p]
        <5>1. conn'[p][i] = conn[p][i] /\ conn[p][i] \in Requests
          BY <4>1, <4>3
        <5>2. ask[conn[p][i]] # None
          BY <4>3 DEF AskInv
        <5>. QED
          BY <5>1, <5>2, <3>2, <1>2 DEF AskGrows
      <4>. QED
        BY <2>1, <3>2, <4>1, <4>2, <4>3
    <3>. QED
      BY <3>1, <3>2
  <2>2. \A q \in Requests : verdict'[q] = verdict[q]
    BY <1>1
  <2>. QED
    BY <2>1, <2>2, <1>1, <1>2, AskStays
<1>6. SweepInv'
  BY <1>1 DEF SweepInv
<1>7. BookInv'
  <2>1. now' \in Nat /\ now <= now' /\ UNCHANGED <<log, window, losses>>
    BY <1>1 DEF TypeOK
  <2>2. \A q \in Requests : result'[q] \in {None, result[q]} /\ verdict'[q] = verdict[q]
    BY <1>1
  <2>. QED
    BY <2>1, <2>2, <1>2, BooksStay
<1>. QED
  BY <1>1, <1>4, <1>5, <1>6, <1>7

LEMMA Answered ==
  ASSUME TypeOK, AskInv, NEW p \in Instances, conn[p] # <<>>, UNCHANGED ask,
         conn' = [conn EXCEPT ![p] = Tail(@)], result' = [result EXCEPT ![Head(conn[p])] = None]
  PROVE  /\ Head(conn[p]) \in Requests /\ ask[Head(conn[p])] # None
         /\ conn' \in [Instances -> Seq(Requests)]
         /\ result' \in [Requests -> Results \cup {None}]
         /\ \A q \in Instances : \A i \in DOMAIN conn'[q] :
                conn'[q][i] \in Requests /\ ask'[conn'[q][i]] # None
         /\ \A q \in Requests : result'[q] \in {None, result[q]}
<1>1. conn[p] \in Seq(Requests) /\ conn'[p] = Tail(conn[p]) /\ Len(conn[p]) \in Nat \ {0}
  BY DEF TypeOK
<1>2. 1 \in DOMAIN conn[p] /\ Head(conn[p]) = conn[p][1] /\ Head(conn[p]) \in Requests
  BY <1>1
<1>3. \A i \in DOMAIN conn'[p] : /\ i + 1 \in DOMAIN conn[p]
                                 /\ conn'[p][i] = conn[p][i + 1] /\ conn'[p][i] \in Requests
  <2>1. \A s \in Seq(Requests) : Len(s) \in Nat \ {0} =>
            /\ DOMAIN Tail(s) = 1 .. Len(s) - 1
            /\ \A i \in 1 .. Len(s) - 1 : Tail(s)[i] = s[i + 1] /\ i + 1 \in DOMAIN s
            /\ \A i \in DOMAIN s : s[i] \in Requests
    OBVIOUS
  <2>. QED
    BY <1>1, <2>1
<1>4. ASSUME NEW q \in Instances, NEW i \in DOMAIN conn'[q]
      PROVE  conn'[q][i] \in Requests /\ ask'[conn'[q][i]] # None
  <2>1. CASE q = p
    BY <1>3, <1>4, <2>1 DEF AskInv
  <2>2. CASE q # p
    <3>1. conn'[q] = conn[q] /\ conn[q] \in Seq(Requests)
      BY <2>2 DEF TypeOK
    <3>. QED
      BY <1>4, <3>1 DEF AskInv
  <2>. QED
    BY <2>1, <2>2
<1>5. Tail(conn[p]) \in Seq(Requests)
  BY <1>1
<1>6. conn' \in [Instances -> Seq(Requests)]
  BY <1>5 DEF TypeOK
<1>7. result' \in [Requests -> Results \cup {None}]
      /\ \A q \in Requests : result'[q] \in {None, result[q]}
  BY DEF TypeOK
<1>. QED
  BY <1>2, <1>4, <1>6, <1>7 DEF AskInv

LEMMA RedisExecutesInv ==
  ASSUME Inv, NEW p \in Instances, RedisExecutes(p)
  PROVE  Inv'
<1>. USE DEF Inv
<1>1. PICK i, r, w, counted :
          /\ i \in DOMAIN conn[p] /\ r = conn[p][i] /\ w = HitInRedis(Bucket(r)) /\ counted = Count("redis", w)
          /\ window' = [window EXCEPT !["redis"][Bucket(r)] = w]
          /\ Logged(r, "redis")
          /\ result' = [result EXCEPT ![r] = counted]
          /\ UNCHANGED <<now, ask, lastSweep, conn, verdict, resends, losses>>
  BY DEF RedisExecutes
<1>2. r \in Requests /\ ask[r] # None
  BY <1>1 DEF AskInv, TypeOK
<1>3. PICK b : b = Bucket(r)
  OBVIOUS
<1>4. b \in Buckets /\ "redis" \in Counters /\ "redis" \notin Instances
  BY <1>2, <1>3, LimitTyped, Constants DEF TypeOK
<1>5. HitOn("redis", r, w)
  <2>1. now \in Nat /\ window["redis"][b] \in Windows \cup {None}
    BY <1>4 DEF TypeOK
  <2>2. window["redis"][b] # None => window["redis"][b].expiresAt \in Nat
    BY <2>1 DEF Windows
  <2>3. w = HitInRedis(b)
    BY <1>1, <1>3
  <2>. HIDE DEF Inv
  <2>4. CASE window["redis"][b] = None \/ now > window["redis"][b].expiresAt
    BY <1>3, <2>1, <2>2, <2>3, <2>4 DEF HitOn, HitInRedis
  <2>5. CASE window["redis"][b] # None /\ ~(now > window["redis"][b].expiresAt)
    BY <1>3, <2>1, <2>2, <2>3, <2>5 DEF HitOn, HitInRedis
  <2>. QED
    BY <2>4, <2>5
<1>6. w \in Windows /\ counted \in Results
  BY <1>1, <1>2, <1>4, <1>5, HitTyped
<1>7. /\ window' \in [Counters -> [Buckets -> Windows \cup {None}]]
      /\ window'["redis"][b] = w
      /\ \A a \in Buckets \ {b} : window'["redis"][a] = window["redis"][a]
      /\ \A d \in Counters \ {"redis"} : window'[d] = window[d]
  BY <1>1, <1>3, <1>4, <1>6 DEF TypeOK
<1>8. TypeOK'
  <2>1. log' \in [Counters -> Seq([request : Requests, at : Nat])]
    BY <1>1, <1>2, <1>4, LogTyped
  <2>2. result' \in [Requests -> Results \cup {None}]
    BY <1>1, <1>6 DEF TypeOK
  <2>. QED
    BY <2>1, <2>2, <1>1, <1>7 DEF TypeOK
<1>9. AskInv'
  <2>1. \A q \in Instances : \A j \in DOMAIN conn'[q] :
            conn'[q][j] \in Requests /\ ask'[conn'[q][j]] # None
    BY <1>1 DEF AskInv, TypeOK
  <2>2. \A c \in Counters : log'[c] = log[c] \/ \E q \in Requests : ask[q] # None /\ Logged(q, c)
    BY <1>1, <1>2 DEF Logged, TypeOK
  <2>3. AskGrows /\ ask' \in [Requests -> Asks \cup {None}]
    BY <1>1 DEF AskGrows, TypeOK
  <2>4. \A q \in Requests : verdict'[q] = verdict[q]
    BY <1>1
  <2>. QED
    BY <2>1, <2>2, <2>3, <2>4, AskStays
<1>10. SweepInv'
  BY <1>1, <1>4, <1>7 DEF SweepInv, Counters
<1>11. BookInv'
  <2>1. OthersKept("redis", Bucket(r))
    BY <1>3, <1>7 DEF OthersKept
  <2>2. \A q \in Requests : result'[q] \in {None, result[q]} \/ (q = r /\ result'[q] = counted)
    BY <1>1 DEF TypeOK
  <2>3. window'["redis"][Bucket(r)] = w
    BY <1>3, <1>7
  <2>. QED
    BY <2>1, <2>2, <2>3, <1>1, <1>2, <1>4, <1>5, <1>6, <1>7, BooksAfterHit
<1>. QED
  BY <1>1, <1>8, <1>9, <1>10, <1>11

LEMMA RedisRepliesInv ==
  ASSUME Inv, NEW p \in Instances, RedisReplies(p)
  PROVE  Inv'
<1>. USE DEF Inv
<1>1. PICK r : r = Head(conn[p])
  OBVIOUS
<1>2. /\ conn[p] # <<>> /\ result[r] # None
      /\ verdict' = [verdict EXCEPT ![r] = VerdictOn(r, "redis", result[r])]
      /\ conn' = [conn EXCEPT ![p] = Tail(@)]
      /\ result' = [result EXCEPT ![Head(conn[p])] = None]
      /\ UNCHANGED <<now, ask, window, lastSweep, log, resends, losses>>
  BY <1>1 DEF RedisReplies, Decide
<1>3. /\ r \in Requests /\ ask[r] # None
      /\ conn' \in [Instances -> Seq(Requests)]
      /\ result' \in [Requests -> Results \cup {None}]
      /\ \A q \in Instances : \A i \in DOMAIN conn'[q] :
             conn'[q][i] \in Requests /\ ask'[conn'[q][i]] # None
      /\ \A q \in Requests : result'[q] \in {None, result[q]}
  BY <1>1, <1>2, Answered
<1>4. result[r] \in Results /\ "redis" \in Counters
  BY <1>2, <1>3, Constants DEF TypeOK
<1>5. PICK v : v = VerdictOn(r, "redis", result[r])
  OBVIOUS
<1>6. v \in Verdicts /\ v.by = "redis"
  <2>1. v \in Verdicts
    BY <1>4, <1>5, VerdictTyped
  <2>. QED
    BY <2>1, <1>5 DEF VerdictOn
<1>7. verdict'[r] = v /\ \A q \in Requests \ {r} : verdict'[q] = verdict[q]
  BY <1>2, <1>3, <1>5 DEF TypeOK
<1>8. TypeOK'
  <2>1. verdict' \in [Requests -> Verdicts \cup {None}]
    BY <1>2, <1>5, <1>6 DEF TypeOK
  <2>. QED
    BY <2>1, <1>2, <1>3 DEF TypeOK
<1>9. AskGrows /\ ask' \in [Requests -> Asks \cup {None}] /\ UNCHANGED <<log, window, losses>>
      /\ now' \in Nat /\ now <= now'
  BY <1>2 DEF AskGrows, TypeOK
<1>10. AskInv'
  <2>1. \A q \in Requests : verdict'[q] = verdict[q]
                            \/ (ask'[q] # None /\ verdict'[q].by \in Counters)
    BY <1>2, <1>3, <1>4, <1>6, <1>7
  <2>. QED
    BY <2>1, <1>3, <1>9, AskStays
<1>11. SweepInv'
  BY <1>2 DEF SweepInv
<1>12. BookInv'
  <2>1. \A q \in Requests : \/ verdict'[q] = verdict[q]
                            \/ /\ ask'[q] = ask[q] /\ result[q] \in Results /\ result[q] # None
                               /\ verdict'[q] = VerdictOn(q, "redis", result[q])
    BY <1>2, <1>4, <1>5, <1>7
  <2>. QED
    BY <2>1, <1>3, <1>9, BooksStay
<1>. QED
  BY <1>2, <1>8, <1>10, <1>11, <1>12

LEMMA MemoryHit ==
  ASSUME TypeOK, NEW p \in Instances, NEW r \in Requests, ask[r] # None,
         NEW w, w = HitInMemory(p, Bucket(r))
  PROVE  HitOn(p, r, w) /\ w.expiresAt > now /\ w \in Windows /\ Count(p, w) \in Results
<1>1. PICK b : b = Bucket(r)
  OBVIOUS
<1>2. b \in Buckets /\ p \in Counters
  BY <1>1, LimitTyped, Constants DEF TypeOK
<1>3. /\ now \in Nat /\ WindowMs \in Nat \ {0}
      /\ window[p][b] \in Windows \cup {None}
      /\ window[p][b] # None => window[p][b].expiresAt \in Nat
  BY <1>2, Constants DEF TypeOK, Windows
<1>4. HitOn(p, r, w) /\ w.expiresAt > now
  <2>1. CASE w = Opened /\ (window[p][b] = None \/ window[p][b].expiresAt <= now)
    <3>1. now + WindowMs > now
      BY <1>3
    <3>. QED
      BY <1>1, <2>1, <3>1 DEF HitOn, Opened
  <2>2. CASE /\ w = [window[p][b] EXCEPT !.count = @ + 1]
             /\ window[p][b] # None /\ ~(window[p][b].expiresAt <= now)
    <3>1. w.expiresAt = window[p][b].expiresAt /\ window[p][b].expiresAt > now
      BY <1>3, <2>2 DEF Windows
    <3>. QED
      BY <1>1, <1>3, <2>2, <3>1 DEF HitOn
  <2>. QED
    BY <1>1, <2>1, <2>2 DEF HitInMemory
<1>. QED
  BY <1>2, <1>4, HitTyped

LEMMA RedisRejectsInv ==
  ASSUME Inv, NEW p \in Instances, RedisRejects(p)
  PROVE  Inv'
<1>. USE DEF Inv
<1>1. PICK r, b, w, counted :
          r = Head(conn[p]) /\ b = Bucket(r) /\ w = HitInMemory(p, b) /\ counted = Count(p, w)
  OBVIOUS
<1>2. /\ conn[p] # <<>>
      /\ window' = [window EXCEPT ![p] = [Swept(p) EXCEPT ![b] = w]]
      /\ lastSweep' = [lastSweep EXCEPT ![p] = SweptAt(p)]
      /\ Logged(r, p)
      /\ verdict' = [verdict EXCEPT ![r] = VerdictOn(r, p, counted)]
      /\ conn' = [conn EXCEPT ![p] = Tail(@)]
      /\ result' = [result EXCEPT ![Head(conn[p])] = None]
      /\ UNCHANGED <<now, ask, resends, losses>>
  BY <1>1 DEF RedisRejects, FallBack, Decide
<1>3. /\ r \in Requests /\ ask[r] # None
      /\ conn' \in [Instances -> Seq(Requests)]
      /\ result' \in [Requests -> Results \cup {None}]
      /\ \A q \in Instances : \A i \in DOMAIN conn'[q] :
             conn'[q][i] \in Requests /\ ask'[conn'[q][i]] # None
      /\ \A q \in Requests : result'[q] \in {None, result[q]}
  BY <1>1, <1>2, Answered
<1>4. p \in Counters /\ p # "redis" /\ b \in Buckets
  BY <1>1, <1>3, LimitTyped, Constants DEF TypeOK
<1>5. /\ now \in Nat /\ WindowMs \in Nat \ {0} /\ lastSweep[p] \in Nat /\ lastSweep[p] <= now
      /\ \A a \in Buckets : /\ window[p][a] \in Windows \cup {None}
                            /\ window[p][a] # None => window[p][a].expiresAt \in Nat
  BY <1>4, Constants DEF TypeOK, SweepInv, Windows
<1>6. HitOn(p, r, w) /\ w.expiresAt > now
  BY <1>1, <1>3, MemoryHit
<1>7. w \in Windows /\ counted \in Results
  BY <1>1, <1>3, MemoryHit
<1>8. /\ window' \in [Counters -> [Buckets -> Windows \cup {None}]]
      /\ window'[p][b] = w
      /\ \A a \in Buckets \ {b} : window'[p][a] = Swept(p)[a]
      /\ \A d \in Counters \ {p} : window'[d] = window[d]
  <2>1. Swept(p) \in [Buckets -> Windows \cup {None}]
    BY <1>5 DEF Swept
  <2>. QED
    BY <2>1, <1>2, <1>4, <1>7 DEF TypeOK
<1>9. /\ lastSweep' \in [Instances -> Nat]
      /\ lastSweep'[p] = SweptAt(p) /\ lastSweep'[p] <= now
      /\ \A q \in Instances \ {p} : lastSweep'[q] = lastSweep[q]
  BY <1>2, <1>5 DEF TypeOK, SweptAt
<1>10. PICK v : v = VerdictOn(r, p, counted)
  OBVIOUS
<1>11. v \in Verdicts /\ v.by = p
  <2>1. v \in Verdicts
    BY <1>4, <1>7, <1>10, VerdictTyped
  <2>. QED
    BY <2>1, <1>10 DEF VerdictOn
<1>12. verdict'[r] = v /\ \A q \in Requests \ {r} : verdict'[q] = verdict[q]
  BY <1>2, <1>3, <1>10 DEF TypeOK
<1>13. TypeOK'
  <2>1. log' \in [Counters -> Seq([request : Requests, at : Nat])]
    BY <1>2, <1>3, <1>4, LogTyped
  <2>2. verdict' \in [Requests -> Verdicts \cup {None}]
    BY <1>2, <1>10, <1>11 DEF TypeOK
  <2>. QED
    BY <2>1, <2>2, <1>2, <1>3, <1>8, <1>9 DEF TypeOK
<1>14. AskInv'
  <2>1. \A q \in Requests : verdict'[q] = verdict[q]
                            \/ (ask'[q] # None /\ verdict'[q].by \in Counters)
    BY <1>2, <1>3, <1>4, <1>11, <1>12
  <2>2. \A c \in Counters : log'[c] = log[c] \/ \E q \in Requests : ask[q] # None /\ Logged(q, c)
    <3>1. \A c \in Counters \ {p} : log'[c] = log[c]
      BY <1>2 DEF Logged, TypeOK
    <3>. QED
      BY <3>1, <1>2, <1>3
  <2>3. AskGrows /\ ask' \in [Requests -> Asks \cup {None}]
    BY <1>2 DEF AskGrows, TypeOK
  <2>. QED
    BY <2>1, <2>2, <2>3, <1>3, AskStays
<1>15. SweepInv'
  <2>1. ASSUME NEW a \in Buckets, window'[p][a] # None
        PROVE  window'[p][a].expiresAt > lastSweep'[p]
    <3>1. CASE a = b
      BY <3>1, <1>5, <1>6, <1>7, <1>8, <1>9 DEF TypeOK, SweptAt, Windows
    <3>2. CASE a # b
      <4>1. window'[p][a] = Swept(p)[a]
        BY <3>2, <1>8
      <4>2. CASE SweepDue(p)
        BY <2>1, <4>1, <4>2, <1>5, <1>9 DEF Swept, SweptAt
      <4>3. CASE ~SweepDue(p)
        BY <2>1, <4>1, <4>3, <1>9 DEF Swept, SweptAt, SweepInv
      <4>. QED
        BY <4>2, <4>3
    <3>. QED
      BY <3>1, <3>2
  <2>2. ASSUME NEW q \in Instances \ {p}
        PROVE  lastSweep'[q] = lastSweep[q] /\ window'[q] = window[q]
    BY <2>2, <1>8, <1>9, Constants
  <2>. QED
    BY <2>1, <2>2, <1>2, <1>9 DEF SweepInv
<1>16. BookInv'
  <2>1. OthersKept(p, Bucket(r))
    BY <1>1, <1>8 DEF OthersKept, Swept
  <2>2. \A q \in Requests : verdict'[q] = verdict[q]
                            \/ (q = r /\ verdict'[q] = VerdictOn(r, p, counted))
    BY <1>10, <1>12
  <2>3. window'[p][Bucket(r)] = w /\ UNCHANGED <<ask, now, losses>> /\ counted = Count(p, w)
    BY <1>1, <1>2, <1>8
  <2>. QED
    BY <2>1, <2>2, <2>3, <1>2, <1>3, <1>4, <1>6, <1>7, <1>8, BooksAfterHit
<1>. QED
  BY <1>2, <1>13, <1>14, <1>15, <1>16

\* Steps that neither ask, count nor decide.
LEMMA QuietInv ==
  ASSUME Inv, UNCHANGED <<ask, window, lastSweep, conn, verdict, log, losses>>,
         now' \in Nat, now <= now', result' \in [Requests -> Results \cup {None}],
         \A q \in Requests : result'[q] \in {None, result[q]}
  PROVE  Inv'
<1>. USE DEF Inv
<1>1. TypeOK'
  BY DEF TypeOK
<1>2. AskGrows
  BY DEF AskGrows
<1>3. AskInv'
  <2>1. ask' \in [Requests -> Asks \cup {None}]
    BY DEF TypeOK
  <2>2. \A p \in Instances : \A i \in DOMAIN conn'[p] :
            conn'[p][i] \in Requests /\ ask'[conn'[p][i]] # None
    BY DEF AskInv, TypeOK
  <2>. QED
    BY <1>2, <2>1, <2>2, AskStays
<1>4. SweepInv'
  BY DEF SweepInv, TypeOK
<1>5. BookInv'
  BY <1>2, BooksStay
<1>. QED
  BY <1>1, <1>3, <1>4, <1>5

LEMMA ReconnectInv ==
  ASSUME Inv, NEW p \in Instances, Reconnect(p)
  PROVE  Inv'
<1>1. /\ result' \in [Requests -> Results \cup {None}]
      /\ \A q \in Requests : result'[q] \in {None, result[q]}
  BY DEF Inv, TypeOK, Reconnect
<1>2. UNCHANGED <<ask, window, lastSweep, conn, verdict, log, losses>>
      /\ now' \in Nat /\ now <= now'
  BY DEF Inv, TypeOK, Reconnect
<1>. QED
  BY <1>1, <1>2, QuietInv

LEMMA TickInv ==
  ASSUME Inv, Tick
  PROVE  Inv'
<1>1. /\ result' \in [Requests -> Results \cup {None}]
      /\ \A q \in Requests : result'[q] \in {None, result[q]}
      /\ now' \in Nat /\ now <= now'
  BY DEF Inv, TypeOK, Tick
<1>2. UNCHANGED <<ask, window, lastSweep, conn, verdict, log, losses>>
  BY DEF Tick
<1>. QED
  BY <1>1, <1>2, QuietInv

\* What Redis has lost leaves no window of its new epoch behind.
LEMMA ForgetInv ==
  ASSUME Inv, Forget
  PROVE  Inv'
<1>. USE DEF Inv
<1>1. /\ window' = [window EXCEPT !["redis"] = [b \in Buckets |-> None]]
      /\ losses' = losses + 1 /\ losses' \in Nat /\ losses \in Nat
      /\ UNCHANGED <<now, ask, lastSweep, conn, result, verdict, log, resends>>
  BY DEF Forget
<1>2. /\ window' \in [Counters -> [Buckets -> Windows \cup {None}]]
      /\ \A b \in Buckets : window'["redis"][b] = None
      /\ \A c \in Counters \ {"redis"} : window'[c] = window[c]
  BY <1>1, Constants DEF TypeOK
<1>3. TypeOK'
  BY <1>1, <1>2 DEF TypeOK
<1>4. AskGrows /\ now' \in Nat /\ now <= now'
  BY <1>1 DEF AskGrows, TypeOK
<1>5. AskInv'
  <2>1. ask' \in [Requests -> Asks \cup {None}]
    BY <1>1 DEF TypeOK
  <2>2. \A p \in Instances : \A i \in DOMAIN conn'[p] :
            conn'[p][i] \in Requests /\ ask'[conn'[p][i]] # None
    BY <1>1 DEF AskInv, TypeOK
  <2>. QED
    BY <1>1, <1>4, <2>1, <2>2, AskStays
<1>6. SweepInv'
  <2>1. \A p \in Instances : window'[p] = window[p]
    BY <1>2, Constants
  <2>. QED
    BY <1>1, <2>1 DEF SweepInv
<1>7. ASSUME NEW c \in Counters
      PROVE  \E o \in [Nat -> Nat], e \in [Nat -> Nat] : Book(c, o, e)'
  <2>1. PICK o \in [Nat -> Nat], e \in [Nat -> Nat] : Book(c, o, e)
    BY DEF BookInv
  <2>2. ResultsFrom(c, o) /\ VerdictsFrom(c, o)
    BY <1>1 DEF ResultsFrom, VerdictsFrom
  <2>3. log'[c] = log[c]
    BY <1>1
  <2>4. CASE c # "redis"
    <3>1. Epoch(c)' = Epoch(c) /\ window'[c] = window[c]
      BY <1>2, <2>4 DEF Epoch
    <3>2. Book(c, o, e)'
      BY <1>4, <2>1, <2>2, <2>3, <3>1, BookStays
    <3>. QED
      BY <3>2
  <2>5. CASE c = "redis"
    <3>1. Epoch(c) \in Nat /\ Epoch(c)' \in Nat /\ Epoch(c)' = Epoch(c) + 1 /\ Epoch(c) <= Epoch(c)'
      BY <1>1, <2>5 DEF Epoch
    <3>2. Past(c, o, e) /\ ResultsTold(c, o) /\ VerdictsTold(c, o)
      BY <2>1 DEF Book
    <3>3. Past(c, o, e)' /\ Prolongs(c, o, o)
      BY <1>4, <2>3, <3>1, <3>2, PastKept
    <3>4. Places(c)' = Places(c) /\ Places(c) \subseteq Nat \ {0}
      BY <2>3, PlacesKept, PlacesTyped, <1>4
    <3>5. \A i \in Places(c) : e[i] # Epoch(c)'
      BY <3>1, <3>2 DEF Past, PlacePast
    <3>6. Current(c, o, e)'
      BY <1>2, <2>5, <3>4, <3>5 DEF Current, IsOpen, IsOver
    <3>7. ResultsTold(c, o)' /\ VerdictsTold(c, o)'
      BY <1>4, <2>2, <3>2, <3>3, <3>4, ToldKept
    <3>8. Book(c, o, e)'
      BY <3>3, <3>6, <3>7 DEF Book
    <3>. QED
      BY <3>8
  <2>. QED
    BY <2>4, <2>5
<1>8. BookInv'
  <2>1. Counters' = Counters
    BY DEF Counters
  <2>. QED
    BY <1>7, <2>1 DEF BookInv
<1>. QED
  BY <1>1, <1>3, <1>5, <1>6, <1>8

LEMMA NextInv == Inv /\ [Next]_vars => Inv'
<1>. SUFFICES ASSUME Inv, [Next]_vars PROVE Inv'
  OBVIOUS
<1>1. CASE UNCHANGED vars
  <2>1. UNCHANGED <<ask, window, lastSweep, conn, verdict, log, losses>>
        /\ now' = now /\ result' = result
    BY <1>1 DEF vars
  <2>2. /\ now' \in Nat /\ now <= now' /\ result' \in [Requests -> Results \cup {None}]
        /\ \A q \in Requests : result'[q] \in {None, result[q]}
    BY <2>1 DEF Inv, TypeOK
  <2>. QED
    BY <2>1, <2>2, QuietInv
<1>2. CASE Next
  <2>1. ASSUME NEW r \in Requests, NEW a \in Asks, Skip(r, a) PROVE Inv'
    BY <2>1, SkipInv
  <2>2. ASSUME NEW r \in Requests, NEW a \in Asks, NEW p \in Instances, Ask(r, a, p) PROVE Inv'
    BY <2>2, AskStepInv
  <2>3. ASSUME NEW p \in Instances, RedisExecutes(p) PROVE Inv'
    BY <2>3, RedisExecutesInv
  <2>4. ASSUME NEW p \in Instances, RedisReplies(p) PROVE Inv'
    BY <2>4, RedisRepliesInv
  <2>5. ASSUME NEW p \in Instances, RedisRejects(p) PROVE Inv'
    BY <2>5, RedisRejectsInv
  <2>6. ASSUME NEW p \in Instances, Reconnect(p) PROVE Inv'
    BY <2>6, ReconnectInv
  <2>. QED
    BY <1>2, <2>1, <2>2, <2>3, <2>4, <2>5, <2>6, ForgetInv, TickInv DEF Next
<1>. QED
  BY <1>1, <1>2

\* The invariant holds: every counter's history divides into windows.
THEOREM Invariant == Spec => []Inv
BY InitInv, NextInv, PTL DEF Spec

-----------------------------------------------------------------------------
(* What the books say of the verdicts.                                     *)

\* Every variable keeps its type.
THEOREM TypeCorrect == Spec => []TypeOK
BY Invariant, PTL DEF Inv

Told(c, o, r) ==
    LET h == verdict[r].hit IN
    /\ h \in Places(c) /\ log[c][h].request = r
    /\ Refused(r) <=> Cardinality(Span(c, o, h)) > Limit(r)
    /\ Ends(c, o, h) - When(c, h) \in Nat
    /\ verdict[r].retryAfter = SecondsLeft(Ends(c, o, h) - When(c, h))

LEMMA VerdictTold ==
  ASSUME Inv, NEW c \in Counters, NEW o, NEW e, Book(c, o, e),
         NEW r \in Requests, verdict[r] # None, By(r) = c
  PROVE  Told(c, o, r)
<1>1. PICK counted \in Results : Counted(c, o, r, counted) /\ verdict[r] = VerdictOn(r, c, counted)
  BY DEF Book, VerdictsTold, By
<1>2. /\ verdict[r].hit = counted.hit
      /\ verdict[r].retryAfter = SecondsLeft(counted.timeToExpireMs)
      /\ verdict[r].outcome = "refused" <=> OverBudget(r, counted.totalHits)
  BY <1>1 DEF VerdictOn, Passed
<1>. QED
  BY <1>1, <1>2 DEF Told, Counted, Refused, OverBudget, Results

\* Of the places of a history.
LEMMA PastTyped ==
  ASSUME TypeOK, NEW c \in Counters, NEW o, NEW e, Past(c, o, e), NEW i \in Places(c)
  PROVE  /\ i \in Nat /\ i \in 1 .. i /\ 1 .. i \subseteq Places(c)
         /\ o[i] \in Places(c) /\ o[i] \in Nat /\ o[i] <= i /\ o[o[i]] = o[i]
         /\ Client(c, o[i]) = Client(c, i)
         /\ When(c, i) \in Nat /\ When(c, o[i]) \in Nat /\ When(c, o[i]) <= When(c, i)
         /\ When(c, i) <= When(c, o[i]) + WindowMs
<1>. DEFINE H == [request : Requests, at : Nat]
<1>1. log[c] \in Seq(H)
  BY DEF TypeOK
<1>2. Len(log[c]) \in Nat
  BY <1>1
<1>3. i \in Nat /\ i \in 1 .. i /\ 1 .. i \subseteq Places(c)
  BY <1>2 DEF Places
<1>4. PlacePast(c, o, e, i)
  BY DEF Past
<1>5. o[i] \in Places(c) /\ o[i] \in Nat /\ o[i] <= i /\ o[o[i]] = o[i]
  BY <1>3, <1>4 DEF PlacePast
<1>6. \A j \in Places(c) : When(c, j) \in Nat
  <2>. HIDE DEF H
  <2>1. \A j \in Places(c) : log[c][j] \in H
    BY <1>1 DEF Places
  <2>. QED
    BY <2>1 DEF H, When
<1>7. When(c, o[i]) <= When(c, i)
  BY <1>5 DEF Past, PairPast
<1>. QED
  BY <1>3, <1>4, <1>5, <1>6, <1>7 DEF PlacePast, Ends

\* A hit has its rank in its window for itself.
LEMMA OwnRank ==
  ASSUME NEW c, NEW o, NEW i \in Nat \ {0}, NEW j \in Nat, i <= j,
         o[i] = o[j], Client(c, i) = Client(c, j),
         Cardinality(Span(c, o, i)) = Cardinality(Span(c, o, j))
  PROVE  i = j
<1>1. Span(c, o, i) \subseteq Span(c, o, j) /\ j \in Span(c, o, j)
  BY DEF Span
<1>2. IsFiniteSet(Span(c, o, j))
  BY SpanFinite
<1>3. Span(c, o, i) = Span(c, o, j)
  BY <1>1, <1>2, FS_Subset
<1>4. j \in 1 .. i
  BY <1>1, <1>3 DEF Span
<1>. QED
  BY <1>4

(* The windows a client can hit within a window's length from time t on:   *)
(* one that is open at t, and one of each epoch.                           *)
Label(c, o, e, t, i) == IF When(c, o[i]) < t THEN Epoch(c) + 1 ELSE e[o[i]]

LEMMA SameWindow ==
  ASSUME TypeOK, NEW c \in Counters, NEW o, NEW e, Past(c, o, e), Epoch(c) \in Nat,
         NEW t \in Nat, NEW i \in Places(c), NEW j \in Places(c), i <= j,
         Client(c, i) = Client(c, j), t <= When(c, i), When(c, j) <= t + WindowMs - 1,
         Label(c, o, e, t, i) = Label(c, o, e, t, j)
  PROVE  o[i] = o[j]
<1>. SUFFICES ASSUME o[j] > i PROVE FALSE
  BY DEF Past, PairPast
<1>1. /\ o[i] \in Places(c) /\ o[i] \in Nat /\ o[i] <= i /\ o[o[i]] = o[i] /\ i \in Nat
      /\ Client(c, o[i]) = Client(c, i) /\ When(c, i) \in Nat /\ When(c, o[i]) \in Nat
  BY PastTyped
<1>2. /\ o[j] \in Places(c) /\ o[j] \in Nat /\ o[o[j]] = o[j]
      /\ Client(c, o[j]) = Client(c, j)
      /\ When(c, j) \in Nat /\ When(c, o[j]) \in Nat /\ When(c, o[j]) <= When(c, j)
  BY PastTyped
<1>3. When(c, i) <= When(c, o[j])
  BY <1>1, <1>2 DEF Past, PairPast
<1>4. Label(c, o, e, t, j) = e[o[j]]
  BY <1>1, <1>2, <1>3 DEF Label
<1>5. e[o[j]] \in 0 .. Epoch(c)
  BY <1>2 DEF Past, PlacePast
<1>6. t <= When(c, o[i]) /\ e[o[i]] = e[o[j]]
  BY <1>1, <1>4, <1>5 DEF Label
<1>7. When(c, o[i]) + WindowMs <= When(c, o[j])
  <2>1. o[i] <= o[j] /\ o[i] # o[j]
    BY <1>1, <1>2
  <2>2. PairPast(c, o, e, o[i], o[j])
    BY <1>1, <1>2, <2>1 DEF Past
  <2>. QED
    BY <1>1, <1>2, <1>6, <2>1, <2>2 DEF PairPast
<1>8. WindowMs \in Nat
  BY Constants
<1>. QED
  BY <1>1, <1>2, <1>6, <1>7, <1>8

-----------------------------------------------------------------------------
(* The properties.                                                         *)

LEMMA Ceiling == Inv => CeilingHolds
<1>. SUFFICES ASSUME Inv, NEW r \in Requests, LetPass(r), Limited(ask[r])
              PROVE  /\ By(r) # None
                     /\ LET sameSpan == {q \in Requests :
                                /\ LetPass(q) /\ By(q) = By(r) /\ Bucket(q) = Bucket(r)
                                /\ At(q) \in At(r) .. At(r) + WindowMs - 1}
                            windows == IF By(r) = "redis" THEN 2 + losses ELSE 2
                        IN Cardinality(sameSpan) <= windows * Limit(r)
  BY DEF CeilingHolds
<1>1. By(r) \in Counters /\ By(r) # None
  BY Constants DEF Inv, AskInv, LetPass, By
<1>2. PICK c, t : c \in Counters /\ c = By(r) /\ t = At(r)
  BY <1>1
<1>3. PICK o \in [Nat -> Nat], e \in [Nat -> Nat] : Book(c, o, e)
  BY <1>2 DEF Inv, BookInv
<1>4. Past(c, o, e) /\ TypeOK /\ Epoch(c) \in Nat
  BY <1>3 DEF Book, Inv, Epoch
<1>5. PICK S : S = {q \in Requests : /\ LetPass(q) /\ By(q) = By(r) /\ Bucket(q) = Bucket(r)
                                     /\ At(q) \in At(r) .. At(r) + WindowMs - 1}
  OBVIOUS
<1>6. PICK limit : limit = Limit(r)
  OBVIOUS
<1>7. limit \in Nat \ {0}
  BY <1>6, LimitTyped DEF Inv, TypeOK, AskInv, LetPass
<1>. DEFINE h(q) == verdict[q].hit
            rank(q) == Cardinality(Span(c, o, h(q)))
            label(q) == Label(c, o, e, t, h(q))
<1>8. ASSUME NEW q \in S
      PROVE  /\ q \in Requests /\ h(q) \in Places(c) /\ h(q) \in Nat \ {0} /\ log[c][h(q)].request = q
             /\ Client(c, h(q)) = Bucket(r)
             /\ t \in Nat /\ t <= When(c, h(q)) /\ When(c, h(q)) <= t + WindowMs - 1
             /\ label(q) \in 0 .. Epoch(c) + 1 /\ rank(q) \in 1 .. limit
  <2>1. /\ q \in Requests /\ LetPass(q) /\ verdict[q] # None /\ By(q) = c /\ Bucket(q) = Bucket(r)
        /\ At(q) \in t .. t + WindowMs - 1
    BY <1>2, <1>5 DEF LetPass
  <2>2. Told(c, o, q) /\ Told(c, o, r)
    BY <1>2, <1>3, <2>1, VerdictTold DEF LetPass
  <2>3. h(q) \in Places(c) /\ log[c][h(q)].request = q /\ At(q) = When(c, h(q))
    BY <2>1, <2>2 DEF Told, At, When
  <2>4. Client(c, h(q)) = Bucket(r)
    BY <2>1, <2>3 DEF Client
  <2>5. h(q) \in Nat \ {0} /\ h(q) \in 1 .. h(q) /\ o[h(q)] \in Places(c)
    BY <1>2, <1>4, <2>3, PastTyped, PlacesTyped
  <2>6. t \in Nat
    BY <1>2, <1>4, <2>2, PastTyped DEF Told, At, When
  <2>7. When(c, h(q)) \in Nat /\ WindowMs \in Nat
    BY <1>2, <1>4, <2>3, PastTyped, Constants
  <2>8. label(q) \in 0 .. Epoch(c) + 1
    <3>1. e[o[h(q)]] \in 0 .. Epoch(c)
      BY <1>4, <2>5 DEF Past, PlacePast
    <3>. QED
      BY <1>4, <3>1 DEF Label
  <2>9. rank(q) \in 1 .. limit
    <3>1. rank(q) \in Nat /\ IsFiniteSet(Span(c, o, h(q)))
      BY <2>5, SpanFinite
    <3>2. h(q) \in Span(c, o, h(q))
      BY <2>5 DEF Span
    <3>3. rank(q) # 0
      BY <3>1, <3>2, FS_EmptySet
    <3>4. Limit(q) = Limit(r)
      BY <2>1 DEF Bucket, BucketOf, Limit
    <3>5. ~(rank(q) > limit)
      BY <1>6, <2>1, <2>2, <3>4 DEF Told, Refused, LetPass
    <3>. QED
      BY <1>7, <3>1, <3>3, <3>5
  <2>. QED
    BY <2>1, <2>3, <2>4, <2>5, <2>6, <2>7, <2>8, <2>9
<1>9. ASSUME NEW p \in S, NEW q \in S, label(p) = label(q), rank(p) = rank(q)
      PROVE  p = q
  <2>. HIDE DEF h, label, rank
  <2>1. ASSUME NEW a \in S, NEW b \in S, label(a) = label(b), rank(a) = rank(b), h(a) <= h(b)
        PROVE  h(a) = h(b)
    <3>1. /\ h(a) \in Places(c) /\ h(b) \in Places(c) /\ h(a) \in Nat \ {0} /\ h(b) \in Nat
          /\ Client(c, h(a)) = Client(c, h(b))
          /\ t \in Nat /\ t <= When(c, h(a)) /\ When(c, h(b)) <= t + WindowMs - 1
      BY <1>8
    <3>2. o[h(a)] = o[h(b)]
      BY <1>2, <1>4, <2>1, <3>1, SameWindow DEF label
    <3>. QED
      BY <2>1, <3>1, <3>2, OwnRank DEF rank
  <2>2. h(p) \in Nat /\ h(q) \in Nat
    BY <1>8
  <2>3. h(p) = h(q)
    BY <1>9, <2>1, <2>2
  <2>. QED
    BY <1>8, <2>3
<1>. DEFINE T == (0 .. Epoch(c) + 1) \X (1 .. limit)
<1>10. IsFiniteSet(T) /\ Cardinality(T) = (Epoch(c) + 2) * limit
  <2>1. IsFiniteSet(0 .. Epoch(c) + 1) /\ Cardinality(0 .. Epoch(c) + 1) = Epoch(c) + 2
    <3>1. PICK m \in Nat : m = Epoch(c) + 1
      BY <1>4
    <3>2. IsFiniteSet(0 .. m) /\ Cardinality(0 .. m) = m + 1
      BY <3>1, FS_Interval, 0 \in Int, m \in Int
    <3>3. m + 1 = Epoch(c) + 2
      BY <1>4, <3>1
    <3>. QED
      BY <3>1, <3>2, <3>3
  <2>2. IsFiniteSet(1 .. limit) /\ Cardinality(1 .. limit) = limit
    BY <1>7, FS_Interval
  <2>3. PICK A, B : A = 0 .. Epoch(c) + 1 /\ B = 1 .. limit
    OBVIOUS
  <2>4. IsFiniteSet(A \X B) /\ Cardinality(A \X B) = Cardinality(A) * Cardinality(B)
    BY <2>1, <2>2, <2>3, FS_Product
  <2>. QED
    BY <2>1, <2>2, <2>3, <2>4
<1>11. Cardinality(S) <= Cardinality(T)
  <2>. DEFINE f == [q \in S |-> <<label(q), rank(q)>>]
  <2>1. f \in [S -> T]
    BY <1>8
  <2>2. \A p, q \in S : f[p] = f[q] => p = q
    BY <1>9
  <2>. HIDE DEF f, T
  <2>3. f \in Injection(S, T)
    BY <2>1, <2>2, Fun_IsInj
  <2>. QED
    BY <1>10, <2>3, FS_Injection
<1>12. Epoch(c) + 2 = IF By(r) = "redis" THEN 2 + losses ELSE 2
  BY <1>2 DEF Epoch, Inv
<1>13. Cardinality(S) <= (Epoch(c) + 2) * limit
  BY <1>10, <1>11
<1>. QED
  BY <1>1, <1>5, <1>6, <1>12, <1>13

\* The limiter never stops limiting, whatever Redis does.
THEOREM CeilingHoldsAlways == Spec => []CeilingHolds
BY Invariant, Ceiling, PTL

\* Of a request that was refused.
LEMMA RefusalTold ==
  ASSUME Inv, NEW r \in Requests, Refused(r), NEW c, c = By(r), NEW n, n = verdict[r].hit
  PROVE  \E o, e : /\ c \in Counters /\ Past(c, o, e) /\ TypeOK
                   /\ \A q \in Requests : verdict[q] # None /\ By(q) = c => Told(c, o, q)
                   /\ n \in Places(c) /\ Client(c, n) = Bucket(r) /\ At(r) = When(c, n)
                   /\ Cardinality(Span(c, o, n)) > Limit(r)
                   /\ Limit(r) \in Nat
<1>1. c \in Counters
  BY DEF Inv, AskInv, Refused, By
<1>2. PICK o \in [Nat -> Nat], e \in [Nat -> Nat] : Book(c, o, e)
  BY <1>1 DEF Inv, BookInv
<1>3. \A q \in Requests : verdict[q] # None /\ By(q) = c => Told(c, o, q)
  BY <1>1, <1>2, VerdictTold
<1>4. Told(c, o, r)
  BY <1>3 DEF Refused
<1>5. Limit(r) \in Nat
  BY LimitTyped DEF Inv, TypeOK, AskInv, Refused
<1>. QED
  BY <1>1, <1>2, <1>3, <1>4, <1>5 DEF Book, Inv, Told, Client, At, When

LEMMA Refusal == Inv => RefusedOnlyOverBudget
<1>. SUFFICES ASSUME Inv, NEW r \in Requests, Refused(r)
              PROVE  Cardinality({i \in HitsBeside(r) :
                                     /\ i <= verdict[r].hit
                                     /\ log[By(r)][i].at + WindowMs >= At(r)}) > Limit(r)
  BY DEF RefusedOnlyOverBudget
<1>1. PICK c, n : c = By(r) /\ n = verdict[r].hit
  OBVIOUS
<1>2. PICK o, e : /\ c \in Counters /\ Past(c, o, e) /\ TypeOK
                  /\ n \in Places(c) /\ Client(c, n) = Bucket(r) /\ At(r) = When(c, n)
                  /\ Cardinality(Span(c, o, n)) > Limit(r) /\ Limit(r) \in Nat
  BY <1>1, RefusalTold
<1>3. PICK S : S = {i \in HitsBeside(r) : i <= n /\ log[c][i].at + WindowMs >= At(r)}
  OBVIOUS
<1>4. Places(c) = DOMAIN log[c]
  <2>1. log[c] \in Seq([request : Requests, at : Nat])
    BY <1>2 DEF TypeOK
  <2>. QED
    BY <2>1 DEF Places
<1>5. Span(c, o, n) \subseteq S
  <2>. SUFFICES ASSUME NEW i \in Span(c, o, n) PROVE i \in S
    OBVIOUS
  <2>1. i \in Places(c) /\ i \in 1 .. n /\ Client(c, i) = Client(c, n) /\ o[i] = o[n]
    BY <1>2, PastTyped DEF Span
  <2>2. When(c, o[n]) <= When(c, i) /\ When(c, n) <= When(c, o[n]) + WindowMs
    BY <1>2, <2>1, PastTyped
  <2>3. /\ When(c, i) \in Nat /\ When(c, n) \in Nat /\ When(c, o[n]) \in Nat
        /\ WindowMs \in Nat /\ n \in Nat
    BY <1>2, <2>1, PastTyped, Constants
  <2>4. When(c, i) + WindowMs >= When(c, n) /\ i <= n
    BY <2>1, <2>2, <2>3
  <2>. QED
    BY <1>1, <1>2, <1>3, <1>4, <2>1, <2>4 DEF HitsBeside, Client, When
<1>6. IsFiniteSet(S) /\ Cardinality(S) \in Nat
  <2>1. n \in Nat /\ S \subseteq 1 .. n
    <3>1. \A i \in Places(c) : i \in Nat \ {0}
      BY <1>2, PlacesTyped
    <3>. QED
      BY <1>1, <1>2, <1>3, <1>4, <3>1 DEF HitsBeside
  <2>. QED
    BY <2>1, FS_Interval, FS_Subset, FS_CardinalityType, 1 \in Int, n \in Int
<1>7. Cardinality(Span(c, o, n)) <= Cardinality(S)
  BY <1>5, <1>6, FS_Subset
<1>8. Cardinality(Span(c, o, n)) \in Nat
  BY <1>5, <1>6, FS_Subset, FS_CardinalityType
<1>. QED
  BY <1>1, <1>2, <1>3, <1>6, <1>7, <1>8

\* A request is refused only for what its own client asked of its own route.
THEOREM RefusedOnlyOverBudgetAlways == Spec => []RefusedOnlyOverBudget
BY Invariant, Refusal, PTL

LEMMA RetryAfter == Inv => RetryAfterHonoured
<1>. SUFFICES ASSUME Inv, NEW q \in Requests, NEW r \in Requests, Refused(q), Refused(r),
                     Bucket(q) = Bucket(r), By(q) = By(r),
                     At(r) > At(q) + verdict[q].retryAfter * Second
              PROVE  Cardinality({i \in HitsBeside(r) :
                                     verdict[q].hit < i /\ i < verdict[r].hit}) >= Limit(r)
  BY DEF RetryAfterHonoured
<1>1. PICK c, m, n : c = By(r) /\ m = verdict[q].hit /\ n = verdict[r].hit
  OBVIOUS
<1>2. PICK o, e : /\ c \in Counters /\ Past(c, o, e) /\ TypeOK
                  /\ \A p \in Requests : verdict[p] # None /\ By(p) = c => Told(c, o, p)
                  /\ n \in Places(c) /\ Client(c, n) = Bucket(r) /\ At(r) = When(c, n)
                  /\ Cardinality(Span(c, o, n)) > Limit(r) /\ Limit(r) \in Nat
  BY <1>1, RefusalTold
<1>3. Told(c, o, q)
  BY <1>1, <1>2 DEF Refused
<1>4. m \in Places(c) /\ Client(c, m) = Bucket(r) /\ At(q) = When(c, m)
  BY <1>1, <1>3 DEF Told, Client, At, When
<1>5. PICK left \in Nat : /\ left = Ends(c, o, m) - When(c, m)
                          /\ verdict[q].retryAfter = SecondsLeft(left)
  BY <1>1, <1>3 DEF Told
<1>6. /\ m \in Nat /\ n \in Nat /\ 1 .. n \subseteq Places(c) /\ n \in 1 .. n
      /\ When(c, m) \in Nat /\ When(c, n) \in Nat /\ When(c, o[m]) \in Nat /\ When(c, o[n]) \in Nat
      /\ o[n] \in Nat /\ WindowMs \in Nat
      /\ When(c, n) <= When(c, o[n]) + WindowMs
  BY <1>2, <1>4, PastTyped, Constants
<1>7. When(c, n) > When(c, m) + left /\ When(c, n) > When(c, o[m]) + WindowMs
  <2>1. PICK wait : wait = SecondsLeft(left) * Second
    OBVIOUS
  <2>2. wait \in Nat /\ wait >= left
    <3>1. SecondsLeft(left) \in Nat /\ Second \in Nat
      BY SecondsRounded, Constants
    <3>. QED
      BY <2>1, <3>1, SecondsRounded
  <2>3. When(c, n) > When(c, m) + wait
    BY <1>2, <1>4, <1>5, <2>1
  <2>. QED
    BY <1>5, <1>6, <2>2, <2>3 DEF Ends
<1>8. m < n
  <2>1. n <= m => When(c, n) <= When(c, m)
    BY <1>2, <1>4 DEF Past, PairPast
  <2>. QED
    BY <1>5, <1>6, <1>7, <2>1
<1>9. o[n] > m
  <2>1. o[n] = o[m] \/ o[n] > m
    BY <1>2, <1>4, <1>6, <1>8 DEF Past, PairPast
  <2>. QED
    BY <1>6, <1>7, <2>1
<1>10. PICK S : S = {i \in HitsBeside(r) : m < i /\ i < n}
  OBVIOUS
<1>11. Places(c) = DOMAIN log[c]
  <2>1. log[c] \in Seq([request : Requests, at : Nat])
    BY <1>2 DEF TypeOK
  <2>. QED
    BY <2>1 DEF Places
<1>12. Span(c, o, n) \ {n} \subseteq S
  <2>. SUFFICES ASSUME NEW i \in Span(c, o, n) \ {n} PROVE i \in S
    OBVIOUS
  <2>1. i \in Places(c) /\ i \in 1 .. n /\ i # n /\ Client(c, i) = Client(c, n) /\ o[i] = o[n]
    BY <1>2, <1>6 DEF Span
  <2>2. o[i] <= i /\ i \in Nat
    BY <1>2, <2>1, PastTyped
  <2>3. m < i /\ i < n
    BY <1>6, <1>9, <2>1, <2>2
  <2>. QED
    BY <1>1, <1>2, <1>10, <1>11, <2>1, <2>3 DEF HitsBeside, Client
<1>13. IsFiniteSet(S) /\ Cardinality(S) \in Nat
  <2>1. S \subseteq 1 .. n
    <3>1. \A i \in Places(c) : i \in Nat \ {0}
      BY <1>2, PlacesTyped
    <3>. QED
      BY <1>1, <1>6, <1>10, <1>11, <3>1 DEF HitsBeside
  <2>. QED
    BY <1>6, <2>1, FS_Interval, FS_Subset, FS_CardinalityType, 1 \in Int, n \in Int
<1>14. Cardinality(Span(c, o, n) \ {n}) = Cardinality(Span(c, o, n)) - 1
  <2>1. n \in Span(c, o, n) /\ IsFiniteSet(Span(c, o, n))
    BY <1>6, SpanFinite DEF Span
  <2>. QED
    BY <2>1, FS_RemoveElement
<1>15. Cardinality(Span(c, o, n) \ {n}) <= Cardinality(S)
  BY <1>12, <1>13, FS_Subset
<1>16. Cardinality(Span(c, o, n)) \in Nat
  BY <1>6, SpanFinite
<1>17. Cardinality(S) >= Limit(r)
  BY <1>2, <1>13, <1>14, <1>15, <1>16
<1>. QED
  BY <1>1, <1>10, <1>17

\* A client that waits longer than Retry-After told it finds the budget replenished.
THEOREM RetryAfterHonouredAlways == Spec => []RetryAfterHonoured
BY Invariant, RetryAfter, PTL

\* After a hit on a memory, no window that elapsed longer than a sweep interval ago is left.
THEOREM ElapsedWindowsAreSweptAlways == Spec => ElapsedWindowsAreSwept
<1>1. ASSUME Inv, Inv', [Next]_vars, NEW p \in Instances, NEW b \in Buckets,
             window'[p] # window[p], window'[p][b] # None
      PROVE  window'[p][b].expiresAt + SweepMs > now
  <2>1. RedisRejects(p)
    <3>1. window[p] # window'[p] /\ p # "redis" /\ "redis" \in Counters
      BY <1>1, Constants
    <3>2. ASSUME NEW q \in Instances, RedisRejects(q) PROVE RedisRejects(p)
      <4>1. q # p => window'[p] = window[p]
        BY <3>2, Constants DEF RedisRejects, FallBack, Inv, TypeOK
      <4>. QED
        BY <3>1, <3>2, <4>1
    <3>3. ASSUME NEW q \in Instances, RedisExecutes(q) PROVE window'[p] = window[p]
      BY <3>1, <3>3, Constants DEF RedisExecutes, Inv, TypeOK
    <3>4. Forget => window'[p] = window[p]
      BY <3>1, Constants DEF Forget, Inv, TypeOK
    <3>. QED
      BY <1>1, <3>1, <3>2, <3>3, <3>4
      DEF Next, vars, Skip, Ask, RedisReplies, Reconnect, Tick
  <2>2. lastSweep'[p] = now \/ now - lastSweep'[p] < SweepMs
    <3>1. lastSweep'[p] = SweptAt(p)
      BY <2>1, <1>1 DEF RedisRejects, FallBack, Inv, TypeOK
    <3>. QED
      BY <1>1, <3>1, Constants DEF SweptAt, SweepDue, Inv, TypeOK
  <2>3. window'[p][b].expiresAt > lastSweep'[p]
    BY <1>1 DEF Inv, SweepInv
  <2>4. /\ lastSweep'[p] \in Nat /\ now \in Nat /\ SweepMs \in Nat \ {0}
        /\ window'[p][b].expiresAt \in Nat
    <3>1. window'[p][b] \in Windows
      BY <1>1, Constants DEF Inv, TypeOK
    <3>2. lastSweep'[p] \in Nat
      BY <1>1 DEF Inv, TypeOK
    <3>3. now \in Nat /\ SweepMs \in Nat \ {0}
      BY <1>1, Constants DEF Inv, TypeOK
    <3>. QED
      BY <3>1, <3>2, <3>3 DEF Windows
  <2>. QED
    BY <2>2, <2>3, <2>4
<1>2. Inv /\ Inv' /\ [Next]_vars =>
          [\A p \in Instances, b \in Buckets :
              window'[p] # window[p] /\ window'[p][b] # None
                  => window'[p][b].expiresAt + SweepMs > now]_vars
  BY <1>1
<1>. QED
  BY <1>2, Invariant, PTL DEF Spec, ElapsedWindowsAreSwept

\* No failure of Redis fails or loses a request.
THEOREM NoRequestLostAlways == Spec => NoRequestLost
<1>1. ASSUME Inv, Next, NEW r \in Requests, Waiting(r), ~Waiting(r)'
      PROVE  verdict'[r] # None
  <2>0. PICK p \in Instances : WaitsAt(r, p)
    BY <1>1 DEF Waiting
  <2>1. PICK i \in DOMAIN conn[p] : conn[p][i] = r
    BY <2>0 DEF WaitsAt
  <2>2. conn[p] \in Seq(Requests) /\ verdict \in [Requests -> Verdicts \cup {None}]
        /\ conn \in [Instances -> Seq(Requests)]
    BY <1>1 DEF Inv, TypeOK
  <2>3. ~\E j \in DOMAIN conn'[p] : conn'[p][j] = r
    BY <1>1 DEF Waiting, WaitsAt
  <2>4. conn'[p] # conn[p]
    BY <2>1, <2>3
  <2>5. PICK v : v = verdict'[r]
    OBVIOUS
  <2>6. ASSUME conn'[p] = Tail(conn[p]) PROVE r = Head(conn[p])
    <3>1. \A s \in Seq(Requests) : \A j \in DOMAIN s :
              j = 1 \/ (j - 1 \in DOMAIN Tail(s) /\ Tail(s)[j - 1] = s[j])
      OBVIOUS
    <3>2. i = 1
      BY <2>1, <2>2, <2>3, <2>6, <3>1
    <3>. QED
      BY <2>1, <2>2, <3>2
  <2>7. ASSUME NEW q \in Instances, RedisReplies(q) PROVE v # None
    <3>1. conn' = [conn EXCEPT ![q] = Tail(@)]
          /\ verdict' = [verdict EXCEPT ![Head(conn[q])] =
                           VerdictOn(Head(conn[q]), "redis", result[Head(conn[q])])]
          /\ result[Head(conn[q])] # None
      BY <2>7 DEF RedisReplies, Decide
    <3>2. q = p /\ r = Head(conn[p])
      BY <2>2, <2>4, <2>6, <3>1
    <3>3. result[r] \in Results /\ "redis" \in Counters
      BY <1>1, <3>1, <3>2, Constants DEF Inv, TypeOK
    <3>4. v = VerdictOn(r, "redis", result[r])
      BY <2>2, <2>5, <3>1, <3>2
    <3>. QED
      BY <3>3, <3>4, VerdictTyped, NoneAssumption
  <2>8. ASSUME NEW q \in Instances, RedisRejects(q) PROVE v # None
    <3>1. PICK counted : counted = Count(q, HitInMemory(q, Bucket(Head(conn[q]))))
      OBVIOUS
    <3>2. conn' = [conn EXCEPT ![q] = Tail(@)]
          /\ verdict' = [verdict EXCEPT ![Head(conn[q])] = VerdictOn(Head(conn[q]), q, counted)]
      BY <2>8, <3>1 DEF RedisRejects, FallBack, Decide
    <3>3. q = p /\ r = Head(conn[p])
      BY <2>2, <2>4, <2>6, <3>2
    <3>4. v = VerdictOn(r, p, counted)
      BY <2>2, <2>5, <3>2, <3>3
    <3>5. counted \in Results /\ p \in Counters
      BY <1>1, <2>1, <3>1, <3>3, MemoryHit, Constants DEF Inv, AskInv
    <3>. QED
      BY <3>4, <3>5, VerdictTyped, NoneAssumption
  <2>9. ASSUME NEW q \in Requests, NEW a \in Asks, NEW m \in Instances, Ask(q, a, m) PROVE FALSE
    <3>1. conn'[p] = conn[p] \/ conn'[p] = Append(conn[p], q)
      BY <2>2, <2>9 DEF Ask
    <3>2. i \in DOMAIN Append(conn[p], q) /\ Append(conn[p], q)[i] = r
      BY <2>1, <2>2
    <3>. QED
      BY <2>3, <2>4, <3>1, <3>2
  <2>. QED
    BY <2>4, <2>5, <2>7, <2>8, <2>9, <1>1
    DEF Next, Skip, RedisExecutes, Reconnect, Forget, Tick
<1>2. Inv /\ [Next]_vars =>
          [\A r \in Requests : Waiting(r) /\ ~Waiting(r)' => verdict'[r] # None]_vars
  BY <1>1
<1>. QED
  BY <1>2, Invariant, PTL DEF Spec, NoRequestLost

=============================================================================
