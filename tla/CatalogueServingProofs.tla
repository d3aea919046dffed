------------------------- MODULE CatalogueServingProofs -------------------------
(***************************************************************************)
(* No answer is older than it may be, for any number of processes, lives   *)
(* of entries, products and generations.  The inductive invariant trades   *)
(* the age of an answer for the life it has left: while an entry ages, its *)
(* life shortens, so the sum never grows.                                  *)
(***************************************************************************)
EXTENDS CatalogueServing, TLAPS

CatalogueCurrent == serving # 0 => last[content] = 0
LoadsYoung == \A p \in Processes :
    load[p].at = "answered" => last[load[p].content] <= load[p].age
EntryLives == cache.left > 0 => last[cache.content] + cache.left <= OldestEntry
CopyLives == copy.left > 0 => last[copy.content] + copy.left <= OldestCopy

Inv == TypeOK /\ CatalogueCurrent /\ LoadsYoung /\ EntryLives /\ CopyLives

(* What withJitter returns is a life an entry may have.                    *)
LEMMA JitterBounded ==
    ASSUME NEW p \in Processes, Ttl[p] > 0, NEW life \in WithJitter(Ttl[p])
    PROVE  life \in 1 .. LongestExpiry
<1> DEFINE t == Ttl[p]
<1>1. t \in Nat /\ LongestExpiry \in Nat /\ 11 * t + 4 < 10 * (LongestExpiry + 1)
  BY ServingAssumption
<1>2. PICK n \in (9 * t + 5) \div 10 .. (11 * t + 4) \div 10 : life = IF n < 1 THEN 1 ELSE n
  <2>1. t > 0
    OBVIOUS
  <2> QED BY <1>1, <2>1 DEF WithJitter
<1> HIDE DEF t
<1>3. t > 0
  BY DEF t
<1>4. (11 * t + 4) \div 10 <= LongestExpiry
  BY <1>1, <1>3
<1> QED BY <1>1, <1>2, <1>3, <1>4

LEMMA Bounds ==
    /\ OldestEntry \in Nat /\ OldestCopy \in Nat /\ Never \in Nat
    /\ OldestEntry = Patience + LongestExpiry
    /\ OldestCopy = OldestEntry + LongestExpiry
    /\ Never = OldestCopy + 1
    /\ Patience \in Nat /\ LongestExpiry \in Nat
BY ServingAssumption DEF OldestEntry, OldestCopy, Never

LEMMA TtlBounded ==
    ASSUME NEW p \in Processes
    PROVE  Ttl[p] \in 0 .. LongestExpiry
<1>1. Ttl[p] \in Nat /\ LongestExpiry \in Nat /\ 11 * Ttl[p] + 4 < 10 * (LongestExpiry + 1)
  BY ServingAssumption
<1> DEFINE t == Ttl[p]
<1>2. t \in Nat /\ LongestExpiry \in Nat /\ 11 * t + 4 < 10 * (LongestExpiry + 1)
  BY <1>1
<1> HIDE DEF t
<1>3. t \in 0 .. LongestExpiry
  BY <1>2
<1> QED BY <1>3 DEF t

LEMMA ContentsTyped ==
    /\ Catalogue!Nothing \in Contents
    /\ \A g \in Generations : Catalogue!Whole(g) \in Contents
    /\ Catalogue!FirstContents \subseteq Contents
<1>1. Catalogue!Nothing \in Contents
  BY DEF Catalogue!Nothing, Contents
<1>2. \A g \in Generations : Catalogue!Whole(g) \in Contents
  BY DEF Catalogue!Whole, Contents
<1> QED BY <1>1, <1>2 DEF Catalogue!FirstContents

-----------------------------------------------------------------------------

LEMMA InitInv == Init => Inv
<1> SUFFICES ASSUME Init PROVE Inv
  OBVIOUS
<1> USE DEF Init
<1>1. serving \in Nat /\ content \in Contents
  BY ContentsTyped DEF Catalogue!Init
<1>2. load = [p \in Processes |-> [at |-> "idle", content |-> Catalogue!Nothing, age |-> 0]]
  BY DEF Idle
<1>3. cache = [content |-> Catalogue!Nothing, left |-> 0] /\ copy = cache
  BY DEF Expired
<1>4. last \in [Contents -> 0 .. Never]
  BY Bounds
<1>5. changes \in 0 .. MaxChanges
  BY ServingAssumption
<1>6. TypeOK
  <2>1. load \in [Processes -> [at : {"idle", "asked", "answered"},
                                content : Contents, age : 0 .. Patience]]
    BY <1>2, ContentsTyped, Bounds
  <2>2. cache \in [content : Contents, left : 0 .. LongestExpiry]
    BY <1>3, ContentsTyped, Bounds
  <2> QED BY <1>1, <1>3, <1>4, <1>5, <2>1, <2>2 DEF TypeOK
<1>7. CatalogueCurrent
  BY <1>1 DEF CatalogueCurrent
<1>8. LoadsYoung
  BY <1>2 DEF LoadsYoung
<1>9. EntryLives /\ CopyLives
  BY <1>3 DEF EntryLives, CopyLives
<1> QED BY <1>6, <1>7, <1>8, <1>9 DEF Inv

(* The catalogue stays typed, and is there once it has changed.            *)
LEMMA CatalogueStep ==
    ASSUME Catalogue!Next, content \in Contents, serving \in Nat
    PROVE  serving' \in Nat \ {0} /\ content' \in Contents
<1>1. CASE Catalogue!Provision
  BY <1>1, ContentsTyped DEF Catalogue!Provision
<1>2. ASSUME NEW g \in Generations, Catalogue!Switch(g)
      PROVE  serving' \in Nat \ {0} /\ content' \in Contents
  BY <1>2, ContentsTyped DEF Catalogue!Switch
<1>3. ASSUME NEW g \in Generations, NEW p \in Products, Catalogue!Upsert(g, p)
      PROVE  serving' \in Nat \ {0} /\ content' \in Contents
  BY <1>3 DEF Catalogue!Upsert, Contents
<1> QED BY <1>1, <1>2, <1>3 DEF Catalogue!Next

LEMMA ChangeInv == Inv /\ Change => Inv'
<1> SUFFICES ASSUME Inv, Change PROVE Inv'
  OBVIOUS
<1>1. serving' \in Nat \ {0} /\ content' \in Contents
  BY CatalogueStep DEF Inv, TypeOK, Change
<1>2. last' = [last EXCEPT ![content'] = 0] /\ UNCHANGED <<load, cache, copy>>
  BY DEF Change
<1>3. last \in [Contents -> 0 .. Never]
  BY DEF Inv, TypeOK
<1>4. last' \in [Contents -> 0 .. Never] /\ last'[content'] = 0
  BY <1>1, <1>2, <1>3, Bounds
<1>5. \A c \in Contents : last'[c] <= last[c]
  BY <1>2, <1>3, <1>1, Bounds
<1>6. TypeOK'
  <2>1. changes' \in 0 .. MaxChanges
    BY ServingAssumption DEF Change, Inv, TypeOK
  <2> QED BY <1>1, <1>2, <1>4, <2>1 DEF Inv, TypeOK
<1>7. CatalogueCurrent'
  BY <1>4 DEF CatalogueCurrent
<1>8. LoadsYoung'
  <2> SUFFICES ASSUME NEW p \in Processes, load'[p].at = "answered"
               PROVE  last'[load'[p].content] <= load'[p].age
    BY DEF LoadsYoung
  <2>1. load[p].content \in Contents /\ load[p].age \in Nat
    BY Bounds DEF Inv, TypeOK
  <2>2. last[load[p].content] <= load[p].age
    BY <1>2 DEF Inv, LoadsYoung
  <2> QED BY <1>2, <1>3, <1>4, <1>5, <2>1, <2>2, Bounds
<1>9. EntryLives'
  <2>1. cache.content \in Contents /\ cache.left \in Nat
    BY Bounds DEF Inv, TypeOK
  <2> QED BY <1>2, <1>3, <1>4, <1>5, <2>1, Bounds DEF Inv, EntryLives
<1>10. CopyLives'
  <2>1. copy.content \in Contents /\ copy.left \in Nat
    BY Bounds DEF Inv, TypeOK
  <2> QED BY <1>2, <1>3, <1>4, <1>5, <2>1, Bounds DEF Inv, CopyLives
<1> QED BY <1>6, <1>7, <1>8, <1>9, <1>10 DEF Inv

(* A response whose answer still has a life of an entry left to it.        *)
LEMMA RespondInv ==
    ASSUME Inv, NEW p \in Processes, NEW answer \in Contents, Respond(p, answer),
           last[answer] <= OldestEntry, UNCHANGED last
    PROVE  copy' \in [content : Contents, left : 0 .. LongestExpiry] /\ CopyLives'
<1>1. last \in [Contents -> 0 .. Never]
  BY DEF Inv, TypeOK
<1>2. CASE copy' = copy
  BY <1>2 DEF Inv, TypeOK, CopyLives
<1>3. CASE copy' = [content |-> answer, left |-> Ttl[p]]
  <2>1. Ttl[p] \in 0 .. LongestExpiry
    BY TtlBounded
  <2>2. last[answer] \in Nat
    BY <1>1, Bounds
  <2> QED BY <1>3, <2>1, <2>2, Bounds DEF CopyLives
<1> QED BY <1>2, <1>3 DEF Respond

LEMMA HitInv == ASSUME NEW p \in Processes PROVE Inv /\ Hit(p) => Inv'
<1> SUFFICES ASSUME Inv, Hit(p) PROVE Inv'
  OBVIOUS
<1>1. cache.content \in Contents /\ cache.left \in Nat /\ cache.left > 0
  BY Bounds DEF Inv, TypeOK, Hit
<1>2. last[cache.content] \in Nat
  BY <1>1, Bounds DEF Inv, TypeOK
<1>3. last[cache.content] <= OldestEntry
  BY <1>1, <1>2, Bounds DEF Inv, EntryLives
<1>4. /\ Respond(p, cache.content)
      /\ UNCHANGED <<serving, content, changes, last, load, cache>>
  BY DEF Hit, catalogueVars
<1>5. copy' \in [content : Contents, left : 0 .. LongestExpiry] /\ CopyLives'
  BY <1>1, <1>3, <1>4, RespondInv
<1>6. TypeOK'
  BY <1>4, <1>5 DEF Inv, TypeOK
<1>7. CatalogueCurrent' /\ LoadsYoung' /\ EntryLives'
  BY <1>4 DEF Inv, CatalogueCurrent, LoadsYoung, EntryLives
<1> QED BY <1>5, <1>6, <1>7 DEF Inv

LEMMA LoadEndsInv == ASSUME NEW p \in Processes PROVE Inv /\ LoadEnds(p) => Inv'
<1> SUFFICES ASSUME Inv, LoadEnds(p) PROVE Inv'
  OBVIOUS
<1> DEFINE answer == load[p].content
<1>1. answer \in Contents /\ load[p].age \in 0 .. Patience /\ load[p].at = "answered"
  BY DEF Inv, TypeOK, LoadEnds
<1>2. last[answer] \in Nat
  BY <1>1, Bounds DEF Inv, TypeOK
<1>3. last[answer] <= Patience
  BY <1>1, <1>2, Bounds DEF Inv, LoadsYoung
<1>4. UNCHANGED <<serving, content, changes, last>> /\ load' = [load EXCEPT ![p] = Idle]
  BY DEF LoadEnds, LoadLeaves, catalogueVars
<1>5. copy' \in [content : Contents, left : 0 .. LongestExpiry] /\ CopyLives'
  <2>1. last[answer] <= OldestEntry
    BY <1>2, <1>3, Bounds
  <2> QED BY <1>1, <1>4, <2>1, RespondInv DEF LoadEnds
<1>6. cache' \in [content : Contents, left : 0 .. LongestExpiry] /\ EntryLives'
  <2>1. CASE UNCHANGED cache
    BY <1>4, <2>1 DEF Inv, TypeOK, EntryLives
  <2>2. ASSUME Ttl[p] > 0, NEW life \in WithJitter(Ttl[p]),
               cache' = [content |-> load[p].content, left |-> life]
        PROVE  cache' \in [content : Contents, left : 0 .. LongestExpiry] /\ EntryLives'
    <3>1. life \in 1 .. LongestExpiry
      BY <2>2, JitterBounded
    <3> QED BY <1>1, <1>2, <1>3, <1>4, <2>2, <3>1, Bounds DEF EntryLives
  <2> QED BY <2>1, <2>2 DEF LoadEnds
<1>7. load' \in [Processes -> [at : {"idle", "asked", "answered"},
                               content : Contents, age : 0 .. Patience]]
  BY <1>4, ContentsTyped, Bounds DEF Inv, TypeOK, Idle
<1>8. TypeOK'
  BY <1>4, <1>5, <1>6, <1>7 DEF Inv, TypeOK
<1>9. CatalogueCurrent'
  BY <1>4 DEF Inv, CatalogueCurrent
<1>10. LoadsYoung'
  <2> SUFFICES ASSUME NEW q \in Processes, load'[q].at = "answered"
               PROVE  last'[load'[q].content] <= load'[q].age
    BY DEF LoadsYoung
  <2>1. q # p
    BY <1>4 DEF Idle, Inv, TypeOK
  <2>2. load'[q] = load[q]
    BY <1>4, <2>1 DEF Inv, TypeOK
  <2> QED BY <1>4, <2>2 DEF Inv, LoadsYoung
<1> QED BY <1>5, <1>6, <1>8, <1>9, <1>10 DEF Inv

(* Miss, EngineAnswers and LoadLost touch one load only.                   *)
LEMMA LoadStepInv ==
    ASSUME NEW p \in Processes
    PROVE  Inv /\ (Miss(p) \/ EngineAnswers(p) \/ LoadLost(p)) => Inv'
<1> SUFFICES ASSUME Inv, Miss(p) \/ EngineAnswers(p) \/ LoadLost(p) PROVE Inv'
  OBVIOUS
<1>1. UNCHANGED <<serving, content, changes, last, cache, copy>>
  BY DEF Miss, EngineAnswers, LoadLost, catalogueVars
<1>2. PICK l \in [at : {"idle", "asked", "answered"}, content : Contents, age : 0 .. Patience] :
        /\ load' = [load EXCEPT ![p] = l]
        /\ l.at = "answered" => serving # 0 /\ l.content = content /\ l.age = 0
  <2>1. Idle \in [at : {"idle", "asked", "answered"}, content : Contents, age : 0 .. Patience]
        /\ Idle.at = "idle"
    BY ContentsTyped, Bounds DEF Idle
  <2>2. Asked \in [at : {"idle", "asked", "answered"}, content : Contents, age : 0 .. Patience]
        /\ Asked.at = "asked"
    BY ContentsTyped, Bounds DEF Asked, Idle
  <2>3. CASE Miss(p)
    BY <2>2, <2>3 DEF Miss
  <2>4. CASE LoadLost(p)
    BY <2>1, <2>4 DEF LoadLost
  <2>5. CASE EngineAnswers(p)
    <3>1. content \in Contents
      BY DEF Inv, TypeOK
    <3> DEFINE answered == [at |-> "answered", content |-> content, age |-> 0]
    <3>2. answered \in [at : {"idle", "asked", "answered"}, content : Contents, age : 0 .. Patience]
      BY <3>1, Bounds
    <3>3. serving # 0 /\ load' = [load EXCEPT ![p] = answered]
      BY <2>5 DEF EngineAnswers
    <3>4. answered.at = "answered" => answered.content = content /\ answered.age = 0
      OBVIOUS
    <3> HIDE DEF answered
    <3> QED BY <3>2, <3>3, <3>4
  <2> QED BY <2>3, <2>4, <2>5
<1>3. load' \in [Processes -> [at : {"idle", "asked", "answered"},
                               content : Contents, age : 0 .. Patience]]
  BY <1>2 DEF Inv, TypeOK
<1>4. TypeOK'
  BY <1>1, <1>3 DEF Inv, TypeOK
<1>5. CatalogueCurrent' /\ EntryLives' /\ CopyLives'
  BY <1>1 DEF Inv, CatalogueCurrent, EntryLives, CopyLives
<1>6. LoadsYoung'
  <2> SUFFICES ASSUME NEW q \in Processes, load'[q].at = "answered"
               PROVE  last'[load'[q].content] <= load'[q].age
    BY DEF LoadsYoung
  <2>1. CASE q = p
    <3>1. load'[q] = l
      BY <1>2, <2>1 DEF Inv, TypeOK
    <3>2. last[content] = 0
      BY <1>2, <3>1 DEF Inv, CatalogueCurrent
    <3> QED BY <1>1, <1>2, <3>1, <3>2
  <2>2. CASE q # p
    <3>1. load'[q] = load[q]
      BY <1>2, <2>2 DEF Inv, TypeOK
    <3> QED BY <1>1, <3>1 DEF Inv, LoadsYoung
  <2> QED BY <2>1, <2>2
<1> QED BY <1>4, <1>5, <1>6 DEF Inv

LEMMA ForgetInv == Inv /\ (Evict \/ Discard) => Inv'
<1> SUFFICES ASSUME Inv, Evict \/ Discard PROVE Inv'
  OBVIOUS
<1>1. UNCHANGED <<serving, content, changes, last, load>>
  BY DEF Evict, Discard, catalogueVars
<1>2. /\ cache' = cache \/ cache' = Expired
      /\ copy' = copy \/ copy' = Expired
  BY DEF Evict, Discard
<1>3. Expired \in [content : Contents, left : 0 .. LongestExpiry] /\ Expired.left = 0
  BY ContentsTyped, Bounds DEF Expired
<1>4. TypeOK'
  BY <1>1, <1>2, <1>3 DEF Inv, TypeOK
<1>5. CatalogueCurrent' /\ LoadsYoung'
  BY <1>1 DEF Inv, CatalogueCurrent, LoadsYoung
<1>6. EntryLives'
  BY <1>1, <1>2, <1>3 DEF Inv, EntryLives
<1>7. CopyLives'
  BY <1>1, <1>2, <1>3 DEF Inv, CopyLives
<1> QED BY <1>4, <1>5, <1>6, <1>7 DEF Inv

(* While an entry loses one tick of its life, its answer grows at most one *)
(* tick older.                                                             *)
LEMMA OneLessLives ==
    ASSUME NEW entry \in [content : Contents, left : 0 .. LongestExpiry], NEW bound \in Nat,
           NEW before \in [Contents -> 0 .. Never], NEW after \in [Contents -> 0 .. Never],
           \A c \in Contents : after[c] <= before[c] + 1,
           entry.left > 0 => before[entry.content] + entry.left <= bound
    PROVE  /\ OneLess(entry) \in [content : Contents, left : 0 .. LongestExpiry]
           /\ OneLess(entry).left > 0
                => after[OneLess(entry).content] + OneLess(entry).left <= bound
<1>1. CASE entry.left > 1
  <2>1. OneLess(entry) = [content |-> entry.content, left |-> entry.left - 1]
    BY <1>1 DEF OneLess
  <2>2. entry.content \in Contents /\ entry.left \in 0 .. LongestExpiry
    OBVIOUS
  <2>3. after[entry.content] \in Nat /\ before[entry.content] \in Nat
    BY <2>2, Bounds
  <2> QED BY <1>1, <2>1, <2>2, <2>3, Bounds
<1>2. CASE ~(entry.left > 1)
  BY <1>2, ContentsTyped, Bounds DEF OneLess, Expired
<1> QED BY <1>1, <1>2

LEMMA TickInv == Inv /\ Tick => Inv'
<1> SUFFICES ASSUME Inv, Tick PROVE Inv'
  OBVIOUS
<1>1. last \in [Contents -> 0 .. Never]
  BY DEF Inv, TypeOK
<1>2. last' = [c \in Contents |->
                  IF serving # 0 /\ c = content THEN 0
                  ELSE IF last[c] < Never THEN last[c] + 1 ELSE Never]
  BY DEF Tick
<1>3. last' \in [Contents -> 0 .. Never] /\ \A c \in Contents : last'[c] <= last[c] + 1
  BY <1>1, <1>2, Bounds
<1>4. UNCHANGED <<serving, content, changes>>
  BY DEF Tick, catalogueVars
<1>5. /\ cache' \in [content : Contents, left : 0 .. LongestExpiry] /\ EntryLives'
  <2>1. cache \in [content : Contents, left : 0 .. LongestExpiry] /\ EntryLives
    BY DEF Inv, TypeOK
  <2>2. cache' = OneLess(cache)
    BY DEF Tick
  <2> QED BY <1>1, <1>3, <2>1, <2>2, OneLessLives, Bounds DEF EntryLives
<1>6. /\ copy' \in [content : Contents, left : 0 .. LongestExpiry] /\ CopyLives'
  <2>1. copy \in [content : Contents, left : 0 .. LongestExpiry] /\ CopyLives
    BY DEF Inv, TypeOK
  <2>2. copy' = OneLess(copy)
    BY DEF Tick
  <2> QED BY <1>1, <1>3, <2>1, <2>2, OneLessLives, Bounds DEF CopyLives
<1>7. \A p \in Processes :
        /\ load[p] \in [at : {"idle", "asked", "answered"}, content : Contents, age : 0 .. Patience]
        /\ load[p].at = "answered" => load[p].age < Patience
        /\ load'[p] = IF load[p].at = "answered"
                      THEN [at |-> "answered", content |-> load[p].content, age |-> load[p].age + 1]
                      ELSE load[p]
  BY DEF Inv, TypeOK, Tick
<1>8. load' \in [Processes -> [at : {"idle", "asked", "answered"},
                               content : Contents, age : 0 .. Patience]]
  <2>1. \A p \in Processes :
          load'[p] \in [at : {"idle", "asked", "answered"}, content : Contents, age : 0 .. Patience]
    <3> SUFFICES ASSUME NEW p \in Processes
                 PROVE  load'[p] \in [at : {"idle", "asked", "answered"},
                                      content : Contents, age : 0 .. Patience]
      OBVIOUS
    <3>1. load[p] \in [at : {"idle", "asked", "answered"}, content : Contents, age : 0 .. Patience]
      BY <1>7
    <3>2. CASE load[p].at = "answered"
      <4>1. load'[p] = [at |-> "answered", content |-> load[p].content, age |-> load[p].age + 1]
        BY <1>7, <3>2
      <4>2. load[p].age < Patience
        BY <1>7, <3>2
      <4>3. load[p].content \in Contents /\ load[p].age + 1 \in 0 .. Patience
        BY <3>1, <4>2, Bounds
      <4> QED BY <4>1, <4>3
    <3>3. CASE load[p].at # "answered"
      BY <1>7, <3>1, <3>3
    <3> QED BY <3>2, <3>3
  <2>2. load' = [p \in Processes |-> load'[p]]
    BY DEF Tick
  <2> QED BY <2>1, <2>2
<1>9. TypeOK'
  BY <1>3, <1>4, <1>5, <1>6, <1>8 DEF Inv, TypeOK
<1>10. CatalogueCurrent'
  BY <1>2, <1>4 DEF Inv, TypeOK, CatalogueCurrent
<1>11. LoadsYoung'
  <2> SUFFICES ASSUME NEW p \in Processes, load'[p].at = "answered"
               PROVE  last'[load'[p].content] <= load'[p].age
    BY DEF LoadsYoung
  <2>1. load[p].at = "answered" /\ load'[p].content = load[p].content
        /\ load'[p].age = load[p].age + 1
    <3>1. CASE load[p].at = "answered"
      <4>1. load'[p] = [at |-> "answered", content |-> load[p].content, age |-> load[p].age + 1]
        BY <1>7, <3>1
      <4> QED BY <3>1, <4>1
    <3>2. CASE load[p].at # "answered"
      <4>1. load'[p] = load[p]
        BY <1>7, <3>2
      <4> QED BY <3>2, <4>1
    <3> QED BY <3>1, <3>2
  <2>2. load[p].content \in Contents /\ load[p].age \in Nat
    <3>1. load[p] \in [at : {"idle", "asked", "answered"}, content : Contents, age : 0 .. Patience]
      BY <1>7
    <3> QED BY <3>1, Bounds
  <2>3. last[load[p].content] <= load[p].age
    BY <2>1 DEF Inv, LoadsYoung
  <2>4. last[load[p].content] \in Nat /\ last'[load[p].content] \in Nat
    BY <1>1, <1>3, <2>2, Bounds
  <2> QED BY <1>3, <2>1, <2>2, <2>3, <2>4
<1> QED BY <1>5, <1>6, <1>9, <1>10, <1>11 DEF Inv

LEMMA NextInv == Inv /\ [Next]_vars => Inv'
<1> SUFFICES ASSUME Inv, [Next]_vars PROVE Inv'
  OBVIOUS
<1>1. CASE UNCHANGED vars
  BY <1>1 DEF vars, catalogueVars, Inv, TypeOK, CatalogueCurrent, LoadsYoung, EntryLives, CopyLives
<1>2. CASE Change
  BY <1>2, ChangeInv
<1>3. CASE Tick
  BY <1>3, TickInv
<1>4. CASE Evict \/ Discard
  BY <1>4, ForgetInv
<1>5. ASSUME NEW p \in Processes, Hit(p) PROVE Inv'
  BY <1>5, HitInv
<1>6. ASSUME NEW p \in Processes, Miss(p) \/ EngineAnswers(p) \/ LoadLost(p) PROVE Inv'
  BY <1>6, LoadStepInv
<1>7. ASSUME NEW p \in Processes, LoadEnds(p) PROVE Inv'
  BY <1>7, LoadEndsInv
<1> QED BY <1>1, <1>2, <1>3, <1>4, <1>5, <1>6, <1>7 DEF Next

LEMMA InvBounds == Inv => BoundedStaleness
<1> SUFFICES ASSUME Inv PROVE BoundedStaleness
  OBVIOUS
<1>1. ASSUME NEW p \in Processes, load[p].at = "answered"
      PROVE  last[load[p].content] <= Patience
  <2>1. load[p].age \in 0 .. Patience /\ load[p].content \in Contents
    BY DEF Inv, TypeOK
  <2>2. last[load[p].content] \in Nat
    BY <2>1, Bounds DEF Inv, TypeOK
  <2> QED BY <1>1, <2>1, <2>2, Bounds DEF Inv, LoadsYoung
<1>2. ASSUME cache.left > 0 PROVE last[cache.content] < OldestEntry
  <2>1. cache.content \in Contents /\ cache.left \in Nat
    BY Bounds DEF Inv, TypeOK
  <2>2. last[cache.content] \in Nat
    BY <2>1, Bounds DEF Inv, TypeOK
  <2> QED BY <1>2, <2>1, <2>2, Bounds DEF Inv, EntryLives
<1>3. ASSUME copy.left > 0 PROVE last[copy.content] < OldestCopy
  <2>1. copy.content \in Contents /\ copy.left \in Nat
    BY Bounds DEF Inv, TypeOK
  <2>2. last[copy.content] \in Nat
    BY <2>1, Bounds DEF Inv, TypeOK
  <2> QED BY <1>3, <2>1, <2>2, Bounds DEF Inv, CopyLives
<1> QED BY <1>1, <1>2, <1>3 DEF BoundedStaleness

(* Every state of the serving processes, Redis, the clients and the        *)
(* catalogue is typed, whatever the lives of entries and however often the *)
(* catalogue changes.                                                      *)
THEOREM ServingTypeOK == Spec => []TypeOK
<1>1. Inv => TypeOK
  BY DEF Inv
<1> QED BY InitInv, NextInv, <1>1, PTL DEF Spec

(* No answer is older than a load, a load and the longest life of an       *)
(* entry, or that and a client's copy.                                     *)
THEOREM StalenessBounded == Spec => []BoundedStaleness
BY InitInv, NextInv, InvBounds, PTL DEF Spec

-----------------------------------------------------------------------------
(* A catalogue that is left alone.                                         *)

\* Everything else has not been the catalogue for longer than an answer can live.
LeftAlone == \A c \in Contents : c # content => last[c] = Never

AllAgree ==
    /\ \A p \in Processes : load[p].at = "answered" => load[p].content = content
    /\ cache.left > 0 => cache.content = content
    /\ copy.left > 0 => copy.content = content

(* The two halves of AnswersConverge that need no fairness.  Whatever      *)
(* answers a request, a load, the cache or a client's copy, agrees with a  *)
(* catalogue that was left alone ...                                       *)
AgreedWhenLeftAlone == LeftAlone => AllAgree

(* ... and time gets it there: all but the catalogue's content age with    *)
(* every tick, and nothing but a change makes a content young again.       *)
OthersAge ==
    [][\A c \in Contents :
          /\ last'[c] < last[c] => c = content'
          /\ Tick /\ c # content => last'[c] = Never \/ last'[c] = last[c] + 1]_vars

(* Whatever a load, Redis or a client answers a request with, agrees with  *)
(* a catalogue that was left alone long enough.                            *)
THEOREM AnswersAgreeInTheEnd == Spec => []AgreedWhenLeftAlone
<1>1. Inv => AgreedWhenLeftAlone
  <2> SUFFICES ASSUME Inv, LeftAlone PROVE AllAgree
    BY DEF AgreedWhenLeftAlone
  <2>1. \A c \in Contents : last[c] <= OldestCopy => c = content
    BY Bounds DEF LeftAlone
  <2>2. BoundedStaleness
    BY InvBounds
  <2>3. last \in [Contents -> 0 .. Never] /\ cache.content \in Contents /\ copy.content \in Contents
    BY DEF Inv, TypeOK
  <2>4. ASSUME NEW p \in Processes, load[p].at = "answered" PROVE load[p].content = content
    <3>1. load[p].content \in Contents /\ last[load[p].content] <= Patience
      BY <2>2, <2>4 DEF Inv, TypeOK, BoundedStaleness
    <3>2. last[load[p].content] \in Nat
      BY <2>3, <3>1, Bounds
    <3> QED BY <2>1, <3>1, <3>2, Bounds
  <2>5. cache.left > 0 => cache.content = content
    <3>1. last[cache.content] \in Nat
      BY <2>3, Bounds
    <3> QED BY <2>1, <2>2, <2>3, <3>1, Bounds DEF BoundedStaleness
  <2>6. copy.left > 0 => copy.content = content
    <3>1. last[copy.content] \in Nat
      BY <2>3, Bounds
    <3> QED BY <2>1, <2>2, <2>3, <3>1, Bounds DEF BoundedStaleness
  <2> QED BY <2>4, <2>5, <2>6 DEF AllAgree
<1> QED BY InitInv, NextInv, <1>1, PTL DEF Spec

(* Nothing but a change of the catalogue takes the age of a content back.  *)
THEOREM OnlyChangesRejuvenate == Spec => OthersAge
<1>1. ASSUME Inv, [Next]_vars, NEW c \in Contents
      PROVE  /\ last'[c] < last[c] => c = content'
             /\ Tick /\ c # content => last'[c] = Never \/ last'[c] = last[c] + 1
  <2>1. last \in [Contents -> 0 .. Never] /\ last[c] \in 0 .. Never
    BY <1>1 DEF Inv, TypeOK
  <2>2. CASE Tick
    BY <1>1, <2>1, <2>2, Bounds DEF Tick, catalogueVars
  <2>3. CASE Change
    <3>1. last' = [last EXCEPT ![content'] = 0]
      BY <2>3 DEF Change
    <3>2. c # content' => last'[c] = last[c]
      BY <2>1, <3>1
    <3> QED BY <2>1, <2>2, <3>2, Bounds
  <2>4. CASE last' = last
    BY <2>1, <2>2, <2>4, Bounds
  <2>5. [Next]_vars => Tick \/ Change \/ last' = last
    BY DEF Next, Evict, Discard, Hit, Miss, EngineAnswers, LoadLost, LoadEnds, vars
  <2> QED BY <1>1, <2>2, <2>3, <2>4, <2>5
<1>2. Inv /\ [Next]_vars
        => [\A c \in Contents :
              /\ last'[c] < last[c] => c = content'
              /\ Tick /\ c # content => last'[c] = Never \/ last'[c] = last[c] + 1]_vars
  BY <1>1
<1> QED BY InitInv, NextInv, <1>2, PTL DEF Spec, OthersAge

=============================================================================
