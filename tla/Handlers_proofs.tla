-------------------------- MODULE Handlers_proofs --------------------------
(***************************************************************************)
(* The properties of the handlers with no worker behind them.              *)
(*                                                                         *)
(* HotItems, for any users, stocks and keys that a SKU leads to, and any   *)
(* clients, items and width of the limit: an inductive invariant for the   *)
(* claims and one for the ranking, which share no variable.                *)
(*                                                                         *)
(* BakeryPages, for any ids and page sizes: a page is cut out of a finite  *)
(* set of numbers by counting, and its cursor is the greatest of them.     *)
(***************************************************************************)
EXTENDS HotItems, BakeryPages, FiniteSetTheorems, WellFoundedInduction, TLAPS

-----------------------------------------------------------------------------
(* The claims *)

\* A user who is no member gets a unit, one who is does not; and only a wipe of
\* the users key ends a membership.
OneUnitPerWipe ==
  \A u \in Users : granted[u] <= foreign["users"] + (IF u \in holders THEN 1 ELSE 0)

\* The script creates the stock key before it grants a unit.
OpenedFirst ==
  foreign["stock"] = 0 =>
    /\ stock = NoKey => holders = {}
    /\ stock # NoKey => opening # NoKey

Accounted ==
  foreign["stock"] = 0 => Cardinality(Units) = IF stock = NoKey THEN 0 ELSE opening - stock

ClaimsIInv ==
  /\ ClaimsTypeOK
  /\ OneUnitPerWipe
  /\ OpenedFirst
  /\ Accounted
  /\ AnswerTellsHolding

\* Units are finitely many, because wipes are.
LEMMA UnitsFinite == ASSUME ClaimsTypeOK, OneUnitPerWipe PROVE IsFiniteSet(Units)
<1> DEFINE N == 1 + MaxRefreshes
<1>1. N \in Nat /\ IsFiniteSet(Users) BY ClaimsAssumption
<1>2. IsFiniteSet(1..N) BY <1>1, FS_Interval
<1>3. IsFiniteSet(Users \X (1..N)) BY <1>1, <1>2, FS_Product
<1>4. \A u \in Users : granted[u] \in Nat /\ granted[u] <= N
  <2> SUFFICES ASSUME NEW u \in Users PROVE granted[u] \in Nat /\ granted[u] <= N OBVIOUS
  <2>1. granted[u] \in Nat /\ foreign["users"] \in 0..MaxRefreshes BY DEF ClaimsTypeOK
  <2>2. granted[u] <= foreign["users"] + 1 BY <2>1, ClaimsAssumption DEF OneUnitPerWipe
  <2> QED BY <2>1, <2>2, ClaimsAssumption
<1>5. Units \subseteq Users \X (1..N)
  <2> SUFFICES ASSUME NEW u \in Users, NEW n \in 1..granted[u] PROVE n \in 1..N BY DEF Units
  <2> QED BY <1>1, <1>4
<1> QED BY <1>3, <1>5, FS_Subset

\* One grant is one more unit.
LEMMA GrantAddsUnit ==
  ASSUME ClaimsTypeOK, OneUnitPerWipe, NEW u \in Users, granted' = [granted EXCEPT ![u] = @ + 1]
  PROVE  Cardinality(Units') = Cardinality(Units) + 1
<1> DEFINE x == <<u, granted[u] + 1>>
<1>1. granted \in [Users -> Nat] BY DEF ClaimsTypeOK
<1>2. granted'[u] = granted[u] + 1 /\ \A k \in Users \ {u} : granted'[k] = granted[k] BY <1>1
<1>3. 1..(granted[u] + 1) = 1..granted[u] \union {granted[u] + 1} BY <1>1
<1>4. Units' = Units \union {x}
  <2>1. Units = (UNION {{k} \X (1..granted[k]) : k \in Users \ {u}}) \union ({u} \X (1..granted[u]))
    BY DEF Units
  <2>2. Units' = (UNION {{k} \X (1..granted[k]) : k \in Users \ {u}}) \union ({u} \X (1..(granted[u] + 1)))
    BY <1>2 DEF Units
  <2>3. {u} \X (1..(granted[u] + 1)) = {u} \X (1..granted[u]) \union {x} BY <1>3
  <2> QED BY <2>1, <2>2, <2>3
<1>5. x \notin Units
  <2>1. granted[u] + 1 \notin 1..granted[u] BY <1>1
  <2> QED BY <2>1 DEF Units
<1>6. IsFiniteSet(Units) BY UnitsFinite
<1> QED BY <1>4, <1>5, <1>6, FS_AddElement

\* The stock key after the script's first statement.
LEMMA OpenedKinds ==
  ASSUME ClaimsTypeOK, NEW initial \in InitialStocks, Opened(initial) # NoKey
  PROVE  /\ Opened(initial) \in Nat
         /\ stock # NoKey => Opened(initial) = stock
  BY ClaimsAssumption DEF Opened, ClaimsTypeOK

\* A branch that grants nothing: the stock key may be created, nothing else but
\* the answer changes, and the answer is right.
LEMMA QuietKeeps ==
  ASSUME ClaimsIInv, NEW u \in Users, NEW initial \in InitialStocks, NEW a \in Answers,
         Open(initial), stock' = Opened(initial),
         UNCHANGED <<holders, usersKey, granted, foreign>>,
         answer' = [answer EXCEPT ![u] = a],
         a # "applied", a = "duplicate" => u \in holders, a = "unavailable" => u \notin holders
  PROVE  ClaimsIInv'
<1>1. Opened(initial) \in Nat /\ (stock # NoKey => Opened(initial) = stock)
  BY OpenedKinds DEF Open, ClaimsIInv
<1>2. opening' \in Nat \union {NoKey}
  BY <1>1 DEF Open, ClaimsIInv, ClaimsTypeOK
<1>3. ClaimsTypeOK' BY <1>1, <1>2 DEF ClaimsIInv, ClaimsTypeOK, Answers
<1>4. OneUnitPerWipe' BY DEF ClaimsIInv, OneUnitPerWipe
<1>5. Units' = Units BY DEF Units
<1>6. stock' # NoKey BY <1>1, ClaimsAssumption
<1>7. OpenedFirst' BY <1>1, <1>6 DEF Open, ClaimsIInv, OpenedFirst
<1>8. Accounted'
  <2>1. CASE stock = NoKey BY <1>1, <1>5, <1>6, <2>1 DEF Open, ClaimsIInv, Accounted
  <2>2. CASE stock # NoKey BY <1>1, <1>5, <1>6, <2>2 DEF Open, ClaimsIInv, Accounted
  <2> QED BY <2>1, <2>2
<1>9. AnswerTellsHolding' BY DEF ClaimsIInv, ClaimsTypeOK, AnswerTellsHolding
<1> QED BY <1>3, <1>4, <1>7, <1>8, <1>9 DEF ClaimsIInv

\* The branch that takes a unit.
LEMMA GrantedKeeps ==
  ASSUME ClaimsIInv, NEW u \in Users, NEW initial \in InitialStocks, Granted(u, initial)
  PROVE  ClaimsIInv'
<1> DEFINE s == Opened(initial)
<1>1. s \in Nat /\ s > 0 /\ (stock # NoKey => s = stock)
  BY OpenedKinds DEF Granted, Open, ClaimsIInv, SoldOut
<1>2. PICK b \in {"applied", "error"} : answer' = [answer EXCEPT ![u] = b] BY DEF Granted, Answer
<1>3. /\ u \notin holders /\ usersKey = "set"
      /\ stock' = s - 1 /\ holders' = holders \union {u}
      /\ granted' = [granted EXCEPT ![u] = @ + 1]
      /\ opening' = IF stock = NoKey THEN s ELSE opening
      /\ UNCHANGED <<usersKey, foreign>>
  BY DEF Granted, Open, Holder
<1>4. stock' \in Nat /\ stock' # NoKey BY <1>1, <1>3, ClaimsAssumption
<1> HIDE DEF s
<1>5. ClaimsTypeOK' BY <1>1, <1>2, <1>3, <1>4 DEF ClaimsIInv, ClaimsTypeOK, Answers
<1>6. OneUnitPerWipe'
  <2>1. granted \in [Users -> Nat] /\ foreign["users"] \in Nat
    BY ClaimsAssumption DEF ClaimsIInv, ClaimsTypeOK
  <2>2. SUFFICES ASSUME NEW k \in Users
                 PROVE granted'[k] <= foreign'["users"] + (IF k \in holders' THEN 1 ELSE 0)
    BY DEF OneUnitPerWipe
  <2>3. granted[k] <= foreign["users"] + (IF k \in holders THEN 1 ELSE 0) BY DEF ClaimsIInv, OneUnitPerWipe
  <2> QED BY <1>3, <2>1, <2>3
<1>7. OpenedFirst' BY <1>1, <1>3, <1>4, ClaimsAssumption DEF ClaimsIInv, OpenedFirst
<1>8. Accounted'
  <2>1. Cardinality(Units') = Cardinality(Units) + 1 BY <1>3, GrantAddsUnit DEF ClaimsIInv
  <2>2. CASE stock = NoKey BY <1>1, <1>3, <1>4, <2>1, <2>2 DEF ClaimsIInv, Accounted
  <2>3. CASE stock # NoKey
    <3>1. SUFFICES ASSUME foreign["stock"] = 0 PROVE Cardinality(Units') = opening' - stock'
      BY <1>3, <1>4 DEF Accounted
    <3>2. opening \in Nat BY <2>3, <3>1 DEF ClaimsIInv, ClaimsTypeOK, OpenedFirst
    <3>3. Cardinality(Units) = opening - stock BY <2>3, <3>1 DEF ClaimsIInv, Accounted
    <3> QED BY <1>1, <1>3, <2>1, <2>3, <3>2, <3>3
  <2> QED BY <2>2, <2>3
<1>9. AnswerTellsHolding' BY <1>2, <1>3 DEF ClaimsIInv, ClaimsTypeOK, AnswerTellsHolding
<1> QED BY <1>5, <1>6, <1>7, <1>8, <1>9 DEF ClaimsIInv

\* A step that changes no more than an answer, to one that is right.
LEMMA AnswerKeeps ==
  ASSUME ClaimsIInv, NEW u \in Users, NEW a \in {"unavailable", "error"},
         answer' = [answer EXCEPT ![u] = a],
         a = "unavailable" => (foreign["stock"] = 0 => u \notin holders),
         UNCHANGED <<stock, holders, usersKey, opening, granted, foreign>>
  PROVE  ClaimsIInv'
<1>1. ClaimsTypeOK' BY DEF ClaimsIInv, ClaimsTypeOK, Answers
<1>2. OneUnitPerWipe' /\ OpenedFirst' BY DEF ClaimsIInv, OneUnitPerWipe, OpenedFirst
<1>3. Units' = Units BY DEF Units
<1>4. Accounted' BY <1>3 DEF ClaimsIInv, Accounted
<1>5. AnswerTellsHolding' BY DEF ClaimsIInv, ClaimsTypeOK, AnswerTellsHolding
<1> QED BY <1>1, <1>2, <1>4, <1>5 DEF ClaimsIInv

\* The script and the answers to it, branch by branch.
LEMMA ScriptKeeps ==
  ASSUME ClaimsIInv, NEW u \in Users, NEW initial \in InitialStocks,
         \/ Unopened(u, initial) \/ WrongType(u, initial) \/ Duplicate(u, initial)
         \/ NoneLeft(u, initial) \/ Granted(u, initial)
  PROVE  ClaimsIInv'
<1>1. CASE Unopened(u, initial)
  <2>1. PICK a \in {"unavailable", "error"} : answer' = [answer EXCEPT ![u] = a]
    BY <1>1 DEF Unopened, Answer
  <2>2. stock = NoKey BY <1>1 DEF Unopened, Opened
  <2>3. foreign["stock"] = 0 => u \notin holders BY <2>2 DEF ClaimsIInv, OpenedFirst
  <2>4. UNCHANGED <<stock, holders, usersKey, opening, granted, foreign>> BY <1>1 DEF Unopened
  <2> QED BY <2>1, <2>3, <2>4, AnswerKeeps
<1>2. CASE WrongType(u, initial)
  <2>1. answer' = [answer EXCEPT ![u] = "error"] BY <1>2 DEF WrongType
  <2> QED BY <1>2, <2>1, QuietKeeps DEF WrongType, Answers
<1>3. CASE Duplicate(u, initial)
  <2>1. PICK a \in {"duplicate", "error"} : answer' = [answer EXCEPT ![u] = a]
    BY <1>3 DEF Duplicate, Answer
  <2>2. a \in Answers BY DEF Answers
  <2> QED BY <1>3, <2>1, <2>2, QuietKeeps DEF Duplicate, Holder
<1>4. CASE NoneLeft(u, initial)
  <2>1. PICK a \in {"unavailable", "error"} : answer' = [answer EXCEPT ![u] = a]
    BY <1>4 DEF NoneLeft, Answer
  <2>2. a \in Answers BY DEF Answers
  <2> QED BY <1>4, <2>1, <2>2, QuietKeeps DEF NoneLeft, Holder
<1>5. CASE Granted(u, initial) BY <1>5, GrantedKeeps
<1> QED BY <1>1, <1>2, <1>3, <1>4, <1>5

\* A write of the inventory worker to one of the two keys.
LEMMA RefreshKeeps == ASSUME ClaimsIInv, RefreshStock \/ RefreshUsers PROVE ClaimsIInv'
<1>1. CASE RefreshStock
  <2>1. /\ foreign' = [foreign EXCEPT !["stock"] = @ + 1] /\ foreign["stock"] < MaxRefreshes
        /\ stock' \in Nat \union {NoKey}
        /\ UNCHANGED <<holders, usersKey, answer, opening, granted>>
    BY <1>1, ClaimsAssumption DEF RefreshStock, ForeignWrite
  <2>2. /\ foreign'["stock"] > 0 /\ foreign'["users"] = foreign["users"]
        /\ foreign' \in [{"stock", "users"} -> 0..MaxRefreshes]
    BY <2>1, ClaimsAssumption DEF ClaimsIInv, ClaimsTypeOK
  <2> QED BY <2>1, <2>2
    DEF ClaimsIInv, ClaimsTypeOK, OneUnitPerWipe, OpenedFirst, Accounted, AnswerTellsHolding
<1>2. CASE RefreshUsers
  <2>1. /\ foreign' = [foreign EXCEPT !["users"] = @ + 1] /\ foreign["users"] < MaxRefreshes
        /\ holders' = {} /\ usersKey' \in {"set", "string"}
        /\ UNCHANGED <<stock, answer, opening, granted>>
    BY <1>2 DEF RefreshUsers, ForeignWrite
  <2>2. /\ foreign'["users"] = foreign["users"] + 1 /\ foreign'["stock"] = foreign["stock"]
        /\ foreign["users"] \in Nat /\ foreign'["users"] > 0
        /\ foreign' \in [{"stock", "users"} -> 0..MaxRefreshes]
    BY <2>1, ClaimsAssumption DEF ClaimsIInv, ClaimsTypeOK
  <2>3. OneUnitPerWipe'
    <3>1. SUFFICES ASSUME NEW k \in Users PROVE granted[k] <= foreign'["users"]
      BY <2>1, <2>2 DEF OneUnitPerWipe
    <3>2. granted[k] \in Nat BY DEF ClaimsIInv, ClaimsTypeOK
    <3>3. granted[k] <= foreign["users"] + (IF k \in holders THEN 1 ELSE 0) BY DEF ClaimsIInv, OneUnitPerWipe
    <3> QED BY <2>2, <3>2, <3>3
  <2>4. Units' = Units BY <2>1 DEF Units
  <2>5. ClaimsTypeOK' BY <2>1, <2>2 DEF ClaimsIInv, ClaimsTypeOK
  <2>6. OpenedFirst' /\ Accounted' /\ AnswerTellsHolding'
    BY <2>1, <2>2, <2>4 DEF ClaimsIInv, OpenedFirst, Accounted, AnswerTellsHolding
  <2> QED BY <2>3, <2>5, <2>6 DEF ClaimsIInv
<1> QED BY <1>1, <1>2

\* At the start there is no unit.
LEMMA ClaimsInitEstablishes == ClaimsInit => ClaimsIInv
<1> SUFFICES ASSUME ClaimsInit PROVE ClaimsIInv OBVIOUS
<1>1. Units = {} BY DEF ClaimsInit, Units
<1>2. Cardinality(Units) = 0 BY <1>1, FS_EmptySet
<1> QED BY <1>2, ClaimsAssumption
  DEF ClaimsInit, ClaimsIInv, ClaimsTypeOK, OneUnitPerWipe, OpenedFirst, Accounted, AnswerTellsHolding

\* A step of the claims, or none.
LEMMA ClaimsStepKeeps == ASSUME ClaimsIInv, [ClaimsNext]_claimVars PROVE ClaimsIInv'
<1>1. CASE UNCHANGED claimVars
  <2>1. Units' = Units BY <1>1 DEF claimVars, Units
  <2> QED BY <1>1, <2>1
    DEF claimVars, ClaimsIInv, ClaimsTypeOK, OneUnitPerWipe, OpenedFirst, Accounted, AnswerTellsHolding
<1>2. ASSUME NEW u \in Users, NotReached(u) PROVE ClaimsIInv'
  BY <1>2, AnswerKeeps DEF NotReached
<1>3. CASE ClaimsNext BY <1>2, <1>3, ScriptKeeps, RefreshKeeps DEF ClaimsNext
<1> QED BY <1>1, <1>3

-----------------------------------------------------------------------------
(* The ranking *)

\* Each increment of this life is told, failed or running.
Exact == \A i \in Items : score[i] = told[i] + failed[i] + Cardinality(Running(i))

RankingIInv == RankingTypeOK /\ Exact /\ EndlessExplained

\* A client with no increment has none that runs.
LEMMA IdleRunsNothing == \A i : Idle \notin [item : {i}, counted : {TRUE}]
<1> SUFFICES ASSUME NEW i PROVE Idle \notin [item : {i}, counted : {TRUE}] OBVIOUS
<1>1. DOMAIN Idle = {"item"} BY DEF Idle
<1>2. \A x \in [item : {i}, counted : {TRUE}] : DOMAIN x = {"item", "counted"} OBVIOUS
<1> QED BY <1>1, <1>2

\* What a client is doing.
LEMMA CallKinds ==
  ASSUME RankingTypeOK, NEW c \in Clients
  PROVE  /\ call[c] = Idle \/ call[c] \in Between
         /\ call[c] = Idle => \A i \in Items : c \notin Running(i)
         /\ call[c] # Idle => /\ call[c].item \in Items /\ call[c].counted \in BOOLEAN
                              /\ \A i \in Items : c \in Running(i) <=> call[c].item = i /\ call[c].counted
<1>1. call[c] = Idle \/ call[c] \in Between BY DEF RankingTypeOK
<1>2. call[c] = Idle => \A i \in Items : c \notin Running(i) BY IdleRunsNothing DEF Running
<1>3. ASSUME call[c] # Idle
      PROVE  /\ call[c].item \in Items /\ call[c].counted \in BOOLEAN
             /\ \A i \in Items : c \in Running(i) <=> call[c].item = i /\ call[c].counted
  <2>1. call[c] \in [item : Items, counted : BOOLEAN] BY <1>1, <1>3 DEF Between
  <2> QED BY <2>1 DEF Running
<1> QED BY <1>1, <1>2, <1>3

\* There are as many increments running as clients at most.
LEMMA RunningFinite == ASSUME NEW i \in Items PROVE IsFiniteSet(Running(i)) /\ Cardinality(Running(i)) \in Nat
<1>1. Running(i) \subseteq Clients BY DEF Running
<1>2. IsFiniteSet(Running(i)) BY <1>1, RankingAssumption, FS_Subset
<1> QED BY <1>2, FS_CardinalityType

\* ZINCRBY, answered or not.
LEMMA ZincrbyKeeps ==
  ASSUME RankingIInv, NEW c \in Clients, NEW i \in Items, Zincrby(c, i)
  PROVE  RankingIInv'
<1>1. /\ call[c] = Idle /\ score' = [score EXCEPT ![i] = @ + 1] /\ told' = told
      /\ life' = IF life = "absent" THEN "endless" ELSE life
  BY DEF Zincrby, ScoreAfter, LifeAfterIncrement
<1>2. /\ score \in [Items -> Nat] /\ told \in [Items -> Nat] /\ failed \in [Items -> Nat]
      /\ call \in [Clients -> {Idle} \union Between] /\ life \in {"absent", "endless", "limited"}
  BY DEF RankingIInv, RankingTypeOK
<1>3. score' \in [Items -> Nat] /\ score'[i] > 0 /\ life' \in {"endless", "limited"} BY <1>1, <1>2
<1>4. score' # Zero BY <1>3 DEF Zero
<1>5. \A k \in Items : c \notin Running(k) BY <1>1, CallKinds DEF RankingIInv
<1>6. CASE call' = [call EXCEPT ![c] = [item |-> i, counted |-> TRUE]] /\ failed' = failed
  <2>1. Running(i)' = Running(i) \union {c} BY <1>2, <1>6 DEF Running
  <2>2. \A k \in Items \ {i} : Running(k)' = Running(k)
    <3>1. SUFFICES ASSUME NEW k \in Items, k # i PROVE Running(k)' = Running(k) OBVIOUS
    <3>2. c \notin Running(k)' BY <1>2, <1>6, <3>1 DEF Running
    <3>3. \A d \in Clients \ {c} : call'[d] = call[d] BY <1>2, <1>6
    <3> QED BY <1>5, <3>2, <3>3 DEF Running
  <2>3. Cardinality(Running(i)') = Cardinality(Running(i)) + 1
    BY <1>5, <2>1, RunningFinite, FS_AddElement
  <2>4. Exact'
    <3>1. SUFFICES ASSUME NEW k \in Items PROVE score'[k] = told'[k] + failed'[k] + Cardinality(Running(k)')
      BY DEF Exact
    <3>2. score[k] = told[k] + failed[k] + Cardinality(Running(k)) BY DEF RankingIInv, Exact
    <3>3. Cardinality(Running(k)) \in Nat BY RunningFinite
    <3> QED BY <1>1, <1>2, <1>6, <2>2, <2>3, <3>2, <3>3
  <2>5. EndlessExplained' BY <2>1 DEF EndlessExplained
  <2>6. call' \in [Clients -> {Idle} \union Between] BY <1>2, <1>6 DEF Between
  <2>7. RankingTypeOK' BY <1>1, <1>2, <1>3, <1>4, <1>6, <2>6 DEF RankingTypeOK, Zero
  <2> QED BY <2>4, <2>5, <2>7 DEF RankingIInv
<1>7. CASE failed' = Count(failed, i) /\ call' = call
  <2>1. \A k \in Items : Running(k)' = Running(k) BY <1>7 DEF Running
  <2>2. failed' = [failed EXCEPT ![i] = @ + 1] BY <1>7 DEF Count
  <2>3. failed' \in [Items -> Nat] /\ failed'[i] > 0 BY <1>2, <2>2
  <2>4. Exact'
    <3>1. SUFFICES ASSUME NEW k \in Items PROVE score'[k] = told'[k] + failed'[k] + Cardinality(Running(k)')
      BY DEF Exact
    <3>2. score[k] = told[k] + failed[k] + Cardinality(Running(k)) BY DEF RankingIInv, Exact
    <3>3. Cardinality(Running(k)) \in Nat BY RunningFinite
    <3> QED BY <1>1, <1>2, <2>1, <2>2, <3>2, <3>3
  <2>5. EndlessExplained' BY <2>3 DEF EndlessExplained
  <2>6. RankingTypeOK' BY <1>1, <1>2, <1>3, <1>4, <1>7, <2>3 DEF RankingTypeOK, Zero
  <2> QED BY <2>4, <2>5, <2>6 DEF RankingIInv
<1> QED BY <1>6, <1>7 DEF Zincrby

\* A request that ends moves its increment from running to told or to failed;
\* only one that EXPIRE reached may be told, and then the key is not endless.
LEMMA EndsKeeps ==
  ASSUME RankingIInv, NEW c \in Clients, call[c] # Idle, NEW ok \in BOOLEAN, Ends(c, ok),
         UNCHANGED score, life' = LifeAfterExpire \/ (~ok /\ life' = life)
  PROVE  RankingIInv'
<1>1. /\ score \in [Items -> Nat] /\ told \in [Items -> Nat] /\ failed \in [Items -> Nat]
      /\ call \in [Clients -> {Idle} \union Between] /\ life \in {"absent", "endless", "limited"}
      /\ life = "absent" <=> score = Zero
  BY DEF RankingIInv, RankingTypeOK
<1>2. PICK i \in Items : /\ i = call[c].item /\ call[c].counted \in BOOLEAN
                        /\ \A k \in Items : c \in Running(k) <=> i = k /\ call[c].counted
  BY CallKinds DEF RankingIInv
<1>3. call' = [call EXCEPT ![c] = Idle] BY DEF Ends
<1>4. \A k \in Items : Running(k)' = Running(k) \ {c}
  <2>1. SUFFICES ASSUME NEW k \in Items PROVE Running(k)' = Running(k) \ {c} OBVIOUS
  <2>2. call'[c] = Idle /\ \A d \in Clients \ {c} : call'[d] = call[d] BY <1>1, <1>3
  <2>3. c \notin Running(k)' BY <2>2, IdleRunsNothing DEF Running
  <2>4. \A d \in Clients \ {c} : d \in Running(k)' <=> d \in Running(k) BY <2>2 DEF Running
  <2>5. Running(k)' \subseteq Clients /\ Running(k) \subseteq Clients BY DEF Running
  <2> QED BY <2>3, <2>4, <2>5
<1>5. call' \in [Clients -> {Idle} \union Between] BY <1>1, <1>3
<1>6. life' \in {"absent", "endless", "limited"} /\ (life' = "absent" <=> life = "absent")
  BY <1>1 DEF LifeAfterExpire
<1>7. CASE ~call[c].counted
  <2>1. told' = told /\ failed' = failed BY <1>7 DEF Ends, Counted
  <2>2. \A k \in Items : Running(k)' = Running(k) BY <1>2, <1>4, <1>7
  <2>3. Exact' BY <2>1, <2>2 DEF RankingIInv, Exact
  <2>4. EndlessExplained' BY <2>1, <2>2 DEF RankingIInv, EndlessExplained, LifeAfterExpire
  <2>5. RankingTypeOK' BY <1>1, <1>5, <1>6, <2>1 DEF RankingTypeOK, Zero
  <2> QED BY <2>3, <2>4, <2>5 DEF RankingIInv
<1>8. CASE call[c].counted
  <2>1. \/ ok /\ told' = [told EXCEPT ![i] = @ + 1] /\ failed' = failed
        \/ ~ok /\ told' = told /\ failed' = [failed EXCEPT ![i] = @ + 1]
    BY <1>2, <1>8 DEF Ends, Counted, Count
  <2>2. told' \in [Items -> Nat] /\ failed' \in [Items -> Nat] BY <1>1, <1>2, <2>1
  <2>3. Cardinality(Running(i)') = Cardinality(Running(i)) - 1
    BY <1>2, <1>4, <1>8, RunningFinite, FS_RemoveElement
  <2>4. \A k \in Items \ {i} : Running(k)' = Running(k) BY <1>2, <1>4
  <2>5. Exact'
    <3>1. SUFFICES ASSUME NEW k \in Items PROVE score'[k] = told'[k] + failed'[k] + Cardinality(Running(k)')
      BY DEF Exact
    <3>2. score[k] = told[k] + failed[k] + Cardinality(Running(k)) BY DEF RankingIInv, Exact
    <3>3. Cardinality(Running(k)) \in Nat BY RunningFinite
    <3> QED BY <1>1, <1>2, <2>1, <2>3, <2>4, <3>2, <3>3
  <2>6. EndlessExplained'
    <3>1. SUFFICES ASSUME life' = "endless" PROVE \E k \in Items : failed'[k] > 0
      BY DEF EndlessExplained
    <3>2. ~ok BY <3>1 DEF LifeAfterExpire
    <3> QED BY <1>1, <1>2, <2>1, <3>2
  <2>7. RankingTypeOK' BY <1>1, <1>5, <1>6, <2>2 DEF RankingTypeOK, Zero
  <2> QED BY <2>5, <2>6, <2>7 DEF RankingIInv
<1> QED BY <1>2, <1>7, <1>8

\* With the key goes everything that was counted.
LEMMA KeyGoneKeeps ==
  ASSUME RankingIInv, NEW calls \in [Clients -> {Idle} \union Between], KeyGone(calls)
  PROVE  RankingIInv'
<1>1. /\ life' = "absent" /\ score' = Zero /\ told' = Zero /\ failed' = Zero
      /\ call' = [c \in Clients |-> IF calls[c] = Idle THEN Idle ELSE [calls[c] EXCEPT !.counted = FALSE]]
  BY DEF KeyGone
<1>2. \A c \in Clients : call'[c] = Idle \/ (call'[c] \in Between /\ ~call'[c].counted)
  <2>1. SUFFICES ASSUME NEW c \in Clients, calls[c] # Idle
                 PROVE  call'[c] \in Between /\ ~call'[c].counted
    BY <1>1
  <2>2. calls[c] \in [item : Items, counted : BOOLEAN] BY <2>1 DEF Between
  <2>3. call'[c] = [calls[c] EXCEPT !.counted = FALSE] BY <1>1, <2>1
  <2> QED BY <2>2, <2>3 DEF Between
<1>3. call' \in [Clients -> {Idle} \union Between] BY <1>1, <1>2
<1>4. \A i \in Items : Running(i)' = {}
  <2>1. SUFFICES ASSUME NEW i \in Items, NEW c \in Clients PROVE call'[c] \notin [item : {i}, counted : {TRUE}]
    BY DEF Running
  <2> QED BY <1>2, <2>1, IdleRunsNothing
<1>5. \A i \in Items : Cardinality(Running(i)') = 0 BY <1>4, FS_EmptySet
<1>6. Zero \in [Items -> Nat] /\ \A i \in Items : Zero[i] = 0 BY DEF Zero
<1>7. Zero' = Zero BY DEF Zero
<1>8. RankingTypeOK' BY <1>1, <1>3, <1>6, <1>7 DEF RankingTypeOK
<1>9. Exact' BY <1>1, <1>5, <1>6 DEF Exact
<1>10. EndlessExplained' BY <1>1 DEF EndlessExplained
<1> QED BY <1>8, <1>9, <1>10 DEF RankingIInv

\* At the start there is no key.
LEMMA RankingInitEstablishes == RankingInit => RankingIInv
<1> SUFFICES ASSUME RankingInit PROVE RankingIInv OBVIOUS
<1>1. \A i \in Items : Running(i) = {} BY IdleRunsNothing DEF RankingInit, Running
<1>2. \A i \in Items : Cardinality(Running(i)) = 0 BY <1>1, FS_EmptySet
<1> QED BY <1>2 DEF RankingInit, RankingIInv, RankingTypeOK, Exact, EndlessExplained, Zero

\* A step of the ranking, or none.
LEMMA RankingStepKeeps == ASSUME RankingIInv, [RankingNext]_rankingVars PROVE RankingIInv'
<1>1. CASE UNCHANGED rankingVars
  BY <1>1 DEF rankingVars, RankingIInv, RankingTypeOK, Exact, EndlessExplained, Running, Zero
<1>2. ASSUME NEW c \in Clients, NEW i \in Items, Zincrby(c, i) PROVE RankingIInv'
  BY <1>2, ZincrbyKeeps
<1>3. ASSUME NEW c \in Clients, Expire(c) PROVE RankingIInv' BY <1>3, EndsKeeps DEF Expire
<1>4. ASSUME NEW c \in Clients, ExpireAtOnce(c) PROVE RankingIInv'
  <2>1. [call EXCEPT ![c] = Idle] \in [Clients -> {Idle} \union Between] BY DEF RankingIInv, RankingTypeOK
  <2> QED BY <1>4, <2>1, KeyGoneKeeps DEF ExpireAtOnce
<1>5. ASSUME NEW c \in Clients, ExpireFails(c) PROVE RankingIInv' BY <1>5, EndsKeeps DEF ExpireFails
<1>6. CASE TimeIsUp BY <1>6, KeyGoneKeeps DEF TimeIsUp, RankingIInv, RankingTypeOK
<1> QED BY <1>1, <1>2, <1>3, <1>4, <1>5, <1>6 DEF RankingNext

-----------------------------------------------------------------------------
(* hot_top *)

\* An item per member of the ranking, and no more items than there are i64.
LEMMA MembersBounded ==
  /\ IsFiniteSet(Members) /\ Cardinality(Members) \in Nat
  /\ Cardinality(Members) <= 2 * HalfRange
<1>1. Members \subseteq Items BY DEF Members
<1>2. IsFiniteSet(Members) /\ Cardinality(Members) <= Cardinality(Items)
  BY <1>1, RankingAssumption, FS_Subset
<1>3. Cardinality(Members) \in Nat /\ Cardinality(Items) \in Nat
  BY <1>2, RankingAssumption, FS_CardinalityType
<1> QED BY <1>2, <1>3, RankingAssumption

\* The lesser and the greater of two integers.
LEMMA MinOfTwo == ASSUME NEW a \in Int, NEW b \in Int PROVE Min({a, b}) = IF a <= b THEN a ELSE b
<1>1. \E x \in {a, b} : \A y \in {a, b} : x <= y OBVIOUS
<1>2. Min({a, b}) \in {a, b} /\ \A y \in {a, b} : Min({a, b}) <= y BY <1>1 DEF Min
<1> QED BY <1>2

LEMMA MaxOfTwo == ASSUME NEW a \in Int, NEW b \in Int PROVE Max({a, b}) = IF a >= b THEN a ELSE b
<1>1. \E x \in {a, b} : \A y \in {a, b} : x >= y OBVIOUS
<1>2. Max({a, b}) \in {a, b} /\ \A y \in {a, b} : Max({a, b}) >= y BY <1>1 DEF Max
<1> QED BY <1>2

\* How many entries ZREVRANGE finds, for an index that the cast may have made
\* negative.
LEMMA EntriesRight ==
  ASSUME NEW limit \in Limits
  PROVE  LET wanted == Min({TopLimit(limit), Cardinality(Members)}) IN
         /\ Entries(Stop(limit)) <= wanted
         /\ TopLimit(limit) <= HalfRange => Entries(Stop(limit)) = wanted
<1> DEFINE t == TopLimit(limit)
           m == Cardinality(Members)
<1>1. HalfRange \in Nat /\ m \in Nat /\ m <= 2 * HalfRange BY MembersBounded, RankingAssumption
<1>2. t \in 1..(2 * HalfRange - 1)
  BY <1>1, RankingAssumption DEF TopLimit, Limits
<1>3. Stop(limit) = IF t - 1 < HalfRange THEN t - 1 ELSE t - 1 - 2 * HalfRange BY DEF Stop
<1>4. Entries(Stop(limit)) = IF Stop(limit) >= 0 THEN Min({Stop(limit) + 1, m}) ELSE Max({0, m + Stop(limit) + 1})
  BY DEF Entries
<1> HIDE DEF t, m
<1>5. CASE t <= HalfRange
  <2>1. Stop(limit) = t - 1 BY <1>1, <1>2, <1>3, <1>5
  <2>2. Entries(Stop(limit)) = Min({t, m}) BY <1>1, <1>2, <1>4, <2>1
  <2>3. Min({t, m}) \in Int BY <1>1, <1>2, MinOfTwo
  <2> QED BY <2>2, <2>3 DEF t, m
<1>6. CASE t > HalfRange
  <2>1. Stop(limit) = t - 1 - 2 * HalfRange BY <1>1, <1>2, <1>3, <1>6
  <2>2. Entries(Stop(limit)) = Max({0, m + t - 2 * HalfRange}) BY <1>1, <1>2, <1>4, <2>1
  <2>3. Max({0, m + t - 2 * HalfRange}) <= Min({t, m})
    BY <1>1, <1>2, MinOfTwo, MaxOfTwo
  <2> QED BY <1>1, <1>2, <1>6, <2>2, <2>3 DEF t, m
<1> QED BY <1>1, <1>2, <1>5, <1>6

\* The property of hot_top needs no invariant.
LEMMA TopIsAlwaysRight == TopIsRight
<1>1. SUFFICES ASSUME NEW limit \in Limits, NEW S \in TopItems(limit)
               PROVE  LET wanted == Min({TopLimit(limit), Cardinality(Members)}) IN
                      /\ Cardinality(S) <= wanted
                      /\ \A i \in S, k \in Members \ S : score[i] >= score[k]
                      /\ TopLimit(limit) <= HalfRange => Cardinality(S) = wanted
  BY DEF TopIsRight
<1>2. Cardinality(S) = Entries(Stop(limit)) /\ \A i \in S, k \in Members \ S : score[i] >= score[k]
  BY DEF TopItems
<1> QED BY <1>2, EntriesRight

-----------------------------------------------------------------------------
(* Theorems about HotItems *)

\* Both invariants hold: no step of one half touches the other.
THEOREM HotInvariant == Spec => [](ClaimsIInv /\ RankingIInv)
<1>1. Init => ClaimsIInv /\ RankingIInv BY ClaimsInitEstablishes, RankingInitEstablishes DEF Init
<1>2. ClaimsIInv /\ RankingIInv /\ [Next]_vars => ClaimsIInv' /\ RankingIInv'
  <2>1. [Next]_vars => [ClaimsNext]_claimVars /\ [RankingNext]_rankingVars
    BY DEF Next, vars, claimVars, rankingVars
  <2> QED BY <2>1, ClaimsStepKeeps, RankingStepKeeps
<1> QED BY <1>1, <1>2, PTL DEF Spec

\* Type correctness: the stock never falls below zero.
THEOREM HotTypeOK == Spec => []TypeOK
<1>1. ClaimsIInv /\ RankingIInv => TypeOK BY DEF ClaimsIInv, RankingIInv, TypeOK
<1> QED BY <1>1, HotInvariant, PTL

\* No unit is lost or handed out twice by lost answers and retries, and a user
\* gets one, and one more for each wipe of the users key.
THEOREM HotUnitsAccounted == Spec => []UnitsAccounted
<1>1. ClaimsIInv => UnitsAccounted
  <2> SUFFICES ASSUME ClaimsIInv PROVE UnitsAccounted OBVIOUS
  <2>1. ASSUME NEW u \in Users PROVE granted[u] <= 1 + foreign["users"]
    <3>1. granted[u] \in Nat /\ foreign["users"] \in Nat
      BY ClaimsAssumption DEF ClaimsIInv, ClaimsTypeOK
    <3>2. granted[u] <= foreign["users"] + (IF u \in holders THEN 1 ELSE 0) BY DEF ClaimsIInv, OneUnitPerWipe
    <3> QED BY <3>1, <3>2
  <2> QED BY <2>1 DEF ClaimsIInv, Accounted, UnitsAccounted
<1> QED BY <1>1, HotInvariant, PTL

\* The latest answer tells the truth about the unit.
THEOREM HotAnswerTellsHolding == Spec => []AnswerTellsHolding
<1>1. ClaimsIInv => AnswerTellsHolding BY DEF ClaimsIInv
<1> QED BY <1>1, HotInvariant, PTL

\* A score is what was told, and what failed or still runs.
THEOREM HotScoreExplained == Spec => []ScoreExplained
<1>1. RankingIInv => ScoreExplained
  <2> SUFFICES ASSUME RankingIInv, NEW i \in Items
               PROVE  /\ told[i] <= score[i]
                      /\ score[i] <= told[i] + failed[i] + Cardinality(Running(i))
    BY DEF ScoreExplained
  <2>1. told[i] \in Nat /\ failed[i] \in Nat /\ Cardinality(Running(i)) \in Nat
    BY RunningFinite DEF RankingIInv, RankingTypeOK
  <2>2. score[i] = told[i] + failed[i] + Cardinality(Running(i)) BY DEF RankingIInv, Exact
  <2> QED BY <2>1, <2>2
<1> QED BY <1>1, HotInvariant, PTL

\* A ranking without expiry has an increment that runs or that failed half-way.
THEOREM HotEndlessExplained == Spec => []EndlessExplained
<1>1. RankingIInv => EndlessExplained BY DEF RankingIInv
<1> QED BY <1>1, HotInvariant, PTL

\* hot_top answers with the highest scores, and with all that were asked for up
\* to the largest limit whose index is positive.
THEOREM HotTopIsRight == Spec => []TopIsRight
  BY TopIsAlwaysRight, PTL

-----------------------------------------------------------------------------
(* Finite sets of numbers *)

\* A nonempty family of subsets of a finite set has a member with no other one
\* inside it.
LEMMA Innermost ==
  ASSUME NEW S, IsFiniteSet(S), NEW F, F \subseteq SUBSET S, F # {}
  PROVE  \E T \in F : \A U \in F : U \subseteq T => U = T
<1> DEFINE R == StrictSubsetOrdering(S)
<1>1. IsWellFoundedOn(R, SUBSET S) BY FS_StrictSubsetOrderingWellFounded, FS_FiniteSubsetsOfFinite
<1>2. \A T, U \in SUBSET S : U \subseteq T /\ U # T => <<U, T>> \in R BY DEF StrictSubsetOrdering
<1> HIDE DEF R
<1>3. PICK T \in F : \A U \in F : ~ (<<U, T>> \in R) BY <1>1, WFMin
<1> QED BY <1>2, <1>3

\* The least and the greatest number: the ends at which the numbers on the far
\* side are an innermost set.
LEMMA HasLeast ==
  ASSUME NEW S, IsFiniteSet(S), S \subseteq Nat, S # {}
  PROVE  \E x \in S : \A y \in S : x <= y
<1> DEFINE Upto(x) == {y \in S : y <= x}
           F       == {Upto(x) : x \in S}
<1>1. /\ \A x \in S : Upto(x) \in F /\ Upto(x) \subseteq S
      /\ \A T \in F : \E x \in S : T = Upto(x)
  OBVIOUS
<1> HIDE DEF F
<1>2. F # {} /\ \A T \in F : T \in SUBSET S BY <1>1
<1>3. PICK T \in F : \A U \in F : U \subseteq T => U = T BY <1>2, Innermost
<1>4. PICK x \in S : T = Upto(x) BY <1>1
<1>5. ASSUME NEW y \in S, y < x PROVE FALSE
  <2>1. Upto(y) \subseteq Upto(x)
    <3>1. x \in Nat /\ \A z \in S : z \in Nat OBVIOUS
    <3>2. \A z \in S : z <= y => z <= x BY <1>5, <3>1
    <3> QED BY <3>2
  <2>2. Upto(y) = Upto(x) BY <1>1, <1>3, <1>4, <2>1
  <2>3. x \in Upto(x) OBVIOUS
  <2> QED BY <1>5, <2>2, <2>3
<1> QED BY <1>5

LEMMA HasGreatest ==
  ASSUME NEW S, IsFiniteSet(S), S \subseteq Nat, S # {}
  PROVE  \E x \in S : \A y \in S : y <= x
<1> DEFINE From(x) == {y \in S : y >= x}
           F       == {From(x) : x \in S}
<1>1. /\ \A x \in S : From(x) \in F /\ From(x) \subseteq S
      /\ \A T \in F : \E x \in S : T = From(x)
  OBVIOUS
<1> HIDE DEF F
<1>2. F # {} /\ \A T \in F : T \in SUBSET S BY <1>1
<1>3. PICK T \in F : \A U \in F : U \subseteq T => U = T BY <1>2, Innermost
<1>4. PICK x \in S : T = From(x) BY <1>1
<1>5. ASSUME NEW y \in S, y > x PROVE FALSE
  <2>1. From(y) \subseteq From(x)
    <3>1. x \in Nat /\ \A z \in S : z \in Nat OBVIOUS
    <3>2. \A z \in S : z >= y => z >= x BY <1>5, <3>1
    <3> QED BY <3>2
  <2>2. From(y) = From(x) BY <1>1, <1>3, <1>4, <2>1
  <2>3. x \in From(x) OBVIOUS
  <2> QED BY <1>5, <2>2, <2>3
<1> QED BY <1>5

-----------------------------------------------------------------------------
(* Lowest *)

\* Finitely many ids are below another, and fewer below a lower one.
LEMMA BelowFinite ==
  ASSUME NEW S, IsFiniteSet(S), NEW i
  PROVE  IsFiniteSet(Below(S, i)) /\ Cardinality(Below(S, i)) \in Nat
<1>1. Below(S, i) \subseteq S BY DEF Below
<1> QED BY <1>1, FS_Subset, FS_CardinalityType

LEMMA BelowMonotone ==
  ASSUME NEW S, IsFiniteSet(S), S \subseteq Nat, NEW i \in Nat, NEW k \in Nat, i <= k
  PROVE  Cardinality(Below(S, i)) <= Cardinality(Below(S, k))
<1>1. Below(S, i) \subseteq Below(S, k)
  <2>1. \A x \in S : x \in Nat OBVIOUS
  <2>2. \A x \in S : x < i => x < k BY <2>1
  <2> QED BY <2>2 DEF Below
<1> QED BY <1>1, BelowFinite, FS_Subset

\* With an id, all lower ones are among the lowest.
LEMMA LowestFromBelow ==
  ASSUME NEW S, IsFiniteSet(S), S \subseteq Nat, NEW n \in Nat,
         NEW k \in Lowest(S, n), NEW i \in S, i <= k
  PROVE  i \in Lowest(S, n)
<1>1. i \in Nat /\ k \in Nat /\ Cardinality(Below(S, k)) < n BY DEF Lowest
<1>2. /\ Cardinality(Below(S, i)) \in Nat /\ Cardinality(Below(S, k)) \in Nat
      /\ Cardinality(Below(S, i)) <= Cardinality(Below(S, k))
  BY <1>1, BelowFinite, BelowMonotone
<1> QED BY <1>1, <1>2 DEF Lowest

\* They are finitely many ids of S, at least one when there is one and n is not 0.
LEMMA LowestKind ==
  ASSUME NEW S, IsFiniteSet(S), S \subseteq Nat, NEW n \in Nat
  PROVE  /\ Lowest(S, n) \subseteq S
         /\ IsFiniteSet(Lowest(S, n)) /\ Cardinality(Lowest(S, n)) \in Nat
         /\ S # {} /\ n > 0 => Lowest(S, n) # {}
<1>1. Lowest(S, n) \subseteq S BY DEF Lowest
<1>2. IsFiniteSet(Lowest(S, n)) BY <1>1, FS_Subset
<1>3. ASSUME S # {}, n > 0 PROVE Lowest(S, n) # {}
  <2>1. PICK m \in S : \A y \in S : m <= y BY <1>3, HasLeast
  <2>2. Below(S, m) = {}
    <3>1. m \in Nat /\ \A y \in S : y \in Nat OBVIOUS
    <3>2. \A y \in S : ~(y < m) BY <2>1, <3>1
    <3> QED BY <3>2 DEF Below
  <2>3. Cardinality(Below(S, m)) = 0 BY <2>2, FS_EmptySet
  <2> QED BY <1>3, <2>3 DEF Lowest
<1> QED BY <1>1, <1>2, <1>3, FS_CardinalityType

\* No more than n ids: they are all among the n lowest.
LEMMA LowestOfFew ==
  ASSUME NEW S, IsFiniteSet(S), S \subseteq Nat, NEW n \in Nat, Cardinality(S) <= n
  PROVE  Lowest(S, n) = S
<1>1. SUFFICES ASSUME NEW i \in S PROVE Cardinality(Below(S, i)) < n BY DEF Lowest
<1>2. Below(S, i) \subseteq S \ {i} BY DEF Below
<1>3. IsFiniteSet(S \ {i}) /\ Cardinality(S \ {i}) = Cardinality(S) - 1 BY FS_RemoveElement
<1>4. /\ Cardinality(Below(S, i)) <= Cardinality(S \ {i}) /\ IsFiniteSet(Below(S, i))
  BY <1>2, <1>3, FS_Subset
<1>5. Cardinality(S) \in Nat /\ Cardinality(Below(S, i)) \in Nat BY <1>4, FS_CardinalityType
<1> QED BY <1>3, <1>4, <1>5

\* Fewer than n + 1 of the lowest n + 1: there are no more.
LEMMA LowestNotFull ==
  ASSUME NEW S, IsFiniteSet(S), S \subseteq Nat, NEW n \in Nat, Cardinality(Lowest(S, n + 1)) <= n
  PROVE  Lowest(S, n + 1) = S
<1> DEFINE L == Lowest(S, n + 1)
<1>1. L \subseteq S /\ IsFiniteSet(L) /\ Cardinality(L) \in Nat
  <2>1. n + 1 \in Nat OBVIOUS
  <2> QED BY <2>1, LowestKind
<1>2. SUFFICES ASSUME S \ L # {} PROVE FALSE BY <1>1
<1>3. IsFiniteSet(S \ L) BY FS_Subset
<1>4. PICK m \in S \ L : \A y \in S \ L : m <= y BY <1>2, <1>3, HasLeast
<1>5. Below(S, m) \subseteq L
  <2>1. m \in Nat /\ \A y \in S : y \in Nat OBVIOUS
  <2>2. \A y \in S : y < m => y \in L BY <1>4, <2>1
  <2> QED BY <2>2 DEF Below
<1>6. Cardinality(Below(S, m)) <= Cardinality(L) /\ IsFiniteSet(Below(S, m))
  BY <1>1, <1>5, FS_Subset
<1>7. Cardinality(Below(S, m)) \in Nat BY <1>6, FS_CardinalityType
<1>8. Cardinality(Below(S, m)) < n + 1 BY <1>1, <1>6, <1>7
<1>9. m \in L BY <1>8 DEF Lowest
<1> QED BY <1>4, <1>9

-----------------------------------------------------------------------------
(* Paging *)

Shown == {seen[i] : i \in 1..Len(seen)}

\* The cursor tells how far the client is: it has seen nothing beyond it, and
\* every row at or before it that was there all along.
UpToCursor ==
  /\ scan = "new" => cursor = NoCursor /\ seen = <<>>
  /\ scan = "paging" => cursor # NoCursor /\ \A id \in Shown : id <= cursor
  /\ \A id \in steady : (scan = "paging" /\ id <= cursor) \/ scan = "done" => id \in Shown

PagesIInv ==
  /\ PagesTypeOK
  /\ IsFiniteSet(rows)
  /\ NoRowTwice
  /\ UpToCursor

\* What a page has, for the rows that match: all of them on the last page, and
\* otherwise all up to the cursor it names, which is on it.
LEMMA PageContents ==
  ASSUME PagesTypeOK, IsFiniteSet(rows), NEW n \in Nat \ {0}, NEW M, M = Matching(cursor),
         NEW F, F = Lowest(M, n + 1), NEW P, P = Lowest(F, n)
  PROVE  /\ IsFiniteSet(P) /\ P \subseteq M /\ M \subseteq rows
         /\ ~HasMore(F, n) => P = M
         /\ HasMore(F, n) => /\ NextCursor(F, n) \in P
                             /\ \A id \in P : id <= NextCursor(F, n)
                             /\ \A id \in M : id <= NextCursor(F, n) => id \in P
<1>1. rows \subseteq Nat BY PagesAssumption DEF PagesTypeOK
<1>2. M \subseteq rows /\ M \subseteq Nat BY <1>1 DEF Matching
<1>3. IsFiniteSet(M) BY <1>2, FS_Subset
<1>4. n + 1 \in Nat /\ n + 1 > 0 /\ n \in Nat /\ n > 0 OBVIOUS
<1>5. F \subseteq M /\ IsFiniteSet(F) /\ Cardinality(F) \in Nat BY <1>2, <1>3, <1>4, LowestKind
<1>6. F \subseteq Nat BY <1>2, <1>5
<1>7. P \subseteq F /\ IsFiniteSet(P) BY <1>4, <1>5, <1>6, LowestKind
<1>8. ASSUME ~HasMore(F, n) PROVE P = M
  <2>1. Cardinality(F) <= n BY <1>5, <1>8 DEF HasMore
  <2>2. P = F BY <1>4, <1>5, <1>6, <2>1, LowestOfFew
  <2>3. F = M BY <1>2, <1>3, <1>4, <2>1, LowestNotFull
  <2> QED BY <2>2, <2>3
<1>9. ASSUME HasMore(F, n)
      PROVE  /\ NextCursor(F, n) \in P
             /\ \A id \in P : id <= NextCursor(F, n)
             /\ \A id \in M : id <= NextCursor(F, n) => id \in P
  <2>1. F # {}
    <3>1. Cardinality(F) > n BY <1>9 DEF HasMore
    <3> QED BY <1>4, <3>1, FS_EmptySet
  <2>2. P # {} BY <1>4, <1>5, <1>6, <2>1, LowestKind
  <2>3. P \subseteq Nat BY <1>6, <1>7
  <2>4. \E i \in P : \A k \in P : k <= i BY <1>7, <2>2, <2>3, HasGreatest
  <2>5. NextCursor(F, n) = CHOOSE i \in P : \A k \in P : k <= i BY <1>9 DEF NextCursor
  <2>6. PICK c \in P : c = NextCursor(F, n) /\ \A k \in P : k <= c BY <2>4, <2>5
  <2>7. ASSUME NEW id \in M, id <= c PROVE id \in P
    <3>1. c \in Lowest(M, n + 1) BY <1>7, <2>6
    <3>2. id \in F BY <1>2, <1>3, <1>4, <2>7, <3>1, LowestFromBelow
    <3>3. c \in Lowest(F, n) BY <2>6
    <3>4. id \in Lowest(F, n) BY <1>4, <1>5, <1>6, <2>7, <3>2, <3>3, LowestFromBelow
    <3> QED BY <3>4
  <2> QED BY <2>6, <2>7
<1> QED BY <1>2, <1>5, <1>7, <1>8, <1>9

\* Concatenation, place by place.
LEMMA Concatenated ==
  ASSUME NEW S, NEW s \in Seq(S), NEW t \in Seq(S)
  PROVE  /\ s \o t \in Seq(S) /\ Len(s \o t) = Len(s) + Len(t)
         /\ \A i \in 1..(Len(s) + Len(t)) : (s \o t)[i] = IF i <= Len(s) THEN s[i] ELSE t[i - Len(s)]
  OBVIOUS

\* A page behind what was seen before it: the ids still rise.
LEMMA Appended ==
  ASSUME seen \in Seq(Ids), NoRowTwice, NEW P, IsFiniteSet(P), P \subseteq Ids,
         NEW page \in InOrder(P), \A id \in Shown, k \in P : id < k, seen' = seen \o page
  PROVE  /\ seen' \in Seq(Ids) /\ NoRowTwice'
         /\ Shown' = Shown \union P
<1>a. PICK N \in Nat : N = Cardinality(P) BY FS_CardinalityType
<1>b. PICK L \in Nat : L = Len(seen) OBVIOUS
<1>1. seen \in [1..L -> Ids] BY <1>b
<1>2. /\ page \in [1..N -> P]
      /\ \A i, k \in 1..N : i < k => page[i] < page[k]
      /\ \A id \in P : \E i \in 1..N : page[i] = id
  BY <1>a DEF InOrder
<1>3. page \in Seq(Ids) /\ Len(page) = N
  <2>1. page \in Seq(P) /\ Len(page) = N BY <1>2
  <2> QED BY <2>1
<1>4. /\ seen' \in Seq(Ids) /\ Len(seen') = L + N
      /\ \A i \in 1..(L + N) : seen'[i] = IF i <= L THEN seen[i] ELSE page[i - L]
  <2>0. seen \o page \in Seq(Ids) /\ Len(seen \o page) = Len(seen) + Len(page) BY <1>3, Concatenated
  <2>1. seen' \in Seq(Ids) /\ Len(seen') = L + N BY <1>b, <1>3, <2>0
  <2>2. ASSUME NEW i \in 1..(L + N) PROVE seen'[i] = IF i <= L THEN seen[i] ELSE page[i - L]
    BY <1>b, <1>3, Concatenated
  <2> QED BY <2>1, <2>2
<1>5. NoRowTwice'
  <2>1. SUFFICES ASSUME NEW i \in 1..(L + N), NEW k \in 1..(L + N), i < k PROVE seen'[i] < seen'[k]
    BY <1>4 DEF NoRowTwice
  <2>2. CASE k <= L
    <3>1. i \in 1..L /\ k \in 1..L BY <1>1, <2>1, <2>2
    <3>2. seen[i] < seen[k] BY <1>b, <2>1, <3>1 DEF NoRowTwice
    <3> QED BY <1>1, <1>4, <2>1, <2>2, <3>1, <3>2
  <2>3. CASE i <= L /\ k > L
    <3>1. i \in 1..L /\ k - L \in 1..N BY <1>1, <2>1, <2>3
    <3>2. seen[i] \in Shown /\ page[k - L] \in P BY <1>b, <1>2, <3>1 DEF Shown
    <3> QED BY <1>1, <1>4, <2>3, <3>2
  <2>4. CASE i > L
    <3>1. i - L \in 1..N /\ k - L \in 1..N /\ i - L < k - L BY <1>1, <2>1, <2>4
    <3>2. page[i - L] < page[k - L] BY <1>2, <3>1
    <3> QED BY <1>1, <1>4, <2>1, <2>4, <3>2
  <2>5. k <= L \/ (i <= L /\ k > L) \/ i > L OBVIOUS
  <2> QED BY <2>2, <2>3, <2>4, <2>5
<1>6. ASSUME NEW id PROVE id \in Shown' <=> id \in Shown \union P
  <2>1. ASSUME NEW i \in 1..(L + N), id = seen'[i] PROVE id \in Shown \union P
    <3>1. CASE i <= L
      <4>1. i \in 1..L /\ id = seen[i] BY <1>1, <1>4, <2>1, <3>1
      <4> QED BY <1>b, <4>1 DEF Shown
    <3>2. CASE i > L
      <4>1. i - L \in 1..N /\ id = page[i - L] BY <1>1, <1>4, <2>1, <3>2
      <4> QED BY <1>2, <4>1
    <3>3. i <= L \/ i > L OBVIOUS
    <3> QED BY <3>1, <3>2, <3>3
  <2>2. ASSUME NEW i \in 1..L, id = seen[i] PROVE id \in Shown'
    <3>1. i \in 1..(L + N) /\ seen'[i] = id BY <1>1, <1>4, <2>2
    <3> QED BY <1>4, <3>1 DEF Shown
  <2>3. ASSUME NEW i \in 1..N, id = page[i] PROVE id \in Shown'
    <3>1. L + i \in 1..(L + N) /\ seen'[L + i] = id BY <1>1, <1>4, <2>3
    <3> QED BY <1>4, <3>1 DEF Shown
  <2>4. id \in Shown' => \E i \in 1..(L + N) : id = seen'[i] BY <1>4 DEF Shown
  <2>5. id \in Shown => \E i \in 1..L : id = seen[i] BY <1>b DEF Shown
  <2> QED BY <1>2, <2>1, <2>2, <2>3, <2>4, <2>5
<1> QED BY <1>4, <1>5, <1>6

\* A request of the client.
LEMMA PageKeeps ==
  ASSUME PagesIInv, NEW size \in Sizes, Page(size)
  PROVE  PagesIInv'
<1> DEFINE n == PageSize(size)
<1>1. n \in Nat \ {0} BY PagesAssumption DEF PageSize
<1> HIDE DEF n
<1>2. PICK M, F, P : M = Matching(cursor) /\ F = Lowest(M, n + 1) /\ P = Lowest(F, n) OBVIOUS
<1>3. PICK page \in InOrder(P) : seen' = seen \o page BY <1>2 DEF Page, n
<1>4. /\ scan # "done" /\ cursor' = NextCursor(F, n)
      /\ scan' = IF HasMore(F, n) THEN "paging" ELSE "done"
      /\ steady' = IF scan = "new" THEN rows ELSE steady
      /\ UNCHANGED <<rows, used>>
  BY <1>2 DEF Page, n
<1>5. /\ IsFiniteSet(P) /\ P \subseteq M /\ M \subseteq rows
      /\ ~HasMore(F, n) => P = M
      /\ HasMore(F, n) => /\ NextCursor(F, n) \in P
                          /\ \A id \in P : id <= NextCursor(F, n)
                          /\ \A id \in M : id <= NextCursor(F, n) => id \in P
  BY <1>1, <1>2, PageContents DEF PagesIInv
<1>6. /\ rows \subseteq Ids /\ steady \subseteq rows /\ seen \in Seq(Ids) /\ NoRowTwice
      /\ scan \in {"new", "paging"} /\ IsFiniteSet(rows) /\ used \subseteq Ids /\ rows \subseteq used
  BY <1>4 DEF PagesIInv, PagesTypeOK
<1>7. \A id \in Shown, k \in P : id < k
  <2>1. SUFFICES ASSUME NEW id \in Shown, NEW k \in P PROVE id < k OBVIOUS
  <2>2. id \in Ids /\ seen # <<>> BY <1>6 DEF Shown
  <2>3. scan = "paging" /\ cursor # NoCursor /\ id <= cursor BY <1>6, <2>2 DEF PagesIInv, UpToCursor
  <2>4. k > cursor BY <1>2, <1>5, <2>3 DEF Matching
  <2>5. cursor \in Nat /\ id \in Nat /\ k \in Nat
    BY <1>5, <1>6, <2>2, <2>3, PagesAssumption DEF PagesIInv, PagesTypeOK
  <2> QED BY <2>3, <2>4, <2>5
<1>8. seen' \in Seq(Ids) /\ NoRowTwice' /\ Shown' = Shown \union P
  <2>1. P \subseteq Ids BY <1>5, <1>6
  <2> QED BY <1>3, <1>5, <1>6, <1>7, <2>1, Appended
<1>9. ~HasMore(F, n) => cursor' = NoCursor BY <1>4 DEF NextCursor
<1>10. PagesTypeOK'
  <2>1. cursor' \in Ids \union {NoCursor} BY <1>4, <1>5, <1>6, <1>9
  <2>2. steady' \subseteq rows' BY <1>4, <1>6
  <2> QED BY <1>4, <1>6, <1>8, <2>1, <2>2 DEF PagesTypeOK
\* What was there all along is shown by now or still to come.
<1>11. \A id \in steady' : id \in Shown \/ id \in M
  <2>1. SUFFICES ASSUME NEW id \in steady' PROVE id \in Shown \/ id \in M OBVIOUS
  <2>2. id \in rows BY <1>4, <1>6
  <2>3. CASE scan = "new"
    <3>1. cursor = NoCursor BY <2>3 DEF PagesIInv, UpToCursor
    <3> QED BY <1>2, <2>2, <3>1 DEF Matching
  <2>4. CASE scan = "paging"
    <3>1. id \in steady /\ (id <= cursor => id \in Shown) BY <1>4, <2>4 DEF PagesIInv, UpToCursor
    <3>2. cursor # NoCursor BY <2>4 DEF PagesIInv, UpToCursor
    <3>3. cursor \in Nat /\ id \in Nat
      BY <1>6, <2>2, <3>2, PagesAssumption DEF PagesIInv, PagesTypeOK
    <3>4. id <= cursor \/ id > cursor BY <3>3
    <3> QED BY <1>2, <2>2, <3>1, <3>4 DEF Matching
  <2> QED BY <1>6, <2>3, <2>4
<1>12. UpToCursor'
  <2>1. CASE HasMore(F, n)
    <3>1. cursor' \in P /\ scan' = "paging" BY <1>4, <1>5, <2>1
    <3>2. cursor' \in Nat /\ cursor' # NoCursor
      <4>1. cursor' \in Nat BY <1>5, <1>6, <3>1, PagesAssumption
      <4> QED BY <4>1, PagesAssumption
    <3>3. \A id \in Shown' : id <= cursor'
      <4>1. SUFFICES ASSUME NEW id \in Shown PROVE id <= cursor' BY <1>4, <1>5, <1>8, <2>1
      <4>2. id < cursor' BY <1>7, <3>1
      <4>3. id \in Ids BY <1>6 DEF Shown
      <4>4. id \in Nat BY <4>3, PagesAssumption
      <4> QED BY <3>2, <4>2, <4>4
    <3>4. \A id \in steady' : id <= cursor' => id \in Shown'
      BY <1>4, <1>5, <1>8, <1>11, <2>1
    <3> QED BY <3>1, <3>2, <3>3, <3>4 DEF UpToCursor
  <2>2. CASE ~HasMore(F, n)
    <3>1. scan' = "done" /\ P = M BY <1>4, <1>5, <2>2
    <3>2. \A id \in steady' : id \in Shown' BY <1>8, <1>11, <3>1
    <3> QED BY <3>1, <3>2 DEF UpToCursor
  <2> QED BY <2>1, <2>2
<1> QED BY <1>4, <1>6, <1>8, <1>10, <1>12 DEF PagesIInv

\* Rows come and go.
LEMMA TableKeeps ==
  ASSUME PagesIInv, NEW i \in Ids, Create(i) \/ Delete(i)
  PROVE  PagesIInv'
<1>1. CASE Create(i)
  <2>1. IsFiniteSet(rows') BY <1>1, FS_AddElement DEF Create, PagesIInv
  <2>2. Shown' = Shown BY <1>1 DEF Create, Shown
  <2> QED BY <1>1, <2>1, <2>2 DEF Create, PagesIInv, PagesTypeOK, NoRowTwice, UpToCursor
<1>2. CASE Delete(i)
  <2>1. IsFiniteSet(rows')
    <3>1. rows' \subseteq rows BY <1>2 DEF Delete
    <3>2. IsFiniteSet(rows) BY DEF PagesIInv
    <3> QED BY <3>1, <3>2, FS_Subset
  <2>2. Shown' = Shown BY <1>2 DEF Delete, Shown
  <2> QED BY <1>2, <2>1, <2>2 DEF Delete, PagesIInv, PagesTypeOK, NoRowTwice, UpToCursor
<1> QED BY <1>1, <1>2

-----------------------------------------------------------------------------
(* Theorems about BakeryPages *)

\* The inductive invariant holds.
THEOREM PagesInvariant == PagesSpec => []PagesIInv
<1>1. PagesInit => PagesIInv
  <2> SUFFICES ASSUME PagesInit PROVE PagesIInv OBVIOUS
  <2>1. Len(seen) = 0 /\ seen \in Seq(Ids) BY DEF PagesInit
  <2>2. IsFiniteSet(rows) BY FS_EmptySet DEF PagesInit
  <2> QED BY <2>1, <2>2 DEF PagesInit, PagesIInv, PagesTypeOK, NoRowTwice, UpToCursor, Shown
<1>2. PagesIInv /\ [PagesNext]_pagesVars => PagesIInv'
  <2> SUFFICES ASSUME PagesIInv, [PagesNext]_pagesVars PROVE PagesIInv' OBVIOUS
  <2>1. CASE UNCHANGED pagesVars
    BY <2>1 DEF pagesVars, PagesIInv, PagesTypeOK, NoRowTwice, UpToCursor, Shown
  <2>2. CASE PagesNext BY <2>2, PageKeeps, TableKeeps DEF PagesNext
  <2> QED BY <2>1, <2>2
<1> QED BY <1>1, <1>2, PTL DEF PagesSpec

\* Type correctness: a cursor is the id of a row, or there is none.
THEOREM PagesTypes == PagesSpec => []PagesTypeOK
<1>1. PagesIInv => PagesTypeOK BY DEF PagesIInv
<1> QED BY <1>1, PagesInvariant, PTL

\* No row is shown twice, and the ids rise from page to page.
THEOREM PagesNoRowTwice == PagesSpec => []NoRowTwice
<1>1. PagesIInv => NoRowTwice BY DEF PagesIInv
<1> QED BY <1>1, PagesInvariant, PTL

\* Whoever paged to the end has seen every row that was there all along.
THEOREM PagesSteadyRowsSeen == PagesSpec => []SteadyRowsSeen
<1>1. PagesIInv => SteadyRowsSeen BY DEF PagesIInv, UpToCursor, SteadyRowsSeen, Shown
<1> QED BY <1>1, PagesInvariant, PTL
=============================================================================
