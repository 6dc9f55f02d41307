------------------------ MODULE OrderPipeline_proofs ------------------------
(***************************************************************************)
(* The safety of the order pipeline for any number of orders, SKUs,        *)
(* quantities, stock rows and inventory workers.                           *)
(***************************************************************************)
EXTENDS OrderReads, FiniteSetTheorems, TLAPS

\* What InsertOrder and the handlers rely on, unfolded from the assumption.
LEMMA ConstantTypes ==
  /\ \A o \in Orders : SkuOf[o] \in Skus /\ QtyOf[o] \in Int
  /\ Absent \notin Int
  /\ InitialStock \in [Skus -> Quantity]
BY PipelineAssumption DEF Quantity

\* No order, result or cached quantity exists in the initial state.
LEMMA InitIInv == Init => IInv
<1> SUFFICES ASSUME Init PROVE IInv
  OBVIOUS
<1> USE DEF Init
<1>1. TypeOK
  BY ConstantTypes DEF TypeOK, Quantity, Reasons, RefreshState, Result
<1>2. OneResultPerOrder /\ RefusalJustified /\ RowsFollowRequests
  BY DEF OneResultPerOrder, RefusalJustified, RowsFollowRequests
<1>3. CacheNeverUnderstates
  BY DEF CacheNeverUnderstates, NeverUnderstates, Idle
<1>4. InboxMatchesResults /\ StatusFromResult
  BY DEF InboxMatchesResults, StatusFromResult
<1>5. QED
  BY <1>1, <1>2, <1>3, <1>4 DEF IInv

\* The handler's transaction never raises a stock row, never empties it below
\* zero and records its reason.
LEMMA HandlerEffect ==
  ASSUME TypeOK, NEW o \in Orders, NEW seen \in BOOLEAN, QtyOf[o] > 0
  PROVE  /\ StockAfter(o, seen) \in [Skus -> Quantity]
         /\ \A s \in Skus : stock[s] = Absent => StockAfter(o, seen)[s] = Absent
         /\ \A s \in Skus : stock[s] # Absent =>
              StockAfter(o, seen)[s] # Absent /\ StockAfter(o, seen)[s] <= stock[s]
         /\ ResultOf(o, seen) \in Result
         /\ ResultOf(o, seen).order = o
         /\ ResultOf(o, seen).success <=> ResultOf(o, seen).reason = "none"
         /\ ResultOf(o, seen).success <=> Reserves(o, seen)
<1>1. /\ SkuOf[o] \in Skus /\ QtyOf[o] \in Nat /\ QtyOf[o] > 0
      /\ stock \in [Skus -> Nat \union {Absent}] /\ Absent \notin Int
  BY ConstantTypes DEF TypeOK, Quantity
<1>2. Reserves(o, seen) \in BOOLEAN /\ Suffices(o) \in BOOLEAN
  BY DEF Reserves, Suffices
<1>3. /\ StockAfter(o, seen) \in [Skus -> Quantity]
      /\ \A s \in Skus : stock[s] = Absent => StockAfter(o, seen)[s] = Absent
      /\ \A s \in Skus : stock[s] # Absent =>
           StockAfter(o, seen)[s] # Absent /\ StockAfter(o, seen)[s] <= stock[s]
  <2>1. CASE Reserves(o, seen)
    <3>1. stock[SkuOf[o]] \in Nat /\ stock[SkuOf[o]] >= QtyOf[o]
      BY <1>1, <2>1 DEF Reserves, Suffices
    <3>2. stock[SkuOf[o]] - QtyOf[o] \in Nat /\ stock[SkuOf[o]] - QtyOf[o] <= stock[SkuOf[o]]
      BY <1>1, <3>1
    <3>3. StockAfter(o, seen) = [stock EXCEPT ![SkuOf[o]] = stock[SkuOf[o]] - QtyOf[o]]
      BY <2>1 DEF StockAfter
    <3>4. QED
      BY <1>1, <3>1, <3>2, <3>3 DEF Quantity
  <2>2. CASE ~Reserves(o, seen)
    BY <1>1, <2>2 DEF StockAfter, Quantity
  <2>3. QED
    BY <2>1, <2>2
<1>4. /\ ResultOf(o, seen) \in Result
      /\ ResultOf(o, seen).order = o
      /\ ResultOf(o, seen).success <=> ResultOf(o, seen).reason = "none"
      /\ ResultOf(o, seen).success <=> Reserves(o, seen)
  BY <1>2 DEF ResultOf, Result, Reasons, Reserves
<1>5. QED
  BY <1>3, <1>4

\* The fields of an outbox row of the inventory.
LEMMA ResultFields ==
  ASSUME TypeOK, NEW i \in 1..Len(results)
  PROVE  /\ results[i] \in Result
         /\ results[i].order \in Orders
         /\ results[i].success \in BOOLEAN
         /\ results[i].reason \in Reasons
<1>1. results[i] \in Result
  BY DEF TypeOK
<1>2. QED
  BY <1>1 DEF Result

\* A quantity read earlier stays an upper bound while the stock row only falls.
LEMMA BoundsStay ==
  ASSUME NEW q \in Quantity, NEW old \in Quantity, NEW new \in Quantity,
         q # Absent => old # Absent /\ old <= q,
         old # Absent => new # Absent /\ new <= old
  PROVE  q # Absent => new # Absent /\ new <= q
BY ConstantTypes DEF Quantity

\* The invariant's parts that speak of the inventory only.
LEMMA InventoryPartsStay ==
  ASSUME UNCHANGED inventoryVars, UNCHANGED cache, UNCHANGED refresh,
         OneResultPerOrder, InboxMatchesResults, CacheNeverUnderstates
  PROVE  OneResultPerOrder' /\ InboxMatchesResults' /\ CacheNeverUnderstates'
BY DEF inventoryVars, OneResultPerOrder, InboxMatchesResults, CacheNeverUnderstates,
       NeverUnderstates

\* Every step of the pipeline keeps the inductive invariant.
LEMMA NextIInv == IInv /\ [Next]_vars => IInv'
<1> SUFFICES ASSUME IInv, [Next]_vars PROVE IInv'
  OBVIOUS
<1>0. /\ TypeOK /\ OneResultPerOrder /\ RefusalJustified /\ CacheNeverUnderstates
      /\ RowsFollowRequests /\ InboxMatchesResults /\ StatusFromResult
  BY DEF IInv
<1>1. ASSUME NEW o \in Orders, RejectInvalid(o) \/ Precheck(o) \/ InsertFails(o)
      PROVE  IInv'
  <2>1. /\ UNCHANGED <<orderVars, inventoryVars, topicVars, cache, refresh>>
        /\ api[o] \in {"new", "allowed"}
        /\ \E a \in {"invalid", "refused", "allowed", "error"} :
             /\ api' = [api EXCEPT ![o] = a]
             /\ a = "allowed" => QtyOf[o] > 0
             /\ a = "refused" => Refuses(cache[SkuOf[o]], QtyOf[o])
    BY <1>1 DEF RejectInvalid, Precheck, InsertFails, Valid, Refuses
  <2>2. TypeOK'
    BY <1>0, <2>1 DEF TypeOK, orderVars, inventoryVars, topicVars
  <2>3. RowsFollowRequests'
    BY <1>0, <2>1 DEF RowsFollowRequests, TypeOK, orderVars
  <2>4. RefusalJustified'
    <3>1. Refuses(cache[SkuOf[o]], QtyOf[o]) =>
            stock[SkuOf[o]] # Absent /\ stock[SkuOf[o]] < QtyOf[o]
      BY <1>0, ConstantTypes DEF Refuses, CacheNeverUnderstates, NeverUnderstates, TypeOK, Quantity
    <3>2. QED
      BY <1>0, <2>1, <3>1 DEF RefusalJustified, TypeOK, inventoryVars
  <2>5. StatusFromResult'
    BY <1>0, <2>1 DEF StatusFromResult, StatusFor, orderVars, inventoryVars
  <2>6. QED
    BY <1>0, <2>1, <2>2, <2>3, <2>4, <2>5, InventoryPartsStay DEF IInv
<1>2. ASSUME NEW o \in Orders, InsertOrder(o) PROVE IInv'
  <2> USE <1>2 DEF InsertOrder
  <2>1. TypeOK'
    BY <1>0 DEF TypeOK, inventoryVars, topicVars
  <2>2. status[o] = "None"
    BY <1>0 DEF RowsFollowRequests, TypeOK
  <2>3. RowsFollowRequests'
    BY <1>0, <2>2 DEF RowsFollowRequests, TypeOK
  <2>4. RefusalJustified'
    BY <1>0 DEF RefusalJustified, TypeOK, inventoryVars
  <2>5. StatusFromResult'
    BY <1>0, <2>2 DEF StatusFromResult, StatusFor, TypeOK, inventoryVars
  <2>6. QED
    BY <1>0, <2>1, <2>3, <2>4, <2>5, InventoryPartsStay DEF IInv
<1>3. ASSUME \/ \E o \in Orders : FlagSimulatedFailure(o) \/ RelayOrder(o)
             \/ \E i \in 1..Len(results) : RelayResult(i)
      PROVE  IInv'
  <2>1. /\ UNCHANGED <<api, status, reason, orderOutbox, ordInbox, inventoryVars, cache, refresh>>
        /\ flagged' \subseteq Orders
        /\ orderTopic \subseteq orderTopic' /\ orderTopic' \subseteq orderOutbox
        /\ resultTopic \subseteq resultTopic' /\ resultTopic' \subseteq 1..Len(results)
    BY <1>0, <1>3 DEF FlagSimulatedFailure, RelayOrder, RelayResult, orderVars, topicVars, TypeOK
  <2>2. TypeOK'
    BY <1>0, <2>1 DEF TypeOK, inventoryVars
  <2>3. RowsFollowRequests' /\ RefusalJustified'
    BY <1>0, <2>1 DEF RowsFollowRequests, RefusalJustified, inventoryVars
  <2>4. StatusFromResult'
    BY <1>0, <2>1 DEF StatusFromResult, StatusFor, inventoryVars
  <2>5. QED
    BY <1>0, <2>1, <2>2, <2>3, <2>4, InventoryPartsStay DEF IInv
<1>4. ASSUME NEW w \in Workers, NEW o \in Orders, HandleOrderCreated(w, o) PROVE IInv'
  <2>1. CASE o \in invInbox
    <3>1. UNCHANGED vars
      BY <1>4, <2>1 DEF HandleOrderCreated, IsNew, vars
    <3>2. QED
      BY <1>0, <3>1 DEF IInv, vars, orderVars, inventoryVars, topicVars, TypeOK,
         OneResultPerOrder, RefusalJustified, CacheNeverUnderstates, NeverUnderstates,
         RowsFollowRequests, InboxMatchesResults, StatusFromResult, StatusFor
  <2>2. CASE o \notin invInbox
    <3>0. PICK seen \in BOOLEAN :
            stock' = StockAfter(o, seen) /\ results' = Append(results, ResultOf(o, seen))
      BY <1>4, <2>2 DEF HandleOrderCreated, IsNew
    <3>1. /\ o \in orderTopic
          /\ invInbox' = invInbox \union {o}
          /\ stock' = StockAfter(o, seen)
          /\ results' = Append(results, ResultOf(o, seen))
          /\ refresh' = [refresh EXCEPT ![w] = [phase |-> "load", sku |-> SkuOf[o]]]
          /\ UNCHANGED <<api, orderVars, topicVars, cache>>
      BY <1>4, <2>2, <3>0 DEF HandleOrderCreated, IsNew
    <3>2. status[o] # "None" /\ QtyOf[o] > 0
      BY <1>0, <3>1 DEF RowsFollowRequests, TypeOK
    <3>3. /\ stock' \in [Skus -> Quantity]
          /\ \A s \in Skus : stock[s] # Absent => stock'[s] # Absent /\ stock'[s] <= stock[s]
          /\ ResultOf(o, seen) \in Result /\ ResultOf(o, seen).order = o
          /\ ResultOf(o, seen).success <=> ResultOf(o, seen).reason = "none"
      BY <1>0, <3>1, <3>2, HandlerEffect
    <3>4. /\ results' \in Seq(Result) /\ Len(results') = Len(results) + 1
          /\ Len(results) \in Nat
          /\ \A i \in 1..Len(results) : results'[i] = results[i]
          /\ results'[Len(results) + 1] = ResultOf(o, seen)
          /\ results \in Seq(Result)
      BY <1>0, <3>1, <3>3 DEF TypeOK
    <3>5. /\ \A i \in 1..Len(results') : i \in 1..Len(results) \/ i = Len(results) + 1
          /\ \A i \in 1..Len(results) : i \in 1..Len(results')
          /\ Len(results) + 1 \in 1..Len(results')
          /\ Len(results) + 1 \notin 1..Len(results)
      BY <3>4
    <3>6. \A i \in 1..Len(results) : results[i].order \in invInbox
      <4>1. \A i \in 1..Len(results) : results[i].order \in Orders
        BY <1>0, ResultFields
      <4>2. QED
        BY <1>0, <4>1 DEF InboxMatchesResults
    <3>7. TypeOK'
      <4>1. [phase |-> "load", sku |-> SkuOf[o]] \in RefreshState
        BY ConstantTypes DEF RefreshState
      <4>2. refresh' \in [Workers -> RefreshState]
        BY <1>0, <3>1, <4>1 DEF TypeOK
      <4>3. resultTopic' \subseteq 1..Len(results')
        BY <1>0, <3>1, <3>5 DEF TypeOK, topicVars
      <4>4. QED
        BY <1>0, <3>1, <3>3, <3>4, <4>2, <4>3 DEF TypeOK, orderVars, topicVars
    <3>8. OneResultPerOrder'
      <4>1. \A i \in 1..Len(results) : results'[i].order # o
        BY <2>2, <3>4, <3>6
      <4>2. results'[Len(results) + 1].order = o
        BY <3>3, <3>4
      <4>3. \A i, j \in 1..Len(results) : results'[i].order = results'[j].order => i = j
        BY <1>0, <3>4 DEF OneResultPerOrder
      <4>4. \A i, j \in 1..Len(results') : results'[i].order = results'[j].order => i = j
        BY <3>5, <4>1, <4>2, <4>3
      <4>5. QED
        BY <4>4 DEF OneResultPerOrder
    <3>9. RefusalJustified'
      <4>1. \A k \in Orders : SkuOf[k] \in Skus /\ QtyOf[k] \in Int
        BY ConstantTypes
      <4>2. \A k \in Orders : api[k] = "refused" =>
              stock'[SkuOf[k]] # Absent /\ stock'[SkuOf[k]] <= stock[SkuOf[k]]
        BY <1>0, <3>3, <4>1 DEF RefusalJustified
      <4>3. \A k \in Orders : api[k] = "refused" => stock[SkuOf[k]] \in Int /\ stock'[SkuOf[k]] \in Int
        BY <1>0, <3>3, <4>1, <4>2 DEF RefusalJustified, TypeOK, Quantity
      <4>4. QED
        BY <1>0, <3>1, <4>1, <4>2, <4>3 DEF RefusalJustified
    <3>10. CacheNeverUnderstates'
      <4>1. \A s \in Skus : cache[s] \in Quantity /\ stock[s] \in Quantity /\ stock'[s] \in Quantity
        BY <1>0, <3>3 DEF TypeOK
      <4>2. \A s \in Skus : cache[s] # Absent => stock'[s] # Absent /\ stock'[s] <= cache[s]
        BY <1>0, <3>3, <4>1, BoundsStay DEF CacheNeverUnderstates, NeverUnderstates
      <4>3. ASSUME NEW v \in Workers, refresh'[v].phase = "write"
            PROVE  LET f == refresh'[v] IN
                   f.quantity # Absent => stock'[f.sku] # Absent /\ stock'[f.sku] <= f.quantity
        <5>1. refresh'[v] = refresh[v] /\ refresh[v].phase = "write"
          BY <1>0, <3>1, <4>3 DEF TypeOK
        <5>2. refresh[v].quantity \in Quantity /\ refresh[v].sku \in Skus
          BY <1>0, <5>1 DEF TypeOK, RefreshState, Idle
        <5>3. refresh[v].quantity # Absent =>
                stock[refresh[v].sku] # Absent /\ stock[refresh[v].sku] <= refresh[v].quantity
          BY <1>0, <5>1 DEF CacheNeverUnderstates, NeverUnderstates
        <5>4. QED
          BY <3>3, <4>1, <5>1, <5>2, <5>3, BoundsStay
      <4>4. cache' = cache
        BY <3>1
      <4>5. QED
        BY <4>2, <4>3, <4>4 DEF CacheNeverUnderstates, NeverUnderstates
    <3>11. RowsFollowRequests'
      BY <1>0, <3>1 DEF RowsFollowRequests, orderVars
    <3>12. InboxMatchesResults'
      <4>1. \A k \in Orders : k \in invInbox' <=> \E i \in 1..Len(results') : results'[i].order = k
        <5>1. ASSUME NEW k \in Orders, k \in invInbox'
              PROVE  \E i \in 1..Len(results') : results'[i].order = k
          BY <1>0, <3>1, <3>3, <3>4, <3>5, <5>1 DEF InboxMatchesResults
        <5>2. ASSUME NEW k \in Orders, NEW i \in 1..Len(results'), results'[i].order = k
              PROVE  k \in invInbox'
          BY <3>1, <3>3, <3>4, <3>5, <3>6, <5>2
        <5>3. QED
          BY <5>1, <5>2
      <4>2. \A i \in 1..Len(results') : results'[i].success <=> results'[i].reason = "none"
        BY <1>0, <3>3, <3>4, <3>5 DEF InboxMatchesResults
      <4>3. QED
        BY <4>1, <4>2 DEF InboxMatchesResults
    <3>13. StatusFromResult'
      <4>1. ordInbox \subseteq 1..Len(results) /\ ordInbox' = ordInbox
        BY <1>0, <3>1 DEF TypeOK, orderVars
      <4>2. \A i \in ordInbox : results'[i] = results[i]
        BY <3>4, <4>1
      <4>3. QED
        BY <1>0, <3>1, <4>1, <4>2 DEF StatusFromResult, StatusFor, orderVars
    <3>14. QED
      BY <3>7, <3>8, <3>9, <3>10, <3>11, <3>12, <3>13 DEF IInv
  <2>3. QED
    BY <2>1, <2>2
<1>5. ASSUME NEW w \in Workers, RefreshLoad(w) \/ RefreshWrite(w) \/ RefreshAbandoned(w)
      PROVE  IInv'
  <2>1. /\ UNCHANGED <<api, orderVars, inventoryVars, topicVars>>
        /\ refresh[w] \in RefreshState /\ refresh[w] # Idle
    BY <1>0, <1>5 DEF RefreshLoad, RefreshWrite, RefreshAbandoned, TypeOK, Idle
  <2>2. refresh[w].sku \in Skus /\ (refresh[w].phase = "write" => refresh[w].quantity \in Quantity)
    BY <2>1 DEF RefreshState
  <2>3. /\ stock[refresh[w].sku] \in Quantity
        /\ NeverUnderstates(stock[refresh[w].sku], refresh[w].sku)
    BY <1>0, <2>2, ConstantTypes DEF TypeOK, NeverUnderstates, Quantity
  <2>4. /\ cache' \in [Skus -> Quantity] /\ refresh' \in [Workers -> RefreshState]
        /\ CacheNeverUnderstates'
    <3>1. CASE RefreshLoad(w)
      <4>1. /\ cache' = cache
            /\ refresh' = [refresh EXCEPT ![w] = [phase |-> "write", sku |-> refresh[w].sku,
                                                  quantity |-> stock[refresh[w].sku]]]
        BY <3>1 DEF RefreshLoad
      <4>2. refresh' \in [Workers -> RefreshState]
        BY <1>0, <2>2, <2>3, <4>1 DEF TypeOK, RefreshState
      <4>3. \A v \in Workers : refresh'[v].phase = "write" =>
              NeverUnderstates(refresh'[v].quantity, refresh'[v].sku)
        BY <1>0, <2>3, <4>1 DEF TypeOK, CacheNeverUnderstates
      <4>4. QED
        BY <1>0, <2>1, <4>1, <4>2, <4>3
           DEF TypeOK, CacheNeverUnderstates, NeverUnderstates, inventoryVars
    <3>2. CASE RefreshWrite(w)
      <4>1. /\ cache' = [cache EXCEPT ![refresh[w].sku] = refresh[w].quantity]
            /\ refresh' = [refresh EXCEPT ![w] = Idle]
            /\ refresh[w].phase = "write"
        BY <3>2 DEF RefreshWrite
      <4>2. cache' \in [Skus -> Quantity] /\ refresh' \in [Workers -> RefreshState]
        BY <1>0, <2>2, <4>1 DEF TypeOK, RefreshState
      <4>3. \A s \in Skus : NeverUnderstates(cache'[s], s)
        BY <1>0, <2>2, <4>1 DEF TypeOK, CacheNeverUnderstates
      <4>4. \A v \in Workers : refresh'[v].phase = "write" => refresh'[v] = refresh[v]
        BY <1>0, <4>1 DEF TypeOK, Idle
      <4>5. QED
        BY <1>0, <2>1, <4>2, <4>3, <4>4
           DEF CacheNeverUnderstates, NeverUnderstates, inventoryVars
    <3>3. CASE RefreshAbandoned(w)
      <4>1. cache' = cache /\ refresh' = [refresh EXCEPT ![w] = Idle]
        BY <3>3 DEF RefreshAbandoned
      <4>2. \A v \in Workers : refresh'[v].phase = "write" => refresh'[v] = refresh[v]
        BY <1>0, <4>1 DEF TypeOK, Idle
      <4>3. QED
        BY <1>0, <2>1, <4>1, <4>2
           DEF TypeOK, RefreshState, CacheNeverUnderstates, NeverUnderstates, inventoryVars
    <3>4. QED
      BY <1>5, <3>1, <3>2, <3>3
  <2>5. TypeOK'
    BY <1>0, <2>1, <2>4 DEF TypeOK, orderVars, inventoryVars, topicVars
  <2>6. OneResultPerOrder' /\ RefusalJustified' /\ RowsFollowRequests' /\ InboxMatchesResults'
    BY <1>0, <2>1 DEF OneResultPerOrder, RefusalJustified, RowsFollowRequests,
       InboxMatchesResults, orderVars, inventoryVars
  <2>7. StatusFromResult'
    BY <1>0, <2>1 DEF StatusFromResult, StatusFor, orderVars, inventoryVars
  <2>8. QED
    BY <2>4, <2>5, <2>6, <2>7 DEF IInv
<1>6. ASSUME NEW i \in 1..Len(results), ApplyResult(i) PROVE IInv'
  <2> DEFINE k == results[i].order
  <2>1. /\ i \in resultTopic \ ordInbox /\ status[k] # "None"
        /\ ordInbox' = ordInbox \union {i}
        /\ status' = [status EXCEPT ![k] = StatusFor(results[i])]
        /\ reason' = [reason EXCEPT ![k] = results[i].reason]
        /\ UNCHANGED <<api, flagged, orderOutbox, inventoryVars, topicVars, cache, refresh>>
    BY <1>6 DEF ApplyResult
  <2>2. results[i] \in Result /\ k \in Orders /\ results[i].reason \in Reasons
    BY <1>0, ResultFields
  <2>3. StatusFor(results[i]) \in {"Confirmed", "Rejected"}
    BY DEF StatusFor
  <2>4. TypeOK'
    BY <1>0, <2>1, <2>2, <2>3 DEF TypeOK, inventoryVars, topicVars
  <2>5. RefusalJustified' /\ RowsFollowRequests'
    BY <1>0, <2>1, <2>2, <2>3
       DEF RefusalJustified, RowsFollowRequests, TypeOK, inventoryVars
  <2>6. StatusFromResult'
    <3>1. results' = results
      BY <2>1 DEF inventoryVars
    <3>2. ASSUME NEW o \in Orders, o # k
          PROVE  /\ status'[o] = status[o] /\ reason'[o] = reason[o]
                 /\ \A j \in ordInbox' : results[j].order = o => j \in ordInbox
      BY <1>0, <2>1, <3>2 DEF TypeOK
    <3>3. /\ status'[k] = StatusFor(results[i]) /\ reason'[k] = results[i].reason
          /\ i \in ordInbox'
      BY <1>0, <2>1, <2>2 DEF TypeOK
    <3>4. ASSUME NEW o \in Orders
          PROVE  IF status'[o] \in {"Confirmed", "Rejected"}
                 THEN \E j \in ordInbox' : /\ results[j].order = o
                                           /\ status'[o] = StatusFor(results[j])
                                           /\ reason'[o] = results[j].reason
                 ELSE \A j \in ordInbox' : results[j].order # o
      <4>1. CASE o = k
        BY <2>3, <3>3, <4>1
      <4>2. CASE o # k
        BY <1>0, <2>1, <3>2, <4>2 DEF StatusFromResult
      <4>3. QED
        BY <4>1, <4>2
    <3>5. QED
      BY <3>1, <3>4 DEF StatusFromResult, StatusFor
  <2>7. QED
    BY <1>0, <2>1, <2>4, <2>5, <2>6, InventoryPartsStay DEF IInv
<1>7. CASE UNCHANGED vars
  BY <1>0, <1>7 DEF IInv, vars, orderVars, inventoryVars, topicVars, TypeOK,
     OneResultPerOrder, RefusalJustified, CacheNeverUnderstates, NeverUnderstates,
     RowsFollowRequests, InboxMatchesResults, StatusFromResult, StatusFor
<1>8. QED
  BY <1>1, <1>2, <1>3, <1>4, <1>5, <1>6, <1>7 DEF Next, ApplyAgain

\* The inductive invariant holds in every reachable state.
THEOREM PipelineInvariant == Spec => []IInv
BY InitIInv, NextIInv, PTL DEF Spec

\* Tables, topics, cache and refreshes keep their types; stock never goes
\* below zero.
THEOREM PipelineTypeOK == Spec => []TypeOK
BY PipelineInvariant, PTL DEF IInv

\* One event per order is decided once, whatever is redelivered.
THEOREM PipelineOneResult == Spec => []OneResultPerOrder
BY PipelineInvariant, PTL DEF IInv

\* The stale cache never refuses an order the stock could serve.
THEOREM PipelineRefusalJustified == Spec => []RefusalJustified
BY PipelineInvariant, PTL DEF IInv

\* The ensure! of apply_inventory_result_message never fails.
THEOREM PipelineResultHasOrder == Spec => []ResultHasOrder
<1>1. IInv => ResultHasOrder
  <2> SUFFICES ASSUME IInv, NEW i \in 1..Len(results) PROVE status[results[i].order] # "None"
    BY DEF ResultHasOrder
  <2>1. results[i].order \in Orders
    BY ResultFields DEF IInv
  <2>2. results[i].order \in invInbox
    BY <2>1 DEF IInv, InboxMatchesResults
  <2>3. QED
    BY <2>1, <2>2 DEF IInv, TypeOK, RowsFollowRequests
<1>2. QED
  BY <1>1, PipelineInvariant, PTL

\* Status, reason and stock agree for every order.
THEOREM PipelineStatusMatches == Spec => []StatusMatchesReservation
<1>1. IInv => StatusMatchesReservation
  <2> SUFFICES ASSUME IInv, NEW o \in Orders, status[o] \in {"Confirmed", "Rejected"}
               PROVE  /\ status[o] = "Confirmed" => o \in Reserved /\ reason[o] = "none"
                      /\ status[o] = "Rejected" => o \notin Reserved /\ reason[o] # "none"
    BY DEF StatusMatchesReservation
  <2>1. PICK i \in ordInbox : /\ results[i].order = o
                              /\ status[o] = StatusFor(results[i])
                              /\ reason[o] = results[i].reason
    BY DEF IInv, StatusFromResult
  <2>2. i \in 1..Len(results)
    BY DEF IInv, TypeOK
  <2>3. o \in Reserved <=> results[i].success
    BY <2>1, <2>2 DEF IInv, OneResultPerOrder, Reserved
  <2>4. results[i].success <=> results[i].reason = "none"
    BY <2>2 DEF IInv, InboxMatchesResults
  <2>5. QED
    BY <2>1, <2>3, <2>4 DEF StatusFor
<1>2. QED
  BY <1>1, PipelineInvariant, PTL

\* An order's row stays, and its status is not changed once it is decided.
LEMMA StatusAdvances ==
  ASSUME IInv, Next, NEW o \in Orders
  PROVE  /\ status[o] # "None" => status'[o] # "None"
         /\ status[o] \in Decisions => status'[o] = status[o]
<1> USE DEF Decisions
<1>0. TypeOK
  BY DEF IInv
<1>1. ASSUME NEW j \in 1..Len(results), ApplyResult(j)
      PROVE  /\ status'[o] # "None" \/ status'[o] = status[o]
             /\ status[o] \in Decisions => status'[o] = status[o]
  <2>1. status' = [status EXCEPT ![results[j].order] = StatusFor(results[j])] /\ j \notin ordInbox
    BY <1>1 DEF ApplyResult
  <2>2. status[o] \in Decisions => results[j].order # o
    <3>1. ASSUME status[o] \in Decisions PROVE \E i \in ordInbox : results[i].order = o
      BY <3>1 DEF IInv, StatusFromResult
    <3>2. QED
      BY <1>0, <2>1, <3>1 DEF IInv, TypeOK, OneResultPerOrder
  <2>3. QED
    BY <1>0, <2>1, <2>2 DEF TypeOK, StatusFor
<1>2. ASSUME NEW n \in Orders, InsertOrder(n)
      PROVE  /\ status'[o] # "None" \/ status'[o] = status[o]
             /\ status[o] \in Decisions => status'[o] = status[o]
  <2>1. status' = [status EXCEPT ![n] = "Pending"] /\ status[n] = "None"
    BY <1>0, <1>2 DEF InsertOrder, IInv, RowsFollowRequests, TypeOK
  <2>2. QED
    BY <1>0, <2>1 DEF TypeOK
<1>3. QED
  BY <1>1, <1>2 DEF Next, RejectInvalid, Precheck, InsertFails, FlagSimulatedFailure,
     RelayOrder, HandleOrderCreated, RefreshLoad, RefreshWrite, RefreshAbandoned,
     RelayResult, ApplyAgain, orderVars, vars

\* No late or repeated message changes a decided status.
THEOREM PipelineDecisionFinal == Spec => DecisionFinal
<1>1. IInv /\ [Next]_vars =>
        [\A o \in Orders : status[o] \in {"Confirmed", "Rejected"} => status'[o] = status[o]]_vars
  BY StatusAdvances DEF Decisions
<1>2. QED
  BY <1>1, PipelineInvariant, PTL DEF Spec, DecisionFinal

\* The stage of an order depends on its own rows only.
LEMMA StageDepends ==
  ASSUME NEW o \in Orders, status'[o] = status[o], invInbox' = invInbox, results' = results
  PROVE  StageOf(o)' = StageOf(o)
BY DEF StageOf, Reserved

\* An order the inventory has not handled is placed, or not there yet.
LEMMA UnhandledStage ==
  ASSUME IInv, NEW o \in Orders, o \notin invInbox
  PROVE  /\ status[o] \in {"None", "Pending"}
         /\ o \notin Reserved
<1>1. \A i \in 1..Len(results) : results[i].order # o
  BY DEF IInv, InboxMatchesResults
<1>2. \A i \in ordInbox : results[i].order # o
  BY <1>1 DEF IInv, TypeOK
<1>3. status[o] \notin {"Confirmed", "Rejected"}
  BY <1>2 DEF IInv, StatusFromResult
<1>4. QED
  BY <1>1, <1>3 DEF IInv, TypeOK, Reserved

\* What an order asks for is as many units as its quantity.
LEMMA UnitsOfOrder ==
  ASSUME NEW o \in Orders, QtyOf[o] > 0
  PROVE  IsFiniteSet(UnitsOf(o)) /\ Cardinality(UnitsOf(o)) = QtyOf[o]
<1> DEFINE number == [k \in 1..QtyOf[o] |-> <<o, k>>]
<1>1. QtyOf[o] \in Nat
  BY ConstantTypes
<1>2. IsFiniteSet(1..QtyOf[o]) /\ Cardinality(1..QtyOf[o]) = QtyOf[o]
  <2>1. \A a, b \in Int : /\ IsFiniteSet(a..b)
                         /\ Cardinality(a..b) = IF a > b THEN 0 ELSE b - a + 1
    BY FS_Interval
  <2>2. /\ IsFiniteSet(1..QtyOf[o])
        /\ Cardinality(1..QtyOf[o]) = IF 1 > QtyOf[o] THEN 0 ELSE QtyOf[o] - 1 + 1
    BY <1>1, <2>1
  <2>3. QED
    BY <1>1, <2>2
<1>3. number \in Bijection(1..QtyOf[o], UnitsOf(o))
  BY DEF Bijection, Injection, Surjection, UnitsOf, IsInjective
<1>4. QED
  BY <1>2, <1>3, FS_Bijection DEF ExistsBijection

\* The units taken are finitely many and are what is missing from the stock.
StockInv == StockConserved /\ \A s \in Skus : IsFiniteSet(Taken(s))

\* A first handling adds the units of its order to those of its SKU if it
\* reserves, and no units otherwise.
LEMMA TakenGrows ==
  ASSUME IInv, NEW o \in Orders, NEW seen \in BOOLEAN, NEW s \in Skus,
         o \notin invInbox, QtyOf[o] > 0, results' = Append(results, ResultOf(o, seen))
  PROVE  /\ Taken(s)' = IF Reserves(o, seen) /\ SkuOf[o] = s
                        THEN Taken(s) \union UnitsOf(o) ELSE Taken(s)
         /\ Taken(s) \intersect UnitsOf(o) = {}
<1>1. /\ ResultOf(o, seen).order = o
      /\ ResultOf(o, seen).success <=> Reserves(o, seen)
      /\ ResultOf(o, seen) \in Result
  BY HandlerEffect DEF IInv
<1>2. /\ Len(results) \in Nat /\ Len(results') = Len(results) + 1
      /\ \A i \in 1..Len(results) : results'[i] = results[i]
      /\ results'[Len(results) + 1] = ResultOf(o, seen)
  BY <1>1 DEF IInv, TypeOK
<1>3. /\ \A i \in 1..Len(results') : i \in 1..Len(results) \/ i = Len(results) + 1
      /\ \A i \in 1..Len(results) : i \in 1..Len(results')
      /\ Len(results) + 1 \in 1..Len(results')
  BY <1>2
<1>4. o \notin Reserved
  BY UnhandledStage
<1>5. o \in Reserved' <=> Reserves(o, seen)
  <2>1. \A i \in 1..Len(results) : results[i].order # o
    BY DEF IInv, InboxMatchesResults
  <2>2. QED
    BY <1>1, <1>2, <1>3, <2>1 DEF Reserved
<1>6. \A n \in Orders \ {o} : n \in Reserved' <=> n \in Reserved
  BY <1>1, <1>2, <1>3 DEF Reserved
<1>7. Reserved \subseteq Orders /\ Reserved' \subseteq Orders
  BY DEF Reserved
<1>8. Reserved' = IF Reserves(o, seen) THEN Reserved \union {o} ELSE Reserved
  <2>1. ASSUME Reserves(o, seen) PROVE Reserved' = Reserved \union {o}
    <3>1. o \in Reserved'
      BY <1>5, <2>1
    <3>2. \A n : n \in Reserved' <=> n \in Reserved \union {o}
      BY <1>6, <1>7, <3>1
    <3>3. QED
      BY <3>2
  <2>2. ASSUME ~Reserves(o, seen) PROVE Reserved' = Reserved
    <3>1. o \notin Reserved'
      BY <1>5, <2>2
    <3>2. \A n : n \in Reserved' <=> n \in Reserved
      BY <1>4, <1>6, <1>7, <3>1
    <3>3. QED
      BY <3>2
  <2>3. QED
    BY <2>1, <2>2
<1>9. Taken(s)' = IF Reserves(o, seen) /\ SkuOf[o] = s
                  THEN Taken(s) \union UnitsOf(o) ELSE Taken(s)
  BY <1>8 DEF Taken, UnitsOf
<1>10. Taken(s) \intersect UnitsOf(o) = {}
  BY <1>4 DEF Taken, UnitsOf
<1>11. QED
  BY <1>9, <1>10

\* Only a first handling changes the stock or the results; it takes from the
\* row what it adds to the units.
LEMMA NextStock == IInv /\ StockInv /\ [Next]_vars => StockInv'
<1> SUFFICES ASSUME IInv, StockInv, [Next]_vars PROVE StockInv'
  OBVIOUS
<1>1. ASSUME UNCHANGED <<stock, results>> PROVE StockInv'
  BY <1>1 DEF StockInv, StockConserved, Taken, UnitsOf, Reserved
<1>2. ASSUME NEW w \in Workers, NEW o \in Orders, HandleOrderCreated(w, o), IsNew(o)
      PROVE  StockInv'
  <2>1. PICK seen \in BOOLEAN :
          stock' = StockAfter(o, seen) /\ results' = Append(results, ResultOf(o, seen))
    BY <1>2 DEF HandleOrderCreated
  <2>2. o \notin invInbox /\ QtyOf[o] > 0
    BY <1>2 DEF HandleOrderCreated, IsNew, IInv, TypeOK, RowsFollowRequests
  <2>3. QtyOf[o] \in Nat /\ SkuOf[o] \in Skus /\ Absent \notin Int
    BY <2>2, ConstantTypes
  <2>4. stock \in [Skus -> Nat \union {Absent}] /\ InitialStock \in [Skus -> Nat \union {Absent}]
    BY ConstantTypes DEF IInv, TypeOK, Quantity
  <2>5. ASSUME NEW s \in Skus
        PROVE  /\ IsFiniteSet(Taken(s)')
               /\ IF InitialStock[s] = Absent THEN stock'[s] = Absent
                  ELSE stock'[s] + Cardinality(Taken(s)') = InitialStock[s]
    <3>1. /\ IsFiniteSet(Taken(s)) /\ Cardinality(Taken(s)) \in Nat
          /\ IF InitialStock[s] = Absent THEN stock[s] = Absent
             ELSE stock[s] + Cardinality(Taken(s)) = InitialStock[s]
      BY FS_CardinalityType DEF StockInv, StockConserved
    <3>2. CASE Reserves(o, seen) /\ SkuOf[o] = s
      <4>1. stock[s] \in Nat /\ stock'[s] = stock[s] - QtyOf[o]
        BY <2>1, <2>3, <2>4, <3>2 DEF StockAfter, Reserves, Suffices
      <4>2. Taken(s)' = Taken(s) \union UnitsOf(o) /\ Taken(s) \intersect UnitsOf(o) = {}
        BY <2>1, <2>2, <3>2, TakenGrows
      <4>3. IsFiniteSet(UnitsOf(o)) /\ Cardinality(UnitsOf(o)) = QtyOf[o]
        BY <2>2, UnitsOfOrder
      <4>4. /\ IsFiniteSet(Taken(s) \union UnitsOf(o))
            /\ Cardinality(Taken(s) \union UnitsOf(o)) = Cardinality(Taken(s)) + QtyOf[o]
        <5>1. /\ IsFiniteSet(Taken(s) \union UnitsOf(o))
              /\ Cardinality(Taken(s) \union UnitsOf(o))
                   = Cardinality(Taken(s)) + Cardinality(UnitsOf(o)) - Cardinality({})
          BY <3>1, <4>2, <4>3, FS_Union
        <5>2. QED
          BY <2>3, <3>1, <4>3, <5>1, FS_EmptySet
      <4>5. InitialStock[s] # Absent
        BY <2>3, <3>1, <4>1
      <4>6. QED
        BY <2>3, <3>1, <4>1, <4>2, <4>4, <4>5
    <3>3. CASE ~(Reserves(o, seen) /\ SkuOf[o] = s)
      <4>1. stock'[s] = stock[s]
        BY <2>1, <2>4, <3>3 DEF StockAfter
      <4>2. Taken(s)' = Taken(s)
        BY <2>1, <2>2, <3>3, TakenGrows
      <4>3. QED
        BY <3>1, <4>1, <4>2
    <3>4. QED
      BY <3>2, <3>3
  <2>6. QED
    BY <2>5 DEF StockInv, StockConserved
<1>3. ASSUME NEW w \in Workers, NEW o \in Orders, HandleOrderCreated(w, o), ~IsNew(o)
      PROVE  UNCHANGED <<stock, results>>
  BY <1>3 DEF HandleOrderCreated, inventoryVars
<1>4. QED
  BY <1>1, <1>2, <1>3 DEF Next, RejectInvalid, Precheck, InsertOrder, InsertFails,
     FlagSimulatedFailure, RelayOrder, RefreshLoad, RefreshWrite, RefreshAbandoned,
     RelayResult, ApplyResult, ApplyAgain, vars, orderVars, inventoryVars

\* No unit is sold twice or lost, for any quantities and any number of orders.
THEOREM PipelineStockConserved == Spec => []StockConserved
<1>1. Init => StockInv
  <2> SUFFICES ASSUME Init, NEW s \in Skus
               PROVE  /\ IsFiniteSet(Taken(s))
                      /\ IF InitialStock[s] = Absent THEN stock[s] = Absent
                         ELSE stock[s] + Cardinality(Taken(s)) = InitialStock[s]
    BY DEF StockInv, StockConserved
  <2>1. Reserved = {}
    BY DEF Init, Reserved
  <2>2. Taken(s) = {}
    BY <2>1 DEF Taken
  <2>3. IsFiniteSet(Taken(s)) /\ Cardinality(Taken(s)) = 0
    BY <2>2, FS_EmptySet
  <2>4. stock[s] = InitialStock[s] /\ InitialStock[s] \in Nat \union {Absent}
    BY ConstantTypes DEF Init, Quantity
  <2>5. QED
    BY <2>3, <2>4
<1>2. QED
  BY <1>1, NextStock, PipelineInvariant, PTL DEF Spec, StockInv

\* Every step of the pipeline is a step of the ledger or invisible to it: an
\* order is confirmed exactly with its stock, and declined only for want of
\* stock or by simulation, behind all queues, retries and caches.
THEOREM PipelineIsLedger == Spec => Ledger!LedgerSafety
<1> DEFINE stages == [o \in Orders |-> StageOf(o)]
<1>1. Init => Ledger!LedgerInit
  BY DEF Init, Ledger!LedgerInit, StageOf
<1>2. IInv /\ [Next]_vars => [Ledger!LedgerNext]_<<stages, stock, flagged>>
  <2> SUFFICES ASSUME IInv, [Next]_vars
               PROVE  [Ledger!LedgerNext]_<<stages, stock, flagged>>
    OBVIOUS
  <2>0. TypeOK
    BY DEF IInv
  <2>1. ASSUME NEW o \in Orders, InsertOrder(o) PROVE Ledger!Place(o)
    <3>1. status[o] = "None" /\ o \notin invInbox
      BY <2>0, <2>1 DEF InsertOrder, IInv, RowsFollowRequests, TypeOK
    <3>2. status' = [status EXCEPT ![o] = "Pending"] /\ UNCHANGED <<invInbox, results, stock, flagged>>
      BY <2>1 DEF InsertOrder, inventoryVars
    <3>3. StageOf(o) = "none"
      BY <3>1 DEF StageOf
    <3>4. StageOf(o)' = "placed"
      BY <2>0, <3>1, <3>2 DEF StageOf, TypeOK
    <3>5. \A n \in Orders \ {o} : StageOf(n)' = StageOf(n)
      BY <2>0, <3>2, StageDepends DEF TypeOK
    <3>6. QED
      BY <3>2, <3>3, <3>4, <3>5 DEF Ledger!Place
  <2>2. ASSUME NEW w \in Workers, NEW o \in Orders, HandleOrderCreated(w, o)
        PROVE  Ledger!Reserve(o) \/ Ledger!Decline(o) \/ UNCHANGED <<stages, stock, flagged>>
    <3>1. CASE o \in invInbox
      <4>1. UNCHANGED <<status, invInbox, results, stock, flagged>>
        BY <2>2, <3>1 DEF HandleOrderCreated, IsNew, inventoryVars, orderVars
      <4>2. QED
        BY <4>1, StageDepends
    <3>2. CASE o \notin invInbox
      <4>0. PICK seen \in BOOLEAN :
              /\ seen => o \in flagged
              /\ stock' = StockAfter(o, seen) /\ results' = Append(results, ResultOf(o, seen))
        BY <2>2, <3>2 DEF HandleOrderCreated, IsNew
      <4>1. /\ o \in orderTopic
            /\ invInbox' = invInbox \union {o}
            /\ stock' = StockAfter(o, seen)
            /\ results' = Append(results, ResultOf(o, seen))
            /\ status' = status /\ flagged' = flagged
        BY <2>2, <3>2, <4>0 DEF HandleOrderCreated, IsNew, orderVars
      <4>2. status[o] # "None" /\ QtyOf[o] > 0
        BY <2>0, <4>1 DEF IInv, RowsFollowRequests, TypeOK
      <4>3. status[o] = "Pending"
        BY <3>2, <4>2, UnhandledStage
      <4>4. StageOf(o) = "placed"
        BY <3>2, <4>3 DEF StageOf
      <4>5. /\ ResultOf(o, seen).order = o
            /\ ResultOf(o, seen).success <=> Reserves(o, seen)
            /\ ResultOf(o, seen) \in Result
        BY <2>0, <4>2, HandlerEffect
      <4>6. /\ Len(results) \in Nat /\ Len(results') = Len(results) + 1
            /\ \A i \in 1..Len(results) : results'[i] = results[i]
            /\ results'[Len(results) + 1] = ResultOf(o, seen)
        BY <2>0, <4>1, <4>5 DEF TypeOK
      <4>7. /\ \A i \in 1..Len(results') : i \in 1..Len(results) \/ i = Len(results) + 1
            /\ \A i \in 1..Len(results) : i \in 1..Len(results')
            /\ Len(results) + 1 \in 1..Len(results')
        BY <4>6
      <4>8. \A i \in 1..Len(results) : results[i].order # o
        BY <3>2 DEF IInv, InboxMatchesResults
      <4>9. o \in Reserved' <=> Reserves(o, seen)
        BY <4>5, <4>6, <4>7, <4>8 DEF Reserved
      <4>10. \A n \in Orders \ {o} : n \in Reserved' <=> n \in Reserved
        BY <4>5, <4>6, <4>7 DEF Reserved
      <4>11. \A n \in Orders \ {o} : StageOf(n)' = StageOf(n)
        BY <4>1, <4>10 DEF StageOf
      <4>12. CASE Reserves(o, seen)
        <5>1. StageOf(o)' = "reserved"
          BY <4>1, <4>3, <4>9, <4>12 DEF StageOf
        <5>2. stock' = [stock EXCEPT ![SkuOf[o]] = stock[SkuOf[o]] - QtyOf[o]] /\ Suffices(o)
          BY <4>1, <4>12 DEF StockAfter, Reserves
        <5>3. Ledger!Suffices(o)
          BY <5>2 DEF Suffices, Ledger!Suffices
        <5>4. stages' = [stages EXCEPT ![o] = "reserved"]
          BY <4>11, <5>1
        <5>5. QED
          BY <4>1, <4>4, <5>2, <5>3, <5>4 DEF Ledger!Reserve
      <4>13. CASE ~Reserves(o, seen)
        <5>1. StageOf(o)' = "declined"
          BY <4>1, <4>3, <4>9, <4>13 DEF StageOf
        <5>2. stock' = stock
          BY <4>1, <4>13 DEF StockAfter
        <5>3. ~Ledger!Suffices(o) \/ o \in flagged
          BY <4>0, <4>13 DEF Reserves, Suffices, Ledger!Suffices
        <5>4. stages' = [stages EXCEPT ![o] = "declined"]
          BY <4>11, <5>1
        <5>5. QED
          BY <4>1, <4>4, <5>2, <5>3, <5>4 DEF Ledger!Decline
      <4>14. QED
        BY <4>12, <4>13
    <3>3. QED
      BY <3>1, <3>2
  <2>3. ASSUME NEW i \in 1..Len(results), ApplyResult(i)
        PROVE  \E o \in Orders : Ledger!Conclude(o)
    <3>1. PICK o \in Orders : o = results[i].order
      BY <2>0, ResultFields
    <3>2. /\ i \notin ordInbox /\ status[o] # "None"
          /\ status' = [status EXCEPT ![o] = StatusFor(results[i])]
          /\ UNCHANGED <<invInbox, results, stock, flagged>>
      BY <2>3, <3>1 DEF ApplyResult, inventoryVars
    <3>3. o \in invInbox
      BY <3>1 DEF IInv, InboxMatchesResults
    <3>4. \A j \in ordInbox : results[j].order # o
      BY <3>1, <3>2 DEF IInv, TypeOK, OneResultPerOrder
    <3>5. status[o] = "Pending"
      BY <3>2, <3>4 DEF IInv, TypeOK, StatusFromResult
    <3>6. o \in Reserved <=> results[i].success
      BY <3>1 DEF IInv, OneResultPerOrder, Reserved
    <3>7. StageOf(o) = IF results[i].success THEN "reserved" ELSE "declined"
      BY <3>3, <3>5, <3>6 DEF StageOf
    <3>8. StageOf(o)' = IF results[i].success THEN "confirmed" ELSE "rejected"
      BY <2>0, <3>2 DEF StageOf, StatusFor, TypeOK
    <3>9. \A n \in Orders \ {o} : StageOf(n)' = StageOf(n)
      BY <2>0, <3>2, StageDepends DEF TypeOK
    <3>10. QED
      BY <3>2, <3>7, <3>8, <3>9 DEF Ledger!Conclude
  <2>4. ASSUME NEW o \in Orders, FlagSimulatedFailure(o) PROVE Ledger!Simulate(o)
    <3>1. /\ UNCHANGED <<status, invInbox, results, stock>>
          /\ flagged' = flagged \union {o}
      BY <2>4 DEF FlagSimulatedFailure, inventoryVars
    <3>2. stages' = stages
      BY <3>1, StageDepends
    <3>3. QED
      BY <3>1, <3>2 DEF Ledger!Simulate
  <2>5. ASSUME UNCHANGED <<status, invInbox, results, stock, flagged>>
        PROVE  UNCHANGED <<stages, stock, flagged>>
    BY <2>5, StageDepends
  <2>6. ASSUME \/ \E o \in Orders : RejectInvalid(o) \/ Precheck(o) \/ InsertFails(o) \/ RelayOrder(o)
               \/ \E w \in Workers : RefreshLoad(w) \/ RefreshWrite(w) \/ RefreshAbandoned(w)
               \/ \E i \in 1..Len(results) : RelayResult(i) \/ ApplyAgain(i)
               \/ UNCHANGED vars
        PROVE  UNCHANGED <<status, invInbox, results, stock, flagged>>
    BY <2>6 DEF RejectInvalid, Precheck, InsertFails, RelayOrder, RefreshLoad, RefreshWrite,
       RefreshAbandoned, RelayResult, ApplyAgain, vars, orderVars, inventoryVars
  <2> HIDE DEF stages
  <2>7. QED
    BY <2>1, <2>2, <2>3, <2>4, <2>5, <2>6 DEF Next, Ledger!LedgerNext
<1>3. QED
  BY <1>1, <1>2, PipelineInvariant, PTL DEF Spec, Ledger!LedgerSafety, Ledger!ledgerVars

\* HandleOrderCreated is the one step of the inventory that the statements of
\* InventoryTx amount to; nothing else in the pipeline touches stock, inbox or
\* results.
THEOREM PipelineHandlesAtomically == Spec => HandlesAtomically
<1>1. Init => Inventory!ResInit
  BY DEF Init, Inventory!ResInit
<1>2. IInv /\ [Next]_vars => [Inventory!ResNext]_<<stock, invInbox, results, flagged>>
  <2> SUFFICES ASSUME IInv, [Next]_vars
               PROVE  [Inventory!ResNext]_<<stock, invInbox, results, flagged>>
    OBVIOUS
  <2>1. ASSUME NEW w \in Workers, NEW o \in Orders, HandleOrderCreated(w, o)
        PROVE  Inventory!HandleOnce(o) \/ UNCHANGED <<stock, invInbox, results, flagged>>
    <3>1. CASE ~IsNew(o)
      BY <2>1, <3>1 DEF HandleOrderCreated, inventoryVars, orderVars
    <3>2. CASE IsNew(o)
      <4>1. PICK seen \in BOOLEAN :
              /\ seen => o \in flagged
              /\ stock' = StockAfter(o, seen) /\ results' = Append(results, ResultOf(o, seen))
        BY <2>1, <3>2 DEF HandleOrderCreated
      <4>2. /\ o \notin invInbox /\ invInbox' = invInbox \union {o}
            /\ UNCHANGED flagged
        BY <2>1, <3>2 DEF HandleOrderCreated, IsNew, orderVars
      <4>3. Inventory!Suffices(o) <=> Suffices(o)
        BY DEF Inventory!Suffices, Suffices
      <4>4. CASE Reserves(o, seen)
        <5>1. Inventory!Grant(o)
          BY <4>1, <4>3, <4>4 DEF Reserves, ResultOf, StockAfter, Inventory!Grant
        <5>2. QED
          BY <4>2, <5>1 DEF Inventory!HandleOnce
      <4>5. CASE ~Reserves(o, seen)
        <5>1. Inventory!Deny(o)
          BY <4>1, <4>3, <4>5 DEF Reserves, ResultOf, StockAfter, Inventory!Deny
        <5>2. QED
          BY <4>2, <5>1 DEF Inventory!HandleOnce
      <4>6. QED
        BY <4>4, <4>5
    <3>3. QED
      BY <3>1, <3>2
  <2>2. ASSUME NEW o \in Orders, FlagSimulatedFailure(o) PROVE Inventory!Simulate(o)
    BY <2>2 DEF FlagSimulatedFailure, inventoryVars, Inventory!Simulate
  <2>3. ASSUME \/ \E o \in Orders : \/ RejectInvalid(o) \/ Precheck(o) \/ InsertOrder(o)
                                     \/ InsertFails(o) \/ RelayOrder(o)
               \/ \E w \in Workers : RefreshLoad(w) \/ RefreshWrite(w) \/ RefreshAbandoned(w)
               \/ \E i \in 1..Len(results) : RelayResult(i) \/ ApplyResult(i) \/ ApplyAgain(i)
               \/ UNCHANGED vars
        PROVE  UNCHANGED <<stock, invInbox, results, flagged>>
    BY <2>3 DEF RejectInvalid, Precheck, InsertOrder, InsertFails, RelayOrder, RefreshLoad,
       RefreshWrite, RefreshAbandoned, RelayResult, ApplyResult, ApplyAgain, vars, orderVars,
       inventoryVars
  <2>4. QED
    BY <2>1, <2>2, <2>3 DEF Next, Inventory!ResNext
<1>3. QED
  BY <1>1, <1>2, PipelineInvariant, PTL DEF Spec, HandlesAtomically, Inventory!ResSafety, Inventory!resVars

\* Each of the four hops takes a message in once and lets it out once, after it
\* came in.
THEOREM PipelineHopsAreChannels == Spec => HopsAreChannels
<1>1. Init => /\ OrderRows!ChannelInit /\ OrderEvents!ChannelInit
              /\ ResultRows!ChannelInit /\ ResultEvents!ChannelInit
  BY DEF Init, OrderRows!ChannelInit, OrderEvents!ChannelInit, ResultRows!ChannelInit, ResultEvents!ChannelInit
<1>2. IInv /\ [Next]_vars => /\ [OrderRows!ChannelNext]_OrderRows!channelVars
                           /\ [OrderEvents!ChannelNext]_OrderEvents!channelVars
                           /\ [ResultRows!ChannelNext]_ResultRows!channelVars
                           /\ [ResultEvents!ChannelNext]_ResultEvents!channelVars
  <2> SUFFICES ASSUME IInv, [Next]_vars
               PROVE  /\ (\E o \in Orders : OrderRows!Accept(o) \/ OrderRows!Deliver(o))
                         \/ UNCHANGED <<orderOutbox, orderTopic>>
                      /\ (\E o \in Orders : OrderEvents!Accept(o) \/ OrderEvents!Deliver(o))
                         \/ UNCHANGED <<orderTopic, invInbox>>
                      /\ (\E n \in Nat : ResultRows!Accept(n) \/ ResultRows!Deliver(n))
                         \/ UNCHANGED <<1..Len(results), resultTopic>>
                      /\ (\E n \in Nat : ResultEvents!Accept(n) \/ ResultEvents!Deliver(n))
                         \/ UNCHANGED <<resultTopic, ordInbox>>
    BY DEF OrderRows!ChannelNext, OrderRows!channelVars, OrderEvents!ChannelNext, OrderEvents!channelVars,
       ResultRows!ChannelNext, ResultRows!channelVars, ResultEvents!ChannelNext, ResultEvents!channelVars
  <2>0. /\ results \in Seq(Result) /\ Len(results) \in Nat /\ resultTopic \subseteq 1..Len(results)
        /\ status \in [Orders -> {"None", "Pending", "Confirmed", "Rejected"}]
    BY DEF IInv, TypeOK
  <2>1. ASSUME NEW o \in Orders, InsertOrder(o)
        PROVE  OrderRows!Accept(o) /\ UNCHANGED <<orderTopic, invInbox, results, resultTopic, ordInbox>>
    <3>1. o \notin orderOutbox
      BY <2>1 DEF InsertOrder, IInv, RowsFollowRequests
    <3> QED
      BY <2>1, <3>1 DEF InsertOrder, topicVars, inventoryVars, OrderRows!Accept
  <2>2. ASSUME NEW o \in Orders, RelayOrder(o)
        PROVE  /\ OrderRows!Deliver(o) /\ OrderEvents!Accept(o)
               /\ UNCHANGED <<results, resultTopic, ordInbox>>
    BY <2>2 DEF RelayOrder, orderVars, inventoryVars, OrderRows!Deliver, OrderEvents!Accept
  <2>3. ASSUME NEW w \in Workers, NEW o \in Orders, HandleOrderCreated(w, o)
        PROVE  /\ UNCHANGED <<orderOutbox, orderTopic, resultTopic, ordInbox>>
               /\ OrderEvents!Deliver(o) \/ UNCHANGED invInbox
               /\ ResultRows!Accept(Len(results) + 1) \/ UNCHANGED results
    <3>1. UNCHANGED <<orderOutbox, orderTopic, resultTopic, ordInbox>>
      BY <2>3 DEF HandleOrderCreated, orderVars, topicVars
    <3>2. CASE ~IsNew(o)
      BY <2>3, <3>1, <3>2 DEF HandleOrderCreated, inventoryVars
    <3>3. CASE IsNew(o)
      <4>1. /\ o \in orderTopic \ invInbox /\ invInbox' = invInbox \union {o}
            /\ \E r : results' = Append(results, r)
        BY <2>3, <3>3 DEF HandleOrderCreated, IsNew
      <4>2. 1..Len(results') = 1..Len(results) \union {Len(results) + 1}
        BY <2>0, <4>1
      <4>3. Len(results) + 1 \notin 1..Len(results)
        BY <2>0
      <4> QED
        BY <3>1, <4>1, <4>2, <4>3 DEF OrderEvents!Deliver, ResultRows!Accept
    <3> QED
      BY <3>2, <3>3
  <2>4. ASSUME NEW i \in 1..Len(results), RelayResult(i)
        PROVE  /\ ResultRows!Deliver(i) /\ ResultEvents!Accept(i)
               /\ UNCHANGED <<orderOutbox, orderTopic, invInbox>>
    BY <2>4 DEF RelayResult, orderVars, inventoryVars, ResultRows!Deliver, ResultEvents!Accept
  <2>5. ASSUME NEW i \in 1..Len(results), ApplyResult(i)
        PROVE  ResultEvents!Deliver(i) /\ UNCHANGED <<orderOutbox, orderTopic, invInbox, results, resultTopic>>
    BY <2>5 DEF ApplyResult, inventoryVars, topicVars, ResultEvents!Deliver
  <2>6. ASSUME \/ \E o \in Orders : \/ RejectInvalid(o) \/ Precheck(o) \/ InsertFails(o)
                                     \/ FlagSimulatedFailure(o)
               \/ \E w \in Workers : RefreshLoad(w) \/ RefreshWrite(w) \/ RefreshAbandoned(w)
               \/ \E i \in 1..Len(results) : ApplyAgain(i)
               \/ UNCHANGED vars
        PROVE  UNCHANGED <<orderOutbox, orderTopic, invInbox, results, resultTopic, ordInbox>>
    BY <2>6 DEF RejectInvalid, Precheck, InsertFails, FlagSimulatedFailure, RefreshLoad, RefreshWrite,
       RefreshAbandoned, ApplyAgain, vars, orderVars, inventoryVars, topicVars
  <2>7. \A i \in 1..Len(results) : i \in Nat
    BY <2>0
  <2>8. Len(results) + 1 \in Nat
    BY <2>0
  <2> QED
    BY <2>1, <2>2, <2>3, <2>4, <2>5, <2>6, <2>7, <2>8 DEF Next
<1> QED
  BY <1>1, <1>2, PipelineInvariant, PTL
     DEF Spec, HopsAreChannels, OrderRows!ChannelSafety, OrderEvents!ChannelSafety,
         ResultRows!ChannelSafety, ResultEvents!ChannelSafety

-----------------------------------------------------------------------------
(* Reading orders *)

\* Behind the reads the pipeline is the same.
LEMMA ReadsIsPipeline == ReadsSpec => Spec
<1>1. ReadsInit => Init
  BY DEF ReadsInit
<1>2. [ReadsNext]_<<vars, readVars>> => [Next]_vars
  BY DEF ReadsNext, Replicate, Detail
<1>3. QED
  BY <1>1, <1>2, PTL DEF ReadsSpec, Spec

\* The replica starts empty and nobody has been shown anything.
LEMMA InitBehind == ReadsInit => BehindThePrimary
BY DEF ReadsInit, BehindThePrimary, Statuses, Decisions

\* Replication and reads keep the replica behind the primary and what was
\* shown behind the replica; so does the pipeline, because it only advances.
LEMMA NextBehind ==
  ASSUME IInv, BehindThePrimary, [ReadsNext]_<<vars, readVars>>
  PROVE  /\ BehindThePrimary'
         /\ \A o \in Orders :
              /\ shown[o] # "None" => shown'[o] # "None"
              /\ shown[o] \in Decisions => shown'[o] = shown[o]
<1> USE DEF BehindThePrimary, Statuses, Decisions
<1>1. CASE Next /\ UNCHANGED readVars
  <2>1. \A o \in Orders : /\ status[o] # "None" => status'[o] # "None"
                          /\ status[o] \in Decisions => status'[o] = status[o]
    BY <1>1, StatusAdvances
  <2>2. QED
    BY <1>1, <2>1 DEF readVars
<1>2. ASSUME NEW o \in Orders, Replicate(o)
      PROVE  BehindThePrimary' /\ shown' = shown
  <2>1. /\ replica' = [replica EXCEPT ![o] = IF @ = "None" THEN "Pending" ELSE status[o]]
        /\ status' = status /\ shown' = shown /\ replica[o] # status[o]
    BY <1>2 DEF Replicate, vars, orderVars
  <2>2. status \in [Orders -> Statuses]
    BY DEF IInv, TypeOK
  <2>3. replica[o] \notin Decisions
    BY <2>1
  <2>4. replica[o] = "None" => status[o] # "None"
    BY <2>1
  <2>5. QED
    BY <2>1, <2>2, <2>3, <2>4
<1>3. ASSUME NEW o \in Orders, Detail(o)
      PROVE  /\ BehindThePrimary'
             /\ \A n \in Orders : /\ shown[n] # "None" => shown'[n] # "None"
                                  /\ shown[n] \in Decisions => shown'[n] = shown[n]
  <2>1. /\ shown' = [shown EXCEPT ![o] = replica[o]]
        /\ status' = status /\ replica' = replica
    BY <1>3 DEF Detail, FromReadPool, vars, orderVars
  <2>2. QED
    BY <2>1
<1>4. CASE UNCHANGED <<vars, readVars>>
  BY <1>4 DEF vars, orderVars, readVars
<1>5. QED
  BY <1>1, <1>2, <1>3, <1>4 DEF ReadsNext

\* The reads see a replica that trails the primary.
THEOREM ReadsBehindThePrimary == ReadsSpec => []BehindThePrimary
BY ReadsIsPipeline, PipelineInvariant, InitBehind, NextBehind, PTL DEF ReadsSpec

\* A client is never shown an order disappear, nor a decision taken back.
THEOREM ReadsNeverGoBackHolds == ReadsSpec => ReadsNeverGoBack
<1>1. IInv /\ BehindThePrimary /\ [ReadsNext]_<<vars, readVars>> =>
        [\A o \in Orders :
           /\ shown[o] # "None" => shown'[o] # "None"
           /\ shown[o] \in Decisions => shown'[o] = shown[o]]_<<vars, readVars>>
  BY NextBehind
<1>2. QED
  BY <1>1, ReadsIsPipeline, PipelineInvariant, ReadsBehindThePrimary, PTL
     DEF ReadsSpec, ReadsNeverGoBack
=============================================================================
