--------------------------- MODULE OrderPipeline ---------------------------
(***************************************************************************)
(* An order from the HTTP request to its final status: handlers/orders     *)
(* (create, redis_precheck), insert_order_with_outbox, the inventory       *)
(* worker (handle_order_created_message, refresh_redis_stock) and the      *)
(* orders worker (apply_inventory_result_message).                         *)
(*                                                                         *)
(* The two outbox relays and the two consume loops appear as the channels  *)
(* that OutboxRelay and InboxConsumer implement: a committed outbox row    *)
(* reaches its topic at some time, a record on a topic is handled at least *)
(* once, in any order and possibly by two replicas.  A transaction of the  *)
(* database is one step.  The stock row of a SKU is never written by       *)
(* anything but the inventory worker.                                      *)
(***************************************************************************)
EXTENDS Integers, Sequences, FiniteSets

CONSTANTS
  Orders,        \* create requests; each makes at most one order
  Skus,
  SkuOf,         \* [Orders -> Skus]
  QtyOf,         \* [Orders -> Int], zero and below included
  InitialStock,  \* [Skus -> Nat], Absent for a SKU without a stock row
  Workers,       \* replicas of the inventory worker
  Absent         \* no row, or no key

ASSUME PipelineAssumption ==
  /\ SkuOf \in [Orders -> Skus]
  /\ QtyOf \in [Orders -> Int]
  /\ Absent \notin Int
  /\ InitialStock \in [Skus -> Nat \union {Absent}]

VARIABLES
  api,          \* per request: what the create handler has come to
  status,       \* per order: "Status", or "None" while there is no row
  reason,       \* per order: "FailureReason"
  flagged,      \* orders with "SimulateInventoryFailure" set
  orderOutbox,  \* orders with a row in order_outbox_messages
  orderTopic,   \* orders with a record on orders.created.v1
  stock,        \* per SKU: "AvailableQuantity"
  invInbox,     \* orders whose event is in inventory_inbox_messages
  results,      \* rows of inventory_outbox_messages; the index is the MessageId
  resultTopic,  \* results with a record on inventory.result.v1
  ordInbox,     \* results in order_inbox_messages
  cache,        \* per SKU: the Redis key demo:stock:{sku}
  refresh       \* per worker: progress of refresh_redis_stock

orderVars     == <<status, reason, flagged, orderOutbox, ordInbox>>
inventoryVars == <<stock, invInbox, results>>
topicVars     == <<orderTopic, resultTopic>>
vars == <<api, orderVars, inventoryVars, topicVars, cache, refresh>>

Quantity == Nat \union {Absent}
Reasons  == {"none", "insufficient_stock", "simulated_inventory_failure"}
Result   == [order : Orders, success : BOOLEAN, reason : Reasons]
Idle     == [phase |-> "idle"]

\* A refresh loads the stock row of its SKU, then writes what it loaded.
RefreshState ==
  {Idle} \union [phase : {"load"}, sku : Skus]
         \union [phase : {"write"}, sku : Skus, quantity : Quantity]

TypeOK ==
  /\ api \in [Orders -> {"new", "invalid", "refused", "allowed", "created", "error"}]
  /\ status \in [Orders -> {"None", "Pending", "Confirmed", "Rejected"}]
  /\ reason \in [Orders -> Reasons]
  /\ flagged \subseteq Orders
  /\ orderOutbox \subseteq Orders
  /\ orderTopic \subseteq orderOutbox
  /\ stock \in [Skus -> Quantity]
  /\ invInbox \subseteq orderTopic
  /\ results \in Seq(Result)
  /\ resultTopic \subseteq 1..Len(results)
  /\ ordInbox \subseteq resultTopic
  /\ cache \in [Skus -> Quantity]
  /\ refresh \in [Workers -> RefreshState]

Init ==
  /\ api = [o \in Orders |-> "new"]
  /\ status = [o \in Orders |-> "None"]
  /\ reason = [o \in Orders |-> "none"]
  /\ flagged = {}
  /\ orderOutbox = {}
  /\ orderTopic = {}
  /\ stock = InitialStock
  /\ invInbox = {}
  /\ results = <<>>
  /\ resultTopic = {}
  /\ ordInbox = {}
  /\ cache = [s \in Skus |-> Absent]
  /\ refresh = [w \in Workers |-> Idle]

-----------------------------------------------------------------------------
(* Helpers *)

\* CreateOrderRequest::validate; a request without a SKU is answered in the same
\* way as one for nothing, and is one of them here.
Valid(o) == QtyOf[o] > 0

\* Fault: the comparison of the precheck is the wrong way round at equality.
RefusesEqual(available, quantity) == available # Absent /\ available <= quantity

\* decide_order_creation: only a known quantity that is too low refuses.
Refuses(available, quantity) == available # Absent /\ available < quantity

\* WHERE "Sku" = $1 AND "AvailableQuantity" >= $2
Suffices(o) == stock[SkuOf[o]] # Absent /\ stock[SkuOf[o]] >= QtyOf[o]

\* The guarded UPDATE of inventory_stocks changes one row; seen is what the
\* transaction read of "SimulateInventoryFailure".
Reserves(o, seen) == ~seen /\ Suffices(o)

\* determine_inventory_result
ResultOf(o, seen) ==
  [order |-> o, success |-> Reserves(o, seen),
   reason |-> IF seen THEN "simulated_inventory_failure"
              ELSE IF Suffices(o) THEN "none" ELSE "insufficient_stock"]

\* Fault: the stock is taken even when the failure is simulated.
StockTakenAnyway(o, seen) ==
  IF Suffices(o) THEN [stock EXCEPT ![SkuOf[o]] = @ - QtyOf[o]] ELSE stock

\* The stock table after the UPDATE for this order.
StockAfter(o, seen) ==
  IF Reserves(o, seen) THEN [stock EXCEPT ![SkuOf[o]] = @ - QtyOf[o]] ELSE stock

\* Fault: the failed reservation confirms the order.
StatusIgnoringSuccess(r) == "Confirmed"

\* apply_inventory_result
StatusFor(r) == IF r.success THEN "Confirmed" ELSE "Rejected"

\* Fault: the insert into the inbox does not stop a second handling.
IsNewAlways(o) == TRUE

\* insert_inbox_once for the inventory worker.
IsNew(o) == o \notin invInbox

-----------------------------------------------------------------------------
(* The create handler *)

\* 400: the request does not pass validate.
RejectInvalid(o) ==
  /\ api[o] = "new"
  /\ ~Valid(o)
  /\ api' = [api EXCEPT ![o] = "invalid"]
  /\ UNCHANGED <<orderVars, inventoryVars, topicVars, cache, refresh>>

\* redis_precheck.  Without Redis the answer is Allow.
Precheck(o) ==
  /\ api[o] = "new"
  /\ Valid(o)
  /\ \E available \in {cache[SkuOf[o]], Absent} :
       api' = [api EXCEPT ![o] = IF Refuses(available, QtyOf[o]) THEN "refused" ELSE "allowed"]
  /\ UNCHANGED <<orderVars, inventoryVars, topicVars, cache, refresh>>

\* Fault: the outbox row is committed on its own and the order is not.
InsertOutboxOnly(o) ==
  /\ api[o] = "allowed"
  /\ orderOutbox' = orderOutbox \union {o}
  /\ api' = [api EXCEPT ![o] = "error"]
  /\ UNCHANGED <<status, reason, flagged, ordInbox, inventoryVars, topicVars, cache, refresh>>

\* insert_order_with_outbox commits: the order and its outbox row together.
\* The client gets 201, or 500 when the answer to COMMIT is lost.
InsertOrder(o) ==
  /\ api[o] = "allowed"
  /\ status' = [status EXCEPT ![o] = "Pending"]
  /\ orderOutbox' = orderOutbox \union {o}
  /\ \E answer \in {"created", "error"} : api' = [api EXCEPT ![o] = answer]
  /\ UNCHANGED <<reason, flagged, ordInbox, inventoryVars, topicVars, cache, refresh>>

\* insert_order_with_outbox fails and is rolled back.
InsertFails(o) ==
  /\ api[o] = "allowed"
  /\ api' = [api EXCEPT ![o] = "error"]
  /\ UNCHANGED <<orderVars, inventoryVars, topicVars, cache, refresh>>

\* External: an operator sets "SimulateInventoryFailure"; the code only reads it.
FlagSimulatedFailure(o) ==
  /\ status[o] # "None"
  /\ flagged' = flagged \union {o}
  /\ UNCHANGED <<api, status, reason, orderOutbox, ordInbox, inventoryVars, topicVars, cache, refresh>>

-----------------------------------------------------------------------------
(* The inventory worker *)

\* The relay of order_outbox_messages (Channel, by OutboxRelay).
RelayOrder(o) ==
  /\ o \in orderOutbox \ orderTopic
  /\ orderTopic' = orderTopic \union {o}
  /\ UNCHANGED <<api, orderVars, inventoryVars, resultTopic, cache, refresh>>

\* handle_order_created_message commits (InventoryTx shows that its statements
\* amount to one step); the flag may be set after the transaction read it.  A
\* handled event is a no-op and starts no refresh.
HandleOrderCreated(w, o) ==
  /\ o \in orderTopic
  /\ refresh[w] = Idle
  /\ IF IsNew(o)
     THEN /\ invInbox' = invInbox \union {o}
          /\ \E seen \in BOOLEAN :
               /\ seen => o \in flagged
               /\ stock' = StockAfter(o, seen)
               /\ results' = Append(results, ResultOf(o, seen))
          /\ refresh' = [refresh EXCEPT ![w] = [phase |-> "load", sku |-> SkuOf[o]]]
     ELSE UNCHANGED <<inventoryVars, refresh>>
  /\ UNCHANGED <<api, orderVars, topicVars, cache>>

\* refresh_redis_stock: load_inventory_stock_quantity.
RefreshLoad(w) ==
  /\ refresh[w].phase = "load"
  /\ refresh' = [refresh EXCEPT ![w] =
       [phase |-> "write", sku |-> refresh[w].sku, quantity |-> stock[refresh[w].sku]]]
  /\ UNCHANGED <<api, orderVars, inventoryVars, topicVars, cache>>

\* refresh_redis_stock: SET, or DEL when the SKU has no row.
RefreshWrite(w) ==
  /\ refresh[w].phase = "write"
  /\ cache' = [cache EXCEPT ![refresh[w].sku] = refresh[w].quantity]
  /\ refresh' = [refresh EXCEPT ![w] = Idle]
  /\ UNCHANGED <<api, orderVars, inventoryVars, topicVars>>

\* Any step of the refresh fails and is logged, or the process ends in it:
\* the order stays handled and nobody refreshes the key for it again.
RefreshAbandoned(w) ==
  /\ refresh[w] # Idle
  /\ refresh' = [refresh EXCEPT ![w] = Idle]
  /\ UNCHANGED <<api, orderVars, inventoryVars, topicVars, cache>>

-----------------------------------------------------------------------------
(* The orders worker *)

\* Fault: the relay begins with the newest row and never goes back.
RelayNewest(i) ==
  /\ i = Len(results) /\ i \notin resultTopic
  /\ resultTopic' = resultTopic \union {i}
  /\ UNCHANGED <<api, orderVars, inventoryVars, orderTopic, cache, refresh>>

\* The relay of inventory_outbox_messages (Channel, by OutboxRelay).
RelayResult(i) ==
  /\ i \in 1..Len(results) \ resultTopic
  /\ resultTopic' = resultTopic \union {i}
  /\ UNCHANGED <<api, orderVars, inventoryVars, orderTopic, cache, refresh>>

\* apply_inventory_result_message commits.  It needs the order's row: without
\* one the transaction is rolled back and the worker exits.
ApplyResult(i) ==
  LET r == results[i] IN
  /\ i \in resultTopic
  /\ i \notin ordInbox
  /\ status[r.order] # "None"
  /\ ordInbox' = ordInbox \union {i}
  /\ status' = [status EXCEPT ![r.order] = StatusFor(r)]
  /\ reason' = [reason EXCEPT ![r.order] = r.reason]
  /\ UNCHANGED <<api, flagged, orderOutbox, inventoryVars, topicVars, cache, refresh>>

\* A redelivered result finds its inbox row and changes nothing.
ApplyAgain(i) == i \in ordInbox /\ UNCHANGED vars

Next ==
  \/ \E o \in Orders :
       \/ RejectInvalid(o) \/ Precheck(o) \/ InsertOrder(o) \/ InsertFails(o)
       \/ FlagSimulatedFailure(o) \/ RelayOrder(o)
       \/ \E w \in Workers : HandleOrderCreated(w, o)
  \/ \E w \in Workers : RefreshLoad(w) \/ RefreshWrite(w) \/ RefreshAbandoned(w)
  \/ \E i \in 1..Len(results) : RelayResult(i) \/ ApplyResult(i) \/ ApplyAgain(i)

\* The channels deliver; a worker does not stay in a refresh for ever.
Fairness ==
  /\ \A o \in Orders :
       WF_vars(RelayOrder(o)) /\ SF_vars(\E w \in Workers : HandleOrderCreated(w, o))
  /\ \A w \in Workers : WF_vars(RefreshLoad(w) \/ RefreshWrite(w) \/ RefreshAbandoned(w))
  /\ \A i \in 1..Cardinality(Orders) : WF_vars(i <= Len(results) /\ RelayResult(i))
                                    /\ WF_vars(i <= Len(results) /\ ApplyResult(i))

Spec == Init /\ [][Next]_vars /\ Fairness

-----------------------------------------------------------------------------
(* Properties *)

\* Orders whose stock was taken.
Reserved == {o \in Orders : \E i \in 1..Len(results) : results[i].order = o /\ results[i].success}

\* The units of a SKU that reservations took, each named by its order and a number.
UnitsOf(o) == {o} \X (1..QtyOf[o])
Taken(s) == UNION {UnitsOf(o) : o \in {n \in Reserved : SkuOf[n] = s}}

\* No unit is sold twice or lost: what is gone from a SKU's row is exactly
\* what the successful reservations of that SKU asked for.
StockConserved ==
  \A s \in Skus :
    IF InitialStock[s] = Absent THEN stock[s] = Absent
    ELSE stock[s] + Cardinality(Taken(s)) = InitialStock[s]

\* Redelivery never makes a second decision about an order.
OneResultPerOrder ==
  \A i, j \in 1..Len(results) : results[i].order = results[j].order => i = j

\* An order is confirmed only with its stock taken, and rejected, with the
\* reason the inventory gave, only without.
StatusMatchesReservation ==
  \A o \in Orders :
    /\ status[o] = "Confirmed" => o \in Reserved /\ reason[o] = "none"
    /\ status[o] = "Rejected" => o \notin Reserved /\ reason[o] # "none"

\* The client who was told "insufficient stock" could indeed not be served,
\* although the answer came from a cache that is written late and out of
\* order: stock only falls, and the cache never shows less than the row.
RefusalJustified ==
  \A o \in Orders : api[o] = "refused" =>
    stock[SkuOf[o]] # Absent /\ stock[SkuOf[o]] < QtyOf[o]

\* apply_inventory_result_message never meets a result without an order row,
\* so its ensure! cannot send the orders worker into a crash loop.
ResultHasOrder == \A i \in 1..Len(results) : status[results[i].order] # "None"

\* A status that was decided is never changed by a late or repeated message.
DecisionFinal ==
  [][\A o \in Orders : status[o] \in {"Confirmed", "Rejected"} => status'[o] = status[o]]_vars

\* A quantity read from a stock row now or earlier: the row has no more by now.
NeverUnderstates(quantity, s) ==
  quantity # Absent => stock[s] # Absent /\ stock[s] <= quantity

CacheNeverUnderstates ==
  /\ \A s \in Skus : NeverUnderstates(cache[s], s)
  /\ \A w \in Workers : refresh[w].phase = "write" =>
       NeverUnderstates(refresh[w].quantity, refresh[w].sku)

\* An order row exists from its insert on, and only valid requests reach it.
RowsFollowRequests ==
  \A o \in Orders :
    /\ status[o] # "None" => api[o] \in {"created", "error"}
    /\ api[o] = "allowed" \/ status[o] # "None" => QtyOf[o] > 0
    /\ o \in orderOutbox => status[o] # "None"

\* Inbox and results of the inventory worker are written together.
InboxMatchesResults ==
  /\ \A o \in Orders : o \in invInbox <=> \E i \in 1..Len(results) : results[i].order = o
  /\ \A i \in 1..Len(results) : results[i].success <=> results[i].reason = "none"

\* A status was decided by an applied result of that order, or not at all.
StatusFromResult ==
  \A o \in Orders :
    IF status[o] \in {"Confirmed", "Rejected"}
    THEN \E i \in ordInbox : /\ results[i].order = o
                             /\ status[o] = StatusFor(results[i])
                             /\ reason[o] = results[i].reason
    ELSE \A i \in ordInbox : results[i].order # o

\* The strengthening under which the invariants above are inductive; for
\* StockConserved it adds that the units taken are finitely many.
IInv ==
  /\ TypeOK
  /\ OneResultPerOrder
  /\ RefusalJustified
  /\ CacheNeverUnderstates
  /\ RowsFollowRequests
  /\ InboxMatchesResults
  /\ StatusFromResult

\* The pipeline implements the ledger.
StageOf(o) ==
  CASE status[o] = "None" -> "none"
    [] status[o] = "Confirmed" -> "confirmed"
    [] status[o] = "Rejected" -> "rejected"
    [] status[o] = "Pending" /\ o \notin invInbox -> "placed"
    [] status[o] = "Pending" /\ o \in invInbox /\ o \in Reserved -> "reserved"
    [] OTHER -> "declined"

Ledger == INSTANCE OrderLedger WITH
  stage <- [o \in Orders |-> StageOf(o)], available <- stock, simulated <- flagged

LedgerRefined == Ledger!LedgerSpec

\* Behind the queues, the inventory is the one that InventoryTx implements:
\* each event handled once, by a step that takes the stock and writes the result.
Inventory == INSTANCE Reservations WITH
  available <- stock, handled <- invInbox, outcome <- results, simulated <- flagged

HandlesAtomically == Inventory!ResSafety

\* The four hops are channels to the pipeline, from the two outboxes to their
\* topics and from the topics to the effects: what OutboxRelay and InboxConsumer
\* are shown to implement is what the pipeline takes them for.
OrderRows == INSTANCE Channel WITH
  Messages <- Orders, Deliverable <- Orders, accepted <- orderOutbox, delivered <- orderTopic
OrderEvents == INSTANCE Channel WITH
  Messages <- Orders, Deliverable <- Orders, accepted <- orderTopic, delivered <- invInbox
ResultRows == INSTANCE Channel WITH
  Messages <- Nat, Deliverable <- Nat, accepted <- 1..Len(results), delivered <- resultTopic
ResultEvents == INSTANCE Channel WITH
  Messages <- Nat, Deliverable <- Nat, accepted <- resultTopic, delivered <- ordInbox

HopsAreChannels ==
  /\ OrderRows!ChannelSafety /\ OrderEvents!ChannelSafety
  /\ ResultRows!ChannelSafety /\ ResultEvents!ChannelSafety
=============================================================================
