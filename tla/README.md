# A verification project for axes

axes is an axum/tonic service with an order pipeline over Postgres, Kafka and
Redis, a WebSocket chat, and some smaller endpoints. This directory holds TLA+
specifications of its stateful parts, the TLC configurations that check them and
TLAPS proofs. Source lines are named relative to the repository, so that
`src/orders/store.rs` is the file of that name in the crate.

## 1. Inventory

### Components

| Component | State | Operations | Hard behaviour |
|---|---|---|---|
| Create handler (`handlers/orders`) | none of its own | validate, `redis_precheck`, `insert_order_with_outbox` | decides from a cache that is written late; COMMIT may succeed and its answer be lost |
| Order store (`orders/store.rs`) | tables `orders`, `order_outbox_messages`, `order_inbox_messages`, `inventory_stocks`, `inventory_inbox_messages`, `inventory_outbox_messages` | the three transactions, the outbox statements | guarded updates, no guard on the old status, marks by Id alone |
| Outbox relay (`orders/worker.rs`, both workers) | a batch in memory, leases in the table | list with lease, send, mark published or failed | leases that run out in the middle of a batch, crashes, lost acknowledgements |
| Inventory worker | a Kafka consumer, the Redis key `demo:stock:{sku}` | consume, handle, refresh the cache, commit the offset | redelivery, two replicas with one record, refreshes out of order |
| Orders worker | a Kafka consumer | consume, apply the result, commit the offset | redelivery; `ensure!` that an order exists |
| Chat (`handlers/chat`) | `ChatHub`: rooms, members, versions, history, connections; one channel per connection | join, leave, send, sync, ping, disconnect | events are sent after the mutex is released |
| Hot items (`handlers/stat/hot.rs`) | Redis: stock and user keys per item, the ranking | claim (a script), increment, top | lost answers and retries; two commands that are not atomic |
| Bakery (`handlers/bakery`) | one table | list by cursor, detail, create, update, delete | paging while rows come and go |
| gRPC observability | per response body: fallback code and completed flag | call, poll_frame, complete | which of several ends of a body is recorded, and whether any is |
| Process lifecycle (`main.rs`, both workers, `gracefully_shutdown.rs`) | the token, telemetry providers | start-up, `shutdown_token`, `try_join!`, flush | a signal during start-up, one part's error drops the other in the middle of its work, a failed flush |
| HTTP stack (`route.rs`, `error.rs`, observability `http.rs`) | none of its own | layers, router, panic catcher, counting | which layer answers, and whether the others see it |
| Authentication (`jwt_auth.rs`, `handlers/auth`) | the key each replica started with; tokens are with the clients | login, `Claims` | expiry with leeway, replicas with different keys |
| Pools, config, logging | none that changes after start-up | | reads go to a replica that lags |

### How they interact

    POST /api/orders --insert_order_with_outbox--> orders + order_outbox
         ^ precheck                                    |
         |                                       relay (orders worker)
       Redis demo:stock:{sku}                          v
         ^                                    topic orders.created.v1
         | refresh                                     |
    inventory worker <------- consumer ----------------+
         | one transaction: inbox, stock, outbox
         v
    inventory_outbox --relay (inventory worker)--> topic inventory.result.v1
                                                       |
    orders."Status" <---- orders worker <--- consumer -+

Each arrow through Kafka is two hops: an outbox relay and an inbox consumer.
`service.yaml` and `deployment.yaml` run several replicas, so every relay and
every consumer meets others of its kind.

### What makes each part correct

* Relay: a committed row reaches the topic; a row is marked published only if it
  did; replicas keep apart unless a lease ran out.
* Consumer: no record is skipped, none is applied twice.
* Pipeline: stock is neither sold twice nor lost, an order is decided once and as
  its reservation went, a refusal at the door is never wrong.
* Inventory transaction: its statements, interleaved with those of other replicas and
  cut off anywhere, amount to one step.
* Reads: what a client was shown is never taken back, and a decision is shown at last.
* Chat: two views of membership agree, every member hears of every change exactly
  once, nobody hears of what happened without them; what one connection causes
  arrives in order; a snapshot has no gap.
* Claims: a unit per user, every unit accounted for, truthful answers to retries.
* Ranking: an increment counts twice only after a failure, a ranking without expiry
  has a reason, the top is the top.
* Paging: no row twice, no lasting row skipped.
* gRPC: counted once, with the right code.
* Process: a caught signal ends it unless work never ends, its own shutdown cuts no work, lost telemetry has a
  cause.
* HTTP: counted as answered; guarded handlers need a login, open routes do not.

`PROJECT.json` lists the hazards line by line with the properties that watch them.

## 2. Modules

| Module | What it is |
|---|---|
| `Channel` | abstract: what one hop promises |
| `OutboxRelay` | `publish_outbox_loop` and the outbox statements |
| `InboxConsumer` | the consume loops, `insert_inbox_once`, offset commits |
| `OrderLedger` | abstract: what the order system promises |
| `OrderPipeline` | an order from the request to its final status |
| `OrderReads` | `GET /api/orders/{id}` through the read pool, beside the pipeline |
| `Reservations` | abstract: what the inventory transaction promises |
| `InventoryTx` | `handle_order_created_message`, statement by statement |
| `ProcessLife` | the server or a worker from start to exit |
| `HttpStack` | layers, routes, tokens and HTTP metrics |
| `ChatRooms` | `ChatHub`, `ChatState`, `run_socket` |
| `HotClaims` | `claim_stock`, its script, and the worker that shares its keys |
| `HotRanking` | `incr_hot_score` and `hot_top` |
| `HotItems` | the two side by side |
| `BakeryPages` | `list_by_cursor` against create and delete |
| `GrpcObservability` | the gRPC layer between tonic and the HTTP/2 server |
| `Servers_proofs` | theorems of `HttpStack` and `GrpcObservability` |
| `Handlers_proofs` | theorems of `HotItems` and `BakeryPages` |
| other `*_proofs` | theorems of the module they are named after; `OrderPipeline_proofs` also has those of `OrderReads` |
| `MC*` | values for TLC |

The composition goes by refinement. `OutboxRelay` and `InboxConsumer` are each
shown to implement `Channel`. `OrderPipeline` then uses a channel for every hop:
`RelayOrder` and `RelayResult` deliver an accepted row once, to be handled at
least once and in any order. That is `Channel` with its repetitions made visible
at the consumer, where they matter. `HopsAreChannels` states that each of the four hops,
row to topic and topic to inbox for either message, is the safety half of `Channel`, and is
proved: what the pipeline uses between two tables is what the relay and the consumer
provide. `OrderPipeline` in turn implements `OrderLedger`.

In the pipeline a database transaction is one step. For the inventory transaction this
is shown, not assumed: `InventoryTx` implements `Reservations` (`AtomicInEffect`), and so
does the inventory part of `OrderPipeline` (`HandlesAtomically`). `OrderReads` extends
the pipeline by a replica and a reader. `Stop` of the relay and the crashes of the
consumer are what `ProcessLife` does to a part: the relay and the consumer are told
nothing of the cause.

The definitions that begin with the comment `Fault:` are no part of a
specification. Each is a wrong version of the definition below it, and serves to
show that a property fails when the code is wrong in that way.

### OutboxRelay

One outbox table; the order and the inventory outbox run the same code.
`stored`, `published`, `lease`, `lastError` are the columns; `todo`, `sendOk` and
`sendErr` are where a publisher is in its loop: rows still to send, the row that
was acknowledged and the row that failed, each before its mark. A batch is sent
in any order, since `UPDATE ... RETURNING` promises none. `delivered` is the
topic. Time is a countdown per row, ticked by the database clock.
`Stop` is a crash, a database error passed up by `?`, a sibling's failure through
`try_join!`, or shutdown: the batch is lost and its leases stay.
`RetryCount`, payloads and message ids are left out.

`overrun` is history: rows whose lease ran out while some publisher held them. The
properties `LeaseExclusive` and `MarksConsistent` say that
duplicate work and inconsistent marks happen to such rows only. This is the
sharpest form that holds: the statements update by Id without asking whose lease
it is, and fifty sends of up to ten seconds do not fit in 300 seconds. A row stays in
`overrun` for good, as its marks do: of such a row the two properties say nothing more.

### InboxConsumer

One partition and one group. `position`, `current`, `phase` follow a replica through
receive, handle and commit; `requested` is an asynchronous offset commit under way,
which may be lost, may be refused after a rebalance, and may set the offset back.
A replica that lost the partition still finishes the record it holds. An
undecodable record is committed unhandled. The coordinator is external: it is
modelled from how rdkafka is used here.

### OrderPipeline

A database transaction is one step; `status`, `stock`, the inboxes and outboxes are
tables, `cache` is the Redis key, `refresh` is a replica between loading the stock
and writing it. `results[i]` is the i-th inventory result and `i` its MessageId.
`FlagSimulatedFailure` is external: no code sets that column to true, an operator
does. Requests are never repeated: to the code a repeated request is another order.

`LedgerRefined` maps an order to a stage of the ledger: placed once its row exists,
reserved or declined once the inventory worker handled it, confirmed or rejected by
its status. The cache, the topics and the inboxes disappear in the mapping.

### OrderReads

`replica` is the status of each order in the database behind the read pool, which
replays the commits to an order in their order, and to different orders in any.
`shown` is what the latest request for an order was answered with. The read pool may
lead to the primary itself (`pg.read_url` can name the same database); then the
replica never lags, which is among the behaviours.

### InventoryTx

`tx` is the open transaction of each replica: the statement it has finished, the flag it
read and the rows its UPDATE returned. `stock`, `inbox`, `outbox` hold what is
committed. `InsertInbox` waits while another open transaction has inserted the key,
and becomes `AlreadyHandled` when that one commits. The UPDATE is two steps: `FindRow` in the
snapshot of the statement, `UpdateRow` on the locked row, with the condition evaluated
again. `Rollback` ends a transaction anywhere. PostgreSQL is external: these are its
documented rules for READ COMMITTED, the level sqlx leaves as it is. `FOR UPDATE` occurs
in the relay only and is in `OutboxRelay`.

### ProcessLife

`kind` tells the server from a worker: the server calls `shutdown_token` before it
connects, a worker after. `part` is where each future under `try_join!` is, `busy`
which have work in hand, `cut` whose work was dropped. Work may stay in hand for ever: the
router and the servers set no timeout on a request, the pools only one on acquiring a
connection, and a graceful shutdown waits for the last request without limit. A worker's part asks the token
between two units only, since the bodies of its `select!` branches are run to their end;
a server's part returns when it has drained. The future of one part fails where `?`
leaves it: a server where it binds, a worker in a unit of work. `exporters` and `unsent` follow the
telemetry through start-up, recording and the flush.

### HttpStack

A request is one step through the layers (`Refused` or `Handled`) and, if a handler
ran, one step back (`Answer`). `Layered` is the layer order of the nested routers.
`Refusal` is the order in which CORS, fallback, guard, method and extractor
answer. `keys` holds the secret each replica read when it started, so that a token of one
replica can meet another key after a change of the secret. Routes with the same
layers and outcomes are one route of the model. An outcome of 400 stands for every
status of a rejected argument. Tokens come from `login` only: `GuardedNeedsLogin` takes it
that nobody else signs with the key of a replica, which is for the deployment to see to,
since `keys()` has a default for a process without `JWT_SECRET`.

### ChatRooms

`rooms`, `members`, `version`, `recent`, `known`, `joined` are the hub;
`session` tells whether the sender is registered. A command changes the hub in one
step, under the mutex, and leaves its dispatches in `pending`; `Deliver` sends one
of them, between steps of other tasks. A room that was emptied and
created again counts its versions from zero, hence the history variable `births`;
`stays` records memberships. `Connected`, `Pong` and `Error` events are left out, and
so are message ids and contents. `WriterFails` makes a connection `deaf`: its writer
task could not send and dropped the receiver, so further events are lost, yet the sender
stays registered and the connection stays a member until its read loop ends.

A channel is kept as the bag of the events it got. Their order is not lost by that:
`InOrderPerSender` compares each event that is added with those that are there.
Events of different connections do overtake each other, and can arrive before the
snapshot of the join that entitles to them; `NothingFromOutside` says that none
is from before that join. One command sends a channel one event at most, and a
connection that drops one for each of its rooms, so that no channel can tell in which order
`Deliver` works through `pending`.

### HotClaims, HotRanking, HotItems

`HotClaims` has one action per branch of the script and lets every answer be lost.
`RefreshStock` and `RefreshUsers` are `refresh_redis_stock` of the inventory worker for a
SKU with the text of an item id, or of `users:` and an item id: both files build keys
that begin with `demo:stock:`. The properties say what such a write can break and what
it cannot. A script that finds the users key to be a string fails after it may
have created the stock key, and the model keeps that.

In `HotRanking` an increment is two commands with a place between them where the
handler may fail, be dropped, or meet an expired key. `hot_top` changes nothing; it
is the operator `TopItems`, with the cast of its limit to an `isize` of `2 * HalfRange`
values.

### BakeryPages, GrpcObservability

`BakeryPages` sees the table as the read pool shows it. In
`GrpcObservability` tonic answers either with an error status in the headers and an
empty body, or with data and then trailers; the HTTP/2 server may stop polling once
`is_end_stream` holds. Both are external, and stated in the header of the module.

## 3. Runs

| Run | Instance | Shows |
|---|---|---|
| `relay` | 3 rows, 2 replicas, batches of 2, lease of 1 tick, 1 stop, row 1 refused | lease exclusion, marks, nothing published unsent; implements `Channel`; every other row is published |
| `consumer` | 2 replicas, 4 records of 3 messages (one undecodable), 2 disturbances | nothing skipped, nothing twice, implements `Channel` |
| `pipeline_rivals` | 3 orders for 4 units, 1 for none, 3 in stock, 2 replicas | no unit sold twice, status and refusals justified, events handled in one step |
| `order_reads` | 1 unit in stock, a SKU without a row, a quantity of 0, 1 replica of the worker | implements `OrderLedger`, liveness included; reads never go back, every order is shown decided |
| `inventory_tx` | 3 orders (two for one row), 3 replicas, 2 rollbacks, one order that may be flagged | locks, atomic in effect, every event handled |
| `process` | both kinds, two parts, every telemetry setting | exits, cuts, losses, a signal ends the process unless its work never ends |
| `http` | 3 requests of any route, method and token, 2 replicas, 2 secrets, 3 ticks | counting, guards |
| `chat` | 3 connections, 2 rooms, history of 1, 5 commands | membership, delivery, order, history |
| `hot_items` | 3 users, initial stock of none, 0 or 2, one foreign write per key; 2 clients, 2 items, 3 increments | accounting, answers, scores, expiry, top |
| `bakery_pages` | 5 ids, page sizes 1, 3 and default 2 | paging |
| `grpc_code` | 2 requests, 3 codes | counted at most once, right code |
| `grpc_count` | the same | violated, see section 6 |

Where a module has theorems, its type invariant and some simpler
properties (`OneResultPerOrder`, `DecisionFinal`, `OpenRoutesStayOpen`) are proved for all
constants and not checked again by a run; the runs are kept for what is hardest to get right.

Bounds. Two replicas are enough for each pair of actors that the properties speak
of; `inventory_tx` has three, so that two may wait for one. Three rows with batches of two
give a full batch, a rest, and a refused row at the front. A lease of one tick can run out
before, between and after two sends.
`MaxStops`, `MaxDisturbances`, `MaxLog`, `MaxRollbacks`, `MaxCommands`, `MaxIncrements`,
`MaxRefreshes` and `MaxTime` cut off behaviours, and
name every bound there is. Stops, disturbances and rollbacks do not count against
liveness: after the last one the system must still finish.
Four records of three messages contain a duplicate of a message before and after its
commit. A history of one message overflows with the second. Five commands are enough for
two members in two rooms and a message. A token that lives one tick, with one of leeway, is
fresh, tolerated and expired within three ticks, and three requests are a login and
two uses on either side of a restart. `HalfRange` of 2 makes
every limit above 2 one whose index is negative as an `isize`; with 64 bits `HalfRange` is
2^63. The proof of `TopIsRight` is for any.
`order_reads` has one inventory worker because liveness makes states dear;
what a second one adds is checked by `pipeline_rivals` and `inventory_tx`. Its valid orders
are for different SKUs, since a third valid order, or a rival, takes the run beyond its
time; the rivalry for one SKU is in `pipeline_rivals` for safety, and
`PipelineIsLedger` is proved for any number of rivals.

Where handling an event is one step, in `InboxConsumer` and `OrderPipeline`, two handlings
cannot overlap. `AppliedOnce` and `HandlesAtomically` are about redelivery there; that
overlapping transactions amount to single steps is what `inventory_tx` checks.

Deadlock is checked where the system never stops: the relay polls, the consumer
receives, the transaction is asked again, Redis answers. It is switched off in the pipeline
(all requests are answered), in chat (clients have sent their commands and closed), in
paging (the client is done), in gRPC and HTTP (all requests are over), and for a process
that has exited. Inventory transactions that wait for each other would leave an
event unhandled, which `AtomicInEffect` forbids; each takes one inbox key and then one stock
row, so that no cycle can close.

Symmetry is used in `pipeline_rivals`, `chat`, `http` and `hot_items`, over sets whose members differ in
name only, in runs without liveness.

### Fairness

* Relay: a publisher's loop goes on by its 500 ms ticker, `send` ends within its
  timeouts, and the mark follows it; the clock runs. For each row, a broker that is
  asked again and again accepts a publishable record at last (strong fairness:
  without it Kafka may time out for ever, and the code retries for ever).
* Consumer: the coordinator assigns a free partition, and a replica receives,
  handles and commits. Nothing is assumed of offset commits arriving.
* Pipeline: the hops deliver, as shown for `Channel`. `HandleOrderCreated` is
  strongly fair, because a replica in a refresh is not free, and each refresh ends.
  In `order_reads` the replica replays what it lags behind.
* Inventory transaction: a statement that has nothing to wait for returns. Each
  event is taken again and again by some replica, which is what `EffectChannel` shows
  of the consumer; strong, since a replica is idle only between transactions.
* Process: the tasks run, connecting ends (the pools give up after three seconds), and so
  does the shutdown of a provider (it has a timeout of its own). Nothing is assumed of a
  unit of work: it may last for ever, and `SignalEndsProcess` says that this alone keeps a
  signalled process alive (`HeldUp`). Without that exception TLC finds the behaviour in
  which a request stalls and the process waits for it. The end of the grace period, a
  `Kill`, is possible and not assumed either, so that the property does not rest on it.
  `Notice` is strongly fair: `select!` picks at random among branches that are
  ready, so a cancelled token is not passed over for ever, and a server that was told to
  stop takes no new connections. Nothing is assumed of
  the exporters, nor that a handler is installed in time.
* Chat, hot items, paging, gRPC and HTTP: safety only, no fairness.

The liveness of the relay, the consumer, the pipeline and the transaction is that of a
database that answers: a send to Kafka has its timeouts, but no statement has one, so a
query that hangs for ever keeps its loop for ever. The process that hangs may be
stopped, which frees its leases and partitions for another replica.

`EveryRowPublished` needs fewer refused rows than one batch holds (50 in the code).
With a full batch of refused rows, the listing by lowest id never reaches the
others. The run has one refused row in batches of two.

## 4. Proofs

All theorems hold for every value of the constants that satisfies the `ASSUME` of
the module, and use no others.

**OutboxRelay_proofs.** `RelayInvariant` proves `IInv`: types; a publisher's three
sets are disjoint; a row acknowledged to a publisher is on the topic; and *a held row
outside `overrun` has lease left*. The last is the point of the argument: with it, a
row that is listed (lease zero) is held by nobody else unless it overran, which makes
`LeaseExclusive` inductive; a held row is marked only by its holder, which makes
`HeldRowsPending` inductive; and a published row in nobody's hands gets no failure
mark, which gives `PublishedClean`; `MarksConsistent` is both. `RelayLeaseExclusive`, `RelayMarksConsistent`
and `RelayPublishedWasDelivered` follow. `RelayIsChannel` proves that each step is a
step of `Channel` or a stutter.

**InboxConsumer_proofs.** `ConsumerInvariant` proves `IInv`: with `WorkerClaims`, which
says that whoever is about to commit an offset has everything before it done. The
owner's claim about its position starts from the committed offset at an assignment,
and survives crashes because the inbox is never emptied. `ConsumerLosesNothing`,
`ConsumerAppliesOnce` and `ConsumerIsChannel` follow.

**OrderPipeline_proofs.** `PipelineInvariant` proves `IInv`. Its parts: rows follow
requests; the inventory inbox has exactly the orders with a result; a decided status
came from the one applied result of its order; and *a quantity in the cache, or on
its way there, is never below the row* (`CacheNeverUnderstates`), which holds because
stock only falls, however late a refresh writes. From these follow
`PipelineOneResult`, `PipelineStatusMatches`, `PipelineRefusalJustified`,
`PipelineResultHasOrder`, the action property `PipelineDecisionFinal`,
`PipelineIsLedger`, and `PipelineHandlesAtomically`: each step is a step of
`Reservations` or a stutter. `PipelineHopsAreChannels` goes through the steps once for
each of the four hops.

`PipelineStockConserved` counts units instead of adding quantities: an order stands for the
pairs of itself and 1 to its quantity (`UnitsOf`), and a SKU has lost as many units as
there are pairs of reserved orders (`Taken`). A reservation adds a finite set that is
disjoint from the others, so that one cardinality is added and no sum has to be proved
about. The invariant used is `StockInv`: the equation, and that the sets are finite.

For `OrderReads`, each step of the pipeline moves a status forward or leaves it alone.
Hence the replica only has what the primary had (`ReadsBehindThePrimary`), what it
replays next is nothing older, and a decision that was shown is the one the primary still
has: `ReadsNeverGoBackHolds`.

**InventoryTx_proofs.** `TxInvariant` proves `IInv`: types, `OneResultPerOrder`,
`LocksExclusive`, and what makes the last inductive. `DenialStands` says that a
transaction that found too little still would, which holds because stock only falls;
`BeforeUpdate` says where the row count can differ from zero. `LocksExclusive` includes that
the row an open transaction has changed still has what it subtracts: nobody else can
change it before the commit. From this `TxIsAtomic` follows: COMMIT is the one step of
`Reservations`, and every other statement stutters.

**ProcessLife_proofs.** `ProcessInvariant` proves `IInv`. Nothing moves once the
process is over, so each property is about the step that ends it, and the strengthening
says what that step finds: work only in the hands of a part that serves, a part that
returned only after the cancellation, nothing cut and no verdict while the process lives,
both parts joined before the flush, the metrics sent before the spans.
`ProcessCleanExit`, `ProcessCutsExplained` and `ProcessLossExplained` follow.

**Servers_proofs**, HTTP. `HttpInvariant` proves `IInv`: with `TokensFromLogins` (a token has a
login behind it) and `RunningIsKnown`. `RefusalKinds` is the lemma about the order of
the layers: a request that passes them on a guarded route has a valid token.
`HttpCountedAsAnswered` and `HttpOpenRoutesStayOpen` are invariants; `HttpGuardedNeedsLogin`
is an action property.

**Servers_proofs**, gRPC. `GrpcInvariant` proves `GrpcIInv`: nothing is recorded before the
inner service is done; the `completed` flag tells whether a body has recorded; and
headers and trailers do not both carry a status. `GrpcCountedAtMostOnce` and
`GrpcRecordedCodeIsShown` follow.

**ChatRooms_proofs.** There are two invariants, the second inductive only beside the first.

`ChatInvariant` proves `IInv`: with `OpenStays` and `MembersStay`,
which tie memberships to the hub, `ClosedIsEmpty`, and `OwedFromInside`, which says of every
dispatch that still waits in a task what `NothingFromOutside` says of a channel. That
survives joins, leaves and drops by other connections, because a membership grows until
it ends, and ends behind everything that was dispatched before. `ChatTypeOK`,
`ChatMembershipAgrees` and `ChatNothingFromOutside` follow.

`ChatDelivery` proves `DInv`, about what is under way and what has arrived:

* `OnceEach`: of a change that a membership spans, one task owes the event and it has not
  arrived, or no task owes it and it has arrived once. This carries `ChatEveryChangeOnce`.
  A new change gets a version above all that exist (`PastEvents`), so it meets no older one;
  `Deliver` turns the first case into the second, because a task holds one change for a
  receiver (`OneCommand`).
* `SentInOrder`: what waits in a task is not older than what it has sent, since a
  connection runs its next command only after the last dispatch of the one before.
  `ChatInOrderPerSender` is an action property that follows.
* `HistorySorted` and `MessagesRemembered`: a message of the room's present life is in the
  history, or the history is full of later ones. Messages are dropped at the front and
  only when the history is full, which gives `ChatHistoryHasNoGap`.
* `ChannelsAreBags` and `NewIsBlank` are what the others need of a connection that has
  just begun.

All commands share one shape, which the lemmas state once (`Commanded`): the dispatches in
`pending` are the caller's, with one new version for each room that it names.

**Handlers_proofs**, hot items. The claims and the ranking share no variable, so that
`HotInvariant` is two invariants, and each step of one leaves the other alone.

* `ClaimsIInv`: a user has at most one unit for each wipe of the users key, and one as a
  member of it (`OneUnitPerWipe`); the stock key is created before a unit is granted
  (`OpenedFirst`); the units that were granted are what the stock key has lost (`Accounted`,
  a cardinality like that of `StockConserved`). The lemmas go by branches of the script:
  one grants (`GrantedKeeps`), the others only answer (`QuietKeeps`). `HotUnitsAccounted`
  and `HotAnswerTellsHolding` follow.
* `RankingIInv`: a score is what was told, plus what failed half-way, plus the increments
  that still run (`Exact`). `HotScoreExplained` weakens it to the bounds that a client sees.
  `HotEndlessExplained` is inductive as it stands.
* `HotTopIsRight` needs no invariant. It is a statement about ranges of Redis with a negative
  last index, for every number of items and every `HalfRange`.

**Handlers_proofs**, paging. `PagesInvariant` proves `PagesIInv`, with `UpToCursor`: what was shown lies
at or below the cursor, and of the rows that were there all along none at or below it is
missing. `NoRowTwice`, which says that the ids rise, is inductive beside it. A page is the rows above the cursor that have fewer than a page's
size below them. That such a set is downward closed and, unless it is empty, has a greatest
member is what the step needs; the latter is proved from the well-foundedness of the
strict subset relation on finite sets, where one would otherwise use induction.
`PagesNoRowTwice` and `PagesSteadyRowsSeen` follow.

Every invariant and action property of a passing run is stated by a theorem, and so is the safety half
of every refinement. Only model-checked:

* what is temporal under fairness: `EveryRowPublished`, `SignalEndsProcess`,
  `CreatedIsDecided`, and the liveness halves of `TopicChannel`, `EffectChannel`,
  `LedgerRefined` and `AtomicInEffect`. TLAPS reaches neither ENABLED nor the rules for
  fairness;
* that `AnsweredIsCounted` is violated, which is the behaviour TLC shows.

## 5. Not modelled

* Log formatting (`logging.rs`), sampling, resources and span attributes: one event or
  one request at a time, and no state that another step reads.
* `update`, `detail` and the offset pages of bakery (`list` is routed nowhere).
* The pools of five connections. No code holds one while it asks for another, so they
  delay requests and cannot lock them; a request that waits too long is a 500 of
  `HttpStack` or an error of a worker.
* `RetryCount`, which would take decades of failed sends to overflow.
* The greeter, which answers with a fixed text.
* An external writer of `inventory_stocks`. If stock is raised by hand, a low value in
  Redis keeps refusing orders until another order of that SKU gets through.
* The other side of the shared key prefix: a claim that lowers the cached stock of a
  SKU with the text of its item id. `RefusalJustified` holds for SKUs that are no
  item ids.
* An `initial_stock` so large that Lua rounds it or prints it with an exponent; the claims
  of such an item fail at DECR.
* A `delta` other than one in `HotRanking`, and a score that rounds.
* Other items than one in `HotClaims`: no command names two of them.
* A WebSocket at the end of the process: nobody waits for it, and its rooms end with it.
* Requests that a client repeats to the order service: to the code they are other orders.

## 6. Where code and text disagree

`grpc_count` checks `AnsweredIsCounted`, which is the description of the request
counter, "Total number of gRPC requests handled by axes." (`metrics.rs:34`). It is
violated: an error response of tonic has its status in the headers and an empty body;
`is_end_stream` is forwarded, the server has no reason to poll, and `complete` is
never reached. The `fallback_code` that `call` took from the headers is not used.

## 7. Plan

Done, in this order: `Channel`, `OutboxRelay`, `InboxConsumer`, `OrderLedger`,
`OrderPipeline`, each with its proofs; `ChatRooms`, `HotClaims`, `BakeryPages`,
`GrpcObservability`; `Reservations` and `InventoryTx` with proofs; `OrderReads`,
`ProcessLife`, `HttpStack`, `HotRanking` and `HotItems`; the proofs of `ProcessLife`,
`HttpStack`, `ChatRooms` and `GrpcObservability`; the proofs about stock and reads in the
pipeline, delivery in the chat, and of `HotItems` and `BakeryPages`; the hops of the
pipeline as channels.

Next, by importance:

1. `InventoryTx` inside the pipeline: that its committed tables, followed through several orders of
   one SKU, are the inventory part of `OrderPipeline`. Today both are shown to implement
   `Reservations`.
2. Lemmas that bring the liveness properties closer: that the steps of a relay on a free row
   lower a measure, from which `EveryRowPublished` would follow under its fairness.
3. One cache key under both of its writers, the refresh of `OrderPipeline` and a
   claim of `HotClaims`.
