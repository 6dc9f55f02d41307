---------------------------- MODULE InventoryTx ----------------------------
(***************************************************************************)
(* The transaction of handle_order_created_message, statement by statement *)
(* under READ COMMITTED, in several replicas of the inventory worker that  *)
(* may hold the same event.                                                *)
(*                                                                         *)
(* What PostgreSQL does is external and modelled from its documented       *)
(* behaviour: writes show after COMMIT; an INSERT whose key another open   *)
(* transaction inserted waits for the end of that transaction; an UPDATE   *)
(* selects its row in the snapshot of the statement, waits while another   *)
(* open transaction has changed the row, and then evaluates its condition  *)
(* again on the row as committed.                                          *)
(***************************************************************************)
EXTENDS Integers, Sequences

CONSTANTS
  Orders,        \* orders with a record on orders.created.v1
  Skus,
  SkuOf,         \* [Orders -> Skus]
  QtyOf,         \* [Orders -> Nat \ {0}]: only valid requests get a record
  InitialStock,  \* [Skus -> Nat], Absent for a SKU without a stock row
  Workers,       \* replicas of the inventory worker
  Flaggable,     \* orders an operator may set "SimulateInventoryFailure" for
  MaxRollbacks,  \* bound on transactions that fail
  Absent

ASSUME TxAssumption ==
  /\ SkuOf \in [Orders -> Skus]
  /\ QtyOf \in [Orders -> Nat \ {0}]
  /\ Absent \notin Int
  /\ InitialStock \in [Skus -> Nat \union {Absent}]
  /\ Flaggable \subseteq Orders
  /\ MaxRollbacks \in Nat

VARIABLES
  tx,        \* per worker: its open transaction
  stock,     \* committed "AvailableQuantity" per SKU
  inbox,     \* committed rows of inventory_inbox_messages
  outbox,    \* committed rows of inventory_outbox_messages, in commit order
  flagged,   \* orders with "SimulateInventoryFailure" set
  rollbacks  \* transactions that failed so far

tables == <<stock, inbox, outbox>>
vars == <<tx, tables, flagged, rollbacks>>

Idle == [step |-> "idle"]

\* The statement a transaction has finished; simulated is what it read, rows
\* what its UPDATE returned (0 before the UPDATE).
Steps == {"begun", "new", "loaded", "found", "updated", "written"}
Open  == [step : Steps, order : Orders, simulated : BOOLEAN, rows : {0, 1}]

Reasons == {"none", "insufficient_stock", "simulated_inventory_failure"}
Result  == [order : Orders, success : BOOLEAN, reason : Reasons]

TypeOK ==
  /\ tx \in [Workers -> Open \union {Idle}]
  /\ stock \in [Skus -> Nat \union {Absent}]
  /\ inbox \subseteq Orders
  /\ outbox \in Seq(Result)
  /\ flagged \subseteq Flaggable
  /\ rollbacks \in 0..MaxRollbacks

Init ==
  /\ tx = [w \in Workers |-> Idle]
  /\ stock = InitialStock
  /\ inbox = {}
  /\ outbox = <<>>
  /\ flagged = {}
  /\ rollbacks = 0

-----------------------------------------------------------------------------
(* Helpers *)

\* w's transaction has finished the given statement.
At(w, step) == tx[w].step = step

\* Open transactions past the INSERT into the inbox, and past an UPDATE that
\* changed a row.
PastInbox(w)  == tx[w].step \in Steps \ {"begun"}
PastUpdate(w) == tx[w].step \in {"updated", "written"} /\ tx[w].rows = 1

\* Fault: the inbox is asked with a SELECT and written at COMMIT.
NeverWaits(w, o) == FALSE

\* Another open transaction has inserted the inbox row of o.
InboxHeld(w, o) == \E v \in Workers \ {w} : PastInbox(v) /\ tx[v].order = o

\* Another open transaction has changed the stock row of s.
RowHeld(w, s) == \E v \in Workers \ {w} : PastUpdate(v) /\ SkuOf[tx[v].order] = s

\* WHERE "Sku" = $1 AND "AvailableQuantity" >= $2, on committed rows.
Suffices(o) == stock[SkuOf[o]] # Absent /\ stock[SkuOf[o]] >= QtyOf[o]

\* The condition, evaluated again on the locked row.
StillSuffices(o) == Suffices(o)

\* Fault: the reservation succeeds whatever the UPDATE returned.
OutcomeIgnoringRows(t) ==
  [order |-> t.order, success |-> ~t.simulated,
   reason |-> IF t.simulated THEN "simulated_inventory_failure" ELSE "none"]

\* determine_inventory_result
OutcomeOf(t) ==
  [order |-> t.order, success |-> ~t.simulated /\ t.rows = 1,
   reason |-> IF t.simulated THEN "simulated_inventory_failure"
              ELSE IF t.rows = 0 THEN "insufficient_stock" ELSE "none"]

-----------------------------------------------------------------------------
(* The transaction *)

\* A replica takes the event of o, for the first time or again.
Begin(w, o) ==
  /\ tx[w] = Idle
  /\ tx' = [tx EXCEPT ![w] = [step |-> "begun", order |-> o, simulated |-> FALSE, rows |-> 0]]
  /\ UNCHANGED <<tables, flagged, rollbacks>>

\* insert_inbox_once inserts the row.
InsertInbox(w) ==
  /\ At(w, "begun")
  /\ tx[w].order \notin inbox
  /\ ~InboxHeld(w, tx[w].order)
  /\ tx' = [tx EXCEPT ![w].step = "new"]
  /\ UNCHANGED <<tables, flagged, rollbacks>>

\* insert_inbox_once meets a committed row: the empty transaction commits.
AlreadyHandled(w) ==
  /\ At(w, "begun")
  /\ tx[w].order \in inbox
  /\ tx' = [tx EXCEPT ![w] = Idle]
  /\ UNCHANGED <<tables, flagged, rollbacks>>

\* load_simulate_inventory_failure
LoadFlag(w) ==
  /\ At(w, "new")
  /\ tx' = [tx EXCEPT ![w].step = "loaded", ![w].simulated = tx[w].order \in flagged]
  /\ UNCHANGED <<tables, flagged, rollbacks>>

\* A simulated failure skips the UPDATE; no row satisfies it otherwise.
NoRowChanged(w) ==
  /\ At(w, "loaded")
  /\ tx[w].simulated \/ ~Suffices(tx[w].order)
  /\ tx' = [tx EXCEPT ![w].step = "updated"]
  /\ UNCHANGED <<tables, flagged, rollbacks>>

\* The UPDATE finds its row in the snapshot of the statement.
FindRow(w) ==
  /\ At(w, "loaded")
  /\ ~tx[w].simulated
  /\ Suffices(tx[w].order)
  /\ tx' = [tx EXCEPT ![w].step = "found"]
  /\ UNCHANGED <<tables, flagged, rollbacks>>

\* The UPDATE has the row to itself and evaluates its condition again.
UpdateRow(w) ==
  /\ At(w, "found")
  /\ ~RowHeld(w, SkuOf[tx[w].order])
  /\ tx' = [tx EXCEPT ![w].step = "updated",
                      ![w].rows = IF StillSuffices(tx[w].order) THEN 1 ELSE 0]
  /\ UNCHANGED <<tables, flagged, rollbacks>>

\* INSERT INTO "inventory_outbox_messages"
InsertOutbox(w) ==
  /\ At(w, "updated")
  /\ tx' = [tx EXCEPT ![w].step = "written"]
  /\ UNCHANGED <<tables, flagged, rollbacks>>

\* The stock table with the change of a transaction.
StockWith(t) ==
  IF t.rows = 1 THEN [stock EXCEPT ![SkuOf[t.order]] = @ - QtyOf[t.order]] ELSE stock

\* tx.commit: the writes of the transaction show together.  When its answer is
\* lost the worker ends and the event is delivered again.
Commit(w) ==
  /\ At(w, "written")
  /\ stock' = StockWith(tx[w])
  /\ inbox' = inbox \union {tx[w].order}
  /\ outbox' = Append(outbox, OutcomeOf(tx[w]))
  /\ tx' = [tx EXCEPT ![w] = Idle]
  /\ UNCHANGED <<flagged, rollbacks>>

\* A statement fails and is passed up by `?`, or the process ends, or try_join!
\* drops the loop: nothing of the transaction stays.
Rollback(w) ==
  /\ tx[w] # Idle
  /\ rollbacks < MaxRollbacks
  /\ rollbacks' = rollbacks + 1
  /\ tx' = [tx EXCEPT ![w] = Idle]
  /\ UNCHANGED <<tables, flagged>>

\* External: an operator sets the flag; the code only reads it.
FlagSimulatedFailure(o) ==
  /\ o \in Flaggable \ flagged
  /\ flagged' = flagged \union {o}
  /\ UNCHANGED <<tx, tables, rollbacks>>

Statement(w) ==
  \/ InsertInbox(w) \/ AlreadyHandled(w) \/ LoadFlag(w) \/ NoRowChanged(w)
  \/ FindRow(w) \/ UpdateRow(w) \/ InsertOutbox(w) \/ Commit(w)

Next ==
  \/ \E w \in Workers : Statement(w) \/ Rollback(w) \/ \E o \in Orders : Begin(w, o)
  \/ \E o \in Orders : FlagSimulatedFailure(o)

\* A statement that need not wait returns; the event of every order is taken
\* again and again by some replica (InboxConsumer).
Fairness ==
  /\ \A w \in Workers : WF_vars(Statement(w))
  /\ \A o \in Orders : SF_vars(\E w \in Workers : Begin(w, o))

Spec == Init /\ [][Next]_vars /\ Fairness

-----------------------------------------------------------------------------
(* Properties *)

\* Two replicas with one event, and a transaction that failed half-way, write
\* one result.
OneResultPerOrder ==
  /\ \A i, j \in 1..Len(outbox) : outbox[i].order = outbox[j].order => i = j
  /\ inbox = {outbox[i].order : i \in 1..Len(outbox)}

\* An order has its inbox row inserted by at most one open transaction, a stock
\* row is changed by at most one, and what is changed can still be subtracted.
LocksExclusive ==
  \A v, w \in Workers :
    /\ PastInbox(v) =>
         /\ tx[v].order \notin inbox
         /\ PastInbox(w) /\ tx[v].order = tx[w].order => v = w
    /\ PastUpdate(v) =>
         /\ ~tx[v].simulated /\ Suffices(tx[v].order)
         /\ PastUpdate(w) /\ SkuOf[tx[v].order] = SkuOf[tx[w].order] => v = w

\* A transaction that found too little, or a simulated failure, still would.
DenialStands ==
  \A w \in Workers :
    /\ tx[w].step \in {"updated", "written"} /\ tx[w].rows = 0 =>
         tx[w].simulated \/ ~Suffices(tx[w].order)
    /\ tx[w] # Idle /\ tx[w].simulated => tx[w].order \in flagged

\* Before its UPDATE a transaction has changed no row, and a simulated failure
\* never reaches it.
BeforeUpdate ==
  \A w \in Workers :
    /\ tx[w].step \in {"begun", "new", "loaded", "found"} => tx[w].rows = 0
    /\ At(w, "found") => ~tx[w].simulated

\* The strengthening under which the invariants are inductive.
IInv == TypeOK /\ OneResultPerOrder /\ LocksExclusive /\ DenialStands /\ BeforeUpdate

\* The statements, interleaved as they are, amount to one step at COMMIT.
Abstract == INSTANCE Reservations WITH
  available <- stock, handled <- inbox, outcome <- outbox, simulated <- flagged

AtomicInEffect == Abstract!ResSpec
=============================================================================
