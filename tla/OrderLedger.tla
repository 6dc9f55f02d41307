---------------------------- MODULE OrderLedger ----------------------------
(***************************************************************************)
(* What the order system promises, without queues, caches or workers: a    *)
(* placed order is decided once; it is confirmed exactly when its quantity *)
(* was taken from the stock of its SKU; and it is turned down only when    *)
(* the stock did not suffice or a failure was simulated for it.            *)
(***************************************************************************)
EXTENDS Naturals

CONSTANTS
  Orders,
  Skus,
  SkuOf,         \* the SKU each order asks for
  QtyOf,         \* the quantity each order asks for
  InitialStock,  \* stock per SKU, Absent for a SKU without a row
  Absent

VARIABLES
  stage,         \* per order: none, placed, reserved, declined, confirmed, rejected
  available,     \* per SKU: stock not yet reserved
  simulated      \* orders for which a failure is simulated

ledgerVars == <<stage, available, simulated>>

LedgerInit ==
  /\ stage = [o \in Orders |-> "none"]
  /\ available = InitialStock
  /\ simulated = {}

Suffices(o) == available[SkuOf[o]] # Absent /\ available[SkuOf[o]] >= QtyOf[o]

Place(o) ==
  /\ stage[o] = "none"
  /\ stage' = [stage EXCEPT ![o] = "placed"]
  /\ UNCHANGED <<available, simulated>>

Reserve(o) ==
  /\ stage[o] = "placed"
  /\ Suffices(o)
  /\ stage' = [stage EXCEPT ![o] = "reserved"]
  /\ available' = [available EXCEPT ![SkuOf[o]] = @ - QtyOf[o]]
  /\ UNCHANGED simulated

Decline(o) ==
  /\ stage[o] = "placed"
  /\ ~Suffices(o) \/ o \in simulated
  /\ stage' = [stage EXCEPT ![o] = "declined"]
  /\ UNCHANGED <<available, simulated>>

Conclude(o) ==
  /\ \/ stage[o] = "reserved" /\ stage' = [stage EXCEPT ![o] = "confirmed"]
     \/ stage[o] = "declined" /\ stage' = [stage EXCEPT ![o] = "rejected"]
  /\ UNCHANGED <<available, simulated>>

Simulate(o) ==
  /\ simulated' = simulated \union {o}
  /\ UNCHANGED <<stage, available>>

LedgerNext ==
  \E o \in Orders : Place(o) \/ Reserve(o) \/ Decline(o) \/ Conclude(o) \/ Simulate(o)

\* The safety half, which is what the proofs refine.
LedgerSafety == LedgerInit /\ [][LedgerNext]_ledgerVars

\* A placed order is decided, and its decision reaches the order.
LedgerSpec ==
  /\ LedgerSafety
  /\ \A o \in Orders :
       /\ WF_ledgerVars(Reserve(o) \/ Decline(o))
       /\ WF_ledgerVars(Conclude(o))
============================================================================
