---------------------------- MODULE Reservations ----------------------------
(***************************************************************************)
(* What the inventory transaction promises: the event of an order is       *)
(* handled once and in one step, which takes the stock if it suffices and  *)
(* writes the result.  A failure that is simulated for the order may or    *)
(* may not be seen by it.                                                  *)
(***************************************************************************)
EXTENDS Naturals, Sequences

CONSTANTS
  Orders,
  SkuOf,         \* the SKU each order asks for
  QtyOf,         \* the quantity each order asks for
  InitialStock,  \* stock per SKU, Absent for a SKU without a row
  Absent

VARIABLES
  available,     \* per SKU: stock not yet reserved
  handled,       \* orders whose event was handled
  outcome,       \* the results, in the order they were decided
  simulated      \* orders for which a failure is simulated

resVars == <<available, handled, outcome, simulated>>

ResInit ==
  /\ available = InitialStock
  /\ handled = {}
  /\ outcome = <<>>
  /\ simulated = {}

Suffices(o) == available[SkuOf[o]] # Absent /\ available[SkuOf[o]] >= QtyOf[o]

Grant(o) ==
  /\ Suffices(o)
  /\ available' = [available EXCEPT ![SkuOf[o]] = @ - QtyOf[o]]
  /\ outcome' = Append(outcome, [order |-> o, success |-> TRUE, reason |-> "none"])

Deny(o) ==
  /\ \/ ~Suffices(o) /\ outcome' = Append(outcome, [order |-> o, success |-> FALSE, reason |-> "insufficient_stock"])
     \/ o \in simulated /\ outcome' = Append(outcome, [order |-> o, success |-> FALSE, reason |-> "simulated_inventory_failure"])
  /\ UNCHANGED available

HandleOnce(o) ==
  /\ o \notin handled
  /\ handled' = handled \union {o}
  /\ Grant(o) \/ Deny(o)
  /\ UNCHANGED simulated

Simulate(o) ==
  /\ simulated' = simulated \union {o}
  /\ UNCHANGED <<available, handled, outcome>>

ResNext == \E o \in Orders : HandleOnce(o) \/ Simulate(o)

\* The safety half.
ResSafety == ResInit /\ [][ResNext]_resVars

\* Every order's event is handled.
ResSpec == ResSafety /\ \A o \in Orders : WF_resVars(HandleOnce(o))
=============================================================================
