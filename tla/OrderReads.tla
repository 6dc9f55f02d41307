----------------------------- MODULE OrderReads -----------------------------
(***************************************************************************)
(* Looking an order up while the pipeline works on it: detail of           *)
(* handlers/orders and get_order_by_id, over the read pool (db.rs,         *)
(* route.rs).  The read pool leads to a replica of the database that       *)
(* replays the commits of the primary later (external).                    *)
(*                                                                         *)
(* The replica keeps the commits to one order in their order; those to     *)
(* different orders are allowed to come in any order.                      *)
(***************************************************************************)
EXTENDS OrderPipeline

VARIABLES
  replica,   \* per order: "Status" in the replica, "None" without a row
  shown      \* per order: what the latest request was answered with; "None" is
             \* 404, and what nobody has asked for yet

readVars == <<replica, shown>>

Decisions == {"Confirmed", "Rejected"}
Statuses  == {"None", "Pending"} \union Decisions

ReadsInit ==
  /\ Init
  /\ replica = [o \in Orders |-> "None"]
  /\ shown = [o \in Orders |-> "None"]

-----------------------------------------------------------------------------

\* External: the replica replays the insert of an order, or its decision.
Replicate(o) ==
  /\ replica[o] # status[o]
  /\ replica' = [replica EXCEPT ![o] = IF @ = "None" THEN "Pending" ELSE status[o]]
  /\ UNCHANGED <<vars, shown>>

\* Fault: a read takes a connection of either pool.
FromEitherPool(o) == {replica[o], status[o]}

\* What get_order_by_id finds through state.read_pool.
FromReadPool(o) == {replica[o]}

\* GET /api/orders/{id}; a failed read is a 500 and shows nothing.
Detail(o) ==
  /\ shown' \in {[shown EXCEPT ![o] = s] : s \in FromReadPool(o)}
  /\ UNCHANGED <<vars, replica>>

ReadsNext ==
  \/ Next /\ UNCHANGED readVars
  \/ \E o \in Orders : Replicate(o) \/ Detail(o)

ReadsSpec ==
  /\ ReadsInit /\ [][ReadsNext]_<<vars, readVars>>
  /\ Fairness
  /\ \A o \in Orders : WF_<<vars, readVars>>(Replicate(o))

-----------------------------------------------------------------------------
(* Properties *)

\* An order that a client has seen does not disappear, and a decision that it
\* was shown is neither taken back nor changed.
ReadsNeverGoBack ==
  [][\A o \in Orders :
       /\ shown[o] # "None" => shown'[o] # "None"
       /\ shown[o] \in Decisions => shown'[o] = shown[o]]_<<vars, readVars>>

\* The replica is behind the primary and never ahead of it, what was shown is
\* behind the replica, and a decision is the same wherever it has arrived.
BehindThePrimary ==
  /\ replica \in [Orders -> Statuses] /\ shown \in [Orders -> Statuses]
  /\ \A o \in Orders :
       /\ replica[o] # "None" => status[o] # "None"
       /\ shown[o] # "None" => replica[o] # "None"
       /\ replica[o] \in Decisions => replica[o] = status[o]
       /\ shown[o] \in Decisions => shown[o] = replica[o]

\* A client that was told 201 is shown a decision in the end, if it keeps
\* asking.
CreatedIsDecided ==
  \A o \in Orders : api[o] = "created" ~> replica[o] \in Decisions
=============================================================================
