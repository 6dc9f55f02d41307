------------------------------ MODULE Channel ------------------------------
(***************************************************************************)
(* What one hop of the order pipeline promises: a message that was         *)
(* accepted is delivered some time later, nothing is delivered that was    *)
(* not accepted, and delivery is never undone.  How often a message        *)
(* travels in between is not visible here.  The outbox relay (outbox row   *)
(* to topic record) and the inbox consumer (topic record to applied        *)
(* effect) both implement this specification.                              *)
(***************************************************************************)

CONSTANTS
  Messages,     \* everything that may ever be accepted
  Deliverable   \* those of them whose delivery is promised

VARIABLES
  accepted,     \* messages handed to the channel
  delivered     \* messages that came out of it

channelVars == <<accepted, delivered>>

ChannelTypeOK ==
  /\ accepted \subseteq Messages
  /\ delivered \subseteq Messages

ChannelInit ==
  /\ accepted = {}
  /\ delivered = {}

Accept(m) ==
  /\ m \notin accepted
  /\ accepted' = accepted \union {m}
  /\ UNCHANGED delivered

Deliver(m) ==
  /\ m \in accepted \ delivered
  /\ delivered' = delivered \union {m}
  /\ UNCHANGED accepted

ChannelNext == \E m \in Messages : Accept(m) \/ Deliver(m)

\* The safety half, which is what the proofs refine.
ChannelSafety == ChannelInit /\ [][ChannelNext]_channelVars

\* Every deliverable message that was accepted is delivered.
ChannelSpec ==
  /\ ChannelSafety
  /\ \A m \in Deliverable : WF_channelVars(Deliver(m))

============================================================================
