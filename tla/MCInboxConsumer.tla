-------------------------- MODULE MCInboxConsumer --------------------------
(* Instances of InboxConsumer for TLC. *)
EXTENDS InboxConsumer

CONSTANTS m1, m2, bad

\* Two real messages and one that cannot be decoded.
MessagesAndJunk == {m1, m2, bad}
Undecodable == {bad}
=============================================================================
