--------------------------- MODULE MCOutboxRelay ---------------------------
(* Instances of OutboxRelay for TLC. *)
EXTENDS OutboxRelay

\* Row 1 is refused by the broker and has the lowest id: it heads every batch.
RefusedRow == {1}
=============================================================================
