--------------------------- MODULE InboxConsumer ---------------------------
(***************************************************************************)
(* The consume loop of both workers: consume_order_created_loop            *)
(* (bin/inventory-worker.rs) and consume_inventory_results_loop            *)
(* (bin/orders-worker.rs).  A record is received, decoded, handled in a    *)
(* transaction that first inserts its MessageId into the inbox table, and  *)
(* then its offset is committed asynchronously.                            *)
(*                                                                         *)
(* One topic partition and one consumer group.  Kafka assigns the          *)
(* partition to one replica at a time, but a replica that lost it keeps    *)
(* working on the record it holds, so two replicas can handle one record.  *)
(***************************************************************************)
EXTENDS Naturals, Sequences

CONSTANTS
  Messages,        \* MessageIds
  Poison,          \* messages whose payload decode_event cannot decode
  Workers,         \* replicas of the worker
  NoOwner,         \* the partition is assigned to nobody
  MaxLog,          \* bound: records on the topic, redelivered ones included
  MaxDisturbances  \* bound: worker crashes and forced rebalances

ASSUME ConsumerAssumption ==
  /\ Poison \subseteq Messages
  /\ NoOwner \notin Workers
  /\ MaxLog \in Nat
  /\ MaxDisturbances \in Nat

VARIABLES
  log,           \* records of the partition; the record at i has offset i - 1
  committed,     \* committed offset of the group: records before it are skipped
  owner,         \* replica the partition is assigned to
  position,      \* per worker: number of records received since its assignment point
  phase,         \* per worker: waiting in recv, before the handler, or before commit
  current,       \* per worker: the record it holds
  requested,     \* per worker: offset of the commit request under way, 0 if none
  inbox,         \* message ids in the inbox table
  applied,       \* per message: how often its effect was made
  disturbances   \* crashes and rebalances so far

workerVars == <<phase, current>>
groupVars  == <<committed, owner, position, requested>>
tableVars  == <<inbox, applied>>
vars == <<log, groupVars, workerVars, tableVars, disturbances>>

TypeOK ==
  /\ log \in Seq(Messages) /\ Len(log) <= MaxLog
  /\ committed \in 0..Len(log)
  /\ owner \in Workers \union {NoOwner}
  /\ position \in [Workers -> 0..Len(log)]
  /\ phase \in [Workers -> {"recv", "handle", "commit"}]
  /\ current \in [Workers -> 0..Len(log)]
  /\ requested \in [Workers -> 0..Len(log)]
  /\ inbox \subseteq Messages
  /\ applied \in [Messages -> Nat]
  /\ disturbances \in 0..MaxDisturbances

Init ==
  /\ log = <<>>
  /\ committed = 0
  /\ owner = NoOwner
  /\ position = [w \in Workers |-> 0]
  /\ phase = [w \in Workers |-> "recv"]
  /\ current = [w \in Workers |-> 0]
  /\ requested = [w \in Workers |-> 0]
  /\ inbox = {}
  /\ applied = [m \in Messages |-> 0]
  /\ disturbances = 0

-----------------------------------------------------------------------------
(* Helpers *)

\* The messages that have a record on the topic.
Logged == {log[i] : i \in 1..Len(log)}

\* The record at i needs no more work: it was applied, or it is skipped.
Done(i) == log[i] \in inbox \union Poison

\* Fault: auto.offset.reset = latest.
StartOffsetLatest == IF committed = 0 THEN Len(log) ELSE committed

\* Where a newly assigned consumer starts: auto.offset.reset = earliest.
StartOffset == committed

\* The offset commit_message stores: the one after the record's own.
OffsetAfter(i) == i

\* Fault: the handler makes its effect without asking the inbox.
ApplyAlways(m) ==
  /\ inbox' = inbox \union {m}
  /\ applied' = [applied EXCEPT ![m] = @ + 1]

\* insert_inbox_once and the effect, in one transaction.
ApplyOnce(m) ==
  \/ m \in inbox /\ UNCHANGED tableVars
  \/ /\ m \notin inbox
     /\ inbox' = inbox \union {m}
     /\ applied' = [applied EXCEPT ![m] = @ + 1]

\* Fault: the offset is committed without handling the record.
AfterRecvSkip(i) == "commit"

\* Where decode_event sends the loop: an undecodable record is only committed.
AfterRecv(i) == IF log[i] \in Poison THEN "commit" ELSE "handle"

-----------------------------------------------------------------------------
(* Actions *)

\* An outbox relay appends a record; it may append a message several times.
Produce(m) ==
  /\ Len(log) < MaxLog
  /\ log' = Append(log, m)
  /\ UNCHANGED <<groupVars, workerVars, tableVars, disturbances>>

\* The group coordinator assigns the partition.  Taking it from a live owner
\* uses up a disturbance.  Commit requests of the old generation are refused.
Assign(w) ==
  /\ \/ owner = NoOwner /\ UNCHANGED disturbances
     \/ /\ owner # NoOwner /\ disturbances < MaxDisturbances
        /\ disturbances' = disturbances + 1
  /\ owner' = w
  /\ position' = [position EXCEPT ![w] = StartOffset]
  /\ requested' = [v \in Workers |-> 0]
  /\ UNCHANGED <<log, committed, workerVars, tableVars>>

\* consumer.recv() and decode_event.
Recv(w) ==
  /\ owner = w
  /\ phase[w] = "recv"
  /\ position[w] < Len(log)
  /\ position' = [position EXCEPT ![w] = @ + 1]
  /\ current' = [current EXCEPT ![w] = position[w] + 1]
  /\ phase' = [phase EXCEPT ![w] = AfterRecv(position[w] + 1)]
  /\ UNCHANGED <<log, committed, owner, requested, tableVars, disturbances>>

\* consumer.recv() returns an error, which the loop only logs.
RecvError(w) ==
  /\ phase[w] = "recv"
  /\ UNCHANGED vars

\* The handler's transaction commits, whoever owns the partition by now.
Handle(w) ==
  /\ phase[w] = "handle"
  /\ ApplyOnce(log[current[w]])
  /\ phase' = [phase EXCEPT ![w] = "commit"]
  /\ UNCHANGED <<log, groupVars, current, disturbances>>

\* commit_message(CommitMode::Async): the request leaves, the loop goes on.
RequestCommit(w) ==
  /\ phase[w] = "commit"
  /\ requested' = IF owner = w THEN [requested EXCEPT ![w] = OffsetAfter(current[w])] ELSE requested
  /\ phase' = [phase EXCEPT ![w] = "recv"]
  /\ UNCHANGED <<log, committed, owner, position, current, tableVars, disturbances>>

\* The coordinator stores the requested offset, which may be lower than the
\* stored one, or the request fails and nobody is told.
CommitArrives(w) ==
  /\ owner = w
  /\ requested[w] > 0
  /\ committed' \in {committed, requested[w]}
  /\ requested' = [requested EXCEPT ![w] = 0]
  /\ UNCHANGED <<log, owner, position, workerVars, tableVars, disturbances>>

\* The process ends: crash, or an error of the handler passed up by `?`.
Crash(w) ==
  /\ disturbances < MaxDisturbances
  /\ disturbances' = disturbances + 1
  /\ phase' = [phase EXCEPT ![w] = "recv"]
  /\ current' = [current EXCEPT ![w] = 0]
  /\ requested' = [requested EXCEPT ![w] = 0]
  /\ owner' = IF owner = w THEN NoOwner ELSE owner
  /\ UNCHANGED <<log, committed, position, tableVars>>

Next ==
  \/ \E m \in Messages : Produce(m)
  \/ \E w \in Workers :
       \/ Assign(w)
       \/ Recv(w)
       \/ RecvError(w)
       \/ Handle(w)
       \/ RequestCommit(w)
       \/ CommitArrives(w)
       \/ Crash(w)

\* The coordinator assigns a free partition; a running worker receives,
\* handles and commits.  Nothing is assumed of crashes or of lost commits.
Fairness ==
  /\ WF_vars(\E w \in Workers : owner = NoOwner /\ Assign(w))
  /\ \A w \in Workers : WF_vars(Recv(w)) /\ WF_vars(Handle(w)) /\ WF_vars(RequestCommit(w))

Spec == Init /\ [][Next]_vars /\ Fairness

-----------------------------------------------------------------------------
(* Properties *)

\* No crash, rebalance, stale commit or undecodable record makes the group
\* skip a message: every record before the committed offset is done.
CommittedIsDone == \A i \in 1..committed : Done(i)

\* A message has its effect exactly once, however often its record is
\* produced and however many replicas hold it.
AppliedOnce == \A m \in Messages : applied[m] = IF m \in inbox THEN 1 ELSE 0

\* What each worker may claim: a record ready to be committed, and all records
\* before the one it holds, are done; the owner received nothing that is lost.
WorkerClaims(w) ==
  /\ phase[w] # "recv" => current[w] > 0 /\ \A i \in 1..(current[w] - 1) : Done(i)
  /\ phase[w] = "handle" => log[current[w]] \notin Poison
  /\ phase[w] = "commit" => Done(current[w])
  /\ \A i \in 1..requested[w] : Done(i)
  /\ owner = w => \A i \in 1..position[w] :
                    Done(i) \/ (phase[w] = "handle" /\ i = current[w])

\* The strengthening under which the two invariants above are inductive.
IInv ==
  /\ TypeOK
  /\ CommittedIsDone
  /\ AppliedOnce
  /\ inbox \subseteq Logged
  /\ \A w \in Workers : WorkerClaims(w)

\* The consumer is a channel from topic records to applied effects: each
\* decodable record is applied in the end, in spite of crashes.
Consumer == INSTANCE Channel WITH
  Messages <- Messages, Deliverable <- Messages \ Poison,
  accepted <- Logged, delivered <- inbox

EffectChannel == Consumer!ChannelSpec
=============================================================================
