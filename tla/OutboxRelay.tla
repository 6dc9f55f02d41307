---------------------------- MODULE OutboxRelay ----------------------------
(***************************************************************************)
(* The transactional outbox and the publishers that drain it to Kafka:     *)
(* publish_outbox_loop (orders/worker.rs) over list_unpublished_outbox,    *)
(* mark_outbox_published and mark_outbox_failed (orders/store.rs).  The    *)
(* order outbox and the inventory outbox run the same code; this module    *)
(* models one of them.                                                     *)
(*                                                                         *)
(* A publisher leases up to BatchLimit rows in one statement and then      *)
(* sends them one by one.  Nothing ties the lease to the publisher that    *)
(* took it: when a batch outlives the lease, another replica leases the    *)
(* same rows, and both later update them by Id alone.                      *)
(***************************************************************************)
EXTENDS Naturals, FiniteSets

CONSTANTS
  Rows,           \* outbox rows, named by their "Id"
  Publishers,     \* worker replicas running publish_outbox_loop
  BatchLimit,     \* LIMIT of the listing statement (50 in both workers)
  LockSeconds,    \* OUTBOX_LOCK_SECONDS, in clock ticks
  Unpublishable,  \* rows whose record the broker refuses for ever
  MaxStops        \* bound: how many times publishers crash or exit

ASSUME RelayAssumption ==
  /\ Rows \subseteq Nat
  /\ BatchLimit \in Nat \ {0}
  /\ LockSeconds \in Nat \ {0}
  /\ Unpublishable \subseteq Rows
  /\ MaxStops \in Nat

VARIABLES
  stored,     \* rows inserted by a committed transaction
  published,  \* rows with "PublishedOnUtc" set
  lease,      \* ticks left until "LockedUntilUtc"; 0 when NULL or past
  lastError,  \* rows with "LastError" set
  todo,       \* per publisher: rows of the current batch not yet sent
  sendOk,     \* per publisher: the row acknowledged and not yet marked
  sendErr,    \* per publisher: the row that failed and is not yet marked
  delivered,  \* rows with at least one record on the topic
  overrun,    \* history: rows whose lease ran out while a publisher held them
  stops       \* publishers stopped so far

tableVars     == <<stored, published, lease, lastError>>
publisherVars == <<todo, sendOk, sendErr>>
vars == <<tableVars, publisherVars, delivered, overrun, stops>>

TypeOK ==
  /\ stored \subseteq Rows
  /\ published \subseteq stored
  /\ lease \in [Rows -> 0..LockSeconds]
  /\ lastError \subseteq stored
  /\ todo \in [Publishers -> SUBSET stored]
  /\ sendOk \in [Publishers -> SUBSET stored]
  /\ sendErr \in [Publishers -> SUBSET stored]
  /\ delivered \subseteq stored
  /\ overrun \subseteq stored
  /\ stops \in 0..MaxStops

Init ==
  /\ stored = {}
  /\ published = {}
  /\ lease = [m \in Rows |-> 0]
  /\ lastError = {}
  /\ todo = [p \in Publishers |-> {}]
  /\ sendOk = [p \in Publishers |-> {}]
  /\ sendErr = [p \in Publishers |-> {}]
  /\ delivered = {}
  /\ overrun = {}
  /\ stops = 0

-----------------------------------------------------------------------------
(* Helpers *)

\* Rows a publisher took in its current batch and has not marked yet.
Held(p) == todo[p] \union sendOk[p] \union sendErr[p]

\* The publisher has finished its batch and waits for the next poll.
Idle(p) == Held(p) = {}

\* Between messages of a batch: the previous outcome is already marked.
ReadyToSend(p) == sendOk[p] = {} /\ sendErr[p] = {}

\* Fault: the listing forgets the lease.
ListableDespiteLease == stored \ published

\* Fault: the listing forgets PublishedOnUtc.
ListablePublished == {m \in stored : lease[m] = 0}

\* PublishedOnUtc IS NULL AND (LockedUntilUtc IS NULL OR LockedUntilUtc <= now())
Listable == {m \in stored \ published : lease[m] = 0}

\* Fault: LIMIT applied before the WHERE clause.
LowestStored(S) == {m \in S : Cardinality({k \in stored : k < m}) < BatchLimit}

\* ORDER BY "Id" LIMIT BatchLimit
Lowest(S) == {m \in S : Cardinality({k \in S : k < m}) < BatchLimit}

\* Rows whose tuple lock another publisher's UPDATE may hold just now.
Contended(p) == UNION {sendOk[q] \union sendErr[q] : q \in Publishers \ {p}}

\* "LockedUntilUtc" = NULL
Released(m) == [lease EXCEPT ![m] = 0]

-----------------------------------------------------------------------------
(* Actions *)

\* A transaction that writes an outbox row commits.  Ids come from a
\* sequence, so rows may become visible in another order than their ids.
Insert(m) ==
  /\ m \in Rows \ stored
  /\ stored' = stored \union {m}
  /\ UNCHANGED <<published, lease, lastError, publisherVars, delivered, overrun, stops>>

\* One poll.  FOR UPDATE SKIP LOCKED passes over rows that another publisher
\* is updating at that moment.  A poll that finds no row changes nothing.
ListUnpublished(p) ==
  /\ Idle(p)
  /\ \E skipped \in SUBSET (Contended(p) \intersect Listable) :
       LET picked == Lowest(Listable \ skipped) IN
       /\ todo' = [todo EXCEPT ![p] = picked]
       /\ lease' = [m \in Rows |-> IF m \in picked THEN LockSeconds ELSE lease[m]]
  /\ UNCHANGED <<stored, published, lastError, sendOk, sendErr, delivered, overrun, stops>>

\* producer.send returned Ok: the record is on the topic.
SendAcked(p, m) ==
  /\ ReadyToSend(p)
  /\ m \in todo[p] \ Unpublishable
  /\ todo' = [todo EXCEPT ![p] = @ \ {m}]
  /\ sendOk' = [sendOk EXCEPT ![p] = {m}]
  /\ delivered' = delivered \union {m}
  /\ UNCHANGED <<tableVars, sendErr, overrun, stops>>

\* producer.send returned Err.  After a timeout the record may be on the
\* topic all the same; a record the broker refuses never is.
SendFailed(p, m) ==
  /\ ReadyToSend(p)
  /\ m \in todo[p]
  /\ todo' = [todo EXCEPT ![p] = @ \ {m}]
  /\ sendErr' = [sendErr EXCEPT ![p] = {m}]
  /\ delivered' \in {delivered, delivered \union ({m} \ Unpublishable)}
  /\ UNCHANGED <<tableVars, sendOk, overrun, stops>>

\* UPDATE ... SET PublishedOnUtc, LockedUntilUtc = NULL, LastError = NULL
\* WHERE Id = m: no check that the lease is still this publisher's.
MarkPublished(p) ==
  \E m \in sendOk[p] :
    /\ published' = published \union {m}
    /\ lease' = Released(m)
    /\ lastError' = lastError \ {m}
    /\ sendOk' = [sendOk EXCEPT ![p] = {}]
    /\ UNCHANGED <<stored, todo, sendErr, delivered, overrun, stops>>

\* Fault: the error branch makes the update of the success branch.
MarkFailedAsPublished(p) ==
  \E m \in sendErr[p] :
    /\ lease' = Released(m)
    /\ published' = published \union {m}
    /\ lastError' = lastError \ {m}
    /\ sendErr' = [sendErr EXCEPT ![p] = {}]
    /\ UNCHANGED <<stored, todo, sendOk, delivered, overrun, stops>>

\* UPDATE ... SET RetryCount + 1, LockedUntilUtc = NULL, LastError = error
\* WHERE Id = m: not even a check that the row is still unpublished.
MarkFailed(p) ==
  \E m \in sendErr[p] :
    /\ lease' = Released(m)
    /\ lastError' = lastError \union {m}
    /\ sendErr' = [sendErr EXCEPT ![p] = {}]
    /\ UNCHANGED <<stored, published, todo, sendOk, delivered, overrun, stops>>

\* The process ends and is restarted: crash, a database error passed up by
\* `?`, a failure of the consume loop joined to this one, or shutdown.  The
\* batch is forgotten, its leases stay; a record in flight may still arrive.
Stop(p) ==
  /\ stops < MaxStops
  /\ stops' = stops + 1
  /\ todo' = [todo EXCEPT ![p] = {}]
  /\ sendOk' = [sendOk EXCEPT ![p] = {}]
  /\ sendErr' = [sendErr EXCEPT ![p] = {}]
  /\ \/ UNCHANGED delivered
     \/ /\ ReadyToSend(p)
        /\ \E m \in todo[p] \ Unpublishable : delivered' = delivered \union {m}
  /\ UNCHANGED <<tableVars, overrun>>

\* The database clock.  It runs however slowly a publisher works: 50 sends
\* of up to ten seconds each do not fit in a lease of 300 seconds.
Tick ==
  /\ \E m \in Rows : lease[m] > 0
  /\ lease' = [m \in Rows |-> IF lease[m] > 0 THEN lease[m] - 1 ELSE 0]
  /\ overrun' = overrun \union
       {m \in stored : lease[m] = 1 /\ \E p \in Publishers : m \in Held(p)}
  /\ UNCHANGED <<stored, published, lastError, publisherVars, delivered, stops>>

Next ==
  \/ \E m \in Rows : Insert(m)
  \/ \E p \in Publishers :
       \/ ListUnpublished(p)
       \/ MarkPublished(p)
       \/ MarkFailed(p)
       \/ Stop(p)
       \/ \E m \in Rows : SendAcked(p, m) \/ SendFailed(p, m)
  \/ Tick

\* The loop of a publisher; one of these steps is next at any time.
PublisherStep(p) ==
  \/ ListUnpublished(p) \/ MarkPublished(p) \/ MarkFailed(p)
  \/ \E m \in Rows : SendAcked(p, m) \/ SendFailed(p, m)

\* A running publisher polls every 500 ms, every send ends within its timeouts
\* and every outcome is marked; the clock runs; a broker that is asked for
\* ever accepts a publishable record at last.
Fairness ==
  /\ WF_vars(Tick)
  /\ \A p \in Publishers : WF_vars(PublisherStep(p))
  /\ \A m \in Rows : SF_vars(\E p \in Publishers : SendAcked(p, m))

Spec == Init /\ [][Next]_vars /\ Fairness

-----------------------------------------------------------------------------
(* Properties *)

\* Two publishers hold the same row only after its lease ran out under one of
\* them: FOR UPDATE SKIP LOCKED and LockedUntilUtc keep replicas apart.
LeaseExclusive ==
  \A p, q \in Publishers :
    p # q => Held(p) \intersect Held(q) \subseteq overrun

\* A row in a publisher's hands is still unpublished, so sending it once more
\* is no duplicate of a marked row, unless its lease ran out meanwhile.
HeldRowsPending ==
  \A p \in Publishers : Held(p) \intersect published \subseteq overrun

\* A row shows an error beside PublishedOnUtc only when a publisher marked it
\* after its lease ran out: the two marks do not exclude each other.
PublishedClean == published \intersect lastError \subseteq overrun

\* Both together: marks by Id alone go wrong for rows that overran, and for no
\* others.
MarksConsistent == HeldRowsPending /\ PublishedClean

\* PublishedOnUtc is a promise that the record is on the topic: no order of
\* crashes, lost acknowledgements and stale marks publishes a row unsent.
PublishedWasDelivered == published \subseteq delivered

\* The strengthening under which the four invariants above are inductive.
IInv ==
  /\ TypeOK
  /\ \A p \in Publishers :
       /\ todo[p] \intersect (sendOk[p] \union sendErr[p]) = {}
       /\ sendOk[p] \intersect sendErr[p] = {}
       /\ sendOk[p] \subseteq delivered
       /\ \A m \in Held(p) \ overrun : lease[m] > 0
  /\ LeaseExclusive
  /\ HeldRowsPending
  /\ PublishedClean
  /\ PublishedWasDelivered

\* Every row that the broker accepts is marked published in the end, through
\* crashes and expired leases, while fewer rows than one batch are refused.
\* (A row stays stored, so it need not be said of every moment.)
EveryRowPublished ==
  \A m \in Rows \ Unpublishable : []<>(m \in stored => m \in published)

\* The relay is a channel from committed rows to topic records.
Topic == INSTANCE Channel WITH
  Messages <- Rows, Deliverable <- Rows \ Unpublishable,
  accepted <- stored, delivered <- delivered

TopicChannel == Topic!ChannelSpec
=============================================================================
