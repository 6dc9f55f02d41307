------------------------- MODULE OutboxRelay_proofs -------------------------
(***************************************************************************)
(* The safety of the outbox relay for any number of rows, replicas and     *)
(* stops, and any batch and lease size; and that it implements the safety  *)
(* half of Channel.                                                        *)
(***************************************************************************)
EXTENDS OutboxRelay, TLAPS

\* A batch consists of listable rows, whatever rows SKIP LOCKED left out.
LEMMA PickedIsListable ==
  ASSUME NEW skipped
  PROVE  Lowest(Listable \ skipped) \subseteq Listable
BY DEF Lowest

\* No row is leased and no batch is held before the first poll.
LEMMA InitIInv == Init => IInv
<1> SUFFICES ASSUME Init PROVE IInv
  OBVIOUS
<1> USE RelayAssumption
<1>1. TypeOK
  BY DEF Init, TypeOK
<1>2. QED
  BY <1>1 DEF Init, IInv, Held, LeaseExclusive, HeldRowsPending, PublishedClean,
              PublishedWasDelivered

\* Every step of the relay keeps the inductive invariant.
LEMMA NextIInv == IInv /\ [Next]_vars => IInv'
<1> SUFFICES ASSUME IInv, [Next]_vars PROVE IInv'
  OBVIOUS
<1> USE RelayAssumption DEF IInv
<1>1. ASSUME NEW m \in Rows, Insert(m) PROVE IInv'
  <2>1. TypeOK'
    BY <1>1 DEF Insert, TypeOK, publisherVars
  <2>2. QED
    BY <1>1, <2>1 DEF Insert, TypeOK, publisherVars, Held, LeaseExclusive,
       HeldRowsPending, PublishedClean, PublishedWasDelivered
<1>2. ASSUME NEW p \in Publishers, ListUnpublished(p) PROVE IInv'
  <2>1. PICK skipped \in SUBSET (Contended(p) \intersect Listable) :
          LET picked == Lowest(Listable \ skipped) IN
          /\ todo' = [todo EXCEPT ![p] = picked]
          /\ lease' = [m \in Rows |-> IF m \in picked THEN LockSeconds ELSE lease[m]]
    BY <1>2 DEF ListUnpublished
  <2> DEFINE picked == Lowest(Listable \ skipped)
  <2>2. picked \subseteq Listable
    BY PickedIsListable
  <2>3. /\ todo' = [todo EXCEPT ![p] = picked]
        /\ lease' = [m \in Rows |-> IF m \in picked THEN LockSeconds ELSE lease[m]]
        /\ sendOk[p] = {} /\ sendErr[p] = {} /\ todo[p] = {}
        /\ UNCHANGED <<stored, published, lastError, sendOk, sendErr, delivered, overrun, stops>>
    BY <1>2, <2>1 DEF ListUnpublished, Idle, Held
  <2> HIDE DEF picked
  <2>4. TypeOK'
    BY <2>2, <2>3 DEF TypeOK, Listable
  <2>5. \A m \in picked : m \in stored \ published /\ lease[m] = 0
    BY <2>2 DEF Listable
  <2>6. \A q \in Publishers \ {p} : Held(q)' = Held(q)
    BY <2>3 DEF Held, TypeOK
  <2>7. Held(p)' = picked
    BY <2>3 DEF Held, TypeOK
  <2>8. \A q \in Publishers \ {p} : Held(q) \intersect picked \subseteq overrun
    BY <2>5 DEF Held
  <2>9. LeaseExclusive'
    BY <2>3, <2>6, <2>7, <2>8 DEF LeaseExclusive
  <2>10. HeldRowsPending'
    BY <2>3, <2>5, <2>6, <2>7 DEF HeldRowsPending
  <2>11. \A q \in Publishers :
           /\ (todo[q] \intersect (sendOk[q] \union sendErr[q]) = {})'
          /\ (sendOk[q] \intersect sendErr[q] = {})'
           /\ (sendOk[q] \subseteq delivered)'
    BY <2>3 DEF TypeOK
  <2>12. ASSUME NEW q \in Publishers, NEW m \in (Held(q) \ overrun)' PROVE (lease[m] > 0)'
    <3>1. m \in Rows
      BY <2>4 DEF Held, TypeOK
    <3>2. CASE m \in picked
      BY <2>3, <3>1, <3>2
    <3>3. CASE m \notin picked
      <4>1. q # p /\ m \in Held(q) \ overrun
        BY <2>3, <2>6, <2>7, <2>12, <3>3
      <4>2. lease[m] > 0
        BY <4>1
      <4>3. QED
        BY <2>3, <3>1, <3>3, <4>2
    <3>4. QED
      BY <3>2, <3>3
  <2>13. PublishedClean' /\ PublishedWasDelivered'
    BY <2>3 DEF PublishedClean, PublishedWasDelivered
  <2>14. QED
    BY <2>4, <2>9, <2>10, <2>11, <2>12, <2>13
<1>3. ASSUME NEW p \in Publishers, NEW m \in Rows, SendAcked(p, m) \/ SendFailed(p, m)
      PROVE  IInv'
  <2> USE DEF TypeOK
  <2>0. m \in stored /\ UNCHANGED <<tableVars, overrun, stops>>
    BY <1>3 DEF SendAcked, SendFailed
  <2>1. TypeOK'
    <3>1. todo' \in [Publishers -> SUBSET stored]
      BY <1>3, <2>0 DEF SendAcked, SendFailed
    <3>2. sendOk' \in [Publishers -> SUBSET stored]
      BY <1>3, <2>0 DEF SendAcked, SendFailed
    <3>3. sendErr' \in [Publishers -> SUBSET stored]
      BY <1>3, <2>0 DEF SendAcked, SendFailed
    <3>4. delivered' \subseteq stored
      BY <1>3, <2>0 DEF SendAcked, SendFailed
    <3>5. QED
      BY <2>0, <3>1, <3>2, <3>3, <3>4 DEF tableVars
  <2>2. \A q \in Publishers : Held(q)' = Held(q)
    BY <1>3 DEF SendAcked, SendFailed, TypeOK, Held, ReadyToSend
  <2>3. LeaseExclusive' /\ HeldRowsPending'
    BY <1>3, <2>2 DEF SendAcked, SendFailed, LeaseExclusive, HeldRowsPending, tableVars
  <2>4. PublishedClean' /\ PublishedWasDelivered'
    BY <1>3 DEF SendAcked, SendFailed, PublishedClean, PublishedWasDelivered, tableVars
  <2>5. \A q \in Publishers :
          /\ (todo[q] \intersect (sendOk[q] \union sendErr[q]) = {})'
          /\ (sendOk[q] \intersect sendErr[q] = {})'
          /\ (sendOk[q] \subseteq delivered)'
    BY <1>3 DEF SendAcked, SendFailed, TypeOK, ReadyToSend
  <2>6. \A q \in Publishers : \A k \in (Held(q) \ overrun)' : (lease[k] > 0)'
    BY <1>3, <2>2 DEF SendAcked, SendFailed, tableVars
  <2>7. QED
    BY <2>1, <2>3, <2>4, <2>5, <2>6
<1>4. ASSUME NEW p \in Publishers, MarkPublished(p) \/ MarkFailed(p) PROVE IInv'
  <2>1. PICK m \in sendOk[p] \union sendErr[p] :
          /\ lease' = [lease EXCEPT ![m] = 0]
          /\ UNCHANGED <<stored, todo, delivered, overrun, stops>>
          /\ \/ /\ m \in sendOk[p]
                /\ published' = published \union {m}
                /\ lastError' = lastError \ {m}
                /\ sendOk' = [sendOk EXCEPT ![p] = {}]
                /\ UNCHANGED sendErr
             \/ /\ m \in sendErr[p]
                /\ published' = published
                /\ lastError' = lastError \union {m}
                /\ sendErr' = [sendErr EXCEPT ![p] = {}]
                /\ UNCHANGED sendOk
    BY <1>4 DEF MarkPublished, MarkFailed, Released
  <2>2. m \in stored /\ m \in Rows /\ m \in Held(p)
    BY DEF TypeOK, Held
  <2>3. TypeOK'
    <3>1. lease' \in [Rows -> 0..LockSeconds]
      BY <2>1, <2>2 DEF TypeOK
    <3>2. published' \subseteq stored /\ lastError' \subseteq stored
      BY <2>1, <2>2 DEF TypeOK
    <3>3. /\ sendOk' \in [Publishers -> SUBSET stored]
          /\ sendErr' \in [Publishers -> SUBSET stored]
      BY <2>1 DEF TypeOK
    <3>4. QED
      BY <2>1, <3>1, <3>2, <3>3 DEF TypeOK
  <2>4. \A q \in Publishers \ {p} : Held(q)' = Held(q)
    BY <2>1 DEF Held, TypeOK
  <2>5. Held(p)' \subseteq Held(p)
    BY <2>1 DEF Held, TypeOK
  <2>6. m \notin overrun => m \notin published /\ \A q \in Publishers \ {p} : m \notin Held(q)
    BY <2>2 DEF LeaseExclusive, HeldRowsPending
  <2>7. LeaseExclusive'
    BY <2>1, <2>4, <2>5 DEF LeaseExclusive
  <2>8. m \notin Held(p)'
    BY <2>1 DEF Held, TypeOK
  <2>9. m \notin overrun => \A q \in Publishers : m \notin Held(q)'
    BY <2>4, <2>6, <2>8
  <2>10. HeldRowsPending'
    BY <2>1, <2>4, <2>5, <2>9 DEF HeldRowsPending
  <2>11. PublishedClean'
    BY <2>1, <2>6 DEF PublishedClean
  <2>12. PublishedWasDelivered'
    BY <2>1 DEF PublishedWasDelivered
  <2>13. \A q \in Publishers :
           /\ (todo[q] \intersect (sendOk[q] \union sendErr[q]) = {})'
           /\ (sendOk[q] \intersect sendErr[q] = {})'
           /\ (sendOk[q] \subseteq delivered)'
    BY <2>1 DEF TypeOK
  <2>14. ASSUME NEW q \in Publishers, NEW k \in (Held(q) \ overrun)' PROVE (lease[k] > 0)'
    <3>1. k # m /\ k \in Held(q) \ overrun
      BY <2>1, <2>4, <2>5, <2>9
    <3>2. k \in Rows
      BY <3>1 DEF Held, TypeOK
    <3>3. lease[k] > 0
      BY <3>1
    <3>4. QED
      BY <2>1, <2>2, <3>1, <3>2, <3>3 DEF TypeOK
  <2>15. QED
    BY <2>3, <2>7, <2>10, <2>11, <2>12, <2>13, <2>14
<1>5. ASSUME NEW p \in Publishers, Stop(p) PROVE IInv'
  <2>1. /\ todo' = [todo EXCEPT ![p] = {}]
        /\ sendOk' = [sendOk EXCEPT ![p] = {}]
        /\ sendErr' = [sendErr EXCEPT ![p] = {}]
        /\ stops' \in 0..MaxStops
        /\ delivered \subseteq delivered'
        /\ UNCHANGED <<stored, published, lease, lastError, overrun>>
    <3>1. stops' \in 0..MaxStops
      BY <1>5 DEF Stop, TypeOK
    <3>2. delivered \subseteq delivered'
      BY <1>5 DEF Stop
    <3>3. QED
      BY <1>5, <3>1, <3>2 DEF Stop, tableVars
  <2>2. delivered' \subseteq stored
    <3>1. todo[p] \subseteq stored /\ delivered \subseteq stored
      BY DEF TypeOK
    <3>2. \/ UNCHANGED delivered
          \/ \E m \in todo[p] : delivered' = delivered \union {m}
      BY <1>5 DEF Stop
    <3>3. QED
      BY <3>1, <3>2
  <2>3. TypeOK'
    BY <2>1, <2>2 DEF TypeOK
  <2>4. \A q \in Publishers : Held(q)' \subseteq Held(q)
    BY <2>1 DEF Held, TypeOK
  <2>5. LeaseExclusive' /\ HeldRowsPending'
    BY <2>1, <2>4 DEF LeaseExclusive, HeldRowsPending
  <2>6. PublishedClean' /\ PublishedWasDelivered'
    BY <2>1 DEF PublishedClean, PublishedWasDelivered
  <2>7. \A q \in Publishers :
          /\ (todo[q] \intersect (sendOk[q] \union sendErr[q]) = {})'
          /\ (sendOk[q] \intersect sendErr[q] = {})'
          /\ (sendOk[q] \subseteq delivered)'
    BY <2>1 DEF TypeOK
  <2>8. \A q \in Publishers : \A k \in (Held(q) \ overrun)' : (lease[k] > 0)'
    BY <2>1, <2>4
  <2>9. QED
    BY <2>3, <2>5, <2>6, <2>7, <2>8
<1>6. ASSUME Tick PROVE IInv'
  <2>1. /\ lease' = [m \in Rows |-> IF lease[m] > 0 THEN lease[m] - 1 ELSE 0]
        /\ overrun' = overrun \union
             {m \in stored : lease[m] = 1 /\ \E p \in Publishers : m \in Held(p)}
        /\ UNCHANGED <<stored, published, lastError, todo, sendOk, sendErr, delivered, stops>>
    BY <1>6 DEF Tick, publisherVars
  <2>2. TypeOK'
    <3>1. lease' \in [Rows -> 0..LockSeconds]
      BY <2>1 DEF TypeOK
    <3>2. QED
      BY <2>1, <3>1 DEF TypeOK
  <2>3. \A q \in Publishers : Held(q)' = Held(q)
    BY <2>1 DEF Held
  <2>4. /\ LeaseExclusive' /\ HeldRowsPending'
        /\ PublishedClean' /\ PublishedWasDelivered'
    BY <2>1, <2>3 DEF LeaseExclusive, HeldRowsPending, PublishedClean, PublishedWasDelivered
  <2>5. ASSUME NEW q \in Publishers, NEW k \in (Held(q) \ overrun)' PROVE (lease[k] > 0)'
    <3>1. k \in Held(q) \ overrun /\ k \in stored /\ k \in Rows
      BY <2>1, <2>3 DEF Held, TypeOK
    <3>2. lease[k] > 0 /\ lease[k] \in Nat
      BY <3>1 DEF TypeOK
    <3>3. lease[k] # 1
      BY <2>1, <2>3, <2>5, <3>1
    <3>4. QED
      BY <2>1, <3>1, <3>2, <3>3
  <2>6. QED
    BY <2>1, <2>2, <2>3, <2>4, <2>5
<1>7. CASE UNCHANGED vars
  <2> USE <1>7 DEF vars, tableVars, publisherVars
  <2>1. TypeOK'
    BY DEF TypeOK
  <2>2. \A q \in Publishers : Held(q)' = Held(q)
    BY DEF Held
  <2>3. QED
    BY <2>1, <2>2 DEF LeaseExclusive, HeldRowsPending, PublishedClean, PublishedWasDelivered
<1>8. QED
  BY <1>1, <1>2, <1>3, <1>4, <1>5, <1>6, <1>7 DEF Next

\* The inductive invariant holds in every reachable state.
THEOREM RelayInvariant == Spec => []IInv
BY InitIInv, NextIInv, PTL DEF Spec

\* Outbox state, leases and batches keep their types.
THEOREM RelayTypeOK == Spec => []TypeOK
BY RelayInvariant, PTL DEF IInv

\* Replicas never hold the same row while its lease runs.
THEOREM RelayLeaseExclusive == Spec => []LeaseExclusive
BY RelayInvariant, PTL DEF IInv

\* A published row is resent, or shows an error, only after a lease overrun.
THEOREM RelayMarksConsistent == Spec => []MarksConsistent
BY RelayInvariant, PTL DEF IInv, MarksConsistent

\* No row is marked published whose record never reached the topic.
THEOREM RelayPublishedWasDelivered == Spec => []PublishedWasDelivered
BY RelayInvariant, PTL DEF IInv

\* Every step of the relay is a step of the channel or invisible to it, so no
\* record is on the topic without its committed row and none disappears.
THEOREM RelayIsChannel == Spec => Topic!ChannelSafety
<1>1. Init => Topic!ChannelInit
  BY DEF Init, Topic!ChannelInit
<1>2. IInv /\ [Next]_vars => [Topic!ChannelNext]_<<stored, delivered>>
  <2> SUFFICES ASSUME IInv, [Next]_vars
               PROVE  [Topic!ChannelNext]_<<stored, delivered>>
    OBVIOUS
  <2> USE DEF Topic!ChannelNext
  <2>1. ASSUME NEW m \in Rows, Insert(m) PROVE Topic!Accept(m)
    BY <2>1 DEF Insert, Topic!Accept
  <2>2. ASSUME NEW m \in stored, UNCHANGED stored,
               delivered' \in {delivered, delivered \union {m}}
        PROVE  Topic!Deliver(m) \/ UNCHANGED <<stored, delivered>>
    BY <2>2 DEF Topic!Deliver
  <2>3. ASSUME NEW p \in Publishers, NEW m \in Rows, SendAcked(p, m) \/ SendFailed(p, m)
        PROVE  Topic!Deliver(m) \/ UNCHANGED <<stored, delivered>>
    <3>1. m \in stored /\ UNCHANGED stored
      BY <2>3 DEF SendAcked, SendFailed, IInv, TypeOK, tableVars
    <3>2. delivered' \in {delivered, delivered \union {m}}
      BY <2>3 DEF SendAcked, SendFailed
    <3>3. QED
      BY <2>2, <3>1, <3>2
  <2>4. ASSUME NEW p \in Publishers, Stop(p)
        PROVE  (\E m \in Rows : Topic!Deliver(m)) \/ UNCHANGED <<stored, delivered>>
    <3>1. UNCHANGED stored
      BY <2>4 DEF Stop, tableVars
    <3>2. CASE UNCHANGED delivered
      BY <3>1, <3>2
    <3>3. CASE \E m \in todo[p] : delivered' = delivered \union {m}
      <4>1. PICK m \in todo[p] : delivered' = delivered \union {m}
        BY <3>3
      <4>2. m \in stored /\ m \in Rows
        BY <4>1 DEF IInv, TypeOK
      <4>3. QED
        BY <2>2, <3>1, <4>1, <4>2
    <3>4. QED
      BY <2>4, <3>2, <3>3 DEF Stop
  <2>5. ASSUME NEW p \in Publishers, ListUnpublished(p) \/ MarkPublished(p) \/ MarkFailed(p)
        PROVE  UNCHANGED <<stored, delivered>>
    BY <2>5 DEF ListUnpublished, MarkPublished, MarkFailed
  <2>6. ASSUME Tick PROVE UNCHANGED <<stored, delivered>>
    BY <2>6 DEF Tick
  <2>7. CASE UNCHANGED vars
    BY <2>7 DEF vars, tableVars
  <2>8. QED
    BY <2>1, <2>3, <2>4, <2>5, <2>6, <2>7 DEF Next
<1>3. QED
  BY <1>1, <1>2, RelayInvariant, PTL DEF Spec, Topic!ChannelSafety, Topic!channelVars
=============================================================================
