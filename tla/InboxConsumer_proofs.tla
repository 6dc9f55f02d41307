------------------------ MODULE InboxConsumer_proofs ------------------------
(***************************************************************************)
(* The safety of the consume loop for any number of messages, replicas,    *)
(* records, crashes and rebalances; and that it implements the safety half *)
(* of Channel.                                                             *)
(***************************************************************************)
EXTENDS InboxConsumer, TLAPS

\* Appending a record changes no earlier record.
LEMMA AppendKeepsRecords ==
  ASSUME NEW m \in Messages, log \in Seq(Messages), log' = Append(log, m)
  PROVE  /\ log' \in Seq(Messages)
         /\ Len(log') = Len(log) + 1
         /\ \A i \in 1..Len(log) : log'[i] = log[i]
         /\ log'[Len(log) + 1] = m
OBVIOUS

\* Nothing is consumed in the initial state.
LEMMA InitIInv == Init => IInv
<1> SUFFICES ASSUME Init PROVE IInv
  OBVIOUS
<1> USE ConsumerAssumption DEF Init
<1>1. TypeOK
  BY DEF TypeOK
<1>2. CommittedIsDone /\ AppliedOnce /\ inbox \subseteq Logged
  BY DEF CommittedIsDone, AppliedOnce, Logged
<1>3. \A w \in Workers : WorkerClaims(w)
  BY DEF WorkerClaims
<1>4. QED
  BY <1>1, <1>2, <1>3 DEF IInv

\* A step that leaves the log alone and takes nothing from the inbox keeps
\* every record done that was done.
LEMMA DoneStays ==
  ASSUME NEW i \in Nat, Done(i), log'[i] = log[i], inbox \subseteq inbox'
  PROVE  Done(i)'
BY DEF Done

\* A worker whose own state is unchanged can still make all its claims.
LEMMA ClaimsStay ==
  ASSUME TypeOK, NEW w \in Workers, WorkerClaims(w),
         \A i \in 1..Len(log) : log'[i] = log[i],
         inbox \subseteq inbox',
         phase'[w] = phase[w], current'[w] = current[w],
         position'[w] = position[w],
         requested'[w] \in {0, requested[w]},
         owner' = w => owner = w
  PROVE  WorkerClaims(w)'
<1>1. \A i \in 1..Len(log) : Done(i) => Done(i)'
  BY DoneStays
<1>2. /\ current[w] \in 0..Len(log) /\ position[w] \in 0..Len(log)
      /\ requested[w] \in 0..Len(log) /\ Len(log) \in Nat
  BY DEF TypeOK
<1>3. /\ \A i \in 1..(current[w] - 1) : i \in 1..Len(log)
      /\ \A i \in 1..requested[w] : i \in 1..Len(log)
      /\ \A i \in 1..position[w] : i \in 1..Len(log)
      /\ current[w] > 0 => current[w] \in 1..Len(log)
  BY <1>2
<1>4. phase'[w] # "recv" => current'[w] > 0 /\ \A i \in 1..(current'[w] - 1) : Done(i)'
  BY <1>1, <1>3 DEF WorkerClaims
<1>5. phase'[w] = "handle" => log'[current'[w]] \notin Poison
  BY <1>3 DEF WorkerClaims
<1>6. phase'[w] = "commit" => Done(current[w])'
  BY <1>1, <1>3 DEF WorkerClaims
<1>7. \A i \in 1..requested'[w] : Done(i)'
  BY <1>1, <1>3 DEF WorkerClaims
<1>8. owner' = w => \A i \in 1..position'[w] :
                      Done(i)' \/ (phase'[w] = "handle" /\ i = current'[w])
  BY <1>1, <1>3 DEF WorkerClaims
<1>9. QED
  BY <1>4, <1>5, <1>6, <1>7, <1>8 DEF WorkerClaims, Done

\* Every step of the consume loop keeps the inductive invariant.
LEMMA NextIInv == IInv /\ [Next]_vars => IInv'
<1> SUFFICES ASSUME IInv, [Next]_vars PROVE IInv'
  OBVIOUS
<1> USE ConsumerAssumption
<1>0. /\ TypeOK /\ CommittedIsDone /\ AppliedOnce /\ inbox \subseteq Logged
      /\ \A w \in Workers : WorkerClaims(w)
  BY DEF IInv
<1>t. /\ log \in Seq(Messages) /\ Len(log) \in Nat /\ committed \in 0..Len(log)
      /\ \A w \in Workers : /\ position[w] \in 0..Len(log) /\ current[w] \in 0..Len(log)
                            /\ requested[w] \in 0..Len(log)
  BY <1>0 DEF TypeOK
<1>1. ASSUME NEW m \in Messages, Produce(m) PROVE IInv'
  <2> USE <1>1 DEF Produce, groupVars, workerVars, tableVars
  <2>1. /\ log' \in Seq(Messages) /\ Len(log') = Len(log) + 1
        /\ \A i \in 1..Len(log) : log'[i] = log[i]
    BY <1>t, AppendKeepsRecords
  <2>2. TypeOK'
    BY <1>0, <1>t, <2>1 DEF TypeOK
  <2>3. CommittedIsDone'
    BY <1>0, <1>t, <2>1 DEF CommittedIsDone, Done
  <2>4. AppliedOnce'
    BY <1>0 DEF AppliedOnce
  <2>5. (inbox \subseteq Logged)'
    <3>1. Logged \subseteq Logged'
      BY <1>t, <2>1 DEF Logged
    <3>2. QED
      BY <1>0, <3>1
  <2>6. \A w \in Workers : WorkerClaims(w)'
    BY <1>0, <2>1, ClaimsStay
  <2>7. QED
    BY <2>2, <2>3, <2>4, <2>5, <2>6 DEF IInv
<1>2. ASSUME NEW w \in Workers, Assign(w) PROVE IInv'
  <2> USE <1>2 DEF Assign, workerVars, tableVars, StartOffset
  <2>1. TypeOK'
    BY <1>0, <1>t DEF TypeOK
  <2>2. CommittedIsDone' /\ AppliedOnce' /\ (inbox \subseteq Logged)'
    BY <1>0 DEF CommittedIsDone, AppliedOnce, Logged, Done
  <2>3. ASSUME NEW v \in Workers PROVE WorkerClaims(v)'
    <3>1. CASE v # w
      BY <1>0, <3>1, ClaimsStay DEF TypeOK
    <3>2. CASE v = w
      <4>1. \A i \in 1..position'[w] : Done(i)'
        BY <1>0 DEF TypeOK, CommittedIsDone, Done
      <4>2. requested'[w] = 0
        BY <1>0
      <4>3. QED
        BY <1>0, <3>2, <4>1, <4>2 DEF WorkerClaims, Done
    <3>3. QED
      BY <3>1, <3>2
  <2>4. QED
    BY <2>1, <2>2, <2>3 DEF IInv
<1>3. ASSUME NEW w \in Workers, Recv(w) PROVE IInv'
  <2> USE <1>3 DEF Recv, tableVars
  <2>1. PICK i0 \in 1..Len(log) : i0 = position[w] + 1
    BY <1>t
  <2>2. /\ position' = [position EXCEPT ![w] = i0]
        /\ current' = [current EXCEPT ![w] = i0]
        /\ phase' = [phase EXCEPT ![w] = AfterRecv(i0)]
        /\ UNCHANGED <<log, committed, owner, requested, inbox, applied, disturbances>>
    BY <1>0, <2>1 DEF TypeOK
  <2>3. TypeOK'
    BY <1>0, <2>1, <2>2 DEF TypeOK, AfterRecv
  <2>4. CommittedIsDone' /\ AppliedOnce' /\ (inbox \subseteq Logged)'
    BY <1>0, <2>2 DEF CommittedIsDone, AppliedOnce, Logged, Done
  <2>5. ASSUME NEW v \in Workers PROVE WorkerClaims(v)'
    <3>1. CASE v # w
      BY <1>0, <2>2, <3>1, ClaimsStay DEF TypeOK
    <3>2. CASE v = w
      <4>1. \A i \in 1..(i0 - 1) : Done(i)
        BY <1>0, <1>t, <2>1 DEF WorkerClaims
      <4>2. current'[w] = i0 /\ position'[w] = i0 /\ phase'[w] = AfterRecv(i0)
        BY <1>0, <2>2 DEF TypeOK
      <4>3. \A i \in 1..Len(log) : Done(i)' <=> Done(i)
        BY <2>2 DEF Done
      <4>4. \A i \in 1..(i0 - 1) : Done(i)'
        BY <2>1, <4>1, <4>3
      <4>5. AfterRecv(i0) = "handle" => log[i0] \notin Poison
        BY DEF AfterRecv
      <4>6. AfterRecv(i0) = "commit" => Done(i0)'
        BY <2>2 DEF AfterRecv, Done
      <4>7. \A i \in 1..requested'[w] : Done(i)'
        BY <1>0, <1>t, <2>2, <4>3 DEF WorkerClaims
      <4>8. \A i \in 1..i0 : Done(i)' \/ (phase'[w] = "handle" /\ i = i0)
        <5>1. \A i \in 1..i0 : i \in 1..(i0 - 1) \/ i = i0
          BY <2>1
        <5>2. Done(i0)' \/ phase'[w] = "handle"
          BY <4>2, <4>6 DEF AfterRecv
        <5>3. QED
          BY <4>4, <5>1, <5>2
      <4>9. i0 > 0
        BY <2>1
      <4>10. phase'[w] = "handle" => log'[current'[w]] \notin Poison
        BY <2>2, <4>2, <4>5
      <4>11. phase'[w] = "commit" => Done(current[w])'
        BY <4>2, <4>6 DEF Done
      <4>12. QED
        BY <3>2, <4>2, <4>4, <4>7, <4>8, <4>9, <4>10, <4>11 DEF WorkerClaims
    <3>3. QED
      BY <3>1, <3>2
  <2>6. QED
    BY <2>3, <2>4, <2>5 DEF IInv
<1>4. ASSUME NEW w \in Workers, Handle(w) PROVE IInv'
  <2> USE <1>4 DEF Handle, groupVars
  <2> DEFINE m == log[current[w]]
  <2>1. current[w] \in 1..Len(log) /\ m \in Messages /\ m \notin Poison
    BY <1>0, <1>t DEF WorkerClaims
  <2>2. ApplyOnce(m)
    OBVIOUS
  <2> HIDE DEF m
  <2>3. inbox' = inbox \union {m} /\ applied' \in [Messages -> Nat] /\ AppliedOnce'
    BY <1>0, <2>1, <2>2 DEF ApplyOnce, AppliedOnce, TypeOK, tableVars
  <2>4. TypeOK'
    BY <1>0, <2>1, <2>3 DEF TypeOK
  <2>5. \A i \in 1..Len(log) : Done(i) => Done(i)'
    BY <2>3 DEF Done
  <2>6. CommittedIsDone'
    BY <1>0, <1>t, <2>5 DEF CommittedIsDone
  <2>7. (inbox \subseteq Logged)'
    BY <1>0, <2>1, <2>3 DEF Logged, m
  <2>8. ASSUME NEW v \in Workers PROVE WorkerClaims(v)'
    <3>1. CASE v # w
      BY <1>0, <2>3, <3>1, ClaimsStay DEF TypeOK
    <3>2. CASE v = w
      <4>1. phase'[w] = "commit" /\ current'[w] = current[w]
        BY <1>0 DEF TypeOK
      <4>2. Done(current[w])'
        BY <2>3, <4>1 DEF Done, m
      <4>3. \A i \in 1..(current[w] - 1) : Done(i)'
        BY <1>0, <1>t, <2>5 DEF WorkerClaims
      <4>4. \A i \in 1..requested[w] : Done(i)'
        BY <1>0, <1>t, <2>5 DEF WorkerClaims
      <4>5. owner = w => \A i \in 1..position[w] : Done(i)'
        <5>1. \A i \in 1..Len(log) : i = current[w] => Done(i)'
          BY <4>1, <4>2 DEF Done
        <5>2. QED
          BY <1>0, <1>t, <2>5, <5>1 DEF WorkerClaims
      <4>6. QED
        BY <2>1, <3>2, <4>1, <4>2, <4>3, <4>4, <4>5 DEF WorkerClaims
    <3>3. QED
      BY <3>1, <3>2
  <2>9. QED
    BY <2>3, <2>4, <2>6, <2>7, <2>8 DEF IInv
<1>5. ASSUME NEW w \in Workers, RequestCommit(w) PROVE IInv'
  <2> USE <1>5 DEF RequestCommit, tableVars, OffsetAfter
  <2>1. TypeOK'
    BY <1>0, <1>t DEF TypeOK
  <2>2. CommittedIsDone' /\ AppliedOnce' /\ (inbox \subseteq Logged)'
    BY <1>0 DEF CommittedIsDone, AppliedOnce, Logged, Done
  <2>3. ASSUME NEW v \in Workers PROVE WorkerClaims(v)'
    <3>1. CASE v # w
      BY <1>0, <3>1, ClaimsStay DEF TypeOK
    <3>2. CASE v = w
      <4>1. /\ phase'[w] = "recv" /\ requested'[w] \in {requested[w], current[w]}
        BY <1>0 DEF TypeOK
      <4>2. \A i \in 1..current[w] : Done(i)
        BY <1>0, <1>t DEF WorkerClaims, Done
      <4>3. \A i \in 1..requested'[w] : Done(i)'
        BY <1>0, <1>t, <4>1, <4>2 DEF WorkerClaims, Done
      <4>4. owner = w => \A i \in 1..position[w] : Done(i)'
        BY <1>0, <1>t DEF WorkerClaims, Done
      <4>5. QED
        BY <3>2, <4>1, <4>3, <4>4 DEF WorkerClaims
    <3>3. QED
      BY <3>1, <3>2
  <2>4. QED
    BY <2>1, <2>2, <2>3 DEF IInv
<1>6. ASSUME NEW w \in Workers, CommitArrives(w) PROVE IInv'
  <2> USE <1>6 DEF CommitArrives, workerVars, tableVars
  <2>1. TypeOK'
    BY <1>0, <1>t DEF TypeOK
  <2>2. CommittedIsDone'
    BY <1>0, <1>t DEF CommittedIsDone, WorkerClaims, Done
  <2>3. AppliedOnce' /\ (inbox \subseteq Logged)'
    BY <1>0 DEF AppliedOnce, Logged
  <2>4. \A v \in Workers : WorkerClaims(v)'
    <3>1. \A v \in Workers : requested'[v] \in {0, requested[v]}
      BY <1>0 DEF TypeOK
    <3>2. QED
      BY <1>0, <3>1, ClaimsStay
  <2>5. QED
    BY <2>1, <2>2, <2>3, <2>4 DEF IInv
<1>7. ASSUME NEW w \in Workers, Crash(w) PROVE IInv'
  <2> USE <1>7 DEF Crash, tableVars
  <2>1. TypeOK'
    BY <1>0, <1>t DEF TypeOK
  <2>2. CommittedIsDone' /\ AppliedOnce' /\ (inbox \subseteq Logged)'
    BY <1>0 DEF CommittedIsDone, AppliedOnce, Logged, Done
  <2>3. ASSUME NEW v \in Workers PROVE WorkerClaims(v)'
    <3>1. CASE v # w
      BY <1>0, <3>1, ClaimsStay DEF TypeOK
    <3>2. CASE v = w
      <4>1. phase'[w] = "recv" /\ requested'[w] = 0 /\ owner' # w
        BY <1>0 DEF TypeOK
      <4>2. QED
        BY <3>2, <4>1 DEF WorkerClaims
    <3>3. QED
      BY <3>1, <3>2
  <2>4. QED
    BY <2>1, <2>2, <2>3 DEF IInv
<1>8. CASE UNCHANGED vars
  <2> USE <1>8 DEF vars, groupVars, workerVars, tableVars
  <2>1. TypeOK'
    BY <1>0 DEF TypeOK
  <2>2. CommittedIsDone' /\ AppliedOnce' /\ (inbox \subseteq Logged)'
    BY <1>0 DEF CommittedIsDone, AppliedOnce, Logged, Done
  <2>3. \A w \in Workers : WorkerClaims(w)'
    BY <1>0, ClaimsStay
  <2>4. QED
    BY <2>1, <2>2, <2>3 DEF IInv
<1>9. QED
  BY <1>1, <1>2, <1>3, <1>4, <1>5, <1>6, <1>7, <1>8 DEF Next, RecvError

\* The inductive invariant holds in every reachable state.
THEOREM ConsumerInvariant == Spec => []IInv
BY InitIInv, NextIInv, PTL DEF Spec

\* Log, offsets and inbox keep their types.
THEOREM ConsumerTypeOK == Spec => []TypeOK
BY ConsumerInvariant, PTL DEF IInv

\* The committed offset never passes a record that is not done.
THEOREM ConsumerLosesNothing == Spec => []CommittedIsDone
BY ConsumerInvariant, PTL DEF IInv

\* A message's effect is made once, however often its record is delivered.
THEOREM ConsumerAppliesOnce == Spec => []AppliedOnce
BY ConsumerInvariant, PTL DEF IInv

\* Every step of the consumer is a step of the channel or invisible to it.
THEOREM ConsumerIsChannel == Spec => Consumer!ChannelSafety
<1>1. Init => Consumer!ChannelInit
  BY DEF Init, Consumer!ChannelInit, Logged
<1>2. IInv /\ [Next]_vars => [Consumer!ChannelNext]_<<Logged, inbox>>
  <2> SUFFICES ASSUME IInv, [Next]_vars
               PROVE  [Consumer!ChannelNext]_<<Logged, inbox>>
    OBVIOUS
  <2> USE DEF Consumer!ChannelNext
  <2>t. TypeOK
    BY DEF IInv
  <2>1. ASSUME NEW m \in Messages, Produce(m)
        PROVE  Consumer!Accept(m) \/ UNCHANGED <<Logged, inbox>>
    <3>1. /\ Len(log') = Len(log) + 1 /\ log'[Len(log) + 1] = m /\ Len(log) \in Nat
          /\ \A i \in 1..Len(log) : log'[i] = log[i]
      BY <2>1, <2>t, AppendKeepsRecords DEF Produce, TypeOK
    <3>2. Logged' = Logged \union {m}
      <4>1. \A i \in 1..Len(log') : i \in 1..Len(log) \/ i = Len(log) + 1
        BY <3>1
      <4>2. /\ \A i \in 1..Len(log) : i \in 1..Len(log')
            /\ Len(log) + 1 \in 1..Len(log')
        BY <3>1
      <4>3. QED
        BY <3>1, <4>1, <4>2 DEF Logged
    <3>3. inbox' = inbox
      BY <2>1 DEF Produce, tableVars
    <3>4. QED
      BY <3>2, <3>3 DEF Consumer!Accept
  <2>2. ASSUME NEW w \in Workers, Handle(w)
        PROVE  (\E m \in Messages : Consumer!Deliver(m)) \/ UNCHANGED <<Logged, inbox>>
    <3> DEFINE m == log[current[w]]
    <3>1. current[w] \in 1..Len(log) /\ m \in Messages /\ m \in Logged
      <4>1. phase[w] = "handle" /\ WorkerClaims(w) /\ log \in Seq(Messages)
        BY <2>2, <2>t DEF IInv, Handle, TypeOK
      <4>2. current[w] \in 1..Len(log)
        BY <2>t, <4>1 DEF WorkerClaims, TypeOK
      <4>3. QED
        BY <4>1, <4>2 DEF Logged
    <3>2. Logged' = Logged
      BY <2>2 DEF Handle, Logged
    <3>3. ApplyOnce(m)
      BY <2>2 DEF Handle
    <3> HIDE DEF m
    <3>4. QED
      BY <3>1, <3>2, <3>3 DEF ApplyOnce, tableVars, Consumer!Deliver
  <2>3. ASSUME NEW w \in Workers,
               \/ Assign(w) \/ Recv(w) \/ RequestCommit(w)
               \/ CommitArrives(w) \/ Crash(w)
        PROVE  UNCHANGED <<Logged, inbox>>
    <3>1. UNCHANGED <<log, inbox>>
      BY <2>3 DEF Assign, Recv, RequestCommit, CommitArrives, Crash, tableVars
    <3>2. QED
      BY <3>1 DEF Logged
  <2>4. CASE UNCHANGED vars
    BY <2>4 DEF vars, tableVars, Logged
  <2>5. QED
    BY <2>1, <2>2, <2>3, <2>4 DEF Next, RecvError
<1>3. QED
  BY <1>1, <1>2, ConsumerInvariant, PTL
     DEF Spec, Consumer!ChannelSafety, Consumer!channelVars
=============================================================================
