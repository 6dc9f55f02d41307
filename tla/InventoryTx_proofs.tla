------------------------- MODULE InventoryTx_proofs -------------------------
(***************************************************************************)
(* For any orders, SKUs, quantities, replicas and failures, the statements *)
(* of the inventory transaction amount to one step at COMMIT.              *)
(***************************************************************************)
EXTENDS InventoryTx, TLAPS

\* What the constants are.
LEMMA TxConstants ==
  /\ \A o \in Orders : SkuOf[o] \in Skus /\ QtyOf[o] \in Nat /\ QtyOf[o] > 0
  /\ InitialStock \in [Skus -> Nat \union {Absent}]
  /\ Absent \notin Int
  /\ MaxRollbacks \in Nat
BY TxAssumption

\* An open transaction is a record of the fields below, and Idle is none.
LEMMA OpenFields ==
  ASSUME TypeOK, NEW w \in Workers, tx[w] # Idle
  PROVE  /\ tx[w] \in Open
         /\ tx[w].step \in Steps /\ tx[w].order \in Orders
         /\ tx[w].simulated \in BOOLEAN /\ tx[w].rows \in {0, 1}
BY DEF TypeOK, Open

\* Only an open transaction has finished a statement.
LEMMA StepIsOpen ==
  ASSUME NEW w \in Workers, tx[w].step \in Steps
  PROVE  tx[w] # Idle
BY DEF Idle, Steps

\* A transaction that has changed a row has inserted its inbox row.
LEMMA UpdateAfterInbox ==
  ASSUME NEW w \in Workers, PastUpdate(w)
  PROVE  PastInbox(w) /\ tx[w] # Idle
<1>1. tx[w].step \in Steps \ {"begun"}
  BY DEF PastUpdate, Steps
<1>2. QED
  BY <1>1, StepIsOpen DEF PastInbox

\* The result of a transaction is a row of the outbox.
LEMMA OutcomeFields ==
  ASSUME NEW t \in Open
  PROVE  OutcomeOf(t) \in Result /\ OutcomeOf(t).order = t.order
BY DEF OutcomeOf, Result, Reasons, Open

\* With empty tables and no transaction open, the invariant holds.
LEMMA InitInvariant == Init => IInv
<1> SUFFICES ASSUME Init PROVE IInv
  OBVIOUS
<1>1. TypeOK
  BY TxConstants DEF Init, TypeOK
<1>2. OneResultPerOrder
  BY DEF Init, OneResultPerOrder
<1>3. LocksExclusive /\ DenialStands /\ BeforeUpdate
  BY DEF Init, LocksExclusive, DenialStands, BeforeUpdate, At, PastInbox, PastUpdate, Idle, Steps
<1>4. QED
  BY <1>1, <1>2, <1>3 DEF IInv

\* A transaction that moves on to a statement without a lock of its own keeps
\* what the others rely on.
LEMMA QuietStep ==
  ASSUME IInv, NEW w \in Workers, NEW t,
         t \in Open \union {Idle},
         tx' = [tx EXCEPT ![w] = t],
         UNCHANGED <<tables, flagged>>, rollbacks' \in 0..MaxRollbacks,
         t.step \in Steps \ {"begun"} => PastInbox(w) /\ t.order = tx[w].order,
         ~(t.step \in {"updated", "written"} /\ t.rows = 1)
            \/ (PastUpdate(w) /\ t.order = tx[w].order /\ t.simulated = tx[w].simulated),
         t.step \in {"updated", "written"} /\ t.rows = 0 => t.simulated \/ ~Suffices(t.order),
         t # Idle /\ t.simulated => t.order \in flagged,
         t.step \in {"begun", "new", "loaded", "found"} => t.rows = 0,
         t.step = "found" => ~t.simulated
  PROVE  IInv'
<1>1. TypeOK'
  BY DEF IInv, TypeOK, tables
<1>2. OneResultPerOrder'
  BY DEF IInv, OneResultPerOrder, tables
<1>3. /\ \A v \in Workers \ {w} : tx'[v] = tx[v]
      /\ tx'[w] = t
  BY DEF IInv, TypeOK
<1>4. \A v \in Workers : PastInbox(v)' => PastInbox(v) /\ tx'[v].order = tx[v].order
  BY <1>3 DEF PastInbox
<1>5. \A v \in Workers : PastUpdate(v)' =>
        PastUpdate(v) /\ tx'[v].order = tx[v].order /\ tx'[v].simulated = tx[v].simulated
  BY <1>3 DEF PastUpdate
<1>6. LocksExclusive'
  BY <1>4, <1>5 DEF IInv, LocksExclusive, Suffices, tables
<1>7. DenialStands'
  BY <1>3 DEF IInv, DenialStands, Suffices, tables
<1>8. BeforeUpdate'
  BY <1>3 DEF IInv, BeforeUpdate, At
<1>9. QED
  BY <1>1, <1>2, <1>6, <1>7, <1>8 DEF IInv

\* The row of a transaction that has changed it is what COMMIT subtracts, and
\* no other row is touched.
LEMMA StockAfterCommit ==
  ASSUME IInv, NEW w \in Workers, At(w, "written")
  PROVE  /\ StockWith(tx[w]) \in [Skus -> Nat \union {Absent}]
         /\ \A s \in Skus : (stock[s] = Absent) <=> (StockWith(tx[w])[s] = Absent)
         /\ \A s \in Skus : stock[s] # Absent => StockWith(tx[w])[s] <= stock[s]
         /\ \A s \in Skus : (tx[w].rows = 0 \/ s # SkuOf[tx[w].order]) => StockWith(tx[w])[s] = stock[s]
<1>1. /\ tx[w] # Idle /\ tx[w].order \in Orders /\ tx[w].rows \in {0, 1}
      /\ stock \in [Skus -> Nat \union {Absent}]
  BY OpenFields, StepIsOpen DEF IInv, At, Steps, TypeOK
<1>2. CASE tx[w].rows = 0
  BY <1>1, <1>2, TxConstants DEF StockWith
<1>3. CASE tx[w].rows = 1
  <2> DEFINE s0 == SkuOf[tx[w].order]
             q  == QtyOf[tx[w].order]
  <2>1. s0 \in Skus /\ q \in Nat
    BY <1>1, TxConstants
  <2>2. Suffices(tx[w].order)
    BY <1>3 DEF IInv, LocksExclusive, PastUpdate, At
  <2>3. stock[s0] \in Nat /\ stock[s0] - q \in Nat /\ stock[s0] - q <= stock[s0]
    BY <1>1, <2>1, <2>2, TxConstants DEF Suffices
  <2>4. StockWith(tx[w]) = [stock EXCEPT ![s0] = stock[s0] - q]
    BY <1>3 DEF StockWith
  <2> HIDE DEF s0, q
  <2>5. /\ StockWith(tx[w]) \in [Skus -> Nat \union {Absent}]
        /\ \A s \in Skus : s # s0 => StockWith(tx[w])[s] = stock[s]
        /\ StockWith(tx[w])[s0] = stock[s0] - q
    BY <1>1, <2>1, <2>3, <2>4
  <2>6. \A s \in Skus : stock[s] # Absent => StockWith(tx[w])[s] <= stock[s]
    BY <1>1, <2>1, <2>3, <2>5
  <2>7. \A s \in Skus : (stock[s] = Absent) <=> (StockWith(tx[w])[s] = Absent)
    BY <1>1, <2>1, <2>3, <2>5, TxConstants
  <2>8. QED
    BY <1>3, <2>5, <2>6, <2>7 DEF s0
<1>4. QED
  BY <1>1, <1>2, <1>3

\* The condition of the UPDATE on the rows as they will be.
SufficesThen(o) == stock'[SkuOf[o]] # Absent /\ stock'[SkuOf[o]] >= QtyOf[o]

\* COMMIT of one transaction changes the condition of the others only for the worse,
\* and not at all for those that changed a row of their own.
LEMMA CommitAndOthers ==
  ASSUME IInv, NEW w \in Workers, At(w, "written"), stock' = StockWith(tx[w]),
         NEW v \in Workers, v # w, tx[v] # Idle
  PROVE  /\ ~Suffices(tx[v].order) => ~SufficesThen(tx[v].order)
         /\ PastUpdate(v) => SufficesThen(tx[v].order)
<1> DEFINE s == SkuOf[tx[v].order]
<1>1. s \in Skus /\ QtyOf[tx[v].order] \in Nat
  BY OpenFields, TxConstants DEF IInv
<1>2. /\ stock[s] \in Nat \union {Absent} /\ stock'[s] \in Nat \union {Absent}
      /\ (stock[s] = Absent) <=> (stock'[s] = Absent)
      /\ stock[s] # Absent => stock'[s] <= stock[s]
  BY <1>1, StockAfterCommit DEF IInv, TypeOK
<1>3. ~Suffices(tx[v].order) => ~SufficesThen(tx[v].order)
  BY <1>1, <1>2, TxConstants DEF Suffices, SufficesThen
<1>4. ASSUME PastUpdate(v) PROVE SufficesThen(tx[v].order)
  <2>1. Suffices(tx[v].order)
    BY <1>4 DEF IInv, LocksExclusive
  <2>2. tx[w].rows = 0 \/ s # SkuOf[tx[w].order]
    <3>1. tx[w].rows = 1 => PastUpdate(w)
      BY DEF At, PastUpdate
    <3>2. tx[w].rows \in {0, 1}
      BY OpenFields, StepIsOpen DEF IInv, At, Steps
    <3>3. QED
      BY <1>4, <3>1, <3>2 DEF IInv, LocksExclusive
  <2>3. stock'[s] = stock[s]
    BY <1>1, <2>2, StockAfterCommit
  <2>4. QED
    BY <2>1, <2>3 DEF Suffices, SufficesThen
<1>5. QED
  BY <1>3, <1>4

\* COMMIT shows one result for an order that had none, and subtracts what the
\* locked row still has.
LEMMA CommitKeepsInvariant ==
  ASSUME IInv, NEW w \in Workers, Commit(w)
  PROVE  IInv'
<1> DEFINE o == tx[w].order
<1>1. /\ At(w, "written")
      /\ stock' = StockWith(tx[w])
      /\ inbox' = inbox \union {o}
      /\ outbox' = Append(outbox, OutcomeOf(tx[w]))
      /\ tx' = [tx EXCEPT ![w] = Idle]
      /\ UNCHANGED <<flagged, rollbacks>>
  BY DEF Commit
<1>2. PastInbox(w) /\ tx[w] # Idle /\ tx[w] \in Open /\ o \in Orders
  BY <1>1, OpenFields, StepIsOpen DEF IInv, At, Steps, PastInbox
<1>3. o \notin inbox
  BY <1>2 DEF IInv, LocksExclusive
<1>4. /\ tx'[w] = Idle
      /\ \A v \in Workers \ {w} : tx'[v] = tx[v]
  BY <1>1 DEF IInv, TypeOK
<1>5. Idle.step \notin Steps /\ Idle.step # "written" /\ Idle.step # "updated"
  BY DEF Idle, Steps
<1>6. TypeOK'
  <2>1. stock' \in [Skus -> Nat \union {Absent}]
    BY <1>1, StockAfterCommit
  <2>2. outbox' \in Seq(Result)
    BY <1>1, <1>2, OutcomeFields DEF IInv, TypeOK
  <2>3. QED
    BY <1>1, <1>2, <2>1, <2>2 DEF IInv, TypeOK
<1>7. OneResultPerOrder'
  <2>1. /\ Len(outbox) \in Nat /\ Len(outbox') = Len(outbox) + 1
        /\ \A i \in 1..Len(outbox) : outbox'[i] = outbox[i]
        /\ outbox'[Len(outbox) + 1].order = o
    BY <1>1, <1>2, OutcomeFields DEF IInv, TypeOK
  <2>2. \A i \in 1..Len(outbox') : i \in 1..Len(outbox) \/ i = Len(outbox) + 1
    BY <2>1
  <2>3. \A i \in 1..Len(outbox) : outbox[i].order # o
    BY <1>3 DEF IInv, OneResultPerOrder
  <2>4. \A i, j \in 1..Len(outbox') : outbox'[i].order = outbox'[j].order => i = j
    BY <2>1, <2>2, <2>3 DEF IInv, OneResultPerOrder
  <2>5. 1..Len(outbox') = 1..Len(outbox) \union {Len(outbox) + 1}
    BY <2>1
  <2>6. {outbox'[i].order : i \in 1..Len(outbox')} = {outbox[i].order : i \in 1..Len(outbox)} \union {o}
    BY <2>1, <2>5
  <2>7. QED
    BY <1>1, <2>4, <2>6 DEF IInv, OneResultPerOrder
<1>8. LocksExclusive'
  <2>1. \A x \in Workers : PastInbox(x)' => x # w /\ tx'[x] = tx[x] /\ PastInbox(x)
    BY <1>4, <1>5 DEF PastInbox
  <2>2. \A x \in Workers : PastUpdate(x)' => x # w /\ tx'[x] = tx[x] /\ PastUpdate(x)
    BY <1>4, <1>5 DEF PastUpdate
  <2>3. \A v \in Workers : PastInbox(v)' => tx'[v].order \notin inbox'
    BY <1>1, <1>2, <2>1 DEF IInv, LocksExclusive
  <2>4. \A v \in Workers : PastUpdate(v)' => SufficesThen(tx'[v].order)
    BY <1>1, <2>2, UpdateAfterInbox, CommitAndOthers
  <2>5. QED
    BY <2>1, <2>2, <2>3, <2>4 DEF IInv, LocksExclusive, Suffices, SufficesThen
<1>9. DenialStands'
  <2>1. ASSUME NEW v \in Workers, v # w, tx[v].step \in {"updated", "written"}, tx[v].rows = 0
        PROVE  tx[v].simulated \/ ~SufficesThen(tx[v].order)
    <3>1. tx[v] # Idle
      BY <2>1, StepIsOpen DEF Steps
    <3>2. QED
      BY <1>1, <2>1, <3>1, CommitAndOthers DEF IInv, DenialStands
  <2>2. QED
    BY <1>1, <1>4, <1>5, <2>1 DEF IInv, DenialStands, Suffices, SufficesThen
<1>10. BeforeUpdate'
  BY <1>4 DEF IInv, BeforeUpdate, At, Idle
<1>11. QED
  BY <1>6, <1>7, <1>8, <1>9, <1>10 DEF IInv

\* The INSERT into the inbox finds the key free in the committed rows and in
\* every open transaction.
LEMMA InsertKeepsInvariant ==
  ASSUME IInv, NEW w \in Workers, InsertInbox(w)
  PROVE  IInv'
<1>1. /\ tx[w].step = "begun" /\ tx[w].order \notin inbox
      /\ \A v \in Workers \ {w} : ~(PastInbox(v) /\ tx[v].order = tx[w].order)
      /\ tx' = [tx EXCEPT ![w].step = "new"]
      /\ UNCHANGED <<tables, flagged, rollbacks>>
  BY DEF InsertInbox, At, InboxHeld
<1>2. tx[w] # Idle /\ tx[w] \in Open
  BY <1>1, StepIsOpen, OpenFields DEF IInv, Steps
<1>3. /\ tx'[w] = [tx[w] EXCEPT !.step = "new"]
      /\ \A v \in Workers \ {w} : tx'[v] = tx[v]
      /\ tx'[w] \in Open
  BY <1>1, <1>2 DEF IInv, TypeOK, Open, Steps
<1>4. /\ tx'[w].step = "new" /\ tx'[w].order = tx[w].order /\ tx'[w].rows = tx[w].rows
      /\ tx'[w].simulated = tx[w].simulated
  BY <1>2, <1>3 DEF Open
<1>5. TypeOK'
  BY <1>1, <1>3 DEF IInv, TypeOK, tables
<1>6. LocksExclusive'
  <2>1. \A v \in Workers : v # w => (PastInbox(v)' <=> PastInbox(v)) /\ (PastUpdate(v)' <=> PastUpdate(v))
    BY <1>3 DEF PastInbox, PastUpdate
  <2>2. ~PastUpdate(w)'
    BY <1>4 DEF PastUpdate
  <2>3. QED
    BY <1>1, <1>3, <1>4, <2>1, <2>2 DEF IInv, LocksExclusive, Suffices, tables
<1>7. OneResultPerOrder' /\ DenialStands' /\ BeforeUpdate'
  BY <1>1, <1>2, <1>3, <1>4 DEF IInv, OneResultPerOrder, DenialStands, BeforeUpdate, At, Suffices, tables
<1>8. QED
  BY <1>5, <1>6, <1>7 DEF IInv

\* The UPDATE takes a row nobody else has changed, after a second look at it.
LEMMA UpdateKeepsInvariant ==
  ASSUME IInv, NEW w \in Workers, UpdateRow(w)
  PROVE  IInv'
<1> DEFINE o == tx[w].order
<1>1. /\ tx[w].step = "found"
      /\ \A v \in Workers \ {w} : ~(PastUpdate(v) /\ SkuOf[tx[v].order] = SkuOf[o])
      /\ tx' = [tx EXCEPT ![w].step = "updated", ![w].rows = IF Suffices(o) THEN 1 ELSE 0]
      /\ UNCHANGED <<tables, flagged, rollbacks>>
  BY DEF UpdateRow, At, RowHeld, StillSuffices
<1>2. tx[w] # Idle /\ tx[w] \in Open /\ PastInbox(w) /\ ~tx[w].simulated
  BY <1>1, StepIsOpen, OpenFields DEF IInv, Steps, PastInbox, BeforeUpdate, At
<1>3. /\ tx'[w].step = "updated" /\ tx'[w].order = o
      /\ tx'[w].rows = (IF Suffices(o) THEN 1 ELSE 0)
      /\ tx'[w].simulated = tx[w].simulated
      /\ \A v \in Workers \ {w} : tx'[v] = tx[v]
      /\ tx'[w] \in Open
  BY <1>1, <1>2 DEF IInv, TypeOK, Open, Steps
<1>4. /\ Suffices(o) => tx'[w].rows = 1
      /\ ~Suffices(o) => tx'[w].rows = 0
  BY <1>3
<1>5. /\ stock' = stock /\ inbox' = inbox /\ outbox' = outbox /\ flagged' = flagged
      /\ rollbacks' = rollbacks
  BY <1>1 DEF tables
<1>6. TypeOK'
  BY <1>1, <1>3, <1>5 DEF IInv, TypeOK
<1>7. LocksExclusive'
  <2>1. \A v \in Workers : v # w => (PastInbox(v)' <=> PastInbox(v)) /\ (PastUpdate(v)' <=> PastUpdate(v))
    BY <1>3 DEF PastInbox, PastUpdate
  <2>2. PastUpdate(w)' => Suffices(o)
    BY <1>4 DEF PastUpdate
  <2>3. /\ PastInbox(w)
        /\ \A v \in Workers : tx'[v].order = tx[v].order /\ tx'[v].simulated = tx[v].simulated
    BY <1>2, <1>3
  <2>4. \A v \in Workers : PastInbox(v)' => PastInbox(v)
    BY <2>1, <2>3
  <2>5. \A v \in Workers : PastUpdate(v)' => ~tx[v].simulated /\ Suffices(tx[v].order)
    BY <1>2, <2>1, <2>2 DEF IInv, LocksExclusive
  <2>6. \A u, v \in Workers :
          PastUpdate(u)' /\ PastUpdate(v)' /\ SkuOf[tx[u].order] = SkuOf[tx[v].order] => u = v
    BY <1>1, <2>1 DEF IInv, LocksExclusive
  <2> HIDE DEF o
  <2>7. QED
    BY <1>5, <2>3, <2>4, <2>5, <2>6 DEF IInv, LocksExclusive, Suffices
<1>8. OneResultPerOrder'
  BY <1>5 DEF IInv, OneResultPerOrder
<1>9. BeforeUpdate'
  BY <1>3 DEF IInv, BeforeUpdate, At
<1>10. DenialStands'
  <2>1. tx'[w].rows = 0 => ~Suffices(tx'[w].order)
    BY <1>3, <1>4
  <2>2. ~tx'[w].simulated
    BY <1>2, <1>3
  <2>3. \A v \in Workers : v # w => tx'[v] = tx[v]
    BY <1>3
  <2> HIDE DEF o
  <2>4. QED
    BY <1>5, <2>1, <2>2, <2>3 DEF IInv, DenialStands, Suffices
<1>11. QED
  BY <1>6, <1>7, <1>8, <1>9, <1>10 DEF IInv

\* The other steps of a transaction.
LEMMA OtherKeepsInvariant ==
  ASSUME IInv, NEW w \in Workers,
         \/ \E o \in Orders : Begin(w, o)
         \/ AlreadyHandled(w) \/ LoadFlag(w) \/ NoRowChanged(w) \/ FindRow(w)
         \/ InsertOutbox(w) \/ Rollback(w)
  PROVE  IInv'
<1>0. TypeOK /\ rollbacks \in 0..MaxRollbacks /\ MaxRollbacks \in Nat
  BY TxConstants DEF IInv, TypeOK
<1>1. ASSUME NEW o \in Orders, Begin(w, o) PROVE IInv'
  <2> DEFINE t == [step |-> "begun", order |-> o, simulated |-> FALSE, rows |-> 0]
  <2>1. t \in Open
    BY DEF Open, Steps
  <2>2. tx' = [tx EXCEPT ![w] = t] /\ UNCHANGED <<tables, flagged, rollbacks>>
    BY <1>1 DEF Begin
  <2>3. t.step = "begun" /\ ~t.simulated /\ t.rows = 0
    OBVIOUS
  <2> HIDE DEF t
  <2>4. QED
    BY <1>0, <2>1, <2>2, <2>3, QuietStep
<1>2. ASSUME AlreadyHandled(w) \/ Rollback(w) PROVE IInv'
  <2>1. tx' = [tx EXCEPT ![w] = Idle] /\ UNCHANGED <<tables, flagged>> /\ rollbacks' \in 0..MaxRollbacks
    BY <1>0, <1>2 DEF AlreadyHandled, Rollback
  <2>2. Idle.step = "idle" /\ "idle" \notin Steps
    BY DEF Idle, Steps
  <2>3. QED
    BY <2>1, <2>2, QuietStep DEF Steps
<1>3. ASSUME LoadFlag(w) \/ NoRowChanged(w) \/ FindRow(w) \/ InsertOutbox(w) PROVE IInv'
  <2> DEFINE t == tx'[w]
  <2>1. tx[w].step \in {"new", "loaded", "updated"}
    BY <1>3 DEF LoadFlag, NoRowChanged, FindRow, InsertOutbox, At
  <2>2. tx[w] # Idle /\ tx[w] \in Open /\ PastInbox(w)
    BY <1>0, <2>1, StepIsOpen, OpenFields DEF Steps, PastInbox
  <2>3. UNCHANGED <<tables, flagged, rollbacks>>
    BY <1>3 DEF LoadFlag, NoRowChanged, FindRow, InsertOutbox
  <2>4. /\ t.order = tx[w].order /\ t.rows = tx[w].rows /\ t \in Open
        /\ tx' = [tx EXCEPT ![w] = t]
        /\ \/ LoadFlag(w) /\ t.step = "loaded" /\ (t.simulated => tx[w].order \in flagged)
           \/ NoRowChanged(w) /\ t.step = "updated" /\ t.simulated = tx[w].simulated
           \/ FindRow(w) /\ t.step = "found" /\ t.simulated = tx[w].simulated
           \/ InsertOutbox(w) /\ t.step = "written" /\ t.simulated = tx[w].simulated
    <3>1. CASE LoadFlag(w)
      <4>1. tx' = [tx EXCEPT ![w] = [tx[w] EXCEPT !.step = "loaded", !.simulated = tx[w].order \in flagged]]
        BY <1>0, <2>2, <3>1 DEF LoadFlag, TypeOK, Open
      <4>2. (tx[w].order \in flagged) \in BOOLEAN
        OBVIOUS
      <4>3. t = [tx[w] EXCEPT !.step = "loaded", !.simulated = tx[w].order \in flagged]
        BY <1>0, <4>1 DEF TypeOK
      <4>4. QED
        BY <1>0, <2>2, <3>1, <4>1, <4>2, <4>3 DEF TypeOK, Open, Steps
    <3>2. CASE NoRowChanged(w)
      BY <1>0, <2>2, <3>2 DEF NoRowChanged, TypeOK, Open, Steps
    <3>3. CASE FindRow(w)
      BY <1>0, <2>2, <3>3 DEF FindRow, TypeOK, Open, Steps
    <3>4. CASE InsertOutbox(w)
      BY <1>0, <2>2, <3>4 DEF InsertOutbox, TypeOK, Open, Steps
    <3>5. QED
      BY <1>3, <3>1, <3>2, <3>3, <3>4
  <2>5. t # Idle /\ t.simulated => t.order \in flagged
    BY <2>2, <2>4 DEF IInv, DenialStands
  <2>6. ~(t.step \in {"updated", "written"} /\ t.rows = 1)
          \/ (PastUpdate(w) /\ t.order = tx[w].order /\ t.simulated = tx[w].simulated)
    BY <2>4 DEF IInv, BeforeUpdate, NoRowChanged, InsertOutbox, At, PastUpdate
  <2>7. t.step \in {"updated", "written"} /\ t.rows = 0 => t.simulated \/ ~Suffices(t.order)
    BY <2>2, <2>4 DEF IInv, DenialStands, NoRowChanged, InsertOutbox, At
  <2>8. /\ t.step \in {"begun", "new", "loaded", "found"} => t.rows = 0
        /\ t.step = "found" => ~t.simulated
    BY <2>4 DEF IInv, BeforeUpdate, LoadFlag, FindRow, At
  <2> HIDE DEF t
  <2>9. QED
    BY <1>0, <2>2, <2>3, <2>4, <2>5, <2>6, <2>7, <2>8, QuietStep
<1>4. QED
  BY <1>1, <1>2, <1>3

\* Every statement, rollback and change of a flag keeps the invariant.
LEMMA NextInvariant == IInv /\ [Next]_vars => IInv'
<1> SUFFICES ASSUME IInv, [Next]_vars PROVE IInv'
  OBVIOUS
<1>1. ASSUME NEW o \in Orders, FlagSimulatedFailure(o) PROVE IInv'
  <2>1. /\ o \in Flaggable /\ flagged' = flagged \union {o}
        /\ UNCHANGED <<tx, tables, rollbacks>>
    BY <1>1 DEF FlagSimulatedFailure
  <2>2. TypeOK'
    BY <2>1 DEF IInv, TypeOK, tables
  <2>3. OneResultPerOrder' /\ LocksExclusive' /\ BeforeUpdate'
    BY <2>1 DEF IInv, OneResultPerOrder, LocksExclusive, BeforeUpdate, At, PastInbox, PastUpdate,
       Suffices, tables
  <2>4. DenialStands'
    BY <2>1 DEF IInv, DenialStands, Suffices, tables
  <2>5. QED
    BY <2>2, <2>3, <2>4 DEF IInv
<1>2. CASE UNCHANGED vars
  BY <1>2 DEF IInv, vars, tables, TypeOK, OneResultPerOrder, LocksExclusive, DenialStands,
     BeforeUpdate, At, PastInbox, PastUpdate, Suffices
<1>3. QED
  BY <1>1, <1>2, InsertKeepsInvariant, UpdateKeepsInvariant, CommitKeepsInvariant,
     OtherKeepsInvariant DEF Next, Statement

\* The invariant of the inventory transaction holds for every instance.
THEOREM TxInvariant == Spec => []IInv
BY InitInvariant, NextInvariant, PTL DEF Spec

\* Type correctness: overlapping reservations never take a stock row below zero.
THEOREM TxTypeOK == Spec => []TypeOK
<1>1. IInv => TypeOK
  BY DEF IInv
<1>2. QED
  BY <1>1, TxInvariant, PTL

\* Replicas that hold the same event, and transactions that fail half-way,
\* write one result per handled order.
THEOREM TxOneResult == Spec => []OneResultPerOrder
<1>1. IInv => OneResultPerOrder
  BY DEF IInv
<1>2. QED
  BY <1>1, TxInvariant, PTL

\* An inbox key and a stock row are each in the hands of one open transaction.
THEOREM TxLocksExclusive == Spec => []LocksExclusive
<1>1. IInv => LocksExclusive
  BY DEF IInv
<1>2. QED
  BY <1>1, TxInvariant, PTL

\* COMMIT is the one step of Reservations, and every statement before it is
\* invisible: the condition that the UPDATE evaluated still holds, or still
\* fails, when the transaction commits.
THEOREM TxIsAtomic == Spec => Abstract!ResSafety
<1>1. Init => Abstract!ResInit
  BY DEF Init, Abstract!ResInit
<1>2. IInv /\ [Next]_vars => [Abstract!ResNext]_<<stock, inbox, outbox, flagged>>
  <2> SUFFICES ASSUME IInv, [Next]_vars
               PROVE  [Abstract!ResNext]_<<stock, inbox, outbox, flagged>>
    OBVIOUS
  <2>1. ASSUME NEW w \in Workers, Commit(w) PROVE \E o \in Orders : Abstract!HandleOnce(o)
    <3> DEFINE o == tx[w].order
    <3>1. /\ At(w, "written") /\ stock' = StockWith(tx[w])
          /\ inbox' = inbox \union {o}
          /\ outbox' = Append(outbox, OutcomeOf(tx[w]))
          /\ UNCHANGED flagged
      BY <2>1 DEF Commit
    <3>2. /\ tx[w] # Idle /\ tx[w].order \in Orders /\ tx[w].rows \in {0, 1}
          /\ tx[w].simulated \in BOOLEAN /\ PastInbox(w)
      BY <3>1, OpenFields, StepIsOpen DEF IInv, At, Steps, PastInbox
    <3>3. o \notin inbox
      BY <3>2 DEF IInv, LocksExclusive
    <3>4. Abstract!Suffices(o) <=> Suffices(o)
      BY DEF Abstract!Suffices, Suffices
    <3>5. CASE tx[w].rows = 1
      <4>1. Suffices(o) /\ ~tx[w].simulated
        BY <3>1, <3>5 DEF IInv, LocksExclusive, PastUpdate, At
      <4>2. OutcomeOf(tx[w]) = [order |-> o, success |-> TRUE, reason |-> "none"]
        <5>1. (~tx[w].simulated /\ tx[w].rows = 1) = TRUE
          BY <3>5, <4>1
        <5>2. ~tx[w].simulated /\ tx[w].rows # 0
          BY <3>5, <4>1
        <5>3. OutcomeOf(tx[w]) = [order |-> o, success |-> (~tx[w].simulated /\ tx[w].rows = 1),
                                  reason |-> "none"]
          BY <5>2 DEF OutcomeOf
        <5>4. QED
          BY <5>1, <5>3, Zenon
      <4>3. Abstract!Grant(o)
        BY <3>1, <3>4, <3>5, <4>1, <4>2 DEF StockWith, Abstract!Grant
      <4>4. QED
        BY <3>1, <3>2, <3>3, <4>3 DEF Abstract!HandleOnce
    <3>6. CASE tx[w].rows = 0
      <4>1. tx[w].simulated \/ ~Suffices(o)
        BY <3>1, <3>6 DEF IInv, DenialStands, At
      <4>2. tx[w].simulated => o \in flagged
        BY <3>2 DEF IInv, DenialStands
      <4>3. OutcomeOf(tx[w]) = [order |-> o, success |-> FALSE,
              reason |-> IF tx[w].simulated THEN "simulated_inventory_failure" ELSE "insufficient_stock"]
        <5>1. (~tx[w].simulated /\ tx[w].rows = 1) = FALSE
          BY <3>6
        <5>2. QED
          BY <3>6, <5>1 DEF OutcomeOf
      <4>4. Abstract!Deny(o)
        <5>1. stock' = stock
          BY <3>1, <3>6 DEF StockWith
        <5>2. CASE tx[w].simulated
          BY <3>1, <4>2, <4>3, <5>1, <5>2 DEF Abstract!Deny
        <5>3. CASE ~tx[w].simulated
          BY <3>1, <3>4, <4>1, <4>3, <5>1, <5>3 DEF Abstract!Deny
        <5>4. QED
          BY <5>2, <5>3
      <4>5. QED
        BY <3>1, <3>2, <3>3, <4>4 DEF Abstract!HandleOnce
    <3>7. QED
      BY <3>2, <3>5, <3>6
  <2>2. ASSUME NEW o \in Orders, FlagSimulatedFailure(o) PROVE Abstract!Simulate(o)
    BY <2>2 DEF FlagSimulatedFailure, tables, Abstract!Simulate
  <2>3. ASSUME NEW w \in Workers,
               \/ \E o \in Orders : Begin(w, o)
               \/ InsertInbox(w) \/ AlreadyHandled(w) \/ LoadFlag(w) \/ NoRowChanged(w)
               \/ FindRow(w) \/ UpdateRow(w) \/ InsertOutbox(w) \/ Rollback(w)
        PROVE  UNCHANGED <<stock, inbox, outbox, flagged>>
    BY <2>3 DEF Begin, InsertInbox, AlreadyHandled, LoadFlag, NoRowChanged, FindRow, UpdateRow,
       InsertOutbox, Rollback, tables
  <2>4. CASE UNCHANGED vars
    BY <2>4 DEF vars, tables
  <2>5. QED
    BY <2>1, <2>2, <2>3, <2>4 DEF Next, Statement, Abstract!ResNext
<1>3. QED
  BY <1>1, <1>2, TxInvariant, PTL DEF Spec, Abstract!ResSafety, Abstract!resVars
=============================================================================
