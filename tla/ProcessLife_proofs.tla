------------------------- MODULE ProcessLife_proofs -------------------------
(***************************************************************************)
(* The safety properties of ProcessLife for any two parts.  Nothing moves  *)
(* once the process is over, so each property is about the step that ended *)
(* it; what that step finds is said by the other parts of IInv.            *)
(***************************************************************************)
EXTENDS ProcessLife, FiniteSetTheorems, TLAPS

\* Before try_join! no part has started.
NotStarted == phase \in {"init", "starting", "configured", "connected"} => part = [p \in Parts |-> "new"]
\* Exporters are built first.
ExportersLater == phase = "init" => exporters = {}

\* Work is in the hands of a part that serves; a part returns after the token.
BusyServes == \A p \in busy : part[p] = "serving"
ReturnedAfterCancel == (\E p \in Parts : part[p] = "returned") => cancelled

\* While the process lives nothing was dropped and no verdict is out.
AliveUncut == phase # "over" => cut = {} /\ outcome = "none" /\ blame = "none"

\* The flush comes after both parts, the metrics before the spans.
FlushJoined == phase \in {"flush_metrics", "flush_spans"} => Joined
MetricsFirst == phase = "flush_spans" => "metrics" \notin unsent

IInv ==
  /\ TypeOK
  /\ NotStarted /\ ExportersLater /\ BusyServes /\ ReturnedAfterCancel
  /\ AliveUncut /\ FlushJoined /\ MetricsFirst
  /\ CleanExit /\ CutsExplained /\ LossExplained

\* There is a part that can be told apart from a part that returned.
LEMMA PartsExist == Parts # {}
  BY PartsAssumption, FS_EmptySet

\* Nothing has happened to a process that starts.
LEMMA InitEstablishes == Init => IInv
<1> SUFFICES ASSUME Init PROVE IInv OBVIOUS
<1>1. TypeOK BY DEF Init, TypeOK, Signals
<1>2. NotStarted /\ ExportersLater /\ BusyServes /\ ReturnedAfterCancel BY DEF Init, NotStarted, ExportersLater, BusyServes, ReturnedAfterCancel
<1>3. AliveUncut /\ FlushJoined /\ MetricsFirst BY DEF Init, AliveUncut, FlushJoined, MetricsFirst
<1>4. CleanExit /\ CutsExplained /\ LossExplained BY DEF Init, CleanExit, CutsExplained, LossExplained
<1> QED BY <1>1, <1>2, <1>3, <1>4 DEF IInv

\* The steps that lead to the join leave work and verdict alone.
StartStep == InitObservability \/ ReadSettings \/ MakeToken \/ Connect \/ InstallHandler \/ Cancel

\* A step of the start-up finds no work and no verdict, and leaves none.
LEMMA StartKeeps == ASSUME IInv, StartStep PROVE IInv'
<1> USE DEF IInv, StartStep, InitObservability, ReadSettings, MakeToken, Connect, InstallHandler, Cancel,
            vars, telemetry, stopping, work, ending
<1>1. TypeOK'
  <2>1. CASE InitObservability
    <3>1. unsent = {} BY <2>1 DEF TypeOK, ExportersLater
    <3>2. exporters' \subseteq Signals /\ warnings' \subseteq Signals \ exporters' BY <2>1
    <3> QED BY <2>1, <3>1, <3>2 DEF TypeOK
  <2> QED BY <2>1 DEF TypeOK
<1>2. NotStarted' /\ ExportersLater' /\ BusyServes' /\ ReturnedAfterCancel'
  BY DEF TypeOK, NotStarted, ExportersLater, BusyServes, ReturnedAfterCancel
<1>3. AliveUncut' /\ FlushJoined' /\ MetricsFirst'
  BY DEF TypeOK, AliveUncut, FlushJoined, MetricsFirst, Joined
<1>4. CleanExit' /\ CutsExplained' /\ LossExplained'
  BY <1>3 DEF AliveUncut, CleanExit, CutsExplained, LossExplained
<1> QED BY <1>1, <1>2, <1>3, <1>4

\* The parts start, and none has work yet.
LEMMA RunKeeps == ASSUME IInv, Run PROVE IInv'
<1> USE DEF IInv, Run, telemetry, stopping, work, ending
<1>1. \A p \in Parts : part'[p] \in {"binding", "serving"} OBVIOUS
<1>2. TypeOK' BY DEF TypeOK
<1>3. busy = {} BY DEF TypeOK, NotStarted, ExportersLater, BusyServes
<1>4. NotStarted' /\ ExportersLater' /\ BusyServes' /\ ReturnedAfterCancel'
  BY <1>1, <1>3 DEF NotStarted, ExportersLater, BusyServes, ReturnedAfterCancel
<1>5. AliveUncut' /\ FlushJoined' /\ MetricsFirst' BY DEF AliveUncut, FlushJoined, MetricsFirst
<1>6. CleanExit' /\ CutsExplained' /\ LossExplained'
  BY <1>5 DEF AliveUncut, CleanExit, CutsExplained, LossExplained
<1> QED BY <1>2, <1>4, <1>5, <1>6

\* A death drops the work in hand; nothing else changes.
LEMMA DeathKeeps == ASSUME IInv, phase # "over", Die PROVE IInv'
<1> USE DEF IInv, Die, telemetry, stopping, work, ending
<1>1. TypeOK' BY DEF TypeOK
<1>2. NotStarted' /\ ExportersLater' /\ BusyServes' /\ ReturnedAfterCancel' BY DEF NotStarted, ExportersLater, BusyServes, ReturnedAfterCancel
<1>3. AliveUncut' /\ FlushJoined' /\ MetricsFirst' BY DEF AliveUncut, FlushJoined, MetricsFirst
<1>4. CleanExit' /\ CutsExplained' /\ LossExplained' BY DEF CleanExit, CutsExplained, LossExplained
<1> QED BY <1>1, <1>2, <1>3, <1>4

\* A failed start ends before any part has returned.
LEMMA StartupFailureKeeps == ASSUME IInv, StartupFails PROVE IInv'
<1> USE DEF IInv, StartupFails, telemetry, stopping, work, ending
<1>1. TypeOK' BY DEF TypeOK
<1>2. NotStarted' /\ ExportersLater' /\ BusyServes' /\ ReturnedAfterCancel' BY DEF NotStarted, ExportersLater, BusyServes, ReturnedAfterCancel
<1>3. AliveUncut' /\ FlushJoined' /\ MetricsFirst' BY DEF AliveUncut, FlushJoined, MetricsFirst
<1>4. ~Joined' BY PartsExist DEF NotStarted, Joined
<1>5. CleanExit' /\ CutsExplained' /\ LossExplained'
  BY <1>4 DEF AliveUncut, CleanExit, CutsExplained, LossExplained
<1> QED BY <1>1, <1>2, <1>3, <1>5

\* What a part does while the other runs on.
LEMMA PartKeeps ==
  ASSUME IInv, NEW p \in Parts, Bind(p) \/ Begin(p) \/ Finish(p) \/ Notice(p)
  PROVE  IInv'
<1> USE DEF IInv, Bind, Begin, Finish, Notice, Recorded, telemetry, stopping, work, ending
<1>1. TypeOK' BY DEF TypeOK
<1>2. NotStarted' /\ ExportersLater' /\ BusyServes' /\ ReturnedAfterCancel'
  BY DEF TypeOK, NotStarted, ExportersLater, BusyServes, ReturnedAfterCancel
<1>3. AliveUncut' /\ FlushJoined' /\ MetricsFirst' BY DEF AliveUncut, FlushJoined, MetricsFirst
<1>4. CleanExit' /\ CutsExplained' /\ LossExplained'
  BY DEF AliveUncut, CleanExit, CutsExplained, LossExplained
<1> QED BY <1>1, <1>2, <1>3, <1>4

\* The failed part had no work of its own left, and has not returned.
LEMMA FailureKeeps == ASSUME IInv, NEW p \in Parts, Fails(p) PROVE IInv'
<1> USE DEF IInv, Fails, telemetry, stopping, work, ending
<1>1. TypeOK' BY DEF TypeOK
<1>2. part'[p] = "failed" /\ p \in Parts \ cut' BY DEF TypeOK, AliveUncut
<1>3. NotStarted' /\ ExportersLater' /\ BusyServes' /\ ReturnedAfterCancel'
  BY DEF TypeOK, NotStarted, ExportersLater, BusyServes, ReturnedAfterCancel
<1>4. AliveUncut' /\ FlushJoined' /\ MetricsFirst' BY DEF AliveUncut, FlushJoined, MetricsFirst
<1>5. ~Joined' BY <1>2 DEF Joined
<1>6. CleanExit' /\ CutsExplained' /\ LossExplained'
  BY <1>2, <1>5 DEF CleanExit, CutsExplained, LossExplained
<1> QED BY <1>1, <1>3, <1>4, <1>6

\* An export in the background only takes away what is unsent.
LEMMA ExportKeeps == ASSUME IInv, NEW s \in Signals, Export(s) PROVE IInv'
<1> USE DEF IInv, Export, telemetry, stopping, work, ending
<1>1. TypeOK' BY DEF TypeOK
<1>2. NotStarted' /\ ExportersLater' /\ BusyServes' /\ ReturnedAfterCancel' BY DEF NotStarted, ExportersLater, BusyServes, ReturnedAfterCancel
<1>3. AliveUncut' /\ FlushJoined' /\ MetricsFirst' BY DEF AliveUncut, FlushJoined, MetricsFirst, Joined
<1>4. CleanExit' /\ CutsExplained' /\ LossExplained'
  BY DEF AliveUncut, CleanExit, CutsExplained, LossExplained, Joined
<1> QED BY <1>1, <1>2, <1>3, <1>4

\* Both parts have returned, so that no work is in hand; the providers go in order.
LEMMA FlushKeeps == ASSUME IInv, LeaveJoin \/ ShutdownMeter \/ ShutdownTracer PROVE IInv'
<1> USE DEF IInv, LeaveJoin, ShutdownMeter, ShutdownTracer, ShutdownProvider, telemetry, stopping, work, ending
<1>1. TypeOK' BY DEF TypeOK
<1>2. NotStarted' /\ ExportersLater' /\ BusyServes' /\ ReturnedAfterCancel' BY DEF NotStarted, ExportersLater, BusyServes, ReturnedAfterCancel
<1>3. Joined /\ Joined' BY DEF FlushJoined, Joined
<1>4. busy = {} BY <1>3 DEF TypeOK, BusyServes, Joined
<1>5. cancelled BY <1>3, PartsExist DEF ReturnedAfterCancel, Joined
<1>6. AliveUncut' /\ FlushJoined' /\ MetricsFirst' BY <1>3 DEF AliveUncut, FlushJoined, MetricsFirst
<1>7. CleanExit'
  BY <1>3, <1>4, <1>5 DEF TypeOK, Signals, AliveUncut, MetricsFirst, CleanExit
<1>8. CutsExplained' /\ LossExplained'
  BY DEF AliveUncut, MetricsFirst, CutsExplained, LossExplained
<1> QED BY <1>1, <1>2, <1>6, <1>7, <1>8

\* One step per action or group of actions above.
LEMMA StepKeeps == IInv /\ [Next]_vars => IInv'
<1> SUFFICES ASSUME IInv, [Next]_vars PROVE IInv' OBVIOUS
<1>1. CASE UNCHANGED vars
  BY <1>1 DEF IInv, vars, telemetry, stopping, work, ending, TypeOK, NotStarted, ExportersLater, BusyServes,
     ReturnedAfterCancel, AliveUncut, FlushJoined, MetricsFirst, CleanExit, CutsExplained, LossExplained, Joined
<1>2. CASE StartStep BY <1>2, StartKeeps
<1>10. CASE Run BY <1>10, RunKeeps
<1>3. CASE StartupFails BY <1>3, StartupFailureKeeps
<1>4. CASE Signal
  <2>1. CASE Die BY <1>4, <2>1, DeathKeeps DEF Signal
  <2>2. CASE signalled' = TRUE /\ UNCHANGED <<kind, telemetry, phase, handler, cancelled, work, unsent, ending>>
    BY <2>2 DEF IInv, telemetry, work, ending, TypeOK, NotStarted, ExportersLater, BusyServes, ReturnedAfterCancel,
       AliveUncut, FlushJoined, MetricsFirst, CleanExit, CutsExplained, LossExplained, Joined
  <2> QED BY <1>4, <2>1, <2>2 DEF Signal
<1>5. CASE Kill BY <1>5, DeathKeeps DEF Kill
<1>6. ASSUME NEW p \in Parts, Bind(p) \/ Begin(p) \/ Finish(p) \/ Notice(p) PROVE IInv' BY <1>6, PartKeeps
<1>7. ASSUME NEW p \in Parts, Fails(p) PROVE IInv' BY <1>7, FailureKeeps
<1>8. ASSUME NEW s \in Signals, Export(s) PROVE IInv' BY <1>8, ExportKeeps
<1>9. CASE LeaveJoin \/ ShutdownMeter \/ ShutdownTracer BY <1>9, FlushKeeps
<1> QED BY <1>1, <1>2, <1>3, <1>4, <1>5, <1>6, <1>7, <1>8, <1>9, <1>10 DEF Next, StartStep

-----------------------------------------------------------------------------
(* Theorems *)

\* The inductive invariant holds from start to exit.
THEOREM ProcessInvariant == Spec => []IInv
  BY InitEstablishes, StepKeeps, PTL DEF Spec

\* Type correctness: in particular nothing is recorded for a signal without an
\* exporter.
THEOREM ProcessTypeOK == Spec => []TypeOK
<1>1. IInv => TypeOK BY DEF IInv
<1> QED BY <1>1, ProcessInvariant, PTL

\* Exit code zero means that all work was finished and all telemetry sent.
THEOREM ProcessCleanExit == Spec => []CleanExit
<1>1. IInv => CleanExit BY DEF IInv
<1> QED BY <1>1, ProcessInvariant, PTL

\* The shutdown itself never drops work in hand.
THEOREM ProcessCutsExplained == Spec => []CutsExplained
<1>1. IInv => CutsExplained BY DEF IInv
<1> QED BY <1>1, ProcessInvariant, PTL

\* After the join, telemetry is lost only with the provider that failed, and
\* spans also with that of the metrics.
THEOREM ProcessLossExplained == Spec => []LossExplained
<1>1. IInv => LossExplained BY DEF IInv
<1> QED BY <1>1, ProcessInvariant, PTL
=============================================================================
