---------------------------- MODULE ProcessLife ----------------------------
(***************************************************************************)
(* One process from start to exit: the server (main.rs) or a worker        *)
(* (bin/orders-worker.rs, bin/inventory-worker.rs).  Start-up with its     *)
(* telemetry, shutdown_token, two parts under try_join!, and the flush of  *)
(* the telemetry at the end.                                               *)
(*                                                                         *)
(* A unit of work is a request, or a batch of the relay, or a message of   *)
(* the consumer; a part has some in hand or none.  Nothing says that a     *)
(* unit ends: a client may stall, a query may hang.  The parts of a worker *)
(* ask the token between units only.  The servers of axum and tonic are    *)
(* external: told to stop, they return when no request is in hand, without *)
(* a limit on the wait; they fail only where they bind their address.  A   *)
(* WebSocket is no request in hand: its connection was upgraded, nobody    *)
(* waits for it, and it is gone with the process.                          *)
(***************************************************************************)
EXTENDS FiniteSets, Naturals

CONSTANTS
  Parts          \* the two futures under try_join!

ASSUME PartsAssumption == Cardinality(Parts) = 2

VARIABLES
  kind,          \* "server" makes its token before it connects, "worker" after
  settings,      \* what the OTEL_* variables ask for
  exporters,     \* telemetry signals that are exported
  warnings,      \* telemetry signals that were asked for and are not exported
  phase,         \* how far main has come
  handler,       \* the task of shutdown_token that waits for a signal
  signalled,     \* SIGTERM or SIGINT reached that task
  cancelled,     \* the token
  part,          \* per part: where its future is
  busy,          \* parts with a unit of work in hand
  cut,           \* parts whose work in hand was dropped
  unsent,        \* signals with telemetry that has not left the process
  outcome,       \* how the process ended
  blame          \* what made main return an error

telemetry == <<settings, exporters, warnings>>
stopping  == <<handler, signalled, cancelled>>
work      == <<part, busy, cut>>
ending    == <<outcome, blame>>
vars == <<kind, telemetry, phase, stopping, work, unsent, ending>>

Signals   == {"spans", "metrics"}
Protocols == {"grpc", "http"}
Headers   == {"none", "valid", "malformed"}
Settings  == [endpoint : BOOLEAN, protocol : Protocols, headers : Headers]

TypeOK ==
  /\ kind \in {"server", "worker"}
  /\ settings \in Settings
  /\ exporters \subseteq Signals
  /\ warnings \subseteq Signals \ exporters
  /\ phase \in {"init", "starting", "configured", "connected", "running",
                "flush_metrics", "flush_spans", "over"}
  /\ handler \in {"none", "spawned", "installed"}
  /\ signalled \in BOOLEAN /\ cancelled \in BOOLEAN
  /\ part \in [Parts -> {"new", "binding", "serving", "returned", "failed"}]
  /\ busy \subseteq Parts /\ cut \subseteq Parts
  /\ unsent \subseteq exporters
  /\ outcome \in {"none", "ok", "error", "killed"}
  /\ blame \in {"none", "startup", "part", "metrics", "spans"}

Init ==
  /\ kind \in {"server", "worker"}
  /\ settings \in Settings
  /\ exporters = {} /\ warnings = {}
  /\ phase = "init"
  /\ handler = "none"
  /\ signalled = FALSE /\ cancelled = FALSE
  /\ part = [p \in Parts |-> "new"]
  /\ busy = {} /\ cut = {}
  /\ unsent = {}
  /\ outcome = "none" /\ blame = "none"

-----------------------------------------------------------------------------
(* Start-up *)

\* build_span_exporter and build_metric_exporter: with gRPC every header must
\* be a metadata entry (to_metadata_map); the builders may fail for reasons of
\* their own.
MayExport(s) ==
  settings.endpoint /\ ~(settings.protocol = "grpc" /\ settings.headers = "malformed")

\* init_observability: an exporter that cannot be built is a warning.
InitObservability ==
  /\ phase = "init"
  /\ exporters' \in SUBSET {s \in Signals : MayExport(s)}
  /\ warnings' = IF settings.endpoint THEN Signals \ exporters' ELSE {}
  /\ phase' = "starting"
  /\ UNCHANGED <<kind, settings, stopping, work, unsent, ending>>

\* Addresses, settings file and URLs are read.
ReadSettings ==
  /\ phase = "starting"
  /\ phase' = "configured"
  /\ UNCHANGED <<kind, telemetry, stopping, work, unsent, ending>>

\* shutdown_token: the server calls it before route(), a worker when its
\* connections stand.
MakeToken ==
  /\ handler = "none"
  /\ phase = IF kind = "server" THEN "configured" ELSE "connected"
  /\ handler' = "spawned"
  /\ UNCHANGED <<kind, telemetry, phase, signalled, cancelled, work, unsent, ending>>

\* connect_pool, redis client, producer and consumer.
Connect ==
  /\ phase = "configured"
  /\ kind = "server" => handler # "none"
  /\ phase' = "connected"
  /\ UNCHANGED <<kind, telemetry, stopping, work, unsent, ending>>

\* Any step of the start-up returns an error or panics.
StartupFails ==
  /\ phase \in {"starting", "configured"}
  /\ phase' = "over" /\ outcome' = "error" /\ blame' = "startup"
  /\ UNCHANGED <<kind, telemetry, stopping, work, unsent>>

\* try_join! polls both parts for the first time; the servers bind first.
Run ==
  /\ phase = "connected"
  /\ handler # "none"
  /\ phase' = "running"
  /\ part' = [p \in Parts |-> IF kind = "server" THEN "binding" ELSE "serving"]
  /\ UNCHANGED <<kind, telemetry, stopping, busy, cut, unsent, ending>>

-----------------------------------------------------------------------------
(* Signals *)

\* shutdown_signal is polled and installs its handlers.
InstallHandler ==
  /\ handler = "spawned" /\ phase # "over"
  /\ handler' = "installed"
  /\ UNCHANGED <<kind, telemetry, phase, signalled, cancelled, work, unsent, ending>>

\* The process is gone, with everything in it.
Die ==
  /\ phase' = "over" /\ outcome' = "killed"
  /\ cut' = cut \union busy
  /\ UNCHANGED <<kind, telemetry, stopping, part, busy, unsent, blame>>

\* SIGTERM or SIGINT: without a handler the process dies.
Signal ==
  /\ phase # "over" /\ ~signalled
  /\ \/ /\ handler = "installed"
        /\ signalled' = TRUE
        /\ UNCHANGED <<kind, telemetry, phase, handler, cancelled, work, unsent, ending>>
     \/ handler # "installed" /\ Die

\* A crash, or SIGKILL when the grace period of the pod is over.
Kill == phase # "over" /\ Die

\* The task of shutdown_token wakes.
Cancel ==
  /\ signalled /\ ~cancelled /\ phase # "over"
  /\ cancelled' = TRUE
  /\ UNCHANGED <<kind, telemetry, phase, handler, signalled, work, unsent, ending>>

-----------------------------------------------------------------------------
(* The parts *)

Bind(p) ==
  /\ phase = "running" /\ part[p] = "binding"
  /\ part' = [part EXCEPT ![p] = "serving"]
  /\ UNCHANGED <<kind, telemetry, phase, stopping, busy, cut, unsent, ending>>

\* Work is taken up whether the token is cancelled or not: select! picks at
\* random among the branches that are ready.
Begin(p) ==
  /\ phase = "running" /\ part[p] = "serving" /\ p \notin busy
  /\ busy' = busy \union {p}
  /\ UNCHANGED <<kind, telemetry, phase, stopping, part, cut, unsent, ending>>

\* What a unit of work records: record_http_metrics and record_grpc_metrics do
\* nothing without METRICS, spans without an exporter go nowhere.
Recorded == exporters

Finish(p) ==
  /\ phase = "running" /\ p \in busy
  /\ busy' = busy \ {p}
  /\ unsent' = unsent \union Recorded
  /\ UNCHANGED <<kind, telemetry, phase, stopping, part, cut, ending>>

\* A part returns Err: try_join! drops the other with its work, and `?` leaves
\* main before the flush.
Fails(p) ==
  /\ phase = "running"
  /\ IF kind = "server" THEN part[p] = "binding" ELSE p \in busy
  /\ part' = [part EXCEPT ![p] = "failed"]
  /\ busy' = busy \ {p}
  /\ cut' = cut \union busy'
  /\ phase' = "over" /\ outcome' = "error" /\ blame' = "part"
  /\ UNCHANGED <<kind, telemetry, stopping, unsent>>

\* Fault: the work is a branch of select!, so that a cancelled token drops it.
NoticeAtOnce(p) ==
  /\ phase = "running" /\ part[p] = "serving" /\ cancelled
  /\ part' = [part EXCEPT ![p] = "returned"]
  /\ busy' = busy \ {p}
  /\ cut' = cut \union (busy \intersect {p})
  /\ UNCHANGED <<kind, telemetry, phase, stopping, unsent, ending>>

\* Fault: one part is not given the token.
NoticeByOne(p) ==
  /\ p = CHOOSE q \in Parts : TRUE
  /\ phase = "running" /\ part[p] = "serving" /\ cancelled /\ p \notin busy
  /\ part' = [part EXCEPT ![p] = "returned"]
  /\ UNCHANGED <<kind, telemetry, phase, stopping, busy, cut, unsent, ending>>

\* token.cancelled() is chosen between two units, or the server has drained.
Notice(p) ==
  /\ phase = "running" /\ part[p] = "serving" /\ cancelled /\ p \notin busy
  /\ part' = [part EXCEPT ![p] = "returned"]
  /\ UNCHANGED <<kind, telemetry, phase, stopping, busy, cut, unsent, ending>>

-----------------------------------------------------------------------------
(* The end *)

\* External: the batch processor and the periodic reader send now and then.
Export(s) ==
  /\ s \in unsent /\ phase # "over"
  /\ unsent' = unsent \ {s}
  /\ UNCHANGED <<kind, telemetry, phase, stopping, work, ending>>

\* Fault: the first part that returns ends the wait.
JoinedByOne == \E p \in Parts : part[p] = "returned"

\* try_join! is ready with Ok.
Joined == \A p \in Parts : part[p] = "returned"

LeaveJoin ==
  /\ phase = "running" /\ Joined
  /\ phase' = "flush_metrics"
  /\ UNCHANGED <<kind, telemetry, stopping, work, unsent, ending>>

\* The provider of a signal is shut down and sends what it holds, or returns
\* an error that ends main.
ShutdownProvider(s, next) ==
  \/ /\ unsent' = unsent \ {s}
     /\ phase' = next
     /\ outcome' = IF next = "over" THEN "ok" ELSE outcome
     /\ UNCHANGED blame
  \/ /\ s \in exporters
     /\ phase' = "over" /\ outcome' = "error" /\ blame' = s
     /\ UNCHANGED unsent

\* Fault: the meter provider is not shut down.
MeterLeftRunning ==
  /\ phase = "flush_metrics"
  /\ phase' = "flush_spans"
  /\ UNCHANGED <<kind, telemetry, stopping, work, unsent, ending>>

\* ObservabilityGuard::shutdown: the meter provider, if there is one.
ShutdownMeter ==
  /\ phase = "flush_metrics"
  /\ ShutdownProvider("metrics", "flush_spans")
  /\ UNCHANGED <<kind, telemetry, stopping, work>>

\* ObservabilityGuard::shutdown: the tracer provider; then main returns.
ShutdownTracer ==
  /\ phase = "flush_spans"
  /\ ShutdownProvider("spans", "over")
  /\ UNCHANGED <<kind, telemetry, stopping, work>>

Next ==
  \/ InitObservability \/ ReadSettings \/ MakeToken \/ Connect \/ StartupFails \/ Run
  \/ InstallHandler \/ Signal \/ Kill \/ Cancel
  \/ \E p \in Parts : Bind(p) \/ Begin(p) \/ Finish(p) \/ Fails(p) \/ Notice(p)
  \/ \E s \in Signals : Export(s)
  \/ LeaveJoin \/ ShutdownMeter \/ ShutdownTracer

\* A server binds its address, or cannot.
Binds(p) == part[p] = "binding" /\ (Bind(p) \/ Fails(p))

\* main and the task of shutdown_token run; a part whose token stays cancelled
\* does not pick its other branch for ever.  That a unit of work ends is not
\* assumed: no request and no statement has a timeout.
Fairness ==
  /\ WF_vars(Run \/ Connect \/ MakeToken) /\ WF_vars(Cancel)
  /\ \A p \in Parts : WF_vars(Binds(p)) /\ SF_vars(Notice(p))
  /\ WF_vars(LeaveJoin) /\ WF_vars(ShutdownMeter) /\ WF_vars(ShutdownTracer)

Spec == Init /\ [][Next]_vars /\ Fairness

-----------------------------------------------------------------------------
(* Properties *)

\* A process that ends well was asked to end, has finished all the work it
\* took up, and has sent its telemetry.
CleanExit ==
  outcome = "ok" => /\ cancelled /\ Joined
                    /\ busy = {} /\ cut = {}
                    /\ unsent = {}

\* Work in hand is cut by a kill or by the failure of the other part, never by
\* the shutdown itself.
CutsExplained ==
  cut # {} => \/ outcome = "killed"
              \/ outcome = "error" /\ blame = "part" /\ \E p \in Parts \ cut : part[p] = "failed"

\* Once both parts have returned, metrics are lost only by the failure of their
\* own provider; spans also by that of the meter provider, which is shut down
\* first.
LossExplained ==
  outcome = "error" /\ Joined =>
    /\ "metrics" \in unsent => blame = "metrics"
    /\ "spans" \in unsent => blame \in {"metrics", "spans"}

\* A part never again comes to the end of what it has in hand.
HeldUp == \E p \in Parts : [](p \in busy)

\* A signal that the process has caught ends it, although it may still be
\* starting, its parts may keep taking up work, and its telemetry may fail; only
\* a part whose work in hand never ends can hold it up.
SignalEndsProcess == signalled ~> (phase = "over" \/ HeldUp)
=============================================================================
