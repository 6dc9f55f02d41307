------------------------- MODULE GrpcObservability -------------------------
(***************************************************************************)
(* The gRPC observability layer (utils/observability/grpc.rs): the service *)
(* wrapper, call, and the response body wrapper, poll_frame and complete.  *)
(* A request is recorded when its body shows how it ended.                 *)
(*                                                                         *)
(* External: the tonic router inside, which answers either with the status *)
(* in the headers and an empty body, or with data and then trailers; and   *)
(* the HTTP/2 server outside, which polls the body, stops once             *)
(* is_end_stream holds or the trailers are out, and drops a future or a    *)
(* body when the client resets its stream.                                 *)
(***************************************************************************)
EXTENDS Naturals

CONSTANTS
  Rpcs,      \* requests, one slot each
  Codes,     \* status codes
  Ok,        \* Code::Ok
  Unknown,   \* Code::Unknown
  NoCode     \* no grpc-status header

ASSUME GrpcAssumption == Ok \in Codes /\ Unknown \in Codes /\ NoCode \notin Codes

VARIABLES
  phase,      \* per request: new, handling, headers, streaming, finished, failed, reset
  fallback,   \* per request: fallback_code, from the response headers
  completed,  \* per request: the completed flag of the body
  recorded,   \* per request: calls of record_completion
  code,       \* per request: the code recorded last
  shown       \* per request: the status the client was sent

grpcVars == <<phase, fallback, completed, recorded, code, shown>>

GrpcTypeOK ==
  /\ phase \in [Rpcs ->
       {"new", "handling", "headers", "streaming", "finished", "failed", "reset"}]
  /\ fallback \in [Rpcs -> Codes \union {NoCode}]
  /\ completed \in [Rpcs -> BOOLEAN]
  /\ recorded \in [Rpcs -> Nat]
  /\ code \in [Rpcs -> Codes \union {NoCode}]
  /\ shown \in [Rpcs -> Codes \union {NoCode}]
  /\ \A r \in Rpcs : recorded[r] > 0 => code[r] \in Codes

GrpcInit ==
  /\ phase = [r \in Rpcs |-> "new"]
  /\ fallback = [r \in Rpcs |-> NoCode]
  /\ completed = [r \in Rpcs |-> FALSE]
  /\ recorded = [r \in Rpcs |-> 0]
  /\ code = [r \in Rpcs |-> NoCode]
  /\ shown = [r \in Rpcs |-> NoCode]

-----------------------------------------------------------------------------
(* Helpers *)

\* record_completion
Record(r, c) ==
  /\ recorded' = [recorded EXCEPT ![r] = @ + 1]
  /\ code' = [code EXCEPT ![r] = c]

\* Fault: complete does not look at the flag.
CompleteAlways(r, c) == completed' = [completed EXCEPT ![r] = TRUE] /\ Record(r, c)

\* complete: only the first code of a body counts.
Complete(r, c) ==
  \/ completed[r] /\ UNCHANGED <<completed, recorded, code>>
  \/ /\ ~completed[r]
     /\ completed' = [completed EXCEPT ![r] = TRUE]
     /\ Record(r, c)

\* Fault: a frame without a status counts as Ok.
FrameCodeOk(r, trailers) == IF trailers # NoCode THEN trailers ELSE Ok

\* The code a frame shows: that of its trailers, or else that of the headers.
FrameCode(r, trailers) == IF trailers # NoCode THEN trailers ELSE fallback[r]

\* What a frame does to the record.
Observe(r, trailers) ==
  IF FrameCode(r, trailers) = NoCode
  THEN UNCHANGED <<completed, recorded, code>>
  ELSE Complete(r, FrameCode(r, trailers))

-----------------------------------------------------------------------------
(* Actions *)

\* call: the inner service starts.
Call(r) ==
  /\ phase[r] = "new"
  /\ phase' = [phase EXCEPT ![r] = "handling"]
  /\ UNCHANGED <<fallback, completed, recorded, code, shown>>

\* The inner service fails without a response.
ServiceFails(r) ==
  /\ phase[r] = "handling"
  /\ phase' = [phase EXCEPT ![r] = "failed"]
  /\ Record(r, Unknown)
  /\ UNCHANGED <<fallback, completed, shown>>

\* A response whose headers carry the status, an error: its body is empty.
RespondHeadersOnly(r) ==
  /\ phase[r] = "handling"
  /\ phase' = [phase EXCEPT ![r] = "headers"]
  /\ \E c \in Codes \ {Ok} :
       /\ fallback' = [fallback EXCEPT ![r] = c]
       /\ shown' = [shown EXCEPT ![r] = c]
  /\ UNCHANGED <<completed, recorded, code>>

\* A response without a status as yet.
RespondStream(r) ==
  /\ phase[r] = "handling"
  /\ phase' = [phase EXCEPT ![r] = "streaming"]
  /\ UNCHANGED <<fallback, completed, recorded, code, shown>>

\* poll_frame yields a data frame.
PollData(r) ==
  /\ phase[r] = "streaming"
  /\ shown[r] = NoCode
  /\ Observe(r, NoCode)
  /\ UNCHANGED <<phase, fallback, shown>>

\* poll_frame yields the trailers.
PollTrailers(r) ==
  /\ phase[r] = "streaming"
  /\ shown[r] = NoCode
  /\ \E c \in Codes :
       /\ Observe(r, c)
       /\ shown' = [shown EXCEPT ![r] = c]
  /\ UNCHANGED <<phase, fallback>>

\* poll_frame yields an error: the stream is reset without a status.
PollError(r) ==
  /\ phase[r] = "streaming"
  /\ shown[r] = NoCode
  /\ Complete(r, Unknown)
  /\ phase' = [phase EXCEPT ![r] = "failed"]
  /\ UNCHANGED <<fallback, shown>>

\* poll_frame yields the end of the body.  Each body of tonic has shown a
\* status by then; one that has not would be recorded as Ok.
PollEnd(r) ==
  /\ phase[r] \in {"headers", "streaming"}
  /\ shown[r] # NoCode
  /\ Complete(r, IF fallback[r] = NoCode THEN Ok ELSE fallback[r])
  /\ phase' = [phase EXCEPT ![r] = "finished"]
  /\ UNCHANGED <<fallback, shown>>

\* The server sees is_end_stream, or has sent the trailers, and polls no more.
StopPolling(r) ==
  /\ phase[r] \in {"headers", "streaming"}
  /\ shown[r] # NoCode
  /\ phase' = [phase EXCEPT ![r] = "finished"]
  /\ UNCHANGED <<fallback, completed, recorded, code, shown>>

\* The client resets its stream: future or body are dropped.
Reset(r) ==
  /\ phase[r] \in {"handling", "headers", "streaming"}
  /\ phase' = [phase EXCEPT ![r] = "reset"]
  /\ UNCHANGED <<fallback, completed, recorded, code, shown>>

GrpcNext ==
  \E r \in Rpcs :
    \/ Call(r) \/ ServiceFails(r) \/ RespondHeadersOnly(r) \/ RespondStream(r)
    \/ PollData(r) \/ PollTrailers(r) \/ PollError(r) \/ PollEnd(r)
    \/ StopPolling(r) \/ Reset(r)

GrpcSpec == GrpcInit /\ [][GrpcNext]_grpcVars

-----------------------------------------------------------------------------
(* Properties *)

\* No request is counted twice, however often its body shows an end: trailers
\* and then the end of the body, a status in the headers and then that end.
CountedAtMostOnce == \A r \in Rpcs : recorded[r] <= 1

\* A code that is recorded is the status the client was sent, and Unknown when
\* the response broke off; no data frame settles it early.
RecordedCodeIsShown ==
  \A r \in Rpcs : recorded[r] > 0 =>
    code[r] = IF phase[r] = "failed" THEN Unknown ELSE shown[r]

\* "Total number of gRPC requests handled by axes" (metrics.rs): a request that
\* was answered is counted.
AnsweredIsCounted ==
  \A r \in Rpcs : phase[r] = "finished" => recorded[r] = 1
=============================================================================
