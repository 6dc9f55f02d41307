------------------------ MODULE MCGrpcObservability ------------------------
(* GrpcObservability needs no definitions beyond the values in its cfgs.   *)
EXTENDS GrpcObservability
=============================================================================
