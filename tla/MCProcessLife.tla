--------------------------- MODULE MCProcessLife ---------------------------
(* The instance of ProcessLife for TLC; its constant is given in the cfg. *)
EXTENDS ProcessLife
=============================================================================
