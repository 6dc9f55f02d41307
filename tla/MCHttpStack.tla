---------------------------- MODULE MCHttpStack ----------------------------
(* The instance of HttpStack for TLC; its constants are given in the cfg. *)
EXTENDS HttpStack, TLC

Interchangeable == Permutations(Requests) \union Permutations(Replicas)
=============================================================================
