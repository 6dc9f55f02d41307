--------------------------- MODULE MCBakeryPages ---------------------------
(* BakeryPages needs no definitions beyond the values in its cfg.          *)
EXTENDS BakeryPages
=============================================================================
