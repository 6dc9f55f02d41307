------------------------------ MODULE HotItems ------------------------------
(***************************************************************************)
(* The two halves of handlers/stat/hot.rs side by side: claims and the     *)
(* ranking.  They share the Redis that loses answers, and no key.          *)
(***************************************************************************)
EXTENDS HotClaims, HotRanking

vars == <<claimVars, rankingVars>>

TypeOK == ClaimsTypeOK /\ RankingTypeOK

Init == ClaimsInit /\ RankingInit

Next ==
  \/ ClaimsNext /\ UNCHANGED rankingVars
  \/ RankingNext /\ UNCHANGED claimVars

Spec == Init /\ [][Next]_vars
=============================================================================
