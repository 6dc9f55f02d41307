---------------------------- MODULE MCOrderReads ----------------------------
(* An instance of OrderReads for TLC. *)
EXTENDS OrderReads, TLC

CONSTANTS o1, o2, o3, chair, ghost

\* One SKU has a row with one unit, the other has none; one request asks for nothing.
MixedOrders == {o1, o2, o3}
MixedSkus   == {chair, ghost}
MixedSkuOf  == o1 :> chair @@ o2 :> ghost @@ o3 :> chair
MixedQtyOf  == o1 :> 1 @@ o2 :> 1 @@ o3 :> 0
MixedStock  == chair :> 1 @@ ghost :> Absent
=============================================================================
