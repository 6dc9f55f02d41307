--------------------------- MODULE MCInventoryTx ---------------------------
(* An instance of InventoryTx for TLC. *)
EXTENDS InventoryTx, TLC

CONSTANTS o1, o2, o3, chair, ghost

\* Two orders compete for three chairs, the third asks for an unknown SKU.
TxOrders == {o1, o2, o3}
TxSkus   == {chair, ghost}
TxSkuOf  == o1 :> chair @@ o2 :> chair @@ o3 :> ghost
TxQtyOf  == o1 :> 2 @@ o2 :> 2 @@ o3 :> 1
TxStock  == chair :> 3 @@ ghost :> Absent
=============================================================================
