-------------------------- MODULE MCOrderPipeline --------------------------
(* An instance of OrderPipeline for TLC. *)
EXTENDS OrderPipeline, TLC

CONSTANTS o1, o2, o3, o4, chair

\* Three orders ask for four of three chairs, a fourth one for nothing.
RivalOrders == {o1, o2, o3, o4}
RivalSkus   == {chair}
RivalSkuOf  == [o \in RivalOrders |-> chair]
RivalQtyOf  == o1 :> 2 @@ o2 :> 1 @@ o3 :> 1 @@ o4 :> 0
RivalStock  == [s \in RivalSkus |-> 3]

\* The two orders of one chair and the replicas differ in their names only.
Interchangeable == Permutations({o2, o3}) \union Permutations(Workers)
=============================================================================
