---------------------------- MODULE MCHotItems ----------------------------
(* Sets for checking HotItems.                                             *)
EXTENDS HotItems, TLC

\* No initial stock, none at all, and up to two units.
SmallStocks == {-1, 0, 2}

Interchangeable == Permutations(Users) \union Permutations(Clients) \union Permutations(Items)
=============================================================================
