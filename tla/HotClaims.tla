----------------------------- MODULE HotClaims -----------------------------
(***************************************************************************)
(* Claiming one unit of a hot item: claim_stock (handlers/stat/hot.rs) and *)
(* the script CLAIM_STOCK_SCRIPT it sends.  Redis runs a script whole, so  *)
(* one script is one step; its answer may be lost on the way back, and the *)
(* client, who was told 500, tries again.                                  *)
(*                                                                         *)
(* One item, hence one stock key and one users key; items do not meet.     *)
(* The order cache has the same prefix (orders/mod.rs, redis_stock_key), so *)
(* that a SKU with the text of the item id, or "users:" before it, lets    *)
(* the inventory worker overwrite or delete one of these keys.             *)
(***************************************************************************)
EXTENDS Integers, FiniteSets

CONSTANTS
  Users,          \* user_key values
  InitialStocks,  \* initial_stock values of requests that a Lua number holds exactly
                  \* and prints without an exponent; -1 when it is missing
  NoKey,          \* the stock key does not exist
  SkuKeys,        \* which of the keys "stock" and "users" a SKU leads to as well
  MaxRefreshes    \* bound on the writes of the inventory worker to each of them

ASSUME ClaimsAssumption ==
  /\ IsFiniteSet(Users)
  /\ InitialStocks \subseteq Int
  /\ NoKey \notin Int
  /\ SkuKeys \subseteq {"stock", "users"}
  /\ MaxRefreshes \in Nat

VARIABLES
  stock,    \* value at demo:stock:{item_id}
  holders,  \* members of demo:stock:users:{item_id}
  usersKey, \* type of that key: a "string" when the worker has SET it
  answer,   \* per user: the answer to the latest request
  opening,  \* history: the value the stock key was created with
  granted,  \* history: units handed out to each user
  foreign   \* history: writes of the inventory worker to each key

claimVars == <<stock, holders, usersKey, answer, opening, granted, foreign>>

Answers == {"applied", "duplicate", "unavailable", "error"}

ClaimsTypeOK ==
  /\ stock \in Nat \union {NoKey}
  /\ holders \subseteq Users
  /\ usersKey \in {"set", "string"}
  /\ usersKey = "string" => holders = {}
  /\ answer \in [Users -> Answers \union {"none"}]
  /\ opening \in Nat \union {NoKey}
  /\ granted \in [Users -> Nat]
  /\ foreign \in [{"stock", "users"} -> 0..MaxRefreshes]

ClaimsInit ==
  /\ stock = NoKey
  /\ holders = {}
  /\ answer = [u \in Users |-> "none"]
  /\ opening = NoKey
  /\ usersKey = "set"
  /\ granted = [u \in Users |-> 0]
  /\ foreign = [k \in {"stock", "users"} |-> 0]

-----------------------------------------------------------------------------
(* Helpers *)

\* Fault: the request sets the stock whether it exists or not.
OpenedAnew(initial) == IF initial >= 0 THEN initial ELSE stock

\* The stock key once the script has created it, if it may.
Opened(initial) ==
  IF stock = NoKey /\ initial >= 0 THEN initial ELSE stock

\* Fault: the last unit can be claimed twice.
SoldOutLate(s) == s < 0

\* if stock <= 0
SoldOut(s) == s <= 0

\* Fault: the answer for a sold-out item comes before that for a holder.
HolderLate(u, s) == u \in holders /\ ~SoldOut(s)

\* SISMEMBER, asked before the stock is looked at
Holder(u, s) == u \in holders

\* The answer arrives, or the connection breaks first.
Answer(u, a) == answer' \in {[answer EXCEPT ![u] = b] : b \in {a, "error"}}

-----------------------------------------------------------------------------
(* The branches of the script *)

\* SET when the stock key is missing; no later error takes it back.
Open(initial) ==
  /\ Opened(initial) # NoKey
  /\ opening' = IF stock = NoKey THEN Opened(initial) ELSE opening

\* {0, -1}: no stock and no valid initial stock
Unopened(u, initial) ==
  /\ Opened(initial) = NoKey
  /\ Answer(u, "unavailable")
  /\ UNCHANGED <<stock, holders, usersKey, opening, granted, foreign>>

\* SISMEMBER on a string is an error.
WrongType(u, initial) ==
  /\ Open(initial)
  /\ usersKey = "string"
  /\ stock' = Opened(initial)
  /\ answer' = [answer EXCEPT ![u] = "error"]
  /\ UNCHANGED <<holders, usersKey, granted, foreign>>

\* {2, currentStock}
Duplicate(u, initial) ==
  /\ Open(initial)
  /\ usersKey = "set"
  /\ Holder(u, Opened(initial))
  /\ stock' = Opened(initial)
  /\ Answer(u, "duplicate")
  /\ UNCHANGED <<holders, usersKey, granted, foreign>>

\* {0, stock}; an initial stock of zero is stored all the same
NoneLeft(u, initial) ==
  /\ Open(initial)
  /\ usersKey = "set"
  /\ ~Holder(u, Opened(initial))
  /\ SoldOut(Opened(initial))
  /\ stock' = Opened(initial)
  /\ Answer(u, "unavailable")
  /\ UNCHANGED <<holders, usersKey, granted, foreign>>

\* {1, newStock}
Granted(u, initial) ==
  /\ Open(initial)
  /\ usersKey = "set"
  /\ ~Holder(u, Opened(initial))
  /\ ~SoldOut(Opened(initial))
  /\ stock' = Opened(initial) - 1
  /\ holders' = holders \union {u}
  /\ granted' = [granted EXCEPT ![u] = @ + 1]
  /\ Answer(u, "applied")
  /\ UNCHANGED <<usersKey, foreign>>

\* Redis is not reached: 500, and nothing ran.
NotReached(u) ==
  /\ answer' = [answer EXCEPT ![u] = "error"]
  /\ UNCHANGED <<stock, holders, usersKey, opening, granted, foreign>>

-----------------------------------------------------------------------------
(* refresh_redis_stock of the inventory worker *)

ForeignWrite(key) ==
  /\ key \in SkuKeys
  /\ foreign[key] < MaxRefreshes
  /\ foreign' = [foreign EXCEPT ![key] = @ + 1]

\* SET with the quantity of the SKU, or DEL when it has no row.
RefreshStock ==
  /\ ForeignWrite("stock")
  /\ stock' \in {s \in InitialStocks : s >= 0} \union {NoKey}
  /\ UNCHANGED <<holders, usersKey, answer, opening, granted>>

RefreshUsers ==
  /\ ForeignWrite("users")
  /\ holders' = {}
  /\ usersKey' \in {"set", "string"}
  /\ UNCHANGED <<stock, answer, opening, granted>>

ClaimsNext ==
  \/ \E u \in Users :
       \/ NotReached(u)
       \/ \E initial \in InitialStocks :
            \/ Unopened(u, initial)
            \/ WrongType(u, initial)
            \/ Duplicate(u, initial)
            \/ NoneLeft(u, initial)
            \/ Granted(u, initial)
  \/ RefreshStock
  \/ RefreshUsers

ClaimsSpec == ClaimsInit /\ [][ClaimsNext]_claimVars

-----------------------------------------------------------------------------
(* Properties *)

\* The units handed out, each as its user and a number.
Units == UNION {{u} \X (1..granted[u]) : u \in Users}

\* Every unit gone from the stock went to a user: lost answers and retries
\* lose none, and no request after the first sets the stock.  Only a write of
\* the inventory worker to the stock key undoes it, not one to the users key.
\* A user gets one unit, whatever happens to the stock key, and one more at
\* most each time the inventory worker wipes the users key.
UnitsAccounted ==
  /\ foreign["stock"] = 0 => Cardinality(Units) = IF stock = NoKey THEN 0 ELSE opening - stock
  /\ \A u \in Users : granted[u] <= 1 + foreign["users"]

\* The latest answer tells the truth about the unit, above all to a client who
\* asks again after a lost answer, when the item may be sold out by now.  A
\* holder is told "unavailable" only when the inventory worker deleted the stock
\* key: the script looks for it first.
AnswerTellsHolding ==
  \A u \in Users :
    foreign["users"] = 0 =>
      /\ answer[u] \in {"applied", "duplicate"} => u \in holders
      /\ answer[u] = "unavailable" /\ foreign["stock"] = 0 => u \notin holders
=============================================================================
