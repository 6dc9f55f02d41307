----------------------------- MODULE HotRanking -----------------------------
(***************************************************************************)
(* The ranking of hot items: incr_hot_score and hot_top                    *)
(* (handlers/stat/hot.rs).  An increment is two commands to Redis, ZINCRBY *)
(* and EXPIRE on the one key of the ranking; each answer may be lost, and  *)
(* the handler may be dropped between them with its client.  A client who  *)
(* was not told 200 may ask again, which is another increment.             *)
(*                                                                         *)
(* A delta is 1, the default.  Time is left out: a key with a limit        *)
(* expires at some time.                                                   *)
(***************************************************************************)
EXTENDS Integers, FiniteSets, FiniteSetsExt

CONSTANTS
  Clients,       \* clients, one request at a time each
  Items,         \* item_id values
  MaxIncrements, \* bound on the increments in one life of the key
  DefaultTop,    \* DEFAULT_TOP_LIMIT; ten in the code
  HalfRange      \* half the values of usize, the first that isize has not; 2 ^ 63 in the code

ASSUME RankingAssumption ==
  /\ IsFiniteSet(Clients) /\ IsFiniteSet(Items)
  /\ MaxIncrements \in Nat
  /\ HalfRange \in Nat
  /\ DefaultTop \in 1..HalfRange
  /\ Cardinality(Items) <= 2 * HalfRange  \* an item_id is an i64

VARIABLES
  score,    \* per item: its score in demo:hot:zset, 0 when it is no member
  life,     \* the key is "absent", "endless" (no expiry) or "limited"
  call,     \* per client: the increment between its two commands
  told,     \* history: per item, increments of this life that were answered 200
  failed    \* history: per item, increments of this life that were not

rankingVars == <<score, life, call, told, failed>>

Idle    == [item |-> "none"]
\* counted: the increment is part of this life of the key.
Between == [item : Items, counted : BOOLEAN]
Zero    == [i \in Items |-> 0]

RankingTypeOK ==
  /\ score \in [Items -> Nat]
  /\ life \in {"absent", "endless", "limited"}
  /\ life = "absent" <=> score = Zero
  /\ call \in [Clients -> {Idle} \union Between]
  /\ told \in [Items -> Nat] /\ failed \in [Items -> Nat]

RankingInit ==
  /\ score = Zero
  /\ life = "absent"
  /\ call = [c \in Clients |-> Idle]
  /\ told = Zero /\ failed = Zero

-----------------------------------------------------------------------------
(* incr_hot_score *)

\* Fault: ZADD instead of ZINCRBY.
ScoreSet(i) == [score EXCEPT ![i] = 1]

\* ZINCRBY
ScoreAfter(i) == [score EXCEPT ![i] = @ + 1]

\* Redis has no key without members.
LifeAfterIncrement == IF life = "absent" THEN "endless" ELSE life

\* Fault: EXPIRE with the option XX, for keys that have an expiry.
LifeExtended == life

\* EXPIRE with a number of seconds; without a key it does nothing.
LifeAfterExpire == IF life = "absent" THEN "absent" ELSE "limited"

Count(history, i) == [history EXCEPT ![i] = @ + 1]

\* The bound on increments.
Bounded == MapThenSumSet(LAMBDA i : score[i], Items) < MaxIncrements

\* ZINCRBY ran; its answer arrives, or the client gets 500 or is gone.
Zincrby(c, i) ==
  /\ call[c] = Idle
  /\ Bounded
  /\ score' = ScoreAfter(i)
  /\ life' = LifeAfterIncrement
  /\ \/ /\ call' = [call EXCEPT ![c] = [item |-> i, counted |-> TRUE]]
        /\ UNCHANGED failed
     \/ /\ failed' = Count(failed, i)
        /\ UNCHANGED call
  /\ UNCHANGED told

\* The request of c ends, with or without a 200; h is told or failed.
Counted(c, history) == IF call[c].counted THEN Count(history, call[c].item) ELSE history

Ends(c, ok) ==
  /\ call' = [call EXCEPT ![c] = Idle]
  /\ told' = IF ok THEN Counted(c, told) ELSE told
  /\ failed' = IF ok THEN failed ELSE Counted(c, failed)

\* The key is gone, and with it every score; increments in the middle of their
\* commands go on.
KeyGone(calls) ==
  /\ life' = "absent"
  /\ score' = Zero /\ told' = Zero /\ failed' = Zero
  /\ call' = [c \in Clients |-> IF calls[c] = Idle THEN Idle ELSE [calls[c] EXCEPT !.counted = FALSE]]

\* EXPIRE ran, with a ttl_seconds above zero; its answer may be lost.
Expire(c) ==
  /\ call[c] # Idle
  /\ life' = LifeAfterExpire
  /\ \E ok \in BOOLEAN : Ends(c, ok)
  /\ UNCHANGED score

\* EXPIRE ran, with a ttl_seconds of zero: a DEL.
ExpireAtOnce(c) ==
  /\ call[c] # Idle
  /\ KeyGone([call EXCEPT ![c] = Idle])

\* EXPIRE does not arrive, or Redis refuses a ttl_seconds too large for its
\* clock, or the handler is dropped: 500 or nothing, and the score stays.
ExpireFails(c) ==
  /\ call[c] # Idle
  /\ Ends(c, FALSE)
  /\ UNCHANGED <<score, life>>

\* External: Redis removes the key when its time is up.
TimeIsUp ==
  /\ life = "limited"
  /\ KeyGone(call)

RankingNext ==
  \/ \E c \in Clients :
       \/ \E i \in Items : Zincrby(c, i)
       \/ Expire(c) \/ ExpireAtOnce(c) \/ ExpireFails(c)
  \/ TimeIsUp

RankingSpec == RankingInit /\ [][RankingNext]_rankingVars

-----------------------------------------------------------------------------
(* hot_top: it reads with one command and changes nothing *)

\* Values of limit; it is a usize.
Limits == 0..(2 * HalfRange - 1)

\* sanitized_top_limit
TopLimit(limit) == IF limit = 0 THEN DefaultTop ELSE limit

\* Fault: the index of the last entry is taken for their number.
StopPast(limit) == TopLimit(limit)

\* limit.saturating_sub(1) as isize
Stop(limit) ==
  LET n == TopLimit(limit) - 1 IN
  IF n < HalfRange THEN n ELSE n - 2 * HalfRange

Members == {i \in Items : score[i] > 0}

\* ZREVRANGE 0 stop: a negative index counts from the end.
Entries(stop) ==
  IF stop >= 0 THEN Min({stop + 1, Cardinality(Members)})
  ELSE Max({0, Cardinality(Members) + stop + 1})

\* What hot_top may answer with; equal scores come in any order.
TopItems(limit) ==
  {S \in SUBSET Members :
     /\ Cardinality(S) = Entries(Stop(limit))
     /\ \A i \in S, k \in Members \ S : score[i] >= score[k]}

-----------------------------------------------------------------------------
(* Properties *)

\* Increments of this life between their commands.
Running(i) == {c \in Clients : call[c] \in [item : {i}, counted : {TRUE}]}

\* A score counts each increment once that a client was told of, and beyond
\* these only the ones that failed half-way or still run: a client who asks
\* again after a 500 is the only way to count twice.
ScoreExplained ==
  \A i \in Items :
    /\ told[i] <= score[i]
    /\ score[i] <= told[i] + failed[i] + Cardinality(Running(i))

\* A ranking has no expiry only while increments run, or after one that failed
\* between its two commands.
EndlessExplained ==
  life = "endless" => \E i \in Items : Running(i) # {} \/ failed[i] > 0

\* hot_top answers with the highest scores, never with more than it was asked
\* for; and with all of these up to the largest limit whose index is still
\* positive as an isize.
TopIsRight ==
  \A limit \in Limits : \A S \in TopItems(limit) :
    LET wanted == Min({TopLimit(limit), Cardinality(Members)}) IN
    /\ Cardinality(S) <= wanted
    /\ \A i \in S, k \in Members \ S : score[i] >= score[k]
    /\ TopLimit(limit) <= HalfRange => Cardinality(S) = wanted
=============================================================================
