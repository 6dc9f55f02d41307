---------------------------- MODULE BakeryPages ----------------------------
(***************************************************************************)
(* Paging through the bakery table: list_by_cursor and build_cursor_page   *)
(* (handlers/bakery), called again and again by a client with the cursor   *)
(* of the page before, while create and delete change the table.           *)
(*                                                                         *)
(* A row is its id; update changes no id and is left out.  The table is    *)
(* the one the read pool shows: a replica that lags behind shows the same  *)
(* changes later.  An id comes from a sequence and is never used again,    *)
(* but rows may appear in another order than their ids.                    *)
(***************************************************************************)
EXTENDS Integers, FiniteSets, Sequences

CONSTANTS
  Ids,         \* ids the sequence can give out
  Sizes,       \* size parameters of requests, 0 for a missing one
  DefaultSize, \* page size when none is asked for; ten in the code
  NoCursor     \* no after parameter, or no next_cursor

ASSUME PagesAssumption ==
  /\ Ids \subseteq Nat
  /\ Sizes \subseteq Nat
  /\ DefaultSize \in Nat \ {0}
  /\ NoCursor \notin Nat

VARIABLES
  rows,    \* ids in the table
  used,    \* ids given out so far
  scan,    \* the client is "paging" or "done"
  cursor,  \* the after parameter of its next request
  seen,    \* ids it was shown, in order
  steady   \* history: rows that are in the table since the first request

pagesVars == <<rows, used, scan, cursor, seen, steady>>

PagesTypeOK ==
  /\ used \subseteq Ids
  /\ rows \subseteq used
  /\ scan \in {"new", "paging", "done"}
  /\ cursor \in Ids \union {NoCursor}
  /\ seen \in Seq(Ids)
  /\ steady \subseteq rows

PagesInit ==
  /\ rows = {}
  /\ used = {}
  /\ scan = "new"
  /\ cursor = NoCursor
  /\ seen = <<>>
  /\ steady = {}

-----------------------------------------------------------------------------
(* Helpers *)

\* sanitized_cursor_page_size
PageSize(size) == IF size = 0 THEN DefaultSize ELSE size

\* Fault: the comparison lets the cursor's own row in.
MatchingFrom(after) == {i \in rows : after = NoCursor \/ i >= after}

\* WHERE ($1 IS NULL OR id > $1)
Matching(after) == {i \in rows : after = NoCursor \/ i > after}

Below(S, i) == {k \in S : k < i}

\* ORDER BY id LIMIT n
Lowest(S, n) == {i \in S : Cardinality(Below(S, i)) < n}

\* The sequences of all ids of S by size; a finite S has one.
InOrder(S) ==
  {p \in [1..Cardinality(S) -> S] :
     /\ \A i, k \in 1..Cardinality(S) : i < k => p[i] < p[k]
     /\ \A id \in S : \E i \in 1..Cardinality(S) : p[i] = id}

\* The one extra row tells that there is another page.
HasMore(fetched, size) == Cardinality(fetched) > size

\* Fault: the cursor is the extra row, which is not on the page.
CursorExtraRow(fetched, size) ==
  IF HasMore(fetched, size) THEN CHOOSE i \in fetched : \A k \in fetched : k <= i ELSE NoCursor

\* Fault: the last page names a cursor too, of no row.
NextCursorZero(fetched, size) ==
  IF HasMore(fetched, size)
  THEN CHOOSE i \in Lowest(fetched, size) : \A k \in Lowest(fetched, size) : k <= i
  ELSE 0

\* build_cursor_page: the last row that is left after truncate.
NextCursor(fetched, size) ==
  IF HasMore(fetched, size)
  THEN CHOOSE i \in Lowest(fetched, size) : \A k \in Lowest(fetched, size) : k <= i
  ELSE NoCursor

-----------------------------------------------------------------------------
(* Actions *)

Create(i) ==
  /\ i \in Ids \ used
  /\ rows' = rows \union {i}
  /\ used' = used \union {i}
  /\ UNCHANGED <<scan, cursor, seen, steady>>

Delete(i) ==
  /\ i \in rows
  /\ rows' = rows \ {i}
  /\ steady' = steady \ {i}
  /\ UNCHANGED <<used, scan, cursor, seen>>

\* One request of the client, with any page size.
Page(size) ==
  LET n       == PageSize(size)
      fetched == Lowest(Matching(cursor), n + 1)
  IN
  /\ scan # "done"
  /\ \E page \in InOrder(Lowest(fetched, n)) : seen' = seen \o page
  /\ cursor' = NextCursor(fetched, n)
  /\ scan' = IF HasMore(fetched, n) THEN "paging" ELSE "done"
  /\ steady' = IF scan = "new" THEN rows ELSE steady
  /\ UNCHANGED <<rows, used>>

PagesNext ==
  \/ \E i \in Ids : Create(i) \/ Delete(i)
  \/ \E size \in Sizes : Page(size)

PagesSpec == PagesInit /\ [][PagesNext]_pagesVars

-----------------------------------------------------------------------------
(* Properties *)

\* No row is shown twice and the pages follow each other in id order, also
\* when rows come and go between two requests and page sizes change.
NoRowTwice == \A i, k \in 1..Len(seen) : i < k => seen[i] < seen[k]

\* A client that paged to the end has seen every row that was there all along:
\* the cursor skips nothing when rows before or after it are deleted.
SteadyRowsSeen == scan = "done" => steady \subseteq {seen[i] : i \in 1..Len(seen)}
=============================================================================
