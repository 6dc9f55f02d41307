-------------------------- MODULE ChatRooms_proofs --------------------------
(***************************************************************************)
(* Membership and delivery of ChatRooms for any connections, rooms, length *)
(* of the history and number of commands.                                  *)
(*                                                                         *)
(* IInv is about who hears of what: the two views of membership agree, and *)
(* nobody hears of a room what happened without them.  Events still wait   *)
(* in a task while members come and go, so it is said of every waiting     *)
(* dispatch, and stays true because memberships only grow until they end,  *)
(* and end behind everything that was dispatched before.                   *)
(*                                                                         *)
(* DInv is about how often and in which order: one task owes a change or   *)
(* it has arrived, what waits in a task is of one command and of one       *)
(* version for each room, and no event is ahead of its room.  Every        *)
(* command keeps it for the same reasons, which Commanded states once.     *)
(***************************************************************************)
EXTENDS ChatRooms, FiniteSetTheorems, TLAPS

\* The membership s spans the change e.
Covers(s, e) == s.room = e.room /\ s.born = e.born /\ e.version \in During(s)

\* A membership without an end is one of the members of this life of the room.
OpenStays ==
  \A c \in Connections : \A s \in stays[c] :
    s.until = 0 => /\ c \in members[s.room]
                   /\ s.born = births[s.room]
                   /\ s.from <= version[s.room]

\* Each member has a membership without an end.
MembersStay ==
  \A c \in Connections, r \in Rooms :
    c \in members[r] => \E s \in stays[c] : s.room = r /\ s.until = 0

\* A connection that closed has no channel.
ClosedIsEmpty == \A c \in Connections : session[c] = "closed" => BagToSet(received[c]) = {}

\* A change that waits to be sent goes to somebody who was there, or is gone.
OwedFromInside ==
  \A d \in Connections : \A x \in pending[d] :
    Changes(x.event) => session[x.to] = "closed" \/ \E s \in stays[x.to] : Covers(s, x.event)

IInv ==
  /\ TypeOK
  /\ MembershipAgrees
  /\ OpenStays /\ MembersStay
  /\ ClosedIsEmpty
  /\ OwedFromInside
  /\ NothingFromOutside

-----------------------------------------------------------------------------
(* What else is invariant: how often and in which order events arrive *)

\* An event of the present life of its room, or of an earlier one.
Past(e) ==
  /\ e.born <= births[e.room]
  /\ e.born = births[e.room] /\ e.room \in rooms => e.version <= version[e.room]

\* Events that wait or arrived, and memberships, are of the past.
PastEvents ==
  /\ \A d \in Connections : \A x \in pending[d] : Past(x.event)
  /\ \A c \in Connections : \A e \in BagToSet(received[c]) : Past(e)
  /\ \A c \in Connections : \A s \in stays[c] :
       /\ s.born <= births[s.room]
       /\ s.born = births[s.room] /\ s.room \in rooms => s.until <= version[s.room]

\* What waits in one task is of one command: one version for each room, one
\* change for each receiver.
OneCommand ==
  \A d \in Connections : \A x, y \in pending[d] :
    /\ x.event.by = d
    /\ x.event.room = y.event.room => x.event.version = y.event.version
    /\ /\ x.to = y.to /\ x.event.room = y.event.room
       /\ Changes(x.event) /\ Changes(y.event)
       => x = y

\* What waits in a task is not older than what the task has sent.
SentInOrder ==
  \A d, c \in Connections : \A x \in pending[d] : \A f \in BagToSet(received[c]) :
    f.by = d /\ f.room = x.event.room /\ f.born = x.event.born => f.version <= x.event.version

\* A history is in the order of the versions.
Sorted(h) == \A i, j \in 1..Len(h) : i < j => h[i] < h[j]
HistorySorted == \A r \in Rooms : Sorted(recent[r])

\* A version that the history holds, or held and dropped.
In(v, h) == (\E i \in 1..Len(h) : h[i] = v) \/ (Len(h) = RecentLimit /\ v < h[1])

\* A message of the present life of its room is in the history or was dropped
\* from it.
Remembered(e) ==
  e.kind = "room_message" /\ e.room \in rooms /\ e.born = births[e.room] =>
    In(e.version, recent[e.room])

MessagesRemembered ==
  /\ \A d \in Connections : \A x \in pending[d] : Remembered(x.event)
  /\ \A c \in Connections : \A e \in BagToSet(received[c]) : Remembered(e)

\* Channels are bags; a connection that is not there yet has no memberships.
ChannelsAreBags == \A c \in Connections : IsABag(received[c])
NewIsBlank == \A c \in Connections : session[c] = "new" => stays[c] = {}

\* One task owes the change, or it has arrived once.
Once(c, r, born, v) ==
  \/ /\ \E d : Due(c, r, born, v) = {d}
     /\ Arrived(c, r, born, v) = {}
  \/ /\ Due(c, r, born, v) = {}
     /\ \E e : Arrived(c, r, born, v) = {e} /\ received[c][e] = 1

OnceEach ==
  \A c \in Connections : session[c] = "open" =>
    \A s \in stays[c] : \A v \in During(s) : Once(c, s.room, s.born, v)

DInv ==
  /\ PastEvents /\ OneCommand /\ SentInOrder
  /\ HistorySorted /\ MessagesRemembered
  /\ ChannelsAreBags /\ NewIsBlank
  /\ OnceEach

-----------------------------------------------------------------------------
(* Lemmas about the data *)

\* A sequence over a set is one over any larger set.
LEMMA SeqWiden == ASSUME NEW S, NEW T, S \subseteq T, NEW s \in Seq(S) PROVE s \in Seq(T)
  OBVIOUS

\* Versions up to a are versions up to b.
LEMMA VersionsWiden ==
  ASSUME NEW a \in Nat, NEW b \in Nat, a <= b, NEW s \in Seq(1..a)
  PROVE  s \in Seq(1..b)
<1> DEFINE S == 1..a
           T == 1..b
<1>1. S \subseteq T OBVIOUS
<1>2. s \in Seq(S) OBVIOUS
<1> HIDE DEF S, T
<1>3. s \in Seq(T) BY <1>1, <1>2, SeqWiden
<1> QED BY <1>3 DEF T

\* A history stays within its limit, and its entries are versions of the room.
LEMMA CappedKeeps ==
  ASSUME NEW v \in Nat, NEW s \in Seq(1..v), Len(s) <= RecentLimit
  PROVE  Capped(Append(s, v + 1)) \in Seq(1..(v + 1)) /\ Len(Capped(Append(s, v + 1))) <= RecentLimit
<1> DEFINE a == Append(s, v + 1)
<1>1. s \in Seq(1..(v + 1)) BY VersionsWiden, v + 1 \in Nat, v <= v + 1
<1>2. a \in Seq(1..(v + 1)) /\ Len(a) = Len(s) + 1 BY <1>1
<1> HIDE DEF a
<1>3. CASE Len(a) > RecentLimit
  <2>1. a # << >> BY <1>2
  <2>2. Tail(a) \in Seq(1..(v + 1)) /\ Len(Tail(a)) = Len(a) - 1 BY <1>2, <2>1
  <2>3. RecentLimit \in Nat /\ Len(s) \in Nat BY ChatAssumption
  <2> QED BY <1>2, <1>3, <2>2, <2>3 DEF Capped, a
<1>4. CASE ~(Len(a) > RecentLimit)
  <2>1. RecentLimit \in Nat /\ Len(a) \in Nat BY ChatAssumption, <1>2
  <2> QED BY <1>2, <1>4, <2>1 DEF Capped, a
<1> QED BY <1>3, <1>4

\* The events of a channel after one more.
LEMMA OneMore == ASSUME NEW B, NEW e PROVE BagToSet(B (+) SetToBag({e})) = BagToSet(B) \union {e}
  BY DEF BagToSet, (+), SetToBag

\* A new channel is empty.
LEMMA NoneYet == BagToSet(EmptyBag) = {}
  BY DEF BagToSet, EmptyBag, SetToBag

\* Dispatches of one change: to registered targets, with its room and version.
LEMMA DispatchesAre ==
  ASSUME NEW targets \in SUBSET Connections, NEW kind \in Kinds, NEW r \in Rooms, NEW v \in Nat,
         NEW c \in Connections, births'[r] \in Nat
  PROVE  /\ DispatchTo(targets, kind, r, v, c) \subseteq Dispatch
         /\ \A x \in DispatchTo(targets, kind, r, v, c) :
              /\ x.to \in targets /\ x.event.kind = kind
              /\ x.event.room = r /\ x.event.version = v /\ x.event.born = births'[r]
  BY DEF DispatchTo, Dispatch, Event

\* A member's membership spans the change that is made now.
LEMMA MemberHears ==
  ASSUME IInv, NEW k \in Connections, NEW r \in Rooms, k \in members[r]
  PROVE  \E s \in stays[k] : /\ s \in Stay /\ s.room = r /\ s.until = 0
                             /\ s.born = births[r] /\ s.from <= version[r]
<1>1. PICK s \in stays[k] : s.room = r /\ s.until = 0 BY DEF IInv, MembersStay
<1>2. s.born = births[r] /\ s.from <= version[r] BY <1>1 DEF IInv, OpenStays
<1>3. s \in Stay BY DEF IInv, TypeOK
<1> QED BY <1>1, <1>2, <1>3

-----------------------------------------------------------------------------
(* Delivery, for every step alike *)

\* When memberships go on covering what they covered, new dispatches go to
\* members, and channels get what was pending, both statements are kept.
LEMMA CoverCarries ==
  ASSUME IInv,
         \A k \in Connections : session[k] = "closed" => session'[k] = "closed",
         \A k \in Connections : \A s \in stays[k] : \A e \in Event :
           Covers(s, e) => session'[k] = "closed" \/ \E t \in stays'[k] : Covers(t, e)',
         \A d \in Connections : \A x \in pending'[d] :
           \/ x \in pending[d]
           \/ ~Changes(x.event)
           \/ session'[x.to] = "closed"
           \/ \E t \in stays'[x.to] : Covers(t, x.event)',
         \A k \in Connections : \A e \in BagToSet(received'[k]) :
           /\ session'[k] # "closed"
           /\ \/ e \in BagToSet(received[k])
              \/ \E d \in Connections : \E x \in pending[d] : x.to = k /\ x.event = e
  PROVE  ClosedIsEmpty' /\ OwedFromInside' /\ NothingFromOutside'
<1>1. ClosedIsEmpty' BY DEF ClosedIsEmpty
<1>2. \A d \in Connections : \A x \in pending[d] : x.to \in Connections /\ x.event \in Event
  BY DEF IInv, TypeOK, Dispatch
<1>3. \A k \in Connections : BagToSet(received[k]) \subseteq Event BY DEF IInv, TypeOK
<1>4. ASSUME NEW d \in Connections, NEW x \in pending'[d], Changes(x.event)
      PROVE  session'[x.to] = "closed" \/ \E t \in stays'[x.to] : Covers(t, x.event)'
  <2>1. CASE x \in pending[d]
    <3>1. x.to \in Connections /\ x.event \in Event BY <2>1, <1>2
    <3>2. session[x.to] = "closed" \/ \E s \in stays[x.to] : Covers(s, x.event)
      BY <1>4, <2>1 DEF IInv, OwedFromInside
    <3> QED BY <3>1, <3>2
  <2> QED BY <1>4, <2>1
<1>5. OwedFromInside' BY <1>4 DEF OwedFromInside, Changes, Covers, During
<1>6. ASSUME NEW k \in Connections, NEW e \in BagToSet(received'[k]), Changes(e)
      PROVE  \E t \in stays'[k] : Covers(t, e)'
  <2>1. CASE e \in BagToSet(received[k])
    <3>1. PICK s \in stays[k] : Covers(s, e) BY <1>6, <2>1 DEF IInv, NothingFromOutside, Covers
    <3>2. e \in Event BY <2>1, <1>3
    <3> QED BY <3>1, <3>2
  <2>2. ASSUME NEW d \in Connections, NEW x \in pending[d], x.to = k, x.event = e
        PROVE  \E t \in stays'[k] : Covers(t, e)'
    <3>1. session[k] # "closed" OBVIOUS
    <3>2. PICK s \in stays[k] : Covers(s, e) BY <1>6, <2>2, <3>1 DEF IInv, OwedFromInside
    <3>3. e \in Event BY <1>2, <2>2
    <3> QED BY <3>2, <3>3
  <2> QED BY <2>1, <2>2
<1>7. NothingFromOutside' BY <1>6 DEF NothingFromOutside, Changes, Covers, During
<1> QED BY <1>1, <1>5, <1>7

-----------------------------------------------------------------------------
(* Actions *)

\* A new connection is in no room yet.
LEMMA RegisterKeeps == ASSUME IInv, NEW c \in Connections, Register(c) PROVE IInv'
<1> USE DEF Register, hubVars
<1>1. TypeOK' BY DEF IInv, TypeOK
<1>2. MembershipAgrees' BY DEF IInv, TypeOK, MembershipAgrees, Registered
<1>3. OpenStays' /\ MembersStay' BY DEF IInv, OpenStays, MembersStay
<1>4. \A k \in Connections : session'[k] = "closed" <=> session[k] = "closed" BY DEF IInv, TypeOK
<1>5. \A s, e : Covers(s, e) <=> Covers(s, e)' BY DEF Covers, During
<1>6. \A k \in Connections : session[k] = "closed" => BagToSet(received[k]) = {} BY DEF IInv, ClosedIsEmpty
<1>7. ClosedIsEmpty' /\ OwedFromInside' /\ NothingFromOutside' BY <1>4, <1>5, <1>6, CoverCarries
<1> QED BY <1>1, <1>2, <1>3, <1>7 DEF IInv

\* A deaf connection stays where it is, with an empty channel.
LEMMA WriterFailsKeeps == ASSUME IInv, NEW c \in Connections, WriterFails(c) PROVE IInv'
<1> USE DEF WriterFails, hubVars
<1>1. \A k \in Connections : BagToSet(received'[k]) = IF k = c THEN {} ELSE BagToSet(received[k])
  BY NoneYet DEF IInv, TypeOK
<1>2. TypeOK' BY <1>1 DEF IInv, TypeOK
<1>3. MembershipAgrees' BY DEF IInv, TypeOK, MembershipAgrees, Registered
<1>4. OpenStays' /\ MembersStay' BY DEF IInv, OpenStays, MembersStay
<1>5. \A k \in Connections : session'[k] = "closed" <=> session[k] = "closed" BY DEF IInv, TypeOK
<1>6. \A s, e : Covers(s, e) <=> Covers(s, e)' BY DEF Covers, During
<1>7. \A k \in Connections : session[k] = "closed" => BagToSet(received[k]) = {} BY DEF IInv, ClosedIsEmpty
<1>8. ClosedIsEmpty' /\ OwedFromInside' /\ NothingFromOutside' BY <1>1, <1>5, <1>6, <1>7, CoverCarries
<1> QED BY <1>2, <1>3, <1>4, <1>8 DEF IInv

\* Answers to one's own command about a room are no changes.
LEMMA AskingKeeps ==
  ASSUME IInv, NEW c \in Connections,
         Refuse(c) \/ \E r \in Rooms : JoinAgain(c, r) \/ Sync(c, r)
  PROVE  IInv'
<1>1. /\ UNCHANGED <<session, hubVars, received, births, stays>>
      /\ commands < MaxCommands /\ commands' = commands + 1
  BY DEF JoinAgain, Sync, Refuse, Command
<1>2. /\ pending' \in [Connections -> SUBSET Dispatch]
      /\ \A d \in Connections : \A x \in pending'[d] : x \in pending[d] \/ ~Changes(x.event)
  <2>1. pending \in [Connections -> SUBSET Dispatch] BY DEF IInv, TypeOK
  <2>2. CASE Refuse(c) BY <2>1, <2>2 DEF Refuse
  <2>3. ASSUME NEW r \in Rooms, NEW kind \in {"joined_room", "room_state"},
               pending' = [pending EXCEPT ![c] = @ \union DispatchTo({c}, kind, r, version[r], c)]
        PROVE  <1>2
    <3> DEFINE new == DispatchTo({c}, kind, r, version[r], c)
    <3>1. births'[r] \in Nat /\ version[r] \in Nat BY <1>1 DEF IInv, TypeOK
    <3>2. {c} \in SUBSET Connections /\ kind \in Kinds BY DEF Kinds
    <3>4. new \subseteq Dispatch /\ \A x \in new : x.event.kind = kind BY <3>1, <3>2, DispatchesAre
    <3> HIDE DEF new
    <3>3. pending' = [pending EXCEPT ![c] = @ \union new] BY <2>3 DEF new
    <3> QED BY <2>1, <3>3, <3>4 DEF Changes
  <2>4. ASSUME NEW r \in Rooms, JoinAgain(c, r) PROVE <1>2
    <3>1. DispatchTo(Announced(c, r), "presence_changed", r, version[r], c) = {}
      BY <2>4 DEF JoinAgain, Announced, DispatchTo
    <3>2. pending' = [pending EXCEPT ![c] = @ \union DispatchTo({c}, "joined_room", r, version[r], c)]
      BY <2>4, <3>1 DEF JoinAgain
    <3> QED BY <2>3, <3>2
  <2>5. ASSUME NEW r \in Rooms, Sync(c, r) PROVE <1>2 BY <2>3, <2>5 DEF Sync
  <2> QED BY <2>2, <2>4, <2>5
<1>3. TypeOK'
  <2>1. commands' \in 0..MaxCommands BY <1>1, ChatAssumption DEF IInv, TypeOK
  <2> QED BY <1>1, <1>2, <2>1 DEF IInv, TypeOK, hubVars
<1>4. MembershipAgrees' BY <1>1 DEF IInv, MembershipAgrees, Registered, hubVars
<1>5. OpenStays' /\ MembersStay' BY <1>1 DEF IInv, OpenStays, MembersStay, hubVars
<1>6. \A s, e : Covers(s, e) <=> Covers(s, e)' BY <1>1 DEF Covers, During, hubVars
<1>7. \A k \in Connections : session[k] = "closed" => BagToSet(received[k]) = {} BY DEF IInv, ClosedIsEmpty
<1>8. ClosedIsEmpty' /\ OwedFromInside' /\ NothingFromOutside' BY <1>1, <1>2, <1>6, <1>7, CoverCarries
<1> QED BY <1>3, <1>4, <1>5, <1>8 DEF IInv

\* A dispatch that is sent was owed to its receiver.
LEMMA DeliverKeeps ==
  ASSUME IInv, NEW c \in Connections, NEW d \in pending[c], Deliver(c, d)
  PROVE  IInv'
<1>1. /\ pending' = [pending EXCEPT ![c] = @ \ {d}]
      /\ UNCHANGED <<session, hubVars, births, stays, commands>>
  BY DEF Deliver
<1>2. d \in Dispatch BY DEF IInv, TypeOK
<1>3. /\ DOMAIN received' = Connections
      /\ \A k \in Connections : BagToSet(received'[k]) =
           IF k = d.to /\ session[k] = "open" THEN BagToSet(received[k]) \union {d.event} ELSE BagToSet(received[k])
  BY <1>2, OneMore DEF IInv, TypeOK, Deliver, Dispatch
<1>4. TypeOK' BY <1>1, <1>2, <1>3 DEF IInv, TypeOK, Dispatch, hubVars
<1>5. MembershipAgrees' BY <1>1 DEF IInv, MembershipAgrees, Registered, hubVars
<1>6. OpenStays' /\ MembersStay' BY <1>1 DEF IInv, OpenStays, MembersStay, hubVars
<1>7. \A s, e : Covers(s, e) <=> Covers(s, e)' BY <1>1 DEF Covers, During, hubVars
<1>8. \A k \in Connections : session[k] = "closed" => BagToSet(received[k]) = {} BY DEF IInv, ClosedIsEmpty
<1>9. \A k \in Connections : \A x \in pending'[k] : x \in pending[k] BY <1>1 DEF IInv, TypeOK
<1>10. \A k \in Connections : \A e \in BagToSet(received'[k]) :
         session'[k] # "closed" /\ (e \in BagToSet(received[k]) \/ (d.to = k /\ d.event = e))
  BY <1>1, <1>3, <1>8
<1>11. ClosedIsEmpty' /\ OwedFromInside' /\ NothingFromOutside' BY <1>1, <1>7, <1>9, <1>10, CoverCarries
<1> QED BY <1>4, <1>5, <1>6, <1>11 DEF IInv

\* What a command owes to a peer who stays: one new dispatch of its version.
LEMMA PeerHears ==
  ASSUME IInv, NEW k \in Connections, NEW r \in Rooms, k \in members[r],
         NEW e, e.room = r, e.born = births[r], e.version = version[r] + 1,
         version'[r] = version[r] + 1, \A s \in stays[k] : s.until = 0 => s \in stays'[k]
  PROVE  \E t \in stays'[k] : Covers(t, e)'
<1>1. PICK s \in stays[k] : s \in Stay /\ s.room = r /\ s.until = 0 /\ s.born = births[r] /\ s.from <= version[r]
  BY MemberHears
<1>2. s \in stays'[k] BY <1>1
<1>3. version[r] \in Nat /\ s.from \in Nat BY <1>1 DEF IInv, TypeOK, Stay
<1>4. e.version \in (s.from + 1)..version'[r] BY <1>1, <1>3
<1>5. Covers(s, e)' BY <1>1, <1>4 DEF Covers, During
<1> QED BY <1>2, <1>5

\* A new member adds a membership; the others' go on.
LEMMA JoinKeeps == ASSUME IInv, NEW c \in Connections, NEW r \in Rooms, Join(c, r) PROVE IInv'
<1> DEFINE v   == version[r] + 1
           own == DispatchTo({c}, "joined_room", r, v, c)
           new == DispatchTo(Announced(c, r), "presence_changed", r, v, c)
           st  == [room |-> r, born |-> births'[r], from |-> v, until |-> 0]
<1>1. /\ c \in Registered /\ c \notin members[r] /\ commands < MaxCommands /\ commands' = commands + 1
      /\ births' = IF r \in rooms THEN births ELSE [births EXCEPT ![r] = @ + 1]
      /\ rooms' = rooms \union {r}
      /\ members' = [members EXCEPT ![r] = @ \union {c}]
      /\ version' = [version EXCEPT ![r] = v]
      /\ known' = known \union {c}
      /\ joined' = [joined EXCEPT ![c] = @ \union {r}]
      /\ stays' = [stays EXCEPT ![c] = @ \union {st}]
      /\ pending' = [pending EXCEPT ![c] = @ \union (own \union new)]
      /\ UNCHANGED <<session, recent, received>>
  BY DEF Join, Command, Ready
<1>2. version[r] \in Nat /\ births' \in [Rooms -> Nat] /\ v \in Nat BY <1>1 DEF IInv, TypeOK
<1>3. members[r] \in SUBSET Connections /\ {c} \in SUBSET Connections /\ Announced(c, r) = members[r] \ {c}
  BY <1>1 DEF IInv, TypeOK, Announced
<1>4. own \subseteq Dispatch /\ \A x \in own : x.event.kind = "joined_room"
  <2>1. births'[r] \in Nat /\ "joined_room" \in Kinds BY <1>2 DEF Kinds
  <2> HIDE DEF v
  <2> QED BY <1>2, <1>3, <2>1, DispatchesAre
<1>5. /\ new \subseteq Dispatch
      /\ \A x \in new : x.to \in members[r] /\ x.event.room = r /\ x.event.version = v /\ x.event.born = births'[r]
  <2>1. births'[r] \in Nat /\ "presence_changed" \in Kinds BY <1>2 DEF Kinds
  <2>2. Announced(c, r) \in SUBSET Connections BY <1>3
  <2> HIDE DEF v
  <2> QED BY <1>2, <1>3, <2>1, <2>2, DispatchesAre
<1>6. st \in Stay /\ st.room = r /\ st.born = births'[r] /\ st.from = v /\ st.until = 0 BY <1>2 DEF Stay
<1> HIDE DEF own, new, st
<1>7. TypeOK'
  <2>1. \A q \in Rooms : version[q] \in Nat /\ version'[q] \in Nat /\ version[q] <= version'[q]
    BY <1>1, <1>2 DEF IInv, TypeOK
  <2>2. \A q \in Rooms : recent'[q] \in Seq(1..version'[q])
    <3>1. ASSUME NEW q \in Rooms PROVE recent'[q] \in Seq(1..version'[q])
      <4>1. recent'[q] \in Seq(1..version[q]) BY <1>1 DEF IInv, TypeOK
      <4> QED BY <2>1, <4>1, VersionsWiden
    <3> QED BY <3>1
  <2>3. commands' \in 0..MaxCommands BY <1>1, ChatAssumption DEF IInv, TypeOK
  <2>4. version' \in [Rooms -> Nat] BY <1>1, <2>1 DEF IInv, TypeOK
  <2>5. stays' \in [Connections -> SUBSET Stay] BY <1>1, <1>6 DEF IInv, TypeOK
  <2>6. pending' \in [Connections -> SUBSET Dispatch] BY <1>1, <1>4, <1>5 DEF IInv, TypeOK
  <2>7. members' \in [Rooms -> SUBSET Connections] /\ joined' \in [Connections -> SUBSET Rooms]
    BY <1>1 DEF IInv, TypeOK
  <2> QED BY <1>1, <1>2, <2>2, <2>3, <2>4, <2>5, <2>6, <2>7 DEF IInv, TypeOK
<1>8. MembershipAgrees' BY <1>1 DEF IInv, TypeOK, MembershipAgrees, Registered
<1>9. \A k \in Connections : \A s \in stays[k] :
        s \in Stay /\ s \in stays'[k] /\ version[s.room] \in Nat /\ version'[s.room] \in Nat
        /\ version[s.room] <= version'[s.room]
  BY <1>1, <1>2 DEF IInv, TypeOK, Stay
<1>10. OpenStays'
  <2>1. ASSUME NEW k \in Connections, NEW s \in stays[k], s.until = 0
        PROVE  k \in members'[s.room] /\ s.born = births'[s.room] /\ s.from <= version'[s.room]
    <3>1. k \in members[s.room] /\ s.born = births[s.room] /\ s.from <= version[s.room] /\ s \in Stay
      BY <2>1 DEF IInv, OpenStays, TypeOK
    <3>2. s.room \in rooms BY <3>1 DEF IInv, MembershipAgrees, Stay
    <3>3. births'[s.room] = births[s.room] /\ k \in members'[s.room] BY <1>1, <3>1, <3>2 DEF IInv, TypeOK, Stay
    <3>4. s.from \in Nat BY <3>1 DEF Stay
    <3> QED BY <3>1, <3>3, <3>4, <1>9
  <2>2. c \in members'[r] /\ st.from <= version'[r] BY <1>1, <1>2, <1>6 DEF IInv, TypeOK
  <2>3. \A k \in Connections : \A s \in stays'[k] : s \in stays[k] \/ (k = c /\ s = st)
    BY <1>1 DEF IInv, TypeOK
  <2> QED BY <1>6, <2>1, <2>2, <2>3 DEF OpenStays
<1>11. MembersStay'
  <2>1. st \in stays'[c] BY <1>1 DEF IInv, TypeOK
  <2>2. \A k \in Connections, q \in Rooms : k \in members'[q] => k \in members[q] \/ (k = c /\ q = r)
    BY <1>1 DEF IInv, TypeOK
  <2> QED BY <1>6, <1>9, <2>1, <2>2 DEF IInv, MembersStay
<1>12. ASSUME NEW k \in Connections, NEW s \in stays[k], NEW e \in Event, Covers(s, e)
       PROVE  \E t \in stays'[k] : Covers(t, e)'
  <2>1. e.version \in Nat /\ s.from \in Nat /\ s.until \in Nat BY <1>9 DEF Event, Stay
  <2>2. Covers(s, e)' BY <1>9, <1>12, <2>1 DEF Covers, During
  <2> QED BY <1>9, <2>2
<1>13. ASSUME NEW d \in Connections, NEW x \in pending'[d], x \notin pending[d], Changes(x.event)
       PROVE  \E t \in stays'[x.to] : Covers(t, x.event)'
  <2>1. x \in own \union new BY <1>1, <1>13 DEF IInv, TypeOK
  <2>2. x \in new BY <1>4, <1>13, <2>1 DEF Changes
  <2>3. x.to \in members[r] /\ x.to \in Connections BY <1>5, <2>2, <1>3
  <2>4. r \in rooms BY <2>3 DEF IInv, MembershipAgrees
  <2>5. x.event.room = r /\ x.event.version = version[r] + 1 /\ x.event.born = births[r] BY <1>1, <1>5, <2>2, <2>4
  <2>6. version'[r] = version[r] + 1 BY <1>1 DEF IInv, TypeOK
  <2> QED BY <1>9, <2>3, <2>5, <2>6, PeerHears
<1>14. \A k \in Connections : session[k] = "closed" => BagToSet(received[k]) = {} BY DEF IInv, ClosedIsEmpty
<1>15. ClosedIsEmpty' /\ OwedFromInside' /\ NothingFromOutside' BY <1>1, <1>12, <1>13, <1>14, CoverCarries
<1> QED BY <1>7, <1>8, <1>10, <1>11, <1>15 DEF IInv

\* A message is owed to the members, and no membership changes.
LEMMA SendKeeps == ASSUME IInv, NEW c \in Connections, NEW r \in Rooms, Send(c, r) PROVE IInv'
<1> DEFINE v   == version[r] + 1
           new == DispatchTo(Recipients(r, c), "room_message", r, v, c)
<1>1. /\ commands < MaxCommands /\ commands' = commands + 1
      /\ version' = [version EXCEPT ![r] = v]
      /\ recent' = [recent EXCEPT ![r] = Capped(Append(recent[r], v))]
      /\ pending' = [pending EXCEPT ![c] = @ \union new]
      /\ UNCHANGED <<session, rooms, members, known, joined, received, stays, births>>
  BY DEF Send, Command
<1>2. version[r] \in Nat /\ births'[r] \in Nat /\ v \in Nat BY <1>1 DEF IInv, TypeOK
<1>3. members[r] \in SUBSET Connections /\ Recipients(r, c) = members[r] BY DEF IInv, TypeOK, Recipients
<1>4. /\ new \subseteq Dispatch
      /\ \A x \in new : x.to \in members[r] /\ x.event.room = r /\ x.event.version = v /\ x.event.born = births'[r]
  <2>1. "room_message" \in Kinds /\ Recipients(r, c) \in SUBSET Connections BY <1>3 DEF Kinds
  <2> HIDE DEF v
  <2> QED BY <1>2, <1>3, <2>1, DispatchesAre
<1> HIDE DEF new
<1>5. \A k \in Connections : \A s \in stays[k] :
        s \in Stay /\ version[s.room] \in Nat /\ version'[s.room] \in Nat /\ version[s.room] <= version'[s.room]
  BY <1>1, <1>2 DEF IInv, TypeOK, Stay
<1>6. TypeOK'
  <2>1. \A q \in Rooms : version[q] \in Nat /\ version'[q] \in Nat /\ version[q] <= version'[q]
    BY <1>1, <1>2 DEF IInv, TypeOK
  <2>2. ASSUME NEW q \in Rooms PROVE recent'[q] \in Seq(1..version'[q]) /\ Len(recent'[q]) <= RecentLimit
    <3>1. recent[q] \in Seq(1..version[q]) /\ Len(recent[q]) <= RecentLimit BY DEF IInv, TypeOK
    <3>2. CASE q = r
      <4>1. recent'[r] = Capped(Append(recent[r], version[r] + 1)) /\ version'[r] = version[r] + 1
        BY <1>1 DEF IInv, TypeOK
      <4> QED BY <1>2, <3>1, <3>2, <4>1, CappedKeeps
    <3>3. CASE q # r
      <4>1. recent'[q] = recent[q] BY <1>1, <3>3 DEF IInv, TypeOK
      <4> QED BY <2>1, <3>1, <4>1, VersionsWiden
    <3> QED BY <3>2, <3>3
  <2>3. commands' \in 0..MaxCommands BY <1>1, ChatAssumption DEF IInv, TypeOK
  <2>4. version' \in [Rooms -> Nat] /\ DOMAIN recent' = Rooms BY <1>1, <2>1 DEF IInv, TypeOK
  <2>5. pending' \in [Connections -> SUBSET Dispatch] BY <1>1, <1>4 DEF IInv, TypeOK
  <2> QED BY <1>1, <2>2, <2>3, <2>4, <2>5 DEF IInv, TypeOK
<1>7. MembershipAgrees' BY <1>1 DEF IInv, MembershipAgrees, Registered
<1>8. OpenStays'
  <2>1. ASSUME NEW k \in Connections, NEW s \in stays[k], s.until = 0
        PROVE  k \in members[s.room] /\ s.born = births[s.room] /\ s.from <= version'[s.room]
    <3>1. k \in members[s.room] /\ s.born = births[s.room] /\ s.from <= version[s.room] /\ s.from \in Nat
      BY <2>1, <1>5 DEF IInv, OpenStays, Stay
    <3> QED BY <3>1, <1>5
  <2> QED BY <1>1, <2>1 DEF OpenStays
<1>9. MembersStay' BY <1>1 DEF IInv, MembersStay
<1>10. ASSUME NEW k \in Connections, NEW s \in stays[k], NEW e \in Event, Covers(s, e)
       PROVE  \E t \in stays'[k] : Covers(t, e)'
  <2>1. e.version \in Nat /\ s.from \in Nat /\ s.until \in Nat BY <1>5 DEF Event, Stay
  <2>2. Covers(s, e)' BY <1>5, <1>10, <2>1 DEF Covers, During
  <2> QED BY <1>1, <2>2
<1>11. ASSUME NEW d \in Connections, NEW x \in pending'[d], x \notin pending[d]
       PROVE  \E t \in stays'[x.to] : Covers(t, x.event)'
  <2>1. x \in new BY <1>1, <1>11 DEF IInv, TypeOK
  <2>2. x.to \in members[r] /\ x.to \in Connections BY <1>4, <2>1, <1>3
  <2>3. x.event.room = r /\ x.event.version = version[r] + 1 /\ x.event.born = births[r] BY <1>1, <1>4, <2>1
  <2>4. version'[r] = version[r] + 1 BY <1>1 DEF IInv, TypeOK
  <2> QED BY <1>1, <2>2, <2>3, <2>4, PeerHears
<1>12. \A k \in Connections : session[k] = "closed" => BagToSet(received[k]) = {} BY DEF IInv, ClosedIsEmpty
<1>13. ClosedIsEmpty' /\ OwedFromInside' /\ NothingFromOutside' BY <1>1, <1>10, <1>11, <1>12, CoverCarries
<1> QED BY <1>6, <1>7, <1>8, <1>9, <1>13 DEF IInv

\* The leaver's membership ends behind all that was dispatched; the others' go on.
LEMMA LeaveKeeps == ASSUME IInv, NEW c \in Connections, NEW r \in Rooms, Leave(c, r) PROVE IInv'
<1> DEFINE v    == version[r] + 1
           left == [members EXCEPT ![r] = @ \ {c}]
           kept == NonEmpty(left)
           own  == DispatchTo({c}, "left_room", r, v, c)
           new  == DispatchTo(left[r], "presence_changed", r, v, c)
           closing == [version EXCEPT ![r] = v]
<1>1. /\ c \in Registered /\ c \in members[r] /\ c \in known /\ r \in rooms
      /\ commands < MaxCommands /\ commands' = commands + 1
      /\ rooms' = kept /\ members' = left
      /\ version' = ForGone(kept, closing, 0)
      /\ recent' = ForGone(kept, recent, << >>)
      /\ joined' = [joined EXCEPT ![c] = @ \ {r}]
      /\ known' = IF joined'[c] = {} THEN known \ {c} ELSE known
      /\ stays' = [stays EXCEPT ![c] = Ended(c, {r}, closing)]
      /\ pending' = [pending EXCEPT ![c] = @ \union (own \union new)]
      /\ UNCHANGED <<session, received, births>>
  BY DEF Leave, Command, Ready, JoinedAfterLeave
<1>2. version[r] \in Nat /\ births'[r] \in Nat /\ v \in Nat BY <1>1 DEF IInv, TypeOK
<1>3. left \in [Rooms -> SUBSET Connections] /\ left[r] = members[r] \ {c}
      /\ \A q \in Rooms : q # r => left[q] = members[q]
  BY DEF IInv, TypeOK
<1>4. own \subseteq Dispatch /\ \A x \in own : x.event.kind = "left_room"
  <2>1. births'[r] \in Nat /\ "left_room" \in Kinds /\ {c} \in SUBSET Connections BY <1>2 DEF Kinds
  <2> HIDE DEF v
  <2> QED BY <1>2, <2>1, DispatchesAre
<1>5. /\ new \subseteq Dispatch
      /\ \A x \in new : x.to \in left[r] /\ x.event.room = r /\ x.event.version = v /\ x.event.born = births'[r]
  <2>1. births'[r] \in Nat /\ "presence_changed" \in Kinds /\ left[r] \in SUBSET Connections BY <1>2, <1>3 DEF Kinds
  <2> HIDE DEF v, left
  <2> QED BY <1>2, <2>1, DispatchesAre
<1>6. closing \in [Rooms -> Nat] /\ closing[r] = v /\ (\A q \in Rooms : version[q] <= closing[q])
  BY <1>2 DEF IInv, TypeOK
<1>7. kept = {q \in Rooms : left[q] # {}} /\ kept \subseteq rooms
  BY <1>3 DEF IInv, MembershipAgrees, NonEmpty
<1> HIDE DEF own, new, left, kept, closing
<1>8. \A q \in Rooms : /\ q \in kept => version'[q] = closing[q] /\ recent'[q] = recent[q]
                       /\ version'[q] \in {0, closing[q]} /\ version'[q] \in Nat
                       /\ \/ version'[q] = closing[q] /\ recent'[q] = recent[q]
                          \/ recent'[q] = << >>
  BY <1>1, <1>6 DEF ForGone
<1>9. \A s \in stays[c] :
        /\ s \in Stay
        /\ s.room = r /\ s.until = 0 => [s EXCEPT !.until = v] \in stays'[c]
        /\ s.room # r \/ s.until # 0 => s \in stays'[c]
  BY <1>1, <1>6 DEF IInv, TypeOK, Ended
<1>10. \A t \in stays'[c] :
         \/ t \in stays[c] /\ (t.room # r \/ t.until # 0)
         \/ \E s \in stays[c] : s.room = r /\ s.until = 0 /\ t = [s EXCEPT !.until = v]
  BY <1>1, <1>6 DEF IInv, TypeOK, Ended
<1>11. \A k \in Connections : k # c => stays'[k] = stays[k] BY <1>1 DEF IInv, TypeOK
<1>12. TypeOK'
  <2>1. \A q \in Rooms : recent'[q] \in Seq(1..version'[q]) /\ Len(recent'[q]) <= RecentLimit
    <3>1. ASSUME NEW q \in Rooms PROVE recent'[q] \in Seq(1..version'[q]) /\ Len(recent'[q]) <= RecentLimit
      <4>1. recent[q] \in Seq(1..version[q]) /\ Len(recent[q]) <= RecentLimit BY DEF IInv, TypeOK
      <4>2. version[q] \in Nat /\ closing[q] \in Nat /\ version[q] <= closing[q] BY <1>6 DEF IInv, TypeOK
      <4>5. recent[q] \in Seq(1..closing[q]) BY <4>1, <4>2, VersionsWiden
      <4>3. CASE version'[q] = closing[q] /\ recent'[q] = recent[q] BY <4>1, <4>3, <4>5
      <4>4. CASE recent'[q] = << >> BY <4>4, ChatAssumption
      <4> QED BY <1>8, <4>3, <4>4
    <3> QED BY <3>1
  <2>2. commands' \in 0..MaxCommands BY <1>1, ChatAssumption DEF IInv, TypeOK
  <2>3. version' \in [Rooms -> Nat] /\ DOMAIN recent' = Rooms BY <1>1, <1>8 DEF ForGone
  <2>4. stays' \in [Connections -> SUBSET Stay]
    <3>1. \A t \in stays'[c] : t \in Stay BY <1>2, <1>9, <1>10 DEF Stay
    <3>2. DOMAIN stays' = Connections BY <1>1 DEF IInv, TypeOK
    <3>3. \A k \in Connections : stays'[k] \subseteq Stay BY <1>11, <3>1 DEF IInv, TypeOK
    <3>4. stays' = [k \in Connections |-> stays'[k]] BY <1>1 DEF IInv, TypeOK
    <3> QED BY <3>3, <3>4
  <2>5. pending' \in [Connections -> SUBSET Dispatch] BY <1>1, <1>4, <1>5 DEF IInv, TypeOK
  <2>6. rooms' \subseteq Rooms /\ joined' \in [Connections -> SUBSET Rooms] /\ known' \subseteq Connections
    BY <1>1, <1>7 DEF IInv, TypeOK
  <2> QED BY <1>1, <1>3, <2>1, <2>2, <2>3, <2>4, <2>5, <2>6 DEF IInv, TypeOK
<1>13. MembershipAgrees'
  <2>1. \A k \in Connections, q \in Rooms : k \in members'[q] <=> q \in joined'[k]
    BY <1>1, <1>3 DEF IInv, TypeOK, MembershipAgrees
  <2>2. known' = {k \in Connections : joined'[k] # {}}
    BY <1>1 DEF IInv, TypeOK, MembershipAgrees
  <2>3. known' \subseteq Registered' BY <1>1 DEF IInv, MembershipAgrees, Registered
  <2> QED BY <1>1, <1>7, <2>1, <2>2, <2>3 DEF MembershipAgrees
<1>14. ASSUME NEW k \in Connections, NEW s \in stays[k], s.until = 0, k # c \/ s.room # r
       PROVE  /\ s \in stays'[k] /\ k \in members'[s.room] /\ s.born = births'[s.room]
              /\ version[s.room] <= version'[s.room] /\ s.from <= version'[s.room]
  <2>1. s \in Stay /\ k \in members[s.room] /\ s.born = births[s.room] /\ s.from <= version[s.room]
    BY <1>14 DEF IInv, OpenStays, TypeOK
  <2>2. s.room \in Rooms /\ s.from \in Nat /\ version[s.room] \in Nat BY <2>1 DEF Stay, IInv, TypeOK
  <2>3. k \in left[s.room] BY <1>3, <1>14, <2>1, <2>2
  <2>4. version'[s.room] = closing[s.room] BY <1>7, <1>8, <2>2, <2>3
  <2>5. version[s.room] <= version'[s.room] /\ closing[s.room] \in Nat BY <1>6, <2>2, <2>4
  <2>6. s \in stays'[k] BY <1>9, <1>11, <1>14
  <2> QED BY <1>1, <2>1, <2>2, <2>3, <2>4, <2>5, <2>6
<1>15. OpenStays'
  <2>1. ASSUME NEW k \in Connections, NEW t \in stays'[k], t.until = 0
        PROVE  t \in stays[k] /\ (k # c \/ t.room # r)
    <3>1. CASE k # c BY <1>11, <2>1, <3>1
    <3>2. CASE k = c
      <4>1. ASSUME NEW s \in stays[c], t = [s EXCEPT !.until = v] PROVE FALSE
        <5>1. s \in Stay BY <1>9
        <5>2. t.until = v BY <4>1, <5>1 DEF Stay
        <5> QED BY <1>2, <2>1, <5>2 DEF IInv, TypeOK
      <4> QED BY <1>10, <2>1, <3>2, <4>1
    <3> QED BY <3>1, <3>2
  <2> QED BY <1>14, <2>1 DEF OpenStays
<1>16. MembersStay'
  <2>1. ASSUME NEW k \in Connections, NEW q \in Rooms, k \in members'[q]
        PROVE  \E s \in stays'[k] : s.room = q /\ s.until = 0
    <3>1. k \in members[q] /\ (k # c \/ q # r) BY <1>1, <1>3, <2>1
    <3>2. PICK s \in stays[k] : s.room = q /\ s.until = 0 BY <3>1 DEF IInv, MembersStay
    <3> QED BY <1>14, <3>1, <3>2
  <2> QED BY <2>1 DEF MembersStay
<1>17. ASSUME NEW k \in Connections, NEW s \in stays[k], NEW e \in Event, Covers(s, e)
       PROVE  \E t \in stays'[k] : Covers(t, e)'
  <2>1. s \in Stay BY DEF IInv, TypeOK
  <2>2. e.version \in Nat /\ s.from \in Nat /\ s.until \in Nat /\ s.room \in Rooms BY <2>1 DEF Event, Stay
  <2>3. version[s.room] \in Nat /\ version'[s.room] \in Nat BY <1>8, <2>2 DEF IInv, TypeOK
  <2>4. CASE s.until # 0
    <3>1. s \in stays'[k] BY <1>9, <1>11, <2>4
    <3>2. Covers(s, e)' BY <1>17, <2>4 DEF Covers, During
    <3> QED BY <3>1, <3>2
  <2>5. CASE s.until = 0 /\ (k # c \/ s.room # r)
    <3>1. s \in stays'[k] /\ version[s.room] <= version'[s.room] BY <1>14, <2>5
    <3>2. Covers(s, e)' BY <1>17, <2>2, <2>3, <2>5, <3>1 DEF Covers, During
    <3> QED BY <3>1, <3>2
  <2>6. CASE s.until = 0 /\ k = c /\ s.room = r
    <3>1. PICK t \in stays'[k] : t = [s EXCEPT !.until = v] BY <1>9, <2>6
    <3>2. t.room = s.room /\ t.born = s.born /\ t.from = s.from /\ t.until = v BY <2>1, <3>1 DEF Stay
    <3>3. e.version <= version[r] /\ e.version >= s.from + 1 /\ s.room = e.room /\ s.born = e.born
      BY <1>17, <2>2, <2>3, <2>6 DEF Covers, During
    <3>4. t.until # 0 /\ e.version \in (t.from + 1)..(t.until - 1) BY <1>2, <2>2, <3>2, <3>3
    <3>5. Covers(t, e)' BY <3>2, <3>3, <3>4 DEF Covers, During
    <3> QED BY <3>5
  <2> QED BY <2>4, <2>5, <2>6
<1>18. ASSUME NEW d \in Connections, NEW x \in pending'[d], x \notin pending[d], Changes(x.event)
       PROVE  \E t \in stays'[x.to] : Covers(t, x.event)'
  <2>1. x \in own \union new BY <1>1, <1>18 DEF IInv, TypeOK
  <2>2. x \in new BY <1>4, <1>18, <2>1 DEF Changes
  <2>3. x.to \in members[r] /\ x.to \in Connections /\ x.to # c /\ x.to \in left[r]
    BY <1>3, <1>5, <2>2 DEF IInv, TypeOK
  <2>4. x.event.room = r /\ x.event.version = version[r] + 1 /\ x.event.born = births[r] BY <1>1, <1>5, <2>2
  <2>5. version'[r] = version[r] + 1 BY <1>6, <1>7, <1>8, <2>3
  <2>6. \A s \in stays[x.to] : s.until = 0 => s \in stays'[x.to] BY <1>11, <2>3
  <2> QED BY <2>3, <2>4, <2>5, <2>6, PeerHears
<1>19. \A k \in Connections : session[k] = "closed" => BagToSet(received[k]) = {} BY DEF IInv, ClosedIsEmpty
<1>20. ClosedIsEmpty' /\ OwedFromInside' /\ NothingFromOutside' BY <1>1, <1>17, <1>18, <1>19, CoverCarries
<1> QED BY <1>12, <1>13, <1>15, <1>16, <1>20 DEF IInv

\* The connection is gone with its memberships; in each of its rooms those who
\* remain are told of the new version.
LEMMA DisconnectKeeps == ASSUME IInv, NEW c \in Connections, Disconnect(c) PROVE IInv'
<1> DEFINE v    == VersionAfterLoss(c)
           left == [q \in Rooms |-> IF q \in joined[c] THEN members[q] \ {c} ELSE members[q]]
           kept == NonEmpty(left)
           new(q) == DispatchTo(left[q], "presence_changed", q, v[q], c)
           news == UNION {new(q) : q \in joined[c]}
<1>1. /\ c \in Registered
      /\ session' = [session EXCEPT ![c] = "closed"]
      /\ rooms' = kept /\ members' = left
      /\ version' = ForGone(kept, v, 0)
      /\ recent' = ForGone(kept, recent, << >>)
      /\ known' = known \ {c}
      /\ joined' = [joined EXCEPT ![c] = {}]
      /\ received' = [received EXCEPT ![c] = EmptyBag]
      /\ stays' = [stays EXCEPT ![c] = {}]
      /\ pending' = [pending EXCEPT ![c] = @ \union news]
      /\ UNCHANGED <<births, commands>>
  BY DEF Disconnect, Ready
<1>2. \A q \in Rooms : q \in joined[c] <=> c \in members[q] BY DEF IInv, MembershipAgrees
<1>3. left \in [Rooms -> SUBSET Connections] /\ \A q \in Rooms : left[q] = members[q] \ {c}
  BY <1>2 DEF IInv, TypeOK
<1>4. v \in [Rooms -> Nat] /\ \A q \in Rooms : v[q] = version[q] + IF q \in joined[c] THEN 1 ELSE 0
  BY DEF IInv, TypeOK, VersionAfterLoss
<1> HIDE DEF v
<1>5. \A q \in Rooms : version[q] \in Nat /\ v[q] \in Nat /\ version[q] <= v[q] /\ births'[q] \in Nat /\ births'[q] = births[q]
  <2>1. births' = births BY <1>1
  <2>2. ASSUME NEW q \in Rooms PROVE version[q] \in Nat /\ v[q] \in Nat /\ version[q] <= v[q]
    <3>1. version[q] \in Nat BY DEF IInv, TypeOK
    <3>2. v[q] = version[q] \/ v[q] = version[q] + 1 BY <1>4, <3>1
    <3> QED BY <3>1, <3>2
  <2>3. births \in [Rooms -> Nat] BY DEF IInv, TypeOK
  <2> QED BY <2>1, <2>2, <2>3
<1>6. kept = {q \in Rooms : left[q] # {}} /\ kept \subseteq rooms
  BY <1>3 DEF IInv, MembershipAgrees, NonEmpty
<1>7. ASSUME NEW q \in joined[c]
      PROVE  /\ q \in Rooms /\ new(q) \subseteq Dispatch
             /\ \A x \in new(q) : x.to \in left[q] /\ x.event.room = q /\ x.event.version = v[q] /\ x.event.born = births[q]
  <2>1. q \in Rooms BY <1>7 DEF IInv, TypeOK
  <2>2. left[q] \in SUBSET Connections /\ v[q] \in Nat /\ "presence_changed" \in Kinds BY <1>3, <1>5, <2>1 DEF Kinds
  <2> HIDE DEF left
  <2> QED BY <1>5, <2>1, <2>2, DispatchesAre
<1>8. /\ news \subseteq Dispatch
      /\ \A x \in news : \E q \in joined[c] : x \in new(q)
  <2>1. ASSUME NEW x \in news PROVE \E q \in joined[c] : x \in new(q) OBVIOUS
  <2>2. ASSUME NEW x \in news PROVE x \in Dispatch
    <3>1. PICK q \in joined[c] : x \in new(q) BY <2>1
    <3>2. new(q) \subseteq Dispatch BY <1>7
    <3> QED BY <3>1, <3>2
  <2> QED BY <2>1, <2>2
<1> HIDE DEF news, left, kept
<1>9. \A q \in Rooms : /\ q \in kept => version'[q] = v[q]
                       /\ version'[q] \in Nat
                       /\ \/ version'[q] = v[q] /\ recent'[q] = recent[q]
                          \/ recent'[q] = << >>
  BY <1>1, <1>5 DEF ForGone
<1>10. \A k \in Connections : stays'[k] = IF k = c THEN {} ELSE stays[k] BY <1>1 DEF IInv, TypeOK
<1>11. \A k \in Connections : session'[k] = IF k = c THEN "closed" ELSE session[k] BY <1>1 DEF IInv, TypeOK
<1>12. \A k \in Connections : BagToSet(received'[k]) = IF k = c THEN {} ELSE BagToSet(received[k])
  BY <1>1, NoneYet DEF IInv, TypeOK
<1>13. TypeOK'
  <2>1. \A q \in Rooms : recent'[q] \in Seq(1..version'[q]) /\ Len(recent'[q]) <= RecentLimit
    <3>1. ASSUME NEW q \in Rooms PROVE recent'[q] \in Seq(1..version'[q]) /\ Len(recent'[q]) <= RecentLimit
      <4>1. recent[q] \in Seq(1..version[q]) /\ Len(recent[q]) <= RecentLimit BY DEF IInv, TypeOK
      <4>2. version[q] \in Nat /\ v[q] \in Nat /\ version[q] <= v[q] BY <1>5 DEF IInv, TypeOK
      <4>5. recent[q] \in Seq(1..v[q]) BY <4>1, <4>2, VersionsWiden
      <4>3. CASE version'[q] = v[q] /\ recent'[q] = recent[q] BY <4>1, <4>3, <4>5
      <4>4. CASE recent'[q] = << >> BY <4>4, ChatAssumption
      <4> QED BY <1>9, <4>3, <4>4
    <3> QED BY <3>1
  <2>2. version' \in [Rooms -> Nat] /\ DOMAIN recent' = Rooms BY <1>1, <1>9 DEF ForGone
  <2>3. stays' \in [Connections -> SUBSET Stay] BY <1>1 DEF IInv, TypeOK
  <2>4. pending' \in [Connections -> SUBSET Dispatch] BY <1>1, <1>8 DEF IInv, TypeOK
  <2>5. rooms' \subseteq Rooms /\ joined' \in [Connections -> SUBSET Rooms] /\ known' \subseteq Connections
    BY <1>1, <1>6 DEF IInv, TypeOK
  <2>6. session' \in [Connections -> {"new", "open", "deaf", "closed"}] BY <1>1 DEF IInv, TypeOK
  <2>7. DOMAIN received' = Connections /\ \A k \in Connections : BagToSet(received'[k]) \subseteq Event
    BY <1>1, <1>12 DEF IInv, TypeOK
  <2> QED BY <1>1, <1>3, <2>1, <2>2, <2>3, <2>4, <2>5, <2>6, <2>7 DEF IInv, TypeOK
<1>14. MembershipAgrees'
  <2>1. \A k \in Connections, q \in Rooms : k \in members'[q] <=> q \in joined'[k]
    BY <1>1, <1>3 DEF IInv, TypeOK, MembershipAgrees
  <2>2. known' = {k \in Connections : joined'[k] # {}} BY <1>1 DEF IInv, TypeOK, MembershipAgrees
  <2>3. known' \subseteq Registered' BY <1>1, <1>11 DEF IInv, MembershipAgrees, Registered
  <2> QED BY <1>1, <1>6, <2>1, <2>2, <2>3 DEF MembershipAgrees
<1>15. ASSUME NEW k \in Connections, k # c, NEW s \in stays[k], s.until = 0
       PROVE  /\ k \in members'[s.room] /\ s.born = births'[s.room]
              /\ version[s.room] <= version'[s.room] /\ s.from <= version'[s.room]
  <2>1. s \in Stay /\ k \in members[s.room] /\ s.born = births[s.room] /\ s.from <= version[s.room]
    BY <1>15 DEF IInv, OpenStays, TypeOK
  <2>2. s.room \in Rooms /\ s.from \in Nat BY <2>1 DEF Stay
  <2>3. k \in left[s.room] BY <1>3, <1>15, <2>1, <2>2
  <2>4. version'[s.room] = v[s.room] BY <1>6, <1>9, <2>2, <2>3
  <2> QED BY <1>1, <1>5, <2>1, <2>2, <2>3, <2>4
<1>16. OpenStays' BY <1>10, <1>15 DEF OpenStays
<1>17. MembersStay'
  <2>1. ASSUME NEW k \in Connections, NEW q \in Rooms, k \in members'[q]
        PROVE  \E s \in stays'[k] : s.room = q /\ s.until = 0
    <3>1. k \in members[q] /\ k # c BY <1>1, <1>3, <2>1
    <3> QED BY <1>10, <3>1 DEF IInv, MembersStay
  <2> QED BY <2>1 DEF MembersStay
<1>18. ASSUME NEW k \in Connections, NEW s \in stays[k], NEW e \in Event, Covers(s, e)
       PROVE  session'[k] = "closed" \/ \E t \in stays'[k] : Covers(t, e)'
  <2>1. CASE k = c BY <1>11, <2>1
  <2>2. CASE k # c
    <3>1. s \in Stay /\ s \in stays'[k] BY <1>10, <2>2 DEF IInv, TypeOK
    <3>2. e.version \in Nat /\ s.from \in Nat /\ s.until \in Nat /\ s.room \in Rooms BY <3>1 DEF Event, Stay
    <3>3. version[s.room] \in Nat /\ version'[s.room] \in Nat BY <1>5, <1>9, <3>2
    <3>4. s.until = 0 => version[s.room] <= version'[s.room] BY <1>15, <2>2
    <3>5. Covers(s, e)' BY <1>18, <3>2, <3>3, <3>4 DEF Covers, During
    <3> QED BY <3>1, <3>5
  <2> QED BY <2>1, <2>2
<1>19. ASSUME NEW d \in Connections, NEW x \in pending'[d], x \notin pending[d]
       PROVE  \E t \in stays'[x.to] : Covers(t, x.event)'
  <2>1. x \in news BY <1>1, <1>19 DEF IInv, TypeOK
  <2>2. PICK q \in joined[c] : x \in new(q) BY <1>8, <2>1
  <2>3. /\ q \in Rooms /\ x.to \in left[q]
        /\ x.event.room = q /\ x.event.version = v[q] /\ x.event.born = births[q]
    BY <1>7, <2>2
  <2>4. x.to \in members[q] /\ x.to \in Connections /\ x.to # c BY <1>3, <2>3 DEF IInv, TypeOK
  <2>5. v[q] = version[q] + 1 /\ version'[q] = v[q] BY <1>4, <1>6, <1>9, <2>2, <2>3
  <2>6. \A s \in stays[x.to] : s.until = 0 => s \in stays'[x.to] BY <1>10, <2>4
  <2> QED BY <2>3, <2>4, <2>5, <2>6, PeerHears
<1>20. \A k \in Connections : session[k] = "closed" => BagToSet(received[k]) = {} BY DEF IInv, ClosedIsEmpty
<1>21. ClosedIsEmpty' /\ OwedFromInside' /\ NothingFromOutside'
  BY <1>11, <1>12, <1>18, <1>19, <1>20, CoverCarries
<1> QED BY <1>13, <1>14, <1>16, <1>17, <1>21 DEF IInv

-----------------------------------------------------------------------------
(* The invariant *)

\* Nobody is connected and there are no rooms.
LEMMA InitEstablishes == Init => IInv
<1> SUFFICES ASSUME Init PROVE IInv OBVIOUS
<1>1. TypeOK BY ChatAssumption, NoneYet DEF Init, TypeOK
<1>2. MembershipAgrees BY DEF Init, MembershipAgrees
<1>3. OpenStays /\ MembersStay /\ ClosedIsEmpty /\ OwedFromInside
  BY NoneYet DEF Init, OpenStays, MembersStay, ClosedIsEmpty, OwedFromInside
<1>4. NothingFromOutside BY NoneYet DEF Init, NothingFromOutside
<1> QED BY <1>1, <1>2, <1>3, <1>4 DEF IInv

\* One step per action.
LEMMA StepKeeps == IInv /\ [Next]_vars => IInv'
<1> SUFFICES ASSUME IInv, [Next]_vars PROVE IInv' OBVIOUS
<1>1. CASE UNCHANGED vars
  <2>1. \A s, e : Covers(s, e) <=> Covers(s, e)' BY <1>1 DEF Covers, During, vars, hubVars
  <2>2. TypeOK' /\ MembershipAgrees' /\ OpenStays' /\ MembersStay'
    BY <1>1 DEF IInv, vars, hubVars, TypeOK, MembershipAgrees, OpenStays, MembersStay, Registered
  <2>3. \A k \in Connections : session[k] = "closed" => BagToSet(received[k]) = {} BY DEF IInv, ClosedIsEmpty
  <2>4. UNCHANGED <<session, pending, received, stays>> BY <1>1 DEF vars
  <2>5. ClosedIsEmpty' /\ OwedFromInside' /\ NothingFromOutside' BY <2>1, <2>3, <2>4, CoverCarries
  <2> QED BY <2>2, <2>5 DEF IInv
<1>2. ASSUME NEW c \in Connections, Register(c) \/ WriterFails(c) PROVE IInv'
  BY <1>2, RegisterKeeps, WriterFailsKeeps
<1>3. ASSUME NEW c \in Connections, Refuse(c) \/ \E r \in Rooms : JoinAgain(c, r) \/ Sync(c, r) PROVE IInv'
  BY <1>3, AskingKeeps
<1>4. ASSUME NEW c \in Connections, NEW r \in Rooms, Join(c, r) PROVE IInv' BY <1>4, JoinKeeps
<1>5. ASSUME NEW c \in Connections, NEW r \in Rooms, Leave(c, r) PROVE IInv' BY <1>5, LeaveKeeps
<1>6. ASSUME NEW c \in Connections, NEW r \in Rooms, Send(c, r) PROVE IInv' BY <1>6, SendKeeps
<1>7. ASSUME NEW c \in Connections, NEW d \in pending[c], Deliver(c, d) PROVE IInv' BY <1>7, DeliverKeeps
<1>8. ASSUME NEW c \in Connections, Disconnect(c) PROVE IInv' BY <1>8, DisconnectKeeps
<1> QED BY <1>1, <1>2, <1>3, <1>4, <1>5, <1>6, <1>7, <1>8 DEF Next

-----------------------------------------------------------------------------
(* Commands and ends of connections, in one form *)

\* What each command of c, and its end, does: it finds nothing of c waiting and
\* leaves its dispatches there; channels stay, but for that of a closing
\* connection; a room keeps its life and counts at most one change, begins a new
\* life, or is dropped; each member of a room with a new version is owed it.
Commanded(c) ==
  /\ session[c] \in {"open", "deaf"} /\ pending[c] = {}
  /\ \A d \in Connections \ {c} : pending'[d] = pending[d] /\ stays'[d] = stays[d]
  /\ \A k \in Connections :
       \/ session'[k] = session[k] /\ received'[k] = received[k]
       \/ k = c /\ session'[k] = "closed" /\ received'[k] = EmptyBag
  /\ \A q \in Rooms :
       \/ /\ births'[q] = births[q]
          /\ q \in rooms' => q \in rooms /\ version'[q] \in {version[q], version[q] + 1}
       \/ births'[q] = births[q] + 1 /\ q \notin rooms /\ recent'[q] = recent[q]
  /\ \A q \in Rooms :
       \/ /\ recent'[q] = recent[q] \/ (q \notin rooms' /\ recent'[q] = << >>)
          /\ \A x \in pending'[c] : x.event.room = q => x.event.kind # "room_message"
       \/ /\ recent'[q] = Capped(Append(recent[q], version[q] + 1))
          /\ version'[q] = version[q] + 1 /\ births'[q] = births[q]
  /\ \A x \in pending'[c] :
       /\ x.event.by = c /\ x.event.room \in Rooms /\ x.event.born = births'[x.event.room]
       /\ births'[x.event.room] = births[x.event.room] => x.event.room \in rooms
       /\ x.event.version \in {version[x.event.room], version[x.event.room] + 1}
       /\ Changes(x.event) => x.event.version = version[x.event.room] + 1
       /\ x.event.room \in rooms' => x.event.version = version'[x.event.room]
  /\ \A x, y \in pending'[c] : x.event.room = y.event.room =>
       /\ x.event.version = y.event.version
       /\ x.to = y.to /\ Changes(x.event) /\ Changes(y.event) => x = y
  /\ \A k \in Connections : \A t \in stays'[k] :
       /\ t.born <= births'[t.room]
       /\ t.born = births'[t.room] /\ t.room \in rooms' => t.until <= version'[t.room]
       /\ session'[k] = "open" => \A v \in During(t)' :
            \/ \E s \in stays[k] : s.room = t.room /\ s.born = t.born /\ v \in During(s)
            \/ \E x \in pending'[c] : x.to = k /\ ChangeAt(x.event, t.room, t.born, v)

\* The types of what waits and what arrived.
LEMMA EventTypes ==
  ASSUME IInv
  PROVE  /\ \A d \in Connections : \A x \in pending[d] :
              x.to \in Connections /\ x.event \in Event
         /\ \A k \in Connections : \A e \in BagToSet(received[k]) : e \in Event
         /\ \A e \in Event : /\ e.room \in Rooms /\ e.version \in Nat /\ e.born \in Nat
                             /\ e.kind \in Kinds /\ e.by \in Connections
         /\ \A k \in Connections : \A s \in stays[k] :
              /\ s.room \in Rooms /\ s.born \in Nat /\ s.from \in Nat /\ s.until \in Nat
         /\ \A q \in Rooms : version[q] \in Nat /\ births[q] \in Nat
  BY DEF IInv, TypeOK, Dispatch, Event, Stay

\* A longer history holds what the shorter one held, or has dropped it, and the
\* new version; it stays in order.
LEMMA CappedRemembers ==
  ASSUME NEW w \in Nat, NEW h \in Seq(1..w), Len(h) <= RecentLimit, Sorted(h)
  PROVE  /\ Sorted(Capped(Append(h, w + 1)))
         /\ In(w + 1, Capped(Append(h, w + 1)))
         /\ \A u \in Nat : In(u, h) => In(u, Capped(Append(h, w + 1)))
<1> DEFINE a == Append(h, w + 1)
<1>1. RecentLimit \in Nat /\ RecentLimit > 0 /\ Len(h) \in Nat BY ChatAssumption
<1>2. \A i \in 1..Len(h) : h[i] \in 1..w OBVIOUS
<1>3. /\ a \in Seq(Nat) /\ Len(a) = Len(h) + 1 /\ a[Len(h) + 1] = w + 1
      /\ \A i \in 1..Len(h) : a[i] = h[i]
  <2>1. h \in Seq(Nat)
    <3>1. 1..w \subseteq Nat OBVIOUS
    <3> QED BY <3>1, SeqWiden
  <2> QED BY <2>1, w + 1 \in Nat
<1> HIDE DEF a
<1>4. \A i \in 1..Len(a) : i \in 1..Len(h) \/ i = Len(h) + 1 BY <1>1, <1>3
<1>5. Sorted(a)
  <2> SUFFICES ASSUME NEW i \in 1..Len(a), NEW j \in 1..Len(a), i < j PROVE a[i] < a[j] BY DEF Sorted
  <2>1. i \in 1..Len(h) BY <1>1, <1>3
  <2>2. CASE j \in 1..Len(h) BY <1>3, <2>1, <2>2 DEF Sorted
  <2>3. CASE j = Len(h) + 1 BY <1>2, <1>3, <2>1, <2>3
  <2> QED BY <1>4, <2>2, <2>3
<1>6. CASE Len(a) <= RecentLimit
  <2>1. Capped(a) = a BY <1>1, <1>3, <1>6 DEF Capped
  <2>2. Len(h) # RecentLimit BY <1>1, <1>3, <1>6
  <2>3. Len(h) + 1 \in 1..Len(a) /\ \A i \in 1..Len(h) : i \in 1..Len(a) BY <1>1, <1>3
  <2>4. In(w + 1, a) BY <1>3, <2>3 DEF In
  <2>5. \A u \in Nat : In(u, h) => In(u, a) BY <1>3, <2>2, <2>3 DEF In
  <2> QED BY <1>5, <2>1, <2>4, <2>5 DEF a
<1>7. CASE ~(Len(a) <= RecentLimit)
  <2> DEFINE t == Tail(a)
  <2>1. Len(h) = RecentLimit BY <1>1, <1>3, <1>7
  <2>2. Capped(a) = t BY <1>1, <1>3, <1>7 DEF Capped
  <2>3. a # << >> BY <1>1, <1>3
  <2>4. /\ Len(t) = Len(h)
        /\ \A i \in 1..Len(t) : t[i] = a[i + 1]
    BY <1>1, <1>3, <2>3
  <2> HIDE DEF t
  <2>5. \A i \in 1..Len(t) : i + 1 \in 1..Len(a) BY <1>1, <1>3, <2>4
  <2>6. Sorted(t)
    <3> SUFFICES ASSUME NEW i \in 1..Len(t), NEW j \in 1..Len(t), i < j PROVE t[i] < t[j] BY DEF Sorted
    <3>1. i + 1 \in 1..Len(a) /\ j + 1 \in 1..Len(a) /\ i + 1 < j + 1 BY <2>5
    <3> QED BY <1>5, <2>4, <3>1 DEF Sorted
  <2>7. Len(t) \in 1..Len(t) /\ t[Len(t)] = w + 1 BY <1>1, <1>3, <2>1, <2>4
  <2>8. 1 \in 1..Len(t) /\ t[1] = a[2] /\ 1 \in 1..Len(a) /\ 2 \in 1..Len(a) /\ 1 \in 1..Len(h)
    BY <1>1, <1>3, <2>1, <2>4
  <2>9. h[1] < t[1] /\ h[1] \in Nat /\ t[1] \in Nat
    <3>1. a[1] < a[2] BY <1>5, <2>8 DEF Sorted
    <3>2. a[1] = h[1] /\ a[1] \in Nat /\ a[2] \in Nat BY <1>3, <2>8
    <3> QED BY <2>8, <3>1, <3>2
  <2>10. ASSUME NEW u \in Nat, In(u, h) PROVE In(u, t)
    <3>1. ASSUME NEW i \in 1..Len(h), h[i] = u PROVE In(u, t)
      <4>1. CASE i = 1 BY <2>1, <2>4, <2>9, <3>1, <4>1 DEF In
      <4>2. CASE i # 1
        <5>1. i - 1 \in 1..Len(t) /\ (i - 1) + 1 = i BY <1>1, <2>4, <4>2
        <5>2. t[i - 1] = u BY <1>3, <2>4, <3>1, <5>1
        <5> QED BY <5>1, <5>2 DEF In
      <4> QED BY <4>1, <4>2
    <3>2. CASE u < h[1] BY <2>1, <2>4, <2>9, <3>2 DEF In
    <3> QED BY <2>10, <3>1, <3>2 DEF In
  <2>11. In(w + 1, t) BY <2>7 DEF In
  <2> QED BY <2>2, <2>6, <2>10, <2>11 DEF a
<1> QED BY <1>6, <1>7

\* A command keeps all of it.
LEMMA CommandedKeeps == ASSUME IInv, DInv, IInv', NEW c \in Connections, Commanded(c) PROVE DInv'
<1>1. /\ \A q \in Rooms : /\ version[q] \in Nat /\ births[q] \in Nat
                          /\ version'[q] \in Nat /\ births'[q] \in Nat
      /\ \A d \in Connections : \A x \in pending[d] : x.to \in Connections /\ x.event \in Event
      /\ \A d \in Connections : \A x \in pending'[d] : x.to \in Connections /\ x.event \in Event
      /\ \A k \in Connections : \A e \in BagToSet(received[k]) : e \in Event
      /\ \A e \in Event : e.room \in Rooms /\ e.version \in Nat /\ e.born \in Nat
  BY EventTypes DEF IInv, TypeOK, Dispatch
<1>2. \A k \in Connections : BagToSet(received'[k]) \subseteq BagToSet(received[k])
  BY NoneYet DEF Commanded
<1>3. /\ session[c] \in {"open", "deaf"} /\ pending[c] = {}
      /\ \A d \in Connections \ {c} : pending'[d] = pending[d] /\ stays'[d] = stays[d]
      /\ \A k \in Connections :
           \/ session'[k] = session[k] /\ received'[k] = received[k]
           \/ k = c /\ session'[k] = "closed" /\ received'[k] = EmptyBag
  BY DEF Commanded
<1>4. \A q \in Rooms :
        \/ /\ births'[q] = births[q]
           /\ q \in rooms' => q \in rooms /\ version'[q] \in {version[q], version[q] + 1}
        \/ births'[q] = births[q] + 1 /\ q \notin rooms /\ recent'[q] = recent[q]
  BY DEF Commanded
<1>5. \A x \in pending'[c] :
        /\ x.event.by = c /\ x.event.room \in Rooms /\ x.event.born = births'[x.event.room]
        /\ births'[x.event.room] = births[x.event.room] => x.event.room \in rooms
        /\ x.event.version \in {version[x.event.room], version[x.event.room] + 1}
        /\ Changes(x.event) => x.event.version = version[x.event.room] + 1
        /\ x.event.room \in rooms' => x.event.version = version'[x.event.room]
  BY DEF Commanded
<1>6. PastEvents'
  <2>1. ASSUME NEW e \in Event, Past(e) PROVE Past(e)'
    <3>1. e.room \in Rooms /\ e.version \in Nat /\ e.born \in Nat BY <1>1
    <3> QED BY <1>1, <1>4, <2>1, <3>1 DEF Past
  <2>2. \A x \in pending'[c] : Past(x.event)' BY <1>1, <1>5 DEF Past
  <2>3. \A d \in Connections : \A x \in pending'[d] : Past(x.event)'
    <3>1. ASSUME NEW d \in Connections, d # c, NEW x \in pending'[d] PROVE Past(x.event)'
      <4>1. x \in pending[d] BY <1>3, <3>1
      <4>2. x.event \in Event /\ Past(x.event) BY <1>1, <4>1 DEF DInv, PastEvents
      <4> QED BY <2>1, <4>2
    <3> QED BY <2>2, <3>1
  <2>4. \A k \in Connections : \A e \in BagToSet(received'[k]) : Past(e)'
    <3>1. ASSUME NEW k \in Connections, NEW e \in BagToSet(received'[k]) PROVE Past(e)'
      <4>1. e \in Event /\ Past(e) BY <1>1, <1>2 DEF DInv, PastEvents
      <4> QED BY <2>1, <4>1
    <3> QED BY <3>1
  <2>5. \A k \in Connections : \A t \in stays'[k] :
          /\ t.born <= births'[t.room]
          /\ t.born = births'[t.room] /\ t.room \in rooms' => t.until <= version'[t.room]
    BY DEF Commanded
  <2> QED BY <2>3, <2>4, <2>5 DEF PastEvents
<1>7. OneCommand'
  <2>1. \A x, y \in pending'[c] : x.event.room = y.event.room =>
          /\ x.event.version = y.event.version
          /\ x.to = y.to /\ Changes(x.event) /\ Changes(y.event) => x = y
    BY DEF Commanded
  <2>2. ASSUME NEW d \in Connections, NEW x \in pending'[d], NEW y \in pending'[d]
        PROVE  /\ x.event.by = d
               /\ x.event.room = y.event.room => x.event.version = y.event.version
               /\ /\ x.to = y.to /\ x.event.room = y.event.room
                  /\ Changes(x.event) /\ Changes(y.event)
                  => x = y
    <3>1. CASE d = c BY <1>5, <2>1, <2>2, <3>1
    <3>2. CASE d # c
      <4>1. x \in pending[d] /\ y \in pending[d] BY <1>3, <3>2
      <4> QED BY <4>1 DEF DInv, OneCommand
    <3> QED BY <3>1, <3>2
  <2> QED BY <2>2 DEF OneCommand, Changes
<1>8. SentInOrder'
  <2> SUFFICES ASSUME NEW d \in Connections, NEW k \in Connections, NEW x \in pending'[d],
                      NEW f \in BagToSet(received'[k]),
                      f.by = d, f.room = x.event.room, f.born = x.event.born
               PROVE  f.version <= x.event.version
    BY DEF SentInOrder
  <2>1. f \in BagToSet(received[k]) /\ f \in Event /\ Past(f) BY <1>1, <1>2 DEF DInv, PastEvents
  <2>2. CASE d # c
    <3>1. x \in pending[d] BY <1>3, <2>2
    <3> QED BY <2>1, <3>1 DEF DInv, SentInOrder
  <2>3. CASE d = c
    <3> DEFINE q == x.event.room
    <3>1. /\ q \in Rooms /\ f.born = births'[q] /\ (births'[q] = births[q] => q \in rooms)
          /\ x.event.version \in {version[q], version[q] + 1}
      BY <1>5, <2>3
    <3>2. births'[q] = births[q] BY <1>1, <1>4, <2>1, <3>1 DEF Past
    <3>3. f.version <= version[q] BY <2>1, <3>1, <3>2 DEF Past
    <3> QED BY <1>1, <2>1, <3>1, <3>3
  <2> QED BY <2>2, <2>3
<1>9. ASSUME NEW q \in Rooms
      PROVE  /\ Sorted(recent'[q])
             /\ \A u \in Nat : births'[q] = births[q] /\ q \in rooms' /\ In(u, recent[q]) => In(u, recent'[q])
             /\ \A x \in pending'[c] : x.event.room = q => Remembered(x.event)'
  <2>1. recent[q] \in Seq(1..version[q]) /\ Len(recent[q]) <= RecentLimit /\ Sorted(recent[q])
    BY DEF IInv, TypeOK, DInv, HistorySorted
  <2>2. CASE /\ recent'[q] = recent[q] \/ (q \notin rooms' /\ recent'[q] = << >>)
             /\ \A x \in pending'[c] : x.event.room = q => x.event.kind # "room_message"
    BY <2>1, <2>2 DEF Sorted, Remembered
  <2>3. CASE /\ recent'[q] = Capped(Append(recent[q], version[q] + 1))
             /\ version'[q] = version[q] + 1 /\ births'[q] = births[q]
    <3>1. /\ Sorted(recent'[q]) /\ In(version[q] + 1, recent'[q])
          /\ \A u \in Nat : In(u, recent[q]) => In(u, recent'[q])
      BY <1>1, <2>1, <2>3, CappedRemembers
    <3>2. \A x \in pending'[c] : x.event.room = q => Remembered(x.event)'
      BY <1>5, <2>3, <3>1 DEF Remembered, In
    <3> QED BY <3>1, <3>2
  <2> QED BY <2>2, <2>3 DEF Commanded
<1>10. HistorySorted' BY <1>9 DEF HistorySorted, Sorted
<1>11. MessagesRemembered'
  <2>1. ASSUME NEW e \in Event, Past(e), Remembered(e) PROVE Remembered(e)'
    <3> SUFFICES ASSUME e.kind = "room_message", e.room \in rooms', e.born = births'[e.room]
                 PROVE  In(e.version, recent'[e.room])
      BY DEF Remembered, In
    <3>1. e.room \in Rooms /\ e.version \in Nat /\ e.born \in Nat BY <1>1
    <3>2. births'[e.room] = births[e.room] /\ e.room \in rooms BY <1>1, <1>4, <2>1, <3>1 DEF Past
    <3>3. In(e.version, recent[e.room]) BY <2>1, <3>2 DEF Remembered
    <3> QED BY <1>9, <3>1, <3>2, <3>3
  <2>2. ASSUME NEW d \in Connections, NEW x \in pending'[d] PROVE Remembered(x.event)'
    <3>1. CASE d = c BY <1>5, <1>9, <2>2, <3>1
    <3>2. CASE d # c
      <4>1. x \in pending[d] BY <1>3, <3>2
      <4>2. x.event \in Event /\ Past(x.event) /\ Remembered(x.event)
        BY <1>1, <4>1 DEF DInv, PastEvents, MessagesRemembered
      <4> QED BY <2>1, <4>2
    <3> QED BY <3>1, <3>2
  <2>3. ASSUME NEW k \in Connections, NEW e \in BagToSet(received'[k]) PROVE Remembered(e)'
    <3>1. e \in Event /\ Past(e) /\ Remembered(e) BY <1>1, <1>2 DEF DInv, PastEvents, MessagesRemembered
    <3> QED BY <2>1, <3>1
  <2> QED BY <2>2, <2>3 DEF MessagesRemembered
<1>12. ChannelsAreBags' /\ NewIsBlank'
  <2>1. IsABag(EmptyBag) BY DEF IsABag, EmptyBag, SetToBag
  <2>2. ChannelsAreBags' BY <1>3, <2>1 DEF DInv, ChannelsAreBags
  <2>3. NewIsBlank' BY <1>3 DEF DInv, NewIsBlank
  <2> QED BY <2>2, <2>3
<1>13. OnceEach'
  <2> SUFFICES ASSUME NEW k \in Connections, session'[k] = "open", NEW t \in stays'[k], NEW v \in During(t)'
               PROVE  Once(k, t.room, t.born, v)'
    BY DEF OnceEach, Once, Due, Arrived, During, ChangeAt, Changes
  <2> DEFINE r == t.room
             b == t.born
  <2>0. r \in Rooms /\ b \in Nat /\ t.from \in Nat /\ t.until \in Nat /\ v \in Nat
    <3>1. t \in Stay BY DEF IInv, TypeOK
    <3>2. r \in Rooms /\ b \in Nat /\ t.from \in Nat /\ t.until \in Nat BY <3>1 DEF Stay
    <3> QED BY <1>1, <3>2 DEF During
  <2>1. session[k] = "open" /\ received'[k] = received[k] BY <1>3
  <2>2. Arrived(k, r, b, v)' = Arrived(k, r, b, v) BY <2>1 DEF Arrived, ChangeAt, Changes
  <2>3. \A d \in Connections \ {c} : d \in Due(k, r, b, v)' <=> d \in Due(k, r, b, v)
    BY <1>3 DEF Due, ChangeAt, Changes
  <2>4. c \notin Due(k, r, b, v) BY <1>3 DEF Due
  <2>5. Due(k, r, b, v)' \subseteq Connections /\ Due(k, r, b, v) \subseteq Connections BY DEF Due
  <2> HIDE DEF r, b
  <2>6. CASE \E s \in stays[k] : s.room = r /\ s.born = b /\ v \in During(s)
    <3>1. PICK s \in stays[k] : s.room = r /\ s.born = b /\ v \in During(s) BY <2>6
    <3>2. Once(k, r, b, v) BY <2>1, <3>1 DEF DInv, OnceEach
    <3>3. c \notin Due(k, r, b, v)'
      <4> SUFFICES ASSUME NEW x \in pending'[c], ChangeAt(x.event, r, b, v) PROVE FALSE
        BY DEF Due, ChangeAt, Changes
      <4>1. b = births'[r] /\ v = version[r] + 1 /\ (births'[r] = births[r] => r \in rooms)
        BY <1>5 DEF ChangeAt
      <4>2. /\ s.born <= births[r] /\ s.from \in Nat /\ s.until \in Nat
            /\ s.born = births[r] /\ r \in rooms => s.until <= version[r]
        BY <3>1, EventTypes DEF DInv, PastEvents
      <4>3. b = births[r] /\ r \in rooms BY <1>1, <1>4, <2>0, <3>1, <4>1, <4>2
      <4>4. s.until <= version[r] BY <3>1, <4>2, <4>3
      <4>5. v <= version[r] BY <1>1, <2>0, <3>1, <4>2, <4>4 DEF During
      <4> QED BY <1>1, <2>0, <4>1, <4>5
    <3>4. Due(k, r, b, v)' = Due(k, r, b, v)
      <4>1. \A d : d \in Due(k, r, b, v)' <=> d \in Due(k, r, b, v) BY <2>3, <2>4, <2>5, <3>3
      <4> QED BY <4>1
    <3> QED BY <2>1, <2>2, <3>2, <3>4 DEF Once, r, b
  <2>7. CASE \E x \in pending'[c] : x.to = k /\ ChangeAt(x.event, r, b, v)
    <3>1. PICK x \in pending'[c] : x.to = k /\ ChangeAt(x.event, r, b, v) BY <2>7
    <3>2. b = births'[r] /\ v = version[r] + 1 /\ (births'[r] = births[r] => r \in rooms)
      BY <1>5, <3>1 DEF ChangeAt
    <3>3. ASSUME NEW e \in Event, Past(e) PROVE ~ChangeAt(e, r, b, v)
      <4>1. ASSUME ChangeAt(e, r, b, v) PROVE FALSE
        <5>1. e.room = r /\ e.born = b /\ e.version = v BY <4>1 DEF ChangeAt
        <5>2. births'[r] = births[r] BY <1>1, <1>4, <2>0, <3>2, <3>3, <5>1 DEF Past
        <5>3. v <= version[r] BY <3>2, <3>3, <5>1, <5>2 DEF Past
        <5> QED BY <1>1, <2>0, <3>2, <5>3
      <4> QED BY <4>1
    <3>4. Arrived(k, r, b, v)' = {}
      <4>1. \A e \in BagToSet(received[k]) : e \in Event /\ Past(e) BY <1>1 DEF DInv, PastEvents
      <4> QED BY <2>2, <3>3, <4>1 DEF Arrived
    <3>5. Due(k, r, b, v) = {}
      <4>1. \A d \in Connections : \A y \in pending[d] : y.event \in Event /\ Past(y.event)
        BY <1>1 DEF DInv, PastEvents
      <4> QED BY <3>3, <4>1 DEF Due
    <3>6. c \in Due(k, r, b, v)' BY <3>1 DEF Due, ChangeAt, Changes
    <3>7. Due(k, r, b, v)' = {c}
      <4>1. \A d : d \in Due(k, r, b, v)' <=> d \in {c} BY <2>3, <2>5, <3>5, <3>6
      <4> QED BY <4>1
    <3> QED BY <3>4, <3>7 DEF Once, r, b
  <2> QED BY <2>1, <2>6, <2>7 DEF Commanded, r, b
<1> QED BY <1>6, <1>7, <1>8, <1>10, <1>11, <1>12, <1>13 DEF DInv

\* What a dispatch says, and that it is made for each target with a sender.
LEMMA DispatchFields ==
  ASSUME NEW targets, NEW kind, NEW r, NEW v, NEW c
  PROVE  /\ \A x \in DispatchTo(targets, kind, r, v, c) :
              /\ x.to \in targets /\ x.event.kind = kind
              /\ x.event.room = r /\ x.event.version = v /\ x.event.born = births'[r] /\ x.event.by = c
         /\ \A x, y \in DispatchTo(targets, kind, r, v, c) : x.to = y.to => x = y
         /\ \A k \in targets \intersect Registered :
              \E x \in DispatchTo(targets, kind, r, v, c) : x.to = k
<1> DEFINE e == [kind |-> kind, room |-> r, version |-> v, born |-> births'[r], by |-> c]
           D == DispatchTo(targets, kind, r, v, c)
<1>1. D = [to : targets \intersect Registered, event : {e}] BY DEF DispatchTo
<1>2. /\ e.kind = kind /\ e.room = r /\ e.version = v
      /\ e.born = births'[r] /\ e.by = c
  OBVIOUS
<1> HIDE DEF e, D
<1>3. \A x \in D : x.to \in targets /\ x.event = e /\ x = [to |-> x.to, event |-> x.event] BY <1>1
<1>4. \A k \in targets \intersect Registered : \E x \in D : x.to = k
  <2> SUFFICES ASSUME NEW k \in targets \intersect Registered PROVE \E x \in D : x.to = k OBVIOUS
  <2>1. [to |-> k, event |-> e] \in D BY <1>1
  <2> QED BY <2>1
<1>5. \A x, y \in D : x.to = y.to => x = y
  <2> SUFFICES ASSUME NEW x \in D, NEW y \in D, x.to = y.to PROVE x = y OBVIOUS
  <2>1. x = [to |-> x.to, event |-> e] BY <1>3
  <2>2. y = [to |-> y.to, event |-> e] BY <1>3
  <2> QED BY <2>1, <2>2
<1>6. \A x \in D : /\ x.to \in targets /\ x.event.kind = kind /\ x.event.room = r
                   /\ x.event.version = v /\ x.event.born = births'[r] /\ x.event.by = c
  BY <1>2, <1>3
<1> QED BY <1>4, <1>5, <1>6 DEF D

\* Answers are no changes.
LEMMA AnswerFields ==
  ASSUME NEW targets, NEW kind, NEW r, NEW v, NEW c,
         kind \notin {"room_message", "presence_changed"}
  PROVE  \A x \in DispatchTo(targets, kind, r, v, c) : ~Changes(x.event)
  BY DispatchFields DEF Changes

\* Each target with a sender is owed the change.
LEMMA ChangeFields ==
  ASSUME NEW targets, NEW kind, NEW r, NEW v, NEW c,
         kind \in {"room_message", "presence_changed"}
  PROVE  \A k \in targets \intersect Registered : \E x \in DispatchTo(targets, kind, r, v, c) :
           x.to = k /\ ChangeAt(x.event, r, births'[r], v)
  BY DispatchFields DEF Changes, ChangeAt

\* A membership goes on spanning what it spanned, and the version that its room
\* counts now.
LEMMA SpanGrows ==
  ASSUME IInv, NEW k \in Connections, NEW t \in stays[k], NEW v \in During(t)',
         t.until = 0 => version'[t.room] \in {version[t.room], version[t.room] + 1}
  PROVE  \/ v \in During(t)
         \/ /\ t.until = 0 /\ v = version[t.room] + 1 /\ version'[t.room] = version[t.room] + 1
            /\ k \in members[t.room] /\ t.room \in rooms /\ t.born = births[t.room]
<1>1. t.room \in Rooms /\ t.from \in Nat /\ t.until \in Nat /\ version[t.room] \in Nat BY EventTypes
<1>2. CASE t.until # 0 BY <1>2 DEF During
<1>3. CASE t.until = 0
  <2>1. k \in members[t.room] /\ t.born = births[t.room] BY <1>3 DEF IInv, OpenStays
  <2>2. t.room \in rooms BY <1>1, <2>1 DEF IInv, MembershipAgrees
  <2>3. v \in (t.from + 1)..version'[t.room] BY <1>3 DEF During
  <2>4. v \in (t.from + 1)..version[t.room] \/ (v = version[t.room] + 1 /\ version'[t.room] = version[t.room] + 1)
    BY <1>1, <1>3, <2>3
  <2> QED BY <1>3, <2>1, <2>2, <2>4 DEF During
<1> QED BY <1>2, <1>3

\* Questions change nothing but what waits for the asker.
LEMMA AskingCommanded ==
  ASSUME IInv, DInv, NEW c \in Connections,
         Refuse(c) \/ \E r \in Rooms : JoinAgain(c, r) \/ Sync(c, r)
  PROVE  Commanded(c)
<1>1. /\ UNCHANGED <<session, hubVars, received, births, stays>>
      /\ session[c] \in {"open", "deaf"} /\ pending[c] = {}
      /\ DOMAIN pending = Connections
  BY DEF JoinAgain, Sync, Refuse, Command, Ready, Registered, IInv, TypeOK
<1>2. /\ \A d \in Connections \ {c} : pending'[d] = pending[d]
      /\ \A x \in pending'[c] :
           /\ x.event.by = c /\ x.event.room \in rooms /\ x.event.born = births[x.event.room]
           /\ x.event.version = version[x.event.room]
           /\ ~Changes(x.event) /\ x.event.kind # "room_message"
  <2>1. CASE Refuse(c) BY <1>1, <2>1 DEF Refuse
  <2>2. ASSUME NEW r \in Rooms, r \in rooms, NEW kind \in {"joined_room", "room_state"},
               pending' = [pending EXCEPT ![c] = @ \union DispatchTo({c}, kind, r, version[r], c)]
        PROVE  <1>2!2 /\ <1>2!1
    <3>1. pending'[c] = DispatchTo({c}, kind, r, version[r], c) BY <1>1, <2>2
    <3>2. \A x \in pending'[c] :
            /\ x.event.kind = kind /\ x.event.by = c /\ x.event.room = r
            /\ x.event.version = version[r] /\ x.event.born = births'[r]
      BY <3>1, DispatchFields
    <3> QED BY <1>1, <2>2, <3>2 DEF Changes
  <2>3. ASSUME NEW r \in Rooms, JoinAgain(c, r) PROVE <1>2!2 /\ <1>2!1
    <3>1. DispatchTo(Announced(c, r), "presence_changed", r, version[r], c) = {}
      BY <2>3 DEF JoinAgain, Announced, DispatchTo
    <3>2. pending' = [pending EXCEPT ![c] = @ \union DispatchTo({c}, "joined_room", r, version[r], c)]
      BY <2>3, <3>1 DEF JoinAgain
    <3>3. r \in rooms BY <2>3 DEF JoinAgain, IInv, MembershipAgrees
    <3> QED BY <2>2, <3>2, <3>3
  <2>4. ASSUME NEW r \in Rooms, Sync(c, r) PROVE <1>2!2 /\ <1>2!1 BY <2>2, <2>4 DEF Sync
  <2> QED BY <2>1, <2>3, <2>4
<1>3. rooms \subseteq Rooms /\ \A q \in Rooms : version[q] \in Nat BY DEF IInv, TypeOK
<1>4. \A x, y \in pending'[c] : x.event.room = y.event.room => x.event.version = y.event.version
  BY <1>2
<1>5. \A k \in Connections : \A t \in stays'[k] :
        /\ t \in stays[k] /\ During(t)' = During(t)
        /\ t.born <= births'[t.room]
        /\ t.born = births'[t.room] /\ t.room \in rooms' => t.until <= version'[t.room]
  BY <1>1 DEF During, DInv, PastEvents, hubVars
<1> QED BY <1>1, <1>2, <1>3, <1>4, <1>5 DEF Commanded, hubVars

\* A message counts one change and is owed to each member.
LEMMA SendCommanded ==
  ASSUME IInv, DInv, NEW c \in Connections, NEW r \in Rooms, Send(c, r) PROVE Commanded(c)
<1> DEFINE w == version[r] + 1
<1>1. /\ session[c] \in {"open", "deaf"} /\ pending[c] = {} /\ r \in rooms
      /\ version' = [version EXCEPT ![r] = w]
      /\ recent' = [recent EXCEPT ![r] = Capped(Append(recent[r], w))]
      /\ pending' = [pending EXCEPT ![c] = @ \union DispatchTo(members[r], "room_message", r, w, c)]
      /\ UNCHANGED <<session, rooms, members, received, stays, births>>
  BY DEF Send, Command, Ready, Registered, Recipients
<1>2. /\ DOMAIN pending = Connections /\ version \in [Rooms -> Nat] /\ DOMAIN recent = Rooms
      /\ members[r] \subseteq Connections /\ births \in [Rooms -> Nat]
  BY DEF IInv, TypeOK
<1>3. /\ version'[r] = w /\ recent'[r] = Capped(Append(recent[r], w))
      /\ \A q \in Rooms : q # r => version'[q] = version[q] /\ recent'[q] = recent[q]
  BY <1>1, <1>2
<1>4. pending'[c] = DispatchTo({}, "left_room", r, w, c) \union DispatchTo(members[r], "room_message", r, w, c)
  BY <1>1, <1>2 DEF DispatchTo
<1>5. /\ \A x \in pending'[c] : /\ x.event.by = c /\ x.event.room = r
                                /\ x.event.born = births'[r] /\ x.event.version = w
      /\ \A x, y \in pending'[c] : x.to = y.to /\ Changes(x.event) /\ Changes(y.event) => x = y
      /\ \A k \in members[r] \intersect Registered :
           \E x \in pending'[c] : x.to = k /\ ChangeAt(x.event, r, births'[r], w)
  <2> DEFINE A == DispatchTo({}, "left_room", r, w, c)
             B == DispatchTo(members[r], "room_message", r, w, c)
  <2> HIDE DEF w
  <2>1. \A x \in A : ~Changes(x.event) BY AnswerFields
  <2>2. \A x, y \in B : x.to = y.to => x = y BY DispatchFields
  <2>3. \A x \in A \union B : /\ x.event.by = c /\ x.event.room = r
                             /\ x.event.born = births'[r] /\ x.event.version = w
                             /\ x.event.kind \in {"left_room", "room_message"}
    BY DispatchFields
  <2>4. \A k \in members[r] \intersect Registered : \E x \in B : x.to = k /\ ChangeAt(x.event, r, births'[r], w)
    BY ChangeFields
  <2>5. pending'[c] = A \union B BY <1>4
  <2> HIDE DEF A, B
  <2> QED BY <2>1, <2>2, <2>3, <2>4, <2>5
<1>6. ASSUME NEW k \in Connections, NEW t \in stays'[k]
      PROVE  /\ t.born <= births'[t.room]
             /\ t.born = births'[t.room] /\ t.room \in rooms' => t.until <= version'[t.room]
             /\ session'[k] = "open" => \A v \in During(t)' :
                  \/ \E s \in stays[k] : s.room = t.room /\ s.born = t.born /\ v \in During(s)
                  \/ \E x \in pending'[c] : x.to = k /\ ChangeAt(x.event, t.room, t.born, v)
  <2>1. t \in stays[k] BY <1>1, <1>6
  <2>2. /\ t.room \in Rooms /\ t.until \in Nat /\ t.born <= births[t.room]
        /\ t.born = births[t.room] /\ t.room \in rooms => t.until <= version[t.room]
    BY <2>1, EventTypes DEF DInv, PastEvents
  <2>3. version'[t.room] \in {version[t.room], version[t.room] + 1} /\ version[t.room] \in Nat
    BY <1>2, <1>3, <2>2
  <2>4. ASSUME session'[k] = "open", NEW v \in During(t)', v \notin During(t)
        PROVE  \E x \in pending'[c] : x.to = k /\ ChangeAt(x.event, t.room, t.born, v)
    <3>1. /\ v = version[t.room] + 1 /\ version'[t.room] = version[t.room] + 1
          /\ k \in members[t.room] /\ t.born = births[t.room]
      BY <2>1, <2>3, <2>4, SpanGrows
    <3>2. t.room = r BY <1>3, <2>2, <2>3, <3>1
    <3>3. k \in members[r] \intersect Registered BY <1>1, <2>4, <3>1, <3>2 DEF Registered
    <3> QED BY <1>1, <1>5, <3>1, <3>2, <3>3
  <2> QED BY <1>1, <2>1, <2>2, <2>3, <2>4
<1>7. \A d \in Connections \ {c} : pending'[d] = pending[d] /\ stays'[d] = stays[d] BY <1>1, <1>2
<1>8. \A q \in Rooms : /\ births'[q] = births[q]
                       /\ q \in rooms' => q \in rooms /\ version'[q] \in {version[q], version[q] + 1}
  BY <1>1, <1>3
<1>9. \A q \in Rooms :
        \/ recent'[q] = recent[q] /\ \A x \in pending'[c] : x.event.room # q
        \/ recent'[q] = Capped(Append(recent[q], version[q] + 1)) /\ version'[q] = version[q] + 1
  BY <1>3, <1>5
<1>10. \A x \in pending'[c] :
         /\ x.event.by = c /\ x.event.room \in rooms /\ x.event.born = births'[x.event.room]
         /\ x.event.version = version[x.event.room] + 1 /\ x.event.version = version'[x.event.room]
  BY <1>1, <1>3, <1>5
<1>11. \A x, y \in pending'[c] : x.event.version = y.event.version
  <2> HIDE DEF w
  <2> QED BY <1>5
<1> QED BY <1>1, <1>5, <1>6, <1>7, <1>8, <1>9, <1>10, <1>11 DEF Commanded

\* A join counts one change, or begins a new life; it is owed to those who were
\* there.  The newcomer's membership spans nothing as yet.
LEMMA JoinCommanded ==
  ASSUME IInv, DInv, NEW c \in Connections, NEW r \in Rooms, Join(c, r) PROVE Commanded(c)
<1> DEFINE w == version[r] + 1
           st == [room |-> r, born |-> births'[r], from |-> w, until |-> 0]
           peers == members[r]
<1>1. /\ session[c] \in {"open", "deaf"} /\ pending[c] = {} /\ c \notin members[r]
      /\ births' = IF r \in rooms THEN births ELSE [births EXCEPT ![r] = @ + 1]
      /\ rooms' = rooms \union {r}
      /\ version' = [version EXCEPT ![r] = w]
      /\ stays' = [stays EXCEPT ![c] = @ \union {st}]
      /\ pending' = [pending EXCEPT ![c] = @ \union
           (DispatchTo({c}, "joined_room", r, w, c)
              \union DispatchTo(Announced(c, r), "presence_changed", r, w, c))]
      /\ UNCHANGED <<session, recent, received>>
  BY DEF Join, Command, Ready, Registered
<1>2. /\ DOMAIN pending = Connections /\ version \in [Rooms -> Nat] /\ births \in [Rooms -> Nat]
      /\ DOMAIN stays = Connections
  BY DEF IInv, TypeOK
<1>3. version'[r] = w /\ \A q \in Rooms : q # r => version'[q] = version[q]
  BY <1>1, <1>2
<1>4. \A q \in Rooms : births'[q] = IF q = r /\ r \notin rooms THEN births[q] + 1 ELSE births[q]
  BY <1>1, <1>2
<1>5. Announced(c, r) = peers BY <1>1 DEF Announced
<1>6. pending'[c] = DispatchTo({c}, "joined_room", r, w, c) \union DispatchTo(peers, "presence_changed", r, w, c)
  BY <1>1, <1>2, <1>5
<1>7. /\ \A x \in pending'[c] : /\ x.event.by = c /\ x.event.room = r
                                /\ x.event.born = births'[r] /\ x.event.version = w
                                /\ x.event.kind \in {"joined_room", "presence_changed"}
      /\ \A x, y \in pending'[c] : x.to = y.to /\ Changes(x.event) /\ Changes(y.event) => x = y
      /\ \A k \in peers \intersect Registered :
           \E x \in pending'[c] : x.to = k /\ ChangeAt(x.event, r, births'[r], w)
  <2> DEFINE A == DispatchTo({c}, "joined_room", r, w, c)
             B == DispatchTo(peers, "presence_changed", r, w, c)
  <2> HIDE DEF w, peers
  <2>1. \A x \in A : ~Changes(x.event) BY AnswerFields
  <2>2. \A x, y \in B : x.to = y.to => x = y BY DispatchFields
  <2>3. \A x \in A \union B : /\ x.event.by = c /\ x.event.room = r
                             /\ x.event.born = births'[r] /\ x.event.version = w
                             /\ x.event.kind \in {"joined_room", "presence_changed"}
    BY DispatchFields
  <2>4. \A k \in peers \intersect Registered : \E x \in B : x.to = k /\ ChangeAt(x.event, r, births'[r], w)
    BY ChangeFields
  <2>5. pending'[c] = A \union B BY <1>6
  <2> HIDE DEF A, B
  <2> QED BY <2>1, <2>2, <2>3, <2>4, <2>5
<1>8. st.room = r /\ st.born = births'[r] /\ st.from = w /\ st.until = 0 OBVIOUS
<1> HIDE DEF st
<1>9. ASSUME NEW k \in Connections, NEW t \in stays'[k]
      PROVE  /\ t.born <= births'[t.room]
             /\ t.born = births'[t.room] /\ t.room \in rooms' => t.until <= version'[t.room]
             /\ session'[k] = "open" => \A v \in During(t)' :
                  \/ \E s \in stays[k] : s.room = t.room /\ s.born = t.born /\ v \in During(s)
                  \/ \E x \in pending'[c] : x.to = k /\ ChangeAt(x.event, t.room, t.born, v)
  <2>1. t \in stays[k] \/ t = st BY <1>1, <1>2, <1>9
  <2>2. CASE t = st
    <3>1. w \in Nat /\ births'[r] \in Nat BY <1>2, <1>4
    <3>2. During(t)' = {} BY <1>3, <1>8, <2>2, <3>1 DEF During
    <3> QED BY <1>3, <1>8, <2>2, <3>1, <3>2
  <2>3. CASE t \in stays[k]
    <3>1. /\ t.room \in Rooms /\ t.until \in Nat /\ t.born \in Nat /\ t.born <= births[t.room]
          /\ t.born = births[t.room] /\ t.room \in rooms => t.until <= version[t.room]
      BY <2>3, EventTypes DEF DInv, PastEvents
    <3>2. /\ version'[t.room] \in {version[t.room], version[t.room] + 1}
          /\ version[t.room] \in Nat /\ births[t.room] \in Nat
      BY <1>2, <1>3, <3>1
    <3>3. t.born <= births'[t.room] BY <1>4, <3>1, <3>2
    <3>4. ASSUME t.born = births'[t.room], t.room \in rooms' PROVE t.until <= version'[t.room]
      <4>1. t.born = births[t.room] /\ t.room \in rooms BY <1>1, <1>4, <3>1, <3>2, <3>4
      <4> QED BY <3>1, <3>2, <4>1
    <3>5. ASSUME session'[k] = "open", NEW v \in During(t)', v \notin During(t)
          PROVE  \E x \in pending'[c] : x.to = k /\ ChangeAt(x.event, t.room, t.born, v)
      <4>1. /\ v = version[t.room] + 1 /\ version'[t.room] = version[t.room] + 1
            /\ k \in members[t.room] /\ t.room \in rooms /\ t.born = births[t.room]
        BY <2>3, <3>2, <3>5, SpanGrows
      <4>2. t.room = r BY <1>3, <3>1, <3>2, <4>1
      <4>3. k \in peers \intersect Registered BY <1>1, <3>5, <4>1, <4>2 DEF Registered
      <4>4. births'[r] = births[r] BY <1>4, <3>1, <4>1, <4>2
      <4> QED BY <1>7, <4>1, <4>2, <4>3, <4>4
    <3> QED BY <2>3, <3>3, <3>4, <3>5
  <2> QED BY <2>1, <2>2, <2>3
<1>10. \A d \in Connections \ {c} : pending'[d] = pending[d] /\ stays'[d] = stays[d] BY <1>1, <1>2
<1>11. \A q \in Rooms :
         \/ /\ births'[q] = births[q]
            /\ q \in rooms' => q \in rooms /\ version'[q] \in {version[q], version[q] + 1}
         \/ births'[q] = births[q] + 1 /\ q \notin rooms /\ recent'[q] = recent[q]
  BY <1>1, <1>3, <1>4
<1>12. \A x \in pending'[c] :
         /\ x.event.by = c /\ x.event.room \in Rooms /\ x.event.born = births'[x.event.room]
         /\ births'[x.event.room] = births[x.event.room] => x.event.room \in rooms
         /\ x.event.version = version[x.event.room] + 1 /\ x.event.version = version'[x.event.room]
         /\ x.event.kind # "room_message"
  BY <1>2, <1>3, <1>4, <1>7
<1>13. \A x, y \in pending'[c] : x.event.version = y.event.version
  <2> HIDE DEF w
  <2> QED BY <1>7
<1>14. \A q \in Rooms : recent'[q] = recent[q] /\ \A x \in pending'[c] : x.event.kind # "room_message"
  BY <1>1, <1>12
<1>15. \A x, y \in pending'[c] : x.to = y.to /\ Changes(x.event) /\ Changes(y.event) => x = y BY <1>7
<1>16. /\ session[c] \in {"open", "deaf"} /\ pending[c] = {}
       /\ \A k \in Connections : session'[k] = session[k] /\ received'[k] = received[k]
  BY <1>1
<1> QED BY <1>9, <1>10, <1>11, <1>12, <1>13, <1>14, <1>15, <1>16 DEF Commanded

\* A leave counts one change, which is owed to those who remain, or ends the life
\* of the room.  The leaver's membership ends where it was.
LEMMA LeaveCommanded ==
  ASSUME IInv, DInv, NEW c \in Connections, NEW r \in Rooms, Leave(c, r) PROVE Commanded(c)
<1> DEFINE w    == version[r] + 1
           left == [members EXCEPT ![r] = @ \ {c}]
           kept == NonEmpty(left)
           peers == left[r]
           closing == [version EXCEPT ![r] = w]
<1>1. /\ session[c] \in {"open", "deaf"} /\ pending[c] = {} /\ r \in rooms /\ c \in members[r]
      /\ rooms' = kept /\ members' = left
      /\ version' = ForGone(kept, closing, 0)
      /\ recent' = ForGone(kept, recent, << >>)
      /\ stays' = [stays EXCEPT ![c] = Ended(c, {r}, closing)]
      /\ pending' = [pending EXCEPT ![c] = @ \union
           (DispatchTo({c}, "left_room", r, w, c) \union DispatchTo(peers, "presence_changed", r, w, c))]
      /\ UNCHANGED <<session, received, births>>
  BY DEF Leave, Command, Ready, Registered
<1>2. /\ DOMAIN pending = Connections /\ DOMAIN stays = Connections /\ version \in [Rooms -> Nat]
      /\ births \in [Rooms -> Nat] /\ members \in [Rooms -> SUBSET Connections]
  BY DEF IInv, TypeOK
<1>3. /\ kept \subseteq rooms
      /\ \A q \in Rooms : left[q] # {} => q \in kept
      /\ \A k \in Connections, q \in Rooms : k \in members[q] /\ (k # c \/ q # r) => k \in left[q]
  BY <1>2 DEF NonEmpty, IInv, MembershipAgrees
<1>4. closing[r] = w /\ \A q \in Rooms : closing[q] = IF q = r THEN version[q] + 1 ELSE version[q]
  BY <1>2
<1>5. pending'[c] = DispatchTo({c}, "left_room", r, w, c) \union DispatchTo(peers, "presence_changed", r, w, c)
  BY <1>1, <1>2
<1>6. /\ \A x \in pending'[c] : /\ x.event.by = c /\ x.event.room = r
                                /\ x.event.born = births'[r] /\ x.event.version = w
                                /\ x.event.kind \in {"left_room", "presence_changed"}
      /\ \A x, y \in pending'[c] : x.to = y.to /\ Changes(x.event) /\ Changes(y.event) => x = y
      /\ \A k \in peers \intersect Registered :
           \E x \in pending'[c] : x.to = k /\ ChangeAt(x.event, r, births'[r], w)
  <2> DEFINE A == DispatchTo({c}, "left_room", r, w, c)
             B == DispatchTo(peers, "presence_changed", r, w, c)
  <2> HIDE DEF w, peers
  <2>1. \A x \in A : ~Changes(x.event) BY AnswerFields
  <2>2. \A x, y \in B : x.to = y.to => x = y BY DispatchFields
  <2>3. \A x \in A \union B : /\ x.event.by = c /\ x.event.room = r
                              /\ x.event.born = births'[r] /\ x.event.version = w
                              /\ x.event.kind \in {"left_room", "presence_changed"}
    BY DispatchFields
  <2>4. \A k \in peers \intersect Registered : \E x \in B : x.to = k /\ ChangeAt(x.event, r, births'[r], w)
    BY ChangeFields
  <2>5. pending'[c] = A \union B BY <1>5
  <2> HIDE DEF A, B
  <2> QED BY <2>1, <2>2, <2>3, <2>4, <2>5
<1>7. peers = left[r] OBVIOUS
<1> HIDE DEF left, kept, closing, peers
<1>8. \A q \in Rooms : /\ version[q] \in Nat
                       /\ q \in rooms' => q \in rooms /\ version'[q] = closing[q]
                       /\ recent'[q] = recent[q] \/ (q \notin rooms' /\ recent'[q] = << >>)
  BY <1>1, <1>2, <1>3 DEF ForGone
<1>9. \A k \in Connections : \A t \in stays'[k] :
        \/ t \in stays[k] /\ (k # c \/ t.room # r \/ t.until # 0)
        \/ \E s \in stays[k] : s.room = r /\ s.until = 0 /\ t = [s EXCEPT !.until = w]
  BY <1>1, <1>2, <1>4 DEF Ended
<1>10. ASSUME NEW k \in Connections, NEW s \in stays[k]
       PROVE  /\ s \in Stay /\ s.room \in Rooms /\ s.from \in Nat /\ s.until \in Nat
              /\ s.born <= births'[s.room]
              /\ s.born = births'[s.room] /\ s.room \in rooms' => s.until <= version[s.room]
  <2>1. s \in Stay BY DEF IInv, TypeOK
  <2>2. s.room \in Rooms /\ s.from \in Nat /\ s.until \in Nat BY EventTypes
  <2> QED BY <1>1, <1>8, <2>1, <2>2 DEF DInv, PastEvents
<1>11. ASSUME NEW k \in Connections, NEW t \in stays'[k]
       PROVE  /\ t.born <= births'[t.room]
              /\ t.born = births'[t.room] /\ t.room \in rooms' => t.until <= version'[t.room]
              /\ session'[k] = "open" => \A v \in During(t)' :
                   \/ \E s \in stays[k] : s.room = t.room /\ s.born = t.born /\ v \in During(s)
                   \/ \E x \in pending'[c] : x.to = k /\ ChangeAt(x.event, t.room, t.born, v)
  <2>1. CASE t \in stays[k] /\ (k # c \/ t.room # r \/ t.until # 0)
    <3>1. /\ t.room \in Rooms /\ t.until \in Nat /\ t.born <= births'[t.room]
          /\ t.born = births'[t.room] /\ t.room \in rooms' => t.until <= version[t.room]
      BY <1>10, <2>1
    <3>2. t.room \in rooms' => /\ version'[t.room] \in {version[t.room], version[t.room] + 1}
                               /\ t.room # r => version'[t.room] = version[t.room]
                               /\ version[t.room] \in Nat
      BY <1>4, <1>8, <3>1
    <3>3. t.until = 0 => /\ k \in left[t.room] /\ t.room \in rooms'
                         /\ version'[t.room] \in {version[t.room], version[t.room] + 1}
      <4> SUFFICES ASSUME t.until = 0 PROVE k \in left[t.room] /\ t.room \in rooms' BY <3>2
      <4>1. k \in members[t.room] BY <2>1 DEF IInv, OpenStays
      <4>2. k \in left[t.room] BY <1>3, <2>1, <3>1, <4>1
      <4> QED BY <1>1, <1>3, <3>1, <4>2
    <3>4. ASSUME session'[k] = "open", NEW v \in During(t)', v \notin During(t)
          PROVE  \E x \in pending'[c] : x.to = k /\ ChangeAt(x.event, t.room, t.born, v)
      <4>1. /\ t.until = 0 /\ v = version[t.room] + 1 /\ version'[t.room] = version[t.room] + 1
            /\ t.born = births[t.room]
        BY <2>1, <3>3, <3>4, SpanGrows
      <4>2. t.room = r BY <3>2, <3>3, <4>1
      <4>3. k \in peers \intersect Registered BY <1>1, <1>7, <3>3, <3>4, <4>1, <4>2 DEF Registered
      <4> QED BY <1>1, <1>6, <4>1, <4>2, <4>3
    <3> QED BY <2>1, <3>1, <3>2, <3>4
  <2>2. CASE ~(t \in stays[k] /\ (k # c \/ t.room # r \/ t.until # 0))
    <3>0. PICK s \in stays[k] : s.room = r /\ s.until = 0 /\ t = [s EXCEPT !.until = w] BY <1>9, <2>2
    <3>1. /\ s \in Stay /\ s.from \in Nat /\ s.born <= births'[r] BY <1>10, <3>0
    <3>2. t.room = r /\ t.born = s.born /\ t.from = s.from /\ t.until = w BY <3>0, <3>1 DEF Stay
    <3>3. version[r] \in Nat BY <1>2
    <3>4. During(t)' = During(s) BY <3>0, <3>1, <3>2, <3>3 DEF During
    <3>5. r \in rooms' => w <= version'[r] BY <1>4, <1>8, <3>3
    <3> QED BY <3>0, <3>1, <3>2, <3>4, <3>5
  <2> QED BY <2>1, <2>2
<1>12. \A d \in Connections \ {c} : pending'[d] = pending[d] /\ stays'[d] = stays[d] BY <1>1, <1>2
<1>13. \A q \in Rooms : /\ births'[q] = births[q]
                        /\ q \in rooms' => q \in rooms /\ version'[q] \in {version[q], version[q] + 1}
  BY <1>1, <1>4, <1>8
<1>14. \A x \in pending'[c] :
         /\ x.event.by = c /\ x.event.room \in rooms /\ x.event.room \in Rooms
         /\ x.event.born = births'[x.event.room] /\ x.event.version = version[x.event.room] + 1
         /\ x.event.room \in rooms' => x.event.version = version'[x.event.room]
         /\ x.event.kind # "room_message"
  <2>1. r \in rooms' => version'[r] = w BY <1>4, <1>8
  <2>2. r \in rooms /\ r \in Rooms BY <1>1
  <2> QED BY <1>6, <2>1, <2>2
<1>15. \A q \in Rooms : /\ recent'[q] = recent[q] \/ (q \notin rooms' /\ recent'[q] = << >>)
                        /\ \A x \in pending'[c] : x.event.kind # "room_message"
  BY <1>8, <1>14
<1>16. \A x, y \in pending'[c] :
         /\ x.event.version = y.event.version
         /\ x.to = y.to /\ Changes(x.event) /\ Changes(y.event) => x = y
  <2> HIDE DEF w
  <2> QED BY <1>6
<1>17. /\ session[c] \in {"open", "deaf"} /\ pending[c] = {}
       /\ \A k \in Connections : session'[k] = session[k] /\ received'[k] = received[k]
  BY <1>1
<1> QED BY <1>11, <1>12, <1>13, <1>14, <1>15, <1>16, <1>17 DEF Commanded

\* The end of a connection counts one change in each of its rooms, owed to those
\* who remain there.
LEMMA DisconnectCommanded ==
  ASSUME IInv, DInv, NEW c \in Connections, Disconnect(c) PROVE Commanded(c)
<1> DEFINE w    == VersionAfterLoss(c)
           left == [q \in Rooms |-> IF q \in joined[c] THEN members[q] \ {c} ELSE members[q]]
           kept == NonEmpty(left)
           new(q) == DispatchTo(left[q], "presence_changed", q, w[q], c)
           news == UNION {new(q) : q \in joined[c]}
<1>1. /\ session[c] \in {"open", "deaf"} /\ pending[c] = {}
      /\ session' = [session EXCEPT ![c] = "closed"]
      /\ rooms' = kept /\ members' = left
      /\ version' = ForGone(kept, w, 0)
      /\ recent' = ForGone(kept, recent, << >>)
      /\ received' = [received EXCEPT ![c] = EmptyBag]
      /\ stays' = [stays EXCEPT ![c] = {}]
      /\ pending' = [pending EXCEPT ![c] = @ \union news]
      /\ UNCHANGED births
  BY DEF Disconnect, Ready, Registered
<1>2. /\ DOMAIN pending = Connections /\ DOMAIN stays = Connections /\ version \in [Rooms -> Nat]
      /\ births \in [Rooms -> Nat] /\ members \in [Rooms -> SUBSET Connections]
      /\ DOMAIN session = Connections /\ DOMAIN received = Connections /\ joined[c] \subseteq Rooms
  BY DEF IInv, TypeOK
<1>3. \A q \in Rooms : q \in joined[c] <=> c \in members[q] BY DEF IInv, MembershipAgrees
<1>4. /\ kept \subseteq rooms
      /\ \A q \in Rooms : left[q] = members[q] \ {c} /\ (left[q] # {} => q \in kept)
  BY <1>2, <1>3 DEF NonEmpty, IInv, MembershipAgrees
<1>5. \A q \in Rooms : w[q] = IF q \in joined[c] THEN version[q] + 1 ELSE version[q]
  BY <1>2 DEF VersionAfterLoss
<1>6. pending'[c] = news BY <1>1, <1>2
<1>7. /\ \A x \in news : x.event.room \in joined[c] /\ x \in new(x.event.room)
      /\ \A q \in joined[c] : new(q) \subseteq news
  <2>1. ASSUME NEW x \in news PROVE \E q \in joined[c] : x \in new(q) OBVIOUS
  <2>2. ASSUME NEW x \in news PROVE x.event.room \in joined[c] /\ x \in new(x.event.room)
    <3>1. PICK q \in joined[c] : x \in new(q) BY <2>1
    <3> HIDE DEF left, w
    <3>2. x.event.room = q BY <3>1, DispatchFields
    <3> QED BY <3>1, <3>2
  <2>3. \A q \in joined[c] : new(q) \subseteq news OBVIOUS
  <2> QED BY <2>2, <2>3
<1>8. ASSUME NEW q \in joined[c]
      PROVE  /\ \A x \in new(q) : /\ x.event.by = c /\ x.event.room = q /\ x.event.kind = "presence_changed"
                                  /\ x.event.born = births'[q] /\ x.event.version = w[q]
             /\ \A x, y \in new(q) : x.to = y.to => x = y
             /\ \A k \in left[q] \intersect Registered :
                  \E x \in new(q) : x.to = k /\ ChangeAt(x.event, q, births'[q], w[q])
  <2> DEFINE D == new(q)
  <2> HIDE DEF left, w
  <2>1. \A x, y \in D : x.to = y.to => x = y BY DispatchFields
  <2>2. \A x \in D : /\ x.event.by = c /\ x.event.room = q /\ x.event.kind = "presence_changed"
                     /\ x.event.born = births'[q] /\ x.event.version = w[q]
    BY DispatchFields
  <2>3. \A k \in left[q] \intersect Registered : \E x \in D : x.to = k /\ ChangeAt(x.event, q, births'[q], w[q])
    BY ChangeFields
  <2> QED BY <2>1, <2>2, <2>3
<1> HIDE DEF left, kept, w, new, news
<1>9. \A x \in pending'[c] :
        /\ x.event.room \in joined[c] /\ x.event.room \in Rooms /\ x.event.room \in rooms
        /\ x.event.by = c /\ x.event.kind = "presence_changed"
        /\ x.event.born = births'[x.event.room] /\ x.event.version = w[x.event.room]
  <2>1. \A q \in joined[c] : q \in Rooms /\ q \in rooms BY <1>2, <1>3 DEF IInv, MembershipAgrees
  <2> QED BY <1>6, <1>7, <1>8, <2>1
<1>10. \A x, y \in pending'[c] : x.event.room = y.event.room =>
         /\ x.event.version = y.event.version
         /\ x.to = y.to /\ Changes(x.event) /\ Changes(y.event) => x = y
  BY <1>6, <1>7, <1>8
<1>11. \A k \in Connections : \A q \in joined[c] : k \in left[q] \intersect Registered =>
         \E x \in pending'[c] : x.to = k /\ ChangeAt(x.event, q, births'[q], w[q])
  BY <1>6, <1>7, <1>8
<1>12. \A q \in Rooms : /\ version[q] \in Nat
                        /\ q \in rooms' => q \in rooms /\ version'[q] = w[q]
                        /\ recent'[q] = recent[q] \/ (q \notin rooms' /\ recent'[q] = << >>)
  BY <1>1, <1>2, <1>4 DEF ForGone
<1>13. \A k \in Connections :
         /\ k # c => session'[k] = session[k] /\ received'[k] = received[k] /\ stays'[k] = stays[k]
                     /\ pending'[k] = pending[k]
         /\ k = c => session'[k] = "closed" /\ received'[k] = EmptyBag /\ stays'[k] = {}
  BY <1>1, <1>2
<1>14. ASSUME NEW k \in Connections, NEW t \in stays'[k]
       PROVE  /\ t.born <= births'[t.room]
              /\ t.born = births'[t.room] /\ t.room \in rooms' => t.until <= version'[t.room]
              /\ session'[k] = "open" => \A v \in During(t)' :
                   \/ \E s \in stays[k] : s.room = t.room /\ s.born = t.born /\ v \in During(s)
                   \/ \E x \in pending'[c] : x.to = k /\ ChangeAt(x.event, t.room, t.born, v)
  <2>1. k # c /\ t \in stays[k] BY <1>13, <1>14
  <2>2. /\ t.room \in Rooms /\ t.until \in Nat /\ t.born <= births'[t.room]
        /\ t.born = births'[t.room] /\ t.room \in rooms' => t.until <= version[t.room]
    BY <1>1, <1>12, <2>1, EventTypes DEF DInv, PastEvents
  <2>3. t.room \in rooms' => /\ version'[t.room] \in {version[t.room], version[t.room] + 1}
                             /\ t.room \notin joined[c] => version'[t.room] = version[t.room]
                             /\ version[t.room] \in Nat /\ version'[t.room] = w[t.room]
    BY <1>5, <1>12, <2>2
  <2>4. t.until = 0 => /\ k \in left[t.room] /\ t.room \in rooms'
                       /\ version'[t.room] \in {version[t.room], version[t.room] + 1}
    <3> SUFFICES ASSUME t.until = 0 PROVE k \in left[t.room] /\ t.room \in rooms' BY <2>3
    <3>1. k \in members[t.room] BY <2>1 DEF IInv, OpenStays
    <3> QED BY <1>1, <1>4, <2>1, <2>2, <3>1
  <2>5. ASSUME session'[k] = "open", NEW v \in During(t)', v \notin During(t)
        PROVE  \E x \in pending'[c] : x.to = k /\ ChangeAt(x.event, t.room, t.born, v)
    <3>1. /\ t.until = 0 /\ v = version[t.room] + 1 /\ version'[t.room] = version[t.room] + 1
          /\ t.born = births[t.room]
      BY <2>1, <2>4, <2>5, SpanGrows
    <3>2. t.room \in joined[c] /\ w[t.room] = v BY <2>3, <2>4, <3>1
    <3>3. k \in left[t.room] \intersect Registered BY <1>13, <2>1, <2>4, <2>5, <3>1 DEF Registered
    <3> QED BY <1>1, <1>11, <3>1, <3>2, <3>3
  <2> QED BY <2>1, <2>2, <2>3, <2>5
<1>15. \A q \in Rooms : /\ births'[q] = births[q]
                        /\ q \in rooms' => q \in rooms /\ version'[q] \in {version[q], version[q] + 1}
  BY <1>1, <1>5, <1>12
<1>16. \A x \in pending'[c] :
         /\ x.event.version = version[x.event.room] + 1
         /\ x.event.room \in rooms' => x.event.version = version'[x.event.room]
         /\ x.event.kind # "room_message"
  BY <1>5, <1>9, <1>12
<1>17. \A q \in Rooms : /\ recent'[q] = recent[q] \/ (q \notin rooms' /\ recent'[q] = << >>)
                        /\ \A x \in pending'[c] : x.event.kind # "room_message"
  BY <1>12, <1>16
<1>18. \A d \in Connections \ {c} : pending'[d] = pending[d] /\ stays'[d] = stays[d] BY <1>13
<1>19. /\ session[c] \in {"open", "deaf"} /\ pending[c] = {}
       /\ \A k \in Connections :
            \/ session'[k] = session[k] /\ received'[k] = received[k]
            \/ k = c /\ session'[k] = "closed" /\ received'[k] = EmptyBag
  BY <1>1, <1>13
<1> QED BY <1>9, <1>10, <1>14, <1>15, <1>16, <1>17, <1>18, <1>19 DEF Commanded

-----------------------------------------------------------------------------
(* The other steps keep the second invariant *)

\* A channel with one more event is a bag, and counts only that event anew.
LEMMA OneMoreCounted ==
  ASSUME NEW B, IsABag(B), NEW e, NEW D, D = B (+) SetToBag({e})
  PROVE  /\ IsABag(D)
         /\ BagToSet(D) = BagToSet(B) \union {e}
         /\ \A f \in BagToSet(B) : f # e => D[f] = B[f]
         /\ e \in BagToSet(B) => D[e] = B[e] + 1
         /\ e \notin BagToSet(B) => D[e] = 1
<1> DEFINE S == SetToBag({e})
<1>0. D = B (+) S OBVIOUS
<1>1. DOMAIN S = {e} /\ S[e] = 1 BY DEF SetToBag
<1> HIDE DEF S
<1>2. /\ DOMAIN D = DOMAIN B \union {e}
      /\ \A f \in DOMAIN D : D[f] = (IF f \in DOMAIN B THEN B[f] ELSE 0) + (IF f \in DOMAIN S THEN S[f] ELSE 0)
      /\ D = [f \in DOMAIN D |-> D[f]]
  BY <1>0, <1>1 DEF (+)
<1>3. \A f \in DOMAIN B : B[f] \in Nat /\ B[f] > 0 BY DEF IsABag
<1>4. \A f \in DOMAIN B : f # e => D[f] = B[f] BY <1>1, <1>2, <1>3
<1>5. e \in DOMAIN B => D[e] = B[e] + 1 BY <1>1, <1>2
<1>6. ASSUME e \notin DOMAIN B PROVE D[e] = 1
  <2>1. e \in DOMAIN D /\ e \in DOMAIN S BY <1>1, <1>2
  <2>2. D[e] = 0 + S[e] BY <1>2, <1>6, <2>1
  <2> QED BY <1>1, <2>2
<1>7. \A f \in DOMAIN D : D[f] \in {n \in Nat : n > 0} BY <1>2, <1>3, <1>4, <1>5, <1>6
<1>8. IsABag(D) BY <1>2, <1>7 DEF IsABag
<1> QED BY <1>2, <1>4, <1>5, <1>6, <1>8 DEF BagToSet

\* The channel of the receiver, when it is open, has the event once more.
LEMMA DeliverCounts ==
  ASSUME IInv, DInv, NEW c \in Connections, NEW d \in pending[c], Deliver(c, d)
  PROVE  /\ \A k \in Connections : ~(k = d.to /\ session[k] = "open") => received'[k] = received[k]
         /\ \A k \in Connections : k = d.to /\ session[k] = "open" =>
              /\ IsABag(received'[k])
              /\ BagToSet(received'[k]) = BagToSet(received[k]) \union {d.event}
              /\ \A f \in BagToSet(received[k]) : f # d.event => received'[k][f] = received[k][f]
              /\ d.event \notin BagToSet(received[k]) => received'[k][d.event] = 1
<1> DEFINE e == d.event
<1>1. d.to \in Connections BY EventTypes
<1>2. DOMAIN received = Connections /\ \A k \in Connections : IsABag(received[k])
  BY DEF IInv, TypeOK, DInv, ChannelsAreBags
<1>3. \A k \in Connections :
        received'[k] = IF k = d.to /\ session[k] = "open" THEN received[k] (+) SetToBag({e}) ELSE received[k]
  BY <1>1, <1>2 DEF Deliver
<1>4. ASSUME NEW k \in Connections, k = d.to, session[k] = "open"
      PROVE  /\ IsABag(received'[k])
             /\ BagToSet(received'[k]) = BagToSet(received[k]) \union {e}
             /\ \A f \in BagToSet(received[k]) : f # e => received'[k][f] = received[k][f]
             /\ e \notin BagToSet(received[k]) => received'[k][e] = 1
  <2> DEFINE B == received[k]
             D == received'[k]
  <2>1. IsABag(B) /\ D = B (+) SetToBag({e}) BY <1>2, <1>3, <1>4
  <2> HIDE DEF e, B, D
  <2>2. /\ IsABag(D) /\ BagToSet(D) = BagToSet(B) \union {e}
        /\ \A f \in BagToSet(B) : f # e => D[f] = B[f]
        /\ e \notin BagToSet(B) => D[e] = 1
    BY <2>1, OneMoreCounted
  <2> QED BY <2>2 DEF B, D
<1> HIDE DEF e
<1>5. \A k \in Connections : ~(k = d.to /\ session[k] = "open") => received'[k] = received[k] BY <1>3
<1> QED BY <1>4, <1>5 DEF e

\* An event that is sent was waiting, and waits no more; it was the only copy.
LEMMA DeliverKeepsD ==
  ASSUME IInv, DInv, NEW c \in Connections, NEW d \in pending[c], Deliver(c, d)
  PROVE  DInv'
<1> DEFINE e == d.event
<1>1. /\ pending' = [pending EXCEPT ![c] = @ \ {d}]
      /\ UNCHANGED <<session, hubVars, births, stays, commands>>
  BY DEF Deliver
<1>2. e \in Event BY EventTypes
<1>3. DOMAIN pending = Connections /\ \A k \in Connections : IsABag(received[k])
  BY DEF IInv, TypeOK, DInv, ChannelsAreBags
<1>4. \A k \in Connections : ~(k = d.to /\ session[k] = "open") => received'[k] = received[k] BY DeliverCounts
<1>5. \A k \in Connections : k = d.to /\ session[k] = "open" =>
        /\ IsABag(received'[k])
        /\ BagToSet(received'[k]) = BagToSet(received[k]) \union {e}
        /\ \A f \in BagToSet(received[k]) : f # e => received'[k][f] = received[k][f]
        /\ e \notin BagToSet(received[k]) => received'[k][e] = 1
  BY DeliverCounts
<1>6. \A k \in Connections : \A f \in BagToSet(received'[k]) :
        f \in BagToSet(received[k]) \/ (f = e /\ k = d.to)
  <2> HIDE DEF e
  <2> QED BY <1>4, <1>5
<1>7. /\ \A b \in Connections : \A x \in pending'[b] : x \in pending[b] /\ (b = c => x # d)
      /\ \A b \in Connections : \A x \in pending[b] : x \in pending'[b] \/ (b = c /\ x = d)
  BY <1>1, <1>3
<1>8. PastEvents'
  <2>1. \A f : Past(f) => Past(f)' BY <1>1 DEF Past, hubVars
  <2>2. \A b \in Connections : \A x \in pending[b] : Past(x.event) BY DEF DInv, PastEvents
  <2>3. \A b \in Connections : \A x \in pending'[b] : Past(x.event)' BY <1>7, <2>1, <2>2
  <2>4. \A k \in Connections : \A f \in BagToSet(received'[k]) : Past(f)'
    BY <1>6, <2>1, <2>2 DEF DInv, PastEvents
  <2>5. \A k \in Connections : \A s \in stays'[k] :
          /\ s.born <= births'[s.room]
          /\ s.born = births'[s.room] /\ s.room \in rooms' => s.until <= version'[s.room]
    BY <1>1 DEF DInv, PastEvents, hubVars
  <2> QED BY <2>3, <2>4, <2>5 DEF PastEvents
<1>9. OneCommand' BY <1>7 DEF DInv, OneCommand, Changes
<1>10. SentInOrder'
  <2> SUFFICES ASSUME NEW b \in Connections, NEW k \in Connections, NEW x \in pending'[b],
                      NEW f \in BagToSet(received'[k]),
                      f.by = b, f.room = x.event.room, f.born = x.event.born
               PROVE  f.version <= x.event.version
    BY DEF SentInOrder
  <2>1. x \in pending[b] BY <1>7
  <2>2. CASE f \in BagToSet(received[k]) BY <2>1, <2>2 DEF DInv, SentInOrder
  <2>3. CASE f = e
    <3>1. b = c BY <2>3 DEF DInv, OneCommand
    <3>2. f.version = x.event.version BY <2>1, <2>3, <3>1 DEF DInv, OneCommand
    <3>3. f.version \in Nat BY <1>2, <2>3, EventTypes
    <3> QED BY <3>2, <3>3
  <2> QED BY <1>6, <2>2, <2>3
<1>11. HistorySorted' BY <1>1 DEF DInv, HistorySorted, Sorted, hubVars
<1>12. MessagesRemembered'
  <2>1. \A f : Remembered(f) => Remembered(f)' BY <1>1 DEF Remembered, In, hubVars
  <2>2. \A b \in Connections : \A x \in pending[b] : Remembered(x.event) BY DEF DInv, MessagesRemembered
  <2>3. \A b \in Connections : \A x \in pending'[b] : Remembered(x.event)' BY <1>7, <2>1, <2>2
  <2>4. \A k \in Connections : \A f \in BagToSet(received'[k]) : Remembered(f)'
    BY <1>6, <2>1, <2>2 DEF DInv, MessagesRemembered
  <2> QED BY <2>3, <2>4 DEF MessagesRemembered
<1>13. ChannelsAreBags'
  <2> HIDE DEF e
  <2> QED BY <1>3, <1>4, <1>5 DEF ChannelsAreBags
<1>14. NewIsBlank' BY <1>1 DEF DInv, NewIsBlank
<1>15. OnceEach'
  <2> SUFFICES ASSUME NEW k \in Connections, session[k] = "open", NEW s \in stays[k], NEW v \in During(s)
               PROVE  Once(k, s.room, s.born, v)'
    BY <1>1 DEF OnceEach, Once, Due, Arrived, During, ChangeAt, Changes, hubVars
  <2> DEFINE r == s.room
             b == s.born
  <2>1. Once(k, r, b, v) BY DEF DInv, OnceEach
  <2>2. /\ Due(k, r, b, v)' \subseteq Due(k, r, b, v)
        /\ Due(k, r, b, v) \subseteq Due(k, r, b, v)' \union {c}
    BY <1>7 DEF Due, ChangeAt, Changes
  <2>3. ASSUME d.to = k, ChangeAt(e, r, b, v) PROVE Once(k, r, b, v)'
    <3>1. c \in Due(k, r, b, v) BY <2>3 DEF Due
    <3>2. Due(k, r, b, v) = {c} /\ Arrived(k, r, b, v) = {} BY <2>1, <3>1 DEF Once
    <3>3. c \notin Due(k, r, b, v)'
      <4> SUFFICES ASSUME NEW x \in pending'[c], x.to = k, ChangeAt(x.event, r, b, v) PROVE FALSE
        BY DEF Due, ChangeAt, Changes
      <4>1. x \in pending[c] /\ x # d BY <1>7
      <4> QED BY <2>3, <4>1 DEF DInv, OneCommand, ChangeAt
    <3>4. Due(k, r, b, v)' = {} BY <2>2, <3>2, <3>3
    <3>5. e \notin BagToSet(received[k]) BY <2>3, <3>2 DEF Arrived
    <3> HIDE DEF e
    <3>7. received'[k][e] = 1 /\ BagToSet(received'[k]) = BagToSet(received[k]) \union {e}
      BY <1>5, <2>3, <3>5
    <3>8. Arrived(k, r, b, v)' = {e}
      <4>1. \A f \in BagToSet(received[k]) : ~ChangeAt(f, r, b, v) BY <3>2 DEF Arrived
      <4>2. \A f : f \in Arrived(k, r, b, v)' <=> f \in BagToSet(received'[k]) /\ ChangeAt(f, r, b, v)
        BY DEF Arrived, ChangeAt, Changes
      <4>3. \A f : f \in Arrived(k, r, b, v)' <=> f \in {e} BY <2>3, <3>7, <4>1, <4>2
      <4> QED BY <4>3
    <3> QED BY <3>4, <3>7, <3>8 DEF Once
  <2>4. ASSUME ~(d.to = k /\ ChangeAt(e, r, b, v)) PROVE Once(k, r, b, v)'
    <3>1. c \in Due(k, r, b, v) => c \in Due(k, r, b, v)'
      <4> SUFFICES ASSUME NEW x \in pending[c], x.to = k, ChangeAt(x.event, r, b, v)
                   PROVE  c \in Due(k, r, b, v)'
        BY DEF Due
      <4>1. x \in pending'[c] BY <1>7, <2>4
      <4> QED BY <4>1 DEF Due, ChangeAt, Changes
    <3>2. Due(k, r, b, v)' = Due(k, r, b, v)
      <4>1. \A f : f \in Due(k, r, b, v)' <=> f \in Due(k, r, b, v) BY <2>2, <3>1
      <4> QED BY <4>1
    <3> HIDE DEF e
    <3>3. /\ BagToSet(received'[k]) = BagToSet(received[k])
             \/ (d.to = k /\ BagToSet(received'[k]) = BagToSet(received[k]) \union {e})
          /\ \A f \in BagToSet(received[k]) : (f = e /\ d.to = k) \/ received'[k][f] = received[k][f]
      <4>1. CASE d.to = k BY <1>5, <4>1
      <4>2. CASE d.to # k
        <5>1. received'[k] = received[k] BY <1>4, <4>2
        <5> QED BY <5>1
      <4> QED BY <4>1, <4>2
    <3>4. Arrived(k, r, b, v)' = Arrived(k, r, b, v)
      <4>1. \A f : f \in Arrived(k, r, b, v)' <=> f \in BagToSet(received'[k]) /\ ChangeAt(f, r, b, v)
        BY DEF Arrived, ChangeAt, Changes
      <4>2. \A f : f \in Arrived(k, r, b, v) <=> f \in BagToSet(received[k]) /\ ChangeAt(f, r, b, v)
        BY DEF Arrived
      <4>3. \A f : f \in Arrived(k, r, b, v)' <=> f \in Arrived(k, r, b, v) BY <2>4, <3>3, <4>1, <4>2
      <4> QED BY <4>3
    <3>5. \A f \in Arrived(k, r, b, v) : received'[k][f] = received[k][f]
      BY <2>4, <3>3 DEF Arrived
    <3> QED BY <2>1, <3>2, <3>4, <3>5 DEF Once
  <2> QED BY <2>3, <2>4
<1> QED BY <1>8, <1>9, <1>10, <1>11, <1>12, <1>13, <1>14, <1>15 DEF DInv

\* When nothing is handed over, what arrives once still does.
LEMMA OnceStays ==
  ASSUME OnceEach, UNCHANGED <<pending, version, stays>>,
         \A k \in Connections : session'[k] = "open" =>
           (session[k] = "open" /\ received'[k] = received[k]) \/ stays[k] = {}
  PROVE  OnceEach'
<1> SUFFICES ASSUME NEW k \in Connections, session'[k] = "open", NEW s \in stays'[k], NEW v \in During(s)'
             PROVE  Once(k, s.room, s.born, v)'
  BY DEF OnceEach, Once, Due, Arrived, During, ChangeAt, Changes
<1> DEFINE r == s.room
           b == s.born
<1>1. session[k] = "open" /\ received'[k] = received[k] /\ s \in stays[k] /\ v \in During(s) BY DEF During
<1>2. Once(k, r, b, v) BY <1>1 DEF OnceEach
<1>3. Due(k, r, b, v)' = Due(k, r, b, v) BY DEF Due, ChangeAt, Changes
<1>4. Arrived(k, r, b, v)' = Arrived(k, r, b, v) BY <1>1 DEF Arrived, ChangeAt, Changes
<1> QED BY <1>1, <1>2, <1>3, <1>4 DEF Once

\* A new connection has no memberships.
LEMMA RegisterKeepsD == ASSUME IInv, DInv, NEW c \in Connections, Register(c) PROVE DInv'
<1>1. UNCHANGED <<hubVars, pending, received, births, stays>> BY DEF Register
<1>2. /\ \A k \in Connections : session'[k] = "new" => session[k] = "new"
      /\ \A k \in Connections : session'[k] = "open" => session[k] = "open" \/ stays[k] = {}
  BY DEF Register, DInv, NewIsBlank, IInv, TypeOK
<1>3. PastEvents' /\ OneCommand' /\ SentInOrder' /\ HistorySorted' /\ MessagesRemembered' /\ ChannelsAreBags'
  BY <1>1 DEF DInv, PastEvents, Past, OneCommand, Changes, SentInOrder, HistorySorted, Sorted,
              MessagesRemembered, Remembered, In, ChannelsAreBags, hubVars
<1>4. NewIsBlank' BY <1>1, <1>2 DEF DInv, NewIsBlank
<1>5. OnceEach' BY <1>1, <1>2, OnceStays DEF DInv, hubVars
<1> QED BY <1>3, <1>4, <1>5 DEF DInv

\* Nothing is owed to a connection that is deaf.
LEMMA WriterFailsKeepsD == ASSUME IInv, DInv, NEW c \in Connections, WriterFails(c) PROVE DInv'
<1>1. UNCHANGED <<hubVars, pending, births, stays>> BY DEF WriterFails
<1>2. /\ session[c] = "open"
      /\ \A k \in Connections : IF k = c THEN session'[k] = "deaf" /\ received'[k] = EmptyBag
                                ELSE session'[k] = session[k] /\ received'[k] = received[k]
  BY DEF WriterFails, IInv, TypeOK
<1>3. \A k \in Connections : BagToSet(received'[k]) \subseteq BagToSet(received[k]) BY <1>2, NoneYet
<1>4. PastEvents' /\ SentInOrder' /\ MessagesRemembered'
  BY <1>1, <1>3 DEF DInv, PastEvents, Past, SentInOrder, MessagesRemembered, Remembered, In, hubVars
<1>5. OneCommand' /\ HistorySorted'
  BY <1>1 DEF DInv, OneCommand, Changes, HistorySorted, Sorted, hubVars
<1>6. ChannelsAreBags' /\ NewIsBlank'
  <2>1. IsABag(EmptyBag) BY DEF IsABag, EmptyBag, SetToBag
  <2> QED BY <1>1, <1>2, <2>1 DEF DInv, ChannelsAreBags, NewIsBlank
<1>7. OnceEach' BY <1>1, <1>2, OnceStays DEF DInv, hubVars
<1> QED BY <1>4, <1>5, <1>6, <1>7 DEF DInv

\* Nothing was sent and nothing waits.
LEMMA InitEstablishesD == Init => DInv
<1> SUFFICES ASSUME Init PROVE DInv OBVIOUS
<1>1. PastEvents /\ OneCommand /\ SentInOrder /\ MessagesRemembered
  BY NoneYet DEF Init, PastEvents, OneCommand, SentInOrder, MessagesRemembered
<1>2. HistorySorted BY DEF Init, HistorySorted, Sorted
<1>3. ChannelsAreBags /\ NewIsBlank /\ OnceEach
  BY DEF Init, ChannelsAreBags, NewIsBlank, OnceEach, IsABag, EmptyBag, SetToBag
<1> QED BY <1>1, <1>2, <1>3 DEF DInv

\* Each step is a command, the end of a connection, or one of three others.
LEMMA StepsAre ==
  ASSUME IInv, DInv, Next
  PROVE  \E c \in Connections :
           \/ Commanded(c)
           \/ Register(c)
           \/ WriterFails(c)
           \/ \E d \in pending[c] : Deliver(c, d)
  BY AskingCommanded, SendCommanded, JoinCommanded, LeaveCommanded, DisconnectCommanded DEF Next

\* One step per kind of step.
LEMMA StepKeepsD == IInv /\ DInv /\ [Next]_vars => DInv'
<1> SUFFICES ASSUME IInv, DInv, [Next]_vars PROVE DInv' OBVIOUS
<1>1. CASE UNCHANGED vars
  <2>1. PastEvents' /\ OneCommand' /\ SentInOrder' /\ HistorySorted' /\ MessagesRemembered'
    BY <1>1 DEF vars, hubVars, DInv, PastEvents, Past, OneCommand, Changes, SentInOrder, HistorySorted,
                Sorted, MessagesRemembered, Remembered, In
  <2>2. ChannelsAreBags' /\ NewIsBlank' BY <1>1 DEF vars, DInv, ChannelsAreBags, NewIsBlank
  <2>3. OnceEach' BY <1>1, OnceStays DEF vars, hubVars, DInv
  <2> QED BY <2>1, <2>2, <2>3 DEF DInv
<1>2. CASE Next
  <2>1. IInv' BY StepKeeps
  <2>2. PICK c \in Connections :
          Commanded(c) \/ Register(c) \/ WriterFails(c) \/ \E d \in pending[c] : Deliver(c, d)
    BY <1>2, StepsAre
  <2> QED BY <2>1, <2>2, CommandedKeeps, RegisterKeepsD, WriterFailsKeepsD, DeliverKeepsD
<1> QED BY <1>1, <1>2

\* What was said of the copies of a change, in numbers.
LEMMA OnceIsOne ==
  ASSUME NEW c, NEW r, NEW born, NEW v, Once(c, r, born, v)
  PROVE  Copies(c, r, born, v) = 1
<1> DEFINE D == Due(c, r, born, v)
           A == Arrived(c, r, born, v)
           U == UNION {{e} \X (1..Got(c, e)) : e \in A}
<1>1. Cardinality({}) = 0 /\ \A x : Cardinality({x}) = 1 BY FS_EmptySet, FS_Singleton
<1>2. CASE \E d : D = {d} /\ A = {}
  <2>1. U = {} BY <1>2
  <2>2. Cardinality(U) = 0 /\ Cardinality(D) = 1 BY <1>1, <1>2, <2>1
  <2> QED BY <2>2 DEF Copies
<1>3. ASSUME D = {}, NEW e, A = {e}, received[c][e] = 1 PROVE Copies(c, r, born, v) = 1
  <2>1. Got(c, e) = 1
    <3>1. e \in BagToSet(received[c]) BY <1>3 DEF Arrived
    <3> QED BY <1>3, <3>1 DEF Got, BagIn
  <2>2. U = {e} \X (1..Got(c, e))
    <3> HIDE DEF A
    <3> QED BY <1>3
  <2>3. U = {<<e, 1>>}
    <3>1. 1..Got(c, e) = {1} BY <2>1
    <3>2. {e} \X {1} = {<<e, 1>>} OBVIOUS
    <3> QED BY <2>2, <3>1, <3>2
  <2>4. Cardinality(U) = 1 /\ Cardinality(D) = 0 BY <1>1, <1>3, <2>3
  <2> QED BY <2>4 DEF Copies
<1> QED BY <1>2, <1>3 DEF Once

-----------------------------------------------------------------------------
(* Theorems *)

\* The inductive invariant holds.
THEOREM ChatInvariant == Spec => []IInv
  BY InitEstablishes, StepKeeps, PTL DEF Spec

\* Type correctness: in particular a history stays within its limit.
THEOREM ChatTypeOK == Spec => []TypeOK
<1>1. IInv => TypeOK BY DEF IInv
<1> QED BY <1>1, ChatInvariant, PTL

\* Rooms and connections agree on who is where, and nothing empty is kept.
THEOREM ChatMembershipAgrees == Spec => []MembershipAgrees
<1>1. IInv => MembershipAgrees BY DEF IInv
<1> QED BY <1>1, ChatInvariant, PTL

\* No channel gets a change of a room from before or after the membership.
THEOREM ChatNothingFromOutside == Spec => []NothingFromOutside
<1>1. IInv => NothingFromOutside BY DEF IInv
<1> QED BY <1>1, ChatInvariant, PTL

\* The second invariant holds as well.
THEOREM ChatDelivery == Spec => []DInv
<1>1. Init => IInv /\ DInv BY InitEstablishes, InitEstablishesD
<1>2. IInv /\ DInv /\ [Next]_vars => IInv' /\ DInv' BY StepKeeps, StepKeepsD
<1> QED BY <1>1, <1>2, PTL DEF Spec

\* Each change of a room reaches every member with a running writer exactly once,
\* whatever other tasks send meanwhile.
THEOREM ChatEveryChangeOnce == Spec => []EveryChangeOnce
<1>1. DInv => EveryChangeOnce BY OnceIsOne DEF DInv, OnceEach, EveryChangeOnce
<1> QED BY <1>1, ChatDelivery, PTL

\* No message that somebody got is missing from a history that is not full.
THEOREM ChatHistoryHasNoGap == Spec => []HistoryHasNoGap
<1>1. DInv => HistoryHasNoGap BY DEF DInv, MessagesRemembered, Remembered, In, HistoryHasNoGap
<1> QED BY <1>1, ChatDelivery, PTL

\* What one connection causes in a room is received in the order of the versions.
THEOREM ChatInOrderPerSender == Spec => InOrderPerSender
<1> DEFINE Keeps == \A c \in Connections : \A e \in BagToSet(received'[c]) :
                      Got(c, e)' > Got(c, e) =>
                        \A f \in BagToSet(received[c]) :
                          f.by = e.by /\ f.room = e.room /\ f.born = e.born => f.version <= e.version
<1>1. IInv /\ DInv /\ [Next]_vars => Keeps
  <2> SUFFICES ASSUME IInv, DInv, [Next]_vars,
                      NEW k \in Connections, NEW e \in BagToSet(received'[k]), Got(k, e)' > Got(k, e),
                      NEW f \in BagToSet(received[k]), f.by = e.by, f.room = e.room, f.born = e.born
               PROVE  f.version <= e.version
    OBVIOUS
  <2>1. ASSUME e \in BagToSet(received[k]), received'[k][e] = received[k][e] PROVE FALSE
    <3>1. Got(k, e) = received[k][e] /\ Got(k, e)' = received'[k][e] BY <2>1 DEF Got, BagIn
    <3>2. received[k][e] \in Nat BY <2>1 DEF DInv, ChannelsAreBags, IsABag, BagToSet
    <3> QED BY <2>1, <3>1, <3>2
  <2>2. ASSUME received'[k] = received[k] \/ received'[k] = EmptyBag PROVE FALSE BY <2>1, <2>2, NoneYet
  <2>3. PICK c \in Connections : \E d \in pending[c] : Deliver(c, d)
    <3>1. Next BY <2>2 DEF vars
    <3>2. PICK c \in Connections :
            Commanded(c) \/ Register(c) \/ WriterFails(c) \/ \E d \in pending[c] : Deliver(c, d)
      BY <3>1, StepsAre
    <3>3. ~Commanded(c) BY <2>2 DEF Commanded
    <3>4. ~Register(c) BY <2>2 DEF Register
    <3>5. ~WriterFails(c) BY <2>2 DEF WriterFails, IInv, TypeOK
    <3> QED BY <3>2, <3>3, <3>4, <3>5
  <2>4. PICK d \in pending[c] : Deliver(c, d) BY <2>3
  <2>5. e = d.event
    <3>1. k = d.to /\ session[k] = "open" BY <2>2, <2>4, DeliverCounts
    <3> QED BY <2>1, <2>4, <3>1, DeliverCounts
  <2>6. d.event.by = c BY DEF DInv, OneCommand
  <2> QED BY <2>5, <2>6 DEF DInv, SentInOrder
<1> HIDE DEF Keeps
<1>2. Spec => [][Keeps]_vars BY <1>1, ChatInvariant, ChatDelivery, PTL DEF Spec
<1> QED BY <1>2 DEF InOrderPerSender, Keeps
=============================================================================
