----------------------------- MODULE ChatRooms -----------------------------
(***************************************************************************)
(* The chat service of handlers/chat: ChatHub (rooms, members, versions),  *)
(* ChatState (one channel per connection behind one mutex) and the life of *)
(* a connection in run_socket.                                             *)
(*                                                                         *)
(* Each connection has a task that handles one command at a time.  The     *)
(* command changes the hub and lists its dispatches under the mutex; the   *)
(* events are sent after the mutex is released, so those of two tasks mix. *)
(* An event counts here by its room and version; Connected, Pong and Error *)
(* events concern one connection only and are left out.                    *)
(***************************************************************************)
EXTENDS Naturals, Sequences, FiniteSets, Bags

CONSTANTS
  Connections,   \* connection ids; a closed one is never used again
  Rooms,         \* normalized room ids
  RecentLimit,   \* MAX_RECENT_MESSAGES
  MaxCommands    \* bound: commands that clients send

ASSUME ChatAssumption ==
  /\ RecentLimit \in Nat \ {0}
  /\ MaxCommands \in Nat

VARIABLES
  session,    \* per connection: new, open, deaf (its writer task ended), closed
  rooms,      \* keys of hub.rooms
  members,    \* per room: connections in it
  version,    \* per room: counts its changes, from 0 for each new room
  recent,     \* per room: the latest messages, by version
  known,      \* keys of hub.connections
  joined,     \* per connection: joined_rooms
  pending,    \* per connection: dispatches its task still has to send
  received,   \* per connection: bag of the events its channel got
  births,     \* history, per room: how often it was created
  stays,      \* history, per connection: its memberships
  commands    \* commands handled so far

hubVars == <<rooms, members, version, recent, known, joined>>
vars == <<session, hubVars, pending, received, births, stays, commands>>

Kinds == {"joined_room", "left_room", "room_message", "presence_changed", "room_state"}
\* by: the connection whose command or end caused the event.
Event == [kind : Kinds, room : Rooms, version : Nat, born : Nat, by : Connections]
Dispatch == [to : Connections, event : Event]

\* A membership: from the version of the join to that of the leave, 0 if none yet.
Stay == [room : Rooms, born : Nat, from : Nat, until : Nat]

TypeOK ==
  /\ session \in [Connections -> {"new", "open", "deaf", "closed"}]
  /\ rooms \subseteq Rooms
  /\ members \in [Rooms -> SUBSET Connections]
  /\ version \in [Rooms -> Nat]
  /\ DOMAIN recent = Rooms
  /\ \A r \in Rooms : recent[r] \in Seq(1..version[r]) /\ Len(recent[r]) <= RecentLimit
  /\ known \subseteq Connections
  /\ joined \in [Connections -> SUBSET Rooms]
  /\ pending \in [Connections -> SUBSET Dispatch]
  /\ DOMAIN received = Connections
  /\ \A c \in Connections : BagToSet(received[c]) \subseteq Event
  /\ births \in [Rooms -> Nat]
  /\ stays \in [Connections -> SUBSET Stay]
  /\ commands \in 0..MaxCommands

Init ==
  /\ session = [c \in Connections |-> "new"]
  /\ rooms = {}
  /\ members = [r \in Rooms |-> {}]
  /\ version = [r \in Rooms |-> 0]
  /\ recent = [r \in Rooms |-> <<>>]
  /\ known = {}
  /\ joined = [c \in Connections |-> {}]
  /\ pending = [c \in Connections |-> {}]
  /\ received = [c \in Connections |-> EmptyBag]
  /\ births = [r \in Rooms |-> 0]
  /\ stays = [c \in Connections |-> {}]
  /\ commands = 0

-----------------------------------------------------------------------------
(* Helpers *)

\* Connections whose sender is in runtime.connections.
Registered == {c \in Connections : session[c] \in {"open", "deaf"}}

\* Fault: commands are handled in tasks of their own.
ReadyAnyway(c) == c \in Registered

\* The connection's task is back in its read loop.
Ready(c) == c \in Registered /\ pending[c] = {}

\* The client sends one more command.
Command(c) ==
  /\ Ready(c)
  /\ commands < MaxCommands
  /\ commands' = commands + 1

\* Dispatches exist only for connections whose sender is still registered.
DispatchTo(targets, kind, r, v, c) ==
  [to : targets \intersect Registered,
   event : {[kind |-> kind, room |-> r, version |-> v, born |-> births'[r], by |-> c]}]

\* Fault: the newest message is the one that is dropped.
CappedFront(s) == IF Len(s) > RecentLimit THEN SubSeq(s, 1, RecentLimit) ELSE s

\* drain(0..drop_len) after a push
Capped(s) == IF Len(s) > RecentLimit THEN Tail(s) ELSE s

\* recipient_connection_ids
Recipients(r, c) == members[r]

\* Fault: the joiner is not filtered out of the peers.
AnnouncedToAll(c, r) == IF c \in members[r] THEN {} ELSE members[r] \union {c}

\* Who hears of a join: the peers, when the member is new.
Announced(c, r) == IF c \in members[r] THEN {} ELSE members[r] \ {c}

\* The rooms that remain when the members are left as given.
NonEmpty(left) == {r \in rooms : left[r] # {}}

\* Fault: the version of a room is left alone when a connection drops.
UncountedLosses(c) == version

\* disconnect counts a change in every room of the connection.
VersionAfterLoss(c) == [r \in Rooms |-> version[r] + IF r \in joined[c] THEN 1 ELSE 0]

\* Rooms that are gone start afresh when they are created again.
ForGone(kept, f, blank) == [r \in Rooms |-> IF r \in rooms \ kept THEN blank ELSE f[r]]

\* The connection's memberships once it has left these rooms.
Ended(c, left, v) ==
  {IF s.room \in left /\ s.until = 0 THEN [s EXCEPT !.until = v[s.room]] ELSE s : s \in stays[c]}

-----------------------------------------------------------------------------
(* Actions *)

\* register_connection
Register(c) ==
  /\ session[c] = "new"
  /\ session' = [session EXCEPT ![c] = "open"]
  /\ UNCHANGED <<hubVars, pending, received, births, stays, commands>>

\* The writer task cannot send and ends with the receiver; the connection
\* stays a member until its socket ends.
WriterFails(c) ==
  /\ session[c] = "open"
  /\ session' = [session EXCEPT ![c] = "deaf"]
  /\ received' = [received EXCEPT ![c] = EmptyBag]
  /\ UNCHANGED <<hubVars, pending, births, stays, commands>>

\* JoinRoom by a connection that is not a member: the room may be created.
Join(c, r) ==
  LET v == version[r] + 1 IN
  /\ Command(c)
  /\ c \notin members[r]
  /\ births' = IF r \in rooms THEN births ELSE [births EXCEPT ![r] = @ + 1]
  /\ rooms' = rooms \union {r}
  /\ members' = [members EXCEPT ![r] = @ \union {c}]
  /\ version' = [version EXCEPT ![r] = v]
  /\ known' = known \union {c}
  /\ joined' = [joined EXCEPT ![c] = @ \union {r}]
  /\ stays' = [stays EXCEPT ![c] = @ \union
       {[room |-> r, born |-> births'[r], from |-> v, until |-> 0]}]
  /\ pending' = [pending EXCEPT ![c] = @ \union
       DispatchTo({c}, "joined_room", r, v, c)
         \union DispatchTo(Announced(c, r), "presence_changed", r, v, c)]
  /\ UNCHANGED <<session, recent, received>>

\* JoinRoom by a member: a fresh snapshot and nothing else.
JoinAgain(c, r) ==
  /\ Command(c)
  /\ c \in members[r]
  /\ UNCHANGED births
  /\ pending' = [pending EXCEPT ![c] = @ \union
       DispatchTo({c}, "joined_room", r, version[r], c)
         \union DispatchTo(Announced(c, r), "presence_changed", r, version[r], c)]
  /\ UNCHANGED <<session, hubVars, received, stays>>

\* Fault: joined_rooms of the connection keeps the room it left.
JoinedAfterLeaveKept(c, r) == joined

\* connection.joined_rooms.remove
JoinedAfterLeave(c, r) == [joined EXCEPT ![c] = @ \ {r}]

\* LeaveRoom: the peers that remain hear of it; an empty room and a connection
\* without rooms are dropped from the hub.
Leave(c, r) ==
  LET v    == version[r] + 1
      left == [members EXCEPT ![r] = @ \ {c}]
      kept == NonEmpty(left)
  IN
  /\ Command(c)
  /\ c \in known /\ r \in rooms /\ c \in members[r]
  /\ UNCHANGED births
  /\ rooms' = kept
  /\ members' = left
  /\ version' = ForGone(kept, [version EXCEPT ![r] = v], 0)
  /\ recent' = ForGone(kept, recent, <<>>)
  /\ joined' = JoinedAfterLeave(c, r)
  /\ known' = IF joined'[c] = {} THEN known \ {c} ELSE known
  /\ stays' = [stays EXCEPT ![c] = Ended(c, {r}, [version EXCEPT ![r] = v])]
  /\ pending' = [pending EXCEPT ![c] = @ \union
       DispatchTo({c}, "left_room", r, v, c) \union DispatchTo(left[r], "presence_changed", r, v, c)]
  /\ UNCHANGED <<session, received>>

\* SendRoomMessage by a member.
Send(c, r) ==
  LET v == version[r] + 1 IN
  /\ Command(c)
  /\ c \in known /\ r \in rooms /\ c \in members[r]
  /\ UNCHANGED births
  /\ version' = [version EXCEPT ![r] = v]
  /\ recent' = [recent EXCEPT ![r] = Capped(Append(@, v))]
  /\ pending' = [pending EXCEPT ![c] = @ \union DispatchTo(Recipients(r, c), "room_message", r, v, c)]
  /\ UNCHANGED <<session, rooms, members, known, joined, received, stays>>

\* SyncRoomState by a member.
Sync(c, r) ==
  /\ Command(c)
  /\ r \in rooms /\ c \in members[r]
  /\ UNCHANGED births
  /\ pending' = [pending EXCEPT ![c] = @ \union DispatchTo({c}, "room_state", r, version[r], c)]
  /\ UNCHANGED <<session, hubVars, received, stays>>

\* A command for a room the connection is not in, or with invalid arguments:
\* an Error event and no change.
Refuse(c) ==
  /\ Command(c)
  /\ UNCHANGED <<session, hubVars, pending, received, births, stays>>

\* One dispatch goes into its channel; without a receiver it is dropped.  The
\* task works through a list, but no channel can tell in which order.
Deliver(c, d) ==
  /\ pending' = [pending EXCEPT ![c] = @ \ {d}]
  /\ received' = IF session[d.to] = "open"
                 THEN [received EXCEPT ![d.to] = @ (+) SetToBag({d.event})]
                 ELSE received
  /\ UNCHANGED <<session, hubVars, births, stays, commands>>

\* The socket ends: unregister_connection removes the sender and disconnects
\* the hub's connection under the same lock; its own events are lost.
Disconnect(c) ==
  LET v    == VersionAfterLoss(c)
      left == [r \in Rooms |-> IF r \in joined[c] THEN members[r] \ {c} ELSE members[r]]
      kept == NonEmpty(left)
  IN
  /\ Ready(c)
  /\ UNCHANGED <<births, commands>>
  /\ session' = [session EXCEPT ![c] = "closed"]
  /\ rooms' = kept
  /\ members' = left
  /\ version' = ForGone(kept, v, 0)
  /\ recent' = ForGone(kept, recent, <<>>)
  /\ known' = known \ {c}
  /\ joined' = [joined EXCEPT ![c] = {}]
  /\ received' = [received EXCEPT ![c] = EmptyBag]
  /\ stays' = [stays EXCEPT ![c] = {}]
  /\ pending' = [pending EXCEPT ![c] = @ \union
       UNION {DispatchTo(left[r], "presence_changed", r, v[r], c) : r \in joined[c]}]

Next ==
  \E c \in Connections :
    \/ Register(c) \/ WriterFails(c)
    \/ \E r \in Rooms :
         Join(c, r) \/ JoinAgain(c, r) \/ Leave(c, r) \/ Send(c, r) \/ Sync(c, r)
    \/ Refuse(c)
    \/ \E d \in pending[c] : Deliver(c, d)
    \/ Disconnect(c)

Spec == Init /\ [][Next]_vars

-----------------------------------------------------------------------------
(* Properties *)

\* The hub's two views of membership agree, it keeps neither empty rooms nor
\* connections without rooms, and every member still has a sender: joins,
\* leaves and dropped sockets leave nothing behind.
MembershipAgrees ==
  /\ \A c \in Connections, r \in Rooms : c \in members[r] <=> r \in joined[c]
  /\ rooms = {r \in Rooms : members[r] # {}}
  /\ known = {c \in Connections : joined[c] # {}}
  /\ known \subseteq Registered

Changes(e) == e.kind \in {"room_message", "presence_changed"}

\* How often an event is in a channel.
Got(c, e) == IF BagIn(e, received[c]) THEN received[c][e] ELSE 0

\* The change that gave a room this version in one of its lives.
ChangeAt(e, r, born, v) == Changes(e) /\ e.room = r /\ e.born = born /\ e.version = v

\* The tasks that still have to send it to a connection, and what its channel got.
Due(c, r, born, v) ==
  {d \in Connections : \E x \in pending[d] : x.to = c /\ ChangeAt(x.event, r, born, v)}
Arrived(c, r, born, v) == {e \in BagToSet(received[c]) : ChangeAt(e, r, born, v)}

\* How often a connection has, or is about to get, a change of a room.
Copies(c, r, born, v) ==
  Cardinality(Due(c, r, born, v))
    + Cardinality(UNION {{e} \X (1..Got(c, e)) : e \in Arrived(c, r, born, v)})

\* The versions of a room that a membership spans, its own join and leave
\* excepted.
During(s) ==
  (s.from + 1)..(IF s.until = 0 THEN version[s.room] ELSE s.until - 1)

\* A member misses no message and no presence change of its room and gets
\* none twice while its writer runs: every version after its snapshot reaches
\* its channel exactly once, although events are sent without the lock.
EveryChangeOnce ==
  \A c \in Connections : session[c] = "open" =>
    \A s \in stays[c] : \A v \in During(s) : Copies(c, s.room, s.born, v) = 1

\* Nobody hears of what happened in a room while they were not in it, however
\* late a dispatch is sent.
NothingFromOutside ==
  \A c \in Connections : \A e \in BagToSet(received[c]) :
    Changes(e) => \E s \in stays[c] :
      s.room = e.room /\ s.born = e.born /\ e.version \in During(s)

\* Events of different connections overtake each other, but what one connection
\* causes in a room reaches every channel in the order of the versions: its
\* snapshot before the echo of its messages, and those before its leave.
InOrderPerSender ==
  [][\A c \in Connections : \A e \in BagToSet(received'[c]) :
       Got(c, e)' > Got(c, e) =>
         \A f \in BagToSet(received[c]) :
           f.by = e.by /\ f.room = e.room /\ f.born = e.born => f.version <= e.version]_vars

\* A snapshot has no gap: each message somebody got in this life of the room is
\* in the history that a newcomer is given, or older than all of a full history.
HistoryHasNoGap ==
  \A c \in Connections : \A e \in BagToSet(received[c]) :
    e.kind = "room_message" /\ e.room \in rooms /\ e.born = births[e.room] =>
      LET h == recent[e.room] IN
      \/ \E i \in 1..Len(h) : h[i] = e.version
      \/ Len(h) = RecentLimit /\ e.version < h[1]
=============================================================================
