----------------------------- MODULE RoomProofs -----------------------------
(***************************************************************************)
(* What the handlers of server.c keep true of the rooms when every client  *)
(* asks for a room at most once: the seats of a room and the clients'      *)
(* records fit each other, a game is on only while it is undecided, and    *)
(* nothing is sent after the message that a game is over.                  *)
(***************************************************************************)
EXTENDS ServerBoardProofs

(* The connected clients that believe they are in room r.                  *)
Assigned(s, r) ==
    {i \in Slots : s.clients[i].is_connected /\ s.clients[i].assigned_room_id = RoomId(r)}

AtMost(A, n) ==
    /\ n = 0 => A = {}
    /\ n = 1 => \A i, j \in A : i = j
    /\ n = 2 => \A i, j, k \in A : i = j \/ j = k \/ i = k

Bound(s, r) == IF s.rooms[r].is_active THEN s.rooms[r].current_player_count ELSE 0

SeatsFit(s, r) ==
    s.rooms[r].is_active =>
        /\ s.rooms[r].room_id = RoomId(r)
        /\ \A pl \in Players, i \in Slots :
              s.rooms[r].connected_players[pl] = i =>
                  /\ s.clients[i].is_connected
                  /\ s.clients[i].assigned_room_id = RoomId(r)
                  /\ s.clients[i].assigned_player_id = pl

(* Who holds a seat of an active room is assigned to it, and no more       *)
(* clients are assigned to a room than it counts.                          *)
SeatsOK(s) ==
    \A r \in Rooms : SeatsFit(s, r) /\ AtMost(Assigned(s, r), Bound(s, r))

-----------------------------------------------------------------------------
LEMMA AtMostSubset ==
    ASSUME NEW A, NEW B, A \subseteq B, NEW n, AtMost(B, n)
    PROVE  AtMost(A, n)
BY DEF AtMost

LEMMA AtMostRemove ==
    ASSUME NEW A, NEW i \in A, NEW n \in 0 .. ROOM_SIZE, AtMost(A, n)
    PROVE  n # 0 /\ AtMost(A \ {i}, n - 1)
BY DEF AtMost, ROOM_SIZE

LEMMA AtMostAdd ==
    ASSUME NEW A, NEW i, NEW n \in 0 .. ROOM_SIZE - 1, AtMost(A, n)
    PROVE  AtMost(A \cup {i}, n + 1)
<1>1. CASE n = 0
  BY <1>1 DEF AtMost
<1>2. CASE n = 1
  BY <1>2 DEF AtMost
<1> QED
  BY <1>1, <1>2 DEF ROOM_SIZE

LEMMA RoomIdsDiffer ==
    /\ \A q, r \in Rooms : RoomId(q) = RoomId(r) => q = r
    /\ \A r \in Rooms : RoomId(r) # -1
BY ServerAssumption DEF Rooms, RoomId

(* A client is in the room that its record says.                           *)
LEMMA RoomOfAssigned ==
    ASSUME NEW s, SeatsOK(s), NEW i \in Slots
    PROVE  /\ RoomOf(s, i) # NULL =>
                 /\ RoomOf(s, i) \in Rooms /\ s.rooms[RoomOf(s, i)].is_active
                 /\ s.clients[i].assigned_room_id = RoomId(RoomOf(s, i))
           /\ \A r \in Rooms :
                 s.rooms[r].is_active /\ s.clients[i].assigned_room_id = RoomId(r)
                    => RoomOf(s, i) = r
<1> DEFINE id == s.clients[i].assigned_room_id
           found == {r \in Rooms : s.rooms[r].is_active /\ s.rooms[r].room_id = id}
<1>1. \A r \in Rooms : s.rooms[r].is_active => s.rooms[r].room_id = RoomId(r)
  BY DEF SeatsOK, SeatsFit
<1>2. RoomOf(s, i) # NULL =>
         /\ RoomOf(s, i) \in Rooms /\ s.rooms[RoomOf(s, i)].is_active
         /\ id = RoomId(RoomOf(s, i))
  BY <1>1, FindRoomIn DEF RoomOf
<1>3. ASSUME NEW r \in Rooms, s.rooms[r].is_active, id = RoomId(r)
      PROVE  RoomOf(s, i) = r
  <2>1. r \in found
    BY <1>1, <1>3
  <2>2. \A q \in found : q = r
    BY <1>1, <1>3, RoomIdsDiffer
  <2>3. RoomOf(s, i) = IF found = {} THEN NULL ELSE CHOOSE q \in found : TRUE
    BY DEF RoomOf, FindRoom
  <2> HIDE DEF found
  <2> QED
    BY <2>1, <2>2, <2>3
<1> QED
  BY <1>2, <1>3

(* Seats are not touched.                                                  *)
LEMMA SameSeats ==
    ASSUME NEW s, SeatsOK(s), NEW t, t.clients = s.clients,
           \A r \in Rooms :
              /\ t.rooms[r].room_id = s.rooms[r].room_id
              /\ t.rooms[r].is_active = s.rooms[r].is_active
              /\ t.rooms[r].current_player_count = s.rooms[r].current_player_count
              /\ t.rooms[r].connected_players = s.rooms[r].connected_players
    PROVE  SeatsOK(t)
BY DEF SeatsOK, SeatsFit, Assigned, Bound

(* A game in progress has the two clients in its seats and no other.       *)
LEMMA PlayingSeats ==
    ASSUME NEW s, Good(s), SeatsOK(s), NEW r \in Rooms,
           s.rooms[r].is_active, s.rooms[r].is_game_started
    PROVE  LET seats == s.rooms[r].connected_players
           IN  /\ seats[0] \in Assigned(s, r) /\ seats[1] \in Assigned(s, r)
               /\ s.clients[seats[0]].assigned_player_id = 0
               /\ s.clients[seats[1]].assigned_player_id = 1
               /\ seats[0] # seats[1]
               /\ s.rooms[r].current_player_count = ROOM_SIZE
               /\ Assigned(s, r) = {seats[0], seats[1]}
<1> DEFINE seats == s.rooms[r].connected_players
<1>1. 0 \in Players /\ 1 \in Players
  BY DEF Players, ROOM_SIZE
<1>2. /\ seats[0] # NULL /\ seats[1] # NULL
      /\ s.rooms[r].current_player_count = ROOM_SIZE
  BY <1>1 DEF Good, RoomsCounted, RoomCounted
<1>3. seats[0] \in Slots /\ seats[1] \in Slots
  BY <1>1, <1>2 DEF Good, TypedState, Room
<1>4. /\ seats[0] \in Assigned(s, r) /\ seats[1] \in Assigned(s, r)
      /\ s.clients[seats[0]].assigned_player_id = 0
      /\ s.clients[seats[1]].assigned_player_id = 1
  <2>1. \A pl \in Players, i \in Slots : seats[pl] = i =>
           i \in Assigned(s, r) /\ s.clients[i].assigned_player_id = pl
    <3>1. SeatsFit(s, r)
      BY DEF SeatsOK
    <3> QED
      BY <3>1 DEF SeatsFit, Assigned
  <2> HIDE DEF seats
  <2> QED
    BY <1>1, <1>3, <2>1
<1>5. seats[0] # seats[1]
  BY <1>4
<1>6. AtMost(Assigned(s, r), 2)
  BY <1>2 DEF SeatsOK, Bound, ROOM_SIZE
<1> HIDE DEF seats
<1>7. Assigned(s, r) = {seats[0], seats[1]}
  BY <1>4, <1>5, <1>6 DEF AtMost
<1> QED
  BY <1>2, <1>4, <1>5, <1>7 DEF seats


-----------------------------------------------------------------------------
(* remove_client, no game in progress: the seat is given up.               *)
GivesUp(s, left, i, r) ==
    /\ AtMost(Assigned(s, r) \ {i}, Bound(left, r))
    /\ \A pl \in Players, j \in Slots :
          left.rooms[r].connected_players[pl] = j =>
             s.rooms[r].connected_players[pl] = j /\ j # i
    /\ left.rooms[r].room_id = s.rooms[r].room_id

LEMMA LeavesSeats ==
    ASSUME NEW s, Good(s), SeatsOK(s), NEW i \in Slots, s.clients[i].is_connected,
           NEW r \in Rooms, r = RoomOf(s, i), s.rooms[r].is_active,
           NEW left, Good(left), Leaves(s, left, i, r)
    PROVE  GivesUp(s, left, i, r)
<1> DEFINE room == s.rooms[r]
           new  == left.rooms[r]
           held == {pl \in Players : room.connected_players[pl] = i}
<1>1. room \in Room /\ new \in Room
  BY DEF Good, TypedState
<1>2. i \in Assigned(s, r) /\ AtMost(Assigned(s, r), room.current_player_count)
  <2>1. r # NULL
    BY RoomIsNotNull
  <2> QED
    BY <2>1, RoomOfAssigned DEF SeatsOK, Bound, Assigned
<1>3. /\ held = {} => /\ new.connected_players = room.connected_players
                      /\ new.current_player_count = room.current_player_count
      /\ held # {} =>
            /\ new.connected_players = [room.connected_players EXCEPT ![Min(held)] = NULL]
            /\ new.current_player_count = room.current_player_count - 1
      /\ new.is_active <=> new.current_player_count # 0
  BY DEF Leaves
<1>4. held # {} => Min(held) \in held
  <2>1. held \in SUBSET Nat
    BY DEF Players, ROOM_SIZE
  <2> QED
    BY <2>1, MinIn
<1>5. \A j, k \in held : j = k
  BY DEF SeatsOK, SeatsFit
<1>6. room.current_player_count \in 0 .. ROOM_SIZE
  BY <1>1 DEF Room
<1>7. /\ room.current_player_count # 0
      /\ AtMost(Assigned(s, r) \ {i}, room.current_player_count - 1)
  BY <1>2, <1>6, AtMostRemove
<1>8. AtMost(Assigned(s, r) \ {i}, room.current_player_count)
  BY <1>2, AtMostSubset
<1>9. Bound(left, r) = new.current_player_count
  BY <1>3 DEF Bound
<1>10. ASSUME NEW pl \in Players, NEW j \in Slots, new.connected_players[pl] = j
       PROVE  room.connected_players[pl] = j /\ j # i
  <2>1. CASE held = {}
    BY <1>3, <1>10, <2>1
  <2>2. CASE held # {}
    <3> DEFINE seat == Min(held)
    <3>1. seat \in held /\ \A k \in held : k = seat
      BY <1>4, <1>5, <2>2
    <3>2. room.connected_players \in [Players -> Slots \cup {NULL}]
      BY <1>1 DEF Room
    <3>3. new.connected_players = [room.connected_players EXCEPT ![seat] = NULL]
      BY <1>3, <2>2
    <3> HIDE DEF seat
    <3>4. pl # seat
      BY <1>10, <3>1, <3>2, <3>3, SlotIsNotNull
    <3> QED
      BY <1>10, <3>1, <3>2, <3>3, <3>4
  <2> QED
    BY <2>1, <2>2
<1>11. AtMost(Assigned(s, r) \ {i}, Bound(left, r))
  BY <1>3, <1>7, <1>8, <1>9
<1> QED
  BY <1>10, <1>11 DEF Leaves, GivesUp

LEMMA QuitsSeats ==
    ASSUME NEW s, Good(s), SeatsOK(s), NEW i \in Slots, s.clients[i].is_connected,
           NEW t, Quits(s, t, i)
    PROVE  SeatsOK(t)
<1>1. PICK left : /\ IF RoomOf(s, i) = NULL THEN left = s
                     ELSE Leaves(s, left, i, RoomOf(s, i))
                  /\ Good(left)
                  /\ Frees(left, t, i)
  BY DEF Quits
<1>2. /\ left.clients = s.clients /\ t.rooms = left.rooms
      /\ t.clients = [s.clients EXCEPT ![i] = FreeSlot]
  BY <1>1 DEF Leaves, Frees
<1>3. /\ \A j \in Slots : j # i => t.clients[j] = s.clients[j]
      /\ ~t.clients[i].is_connected
  BY <1>2 DEF Good, TypedState, FreeSlot
<1>4. \A q \in Rooms : Assigned(t, q) = Assigned(s, q) \ {i}
  BY <1>3 DEF Assigned
<1>5. ASSUME NEW q \in Rooms, q # RoomOf(s, i)
      PROVE  SeatsFit(t, q) /\ AtMost(Assigned(t, q), Bound(t, q))
  <2>1. t.rooms[q] = s.rooms[q]
    BY <1>1, <1>2, <1>5 DEF Leaves
  <2>2. SeatsFit(s, q) /\ AtMost(Assigned(s, q), Bound(s, q))
    BY DEF SeatsOK
  <2>3. AtMost(Assigned(t, q), Bound(t, q))
    BY <1>4, <2>1, <2>2, AtMostSubset DEF Bound
  <2>4. s.rooms[q].is_active => s.clients[i].assigned_room_id # RoomId(q)
    BY <1>5, RoomOfAssigned
  <2>5. SeatsFit(t, q)
    BY <1>3, <2>1, <2>2, <2>4 DEF SeatsFit
  <2> QED
    BY <2>3, <2>5
<1>6. ASSUME NEW r \in Rooms, r = RoomOf(s, i)
      PROVE  SeatsFit(t, r) /\ AtMost(Assigned(t, r), Bound(t, r))
  <2>1. r # NULL
    BY RoomIsNotNull
  <2>2. Leaves(s, left, i, r) /\ Good(left) /\ s.rooms[r].is_active
    BY <1>1, <1>6, <2>1, RoomOfAssigned
  <2>3. GivesUp(s, left, i, r)
    BY <1>6, <2>2, LeavesSeats
  <2>4. Bound(t, r) = Bound(left, r)
    BY <1>2 DEF Bound
  <2>5. SeatsFit(t, r)
    BY <1>2, <1>3, <2>2, <2>3 DEF SeatsFit, SeatsOK, GivesUp
  <2> QED
    BY <1>4, <2>3, <2>4, <2>5 DEF GivesUp
<1> QED
  BY <1>5, <1>6 DEF SeatsOK

(* remove_client, game in progress.                                        *)
LEMMA AbandonsSeats ==
    ASSUME NEW s, Good(s), SeatsOK(s), NEW i \in Slots, s.clients[i].is_connected,
           NEW r \in Rooms, r = RoomOf(s, i), s.rooms[r].is_active,
           s.rooms[r].is_game_started,
           NEW t, Abandons(s, t, i, r)
    PROVE  SeatsOK(t)
<1> DEFINE seats == s.rooms[r].connected_players
           gone  == {i} \cup {seats[pl] : pl \in Players}
<1>1. i \in Assigned(s, r)
  <2>1. r # NULL
    BY RoomIsNotNull
  <2> QED
    BY <2>1, RoomOfAssigned DEF Assigned
<1>2. gone = Assigned(s, r)
  <2>1. Assigned(s, r) = {seats[0], seats[1]}
    BY PlayingSeats
  <2>2. Players = {0, 1}
    BY DEF Players, ROOM_SIZE
  <2> HIDE DEF seats
  <2> QED
    BY <1>1, <2>1, <2>2
<1>3. \A j \in Slots :
         /\ t.clients[j].is_connected <=> s.clients[j].is_connected /\ j \notin Assigned(s, r)
         /\ t.clients[j].assigned_room_id = s.clients[j].assigned_room_id
         /\ t.clients[j].assigned_player_id = s.clients[j].assigned_player_id
  BY <1>2 DEF Abandons
<1>4. ~t.rooms[r].is_active /\ \A q \in Rooms : q # r => t.rooms[q] = s.rooms[q]
  BY DEF Abandons
<1>5. SeatsFit(t, r) /\ AtMost(Assigned(t, r), Bound(t, r))
  <2>1. Assigned(t, r) = {}
    BY <1>3 DEF Assigned
  <2> QED
    BY <1>4, <2>1 DEF SeatsFit, AtMost, Bound
<1>6. ASSUME NEW q \in Rooms, q # r
      PROVE  SeatsFit(t, q) /\ AtMost(Assigned(t, q), Bound(t, q))
  <2>1. SeatsFit(s, q) /\ AtMost(Assigned(s, q), Bound(s, q))
    BY DEF SeatsOK
  <2>2. \A j \in Assigned(s, r) : s.clients[j].assigned_room_id # RoomId(q)
    BY <1>6, RoomIdsDiffer DEF Assigned
  <2>3. SeatsFit(t, q)
    BY <1>3, <1>4, <1>6, <2>1, <2>2 DEF SeatsFit
  <2>4. Assigned(t, q) \subseteq Assigned(s, q)
    BY <1>3 DEF Assigned
  <2> QED
    BY <1>4, <1>6, <2>1, <2>3, <2>4, AtMostSubset DEF Bound
<1> QED
  BY <1>5, <1>6 DEF SeatsOK

LEMMA RemoveClientSeats ==
    ASSUME NEW s, Good(s), SeatsOK(s), NEW i \in Slots, s.clients[i].is_connected
    PROVE  SeatsOK(RemoveClient(s, i))
BY RemoveClientEffect, QuitsSeats, AbandonsSeats


(* create_room takes a room that no connected client is assigned to.       *)
LEMMA CreatesSeats ==
    ASSUME NEW s, SeatsOK(s), NEW r \in Rooms, ~s.rooms[r].is_active,
           NEW t, Creates(s, t, r)
    PROVE  SeatsOK(t)
<1>1. /\ t.clients = s.clients
      /\ \A q \in Rooms : q # r => t.rooms[q] = s.rooms[q]
      /\ t.rooms[r].room_id = RoomId(r) /\ t.rooms[r].is_active
      /\ t.rooms[r].current_player_count = 0
      /\ t.rooms[r].connected_players = [pl \in Players |-> NULL]
  BY DEF Creates, InitRoom
<1>2. Assigned(t, r) = {}
  BY <1>1 DEF SeatsOK, AtMost, Bound, Assigned
<1>3. SeatsFit(t, r) /\ AtMost(Assigned(t, r), Bound(t, r))
  BY <1>1, <1>2, SlotIsNotNull DEF SeatsFit, AtMost, Bound
<1>4. ASSUME NEW q \in Rooms, q # r
      PROVE  SeatsFit(t, q) /\ AtMost(Assigned(t, q), Bound(t, q))
  <2>1. SeatsFit(s, q) /\ AtMost(Assigned(s, q), Bound(s, q))
    BY DEF SeatsOK
  <2>2. Assigned(t, q) = Assigned(s, q) /\ Bound(t, q) = Bound(s, q)
    BY <1>1, <1>4 DEF Assigned, Bound
  <2>3. SeatsFit(t, q)
    BY <1>1, <1>4, <2>1 DEF SeatsFit
  <2> QED
    BY <2>1, <2>2, <2>3
<1> QED
  BY <1>3, <1>4 DEF SeatsOK

(* join_room, for a client that has no room yet.                           *)
LEMMA JoinsSeats ==
    ASSUME NEW s, Good(s), SeatsOK(s), NEW i \in Slots, s.clients[i].is_connected,
           s.clients[i].assigned_room_id = -1,
           NEW r \in Rooms, s.rooms[r].is_active, CanJoin(s, r),
           NEW t, Joins(s, t, i, r)
    PROVE  SeatsOK(t)
<1> DEFINE count == s.rooms[r].current_player_count
<1>1. s.rooms[r] \in Room /\ s.clients[i] \in Client
  BY DEF Good, TypedState
<1>2. count \in 0 .. ROOM_SIZE - 1 /\ count \in Players
  BY <1>1 DEF CanJoin, Room, ROOM_SIZE, Players
<1>3. /\ \A j \in Slots : j # i => t.clients[j] = s.clients[j]
      /\ t.clients[i].is_connected
      /\ t.clients[i].assigned_room_id = RoomId(r)
      /\ t.clients[i].assigned_player_id = count
  <2>1. s.rooms[r].room_id = RoomId(r)
    BY DEF SeatsOK, SeatsFit
  <2> HIDE DEF count
  <2> QED
    BY <1>1, <2>1 DEF Joins, Client, count
<1>4. /\ t.rooms[r].room_id = s.rooms[r].room_id
      /\ t.rooms[r].is_active
      /\ t.rooms[r].connected_players = [s.rooms[r].connected_players EXCEPT ![count] = i]
      /\ t.rooms[r].current_player_count = count + 1
      /\ \A q \in Rooms : q # r => t.rooms[q] = s.rooms[q]
  BY <1>1 DEF Joins, Room
<1>5. \A q \in Rooms : i \notin Assigned(s, q)
  BY RoomIdsDiffer DEF Assigned
<1>6. \A q \in Rooms : s.rooms[q].is_active =>
         \A pl \in Players : s.rooms[q].connected_players[pl] # i
  BY RoomIdsDiffer DEF SeatsOK, SeatsFit
<1> HIDE DEF count
<1>7. SeatsFit(t, r) /\ AtMost(Assigned(t, r), Bound(t, r))
  <2>1. Assigned(t, r) = Assigned(s, r) \cup {i}
    BY <1>3 DEF Assigned
  <2>2. AtMost(Assigned(s, r), count)
    BY DEF SeatsOK, Bound, count
  <2>3. AtMost(Assigned(t, r), count + 1)
    <3>1. AtMost(Assigned(s, r) \cup {i}, count + 1)
      BY <1>2, <2>2, AtMostAdd
    <3> QED
      BY <2>1, <3>1
  <2>4. s.rooms[r].connected_players \in [Players -> Slots \cup {NULL}]
    BY <1>1 DEF Room
  <2>5. SeatsFit(s, r)
    BY DEF SeatsOK
  <2>6. SeatsFit(t, r)
    <3> SUFFICES ASSUME NEW pl \in Players, NEW j \in Slots,
                        t.rooms[r].connected_players[pl] = j
                 PROVE  /\ t.clients[j].is_connected
                        /\ t.clients[j].assigned_room_id = RoomId(r)
                        /\ t.clients[j].assigned_player_id = pl
      BY <1>4, <2>5 DEF SeatsFit
    <3>1. CASE pl = count
      BY <1>3, <1>4, <2>4, <3>1
    <3>2. CASE pl # count
      <4>1. s.rooms[r].connected_players[pl] = j /\ j # i
        BY <1>4, <1>6, <2>4, <3>2
      <4> QED
        BY <1>3, <2>5, <4>1 DEF SeatsFit
    <3> QED
      BY <3>1, <3>2
  <2> QED
    BY <1>4, <2>3, <2>6 DEF Bound
<1>8. ASSUME NEW q \in Rooms, q # r
      PROVE  SeatsFit(t, q) /\ AtMost(Assigned(t, q), Bound(t, q))
  <2>1. SeatsFit(s, q) /\ AtMost(Assigned(s, q), Bound(s, q))
    BY DEF SeatsOK
  <2>2. Assigned(t, q) \subseteq Assigned(s, q)
    BY <1>3, <1>8, RoomIdsDiffer DEF Assigned
  <2>3. SeatsFit(t, q)
    BY <1>3, <1>4, <1>6, <1>8, <2>1 DEF SeatsFit
  <2> QED
    BY <1>4, <1>8, <2>1, <2>2, <2>3, AtMostSubset DEF Bound
<1> QED
  BY <1>7, <1>8 DEF SeatsOK

-----------------------------------------------------------------------------
(* The last word a player is told.  doomed: the clients that were told it  *)
(* and are about to be removed.                                            *)
LastWords == {"GAME_OVER", "OPPONENT_LEFT"}

ToldLast(s, p) ==
    \E n \in DOMAIN s.sent[p] : s.sent[p][n].type \in LastWords

LastOK(s, doomed) ==
    \A p \in Peers :
        /\ \A n \in DOMAIN s.sent[p] :
              s.sent[p][n].type \in LastWords => n = Len(s.sent[p])
        /\ ToldLast(s, p) /\ s.status = "running" =>
              \A i \in Slots : s.clients[i].is_connected /\ PeerOf(s, i) = p => i \in doomed

LEMMA PeersDiffer ==
    ASSUME NEW s, Good(s), NEW i \in Slots, s.clients[i].is_connected
    PROVE  /\ IsOpen(s, SocketOf(s, i)) /\ PeerOf(s, i) \in Peers
           /\ \A j \in Slots :
                 s.clients[j].is_connected /\ PeerOf(s, j) = PeerOf(s, i) => i = j
<1>1. \A j \in Slots : s.clients[j].is_connected =>
         IsOpen(s, SocketOf(s, j)) /\ PeerOf(s, j) \in Peers
  BY DEF Good, SlotsOwnDescriptors, TypedState, IsOpen, PeerOf
<1>2. ASSUME NEW j \in Slots, s.clients[j].is_connected, PeerOf(s, j) = PeerOf(s, i)
      PROVE  i = j
  <2>1. SocketOf(s, i) = SocketOf(s, j)
    BY <1>1, <1>2 DEF Good, PeersDistinct, IsOpen, PeerOf
  <2> QED
    BY <1>2, <2>1 DEF Good, SlotsOwnDescriptors
<1> QED
  BY <1>1, <1>2

(* Clients that were told are removed, others may be.                      *)
LEMMA LastKept ==
    ASSUME NEW s, NEW t, Good(s), Good(t), Evolves(s, t), t.sent = s.sent,
           t.status = "running" => s.status = "running",
           NEW before, LastOK(s, before), NEW after,
           \A i \in before : t.clients[i].is_connected => i \in after
    PROVE  LastOK(t, after)
<1>1. ASSUME NEW i \in Slots, t.clients[i].is_connected
      PROVE  s.clients[i].is_connected /\ PeerOf(s, i) = PeerOf(t, i)
  <2>1. s.clients[i].is_connected /\ SocketOf(t, i) = SocketOf(s, i)
    BY <1>1 DEF Evolves
  <2>2. IsOpen(t, SocketOf(t, i))
    BY <1>1, PeersDiffer
  <2> QED
    BY <2>1, <2>2 DEF Evolves, IsOpen, PeerOf
<1>2. \A p \in Peers : ToldLast(t, p) = ToldLast(s, p)
  BY DEF ToldLast
<1> QED
  BY <1>1, <1>2 DEF LastOK

LEMMA LastSent ==
    ASSUME NEW s, NEW t, Good(s), Good(t), NEW j \in Slots, s.clients[j].is_connected,
           NEW m, Sends(s, t, SocketOf(s, j), m),
           NEW before, LastOK(s, before), j \notin before,
           NEW after, before \subseteq after, m.type \in LastWords => j \in after
    PROVE  LastOK(t, after)
<1>1. t.clients = s.clients /\ t.fds = s.fds /\ (t.status = "running" => s.status = "running")
  BY DEF Sends
<1>2. \A i \in Slots : PeerOf(t, i) = PeerOf(s, i)
  BY <1>1 DEF PeerOf, SocketOf
<1>3. ASSUME NEW p \in Peers, t.sent[p] = s.sent[p]
      PROVE  /\ \A n \in DOMAIN t.sent[p] :
                   t.sent[p][n].type \in LastWords => n = Len(t.sent[p])
             /\ ToldLast(t, p) /\ t.status = "running" =>
                   \A i \in Slots : t.clients[i].is_connected /\ PeerOf(t, i) = p => i \in after
  <2>1. ToldLast(t, p) = ToldLast(s, p)
    BY <1>3 DEF ToldLast
  <2> QED
    BY <1>1, <1>2, <1>3, <2>1 DEF LastOK
<1>4. ASSUME NEW p \in Peers, t.sent[p] # s.sent[p]
      PROVE  /\ \A n \in DOMAIN t.sent[p] :
                   t.sent[p][n].type \in LastWords => n = Len(t.sent[p])
             /\ ToldLast(t, p) /\ t.status = "running" =>
                   \A i \in Slots : t.clients[i].is_connected /\ PeerOf(t, i) = p => i \in after
  <2>1. /\ p = PeerOf(s, j) /\ s.status = "running"
        /\ t.sent[p] = Append(s.sent[p], m)
    BY <1>4 DEF Sends, PeerOf
  <2>2. ~ToldLast(s, p)
    BY <2>1 DEF LastOK
  <2>3. s.sent[p] \in Seq(Message)
    BY DEF Good, TypedState
  <2> DEFINE old == s.sent[p]
             len == Len(old)
  <2>4. /\ len \in Nat /\ DOMAIN old = 1 .. len
        /\ DOMAIN t.sent[p] = 1 .. len + 1 /\ Len(t.sent[p]) = len + 1
        /\ \A n \in 1 .. len : t.sent[p][n] = old[n]
        /\ t.sent[p][len + 1] = m
    BY <2>1, <2>3, AppendProperties
  <2>5. \A n \in DOMAIN t.sent[p] : t.sent[p][n].type \in LastWords =>
           n = len + 1 /\ m.type \in LastWords
    <3> SUFFICES ASSUME NEW n \in DOMAIN t.sent[p], t.sent[p][n].type \in LastWords
                 PROVE  n = len + 1 /\ m.type \in LastWords
      OBVIOUS
    <3>1. n \in 1 .. len => old[n].type \in LastWords
      BY <2>4
    <3>2. n \notin 1 .. len
      BY <2>2, <2>4, <3>1 DEF ToldLast
    <3>3. n = len + 1
      BY <2>4, <3>2
    <3> QED
      BY <2>4, <3>3
  <2>6. \A i \in Slots : t.clients[i].is_connected /\ PeerOf(t, i) = p => i = j
    BY <1>1, <1>2, <2>1, PeersDiffer
  <2> QED
    BY <2>4, <2>5, <2>6 DEF ToldLast
<1> QED
  BY <1>3, <1>4 DEF LastOK


(* remove_client, game in progress: who is told is removed as well.        *)
LEMMA AbandonsLast ==
    ASSUME NEW s, NEW t, Good(s), Good(t), Evolves(s, t), SeatsOK(s), LastOK(s, {}),
           NEW i \in Slots, s.clients[i].is_connected,
           NEW r \in Rooms, r = RoomOf(s, i), s.rooms[r].is_active,
           s.rooms[r].is_game_started, Abandons(s, t, i, r)
    PROVE  LastOK(t, {})
<1> DEFINE seats == s.rooms[r].connected_players
           other == seats[1 - s.clients[i].assigned_player_id]
           m     == Notice("OPPONENT_LEFT")
<1>1. /\ t.status = "running" => s.status = "running"
      /\ \A p \in Peers : t.sent[p] # s.sent[p] =>
            /\ other # NULL /\ p = PeerOf(s, other) /\ s.status = "running"
            /\ t.sent[p] = Append(s.sent[p], m)
  BY DEF Abandons, PeerOf
<1>2. 1 - s.clients[i].assigned_player_id \in Players /\ other \in Assigned(s, r)
  <2>1. r # NULL
    BY RoomIsNotNull
  <2>2. i \in Assigned(s, r)
    BY <2>1, RoomOfAssigned DEF Assigned
  <2>3. /\ Assigned(s, r) = {seats[0], seats[1]}
        /\ s.clients[seats[0]].assigned_player_id = 0
        /\ s.clients[seats[1]].assigned_player_id = 1
        /\ seats[0] \in Assigned(s, r) /\ seats[1] \in Assigned(s, r)
    BY PlayingSeats, SMTT(30)
  <2> HIDE DEF seats
  <2>4. CASE i = seats[0]
    BY <2>3, <2>4 DEF Players, ROOM_SIZE
  <2>5. CASE i = seats[1]
    BY <2>3, <2>5 DEF Players, ROOM_SIZE
  <2> QED
    BY <2>2, <2>3, <2>4, <2>5
<1>3. other \in Slots /\ s.clients[other].is_connected
  BY <1>2 DEF Assigned
<1>4. ~t.clients[other].is_connected
  <2>1. other \in {i} \cup {seats[pl] : pl \in Players}
    BY <1>2
  <2> QED
    BY <1>3, <2>1 DEF Abandons
<1> DEFINE u == [s EXCEPT !.sent = t.sent]
<1> HIDE DEF other, seats, m
<1>5. ASSUME NEW j \in Slots, t.clients[j].is_connected
      PROVE  s.clients[j].is_connected /\ PeerOf(s, j) = PeerOf(t, j)
  <2>1. s.clients[j].is_connected /\ SocketOf(t, j) = SocketOf(s, j)
    BY <1>5 DEF Evolves
  <2>2. IsOpen(t, SocketOf(t, j))
    BY <1>5, PeersDiffer
  <2> QED
    BY <2>1, <2>2 DEF Evolves, IsOpen, PeerOf
<1>6. ASSUME NEW p \in Peers, t.sent[p] = s.sent[p]
      PROVE  /\ \A n \in DOMAIN t.sent[p] :
                   t.sent[p][n].type \in LastWords => n = Len(t.sent[p])
             /\ ToldLast(t, p) /\ t.status = "running" =>
                   \A j \in Slots : ~(t.clients[j].is_connected /\ PeerOf(t, j) = p)
  <2>1. ToldLast(t, p) = ToldLast(s, p)
    BY <1>6 DEF ToldLast
  <2> QED
    BY <1>1, <1>5, <1>6, <2>1 DEF LastOK
<1>7. ASSUME NEW p \in Peers, t.sent[p] # s.sent[p]
      PROVE  /\ \A n \in DOMAIN t.sent[p] :
                   t.sent[p][n].type \in LastWords => n = Len(t.sent[p])
             /\ \A j \in Slots : ~(t.clients[j].is_connected /\ PeerOf(t, j) = p)
  <2>1. /\ p = PeerOf(s, other) /\ s.status = "running"
        /\ t.sent[p] = Append(s.sent[p], m)
    BY <1>1, <1>7
  <2>2. ~ToldLast(s, p)
    BY <1>3, <2>1 DEF LastOK
  <2>3. s.sent[p] \in Seq(Message)
    BY DEF Good, TypedState
  <2> DEFINE old == s.sent[p]
             len == Len(old)
  <2>4. /\ len \in Nat /\ DOMAIN old = 1 .. len
        /\ DOMAIN t.sent[p] = 1 .. len + 1 /\ Len(t.sent[p]) = len + 1
        /\ \A n \in 1 .. len : t.sent[p][n] = old[n]
    BY <2>1, <2>3, AppendProperties
  <2>5. \A n \in DOMAIN t.sent[p] : t.sent[p][n].type \in LastWords => n = len + 1
    <3> SUFFICES ASSUME NEW n \in DOMAIN t.sent[p], t.sent[p][n].type \in LastWords
                 PROVE  n = len + 1
      OBVIOUS
    <3>1. n \in 1 .. len => old[n].type \in LastWords
      BY <2>4
    <3>2. n \notin 1 .. len
      BY <2>2, <2>4, <3>1 DEF ToldLast
    <3> QED
      BY <2>4, <3>2
  <2>6. \A j \in Slots : t.clients[j].is_connected /\ PeerOf(t, j) = p => j = other
    BY <1>3, <1>5, <2>1, PeersDiffer
  <2> QED
    BY <1>4, <2>4, <2>5, <2>6
<1> QED
  BY <1>6, <1>7 DEF LastOK

-----------------------------------------------------------------------------
(* A board is shot at only in a game, and the game goes on only while the  *)
(* board has a ship afloat.                                                *)
BoardFit(s, r) ==
    s.rooms[r].is_active =>
        \A pl \in Players :
            IF s.rooms[r].is_game_started
            THEN Struck(s.boards[r][pl]) # {} => Afloat(s.boards[r][pl]) # {}
            ELSE Struck(s.boards[r][pl]) = {}

(* The invariant of a session, as it holds in the middle of a handler: but *)
(* for the boards of a room (NULL: none) whose game is being ended.        *)
Sess(s, room, doomed) ==
    /\ Good(s)
    /\ SeatsOK(s)
    /\ BoardsIn(s, Board)
    /\ \A r \in Rooms : r # room => BoardFit(s, r)
    /\ LastOK(s, doomed)

(* Games go on as they were, or end with their room.                       *)
LEMMA BoardsFitOn ==
    ASSUME NEW s, NEW t, NEW r \in Rooms, BoardFit(s, r), t.boards = s.boards,
           t.rooms[r].is_active =>
               /\ s.rooms[r].is_active
               /\ t.rooms[r].is_game_started = s.rooms[r].is_game_started
    PROVE  BoardFit(t, r)
BY DEF BoardFit

LEMMA SentSess ==
    ASSUME NEW s, NEW room, NEW before, Sess(s, room, before),
           NEW j \in Slots, s.clients[j].is_connected, j \notin before,
           NEW m, NEW t, Good(t), Sends(s, t, SocketOf(s, j), m),
           NEW after, before \subseteq after, m.type \in LastWords => j \in after
    PROVE  Sess(t, room, after)
<1>1. t.clients = s.clients /\ t.rooms = s.rooms /\ t.boards = s.boards
  BY DEF Sends
<1>2. SeatsOK(t)
  BY <1>1, SameSeats DEF Sess
<1>3. BoardsIn(t, Board) /\ \A r \in Rooms : r # room => BoardFit(t, r)
  BY <1>1 DEF Sess, BoardsIn, BoardFit
<1>4. LastOK(t, after)
  BY LastSent DEF Sess
<1> QED
  BY <1>2, <1>3, <1>4 DEF Sess

LEMMA SendSess ==
    ASSUME NEW s, NEW room, NEW before, Sess(s, room, before),
           NEW j \in Slots, s.clients[j].is_connected, j \notin before,
           NEW m \in Message, m.type \notin LastWords
    PROVE  Sess(Send(s, SocketOf(s, j), m), room, before)
<1>1. Good(Send(s, SocketOf(s, j), m))
      /\ Sends(s, Send(s, SocketOf(s, j), m), SocketOf(s, j), m)
  BY SendEffect DEF Sess
<1> QED
  BY <1>1, SentSess

(* remove_client, no game in progress.                                     *)
LEMMA QuitsRooms ==
    ASSUME NEW s, NEW i \in Slots, NEW t, Quits(s, t, i),
           RoomOf(s, i) # NULL => ~s.rooms[RoomOf(s, i)].is_game_started
    PROVE  /\ t.sent = s.sent /\ t.status = s.status
           /\ ~t.clients[i].is_connected
           /\ \A r \in Rooms :
                 t.rooms[r].is_game_started <=> s.rooms[r].is_game_started
<1>1. PICK left : /\ IF RoomOf(s, i) = NULL THEN left = s
                     ELSE Leaves(s, left, i, RoomOf(s, i))
                  /\ Good(left)
                  /\ Frees(left, t, i)
  BY DEF Quits
<1>2. /\ left.sent = s.sent /\ left.status = s.status
      /\ \A r \in Rooms : left.rooms[r].is_game_started <=> s.rooms[r].is_game_started
  <2>1. CASE RoomOf(s, i) = NULL
    BY <1>1, <2>1
  <2>2. CASE RoomOf(s, i) # NULL
    BY <1>1, <2>2 DEF Leaves
  <2> QED
    BY <2>1, <2>2
<1>3. ~t.clients[i].is_connected
  BY <1>1 DEF Frees, Good, TypedState, FreeSlot
<1> QED
  BY <1>1, <1>2, <1>3 DEF Frees

LEMMA QuitSess ==
    ASSUME NEW s, NEW room, NEW before, Sess(s, room, before),
           NEW i \in Slots, s.clients[i].is_connected,
           RoomOf(s, i) # NULL => ~s.rooms[RoomOf(s, i)].is_game_started
    PROVE  Sess(RemoveClient(s, i), room, before \ {i})
<1> DEFINE t == RemoveClient(s, i)
           r == RoomOf(s, i)
<1>1. /\ Good(t) /\ Evolves(s, t) /\ Follows(s, t) /\ Quits(s, t, i)
  BY RemoveClientEffect DEF Sess
<1>2. /\ t.sent = s.sent /\ t.status = s.status
      /\ ~t.clients[i].is_connected
      /\ \A q \in Rooms : t.rooms[q].is_game_started <=> s.rooms[q].is_game_started
  BY <1>1, QuitsRooms
<1> HIDE DEF t, r
<1>3. SeatsOK(t)
  BY RemoveClientSeats DEF Sess, t
<1>4. t.boards = s.boards /\ \A q \in Rooms : t.rooms[q].is_active => s.rooms[q].is_active
  BY <1>1 DEF Follows
<1>5. BoardsIn(t, Board) /\ \A q \in Rooms : q # room => BoardFit(t, q)
  BY <1>2, <1>4 DEF Sess, BoardsIn, BoardFit
<1>6. \A j \in before : t.clients[j].is_connected => j \in before \ {i}
  BY <1>2
<1>7. LastOK(t, before \ {i})
  BY <1>1, <1>2, <1>6, LastKept DEF Sess
<1> QED
  BY <1>1, <1>3, <1>5, <1>7 DEF Sess, t

LEMMA RemoveClientSess ==
    ASSUME NEW s, NEW room, Sess(s, room, {}), NEW i \in Slots, s.clients[i].is_connected
    PROVE  /\ Sess(RemoveClient(s, i), room, {})
           /\ \A r \in Rooms : s.rooms[r].is_game_started /\ RoomOf(s, i) = r
                 => ~RemoveClient(s, i).rooms[r].is_active
<1> DEFINE t == RemoveClient(s, i)
           r == RoomOf(s, i)
<1>1. CASE ~(r # NULL /\ s.rooms[r].is_game_started)
  <2>1. Sess(t, room, {} \ {i})
    BY <1>1, QuitSess
  <2>2. {} \ {i} = {}
    OBVIOUS
  <2> HIDE DEF t
  <2> QED
    BY <1>1, <2>1, <2>2, RoomIsNotNull DEF t
<1>2. CASE r # NULL /\ s.rooms[r].is_game_started
  <2>1. /\ Good(t) /\ Evolves(s, t) /\ Follows(s, t) /\ Abandons(s, t, i, r)
        /\ r \in Rooms /\ s.rooms[r].is_active
    BY <1>2, RemoveClientEffect DEF Sess
  <2> HIDE DEF t
  <2>2. SeatsOK(t)
    BY RemoveClientSeats DEF Sess, t
  <2>3. LastOK(t, {})
    BY <1>2, <2>1, AbandonsLast DEF Sess
  <2>4. /\ t.boards = s.boards
        /\ ~t.rooms[r].is_active
        /\ \A q \in Rooms : q # r => t.rooms[q] = s.rooms[q]
    BY <2>1 DEF Abandons
  <2>5. BoardsIn(t, Board) /\ \A q \in Rooms : q # room => BoardFit(t, q)
    BY <2>4 DEF Sess, BoardsIn, BoardFit
  <2>6. Sess(t, room, {})
    BY <2>1, <2>2, <2>3, <2>5 DEF Sess
  <2> QED
    BY <2>4, <2>6 DEF t
<1> QED
  BY <1>1, <1>2

(* if (send_message(..) < 0) remove_client(..)                             *)
LEMMA SendOrRemoveSess ==
    ASSUME NEW s, NEW room, Sess(s, room, {}), NEW i \in Slots, s.clients[i].is_connected,
           NEW m \in Message, m.type \notin LastWords
    PROVE  LET t == SendOrRemove(s, i, m)
           IN  /\ Sess(t, room, {})
               /\ SendFails(s, SocketOf(s, i)) =>
                     \A r \in Rooms : s.rooms[r].is_game_started /\ RoomOf(s, i) = r
                        => ~t.rooms[r].is_active
               /\ ~SendFails(s, SocketOf(s, i)) =>
                     t.clients = s.clients /\ t.rooms = s.rooms /\ t.boards = s.boards
<1> DEFINE u == Send(s, SocketOf(s, i), m)
           t == SendOrRemove(s, i, m)
<1>1. Sess(u, room, {})
  BY SendSess
<1>2. /\ Sends(s, u, SocketOf(s, i), m)
      /\ t = IF SendFails(s, SocketOf(s, i)) THEN RemoveClient(u, i) ELSE u
  BY SendOrRemoveEffect DEF Sess
<1> HIDE DEF u, t
<1>3. u.clients = s.clients /\ u.rooms = s.rooms /\ u.boards = s.boards
  BY <1>2 DEF Sends
<1>4. RoomOf(u, i) = RoomOf(s, i)
  BY <1>3 DEF RoomOf, FindRoom
<1>5. /\ Sess(RemoveClient(u, i), room, {})
      /\ \A r \in Rooms : u.rooms[r].is_game_started /\ RoomOf(u, i) = r
            => ~RemoveClient(u, i).rooms[r].is_active
  BY <1>1, <1>3, RemoveClientSess
<1> QED
  BY <1>1, <1>2, <1>3, <1>4, <1>5 DEF t


-----------------------------------------------------------------------------
(* The steps of the handlers that send nothing.                            *)
LEMMA QuietLast ==
    ASSUME NEW s, NEW t, NEW doomed, LastOK(s, doomed),
           t.sent = s.sent, t.fds = s.fds, t.status = "running" => s.status = "running",
           \A i \in Slots : t.clients[i].is_connected =>
               s.clients[i].is_connected /\ t.clients[i].socket_fd = s.clients[i].socket_fd
    PROVE  LastOK(t, doomed)
<1>1. \A i \in Slots : t.clients[i].is_connected => PeerOf(t, i) = PeerOf(s, i)
  BY DEF PeerOf, SocketOf
<1>2. \A p \in Peers : ToldLast(t, p) = ToldLast(s, p)
  BY DEF ToldLast
<1> QED
  BY <1>1, <1>2 DEF LastOK

LEMMA CreateSess ==
    ASSUME NEW s, Sess(s, NULL, {}), NEW r \in Rooms, ~s.rooms[r].is_active
    PROVE  /\ Sess(CreateRoom(s, r), NULL, {})
           /\ CanJoin(CreateRoom(s, r), r) /\ Creates(s, CreateRoom(s, r), r)
<1> DEFINE t == CreateRoom(s, r)
<1>1. Good(t) /\ CanJoin(t, r) /\ Creates(s, t, r)
  BY CreateRoomGood, CreateRoomEffect DEF Sess
<1> HIDE DEF t
<1>2. SeatsOK(t)
  BY <1>1, CreatesSeats DEF Sess
<1>3. /\ t.boards = [s.boards EXCEPT ![r] = [pl \in Players |-> InitBoard]]
      /\ \A q \in Rooms : q # r => t.rooms[q] = s.rooms[q]
      /\ ~t.rooms[r].is_game_started
  BY <1>1 DEF Creates, InitRoom
<1>4. BoardsIn(t, Board)
  BY <1>3, BoardClosed DEF Sess, BoardsIn, Closed
<1>5. \A q \in Rooms : q # r => t.boards[q] = s.boards[q]
  BY <1>3 DEF Sess, BoardsIn
<1>6. BoardFit(t, r)
  <2>1. Struck(InitBoard) = {}
    BY DEF Struck, InitBoard
  <2>2. \A pl \in Players : t.boards[r][pl] = InitBoard
    BY <1>3 DEF Sess, BoardsIn
  <2> QED
    BY <1>3, <2>1, <2>2 DEF BoardFit
<1>7. \A q \in Rooms : BoardFit(t, q)
  BY <1>3, <1>5, <1>6, RoomIsNotNull DEF Sess, BoardFit
<1>8. LastOK(t, {})
  BY <1>1, QuietLast DEF Creates, Sess
<1> QED
  BY <1>1, <1>2, <1>4, <1>7, <1>8 DEF Sess, t

LEMMA JoinSess ==
    ASSUME NEW s, Sess(s, NULL, {}), NEW i \in Slots, s.clients[i].is_connected,
           s.clients[i].assigned_room_id = -1,
           NEW r \in Rooms, s.rooms[r].is_active, CanJoin(s, r)
    PROVE  LET t == JoinRoom(s, i, r)
           IN  /\ Sess(t, NULL, {})
               /\ t.clients[i].is_connected /\ t.rooms[r].is_active
               /\ t.clients[i].assigned_player_id \in Players
<1> DEFINE t == JoinRoom(s, i, r)
<1>1. Good(t) /\ Joins(s, t, i, r)
  BY JoinRoomGood, JoinRoomEffect DEF Sess
<1> HIDE DEF t
<1>2. SeatsOK(t)
  BY <1>1, JoinsSeats DEF Sess
<1>3. s.rooms[r] \in Room /\ s.clients[i] \in Client
  BY DEF Sess, Good, TypedState
<1>4. /\ t.boards = s.boards /\ t.fds = s.fds /\ t.sent = s.sent /\ t.status = s.status
      /\ \A q \in Rooms : q # r => t.rooms[q] = s.rooms[q]
      /\ \A j \in Slots : j # i => t.clients[j] = s.clients[j]
  BY <1>1 DEF Joins
<1>5. /\ t.rooms[r].is_game_started = s.rooms[r].is_game_started
      /\ t.rooms[r].is_active
  BY <1>1, <1>3 DEF Joins, Room
<1>6. /\ t.clients[i].socket_fd = s.clients[i].socket_fd
      /\ t.clients[i].is_connected
      /\ t.clients[i].assigned_player_id = s.rooms[r].current_player_count
  BY <1>1, <1>3 DEF Joins, Client
<1>7. t.clients[i].assigned_player_id \in Players
  BY <1>3, <1>6 DEF CanJoin, Room, Players, ROOM_SIZE
<1>8. \A q \in Rooms : BoardFit(t, q)
  BY <1>4, <1>5, RoomIsNotNull DEF Sess, BoardFit
<1>9. LastOK(t, {})
  BY <1>4, <1>6, QuietLast DEF Sess
<1>10. BoardsIn(t, Board)
  BY <1>4 DEF Sess, BoardsIn
<1> QED
  BY <1>1, <1>2, <1>5, <1>6, <1>7, <1>8, <1>9, <1>10 DEF Sess, t

(* Placing ships leaves a board with a ship afloat that had one.           *)
AfloatBoard == {b \in Board : Afloat(b) # {}}

LEMMA PlaceShipAfloat ==
    ASSUME NEW b \in AfloatBoard, NEW p \in ShipPlacement
    PROVE  PlaceShip(b, p) \in AfloatBoard
<1>1. b \in Board /\ PlaceShip(b, p) \in Board
  BY PlaceShipBoard DEF AfloatBoard
<1>2. PICK i \in DOMAIN b.ships : ~b.ships[i].sunk
  BY DEF AfloatBoard, Afloat
<1>3. CASE CanPlaceShip(b, p)
  <2> DEFINE ship == [x |-> p.x, y |-> p.y, length |-> p.length,
                      orientation |-> p.orientation, hits |-> 0, sunk |-> FALSE]
             t == PlaceShip(b, p)
  <2>1. t.ships = Append(b.ships, ship)
    BY <1>3 DEF PlaceShip
  <2>2. ship \in Ship
    BY DEF Ship, ShipPlacement
  <2>3. b.ships \in Seq(Ship)
    BY <1>1 DEF Board
  <2> HIDE DEF ship, t
  <2>4. i \in DOMAIN t.ships /\ t.ships[i] = b.ships[i]
    BY <2>1, <2>2, <2>3, AppendProperties
  <2>5. i \in Afloat(t)
    BY <1>2, <2>4 DEF Afloat
  <2> QED
    BY <1>1, <2>5 DEF AfloatBoard, t
<1>4. CASE ~CanPlaceShip(b, p)
  BY <1>4 DEF PlaceShip
<1> QED
  BY <1>3, <1>4

LEMMA SubmitSess ==
    ASSUME NEW s, Sess(s, NULL, {}), NEW r \in Rooms, NEW pl \in Players,
           NEW m \in Submissions, NEW t, Good(t),
           Submits(s, t, r, pl, PlaceBoardShips(s.boards[r][pl], m.ships))
    PROVE  Sess(t, NULL, {})
<1> DEFINE old   == s.boards[r][pl]
           board == PlaceBoardShips(old, m.ships)
<1>1. s.rooms[r] \in Room /\ old \in Board /\ s.boards \in [Rooms -> [Players -> Board]]
  BY DEF Sess, Good, TypedState, BoardsIn
<1>2. /\ t.clients = s.clients /\ t.fds = s.fds /\ t.sent = s.sent /\ t.status = s.status
      /\ \A q \in Rooms : q # r => t.rooms[q] = s.rooms[q]
      /\ t.boards = [s.boards EXCEPT ![r][pl] = board]
  BY DEF Submits
<1>3. \A q \in Rooms :
         /\ t.rooms[q].room_id = s.rooms[q].room_id
         /\ t.rooms[q].is_active = s.rooms[q].is_active
         /\ t.rooms[q].is_game_started = s.rooms[q].is_game_started
         /\ t.rooms[q].current_player_count = s.rooms[q].current_player_count
         /\ t.rooms[q].connected_players = s.rooms[q].connected_players
  <2>1. t.rooms[r] = [s.rooms[r] EXCEPT
                        !.player_boards_submitted =
                            [s.rooms[r].player_boards_submitted EXCEPT ![pl] = TRUE]]
    BY DEF Submits
  <2> QED
    BY <1>1, <1>2, <2>1 DEF Room
<1>4. Len(m.ships) \in Nat /\ KeptBy(Board, m.ships) /\ KeptBy(AfloatBoard, m.ships)
  BY SubmittedShips, PlaceShipBoard, PlaceShipAfloat DEF KeptBy
<1>5. board \in Board /\ Struck(board) = Struck(old)
  BY <1>1, <1>4, PlacedShipsIn, PlacedShipsStruck
<1>6. Afloat(old) # {} => Afloat(board) # {}
  <2>1. old \in AfloatBoard => board \in AfloatBoard
    BY <1>4, PlacedShipsIn
  <2> QED
    BY <1>1, <2>1 DEF AfloatBoard
<1> HIDE DEF board, old
<1>7. BoardsIn(t, Board)
  BY <1>1, <1>2, <1>5 DEF BoardsIn
<1>8. \A q \in Rooms, k \in Players :
         t.boards[q][k] = IF q = r /\ k = pl THEN board ELSE s.boards[q][k]
  BY <1>1, <1>2
<1>9. ASSUME NEW q \in Rooms PROVE BoardFit(t, q)
  <2>1. BoardFit(s, q)
    BY RoomIsNotNull DEF Sess
  <2> QED
    BY <1>3, <1>5, <1>6, <1>8, <2>1 DEF BoardFit, old
<1>10. LastOK(t, {})
  BY <1>2, QuietLast DEF Sess
<1>11. SeatsOK(t)
  BY <1>2, <1>3, SameSeats DEF Sess
<1> QED
  BY <1>7, <1>9, <1>10, <1>11 DEF Sess



-----------------------------------------------------------------------------
(* Who holds a seat of an active room is connected.                        *)
LEMMA SeatConnected ==
    ASSUME NEW s, NEW room, NEW before, Sess(s, room, before), NEW r \in Rooms,
           s.rooms[r].is_active, NEW pl \in Players
    PROVE  LET seat == s.rooms[r].connected_players[pl]
           IN  seat # NULL => seat \in Assigned(s, r) /\ s.clients[seat].assigned_player_id = pl
<1> DEFINE seat == s.rooms[r].connected_players[pl]
<1>1. s.rooms[r] \in Room
  BY DEF Sess, Good, TypedState
<1>2. seat \in Slots \cup {NULL}
  BY <1>1 DEF Room
<1>3. SeatsFit(s, r)
  BY DEF Sess, SeatsOK
<1>4. \A i \in Slots : seat = i =>
         i \in Assigned(s, r) /\ s.clients[i].assigned_player_id = pl
  BY <1>3 DEF SeatsFit, Assigned
<1> HIDE DEF seat
<1>5. seat # NULL => seat \in Assigned(s, r) /\ s.clients[seat].assigned_player_id = pl
  BY <1>2, <1>4
<1> QED
  BY <1>5 DEF seat

LEMMA SendSeatSess ==
    ASSUME NEW s, NEW room, Sess(s, room, {}), NEW r \in Rooms,
           s.rooms[r].is_active, NEW pl \in Players,
           s.rooms[r].connected_players[pl] # NULL,
           NEW m \in Message, m.type \notin LastWords
    PROVE  LET t == SendSeat(s, r, pl, m)
           IN  /\ Sess(t, room, {})
               /\ t.clients = s.clients /\ t.rooms = s.rooms /\ t.boards = s.boards
<1> DEFINE seat == s.rooms[r].connected_players[pl]
           t == SendSeat(s, r, pl, m)
<1>1. seat \in Slots /\ s.clients[seat].is_connected
  BY SeatConnected DEF Assigned
<1>2. Good(t) /\ Sends(s, t, SocketOf(s, seat), m)
  BY SendSeatEffect DEF Sess
<1> HIDE DEF t, seat
<1>3. Sess(t, room, {})
  BY <1>1, <1>2, SentSess
<1> QED
  BY <1>2, <1>3 DEF t, Sends

LEMMA SendTurnMessagesSess ==
    ASSUME NEW s, NEW room, Sess(s, room, {}), NEW r \in Rooms,
           s.rooms[r].is_active, NEW pl \in Players
    PROVE  Sess(SendTurnMessages(s, r, pl), room, {})
<1> DEFINE u == SendSeat(s, r, pl, Notice("YOUR_TURN"))
           v == SendSeat(u, r, 1 - pl, Notice("WAIT_TURN"))
<1>1. SendTurnMessages(s, r, pl) = IF ~BothSeated(s, r) THEN s ELSE v
  BY DEF SendTurnMessages
<1>2. /\ Notice("YOUR_TURN") \in Message /\ Notice("YOUR_TURN").type \notin LastWords
      /\ Notice("WAIT_TURN") \in Message /\ Notice("WAIT_TURN").type \notin LastWords
  BY NoticeIsMessage DEF Notice, LastWords
<1>3. CASE BothSeated(s, r)
  <2>1. 1 - pl \in Players
    BY DEF Players, ROOM_SIZE
  <2>2. Sess(u, room, {}) /\ u.rooms = s.rooms
    BY <1>2, <1>3, SendSeatSess DEF BothSeated
  <2> HIDE DEF u
  <2>3. Sess(v, room, {})
    BY <1>2, <1>3, <2>1, <2>2, SendSeatSess DEF BothSeated
  <2> QED
    BY <1>1, <1>3, <2>3
<1> QED
  BY <1>1, <1>3

(* A game begins or ends, or the turn is given.                            *)
LEMMA SetGameSess ==
    ASSUME NEW s, NEW r \in Rooms, NEW before, Sess(s, NULL, before) \/ Sess(s, r, before),
           NEW on \in BOOLEAN, NEW turn,
           NEW t, Good(t), SetsGame(s, t, r, on, turn)
    PROVE  /\ t.rooms[r].is_active = s.rooms[r].is_active
           /\ t.rooms[r].is_game_started = on
           /\ t.rooms[r].connected_players = s.rooms[r].connected_players
           /\ Sess(t, r, before)
<1>1. /\ Good(s) /\ SeatsOK(s) /\ BoardsIn(s, Board) /\ LastOK(s, before)
      /\ \A q \in Rooms : q # r => BoardFit(s, q)
  BY RoomIsNotNull DEF Sess
<1>2. /\ t.clients = s.clients /\ t.fds = s.fds /\ t.sent = s.sent /\ t.status = s.status
      /\ t.boards = s.boards
      /\ \A q \in Rooms : q # r => t.rooms[q] = s.rooms[q]
      /\ t.rooms[r] = [s.rooms[r] EXCEPT !.is_game_started = on, !.current_turn = turn]
  BY DEF SetsGame
<1>3. /\ t.rooms[r].room_id = s.rooms[r].room_id
      /\ t.rooms[r].is_active = s.rooms[r].is_active
      /\ t.rooms[r].is_game_started = on
      /\ t.rooms[r].current_player_count = s.rooms[r].current_player_count
      /\ t.rooms[r].connected_players = s.rooms[r].connected_players
  BY <1>1, <1>2 DEF Good, TypedState, Room
<1>4. SeatsOK(t)
  <2>1. \A q \in Rooms :
           /\ t.rooms[q].room_id = s.rooms[q].room_id
           /\ t.rooms[q].is_active = s.rooms[q].is_active
           /\ t.rooms[q].current_player_count = s.rooms[q].current_player_count
           /\ t.rooms[q].connected_players = s.rooms[q].connected_players
    BY <1>2, <1>3
  <2> QED
    BY <1>1, <1>2, <2>1, SameSeats
<1>5. BoardsIn(t, Board) /\ \A q \in Rooms : q # r => BoardFit(t, q)
  BY <1>1, <1>2 DEF BoardsIn, BoardFit
<1>6. LastOK(t, before)
  BY <1>1, <1>2, QuietLast
<1> QED
  BY <1>3, <1>4, <1>5, <1>6 DEF Sess

(* The two values of the flag.                                             *)
LEMMA GameBegunSess ==
    ASSUME NEW s, NEW r \in Rooms, NEW before, Sess(s, NULL, before), NEW turn,
           NEW t, Good(t), SetsGame(s, t, r, TRUE, turn)
    PROVE  /\ t.rooms[r].is_active = s.rooms[r].is_active
           /\ t.rooms[r].is_game_started
           /\ Sess(t, r, before)
<1> DEFINE on == TRUE
<1>1. on \in BOOLEAN /\ SetsGame(s, t, r, on, turn)
  OBVIOUS
<1> HIDE DEF on
<1>2. /\ t.rooms[r].is_active = s.rooms[r].is_active
      /\ t.rooms[r].is_game_started = on
      /\ Sess(t, r, before)
  BY <1>1, SetGameSess
<1> QED
  BY <1>2 DEF on

LEMMA GameEndedSess ==
    ASSUME NEW s, NEW r \in Rooms, NEW before, Sess(s, r, before), NEW turn,
           NEW t, Good(t), SetsGame(s, t, r, FALSE, turn)
    PROVE  /\ t.rooms[r].is_active = s.rooms[r].is_active
           /\ ~t.rooms[r].is_game_started
           /\ t.rooms[r].connected_players = s.rooms[r].connected_players
           /\ Sess(t, r, before)
<1> DEFINE on == FALSE
<1>1. on \in BOOLEAN /\ SetsGame(s, t, r, on, turn)
  OBVIOUS
<1> HIDE DEF on
<1>2. /\ t.rooms[r].is_active = s.rooms[r].is_active
      /\ t.rooms[r].is_game_started = on
      /\ t.rooms[r].connected_players = s.rooms[r].connected_players
      /\ Sess(t, r, before)
  BY <1>1, SetGameSess
<1> QED
  BY <1>2 DEF on

(* The boards of the room that was left out fit after all.                 *)
LEMMA SettledSess ==
    ASSUME NEW s, NEW r \in Rooms, NEW before, Sess(s, r, before), BoardFit(s, r)
    PROVE  Sess(s, NULL, before)
BY DEF Sess

LEMMA StartGameSess ==
    ASSUME NEW s, Sess(s, NULL, {}), NEW r \in Rooms, s.rooms[r].is_active
    PROVE  Sess(StartGame(s, r), NULL, {})
<1>1. CASE BothSeated(s, r)
  <2>1. PICK u, told, on : Starts(s, StartGame(s, r), r, u, told, on)
    BY <1>1, StartGameEffect DEF Sess
  <2> DEFINE seats == s.rooms[r].connected_players
             start == Notice("GAME_START")
  <2>2. start.type \notin LastWords
    BY DEF Notice, LastWords
  <2>3. /\ seats[0] \in Slots /\ s.clients[seats[0]].is_connected
        /\ seats[1] \in Slots /\ s.clients[seats[1]].is_connected
    <3>1. 0 \in Players /\ 1 \in Players
      BY DEF Players, ROOM_SIZE
    <3> QED
      BY <1>1, <3>1, SeatConnected DEF Assigned, BothSeated
  <2>4. /\ Good(u) /\ Sends(s, u, SocketOf(s, seats[0]), start)
        /\ Good(told) /\ Sends(u, told, SocketOf(s, seats[1]), start)
        /\ Good(on) /\ SetsGame(told, on, r, TRUE, 0)
        /\ StartGame(s, r) = SendTurnMessages(on, r, 0)
    BY <2>1 DEF Starts
  <2> HIDE DEF seats, start
  <2>5. Sess(u, NULL, {})
    BY <2>2, <2>3, <2>4, SentSess
  <2>6. u.clients = s.clients /\ SocketOf(u, seats[1]) = SocketOf(s, seats[1])
    BY <2>4 DEF Sends, SocketOf
  <2>7. Sess(told, NULL, {})
    BY <2>2, <2>3, <2>4, <2>5, <2>6, SentSess
  <2>8. told.rooms = s.rooms /\ told.boards = s.boards
    BY <2>4 DEF Sends
  <2>9. on.rooms[r].is_active /\ on.rooms[r].is_game_started /\ Sess(on, r, {})
    <3>1. /\ on.rooms[r].is_active = told.rooms[r].is_active
          /\ on.rooms[r].is_game_started
          /\ Sess(on, r, {})
      BY <2>4, <2>7, GameBegunSess
    <3> QED
      BY <2>8, <3>1
  <2>10. BoardFit(on, r)
    <3>1. BoardFit(s, r)
      BY RoomIsNotNull DEF Sess
    <3>2. on.boards = s.boards
      BY <2>4, <2>8 DEF SetsGame
    <3> QED
      BY <2>9, <3>1, <3>2 DEF BoardFit
  <2>11. Sess(on, NULL, {}) /\ 0 \in Players
    BY <2>9, <2>10, SettledSess DEF Players, ROOM_SIZE
  <2> QED
    BY <2>4, <2>9, <2>11, SendTurnMessagesSess
<1>2. CASE ~BothSeated(s, r)
  BY <1>2 DEF StartGame
<1> QED
  BY <1>1, <1>2

-----------------------------------------------------------------------------
(* A client gives up the seat it holds in a room without a game.           *)
SeatLeft(s, t, i, r) ==
    /\ t.clients = [s.clients EXCEPT ![i] = FreeSlot]
    /\ t.rooms[r].current_player_count = s.rooms[r].current_player_count - 1
    /\ t.rooms[r].is_active <=> t.rooms[r].current_player_count # 0
    /\ \A pl \in Players : s.rooms[r].connected_players[pl] # i =>
          t.rooms[r].connected_players[pl] = s.rooms[r].connected_players[pl]

LEMMA QuitsSeat ==
    ASSUME NEW s, Good(s), NEW i \in Slots, NEW t, Quits(s, t, i),
           NEW r \in Rooms, RoomOf(s, i) = r,
           NEW pl \in Players, s.rooms[r].connected_players[pl] = i
    PROVE  SeatLeft(s, t, i, r)
<1> DEFINE seats == s.rooms[r].connected_players
           held  == {k \in Players : seats[k] = i}
           seat  == Min(held)
<1>1. PICK left : Leaves(s, left, i, r) /\ Frees(left, t, i)
  BY RoomIsNotNull DEF Quits
<1>2. held # {} /\ held \in SUBSET Nat
  BY DEF Players, ROOM_SIZE
<1>3. seat \in held
  BY <1>2, MinIn
<1>4. /\ left.rooms[r].connected_players = [seats EXCEPT ![seat] = NULL]
      /\ left.rooms[r].current_player_count = s.rooms[r].current_player_count - 1
      /\ left.rooms[r].is_active <=> left.rooms[r].current_player_count # 0
      /\ left.clients = s.clients
  BY <1>1, <1>2 DEF Leaves
<1>5. t.rooms = left.rooms /\ t.clients = [s.clients EXCEPT ![i] = FreeSlot]
  BY <1>1, <1>4 DEF Frees
<1>6. s.rooms[r] \in Room
  BY DEF Good, TypedState
<1>7. seats \in [Players -> Slots \cup {NULL}]
  BY <1>6 DEF Room
<1>8. \A other \in Players : seats[other] # i =>
         left.rooms[r].connected_players[other] = seats[other]
  <2>1. \A other \in Players : seats[other] # i => other # seat
    BY <1>3
  <2> HIDE DEF seat, seats
  <2> QED
    BY <1>4, <1>7, <2>1
<1> QED
  <2>1. /\ t.rooms[r].current_player_count = s.rooms[r].current_player_count - 1
        /\ t.rooms[r].is_active <=> t.rooms[r].current_player_count # 0
        /\ \A other \in Players : seats[other] # i =>
              t.rooms[r].connected_players[other] = seats[other]
    <3>1. t.rooms[r] = left.rooms[r]
      BY <1>5
    <3> HIDE DEF seats, seat
    <3>2. /\ left.rooms[r].current_player_count = s.rooms[r].current_player_count - 1
          /\ left.rooms[r].is_active <=> left.rooms[r].current_player_count # 0
      BY <1>4
    <3> QED
      BY <1>8, <3>1, <3>2
  <2> QED
    BY <1>5, <2>1, Zenon DEF SeatLeft

(* end_game_and_disconnect takes both players out of the room, which it    *)
(* leaves empty: the loser is the one client that it can find.             *)
LEMMA EndGameSess ==
    ASSUME NEW s, NEW r \in Rooms, Sess(s, r, {}), s.rooms[r].is_active,
           s.rooms[r].is_game_started, NEW i \in Assigned(s, r)
    PROVE  Sess(EndGame(s, r, i), NULL, {})
<1> DEFINE t      == EndGame(s, r, i)
           winner == s.clients[i].assigned_player_id
           seats  == s.rooms[r].connected_players
           loser  == seats[1 - winner]
           losers == Losers(s, r, winner)
           m      == GameOver(winner)
<1>1. i \in Slots /\ s.clients[i].is_connected
  BY DEF Assigned
<1>2. /\ winner \in Players /\ 1 - winner \in Players
      /\ i = seats[winner] /\ i # loser /\ loser \in Assigned(s, r)
      /\ Assigned(s, r) = {i, loser}
      /\ s.clients[loser].assigned_player_id = 1 - winner
      /\ s.rooms[r].current_player_count = 2
  <2>1. /\ seats[0] \in Assigned(s, r) /\ seats[1] \in Assigned(s, r)
        /\ s.clients[seats[0]].assigned_player_id = 0
        /\ s.clients[seats[1]].assigned_player_id = 1
        /\ seats[0] # seats[1]
        /\ s.rooms[r].current_player_count = 2
        /\ Assigned(s, r) = {seats[0], seats[1]}
    BY PlayingSeats DEF Sess, ROOM_SIZE
  <2> HIDE DEF seats
  <2>2. CASE i = seats[0]
    BY <2>1, <2>2 DEF Players, ROOM_SIZE
  <2>3. CASE i = seats[1]
    BY <2>1, <2>3 DEF Players, ROOM_SIZE
  <2> QED
    BY <2>1, <2>2, <2>3
<1>3. loser \in Slots /\ s.clients[loser].is_connected /\ loser # NULL
  BY <1>2, SlotIsNotNull DEF Assigned
<1>4. PICK won, told, over, rest : Ends(s, t, r, i, won, told, over, rest)
  BY <1>1, EndGameEffect DEF Sess
<1>5. losers = {loser}
  <2>1. s.rooms[r].room_id = RoomId(r)
    BY DEF Sess, SeatsOK, SeatsFit
  <2>2. \A j \in losers : j \in Assigned(s, r) /\ s.clients[j].assigned_player_id = 1 - winner
    BY <2>1 DEF Losers, Assigned
  <2>3. i \notin losers
    BY <1>2, <2>2 DEF Players, ROOM_SIZE
  <2>4. loser \in losers
    BY <1>2, <1>3, <2>1 DEF Losers, Assigned
  <2> HIDE DEF losers, loser
  <2> QED
    BY <1>2, <2>2, <2>3, <2>4
<1>6. /\ Good(won) /\ Sends(s, won, SocketOf(s, i), m)
      /\ Good(told) /\ Sends(won, told, SocketOf(s, loser), m)
      /\ Good(over) /\ SetsGame(told, over, r, FALSE, told.rooms[r].current_turn)
      /\ rest = RemoveClient(over, loser) /\ Good(rest)
      /\ t = RemoveClient(rest, i)
  BY <1>3, <1>4, <1>5 DEF Ends
<1>7. losers = {loser}
  BY <1>5
<1>8. Sess(won, r, {i})
  <2> HIDE DEF winner
  <2> QED
    BY <1>1, <1>6, SentSess
<1> HIDE DEF t, winner, loser, losers, m
<1>9. Sess(told, r, {i, loser})
  <2>1. won.clients = s.clients /\ SocketOf(won, loser) = SocketOf(s, loser)
    BY <1>6 DEF Sends, SocketOf
  <2> QED
    BY <1>2, <1>3, <1>6, <1>8, <2>1, SentSess
<1>10. /\ Sess(over, r, {i, loser})
       /\ over.clients = s.clients
       /\ over.rooms[r].is_active /\ ~over.rooms[r].is_game_started
       /\ over.rooms[r].current_player_count = 2
       /\ over.rooms[r].connected_players = seats
  <2>1. told.rooms = s.rooms /\ over.clients = s.clients
    BY <1>6 DEF Sends, SetsGame
  <2>2. /\ over.rooms[r].is_active = told.rooms[r].is_active
        /\ ~over.rooms[r].is_game_started
        /\ over.rooms[r].connected_players = told.rooms[r].connected_players
        /\ Sess(over, r, {i, loser})
    BY <1>6, <1>9, GameEndedSess
  <2>3. over.rooms[r].current_player_count = told.rooms[r].current_player_count
    BY <1>6 DEF SetsGame, Good, TypedState, Room
  <2> QED
    BY <1>2, <2>1, <2>2, <2>3
<1>11. RoomOf(over, loser) = r
  BY <1>2, <1>3, <1>10, RoomOfAssigned DEF Sess, Assigned
<1>12. Quits(over, rest, loser) /\ Sess(rest, r, {i, loser} \ {loser})
  <2>1. r # NULL
    BY RoomIsNotNull
  <2> QED
    BY <1>3, <1>6, <1>10, <1>11, <2>1, RemoveClientEffect, QuitSess DEF Sess
<1>13. /\ rest.clients = [over.clients EXCEPT ![loser] = FreeSlot]
       /\ rest.rooms[r].current_player_count = 1
       /\ rest.rooms[r].is_active
       /\ rest.rooms[r].connected_players[winner] = i
       /\ ~rest.rooms[r].is_game_started
  <2>1. over.rooms[r].connected_players[1 - winner] = loser
    BY <1>10 DEF loser
  <2>2. over.rooms[r].connected_players[winner] = i
    BY <1>2, <1>10
  <2>3. SeatLeft(over, rest, loser, r)
    BY <1>2, <1>3, <1>10, <1>11, <1>12, <2>1, QuitsSeat DEF Sess
  <2>4. ~rest.rooms[r].is_game_started
    BY <1>3, <1>10, <1>11, <1>12, QuitsRooms
  <2> QED
    BY <1>2, <1>10, <2>2, <2>3, <2>4 DEF SeatLeft
<1>14. rest.clients[i] = s.clients[i]
  <2>1. over.clients \in [Slots -> Client]
    BY <1>10 DEF Sess, Good, TypedState
  <2> QED
    BY <1>1, <1>2, <1>10, <1>13, <2>1
<1>15. RoomOf(rest, i) = r
  <2>1. SeatsOK(rest)
    BY <1>12 DEF Sess
  <2>2. rest.clients[i].assigned_room_id = RoomId(r)
    BY <1>14 DEF Assigned
  <2>3. rest.rooms[r].is_active
    BY <1>13
  <2> QED
    BY <1>1, <2>1, <2>2, <2>3, RoomOfAssigned
<1>16. Quits(rest, t, i) /\ Sess(t, r, ({i, loser} \ {loser}) \ {i})
  <2>1. r # NULL
    BY RoomIsNotNull
  <2> QED
    BY <1>1, <1>6, <1>12, <1>13, <1>14, <1>15, <2>1, RemoveClientEffect, QuitSess
<1>17. ~t.rooms[r].is_active
  <2>1. Good(rest)
    BY <1>12 DEF Sess
  <2>2. SeatLeft(rest, t, i, r)
    BY <1>1, <1>2, <1>13, <1>15, <1>16, <2>1, QuitsSeat
  <2> QED
    BY <1>13, <2>2 DEF SeatLeft
<1>18. ({i, loser} \ {loser}) \ {i} = {}
  OBVIOUS
<1> QED
  BY <1>16, <1>17, <1>18, SettledSess DEF BoardFit, t


-----------------------------------------------------------------------------
(* The handlers.                                                           *)
LEMMA SendErrorSess ==
    ASSUME NEW s, Sess(s, NULL, {}), NEW i \in Slots, s.clients[i].is_connected
    PROVE  Sess(SendError(s, i), NULL, {})
<1>1. Notice("ERROR") \in Message /\ Notice("ERROR").type \notin LastWords
  BY NoticeIsMessage DEF Notice, LastWords
<1> QED
  BY <1>1, SendSess DEF SendError

LEMMA AnnounceJoinSess ==
    ASSUME NEW s, Sess(s, NULL, {}), NEW i \in Slots, s.clients[i].is_connected,
           NEW r \in Rooms, s.rooms[r].is_active,
           s.clients[i].assigned_player_id \in Players
    PROVE  Sess(AnnounceJoin(s, i, r), NULL, {})
<1> DEFINE pl    == s.clients[i].assigned_player_id
           other == s.rooms[r].connected_players[1 - pl]
           m     == Seated("JOIN_OK", s, i)
           n     == Notice("OPPONENT_JOINED")
           ok    == Send(s, SocketOf(s, i), m)
           told  == Send(ok, SocketOf(s, i), n)
           both  == Send(told, SocketOf(s, other), n)
<1>1. AnnounceJoin(s, i, r) =
         IF SendFails(s, SocketOf(s, i)) THEN RemoveClient(ok, i)
         ELSE IF other = NULL THEN told ELSE both
  BY DEF AnnounceJoin
<1>2. /\ m \in Message /\ m.type \notin LastWords
      /\ n \in Message /\ n.type \notin LastWords
  BY NoticeIsMessage, SeatIsMessage DEF Sess, Notice, Seated, LastWords
<1>3. other # NULL => other \in Slots /\ s.clients[other].is_connected
  <2>1. 1 - pl \in Players
    BY DEF Players, ROOM_SIZE
  <2> QED
    BY <2>1, SeatConnected DEF Assigned
<1> HIDE DEF m, n, other
<1>4. Sess(ok, NULL, {}) /\ ok.clients = s.clients
  <2>1. Sess(ok, NULL, {})
    BY <1>2, SendSess
  <2>2. Sends(s, ok, SocketOf(s, i), m)
    BY <1>2, SendEffect DEF Sess
  <2> QED
    BY <2>1, <2>2 DEF Sends
<1> HIDE DEF ok
<1>5. Sess(told, NULL, {}) /\ told.clients = s.clients
  <2>1. SocketOf(ok, i) = SocketOf(s, i)
    BY <1>4 DEF SocketOf
  <2> QED
    <3>1. Sess(Send(ok, SocketOf(ok, i), n), NULL, {})
      BY <1>2, <1>4, SendSess
    <3>2. Sends(ok, told, SocketOf(s, i), n)
      BY <1>2, <1>4, SendEffect DEF Sess
    <3> QED
      BY <1>4, <2>1, <3>1, <3>2 DEF Sends
<1> HIDE DEF told
<1>6. other # NULL => Sess(both, NULL, {})
  <2>1. SocketOf(told, other) = SocketOf(s, other)
    BY <1>5 DEF SocketOf
  <2> QED
    BY <1>2, <1>3, <1>5, <2>1, SendSess
<1>7. Sess(RemoveClient(ok, i), NULL, {})
  BY <1>4, RemoveClientSess
<1> QED
  BY <1>1, <1>5, <1>6, <1>7

LEMMA OnCreateRoomSess ==
    ASSUME NEW s, Sess(s, NULL, {}), NEW i \in Slots, s.clients[i].is_connected,
           s.clients[i].assigned_room_id = -1,
           NEW r \in Rooms, ~s.rooms[r].is_active
    PROVE  Sess(OnCreateRoom(s, i, r), NULL, {})
<1> DEFINE u == CreateRoom(s, r)
           v == JoinRoom(u, i, r)
           m == Seated("ROOM_CREATED", v, i)
<1>1. OnCreateRoom(s, i, r) = SendOrRemove(v, i, m)
  BY DEF OnCreateRoom
<1>2. /\ Sess(u, NULL, {}) /\ CanJoin(u, r)
      /\ u.clients = s.clients /\ u.rooms[r].is_active
  <2>1. Sess(u, NULL, {}) /\ CanJoin(u, r) /\ Creates(s, u, r)
    BY CreateSess
  <2> HIDE DEF u
  <2> QED
    BY <2>1 DEF Creates, InitRoom
<1> HIDE DEF u
<1>3. Sess(v, NULL, {}) /\ v.clients[i].is_connected
  BY <1>2, JoinSess
<1> HIDE DEF v
<1>4. m \in Message /\ m.type \notin LastWords
  BY <1>3, SeatIsMessage DEF Sess, Seated, LastWords
<1> HIDE DEF m
<1> QED
  BY <1>1, <1>3, <1>4, SendOrRemoveSess

LEMMA OnJoinRoomSess ==
    ASSUME NEW s, Sess(s, NULL, {}), NEW i \in Slots, s.clients[i].is_connected,
           s.clients[i].assigned_room_id = -1, NEW id
    PROVE  Sess(OnJoinRoom(s, i, id), NULL, {})
<1> DEFINE r == FindRoom(s, id)
           v == JoinRoom(s, i, r)
<1>1. CASE CanJoin(s, r)
  <2>1. r \in Rooms /\ s.rooms[r].is_active
    BY <1>1, FindRoomIn DEF CanJoin
  <2> HIDE DEF r
  <2>2. /\ Sess(v, NULL, {}) /\ v.clients[i].is_connected /\ v.rooms[r].is_active
        /\ v.clients[i].assigned_player_id \in Players
    BY <1>1, <2>1, JoinSess
  <2> HIDE DEF v
  <2>3. Sess(AnnounceJoin(v, i, r), NULL, {})
    BY <2>1, <2>2, AnnounceJoinSess
  <2> QED
    BY <1>1, <2>3 DEF OnJoinRoom, r, v
<1>2. CASE ~CanJoin(s, r)
  BY <1>2, SendErrorSess DEF OnJoinRoom
<1> QED
  BY <1>1, <1>2

LEMMA OnSubmitBoardSess ==
    ASSUME NEW s, Sess(s, NULL, {}), NEW i \in Slots, s.clients[i].is_connected,
           NEW m \in Submissions
    PROVE  Sess(OnSubmitBoard(s, i, m.ships), NULL, {})
<1> DEFINE r     == RoomOf(s, i)
           pl    == s.clients[i].assigned_player_id
           board == PlaceBoardShips(s.boards[r][pl], m.ships)
           t     == OnSubmitBoard(s, i, m.ships)
           ok    == Notice("BOARD_OK")
<1> SUFFICES Sess(t, NULL, {})
  OBVIOUS
<1>1. CASE t = SendError(s, i)
  BY <1>1, SendErrorSess
<1>2. CASE t = [s EXCEPT !.status = "overrun"]
  <2>1. /\ t.clients = s.clients /\ t.rooms = s.rooms /\ t.boards = s.boards
        /\ t.fds = s.fds /\ t.sent = s.sent /\ t.status # "running"
    BY <1>2 DEF Sess, Good, TypedState
  <2>2. Good(t)
    BY <1>2, OverrunGood DEF Sess
  <2> HIDE DEF t
  <2>3. SeatsOK(t) /\ BoardsIn(t, Board) /\ \A q \in Rooms : BoardFit(t, q)
    BY <2>1, SameSeats, RoomIsNotNull DEF Sess, BoardsIn, BoardFit
  <2>4. LastOK(t, {})
    BY <2>1, QuietLast DEF Sess
  <2> QED
    BY <2>2, <2>3, <2>4 DEF Sess
<1>3. ASSUME r \in Rooms, s.rooms[r].is_active, pl \in Players, NEW held,
             Good(held), Submits(s, held, r, pl, board),
             \/ t = SendOrRemove(held, i, ok)
             \/ /\ ~SendFails(held, SocketOf(held, i))
                /\ t = StartGame(SendOrRemove(held, i, ok), r)
      PROVE  Sess(t, NULL, {})
  <2> DEFINE told == SendOrRemove(held, i, ok)
  <2>1. Sess(held, NULL, {})
    <3> HIDE DEF r, pl
    <3> QED
      BY <1>3, SubmitSess
  <2>2. held.clients = s.clients /\ held.rooms[r].is_active
    BY <1>3 DEF Submits, Sess, Good, TypedState, Room
  <2>3. ok \in Message /\ ok.type \notin LastWords
    BY NoticeIsMessage DEF Notice, LastWords
  <2> HIDE DEF ok, t, r
  <2>4. /\ Sess(told, NULL, {})
        /\ ~SendFails(held, SocketOf(held, i)) => told.rooms = held.rooms
    BY <2>1, <2>2, <2>3, SendOrRemoveSess
  <2> HIDE DEF told
  <2>5. ~SendFails(held, SocketOf(held, i)) => Sess(StartGame(told, r), NULL, {})
    BY <1>3, <2>2, <2>4, StartGameSess
  <2> QED
    BY <1>3, <2>4, <2>5 DEF told
<1>4. \/ t = SendError(s, i)
      \/ t = [s EXCEPT !.status = "overrun"]
      \/ /\ r \in Rooms /\ s.rooms[r].is_active /\ pl \in Players
         /\ \E held : LET told == SendOrRemove(held, i, Notice("BOARD_OK"))
                      IN  /\ Good(held) /\ Submits(s, held, r, pl, board)
                          /\ \/ t = told
                             \/ /\ ~SendFails(held, SocketOf(held, i))
                                /\ t = StartGame(told, r)
  BY OnSubmitBoardCases DEF Sess
<1> HIDE DEF t, r, pl, board
<1>5. CASE /\ r \in Rooms /\ s.rooms[r].is_active /\ pl \in Players
           /\ \E held : LET told == SendOrRemove(held, i, Notice("BOARD_OK"))
                        IN  /\ Good(held) /\ Submits(s, held, r, pl, board)
                            /\ \/ t = told
                               \/ /\ ~SendFails(held, SocketOf(held, i))
                                  /\ t = StartGame(told, r)
  <2>1. PICK held : LET told == SendOrRemove(held, i, Notice("BOARD_OK"))
                    IN  /\ Good(held) /\ Submits(s, held, r, pl, board)
                        /\ \/ t = told
                           \/ /\ ~SendFails(held, SocketOf(held, i))
                              /\ t = StartGame(told, r)
    BY <1>5, Zenon
  <2> QED
    BY <1>3, <1>5, <2>1
<1> QED
  BY <1>1, <1>2, <1>4, <1>5, Zenon

(* A board that was shot at has a ship afloat.                             *)
HoldsOut(b) == Struck(b) # {} => Afloat(b) # {}

(* Only the board shot at may be decided, and that ends the game.          *)
LEMMA AfterShotSess ==
    ASSUME NEW s, NEW r \in Rooms, Sess(s, r, {}), s.rooms[r].is_active,
           s.rooms[r].is_game_started, NEW i \in Assigned(s, r),
           HoldsOut(s.boards[r][s.clients[i].assigned_player_id]),
           NEW c, InBounds(c[1], c[2]), NEW result \in ShotResult
    PROVE  Sess(AfterShot(s, i, r, c, result), NULL, {})
<1> DEFINE pl   == s.clients[i].assigned_player_id
           m    == Report("INCOMING_SHOT", c, result)
           told == SendSeat(s, r, 1 - pl, m)
           turn == IF result = "MISS" THEN 1 - pl ELSE pl
           on   == [told EXCEPT !.rooms[r].current_turn = turn]
           t    == AfterShot(s, i, r, c, result)
           sunk == AllShipsSunk(s.boards[r][1 - pl])
<1>1. m \in Message /\ m.type \notin LastWords
  BY ReportIsMessage DEF Report, LastWords
<1>2. /\ pl \in Players /\ 1 - pl \in Players /\ Players = {pl, 1 - pl}
      /\ s.rooms[r].connected_players[1 - pl] # NULL
  <2> DEFINE seats == s.rooms[r].connected_players
  <2>1. /\ seats[0] \in Slots /\ seats[1] \in Slots
        /\ s.clients[seats[0]].assigned_player_id = 0
        /\ s.clients[seats[1]].assigned_player_id = 1
        /\ i \in {seats[0], seats[1]}
        /\ seats[0] # NULL /\ seats[1] # NULL /\ Players = {0, 1}
    <3>1. Good(s) /\ SeatsOK(s)
      BY DEF Sess
    <3>2. /\ seats[0] \in Assigned(s, r) /\ seats[1] \in Assigned(s, r)
          /\ s.clients[seats[0]].assigned_player_id = 0
          /\ s.clients[seats[1]].assigned_player_id = 1
          /\ Assigned(s, r) = {seats[0], seats[1]}
      BY <3>1, PlayingSeats
    <3> HIDE DEF seats
    <3>3. seats[0] \in Slots /\ seats[1] \in Slots
      BY <3>2 DEF Assigned
    <3>4. seats[0] # NULL /\ seats[1] # NULL
      BY <3>3, SlotIsNotNull
    <3>5. Players = {0, 1}
      BY DEF Players, ROOM_SIZE
    <3> QED
      BY <3>2, <3>3, <3>4, <3>5
  <2> HIDE DEF seats
  <2>2. CASE i = seats[0]
    <3>1. pl = 0 /\ seats[1 - pl] # NULL
      BY <2>1, <2>2
    <3> QED
      BY <2>1, <3>1 DEF seats
  <2>3. CASE i = seats[1]
    <3>1. pl = 1 /\ seats[1 - pl] # NULL
      BY <2>1, <2>3
    <3> QED
      BY <2>1, <3>1 DEF seats
  <2>4. i = seats[0] \/ i = seats[1]
    BY <2>1
  <2> QED
    BY <2>2, <2>3, <2>4
<1>3. t = IF sunk THEN EndGame(told, r, i) ELSE SendTurnMessages(on, r, turn)
  BY <1>2 DEF AfterShot
<1>4. turn \in Players
  BY <1>2
<1> HIDE DEF m, turn, pl, t
<1>5. /\ Sess(told, r, {})
      /\ told.clients = s.clients /\ told.rooms = s.rooms /\ told.boards = s.boards
  BY <1>1, <1>2, SendSeatSess
<1> HIDE DEF told
<1>6. CASE sunk
  <2>1. i \in Assigned(told, r)
    BY <1>5 DEF Assigned
  <2> QED
    BY <1>3, <1>5, <1>6, <2>1, EndGameSess DEF t
<1>7. CASE ~sunk
  <2>1. told.rooms[r] \in Room
    BY <1>5 DEF Sess, Good, TypedState
  <2>2. on = [told EXCEPT !.rooms[r] = [told.rooms[r] EXCEPT
                              !.is_game_started = told.rooms[r].is_game_started,
                              !.current_turn = turn]]
    BY <1>5, <2>1 DEF Sess, Good, TypedState, Room
  <2>3. Good(on) /\ SetsGame(told, on, r, told.rooms[r].is_game_started, turn)
    <3>1. told.rooms[r].is_game_started \in BOOLEAN
      BY <2>1 DEF Room
    <3>2. RoomsCounted(told)
      BY <1>5 DEF Sess, Good
    <3>3. RoomCounted(told.rooms[r])
      BY <1>5, <3>2 DEF RoomsCounted
    <3>4. BothSeated(told, r)
      BY <1>5, <3>3 DEF RoomCounted, BothSeated
    <3> HIDE DEF on
    <3> QED
      BY <1>4, <1>5, <2>2, <3>1, <3>4, GameFlagGood, SetGameEffect DEF Sess
  <2> HIDE DEF on
  <2>4. /\ Sess(on, r, {})
        /\ on.rooms[r].is_active = told.rooms[r].is_active
        /\ on.rooms[r].is_game_started = told.rooms[r].is_game_started
    <3> DEFINE going == told.rooms[r].is_game_started
    <3>1. going \in BOOLEAN
      BY <2>1 DEF Room
    <3> HIDE DEF going
    <3>2. SetsGame(told, on, r, going, turn)
      BY <2>3 DEF going
    <3>3. /\ Sess(on, r, {})
          /\ on.rooms[r].is_active = told.rooms[r].is_active
          /\ on.rooms[r].is_game_started = going
      BY <1>5, <2>3, <3>1, <3>2, SetGameSess
    <3> QED
      BY <3>3 DEF going
  <2>5. BoardFit(on, r)
    <3>1. on.boards = s.boards
      BY <1>5, <2>3 DEF SetsGame
    <3>2. Afloat(s.boards[r][1 - pl]) # {}
      BY <1>7 DEF AllShipsSunk, Afloat
    <3>3. HoldsOut(s.boards[r][pl])
      BY DEF pl
    <3> QED
      BY <1>2, <1>5, <2>4, <3>1, <3>2, <3>3 DEF BoardFit, HoldsOut
  <2>6. Sess(SendTurnMessages(on, r, turn), NULL, {})
    <3>1. on.rooms[r].is_active
      BY <1>5, <2>4
    <3> QED
      BY <1>4, <2>4, <2>5, <3>1, SettledSess, SendTurnMessagesSess
  <2> QED
    BY <1>3, <1>7, <2>6 DEF t
<1> QED
  BY <1>6, <1>7

LEMMA OnShootSess ==
    ASSUME NEW s, Sess(s, NULL, {}), NEW i \in Slots, s.clients[i].is_connected,
           NEW c \in Int \X Int
    PROVE  Sess(OnShoot(s, i, c), NULL, {})
<1> DEFINE r      == RoomOf(s, i)
           pl     == s.clients[i].assigned_player_id
           target == s.boards[r][1 - pl]
           after  == BoardAfterShot(target, c[1], c[2])
           result == ShotAnswer(target, c[1], c[2])
           t      == OnShoot(s, i, c)
<1> SUFFICES Sess(t, NULL, {})
  OBVIOUS
<1>1. CASE t = SendError(s, i)
  BY <1>1, SendErrorSess
<1>2. ASSUME r \in Rooms, s.rooms[r].is_active, s.rooms[r].is_game_started,
             pl \in Players, result \in ShotResult, InBounds(c[1], c[2]),
             NEW shot, Good(shot),
             Strikes(s, shot, r, 1 - pl, after),
             IF SendFails(shot, SocketOf(shot, i))
             THEN t = SendOrRemove(shot, i, Report("SHOT_RESULT", c, result))
             ELSE t = AfterShot(SendOrRemove(shot, i, Report("SHOT_RESULT", c, result)),
                                i, r, c, result)
      PROVE  Sess(t, NULL, {})
  <2> DEFINE m == Report("SHOT_RESULT", c, result)
             told == SendOrRemove(shot, i, m)
  <2>1. m \in Message /\ m.type \notin LastWords
    BY <1>2, ReportIsMessage DEF Report, LastWords
  <2>2. 1 - pl \in Players /\ pl # 1 - pl
    <3>1. pl \in Players
      BY <1>2
    <3> HIDE DEF pl
    <3> QED
      BY <3>1 DEF Players, ROOM_SIZE
  <2>3. s.boards \in [Rooms -> [Players -> Board]]
    BY DEF Sess, BoardsIn
  <2>4. after \in Board
    BY <1>2, <2>2, <2>3, ShotBoard
  <2>5. i \in Assigned(s, r)
    <3>1. RoomOf(s, i) # NULL
      BY <1>2, RoomIsNotNull
    <3> QED
      BY <3>1, RoomOfAssigned DEF Sess, Assigned
  <2> HIDE DEF r, t, m, result, after
  <2>6. /\ shot.clients = s.clients /\ shot.rooms = s.rooms
        /\ shot.fds = s.fds /\ shot.sent = s.sent /\ shot.status = s.status
        /\ shot.boards = [s.boards EXCEPT ![r][1 - pl] = after]
    BY <1>2 DEF Strikes
  <2>7. Sess(shot, r, {})
    <3>1. SeatsOK(shot)
      BY <2>6, SameSeats DEF Sess
    <3>2. BoardsIn(shot, Board)
      BY <1>2, <2>2, <2>3, <2>4, <2>6 DEF BoardsIn
    <3>3. \A q \in Rooms : q # r => shot.boards[q] = s.boards[q]
      BY <2>3, <2>6
    <3>4. \A q \in Rooms : q # r => BoardFit(shot, q)
      BY <2>6, <3>3, RoomIsNotNull DEF Sess, BoardFit
    <3>5. LastOK(shot, {})
      BY <2>6, QuietLast DEF Sess
    <3> QED
      BY <1>2, <3>1, <3>2, <3>4, <3>5 DEF Sess
  <2>8. HoldsOut(shot.boards[r][pl])
    <3>1. shot.boards[r][pl] = s.boards[r][pl]
      BY <1>2, <2>2, <2>3, <2>6
    <3>2. BoardFit(s, r)
      BY <1>2, RoomIsNotNull DEF Sess
    <3> QED
      BY <1>2, <3>1, <3>2 DEF BoardFit, HoldsOut
  <2>9. /\ Sess(told, r, {})
        /\ SendFails(shot, SocketOf(shot, i)) =>
              \A q \in Rooms : shot.rooms[q].is_game_started /\ RoomOf(shot, i) = q
                 => ~told.rooms[q].is_active
        /\ ~SendFails(shot, SocketOf(shot, i)) =>
              told.clients = shot.clients /\ told.rooms = shot.rooms /\ told.boards = shot.boards
    BY <2>1, <2>6, <2>7, SendOrRemoveSess
  <2>10. RoomOf(shot, i) = r
    <3>1. RoomOf(shot, i) = RoomOf(s, i)
      BY <2>6 DEF RoomOf, FindRoom
    <3> QED
      BY <3>1 DEF r
  <2> HIDE DEF told
  <2>11. CASE SendFails(shot, SocketOf(shot, i))
    <3>1. t = told
      BY <1>2, <2>11 DEF told, m
    <3>2. ~told.rooms[r].is_active
      BY <1>2, <2>6, <2>9, <2>10, <2>11
    <3> QED
      BY <1>2, <2>9, <3>1, <3>2, SettledSess DEF BoardFit
  <2>12. CASE ~SendFails(shot, SocketOf(shot, i))
    <3>1. t = AfterShot(told, i, r, c, result)
      BY <1>2, <2>12 DEF told, m
    <3>2. told.clients = s.clients /\ told.rooms = s.rooms /\ told.boards = shot.boards
      BY <2>6, <2>9, <2>12
    <3>3. i \in Assigned(told, r) /\ HoldsOut(told.boards[r][told.clients[i].assigned_player_id])
      BY <2>5, <2>8, <3>2 DEF Assigned
    <3> QED
      BY <1>2, <2>9, <3>1, <3>2, <3>3, AfterShotSess
  <2> QED
    BY <2>11, <2>12
<1> HIDE DEF t
<1>3. \/ t = SendError(s, i)
      \/ /\ MayShoot(s, i, c)
         /\ r \in Rooms /\ s.rooms[r].is_active /\ s.rooms[r].is_game_started
         /\ pl \in Players /\ s.rooms[r].current_turn = pl
         /\ BothSeated(s, r)
         /\ result \in ShotResult /\ InBounds(c[1], c[2])
         /\ \E shot :
               LET told == SendOrRemove(shot, i, Report("SHOT_RESULT", c, result))
               IN  /\ Good(shot) /\ Evolves(s, shot)
                   /\ Strikes(s, shot, r, 1 - pl, after)
                   /\ IF SendFails(shot, SocketOf(shot, i)) THEN t = told
                      ELSE t = AfterShot(told, i, r, c, result)
  BY OnShootCases DEF t, Sess
<1> HIDE DEF r, pl, after, result
<1>4. CASE t # SendError(s, i)
  <2>1. PICK shot :
           LET told == SendOrRemove(shot, i, Report("SHOT_RESULT", c, result))
           IN  /\ Good(shot) /\ Evolves(s, shot)
               /\ Strikes(s, shot, r, 1 - pl, after)
               /\ IF SendFails(shot, SocketOf(shot, i)) THEN t = told
                  ELSE t = AfterShot(told, i, r, c, result)
    BY <1>3, <1>4, Zenon
  <2> QED
    BY <1>2, <1>3, <1>4, <2>1
<1> QED
  BY <1>1, <1>4


-----------------------------------------------------------------------------
(* One message handled: the state s it is handled in, the state t that the *)
(* handler makes, the clients A it assigns to a room.                      *)
Asking == {"CREATE_ROOM", "JOIN_ROOM"}

AsksForRoom(i) == Inbox(i) # << >> /\ Head(Inbox(i)).type \in Asking

Outcome(i, s, t, A) ==
    /\ \/ s = srv /\ A = {}
       \/ Reads(s, i) /\ (A = {} \/ (A = {i} /\ AsksForRoom(i)))
    /\ Good(t) /\ Evolves(s, t) /\ Serves(s, t, A)
    /\ Sess(t, NULL, {})
    /\ Commit(t)

LEMMA ReadsSess ==
    ASSUME Sess(srv, NULL, {}), NEW s, NEW i, Reads(s, i)
    PROVE  Sess(s, NULL, {})
<1>1. /\ Good(s) /\ s.clients = srv.clients /\ s.rooms = srv.rooms
      /\ s.boards = srv.boards /\ s.fds = srv.fds /\ s.sent = srv.sent
      /\ s.status = srv.status
  BY DEF Reads
<1>2. SeatsOK(s) /\ LastOK(s, {})
  BY <1>1, SameSeats, QuietLast DEF Sess
<1>3. BoardsIn(s, Board) /\ \A r \in Rooms : BoardFit(s, r)
  BY <1>1, RoomIsNotNull DEF Sess, BoardsIn, BoardFit
<1> QED
  BY <1>1, <1>2, <1>3 DEF Sess

LEMMA HandleOutcome ==
    ASSUME IInv, Sess(srv, NULL, {}), NEW i \in Slots, Handle(i),
           AsksForRoom(i) => srv.clients[i].assigned_room_id = -1
    PROVE  \E s, t, A : Outcome(i, s, t, A)
<1> DEFINE s == Taken(i)
<1>1. Due(i) /\ srv.clients[i].is_connected
  BY DEF Handle, HandleEof, HandleCreateRoom, HandleCreateRoomFull, HandleJoinRoom,
     HandleSubmitBoard, HandleShoot, HandleDisconnect, HandleOther, Receives, Due, Awaiting
<1>2. CASE HandleEof(i)
  <2> DEFINE t == RemoveClient(srv, i)
  <2>1. Good(t) /\ Evolves(srv, t) /\ Follows(srv, t) /\ Sess(t, NULL, {})
    BY <1>1, RemoveClientEffect, RemoveClientSess DEF IInv
  <2>2. Commit(t)
    BY <1>2 DEF HandleEof
  <2> HIDE DEF t
  <2>3. Outcome(i, srv, t, {})
    BY <2>1, <2>2, FollowsKeeps DEF Outcome
  <2> QED
    BY <2>3
<1>3. ASSUME Inbox(i) # << >>
      PROVE  /\ Reads(s, i) /\ Sess(s, NULL, {}) /\ Good(s)
             /\ s.clients[i].is_connected /\ s.clients = srv.clients /\ s.rooms = srv.rooms
             /\ Head(Inbox(i)) \in Requests
  <2>1. Reads(s, i)
    BY <1>1, <1>3, TakenEffect
  <2>2. Sess(s, NULL, {})
    BY <2>1, ReadsSess
  <2> HIDE DEF s
  <2> QED
    BY <1>1, <2>1, <2>2 DEF Reads, Sess
<1> HIDE DEF s
<1>4. CASE HandleCreateRoom(i)
  <2>1. Inbox(i) # << >> /\ AsksForRoom(i)
    BY <1>4 DEF HandleCreateRoom, Receives, AsksForRoom, Asking
  <2>2. PICK r \in Rooms : ~srv.rooms[r].is_active /\ Commit(OnCreateRoom(s, i, r))
    BY <1>4 DEF HandleCreateRoom, s
  <2> DEFINE t == OnCreateRoom(s, i, r)
  <2>3. Good(t) /\ Evolves(s, t) /\ Serves(s, t, {i}) /\ Sess(t, NULL, {})
    BY <1>3, <2>1, <2>2, OnCreateRoomGood, OnCreateRoomBoards, OnCreateRoomSess
  <2> HIDE DEF t
  <2>4. Outcome(i, s, t, {i})
    BY <1>3, <2>1, <2>2, <2>3 DEF Outcome, t
  <2> QED
    BY <2>4
<1>5. ASSUME NEW t, Inbox(i) # << >>, t = SendError(s, i), Commit(t)
      PROVE  Outcome(i, s, t, {})
  <2>1. Good(t) /\ Evolves(s, t) /\ Follows(s, t)
    BY <1>3, <1>5, SendEffect, SendFollows, NoticeIsMessage DEF SendError
  <2>2. Sess(t, NULL, {})
    BY <1>3, <1>5, SendErrorSess
  <2> QED
    BY <1>3, <1>5, <2>1, <2>2, FollowsKeeps DEF Outcome
<1>6. CASE HandleCreateRoomFull(i)
  <2>1. Inbox(i) # << >> /\ Commit(SendError(s, i))
    BY <1>6 DEF HandleCreateRoomFull, Receives, s
  <2> QED
    BY <1>5, <2>1
<1>7. CASE HandleJoinRoom(i)
  <2> DEFINE t == OnJoinRoom(s, i, Head(Inbox(i)).room_id)
  <2>1. Inbox(i) # << >> /\ AsksForRoom(i) /\ Commit(t)
    BY <1>7 DEF HandleJoinRoom, Receives, AsksForRoom, Asking, s
  <2>2. Good(t) /\ Evolves(s, t) /\ Serves(s, t, {i}) /\ Sess(t, NULL, {})
    BY <1>3, <2>1, OnJoinRoomGood, OnJoinRoomBoards, OnJoinRoomSess
  <2> HIDE DEF t
  <2>3. Outcome(i, s, t, {i})
    BY <1>3, <2>1, <2>2 DEF Outcome
  <2> QED
    BY <2>3
<1>8. CASE HandleSubmitBoard(i)
  <2> DEFINE m == Head(Inbox(i))
             t == OnSubmitBoard(s, i, m.ships)
  <2>1. Inbox(i) # << >> /\ Commit(t) /\ m.type = "SUBMIT_BOARD"
    BY <1>8 DEF HandleSubmitBoard, Receives, s
  <2>2. m \in Submissions
    BY <1>3, <2>1 DEF Submissions
  <2> HIDE DEF m
  <2>3. Good(t) /\ Evolves(s, t) /\ Serves(s, t, {}) /\ Sess(t, NULL, {})
    BY <1>3, <2>1, <2>2, OnSubmitBoardGood, OnSubmitBoardBoards, OnSubmitBoardSess
  <2> HIDE DEF t
  <2>4. Outcome(i, s, t, {})
    BY <1>3, <2>1, <2>3 DEF Outcome
  <2> QED
    BY <2>4
<1>9. CASE HandleShoot(i)
  <2> DEFINE c == Head(Inbox(i)).target
             t == OnShoot(s, i, c)
  <2>1. Inbox(i) # << >> /\ Commit(t) /\ Head(Inbox(i)).type = "SHOOT"
    BY <1>9 DEF HandleShoot, Receives, s
  <2>2. c \in Int \X Int
    BY <1>3, <2>1, ServerAssumption DEF Request
  <2> HIDE DEF c
  <2>3. Good(t) /\ Evolves(s, t) /\ Serves(s, t, {}) /\ Sess(t, NULL, {})
    BY <1>3, <2>1, <2>2, OnShootGood, OnShootBoards, OnShootSess
  <2> HIDE DEF t
  <2>4. Outcome(i, s, t, {})
    BY <1>3, <2>1, <2>3 DEF Outcome
  <2> QED
    BY <2>4
<1>10. CASE HandleDisconnect(i)
  <2> DEFINE t == RemoveClient(s, i)
  <2>1. Inbox(i) # << >> /\ Commit(t)
    BY <1>10 DEF HandleDisconnect, Receives, s
  <2>2. Good(t) /\ Evolves(s, t) /\ Follows(s, t) /\ Sess(t, NULL, {})
    BY <1>3, <2>1, RemoveClientEffect, RemoveClientSess
  <2> HIDE DEF t
  <2>3. Outcome(i, s, t, {})
    BY <1>3, <2>1, <2>2, FollowsKeeps DEF Outcome
  <2> QED
    BY <2>3
<1>11. CASE HandleOther(i)
  <2>1. Inbox(i) # << >> /\ Commit(s)
    BY <1>11 DEF HandleOther, Receives, s
  <2>2. Outcome(i, s, s, {})
    BY <1>3, <2>1, EvolvesRefl, FollowsRefl, FollowsKeeps DEF Outcome
  <2> QED
    BY <2>2
<1> QED
  BY <1>2, <1>4, <1>6, <1>7, <1>8, <1>9, <1>10, <1>11 DEF Handle


LEMMA OutcomeSess ==
    ASSUME IInv, IInv', Sess(srv, NULL, {}), NEW i, NEW s, NEW t, NEW A, Outcome(i, s, t, A)
    PROVE  Sess(srv', NULL, {})
<1>1. Commit(t) /\ Sess(t, NULL, {})
  BY DEF Outcome
<1>2. CASE srv' = t
  BY <1>1, <1>2
<1>3. CASE /\ t.status # "running"
           /\ srv'.clients = srv.clients /\ srv'.rooms = srv.rooms
           /\ srv'.boards = srv.boards /\ srv'.fds = srv.fds
           /\ srv'.link = srv.link /\ srv'.inq = srv.inq
           /\ srv'.sent = t.sent /\ srv'.status = t.status
  <2>1. Good(srv')
    BY DEF IInv
  <2>2. SeatsOK(srv')
    BY <1>3, SameSeats DEF Sess
  <2>3. BoardsIn(srv', Board) /\ \A r \in Rooms : BoardFit(srv', r)
    <3>1. BoardsIn(srv, Board) /\ \A r \in Rooms : BoardFit(srv, r)
      BY RoomIsNotNull DEF Sess
    <3>2. srv'.rooms = srv.rooms /\ srv'.boards = srv.boards
      BY <1>3
    <3> QED
      BY <3>1, <3>2 DEF BoardsIn, BoardFit
  <2>4. LastOK(srv', {})
    <3>1. LastOK(t, {})
      BY <1>1 DEF Sess
    <3> QED
      BY <1>3, <3>1 DEF LastOK
  <2> QED
    BY <2>1, <2>2, <2>3, <2>4 DEF Sess
<1> QED
  BY <1>1, <1>2, <1>3, CommitEffect

(* What the step makes of the clients, of the requests that wait and of    *)
(* the messages sent.                                                      *)
Answers(i) ==
    /\ \A j \in Slots : srv'.clients[j].is_connected =>
          /\ srv.clients[j].is_connected /\ PeerOf(srv', j) = PeerOf(srv, j)
          /\ \/ srv'.clients[j].assigned_room_id = srv.clients[j].assigned_room_id
             \/ /\ j = i /\ AsksForRoom(i)
                /\ srv'.inq[PeerOf(srv, i)] \in {Tail(srv.inq[PeerOf(srv, i)]), << >>}
    /\ \A p \in Peers :
          \/ srv'.inq[p] \in {srv.inq[p], << >>}
          \/ srv.inq[p] # << >> /\ srv'.inq[p] = Tail(srv.inq[p])
    /\ \A p \in Peers : srv'.sent[p] # srv.sent[p] => \E fd \in Fds : srv.fds[fd] = p
    /\ \A p \in Peers : /\ srv'.link[p] = "idle" => srv.link[p] = "idle"
                        /\ srv'.link[p] = "open" => srv.link[p] = "open"

LEMMA OutcomeAnswers ==
    ASSUME IInv, IInv', NEW i \in Slots, NEW s, NEW t, NEW A, Outcome(i, s, t, A)
    PROVE  Answers(i)
<1>1. /\ s.clients = srv.clients /\ s.fds = srv.fds /\ s.link = srv.link
      /\ s.sent = srv.sent
      /\ \A p \in Peers :
            \/ s.inq[p] = srv.inq[p]
            \/ srv.inq[p] # << >> /\ s.inq[p] = Tail(srv.inq[p])
      /\ \/ A = {}
         \/ /\ A = {i} /\ AsksForRoom(i) /\ PeerOf(srv, i) \in Peers
            /\ s.inq[PeerOf(srv, i)] = Tail(srv.inq[PeerOf(srv, i)])
  BY DEF Outcome, Reads
<1>2. Good(t) /\ Evolves(s, t) /\ Serves(s, t, A) /\ Commit(t)
  BY DEF Outcome
<1>3. CASE srv' = t
  <2>1. ASSUME NEW j \in Slots, t.clients[j].is_connected
        PROVE  /\ srv.clients[j].is_connected /\ PeerOf(t, j) = PeerOf(srv, j)
               /\ \/ t.clients[j].assigned_room_id = srv.clients[j].assigned_room_id
                  \/ /\ j = i /\ AsksForRoom(i)
                     /\ t.inq[PeerOf(srv, i)] \in {Tail(srv.inq[PeerOf(srv, i)]), << >>}
    <3>1. s.clients[j].is_connected /\ SocketOf(t, j) = SocketOf(s, j)
      BY <1>2, <2>1 DEF Evolves
    <3>2. IsOpen(t, SocketOf(t, j))
      BY <1>2, <2>1, PeersDiffer
    <3>3. PeerOf(t, j) = PeerOf(srv, j)
      <4>1. s.fds = srv.fds /\ SocketOf(srv, j) = SocketOf(s, j)
        BY <1>1 DEF SocketOf
      <4>2. t.fds[SocketOf(t, j)] = s.fds[SocketOf(t, j)]
        BY <1>2, <3>2 DEF Evolves, IsOpen
      <4> QED
        BY <3>1, <4>1, <4>2 DEF PeerOf
    <3>4. j \notin A => t.clients[j].assigned_room_id = srv.clients[j].assigned_room_id
      BY <1>1, <1>2, <2>1 DEF Serves
    <3>5. A # {} => t.inq[PeerOf(srv, i)] \in {Tail(srv.inq[PeerOf(srv, i)]), << >>}
      BY <1>1, <1>2 DEF Serves
    <3> QED
      BY <1>1, <3>1, <3>3, <3>4, <3>5
  <2>2. \A p \in Peers :
           \/ t.inq[p] \in {srv.inq[p], << >>}
           \/ srv.inq[p] # << >> /\ t.inq[p] = Tail(srv.inq[p])
    BY <1>1, <1>2 DEF Serves
  <2>3. \A p \in Peers : t.sent[p] # srv.sent[p] => \E fd \in Fds : srv.fds[fd] = p
    BY <1>1, <1>2 DEF Serves, Reaches
  <2>4. \A p \in Peers : /\ t.link[p] = "idle" => srv.link[p] = "idle"
                         /\ t.link[p] = "open" => srv.link[p] = "open"
    BY <1>1, <1>2 DEF Evolves
  <2> QED
    BY <1>3, <2>1, <2>2, <2>3, <2>4 DEF Answers
<1>4. CASE /\ t.status # "running"
           /\ srv'.clients = srv.clients /\ srv'.rooms = srv.rooms
           /\ srv'.boards = srv.boards /\ srv'.fds = srv.fds
           /\ srv'.link = srv.link /\ srv'.inq = srv.inq
           /\ srv'.sent = t.sent /\ srv'.status = t.status
  <2>1. \A j \in Slots : PeerOf(srv', j) = PeerOf(srv, j)
    BY <1>4 DEF PeerOf, SocketOf
  <2>2. \A p \in Peers : srv'.sent[p] # srv.sent[p] => \E fd \in Fds : srv.fds[fd] = p
    BY <1>1, <1>2, <1>4 DEF Serves, Reaches
  <2> QED
    BY <1>4, <2>1, <2>2 DEF Answers
<1> QED
  BY <1>2, <1>3, <1>4, CommitEffect
=============================================================================
