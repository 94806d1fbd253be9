---------------------------- MODULE ServerProofs ----------------------------
(***************************************************************************)
(* Proofs about Server.tla for every number of slots, rooms, descriptors   *)
(* and peers, every set of requests and every board.                       *)
(*                                                                         *)
(* Every operator that models a C function takes a well-formed state to a  *)
(* well-formed state (Good) and only ever drops clients, closes            *)
(* descriptors and hangs connections up (Evolves).  These lemmas follow    *)
(* the calls of the program from send() up to the message handlers; the    *)
(* theorems at the end are about the actions.                              *)
(***************************************************************************)
EXTENDS Server, GameProofs

(* No peer is behind two descriptors, and none before it has connected.    *)
PeersDistinct(s) ==
    /\ \A fd1, fd2 \in Fds :
          fd1 # fd2 /\ s.fds[fd1] # NULL => s.fds[fd1] # s.fds[fd2]
    /\ \A fd \in Fds : s.fds[fd] # NULL => s.link[s.fds[fd]] # "idle"

RoomsCounted(s) ==
    \A r \in Rooms : s.rooms[r].is_active => RoomCounted(s.rooms[r])

Good(s) ==
    /\ TypedState(s)
    /\ SlotsOwnDescriptors(s)
    /\ PeersDistinct(s)
    /\ RoomsCounted(s)

(* What no call of a handler does: connect a slot, change its descriptor,  *)
(* open a descriptor or a connection, take away the data or the end of     *)
(* stream that waits on an open one, or dereference NULL.                  *)
Evolves(s, t) ==
    /\ \A i \in Slots : t.clients[i].is_connected =>
          /\ s.clients[i].is_connected
          /\ SocketOf(t, i) = SocketOf(s, i)
    /\ \A fd \in Fds : t.fds[fd] # NULL => t.fds[fd] = s.fds[fd]
    /\ \A fd \in Fds : t.fds[fd] # NULL =>
          (Readable(s, s.fds[fd]) => Readable(t, s.fds[fd]))
    /\ \A p \in Peers : /\ s.link[p] # "idle" <=> t.link[p] # "idle"
                        /\ t.link[p] = "open" => s.link[p] = "open"
    /\ t.status = "segfault" => s.status = "segfault"

-----------------------------------------------------------------------------
(* Evolves is reflexive and transitive.                                    *)
LEMMA EvolvesRefl == ASSUME NEW s PROVE Evolves(s, s)
BY DEF Evolves

LEMMA EvolvesTrans ==
    ASSUME NEW s, NEW t, NEW u, Evolves(s, t), Evolves(t, u)
    PROVE  Evolves(s, u)
BY DEF Evolves

-----------------------------------------------------------------------------
(* The messages of server.c are messages of protocol.h.                    *)
LEMMA NoticeIsMessage ==
    \A type \in {"OPPONENT_JOINED", "GAME_START", "BOARD_OK", "YOUR_TURN",
                 "WAIT_TURN", "OPPONENT_LEFT", "ERROR"} : Notice(type) \in Message
BY DEF Notice, Message

LEMMA ReportIsMessage ==
    ASSUME NEW type \in {"SHOT_RESULT", "INCOMING_SHOT"}, NEW c,
           InBounds(c[1], c[2]), NEW result \in ShotResult
    PROVE  Report(type, c, result) \in Message
<1>1. <<c[1], c[2]>> \in Int \X Int
  BY GameAssumption DEF InBounds, Coord, Axis
<1> QED
  BY <1>1 DEF Report, Message

LEMMA SeatIsMessage ==
    ASSUME NEW s, Good(s), NEW i \in Slots
    PROVE  /\ \A type \in {"ROOM_CREATED", "JOIN_OK"} : Seated(type, s, i) \in Message
           /\ GameOver(s.clients[i].assigned_player_id) \in Message
<1>1. s.clients[i] \in Client
  BY DEF Good, TypedState
<1>2. Players \cup {-1} \subseteq Int
  BY DEF Players, ROOM_SIZE
<1>3. s.clients[i].assigned_player_id \in Int
  BY <1>1, <1>2 DEF Client
<1> QED
  BY <1>3 DEF Seated, GameOver, Message

-----------------------------------------------------------------------------
(* send() touches neither the clients nor the rooms nor the descriptors.   *)
LEMMA SendGood ==
    ASSUME NEW s, Good(s), NEW fd, NEW m \in Message
    PROVE  LET t == Send(s, fd, m)
           IN  /\ Good(t) /\ Evolves(s, t)
               /\ t.clients = s.clients /\ t.rooms = s.rooms
               /\ t.boards = s.boards /\ t.fds = s.fds
<1> DEFINE t == Send(s, fd, m)
<1>1. CASE ~IsOpen(s, fd) \/ s.status # "running"
  BY <1>1, EvolvesRefl DEF Send
<1>2. CASE IsOpen(s, fd) /\ s.status = "running"
  <2> DEFINE p == s.fds[fd]
  <2>1. p \in Peers /\ s.link[p] \in LinkState /\ s.link[p] # "idle"
    BY <1>2 DEF Good, TypedState, IsOpen, PeersDistinct
  <2>2. CASE s.link[p] = "broken"
    <3>1. t = [s EXCEPT !.status = "sigpipe"]
      BY <1>2, <2>2 DEF Send
    <3>2. /\ t.clients = s.clients /\ t.rooms = s.rooms /\ t.boards = s.boards
          /\ t.fds = s.fds /\ t.link = s.link /\ t.inq = s.inq
          /\ t.sent = s.sent /\ t.status = "sigpipe"
          /\ t = [clients |-> t.clients, rooms |-> t.rooms, boards |-> t.boards,
                  fds |-> t.fds, link |-> t.link, inq |-> t.inq, sent |-> t.sent,
                  status |-> t.status]
      BY <3>1 DEF Good, TypedState
    <3>3. Good(t)
      BY <3>2 DEF Good, TypedState, SlotsOwnDescriptors, PeersDistinct,
                  RoomsCounted, SocketOf, IsOpen
    <3>4. Evolves(s, t)
      BY <3>2 DEF Evolves, SocketOf, Readable
    <3> QED
      BY <3>2, <3>3, <3>4
  <2>3. CASE s.link[p] # "broken"
    <3> DEFINE sent == [s.sent EXCEPT ![p] = IF m.type \in Observed /\ s.link[p] # "reset"
                                             THEN Append(@, m) ELSE @]
               link == [s.link EXCEPT ![p] = AfterSend(@)]
    <3>1. t = [s EXCEPT !.link = link, !.sent = sent]
      BY <1>2, <2>3 DEF Send, Good, TypedState
    <3>2. /\ t.clients = s.clients /\ t.rooms = s.rooms /\ t.boards = s.boards
          /\ t.fds = s.fds /\ t.link = link /\ t.inq = s.inq
          /\ t.sent = sent /\ t.status = s.status
          /\ t = [clients |-> t.clients, rooms |-> t.rooms, boards |-> t.boards,
                  fds |-> t.fds, link |-> t.link, inq |-> t.inq, sent |-> t.sent,
                  status |-> t.status]
      BY <3>1 DEF Good, TypedState
    <3>3. /\ AfterSend(s.link[p]) \in LinkState
          /\ AfterSend(s.link[p]) # "idle"
          /\ AfterSend(s.link[p]) = "open" => s.link[p] = "open"
          /\ s.link[p] \in HungUp => AfterSend(s.link[p]) \in HungUp
      BY <2>1 DEF AfterSend, LinkState, HungUp
    <3>4. link \in [Peers -> LinkState] /\ sent \in [Peers -> Seq(Message)]
      BY <2>1, <3>3 DEF Good, TypedState
    <3>5. \A q \in Peers : /\ link[q] # "idle" <=> s.link[q] # "idle"
                           /\ link[q] = "open" => s.link[q] = "open"
                           /\ s.link[q] \in HungUp => link[q] \in HungUp
      BY <2>1, <3>3 DEF Good, TypedState
    <3>6. Good(t)
      <4>1. TypedState(t)
        BY <3>2, <3>4 DEF Good, TypedState
      <4>2. SlotsOwnDescriptors(t) /\ RoomsCounted(t)
        BY <3>2 DEF Good, SlotsOwnDescriptors, RoomsCounted, SocketOf, IsOpen
      <4>3. PeersDistinct(t)
        BY <3>2, <3>5 DEF Good, PeersDistinct, TypedState
      <4> QED
        BY <4>1, <4>2, <4>3 DEF Good
    <3>7. Evolves(s, t)
      BY <3>2, <3>5 DEF Evolves, SocketOf, Readable, Good, TypedState
    <3> QED
      BY <3>2, <3>6, <3>7
  <2> QED
    BY <2>2, <2>3
<1> QED
  BY <1>1, <1>2

-----------------------------------------------------------------------------
(* find_room returns an active room with the id looked for.                *)
LEMMA FindRoomIn ==
    ASSUME NEW s, NEW id, FindRoom(s, id) # NULL
    PROVE  /\ FindRoom(s, id) \in Rooms
           /\ s.rooms[FindRoom(s, id)].is_active
           /\ s.rooms[FindRoom(s, id)].room_id = id
BY DEF FindRoom

LEMMA RoomIsNotNull == \A r \in Rooms : r # NULL
BY ServerAssumption

LEMMA SlotIsNotNull == \A i \in Slots : i # NULL
BY ServerAssumption

(* A state that differs from a good one in a counted room only is good.    *)
LEMMA RoomUpdateGood ==
    ASSUME NEW s, Good(s), NEW r \in Rooms, NEW room \in Room,
           room.is_active => RoomCounted(room)
    PROVE  LET t == [s EXCEPT !.rooms[r] = room]
           IN  /\ Good(t) /\ Evolves(s, t)
               /\ t.clients = s.clients /\ t.fds = s.fds /\ t.link = s.link
               /\ t.boards = s.boards /\ t.inq = s.inq /\ t.status = s.status
               /\ t.rooms = [s.rooms EXCEPT ![r] = room]
<1> DEFINE t == [s EXCEPT !.rooms[r] = room]
<1>0. t = [s EXCEPT !.rooms = [s.rooms EXCEPT ![r] = room]]
  BY DEF Good, TypedState
<1>1. /\ t.clients = s.clients /\ t.boards = s.boards /\ t.fds = s.fds
      /\ t.link = s.link /\ t.inq = s.inq /\ t.sent = s.sent
      /\ t.status = s.status /\ t.rooms = [s.rooms EXCEPT ![r] = room]
      /\ t = [clients |-> t.clients, rooms |-> t.rooms, boards |-> t.boards,
              fds |-> t.fds, link |-> t.link, inq |-> t.inq, sent |-> t.sent,
              status |-> t.status]
  <2> HIDE DEF t
  <2> QED
    BY <1>0 DEF Good, TypedState
<1>2. t.rooms \in [Rooms -> Room]
  BY <1>1 DEF Good, TypedState
<1>3. TypedState(t)
  BY <1>1, <1>2 DEF Good, TypedState
<1>4. SlotsOwnDescriptors(t) /\ PeersDistinct(t)
  BY <1>1 DEF Good, SlotsOwnDescriptors, PeersDistinct, SocketOf, IsOpen
<1>5. RoomsCounted(t)
  <2> SUFFICES ASSUME NEW q \in Rooms, t.rooms[q].is_active
               PROVE  RoomCounted(t.rooms[q])
    BY DEF RoomsCounted
  <2>1. CASE q = r
    BY <1>1, <2>1 DEF Good, TypedState
  <2>2. CASE q # r
    BY <1>1, <2>2 DEF Good, TypedState, RoomsCounted
  <2> QED
    BY <2>1, <2>2
<1>6. Good(t)
  BY <1>3, <1>4, <1>5 DEF Good
<1>7. Evolves(s, t)
  BY <1>1 DEF Evolves, SocketOf, Readable
<1> QED
  BY <1>1, <1>6, <1>7

(* Giving up a seat lowers the count by one and empties the seat.          *)
LEMMA LeaveRoomGood ==
    ASSUME NEW s, Good(s), NEW i \in Slots, NEW r \in Rooms,
           s.rooms[r].is_active, ~s.rooms[r].is_game_started
    PROVE  LET t == LeaveRoom(s, i, r)
           IN  /\ Good(t) /\ Evolves(s, t)
               /\ t.clients = s.clients /\ t.fds = s.fds /\ t.link = s.link
               /\ t.inq = s.inq /\ t.status = s.status
<1> DEFINE room == s.rooms[r]
           held == {pl \in Players : room.connected_players[pl] = i}
           seat == Min(held)
           freed == [room EXCEPT !.connected_players[seat] = NULL,
                                 !.current_player_count = @ - 1]
           left == IF held = {} THEN room ELSE freed
           final == IF left.current_player_count = 0
                    THEN [left EXCEPT !.is_active = FALSE] ELSE left
<1>1. room \in Room /\ RoomCounted(room) /\ ~room.is_game_started
  BY DEF Good, TypedState, RoomsCounted
<1>2. left \in Room /\ (left.current_player_count # 0 => RoomCounted(left))
  <2>1. CASE held = {}
    BY <1>1, <2>1
  <2>2. CASE held # {}
    <3>1. held \in SUBSET Nat
      BY DEF Players, ROOM_SIZE
    <3>2. seat \in Players /\ room.connected_players[seat] = i
      BY <2>2, <3>1, MinIn
    <3>3. room.current_player_count \in {1, 2}
      <4>1. room.current_player_count \in 0 .. 2
        BY <1>1 DEF Room, ROOM_SIZE
      <4>2. room.current_player_count >= 1
        <5> HIDE DEF seat, room
        <5> QED
          BY <1>1, <3>2, SlotIsNotNull DEF RoomCounted
      <4> QED
        BY <4>1, <4>2
    <3> HIDE DEF seat, held, room
    <3>4. freed \in Room
      <4> DEFINE seats == [room.connected_players EXCEPT ![seat] = NULL]
                 count == room.current_player_count - 1
      <4>1. freed = [room EXCEPT !.connected_players = seats,
                                 !.current_player_count = count]
        BY <1>1 DEF Room
      <4>2. seats \in [Players -> Slots \cup {NULL}]
        BY <1>1 DEF Room
      <4>3. count \in 0 .. ROOM_SIZE
        BY <3>3 DEF ROOM_SIZE
      <4> HIDE DEF seats, count
      <4> QED
        BY <1>1, <4>1, <4>2, <4>3 DEF Room
    <3>5. /\ freed.current_player_count = room.current_player_count - 1
          /\ freed.connected_players = [room.connected_players EXCEPT ![seat] = NULL]
          /\ ~freed.is_game_started
      BY <1>1 DEF Room
    <3>6. freed.connected_players[seat] = NULL
      BY <1>1, <3>2, <3>5 DEF Room
    <3>7. freed.current_player_count # 0 => RoomCounted(freed)
      BY <3>2, <3>3, <3>5, <3>6 DEF RoomCounted, Players, ROOM_SIZE
    <3> QED
      BY <2>2, <3>4, <3>7
  <2> QED
    BY <2>1, <2>2
<1>3. final \in Room /\ (final.is_active => RoomCounted(final))
  <2> HIDE DEF left
  <2> QED
    BY <1>2 DEF Room
<1>4. LeaveRoom(s, i, r) = [s EXCEPT !.rooms[r] = final]
  BY DEF LeaveRoom
<1> HIDE DEF final
<1> QED
  BY <1>3, <1>4, RoomUpdateGood

(* remove_client, last part: the descriptor is closed and the slot freed.  *)
LEMMA FreeClientGood ==
    ASSUME NEW s, Good(s), NEW i \in Slots
    PROVE  LET t == [CloseFd(s, SocketOf(s, i)) EXCEPT !.clients[i] = FreeSlot]
           IN  Good(t) /\ Evolves(s, t)
<1> DEFINE fd == SocketOf(s, i)
           u == CloseFd(s, fd)
           t == [u EXCEPT !.clients[i] = FreeSlot]
           clients == [s.clients EXCEPT ![i] = FreeSlot]
<1> SUFFICES Good(t) /\ Evolves(s, t)
  OBVIOUS
<1>1. FreeSlot \in Client
  BY DEF FreeSlot, Client
<1>2. clients \in [Slots -> Client]
  BY <1>1 DEF Good, TypedState
<1>3. \A j \in Slots : clients[j] = IF j = i THEN FreeSlot ELSE s.clients[j]
  BY DEF Good, TypedState
<1>4. CASE ~IsOpen(s, fd)
  <2>1. u = s
    BY <1>4 DEF CloseFd
  <2>2. t = [s EXCEPT !.clients = clients]
    BY <2>1 DEF Good, TypedState
  <2>3. /\ t.clients = clients /\ t.rooms = s.rooms /\ t.boards = s.boards
        /\ t.fds = s.fds /\ t.link = s.link /\ t.inq = s.inq
        /\ t.sent = s.sent /\ t.status = s.status
        /\ t = [clients |-> t.clients, rooms |-> t.rooms, boards |-> t.boards,
                fds |-> t.fds, link |-> t.link, inq |-> t.inq, sent |-> t.sent,
                status |-> t.status]
    <3> HIDE DEF t, clients
    <3> QED
      BY <2>2 DEF Good, TypedState
  <2>4. TypedState(t) /\ RoomsCounted(t) /\ PeersDistinct(t)
    <3> HIDE DEF t, clients
    <3> QED
      BY <1>2, <2>3 DEF Good, TypedState, RoomsCounted, PeersDistinct
  <2>5. SlotsOwnDescriptors(t)
    <3> HIDE DEF t, clients
    <3> QED
      BY <1>3, <2>3 DEF Good, SlotsOwnDescriptors, SocketOf, IsOpen, FreeSlot
  <2>6. Evolves(s, t)
    <3> HIDE DEF t, clients
    <3> QED
      BY <1>3, <2>3 DEF Evolves, SocketOf, Readable, FreeSlot
  <2> QED
    BY <2>4, <2>5, <2>6 DEF Good
<1>5. CASE IsOpen(s, fd)
  <2> DEFINE p == s.fds[fd]
             fds == [s.fds EXCEPT ![fd] = NULL]
             link == [s.link EXCEPT ![p] = "closed"]
             inq == [s.inq EXCEPT ![p] = << >>]
  <2>1. fd \in Fds /\ p \in Peers /\ s.link[p] # "idle"
    BY <1>5 DEF IsOpen, Good, TypedState, PeersDistinct
  <2>2. u = [s EXCEPT !.fds = fds, !.link = link, !.inq = inq]
    BY <1>5 DEF CloseFd, Good, TypedState
  <2>3. u.clients = s.clients
    <3> HIDE DEF u, fds, link, inq
    <3> QED
      BY <2>2 DEF Good, TypedState
  <2>4. t = [s EXCEPT !.fds = fds, !.link = link, !.inq = inq, !.clients = clients]
    <3>1. t = [u EXCEPT !.clients = clients]
      <4> HIDE DEF u
      <4> QED
        BY <2>3
    <3> HIDE DEF t, u, clients, fds, link, inq
    <3> QED
      BY <2>2, <3>1 DEF Good, TypedState
  <2>5. /\ t.clients = clients /\ t.rooms = s.rooms /\ t.boards = s.boards
        /\ t.fds = fds /\ t.link = link /\ t.inq = inq
        /\ t.sent = s.sent /\ t.status = s.status
        /\ t = [clients |-> t.clients, rooms |-> t.rooms, boards |-> t.boards,
                fds |-> t.fds, link |-> t.link, inq |-> t.inq, sent |-> t.sent,
                status |-> t.status]
    <3> HIDE DEF t, clients, fds, link, inq
    <3> QED
      BY <2>4 DEF Good, TypedState
  <2>6. fds \in [Fds -> Peers \cup {NULL}] /\ link \in [Peers -> LinkState]
        /\ inq \in [Peers -> Seq(Requests)]
    BY <2>1 DEF Good, TypedState, LinkState
  <2>7. \A d \in Fds : fds[d] = IF d = fd THEN NULL ELSE s.fds[d]
    BY DEF Good, TypedState
  <2>8. \A q \in Peers : /\ link[q] = IF q = p THEN "closed" ELSE s.link[q]
                         /\ inq[q] = IF q = p THEN << >> ELSE s.inq[q]
    BY DEF Good, TypedState
  <2> HIDE DEF t, clients, fds, link, inq
  <2>9. TypedState(t) /\ RoomsCounted(t)
    BY <1>2, <2>5, <2>6 DEF Good, TypedState, RoomsCounted
  <2>10. PeersDistinct(t)
    BY <2>1, <2>5, <2>7, <2>8 DEF Good, PeersDistinct, TypedState
  <2>11. SlotsOwnDescriptors(t)
    <3>1. -1 \notin Fds
      BY DEF Fds
    <3>2. s.clients[i].is_connected
      BY <2>1, <3>1 DEF Good, SlotsOwnDescriptors
    <3>3. \A j \in Slots : t.clients[j].is_connected =>
             j # i /\ SocketOf(t, j) = SocketOf(s, j) /\ s.clients[j].is_connected
      BY <1>3, <2>5 DEF SocketOf, FreeSlot
    <3>4. \A j \in Slots : t.clients[j].is_connected => SocketOf(s, j) # fd
      BY <3>2, <3>3 DEF Good, SlotsOwnDescriptors
    <3>5. \A j \in Slots : ~t.clients[j].is_connected => SocketOf(t, j) = -1
      BY <1>3, <2>5 DEF Good, SlotsOwnDescriptors, SocketOf, FreeSlot
    <3> QED
      BY <2>5, <2>7, <3>3, <3>4, <3>5 DEF Good, SlotsOwnDescriptors, IsOpen
  <2>12. Evolves(s, t)
    <3>1. \A d \in Fds : t.fds[d] # NULL => s.fds[d] # p /\ s.fds[d] \in Peers
      BY <2>1, <2>5, <2>7 DEF Good, PeersDistinct, TypedState
    <3>2. \A d \in Fds : t.fds[d] # NULL =>
            (Readable(s, s.fds[d]) => Readable(t, s.fds[d]))
      BY <2>5, <2>8, <3>1 DEF Readable
    <3> QED
      BY <1>3, <2>1, <2>5, <2>7, <2>8, <3>2 DEF Evolves, SocketOf, FreeSlot
  <2> QED
    BY <2>9, <2>10, <2>11, <2>12 DEF Good
<1> HIDE DEF t
<1> QED
  BY <1>4, <1>5

(* Clients may be assigned to a room, and may be marked disconnected       *)
(* without their descriptor being closed.                                  *)
LEMMA ClientsUpdateGood ==
    ASSUME NEW s, Good(s), NEW clients \in [Slots -> Client],
           \A j \in Slots : \/ /\ clients[j].is_connected = s.clients[j].is_connected
                               /\ clients[j].socket_fd = s.clients[j].socket_fd
                            \/ ~clients[j].is_connected /\ clients[j].socket_fd = -1
    PROVE  LET t == [s EXCEPT !.clients = clients]
           IN  Good(t) /\ Evolves(s, t)
<1> DEFINE t == [s EXCEPT !.clients = clients]
<1> SUFFICES Good(t) /\ Evolves(s, t)
  OBVIOUS
<1>0. t = [s EXCEPT !.clients = clients]
  OBVIOUS
<1> HIDE DEF t
<1>1. /\ t.clients = clients /\ t.rooms = s.rooms /\ t.boards = s.boards
      /\ t.fds = s.fds /\ t.link = s.link /\ t.inq = s.inq
      /\ t.sent = s.sent /\ t.status = s.status
      /\ t = [clients |-> t.clients, rooms |-> t.rooms, boards |-> t.boards,
              fds |-> t.fds, link |-> t.link, inq |-> t.inq, sent |-> t.sent,
              status |-> t.status]
  BY <1>0 DEF Good, TypedState
<1>2. TypedState(t) /\ RoomsCounted(t) /\ PeersDistinct(t)
  BY <1>1 DEF Good, TypedState, RoomsCounted, PeersDistinct
<1>3. \A j \in Slots : t.clients[j].is_connected =>
         /\ s.clients[j].is_connected
         /\ t.clients[j].socket_fd = s.clients[j].socket_fd
  BY <1>1 DEF Good, TypedState, Client
<1>4. SlotsOwnDescriptors(t)
  BY <1>1, <1>3 DEF Good, SlotsOwnDescriptors, SocketOf, IsOpen
<1>5. Evolves(s, t)
  BY <1>1, <1>3 DEF Evolves, SocketOf, Readable
<1> QED
  BY <1>2, <1>4, <1>5 DEF Good

(* remove_client during a game.                                            *)
LEMMA AbandonGameGood ==
    ASSUME NEW s, Good(s), NEW i \in Slots, NEW r \in Rooms
    PROVE  LET t == AbandonGame(s, i, r)
           IN  Good(t) /\ Evolves(s, t)
<1> DEFINE seats == s.rooms[r].connected_players
           other == seats[1 - s.clients[i].assigned_player_id]
           told == IF other = NULL THEN s
                   ELSE Send(s, SocketOf(s, other), Notice("OPPONENT_LEFT"))
           gone == {i} \cup {seats[pl] : pl \in Players}
           clients == [j \in Slots |->
                         IF j \in gone
                         THEN [s.clients[j] EXCEPT !.is_connected = FALSE, !.socket_fd = -1]
                         ELSE s.clients[j]]
           empty == [pl \in Players |-> NULL]
           room == [told.rooms[r] EXCEPT !.connected_players = empty,
                                         !.is_active = FALSE,
                                         !.is_game_started = FALSE]
           left == [told EXCEPT !.rooms[r] = room]
           t == AbandonGame(s, i, r)
<1> SUFFICES Good(t) /\ Evolves(s, t)
  OBVIOUS
<1>1. Good(told) /\ Evolves(s, told) /\ told.clients = s.clients
  <2>1. CASE other = NULL
    BY <2>1, EvolvesRefl
  <2>2. CASE other # NULL
    <3>1. told = Send(s, SocketOf(s, other), Notice("OPPONENT_LEFT"))
      BY <2>2
    <3> HIDE DEF told, other
    <3> QED
      BY <3>1, SendGood, NoticeIsMessage
  <2> QED
    BY <2>1, <2>2
<1>2. told.rooms[r] \in Room /\ empty \in [Players -> Slots \cup {NULL}]
  <2> HIDE DEF told
  <2> QED
    BY <1>1 DEF Good, TypedState
<1>3. room \in Room /\ ~room.is_active
  <2> HIDE DEF told, empty
  <2> QED
    BY <1>2 DEF Room
<1>4. Good(left) /\ Evolves(told, left) /\ left.clients = told.clients
  <2> HIDE DEF told, room
  <2> QED
    BY <1>1, <1>3, RoomUpdateGood
<1>5. clients \in [Slots -> Client]
  <2> SUFFICES ASSUME NEW j \in Slots
               PROVE  /\ s.clients[j] \in Client
                      /\ [s.clients[j] EXCEPT !.is_connected = FALSE, !.socket_fd = -1]
                            \in Client
    BY Zenon
  <2>1. s.clients[j] \in Client
    BY DEF Good, TypedState
  <2> QED
    BY <2>1 DEF Client
<1>6. \A j \in Slots : \/ clients[j] = left.clients[j]
                       \/ ~clients[j].is_connected /\ clients[j].socket_fd = -1
  <2> SUFFICES ASSUME NEW j \in Slots
               PROVE  \/ clients[j] = s.clients[j]
                      \/ ~clients[j].is_connected /\ clients[j].socket_fd = -1
    BY <1>1, <1>4
  <2>1. s.clients[j] \in Client
    BY DEF Good, TypedState
  <2> HIDE DEF gone
  <2> QED
    BY <2>1 DEF Client
<1>7. t = [left EXCEPT !.clients = clients]
  <2>1. told = [clients |-> told.clients, rooms |-> told.rooms, boards |-> told.boards,
                fds |-> told.fds, link |-> told.link, inq |-> told.inq,
                sent |-> told.sent, status |-> told.status]
        /\ told.rooms \in [Rooms -> Room]
    <3> HIDE DEF told
    <3> QED
      BY <1>1 DEF Good, TypedState
  <2>2. t = [told EXCEPT !.clients = clients,
                         !.rooms[r].connected_players = empty,
                         !.rooms[r].is_active = FALSE,
                         !.rooms[r].is_game_started = FALSE]
    BY DEF AbandonGame
  <2> HIDE DEF told, clients, empty, t
  <2>3. t = [told EXCEPT !.clients = clients, !.rooms = [told.rooms EXCEPT ![r] = room]]
    <3> DEFINE rooms == [told.rooms EXCEPT ![r].connected_players = empty,
                                           ![r].is_active = FALSE,
                                           ![r].is_game_started = FALSE]
    <3>1. rooms = [told.rooms EXCEPT ![r] = room]
      BY <2>1
    <3>2. t = [told EXCEPT !.clients = clients, !.rooms = rooms]
      BY <2>1, <2>2
    <3> HIDE DEF rooms, room
    <3> QED
      BY <3>1, <3>2
  <2>4. left = [told EXCEPT !.rooms = [told.rooms EXCEPT ![r] = room]]
    BY <2>1
  <2> HIDE DEF left, room
  <2> QED
    BY <2>1, <2>3, <2>4
<1>8. Good(t) /\ Evolves(left, t)
  <2> HIDE DEF left, clients, t
  <2> QED
    BY <1>4, <1>5, <1>6, <1>7, ClientsUpdateGood
<1> HIDE DEF told, left, t
<1> QED
  BY <1>1, <1>4, <1>8, EvolvesTrans

(* remove_client.                                                          *)
LEMMA RemoveClientGood ==
    ASSUME NEW s, Good(s), NEW i \in Slots
    PROVE  LET t == RemoveClient(s, i)
           IN  Good(t) /\ Evolves(s, t)
<1> DEFINE r == RoomOf(s, i)
           left == IF r = NULL THEN s ELSE LeaveRoom(s, i, r)
           t == RemoveClient(s, i)
<1> SUFFICES Good(t) /\ Evolves(s, t)
  OBVIOUS
<1>1. r # NULL => r \in Rooms /\ s.rooms[r].is_active
  BY FindRoomIn DEF RoomOf
<1>2. CASE r # NULL /\ s.rooms[r].is_game_started
  BY <1>1, <1>2, AbandonGameGood DEF RemoveClient
<1>3. CASE ~(r # NULL /\ s.rooms[r].is_game_started)
  <2>1. Good(left) /\ Evolves(s, left) /\ left.clients = s.clients
    BY <1>1, <1>3, LeaveRoomGood, EvolvesRefl
  <2>2. t = [CloseFd(left, SocketOf(left, i)) EXCEPT !.clients[i] = FreeSlot]
    BY <1>3, <2>1 DEF RemoveClient, SocketOf
  <2> HIDE DEF left, t
  <2>3. Good(t) /\ Evolves(left, t)
    BY <2>1, <2>2, FreeClientGood
  <2> QED
    BY <2>1, <2>3, EvolvesTrans
<1> QED
  BY <1>2, <1>3

(* send_message, then remove_client when it failed.                        *)
LEMMA SendOrRemoveGood ==
    ASSUME NEW s, Good(s), NEW i \in Slots, NEW m \in Message
    PROVE  LET t == SendOrRemove(s, i, m)
           IN  /\ Good(t) /\ Evolves(s, t)
               /\ ~SendFails(s, SocketOf(s, i)) => t.rooms = s.rooms /\ t.clients = s.clients
<1> DEFINE after == Send(s, SocketOf(s, i), m)
<1>1. /\ Good(after) /\ Evolves(s, after)
      /\ after.rooms = s.rooms /\ after.clients = s.clients
  BY SendGood
<1>2. Good(RemoveClient(after, i)) /\ Evolves(after, RemoveClient(after, i))
  BY <1>1, RemoveClientGood
<1>3. Evolves(s, RemoveClient(after, i))
  BY <1>1, <1>2, EvolvesTrans
<1> QED
  BY <1>1, <1>2, <1>3 DEF SendOrRemove

-----------------------------------------------------------------------------
(* The boards of a good state may be anything.                             *)
LEMMA BoardsUpdateGood ==
    ASSUME NEW s, Good(s), NEW boards
    PROVE  LET t == [s EXCEPT !.boards = boards]
           IN  /\ Good(t) /\ Evolves(s, t)
               /\ t.rooms = s.rooms /\ t.clients = s.clients
<1> DEFINE t == [s EXCEPT !.boards = boards]
<1> SUFFICES /\ Good(t) /\ Evolves(s, t)
             /\ t.rooms = s.rooms /\ t.clients = s.clients
  OBVIOUS
<1>0. t = [s EXCEPT !.boards = boards]
  OBVIOUS
<1> HIDE DEF t
<1>1. /\ t.clients = s.clients /\ t.rooms = s.rooms /\ t.boards = boards
      /\ t.fds = s.fds /\ t.link = s.link /\ t.inq = s.inq
      /\ t.sent = s.sent /\ t.status = s.status
      /\ t = [clients |-> t.clients, rooms |-> t.rooms, boards |-> t.boards,
              fds |-> t.fds, link |-> t.link, inq |-> t.inq, sent |-> t.sent,
              status |-> t.status]
  BY <1>0 DEF Good, TypedState
<1>2. TypedState(t) /\ RoomsCounted(t) /\ PeersDistinct(t)
  BY <1>1 DEF Good, TypedState, RoomsCounted, PeersDistinct
<1>3. SlotsOwnDescriptors(t)
  BY <1>1 DEF Good, SlotsOwnDescriptors, SocketOf, IsOpen
<1>4. Evolves(s, t)
  BY <1>1 DEF Evolves, SocketOf, Readable
<1> QED
  BY <1>1, <1>2, <1>3, <1>4 DEF Good

LEMMA CreateRoomGood ==
    ASSUME NEW s, Good(s), NEW r \in Rooms
    PROVE  LET t == CreateRoom(s, r)
           IN  Good(t) /\ Evolves(s, t) /\ CanJoin(t, r)
<1> DEFINE room == [InitRoom EXCEPT !.room_id = RoomId(r), !.is_active = TRUE]
           boards == [s.boards EXCEPT ![r] = [pl \in Players |-> InitBoard]]
           u == [s EXCEPT !.rooms[r] = room]
           t == CreateRoom(s, r)
<1> SUFFICES Good(t) /\ Evolves(s, t) /\ CanJoin(t, r)
  OBVIOUS
<1>1. room \in Room
  <2>1. InitRoom \in Room
    BY DEF InitRoom, Room, Players, ROOM_SIZE
  <2>2. RoomId(r) \in RoomIds
    BY DEF RoomIds
  <2> QED
    BY <2>1, <2>2 DEF Room
<1>2. /\ room.current_player_count = 0 /\ ~room.is_game_started
      /\ \A pl \in Players : room.connected_players[pl] = NULL
  BY DEF InitRoom
<1> HIDE DEF room
<1>3. RoomCounted(room)
  BY <1>2 DEF RoomCounted, Players, ROOM_SIZE
<1>4. /\ Good(u) /\ Evolves(s, u)
      /\ u.rooms = [s.rooms EXCEPT ![r] = room] /\ u.boards = s.boards
  BY <1>1, <1>3, RoomUpdateGood
<1>5. t = [u EXCEPT !.boards = boards]
  BY DEF CreateRoom, room, Good, TypedState
<1> HIDE DEF t, u, boards
<1>6. Good(t) /\ Evolves(u, t) /\ t.rooms = u.rooms
  BY <1>4, <1>5, BoardsUpdateGood
<1>7. t.rooms[r] = room
  BY <1>4, <1>6 DEF Good, TypedState
<1>8. CanJoin(t, r)
  BY <1>2, <1>7, RoomIsNotNull DEF CanJoin, ROOM_SIZE
<1> QED
  BY <1>4, <1>6, <1>8, EvolvesTrans

(* join_room seats the client at the index of the first uncounted seat and *)
(* counts it.                                                              *)
LEMMA JoinRoomGood ==
    ASSUME NEW s, Good(s), NEW i \in Slots, NEW r \in Rooms, CanJoin(s, r)
    PROVE  LET t == JoinRoom(s, i, r)
           IN  Good(t) /\ Evolves(s, t)
<1> DEFINE old == s.rooms[r]
           id == old.current_player_count
           seats == [old.connected_players EXCEPT ![id] = i]
           room == [old EXCEPT !.connected_players = seats, !.current_player_count = id + 1]
           u == [s EXCEPT !.rooms[r] = room]
           client == [s.clients[i] EXCEPT !.assigned_player_id = id,
                                          !.assigned_room_id = old.room_id]
           clients == [s.clients EXCEPT ![i] = client]
           t == JoinRoom(s, i, r)
<1> SUFFICES Good(t) /\ Evolves(s, t)
  OBVIOUS
<1>1. /\ old \in Room /\ id \in {0, 1} /\ id \in Players
      /\ old.is_active => RoomCounted(old)
  <2>1. old \in Room /\ (old.is_active => RoomCounted(old))
    BY DEF Good, TypedState, RoomsCounted
  <2>2. id \in 0 .. 2 /\ id < 2
    BY <2>1 DEF Room, CanJoin, ROOM_SIZE
  <2> QED
    BY <2>1, <2>2 DEF Players, ROOM_SIZE
<1>2. seats \in [Players -> Slots \cup {NULL}]
  BY <1>1 DEF Room
<1>3. \A pl \in Players : seats[pl] = IF pl = id THEN i ELSE old.connected_players[pl]
  BY <1>1 DEF Room
<1>4. room \in Room
  <2>1. id + 1 \in 0 .. ROOM_SIZE
    BY <1>1 DEF ROOM_SIZE
  <2> HIDE DEF seats, old, id
  <2> QED
    BY <1>1, <1>2, <2>1 DEF Room
<1>5. /\ room.connected_players = seats /\ room.current_player_count = id + 1
      /\ room.is_game_started = old.is_game_started /\ room.is_active = old.is_active
  <2> HIDE DEF seats, old, id
  <2> QED
    BY <1>1 DEF Room
<1>6. room.is_active => RoomCounted(room)
  <2> HIDE DEF seats, old, room
  <2> QED
    BY <1>1, <1>3, <1>5, SlotIsNotNull DEF RoomCounted, Players, ROOM_SIZE
<1>7. Good(u) /\ Evolves(s, u) /\ u.clients = s.clients
  <2> HIDE DEF room
  <2> QED
    BY <1>4, <1>6, RoomUpdateGood
<1>8. /\ clients \in [Slots -> Client]
      /\ \A j \in Slots : /\ clients[j].is_connected = s.clients[j].is_connected
                          /\ clients[j].socket_fd = s.clients[j].socket_fd
  <2>1. s.clients[i] \in Client /\ old.room_id \in RoomIds \cup {-1}
    BY <1>1 DEF Good, TypedState, Room
  <2>2. /\ client \in Client
        /\ client.is_connected = s.clients[i].is_connected
        /\ client.socket_fd = s.clients[i].socket_fd
    <3> HIDE DEF old, id
    <3> QED
      BY <1>1, <2>1 DEF Client
  <2> HIDE DEF client
  <2> QED
    BY <2>2 DEF Good, TypedState
<1>9. t = [u EXCEPT !.clients = clients]
  <2>1. t = [s EXCEPT !.rooms[r] = [old EXCEPT !.connected_players[id] = i,
                                               !.current_player_count = id + 1],
                      !.clients[i] = client]
    BY DEF JoinRoom
  <2>2. t = [s EXCEPT !.rooms = [s.rooms EXCEPT ![r] = room], !.clients = clients]
    <3>1. room = [old EXCEPT !.connected_players[id] = i,
                             !.current_player_count = id + 1]
      BY DEF Good, TypedState, Room
    <3>2. t = [s EXCEPT !.rooms[r] = room, !.clients[i] = client]
      BY <2>1, <3>1, Zenon
    <3> HIDE DEF t, id, old, room, client
    <3> QED
      BY <3>2 DEF Good, TypedState
  <2>3. u = [s EXCEPT !.rooms = [s.rooms EXCEPT ![r] = room]]
    BY DEF Good, TypedState
  <2> HIDE DEF t, u, room, clients
  <2> QED
    BY <2>2, <2>3 DEF Good, TypedState
<1>10. Good(t) /\ Evolves(u, t)
  <2> HIDE DEF t, u, clients
  <2> QED
    BY <1>7, <1>8, <1>9, ClientsUpdateGood
<1> HIDE DEF t, u
<1> QED
  BY <1>7, <1>10, EvolvesTrans

-----------------------------------------------------------------------------
(* A game is marked running only when both seats are taken.                *)
LEMMA GameFlagGood ==
    ASSUME NEW s, Good(s), NEW r \in Rooms, NEW on \in BOOLEAN, NEW turn \in Players,
           on => BothSeated(s, r)
    PROVE  LET t == [s EXCEPT !.rooms[r] = [s.rooms[r] EXCEPT !.is_game_started = on,
                                                              !.current_turn = turn]]
           IN  /\ Good(t) /\ Evolves(s, t)
               /\ t.clients = s.clients
               /\ \A q \in Rooms : /\ t.rooms[q].connected_players = s.rooms[q].connected_players
                                   /\ t.rooms[q].is_active = s.rooms[q].is_active
<1> DEFINE old == s.rooms[r]
           room == [old EXCEPT !.is_game_started = on, !.current_turn = turn]
           t == [s EXCEPT !.rooms[r] = room]
<1>1. old \in Room /\ (old.is_active => RoomCounted(old))
  BY DEF Good, TypedState, RoomsCounted
<1>2. room \in Room
  <2> HIDE DEF old
  <2> QED
    BY <1>1 DEF Room
<1>3. /\ room.connected_players = old.connected_players
      /\ room.current_player_count = old.current_player_count
      /\ room.is_active = old.is_active /\ room.is_game_started = on
  <2> HIDE DEF old
  <2> QED
    BY <1>1 DEF Room
<1>4. room.is_active => RoomCounted(room)
  <2> HIDE DEF room
  <2> QED
    BY <1>1, <1>3 DEF RoomCounted, BothSeated
<1> HIDE DEF room
<1>5. /\ Good(t) /\ Evolves(s, t) /\ t.clients = s.clients
      /\ t.rooms = [s.rooms EXCEPT ![r] = room]
  BY <1>2, <1>4, RoomUpdateGood
<1> HIDE DEF t
<1>6. \A q \in Rooms : t.rooms[q] = IF q = r THEN room ELSE s.rooms[q]
  BY <1>5 DEF Good, TypedState
<1>7. \A q \in Rooms : /\ t.rooms[q].connected_players = s.rooms[q].connected_players
                       /\ t.rooms[q].is_active = s.rooms[q].is_active
  BY <1>3, <1>6
<1> QED
  BY <1>5, <1>7 DEF t, room

LEMMA SendTurnMessagesGood ==
    ASSUME NEW s, Good(s), NEW r, NEW pl
    PROVE  LET t == SendTurnMessages(s, r, pl)
           IN  Good(t) /\ Evolves(s, t)
<1> DEFINE u == SendSeat(s, r, pl, Notice("YOUR_TURN"))
           v == SendSeat(u, r, 1 - pl, Notice("WAIT_TURN"))
<1>1. Good(u) /\ Evolves(s, u)
  BY SendGood, NoticeIsMessage DEF SendSeat
<1> HIDE DEF u
<1>2. Good(v) /\ Evolves(u, v)
  BY <1>1, SendGood, NoticeIsMessage DEF SendSeat
<1> HIDE DEF v
<1>3. Evolves(s, v)
  BY <1>1, <1>2, EvolvesTrans
<1> QED
  BY <1>2, <1>3, EvolvesRefl DEF SendTurnMessages, u, v

(* start_game_when_ready.                                                  *)
LEMMA StartGameGood ==
    ASSUME NEW s, Good(s), NEW r \in Rooms
    PROVE  LET t == StartGame(s, r)
           IN  Good(t) /\ Evolves(s, t)
<1> DEFINE u == SendSeat(s, r, 0, Notice("GAME_START"))
           told == SendSeat(u, r, 1, Notice("GAME_START"))
           on == [told EXCEPT !.rooms[r].is_game_started = TRUE,
                              !.rooms[r].current_turn = 0]
<1> SUFFICES ASSUME BothSeated(s, r)
             PROVE  Good(SendTurnMessages(on, r, 0))
                    /\ Evolves(s, SendTurnMessages(on, r, 0))
  BY EvolvesRefl DEF StartGame
<1>1. Good(u) /\ Evolves(s, u) /\ u.rooms = s.rooms
  BY SendGood, NoticeIsMessage DEF SendSeat
<1> HIDE DEF u
<1>2. Good(told) /\ Evolves(u, told) /\ told.rooms = s.rooms
  BY <1>1, SendGood, NoticeIsMessage DEF SendSeat
<1> HIDE DEF told
<1>3. on = [told EXCEPT !.rooms[r] = [told.rooms[r] EXCEPT !.is_game_started = TRUE,
                                                           !.current_turn = 0]]
  BY <1>2 DEF Good, TypedState
<1>4. 0 \in Players /\ BothSeated(told, r)
  BY <1>2 DEF Players, ROOM_SIZE, BothSeated
<1>5. Good(on) /\ Evolves(told, on)
  <2> HIDE DEF on
  <2> QED
    BY <1>2, <1>3, <1>4, GameFlagGood
<1> HIDE DEF on
<1>6. Good(SendTurnMessages(on, r, 0)) /\ Evolves(on, SendTurnMessages(on, r, 0))
  BY <1>5, SendTurnMessagesGood
<1>7. Evolves(s, on)
  BY <1>1, <1>2, <1>5, EvolvesTrans
<1> QED
  BY <1>6, <1>7, EvolvesTrans

(* end_game_and_disconnect.                                                *)
LEMMA EndGameGood ==
    ASSUME NEW s, Good(s), NEW r \in Rooms, NEW i \in Slots
    PROVE  LET t == EndGame(s, r, i)
           IN  Good(t) /\ Evolves(s, t)
<1> DEFINE winner == s.clients[i].assigned_player_id
           won    == Send(s, SocketOf(s, i), GameOver(winner))
           told   == IF s.rooms[r].connected_players[1 - winner] = NULL THEN won
                     ELSE SendSeat(won, r, 1 - winner, GameOver(winner))
           over   == [told EXCEPT !.rooms[r].is_game_started = FALSE]
           losers == {j \in Slots : /\ s.clients[j].is_connected
                                    /\ s.clients[j].assigned_room_id = s.rooms[r].room_id
                                    /\ s.clients[j].assigned_player_id = 1 - winner}
           rest   == IF losers = {} THEN over ELSE RemoveClient(over, Min(losers))
<1>0. EndGame(s, r, i) = RemoveClient(rest, i)
  BY DEF EndGame
<1>1. Good(won) /\ Evolves(s, won)
  BY SendGood, SeatIsMessage
<1> HIDE DEF won
<1>2. Good(told) /\ Evolves(s, told)
  <2>1. Good(SendSeat(won, r, 1 - winner, GameOver(winner)))
        /\ Evolves(won, SendSeat(won, r, 1 - winner, GameOver(winner)))
    BY <1>1, SendGood, SeatIsMessage DEF SendSeat
  <2> QED
    BY <1>1, <2>1, EvolvesTrans
<1> HIDE DEF told
<1>3. told.rooms[r] \in Room
  BY <1>2 DEF Good, TypedState
<1>4. told.rooms[r].current_turn \in Players
      /\ over = [told EXCEPT !.rooms[r] = [told.rooms[r] EXCEPT
                                !.is_game_started = FALSE,
                                !.current_turn = told.rooms[r].current_turn]]
  BY <1>2, <1>3 DEF Good, TypedState, Room
<1>5. Good(over) /\ Evolves(told, over)
  <2> HIDE DEF over
  <2> QED
    BY <1>2, <1>4, GameFlagGood
<1> HIDE DEF over
<1>6. losers # {} => Min(losers) \in Slots
  <2>1. losers \in SUBSET Nat
    BY ServerAssumption DEF Slots
  <2>2. losers # {} => Min(losers) \in losers
    BY <2>1, MinIn
  <2> QED
    BY <2>2
<1> HIDE DEF losers
<1>7. Good(rest) /\ Evolves(over, rest)
  BY <1>5, <1>6, RemoveClientGood, EvolvesRefl
<1> HIDE DEF rest
<1>8. Good(RemoveClient(rest, i)) /\ Evolves(rest, RemoveClient(rest, i))
  BY <1>7, RemoveClientGood
<1>9. Evolves(s, RemoveClient(rest, i))
  <2>1. Evolves(s, over)
    BY <1>2, <1>5, EvolvesTrans
  <2>2. Evolves(s, rest)
    BY <1>7, <2>1, EvolvesTrans
  <2> QED
    BY <1>8, <2>2, EvolvesTrans
<1> QED
  BY <1>0, <1>8, <1>9

-----------------------------------------------------------------------------
(* The cases of handle_client_message.                                     *)
LEMMA OnCreateRoomGood ==
    ASSUME NEW s, Good(s), NEW i \in Slots, NEW r \in Rooms
    PROVE  LET t == OnCreateRoom(s, i, r)
           IN  Good(t) /\ Evolves(s, t)
<1> DEFINE u == CreateRoom(s, r)
           v == JoinRoom(u, i, r)
           w == SendOrRemove(v, i, Seated("ROOM_CREATED", v, i))
<1>1. Good(u) /\ Evolves(s, u) /\ CanJoin(u, r)
  BY CreateRoomGood
<1> HIDE DEF u
<1>2. Good(v) /\ Evolves(u, v)
  BY <1>1, JoinRoomGood
<1> HIDE DEF v
<1>3. Good(w) /\ Evolves(v, w)
  BY <1>2, SendOrRemoveGood, SeatIsMessage
<1> HIDE DEF w
<1>4. Evolves(s, w)
  BY <1>1, <1>2, <1>3, EvolvesTrans
<1> QED
  BY <1>3, <1>4 DEF OnCreateRoom, u, v, w

LEMMA AnnounceJoinGood ==
    ASSUME NEW s, Good(s), NEW i \in Slots, NEW r
    PROVE  LET t == AnnounceJoin(s, i, r)
           IN  Good(t) /\ Evolves(s, t)
<1> DEFINE other == s.rooms[r].connected_players[1 - s.clients[i].assigned_player_id]
           ok    == Send(s, SocketOf(s, i), Seated("JOIN_OK", s, i))
           told  == Send(ok, SocketOf(s, i), Notice("OPPONENT_JOINED"))
           both  == Send(told, SocketOf(s, other), Notice("OPPONENT_JOINED"))
<1>1. AnnounceJoin(s, i, r) \in {RemoveClient(ok, i), told, both}
  BY DEF AnnounceJoin
<1>2. Good(ok) /\ Evolves(s, ok)
  BY SendGood, SeatIsMessage
<1> HIDE DEF ok
<1>3. Good(told) /\ Evolves(ok, told)
  BY <1>2, SendGood, NoticeIsMessage
<1> HIDE DEF told
<1>4. Good(both) /\ Evolves(told, both)
  BY <1>3, SendGood, NoticeIsMessage
<1> HIDE DEF both
<1>5. Good(RemoveClient(ok, i)) /\ Evolves(ok, RemoveClient(ok, i))
  BY <1>2, RemoveClientGood
<1>6. Evolves(s, told) /\ Evolves(s, RemoveClient(ok, i))
  BY <1>2, <1>3, <1>5, EvolvesTrans
<1>7. Evolves(s, both)
  BY <1>4, <1>6, EvolvesTrans
<1> QED
  BY <1>1, <1>3, <1>4, <1>5, <1>6, <1>7

LEMMA OnJoinRoomGood ==
    ASSUME NEW s, Good(s), NEW i \in Slots, NEW id
    PROVE  LET t == OnJoinRoom(s, i, id)
           IN  Good(t) /\ Evolves(s, t)
<1> DEFINE r == FindRoom(s, id)
           u == JoinRoom(s, i, r)
<1>1. CASE CanJoin(s, r)
  <2>1. r \in Rooms
    BY <1>1, FindRoomIn DEF CanJoin
  <2> HIDE DEF r
  <2>2. Good(u) /\ Evolves(s, u)
    BY <1>1, <2>1, JoinRoomGood
  <2> HIDE DEF u
  <2>3. Good(AnnounceJoin(u, i, r)) /\ Evolves(u, AnnounceJoin(u, i, r))
    BY <2>2, AnnounceJoinGood
  <2>4. Evolves(s, AnnounceJoin(u, i, r))
    BY <2>2, <2>3, EvolvesTrans
  <2> QED
    BY <1>1, <2>3, <2>4 DEF OnJoinRoom, r, u
<1>2. CASE ~CanJoin(s, r)
  BY <1>2, SendGood, NoticeIsMessage DEF OnJoinRoom, SendError
<1> QED
  BY <1>1, <1>2

(* The process stops, but not on a NULL pointer.                           *)
LEMMA OverrunGood ==
    ASSUME NEW s, Good(s)
    PROVE  LET t == [s EXCEPT !.status = "overrun"]
           IN  Good(t) /\ Evolves(s, t)
<1> DEFINE t == [s EXCEPT !.status = "overrun"]
<1> SUFFICES Good(t) /\ Evolves(s, t)
  OBVIOUS
<1>0. t = [s EXCEPT !.status = "overrun"]
  OBVIOUS
<1> HIDE DEF t
<1>1. /\ t.clients = s.clients /\ t.rooms = s.rooms /\ t.boards = s.boards
      /\ t.fds = s.fds /\ t.link = s.link /\ t.inq = s.inq
      /\ t.sent = s.sent /\ t.status = "overrun"
      /\ t = [clients |-> t.clients, rooms |-> t.rooms, boards |-> t.boards,
              fds |-> t.fds, link |-> t.link, inq |-> t.inq, sent |-> t.sent,
              status |-> t.status]
  BY <1>0 DEF Good, TypedState
<1>2. Good(t)
  BY <1>1 DEF Good, TypedState, SlotsOwnDescriptors, PeersDistinct,
              RoomsCounted, SocketOf, IsOpen
<1>3. Evolves(s, t)
  BY <1>1 DEF Evolves, SocketOf, Readable
<1> QED
  BY <1>2, <1>3

LEMMA OnSubmitBoardGood ==
    ASSUME NEW s, Good(s), NEW i \in Slots, NEW ships
    PROVE  LET t == OnSubmitBoard(s, i, ships)
           IN  Good(t) /\ Evolves(s, t)
<1> DEFINE r     == RoomOf(s, i)
           pl    == s.clients[i].assigned_player_id
           board == PlaceBoardShips(s.boards[r][pl], ships)
           held  == [s EXCEPT !.boards[r][pl] = board,
                              !.rooms[r].player_boards_submitted[pl] = TRUE]
           told  == SendOrRemove(held, i, Notice("BOARD_OK"))
           t     == OnSubmitBoard(s, i, ships)
<1> SUFFICES Good(t) /\ Evolves(s, t)
  OBVIOUS
<1>1. CASE r = NULL \/ pl \notin Players
  BY <1>1, SendGood, NoticeIsMessage DEF OnSubmitBoard, SendError
<1>2. CASE ~(r = NULL \/ pl \notin Players) /\ Overruns(board)
  BY <1>2, OverrunGood DEF OnSubmitBoard
<1>3. CASE ~(r = NULL \/ pl \notin Players) /\ ~Overruns(board)
  <2>1. r \in Rooms
    BY <1>3, FindRoomIn DEF RoomOf
  <2>2. t \in {told, StartGame(told, r)}
    BY <1>3 DEF OnSubmitBoard
  <2> HIDE DEF t
  <2> DEFINE old == s.rooms[r]
             flags == [old.player_boards_submitted EXCEPT ![pl] = TRUE]
             room == [old EXCEPT !.player_boards_submitted = flags]
             boards == [s.boards EXCEPT ![r][pl] = board]
             u == [s EXCEPT !.rooms[r] = room]
  <2> HIDE DEF r
  <2>3. old \in Room /\ (old.is_active => RoomCounted(old))
    BY <2>1 DEF Good, TypedState, RoomsCounted
  <2>4. flags \in [Players -> BOOLEAN]
    BY <2>3 DEF Room
  <2>5. room \in Room /\ (room.is_active => RoomCounted(room))
    <3> HIDE DEF old, flags
    <3> QED
      BY <2>3, <2>4 DEF Room, RoomCounted
  <2>6. held = [u EXCEPT !.boards = boards]
    <3> HIDE DEF pl, board
    <3> QED
      BY <2>1 DEF Good, TypedState, Room
  <2>7. Good(u) /\ Evolves(s, u)
    <3> HIDE DEF room
    <3> QED
      BY <2>1, <2>5, RoomUpdateGood
  <2> HIDE DEF u, boards, held
  <2>8. Good(held) /\ Evolves(u, held)
    BY <2>6, <2>7, BoardsUpdateGood
  <2>9. Good(told) /\ Evolves(held, told)
    BY <2>8, SendOrRemoveGood, NoticeIsMessage
  <2> HIDE DEF told
  <2>10. Good(StartGame(told, r)) /\ Evolves(told, StartGame(told, r))
    BY <2>1, <2>9, StartGameGood
  <2>11. Evolves(s, held)
    BY <2>7, <2>8, EvolvesTrans
  <2>12. Evolves(s, told)
    BY <2>9, <2>11, EvolvesTrans
  <2>13. Evolves(s, StartGame(told, r))
    BY <2>10, <2>12, EvolvesTrans
  <2> QED
    BY <2>2, <2>9, <2>10, <2>12, <2>13
<1> HIDE DEF t, r, board
<1> QED
  BY <1>1, <1>2, <1>3

(* In a game both seats are taken, so the pointer to the opponent is good. *)
LEMMA AfterShotGood ==
    ASSUME NEW s, Good(s), NEW i \in Slots, NEW r \in Rooms, NEW c,
           NEW result \in ShotResult, InBounds(c[1], c[2]),
           s.clients[i].assigned_player_id \in Players,
           BothSeated(s, r)
    PROVE  LET t == AfterShot(s, i, r, c, result)
           IN  Good(t) /\ Evolves(s, t)
<1> DEFINE pl   == s.clients[i].assigned_player_id
           told == SendSeat(s, r, 1 - pl, Report("INCOMING_SHOT", c, result))
           turn == IF result = "MISS" THEN 1 - pl ELSE pl
           on   == [told EXCEPT !.rooms[r].current_turn = turn]
<1>1. pl \in Players /\ 1 - pl \in Players
  BY DEF Players, ROOM_SIZE
<1>2. AfterShot(s, i, r, c, result) \in {EndGame(told, r, i), SendTurnMessages(on, r, turn)}
  BY <1>1 DEF AfterShot, BothSeated
<1>3. turn \in Players
  BY <1>1
<1>4. Good(told) /\ Evolves(s, told) /\ told.rooms = s.rooms
  BY SendGood, ReportIsMessage DEF SendSeat
<1> HIDE DEF told, turn, pl
<1>5. Good(EndGame(told, r, i)) /\ Evolves(told, EndGame(told, r, i))
  BY <1>4, EndGameGood
<1>6. told.rooms[r] \in Room
  BY <1>4 DEF Good, TypedState
<1>7. /\ told.rooms[r].is_game_started \in BOOLEAN
      /\ on = [told EXCEPT !.rooms[r] = [told.rooms[r] EXCEPT
                    !.is_game_started = told.rooms[r].is_game_started,
                    !.current_turn = turn]]
  BY <1>4, <1>6 DEF Good, TypedState, Room
<1>8. Good(on) /\ Evolves(told, on)
  <2>1. BothSeated(told, r)
    BY <1>4 DEF BothSeated
  <2> HIDE DEF on
  <2> QED
    BY <1>3, <1>4, <1>7, <2>1, GameFlagGood
<1> HIDE DEF on
<1>9. Good(SendTurnMessages(on, r, turn)) /\ Evolves(on, SendTurnMessages(on, r, turn))
  BY <1>8, SendTurnMessagesGood
<1>10. Evolves(s, EndGame(told, r, i)) /\ Evolves(s, on)
  BY <1>4, <1>5, <1>8, EvolvesTrans
<1>11. Evolves(s, SendTurnMessages(on, r, turn))
  BY <1>9, <1>10, EvolvesTrans
<1> QED
  BY <1>2, <1>5, <1>9, <1>10, <1>11

LEMMA OnShootGood ==
    ASSUME NEW s, Good(s), NEW i \in Slots, NEW c
    PROVE  LET t == OnShoot(s, i, c)
           IN  Good(t) /\ Evolves(s, t)
<1> DEFINE r      == RoomOf(s, i)
           pl     == s.clients[i].assigned_player_id
           target == s.boards[r][1 - pl]
           shot   == [s EXCEPT !.boards[r][1 - pl] = BoardAfterShot(target, c[1], c[2])]
           result == ShotAnswer(target, c[1], c[2])
           told   == SendOrRemove(shot, i, Report("SHOT_RESULT", c, result))
<1>1. CASE ~MayShoot(s, i, c)
  BY <1>1, SendGood, NoticeIsMessage DEF OnShoot, SendError
<1>2. CASE MayShoot(s, i, c)
  <2>1. /\ r \in Rooms /\ s.rooms[r].is_active /\ s.rooms[r].is_game_started
        /\ pl = s.rooms[r].current_turn
    BY <1>2, FindRoomIn DEF MayShoot, RoomOf
  <2>2. OnShoot(s, i, c) = IF SendFails(shot, SocketOf(s, i)) THEN told
                           ELSE AfterShot(told, i, r, c, result)
    BY <1>2 DEF OnShoot
  <2>3. BothSeated(s, r)
    BY <2>1 DEF Good, RoomsCounted, RoomCounted, BothSeated
  <2>12. InBounds(c[1], c[2]) /\ result \in ShotResult
    BY <1>2 DEF MayShoot, ShotAnswer, ShotResult
  <2>4. pl \in Players
    BY <2>1 DEF Good, TypedState, Room
  <2> DEFINE boards == [s.boards EXCEPT ![r][1 - pl] = BoardAfterShot(target, c[1], c[2])]
  <2>5. shot = [s EXCEPT !.boards = boards]
    BY DEF Good, TypedState
  <2> HIDE DEF boards, shot, r, result
  <2>6. Good(shot) /\ Evolves(s, shot) /\ shot.rooms = s.rooms /\ shot.clients = s.clients
    BY <2>5, BoardsUpdateGood
  <2>7. /\ Good(told) /\ Evolves(shot, told)
        /\ ~SendFails(shot, SocketOf(shot, i))
              => told.rooms = shot.rooms /\ told.clients = shot.clients
    BY <2>6, <2>12, SendOrRemoveGood, ReportIsMessage
  <2>8. SocketOf(shot, i) = SocketOf(s, i)
    BY <2>6 DEF SocketOf
  <2> HIDE DEF told
  <2>9. Evolves(s, told)
    BY <2>6, <2>7, EvolvesTrans
  <2>10. CASE SendFails(shot, SocketOf(s, i))
    BY <2>2, <2>7, <2>9, <2>10
  <2>11. CASE ~SendFails(shot, SocketOf(s, i))
    <3>1. told.rooms = s.rooms /\ told.clients = s.clients
      BY <2>6, <2>7, <2>8, <2>11
    <3>2. BothSeated(told, r) /\ told.clients[i].assigned_player_id \in Players
      BY <2>3, <2>4, <3>1 DEF BothSeated
    <3>3. Good(AfterShot(told, i, r, c, result)) /\ Evolves(told, AfterShot(told, i, r, c, result))
      BY <2>1, <2>7, <2>12, <3>2, AfterShotGood
    <3>4. Evolves(s, AfterShot(told, i, r, c, result))
      BY <2>9, <3>3, EvolvesTrans
    <3> QED
      BY <2>2, <2>11, <3>3, <3>4
  <2> QED
    BY <2>10, <2>11
<1> QED
  BY <1>1, <1>2

-----------------------------------------------------------------------------
(* The inductive invariant.  A connection that waits to be accepted is     *)
(* queued once and not behind a descriptor yet; accept() finds one; and    *)
(* until accept() has run, every descriptor select() reported is open, so  *)
(* the new connection cannot reuse one of them.                            *)
QueueOK ==
    /\ \A n \in DOMAIN backlog :
          /\ srv.link[backlog[n]] # "idle"
          /\ \A fd \in Fds : srv.fds[fd] # backlog[n]
    /\ \A m, n \in DOMAIN backlog : m # n => backlog[m] # backlog[n]
    /\ phase = "accept" => /\ backlog # << >>
                           /\ \A fd \in readfds : srv.fds[fd] # NULL

LoopTypeOK ==
    /\ phase \in {"select", "accept", "scan"}
    /\ readfds \subseteq Fds
    /\ next \in 0 .. MAX_CLIENTS
    /\ backlog \in Seq(Peers)

IInv == Good(srv) /\ LoopTypeOK /\ QueueOK /\ ScanNeverBlocks /\ NoSegfault

LEMMA InitIInv == Init => IInv
<1> SUFFICES ASSUME Init PROVE IInv
  OBVIOUS
<1>1. /\ srv.clients = [i \in Slots |-> FreeSlot]
      /\ srv.rooms = [r \in Rooms |-> InitRoom]
      /\ srv.fds = [fd \in Fds |-> NULL]
      /\ srv.link = [p \in Peers |-> "idle"]
      /\ srv.inq = [p \in Peers |-> << >>]
      /\ srv.sent = [p \in Peers |-> << >>]
      /\ srv.status = "running"
      /\ srv = [clients |-> srv.clients, rooms |-> srv.rooms, boards |-> srv.boards,
                fds |-> srv.fds, link |-> srv.link, inq |-> srv.inq, sent |-> srv.sent,
                status |-> srv.status]
  BY DEF Init
<1>2. phase = "select" /\ readfds = {} /\ next = 0 /\ backlog = << >>
  BY DEF Init
<1>3. FreeSlot \in Client
  BY DEF FreeSlot, Client
<1>4. InitRoom \in Room /\ ~InitRoom.is_active
  BY DEF InitRoom, Room, Players, ROOM_SIZE
<1>5. TypedState(srv)
  BY <1>1, <1>3, <1>4 DEF TypedState, LinkState
<1>6. SlotsOwnDescriptors(srv) /\ PeersDistinct(srv)
  BY <1>1 DEF SlotsOwnDescriptors, PeersDistinct, SocketOf, FreeSlot
<1>7. RoomsCounted(srv)
  BY <1>1, <1>4 DEF RoomsCounted
<1>8. LoopTypeOK /\ QueueOK /\ ScanNeverBlocks /\ NoSegfault
  BY <1>1, <1>2, ServerAssumption DEF LoopTypeOK, QueueOK, ScanNeverBlocks, NoSegfault
<1> QED
  BY <1>5, <1>6, <1>7, <1>8 DEF IInv, Good

(* Reading the first request of the slot whose turn it is leaves the other *)
(* connections as they are.                                                *)
LEMMA TakenGood ==
    ASSUME IInv, NEW i \in Slots, Due(i), Inbox(i) # << >>
    PROVE  /\ Good(Taken(i))
           /\ Taken(i).clients = srv.clients /\ Taken(i).fds = srv.fds
           /\ Taken(i).link = srv.link /\ Taken(i).status = srv.status
           /\ \A p \in Peers : p # PeerOf(srv, i) => Taken(i).inq[p] = srv.inq[p]
<1> DEFINE p == PeerOf(srv, i)
           inq == [srv.inq EXCEPT ![p] = Tail(srv.inq[p])]
           t == Taken(i)
<1>1. t = [srv EXCEPT !.inq = inq]
  BY DEF Taken, IInv, Good, TypedState
<1>2. p \in Peers /\ srv.inq[p] # << >>
  <2>1. i \in Awaiting(srv) /\ phase = "scan"
    BY DEF Due
  <2>2. IsOpen(srv, SocketOf(srv, i))
    BY <2>1 DEF IInv, ScanNeverBlocks
  <2> QED
    BY <2>2 DEF IInv, Good, TypedState, IsOpen, PeerOf, Inbox
<1>3. inq \in [Peers -> Seq(Requests)]
  <2>1. srv.inq[p] \in Seq(Requests)
    BY <1>2 DEF IInv, Good, TypedState
  <2>2. Tail(srv.inq[p]) \in Seq(Requests)
    BY <1>2, <2>1
  <2> QED
    BY <2>2 DEF IInv, Good, TypedState
<1>4. \A q \in Peers : q # p => inq[q] = srv.inq[q]
  BY DEF IInv, Good, TypedState
<1> HIDE DEF t, inq
<1>5. /\ t.clients = srv.clients /\ t.rooms = srv.rooms /\ t.boards = srv.boards
      /\ t.fds = srv.fds /\ t.link = srv.link /\ t.inq = inq
      /\ t.sent = srv.sent /\ t.status = srv.status
      /\ t = [clients |-> t.clients, rooms |-> t.rooms, boards |-> t.boards,
              fds |-> t.fds, link |-> t.link, inq |-> t.inq, sent |-> t.sent,
              status |-> t.status]
  BY <1>1 DEF IInv, Good, TypedState
<1>6. Good(t)
  BY <1>3, <1>5 DEF IInv, Good, TypedState, SlotsOwnDescriptors, PeersDistinct,
                    RoomsCounted, SocketOf, IsOpen
<1> QED
  BY <1>4, <1>5, <1>6 DEF t

(* Whatever a handler makes of the state, by evolution, keeps the          *)
(* invariant: the slots still to be scanned keep what waits on them.       *)
LEMMA HandledIInv ==
    ASSUME IInv, NEW i \in Slots, Due(i),
           NEW s, s = srv \/ (s = Taken(i) /\ Inbox(i) # << >>),
           NEW t, Good(t), Evolves(s, t),
           Commit(t), Scanned(i)
    PROVE  IInv'
<1>1. /\ s.clients = srv.clients /\ s.fds = srv.fds
      /\ s.link = srv.link /\ s.status = srv.status
      /\ \A p \in Peers : p # PeerOf(srv, i) => s.inq[p] = srv.inq[p]
  BY TakenGood
<1>2. i \in Awaiting(srv) /\ phase = "scan" /\ Running
  BY DEF Due
<1>3. /\ next' = i + 1 /\ phase' = "scan" /\ readfds' = readfds /\ backlog' = backlog
  BY <1>2 DEF Scanned
<1>4. LoopTypeOK'
  <2>1. i + 1 \in 0 .. MAX_CLIENTS
    BY ServerAssumption DEF Slots
  <2> QED
    BY <1>3, <2>1 DEF IInv, LoopTypeOK
<1>5. \A j \in Awaiting(srv)' : j \in Slots /\ j # i /\ j >= next
  BY <1>2, <1>3 DEF Awaiting, Slots, IInv, LoopTypeOK
<1>6. CASE t.status = "running"
  <2>1. srv' = t
    BY <1>6 DEF Commit
  <2>2. Good(srv)'
    BY <2>1 DEF Good, TypedState, SlotsOwnDescriptors, PeersDistinct, RoomsCounted,
                RoomCounted, SocketOf, IsOpen
  <2>3. NoSegfault'
    BY <1>6, <2>1 DEF NoSegfault
  <2>4. QueueOK'
    <3>1. \A n \in DOMAIN backlog : backlog[n] \in Peers
      BY DEF IInv, LoopTypeOK
    <3>2. \A n \in DOMAIN backlog :
             /\ t.link[backlog[n]] # "idle"
             /\ \A fd \in Fds : t.fds[fd] # backlog[n]
      BY <1>1, <3>1, ServerAssumption DEF Evolves, IInv, QueueOK
    <3> QED
      BY <1>3, <2>1, <3>2 DEF IInv, QueueOK
  <2>5. ScanNeverBlocks'
    <3> SUFFICES ASSUME NEW j \in Awaiting(srv)'
                 PROVE  IsOpen(t, SocketOf(t, j)) /\ Readable(t, PeerOf(t, j))
      BY <2>1 DEF ScanNeverBlocks, IsOpen, SocketOf, Readable, PeerOf
    <3>1. j \in Slots /\ j # i /\ j >= next /\ t.clients[j].is_connected
          /\ t.clients[j].socket_fd \in readfds
      BY <1>3, <1>5, <2>1 DEF Awaiting
    <3>2. srv.clients[j].is_connected /\ SocketOf(t, j) = SocketOf(srv, j)
      BY <1>1, <3>1 DEF Evolves, SocketOf
    <3>3. j \in Awaiting(srv)
      BY <3>1, <3>2 DEF Awaiting, SocketOf
    <3>4. IsOpen(srv, SocketOf(srv, j)) /\ Readable(srv, PeerOf(srv, j))
      BY <1>2, <3>3 DEF IInv, ScanNeverBlocks
    <3>5. IsOpen(srv, SocketOf(srv, i))
      BY <1>2 DEF IInv, ScanNeverBlocks
    <3>6. SocketOf(srv, i) # SocketOf(srv, j)
      BY <1>2, <3>1, <3>2 DEF IInv, Good, SlotsOwnDescriptors, Awaiting
    <3>7. PeerOf(srv, j) # PeerOf(srv, i) /\ PeerOf(srv, j) \in Peers
      BY <3>4, <3>5, <3>6 DEF IInv, Good, TypedState, PeersDistinct, IsOpen, PeerOf
    <3>8. Readable(s, PeerOf(s, j)) /\ PeerOf(s, j) = PeerOf(srv, j)
      BY <1>1, <3>4, <3>7 DEF Readable, PeerOf, SocketOf
    <3>9. IsOpen(t, SocketOf(t, j))
      BY <3>1 DEF Good, SlotsOwnDescriptors
    <3>10. t.fds[SocketOf(t, j)] = PeerOf(s, j)
      BY <1>1, <3>2, <3>9 DEF Evolves, IsOpen, PeerOf, SocketOf
    <3>11. Readable(t, PeerOf(s, j))
      BY <1>1, <3>2, <3>8, <3>9 DEF Evolves, IsOpen, PeerOf, SocketOf
    <3> QED
      BY <3>9, <3>10, <3>11 DEF PeerOf
  <2> QED
    BY <1>4, <2>2, <2>3, <2>4, <2>5 DEF IInv
<1>7. CASE t.status # "running"
  <2>1. srv' = [srv EXCEPT !.status = t.status, !.sent = t.sent]
    BY <1>7 DEF Commit
  <2>2. /\ srv'.clients = srv.clients /\ srv'.rooms = srv.rooms
        /\ srv'.boards = srv.boards /\ srv'.fds = srv.fds
        /\ srv'.link = srv.link /\ srv'.inq = srv.inq
        /\ srv'.sent = t.sent /\ srv'.status = t.status
        /\ srv' = [clients |-> srv'.clients, rooms |-> srv'.rooms, boards |-> srv'.boards,
                   fds |-> srv'.fds, link |-> srv'.link, inq |-> srv'.inq,
                   sent |-> srv'.sent, status |-> srv'.status]
    BY <2>1 DEF IInv, Good, TypedState
  <2>3. t.sent \in [Peers -> Seq(Message)]
        /\ t.status \in {"running", "sigpipe", "segfault", "overrun"}
    BY DEF Good, TypedState
  <2>4. TypedState(srv)'
    BY <2>2, <2>3 DEF IInv, Good, TypedState
  <2>5. SlotsOwnDescriptors(srv)' /\ PeersDistinct(srv)' /\ RoomsCounted(srv)'
    BY <2>2 DEF IInv, Good, SlotsOwnDescriptors, PeersDistinct, RoomsCounted,
                RoomCounted, SocketOf, IsOpen
  <2>6. NoSegfault'
    BY <1>1, <1>2, <2>2 DEF NoSegfault, Evolves, Running
  <2>7. QueueOK'
    BY <1>3, <2>2 DEF IInv, QueueOK
  <2>8. ScanNeverBlocks'
    <3>1. Awaiting(srv)' \subseteq Awaiting(srv)
      BY <1>3, <1>5, <2>2 DEF Awaiting
    <3> QED
      BY <1>2, <2>2, <3>1 DEF IInv, ScanNeverBlocks, IsOpen, SocketOf, Readable, PeerOf
  <2> QED
    BY <1>4, <2>4, <2>5, <2>6, <2>7, <2>8 DEF IInv, Good
<1> QED
  BY <1>6, <1>7

LEMMA HandleIInv ==
    ASSUME IInv, NEW i \in Slots, Handle(i)
    PROVE  IInv'
<1>1. CASE HandleEof(i)
  <2>1. Good(RemoveClient(srv, i)) /\ Evolves(srv, RemoveClient(srv, i))
    BY RemoveClientGood DEF IInv
  <2> QED
    BY <1>1, <2>1, HandledIInv DEF HandleEof
<1> DEFINE s == Taken(i)
<1>2. Due(i) /\ Inbox(i) # << >> => Good(s)
  BY TakenGood
<1>3. CASE HandleCreateRoom(i)
  <2>1. PICK r \in Rooms : Commit(OnCreateRoom(s, i, r))
    BY <1>3 DEF HandleCreateRoom
  <2>2. Due(i) /\ Inbox(i) # << >> /\ Scanned(i)
    BY <1>3 DEF HandleCreateRoom, Receives
  <2>3. Good(OnCreateRoom(s, i, r)) /\ Evolves(s, OnCreateRoom(s, i, r))
    BY <1>2, <2>2, OnCreateRoomGood
  <2> QED
    BY <2>1, <2>2, <2>3, HandledIInv
<1>4. CASE HandleCreateRoomFull(i)
  <2>1. Due(i) /\ Inbox(i) # << >> /\ Scanned(i) /\ Commit(SendError(s, i))
    BY <1>4 DEF HandleCreateRoomFull, Receives
  <2>2. Good(SendError(s, i)) /\ Evolves(s, SendError(s, i))
    BY <1>2, <2>1, SendGood, NoticeIsMessage DEF SendError
  <2> QED
    BY <2>1, <2>2, HandledIInv
<1>5. CASE HandleJoinRoom(i)
  <2> DEFINE t == OnJoinRoom(s, i, Head(Inbox(i)).room_id)
  <2>1. Due(i) /\ Inbox(i) # << >> /\ Scanned(i) /\ Commit(t)
    BY <1>5 DEF HandleJoinRoom, Receives
  <2>2. Good(t) /\ Evolves(s, t)
    BY <1>2, <2>1, OnJoinRoomGood
  <2> QED
    BY <2>1, <2>2, HandledIInv
<1>6. CASE HandleSubmitBoard(i)
  <2> DEFINE t == OnSubmitBoard(s, i, Head(Inbox(i)).ships)
  <2>1. Due(i) /\ Inbox(i) # << >> /\ Scanned(i) /\ Commit(t)
    BY <1>6 DEF HandleSubmitBoard, Receives
  <2>2. Good(t) /\ Evolves(s, t)
    BY <1>2, <2>1, OnSubmitBoardGood
  <2> QED
    BY <2>1, <2>2, HandledIInv
<1>7. CASE HandleShoot(i)
  <2> DEFINE t == OnShoot(s, i, Head(Inbox(i)).target)
  <2>1. Due(i) /\ Inbox(i) # << >> /\ Scanned(i) /\ Commit(t)
    BY <1>7 DEF HandleShoot, Receives
  <2>2. Good(t) /\ Evolves(s, t)
    BY <1>2, <2>1, OnShootGood
  <2> QED
    BY <2>1, <2>2, HandledIInv
<1>8. CASE HandleDisconnect(i)
  <2>1. Due(i) /\ Inbox(i) # << >> /\ Scanned(i) /\ Commit(RemoveClient(s, i))
    BY <1>8 DEF HandleDisconnect, Receives
  <2>2. Good(RemoveClient(s, i)) /\ Evolves(s, RemoveClient(s, i))
    BY <1>2, <2>1, RemoveClientGood
  <2> QED
    BY <2>1, <2>2, HandledIInv
<1>9. CASE HandleOther(i)
  <2>1. Due(i) /\ Inbox(i) # << >> /\ Scanned(i) /\ Commit(s)
    BY <1>9 DEF HandleOther, Receives
  <2>2. Good(s) /\ Evolves(s, s)
    BY <1>2, <2>1, EvolvesRefl
  <2> QED
    BY <2>1, <2>2, HandledIInv
<1> QED
  BY <1>1, <1>3, <1>4, <1>5, <1>6, <1>7, <1>8, <1>9 DEF Handle

(* A step of the loop that leaves the state of the server alone.           *)
LEMMA SameGood ==
    ASSUME IInv, UNCHANGED srv
    PROVE  Good(srv)' /\ NoSegfault'
<1>1. TypedState(srv)'
  BY DEF IInv, Good, TypedState
<1>2. SlotsOwnDescriptors(srv)' /\ PeersDistinct(srv)'
  BY DEF IInv, Good, SlotsOwnDescriptors, PeersDistinct, SocketOf, IsOpen
<1>3. RoomsCounted(srv)' /\ NoSegfault'
  BY DEF IInv, Good, RoomsCounted, RoomCounted, NoSegfault
<1> QED
  BY <1>1, <1>2, <1>3 DEF Good

(* select() reports descriptors of connected clients, which are open.      *)
LEMMA SelectIInv ==
    ASSUME IInv, Select
    PROVE  IInv'
<1>1. /\ srv' = srv /\ backlog' = backlog /\ readfds' = ReadyFds(srv) /\ next' = 0
      /\ phase' = IF backlog # << >> THEN "accept" ELSE "scan"
  BY DEF Select
<1>2. \A fd \in ReadyFds(srv) : fd \in Fds /\ srv.fds[fd] # NULL
  BY DEF ReadyFds, IInv, Good, SlotsOwnDescriptors, SocketOf, IsOpen
<1>3. Good(srv)' /\ NoSegfault'
  BY <1>1, SameGood
<1>4. LoopTypeOK'
  BY <1>1, <1>2, ServerAssumption DEF IInv, LoopTypeOK
<1>5. QueueOK'
  BY <1>1, <1>2 DEF IInv, QueueOK
<1>6. ScanNeverBlocks'
  <2> SUFFICES ASSUME NEW j \in Slots, srv.clients[j].is_connected,
                      SocketOf(srv, j) \in ReadyFds(srv)
               PROVE  IsOpen(srv, SocketOf(srv, j)) /\ Readable(srv, PeerOf(srv, j))
    BY <1>1 DEF ScanNeverBlocks, Awaiting, IsOpen, SocketOf, Readable, PeerOf
  <2> QED
    BY <1>2 DEF ReadyFds, IsOpen, PeerOf, SocketOf
<1> QED
  BY <1>3, <1>4, <1>5, <1>6 DEF IInv

(* accept() takes the head of the queue, which may then be behind a        *)
(* descriptor.                                                             *)
LEMMA QueueTail ==
    ASSUME IInv, phase = "accept", backlog' = Tail(backlog), phase' = "scan",
           \A p \in Peers : srv.link[p] # "idle" => srv'.link[p] # "idle",
           \A fd \in Fds : srv'.fds[fd] = srv.fds[fd] \/ srv'.fds[fd] = Head(backlog)
    PROVE  QueueOK'
<1>1. backlog \in Seq(Peers) /\ backlog # << >>
  BY DEF IInv, LoopTypeOK, QueueOK
<1>2. \A n \in DOMAIN Tail(backlog) :
         /\ n + 1 \in DOMAIN backlog /\ n \in Int /\ n + 1 # 1
         /\ Tail(backlog)[n] = backlog[n + 1] /\ backlog[n + 1] \in Peers
  BY <1>1
<1>3. Head(backlog) = backlog[1] /\ 1 \in DOMAIN backlog
  BY <1>1
<1>4. \A m, n \in DOMAIN backlog : m # n => backlog[m] # backlog[n]
  BY DEF IInv, QueueOK
<1>5. \A n \in DOMAIN Tail(backlog) : Tail(backlog)[n] # Head(backlog)
  BY <1>2, <1>3, <1>4
<1>6. \A n \in DOMAIN Tail(backlog) :
         /\ srv'.link[Tail(backlog)[n]] # "idle"
         /\ \A d \in Fds : srv'.fds[d] # Tail(backlog)[n]
  BY <1>2, <1>5 DEF IInv, QueueOK
<1>7. \A m, n \in DOMAIN Tail(backlog) : m # n => Tail(backlog)[m] # Tail(backlog)[n]
  <2> SUFFICES ASSUME NEW m \in DOMAIN Tail(backlog), NEW n \in DOMAIN Tail(backlog),
                      m # n
               PROVE  backlog[m + 1] # backlog[n + 1]
    BY <1>2
  <2>1. m + 1 # n + 1 /\ m + 1 \in DOMAIN backlog /\ n + 1 \in DOMAIN backlog
    BY <1>2
  <2> QED
    BY <1>4, <2>1
<1> QED
  BY <1>6, <1>7 DEF QueueOK

(* The new connection takes a free descriptor and a free slot, neither of  *)
(* which the scan that follows is about to serve.                          *)
LEMMA AcceptIInv ==
    ASSUME IInv, Accept
    PROVE  IInv'
<1> DEFINE p == Head(backlog)
<1>1. PICK fd \in FreeFds, i \in FreeSlots :
         srv' = [srv EXCEPT !.fds[fd] = p,
                            !.clients[i] = [FreeSlot EXCEPT !.socket_fd = fd,
                                                            !.is_connected = TRUE]]
  BY DEF Accept
<1> DEFINE client == [FreeSlot EXCEPT !.socket_fd = fd, !.is_connected = TRUE]
           fds == [srv.fds EXCEPT ![fd] = p]
           clients == [srv.clients EXCEPT ![i] = client]
<1>2. /\ backlog' = Tail(backlog) /\ phase' = "scan" /\ phase = "accept"
      /\ readfds' = readfds /\ next' = next
  BY DEF Accept
<1>3. /\ fd \in Fds /\ srv.fds[fd] = NULL /\ fd \notin readfds
      /\ i \in Slots /\ ~srv.clients[i].is_connected
  BY <1>2 DEF FreeFds, FreeSlots, IInv, QueueOK
<1>4. /\ backlog \in Seq(Peers) /\ backlog # << >> /\ p \in Peers /\ p # NULL
      /\ srv.link[p] # "idle" /\ \A d \in Fds : srv.fds[d] # p
  BY <1>2, ServerAssumption DEF IInv, QueueOK, LoopTypeOK
<1>5. /\ client \in Client /\ client.socket_fd = fd /\ client.is_connected
  BY <1>3 DEF FreeSlot, Client
<1> HIDE DEF client, p
<1>6. srv' = [srv EXCEPT !.fds = fds, !.clients = clients]
  BY <1>1 DEF client, IInv, Good, TypedState
<1>7. /\ fds \in [Fds -> Peers \cup {NULL}] /\ clients \in [Slots -> Client]
      /\ \A d \in Fds : fds[d] = IF d = fd THEN p ELSE srv.fds[d]
      /\ \A j \in Slots : clients[j] = IF j = i THEN client ELSE srv.clients[j]
  BY <1>3, <1>4, <1>5 DEF IInv, Good, TypedState
<1> HIDE DEF fds, clients
<1>8. /\ srv'.clients = clients /\ srv'.rooms = srv.rooms
      /\ srv'.boards = srv.boards /\ srv'.fds = fds
      /\ srv'.link = srv.link /\ srv'.inq = srv.inq
      /\ srv'.sent = srv.sent /\ srv'.status = srv.status
      /\ srv' = [clients |-> srv'.clients, rooms |-> srv'.rooms, boards |-> srv'.boards,
                 fds |-> srv'.fds, link |-> srv'.link, inq |-> srv'.inq,
                 sent |-> srv'.sent, status |-> srv'.status]
  BY <1>6 DEF IInv, Good, TypedState
<1>9. TypedState(srv)' /\ RoomsCounted(srv)'
  <2>1. TypedState(srv)'
    BY <1>7, <1>8 DEF IInv, Good, TypedState
  <2>2. RoomsCounted(srv)'
    BY <1>8 DEF IInv, Good, RoomsCounted, RoomCounted
  <2> QED
    BY <2>1, <2>2
<1>10. SlotsOwnDescriptors(srv)'
  <2>1. \A j \in Slots : j # i /\ srv.clients[j].is_connected =>
           srv.clients[j].socket_fd # fd
    BY <1>3 DEF IInv, Good, SlotsOwnDescriptors, SocketOf, IsOpen
  <2>2. \A j \in Slots :
           IF clients[j].is_connected
           THEN clients[j].socket_fd \in Fds /\ fds[clients[j].socket_fd] # NULL
           ELSE clients[j].socket_fd = -1
    BY <1>3, <1>4, <1>5, <1>7, <2>1
       DEF IInv, Good, SlotsOwnDescriptors, SocketOf, IsOpen
  <2>3. \A j, k \in Slots :
           j # k /\ clients[j].is_connected /\ clients[k].is_connected
             => clients[j].socket_fd # clients[k].socket_fd
    BY <1>5, <1>7, <2>1 DEF IInv, Good, SlotsOwnDescriptors, SocketOf
  <2> QED
    BY <1>8, <2>2, <2>3 DEF SlotsOwnDescriptors, SocketOf, IsOpen
<1>11. PeersDistinct(srv)'
  BY <1>4, <1>7, <1>8 DEF IInv, Good, PeersDistinct
<1>12. LoopTypeOK'
  BY <1>2, <1>4 DEF IInv, LoopTypeOK
<1>13. QueueOK'
  <2>1. \A d \in Fds : srv'.fds[d] = srv.fds[d] \/ srv'.fds[d] = Head(backlog)
    BY <1>7, <1>8 DEF p
  <2> QED
    BY <1>2, <1>8, <2>1, QueueTail
<1>14. ScanNeverBlocks'
  <2> SUFFICES ASSUME NEW j \in Awaiting(srv)'
               PROVE  IsOpen(srv, SocketOf(srv, j))' /\ Readable(srv, PeerOf(srv, j))'
    BY DEF ScanNeverBlocks
  <2>1. j \in Slots /\ j # i /\ j \in Awaiting(srv) /\ srv'.clients[j] = srv.clients[j]
    BY <1>2, <1>3, <1>5, <1>7, <1>8 DEF Awaiting
  <2>2. IsOpen(srv, SocketOf(srv, j)) /\ Readable(srv, PeerOf(srv, j))
    BY <1>2, <2>1 DEF IInv, ScanNeverBlocks
  <2>3. SocketOf(srv, j) # fd /\ SocketOf(srv, j) \in Fds
    BY <1>3, <2>2 DEF IsOpen
  <2>4. srv'.fds[SocketOf(srv, j)] = srv.fds[SocketOf(srv, j)]
    BY <1>7, <1>8, <2>3
  <2> QED
    BY <1>8, <2>1, <2>2, <2>4 DEF IsOpen, SocketOf, Readable, PeerOf
<1> QED
  BY <1>8, <1>9, <1>10, <1>11, <1>12, <1>13, <1>14 DEF IInv, Good, NoSegfault

(* What peers do to their connections, and what becomes of a connection    *)
(* that is not behind a descriptor, disturbs no slot that is scanned.      *)
LEMMA WiresGood ==
    ASSUME IInv,
           NEW link \in [Peers -> LinkState], NEW inq \in [Peers -> Seq(Requests)],
           NEW sent \in [Peers -> Seq(Message)],
           \A p \in Peers : srv.link[p] # "idle" => link[p] # "idle",
           \A fd \in Fds : srv.fds[fd] # NULL /\ Readable(srv, srv.fds[fd]) =>
               inq[srv.fds[fd]] # << >> \/ link[srv.fds[fd]] \in HungUp,
           srv' = [srv EXCEPT !.link = link, !.inq = inq, !.sent = sent],
           phase' = phase \/ (phase # "select" /\ phase' = "scan"),
           UNCHANGED <<readfds, next>>
    PROVE  /\ Good(srv)' /\ ScanNeverBlocks' /\ NoSegfault'
           /\ srv'.clients = srv.clients /\ srv'.rooms = srv.rooms
           /\ srv'.boards = srv.boards /\ srv'.fds = srv.fds
           /\ srv'.link = link /\ srv'.inq = inq
           /\ srv'.sent = sent /\ srv'.status = srv.status
<1>1. /\ srv'.clients = srv.clients /\ srv'.rooms = srv.rooms
      /\ srv'.boards = srv.boards /\ srv'.fds = srv.fds
      /\ srv'.link = link /\ srv'.inq = inq
      /\ srv'.sent = sent /\ srv'.status = srv.status
      /\ srv' = [clients |-> srv'.clients, rooms |-> srv'.rooms, boards |-> srv'.boards,
                 fds |-> srv'.fds, link |-> srv'.link, inq |-> srv'.inq,
                 sent |-> srv'.sent, status |-> srv'.status]
  BY DEF IInv, Good, TypedState
<1>2. TypedState(srv)'
  BY <1>1 DEF IInv, Good, TypedState
<1>3. SlotsOwnDescriptors(srv)'
  BY <1>1 DEF IInv, Good, SlotsOwnDescriptors, SocketOf, IsOpen
<1>4. RoomsCounted(srv)'
  BY <1>1 DEF IInv, Good, RoomsCounted, RoomCounted
<1>5. PeersDistinct(srv)'
  BY <1>1 DEF IInv, Good, TypedState, PeersDistinct
<1>6. ScanNeverBlocks'
  <2>1. Awaiting(srv)' = Awaiting(srv)
    BY <1>1 DEF Awaiting
  <2>2. phase' # "select" => phase # "select"
    OBVIOUS
  <2>3. \A j \in Awaiting(srv) : IsOpen(srv, SocketOf(srv, j)) /\ Readable(srv, PeerOf(srv, j))
           => IsOpen(srv, SocketOf(srv, j))' /\ Readable(srv, PeerOf(srv, j))'
    BY <1>1 DEF IsOpen, SocketOf, Readable, PeerOf
  <2> QED
    BY <2>1, <2>2, <2>3 DEF IInv, ScanNeverBlocks
<1>7. NoSegfault'
  BY <1>1 DEF IInv, NoSegfault
<1> QED
  BY <1>1, <1>2, <1>3, <1>4, <1>5, <1>6, <1>7 DEF Good

LEMMA ConnectionsGood ==
    ASSUME IInv,
           NEW link \in [Peers -> LinkState], NEW inq \in [Peers -> Seq(Requests)],
           \A p \in Peers : srv.link[p] # "idle" => link[p] # "idle",
           \A fd \in Fds : srv.fds[fd] # NULL /\ Readable(srv, srv.fds[fd]) =>
               inq[srv.fds[fd]] # << >> \/ link[srv.fds[fd]] \in HungUp,
           srv' = [srv EXCEPT !.link = link, !.inq = inq],
           phase' = phase \/ (phase # "select" /\ phase' = "scan"),
           UNCHANGED <<readfds, next>>
    PROVE  /\ Good(srv)' /\ ScanNeverBlocks' /\ NoSegfault'
           /\ srv'.link = link /\ srv'.fds = srv.fds
<1>1. /\ srv' = [srv EXCEPT !.link = link, !.inq = inq, !.sent = srv.sent]
      /\ srv.sent \in [Peers -> Seq(Message)]
  BY DEF IInv, Good, TypedState
<1> QED
  BY <1>1, WiresGood

(* What happens on the connections alone keeps the invariant.              *)
LEMMA WiresIInv ==
    ASSUME IInv,
           NEW link \in [Peers -> LinkState], NEW inq \in [Peers -> Seq(Requests)],
           NEW sent \in [Peers -> Seq(Message)],
           \A p \in Peers : srv.link[p] # "idle" => link[p] # "idle",
           \A p \in Peers : srv.inq[p] # << >> => inq[p] # << >>,
           \A p \in Peers : srv.link[p] \in HungUp => link[p] \in HungUp,
           srv' = [srv EXCEPT !.link = link, !.inq = inq, !.sent = sent],
           UNCHANGED <<phase, readfds, next, backlog>>
    PROVE  IInv'
<1>1. \A fd \in Fds : srv.fds[fd] # NULL /\ Readable(srv, srv.fds[fd]) =>
         inq[srv.fds[fd]] # << >> \/ link[srv.fds[fd]] \in HungUp
  BY DEF Readable, IInv, Good, TypedState
<1>2. /\ Good(srv)' /\ ScanNeverBlocks' /\ NoSegfault'
      /\ srv'.link = link /\ srv'.fds = srv.fds
  BY <1>1, WiresGood
<1>3. \A n \in DOMAIN backlog : backlog[n] \in Peers
  BY DEF IInv, LoopTypeOK
<1>4. QueueOK' /\ LoopTypeOK'
  BY <1>2, <1>3 DEF IInv, QueueOK, LoopTypeOK
<1> QED
  BY <1>2, <1>4 DEF IInv

LEMMA RejectIInv ==
    ASSUME IInv, Reject
    PROVE  IInv'
<1> DEFINE p == Head(backlog)
           link == [srv.link EXCEPT ![p] = "closed"]
           inq == [srv.inq EXCEPT ![p] = << >>]
<1>1. /\ phase = "accept" /\ backlog' = Tail(backlog) /\ phase' = "scan"
      /\ readfds' = readfds /\ next' = next
      /\ srv' = [srv EXCEPT !.link[p] = "closed", !.inq[p] = << >>]
  BY DEF Reject
<1>2. srv' = [srv EXCEPT !.link = link, !.inq = inq]
  BY <1>1 DEF IInv, Good, TypedState
<1>3. /\ backlog \in Seq(Peers) /\ backlog # << >> /\ p \in Peers
      /\ \A fd \in Fds : srv.fds[fd] # p
  BY <1>1 DEF IInv, LoopTypeOK, QueueOK
<1> HIDE DEF p
<1>4. link \in [Peers -> LinkState] /\ inq \in [Peers -> Seq(Requests)]
  BY <1>3 DEF IInv, Good, TypedState, LinkState
<1>5. \A q \in Peers : /\ link[q] = IF q = p THEN "closed" ELSE srv.link[q]
                       /\ inq[q] = IF q = p THEN << >> ELSE srv.inq[q]
  BY DEF IInv, Good, TypedState
<1> HIDE DEF link, inq
<1>6. \A q \in Peers : srv.link[q] # "idle" => link[q] # "idle"
  BY <1>5
<1>7. \A fd \in Fds : srv.fds[fd] # NULL /\ Readable(srv, srv.fds[fd]) =>
         inq[srv.fds[fd]] # << >> \/ link[srv.fds[fd]] \in HungUp
  BY <1>3, <1>5 DEF Readable, IInv, Good, TypedState
<1>8. /\ Good(srv)' /\ ScanNeverBlocks' /\ NoSegfault'
      /\ srv'.link = link /\ srv'.fds = srv.fds
  BY <1>1, <1>2, <1>4, <1>6, <1>7, ConnectionsGood
<1>9. QueueOK'
  BY <1>1, <1>6, <1>8, QueueTail
<1>10. LoopTypeOK'
  BY <1>1, <1>3 DEF IInv, LoopTypeOK
<1> QED
  BY <1>8, <1>9, <1>10 DEF IInv

LEMMA PeerConnectIInv ==
    ASSUME IInv, NEW p \in Peers, PeerConnect(p)
    PROVE  IInv'
<1> DEFINE link == [srv.link EXCEPT ![p] = "open"]
<1>1. /\ srv.link[p] = "idle" /\ srv' = [srv EXCEPT !.link[p] = "open"]
      /\ backlog' = Append(backlog, p)
      /\ phase' = phase /\ readfds' = readfds /\ next' = next
  BY DEF PeerConnect
<1>2. srv' = [srv EXCEPT !.link = link, !.inq = srv.inq]
  BY <1>1 DEF IInv, Good, TypedState
<1>3. link \in [Peers -> LinkState] /\ srv.inq \in [Peers -> Seq(Requests)]
      /\ \A q \in Peers : link[q] = IF q = p THEN "open" ELSE srv.link[q]
  BY DEF IInv, Good, TypedState, LinkState
<1> HIDE DEF link
<1>4. \A q \in Peers : srv.link[q] # "idle" => link[q] # "idle"
  BY <1>3
<1>5. \A fd \in Fds : srv.fds[fd] # NULL /\ Readable(srv, srv.fds[fd]) =>
         srv.inq[srv.fds[fd]] # << >> \/ link[srv.fds[fd]] \in HungUp
  BY <1>1, <1>3 DEF Readable, HungUp, IInv, Good, TypedState
<1>6. /\ Good(srv)' /\ ScanNeverBlocks' /\ NoSegfault'
      /\ srv'.link = link /\ srv'.fds = srv.fds
  BY <1>1, <1>2, <1>3, <1>4, <1>5, ConnectionsGood
<1>7. backlog \in Seq(Peers) /\ \A n \in DOMAIN backlog : backlog[n] \in Peers /\ backlog[n] # p
  BY <1>1 DEF IInv, LoopTypeOK, QueueOK
<1>8. /\ DOMAIN backlog' = DOMAIN backlog \cup {Len(backlog) + 1}
      /\ backlog'[Len(backlog) + 1] = p
      /\ \A n \in DOMAIN backlog : backlog'[n] = backlog[n]
      /\ Len(backlog) + 1 \notin DOMAIN backlog
      /\ backlog' # << >>
  BY <1>1, <1>7
<1>9. \A fd \in Fds : srv.fds[fd] # p
  BY <1>1, ServerAssumption DEF IInv, Good, PeersDistinct
<1>10. QueueOK'
  <2>1. \A n \in DOMAIN backlog' : /\ srv'.link[backlog'[n]] # "idle"
                                   /\ \A fd \in Fds : srv'.fds[fd] # backlog'[n]
    BY <1>3, <1>4, <1>6, <1>7, <1>8, <1>9 DEF IInv, QueueOK
  <2>2. \A m, n \in DOMAIN backlog' : m # n => backlog'[m] # backlog'[n]
    BY <1>7, <1>8 DEF IInv, QueueOK
  <2> QED
    BY <1>1, <1>6, <1>8, <2>1, <2>2 DEF IInv, QueueOK
<1>11. LoopTypeOK'
  BY <1>1, <1>7 DEF IInv, LoopTypeOK
<1> QED
  BY <1>6, <1>10, <1>11 DEF IInv

LEMMA PeerSendIInv ==
    ASSUME IInv, NEW p \in Peers, NEW m \in Requests, PeerSend(p, m)
    PROVE  IInv'
<1> DEFINE inq == [srv.inq EXCEPT ![p] = Append(srv.inq[p], m)]
<1>1. /\ srv' = [srv EXCEPT !.inq[p] = Append(srv.inq[p], m)]
      /\ backlog' = backlog /\ phase' = phase /\ readfds' = readfds /\ next' = next
  BY DEF PeerSend
<1>2. srv' = [srv EXCEPT !.link = srv.link, !.inq = inq]
  BY <1>1 DEF IInv, Good, TypedState
<1>3. Append(srv.inq[p], m) \in Seq(Requests) /\ Append(srv.inq[p], m) # << >>
  <2>1. srv.inq[p] \in Seq(Requests)
    BY DEF IInv, Good, TypedState
  <2> QED
    BY <2>1
<1>4. /\ srv.link \in [Peers -> LinkState] /\ inq \in [Peers -> Seq(Requests)]
      /\ \A q \in Peers : srv.inq[q] # << >> => inq[q] # << >>
  BY <1>3 DEF IInv, Good, TypedState
<1> HIDE DEF inq
<1>5. \A fd \in Fds : srv.fds[fd] # NULL /\ Readable(srv, srv.fds[fd]) =>
         inq[srv.fds[fd]] # << >> \/ srv.link[srv.fds[fd]] \in HungUp
  BY <1>4 DEF Readable, IInv, Good, TypedState
<1>6. /\ Good(srv)' /\ ScanNeverBlocks' /\ NoSegfault'
      /\ srv'.link = srv.link /\ srv'.fds = srv.fds
  BY <1>1, <1>2, <1>4, <1>5, ConnectionsGood
<1>7. QueueOK' /\ LoopTypeOK'
  BY <1>1, <1>6 DEF IInv, QueueOK, LoopTypeOK
<1> QED
  BY <1>6, <1>7 DEF IInv

LEMMA PeerCloseIInv ==
    ASSUME IInv, NEW p \in Peers, PeerClose(p)
    PROVE  IInv'
<1>1. PICK how \in Closings : srv' = [srv EXCEPT !.link[p] = how]
  BY DEF PeerClose
<1> DEFINE link == [srv.link EXCEPT ![p] = how]
<1>2. backlog' = backlog /\ phase' = phase /\ readfds' = readfds /\ next' = next
  BY DEF PeerClose
<1>3. srv' = [srv EXCEPT !.link = link, !.inq = srv.inq]
  BY <1>1 DEF IInv, Good, TypedState
<1>4. how \in HungUp /\ how # "idle" /\ how \in LinkState
  BY ServerAssumption DEF HungUp, LinkState
<1>5. /\ link \in [Peers -> LinkState] /\ srv.inq \in [Peers -> Seq(Requests)]
      /\ \A q \in Peers : link[q] = IF q = p THEN how ELSE srv.link[q]
  BY <1>4 DEF IInv, Good, TypedState
<1> HIDE DEF link
<1>6. \A q \in Peers : srv.link[q] # "idle" => link[q] # "idle"
  BY <1>4, <1>5
<1>7. \A fd \in Fds : srv.fds[fd] # NULL /\ Readable(srv, srv.fds[fd]) =>
         srv.inq[srv.fds[fd]] # << >> \/ link[srv.fds[fd]] \in HungUp
  BY <1>4, <1>5 DEF Readable, IInv, Good, TypedState
<1>8. /\ Good(srv)' /\ ScanNeverBlocks' /\ NoSegfault'
      /\ srv'.link = link /\ srv'.fds = srv.fds
  BY <1>2, <1>3, <1>5, <1>6, <1>7, ConnectionsGood
<1>9. \A n \in DOMAIN backlog : backlog[n] \in Peers
  BY DEF IInv, LoopTypeOK
<1>10. QueueOK' /\ LoopTypeOK'
  BY <1>2, <1>6, <1>8, <1>9 DEF IInv, QueueOK, LoopTypeOK
<1> QED
  BY <1>8, <1>10 DEF IInv

(* The other steps of the loop.                                            *)
LEMMA LoopIInv ==
    ASSUME IInv, AcceptFails \/ EndScan \/ UNCHANGED vars
    PROVE  IInv'
<1>1. srv' = srv /\ backlog' = backlog
  BY DEF AcceptFails, EndScan, vars
<1>2. Good(srv)' /\ NoSegfault'
  BY <1>1, SameGood
<1>3. LoopTypeOK'
  BY <1>1, ServerAssumption DEF AcceptFails, EndScan, vars, IInv, LoopTypeOK
<1>4. QueueOK'
  BY <1>1 DEF AcceptFails, EndScan, vars, IInv, QueueOK
<1>5. ScanNeverBlocks'
  <2>1. CASE EndScan
    BY <2>1 DEF EndScan, ScanNeverBlocks
  <2>2. CASE AcceptFails \/ UNCHANGED vars
    <3>1. /\ readfds' = readfds /\ next' = next
          /\ phase' # "select" => phase # "select"
      BY <2>2 DEF AcceptFails, vars
    <3>2. Awaiting(srv)' = Awaiting(srv)
      BY <1>1, <3>1 DEF Awaiting
    <3> QED
      BY <1>1, <3>1, <3>2 DEF IInv, ScanNeverBlocks, IsOpen, SocketOf, Readable, PeerOf
  <2> QED
    BY <2>1, <2>2
<1> QED
  BY <1>2, <1>3, <1>4, <1>5 DEF IInv

LEMMA NextIInv == IInv /\ [Next]_vars => IInv'
<1> SUFFICES ASSUME IInv, [Next]_vars PROVE IInv'
  OBVIOUS
<1>1. CASE Select
  BY <1>1, SelectIInv
<1>2. CASE Accept
  BY <1>2, AcceptIInv
<1>3. CASE Reject
  BY <1>3, RejectIInv
<1>4. CASE \E i \in Slots : Handle(i)
  BY <1>4, HandleIInv
<1>5. CASE AcceptFails \/ EndScan \/ UNCHANGED vars
  BY <1>5, LoopIInv
<1>6. CASE PeerStep
  BY <1>6, PeerConnectIInv, PeerSendIInv, PeerCloseIInv DEF PeerStep
<1> QED
  BY <1>1, <1>2, <1>3, <1>4, <1>5, <1>6 DEF Next, ServerStep

(* The invariant holds of every state the server reaches, for every size   *)
(* of its tables and whatever the peers do.                                *)
THEOREM Invariance == Spec => []IInv
<1> QED
  BY InitIInv, NextIInv, PTL DEF Spec

-----------------------------------------------------------------------------
(* The state of the server, the loop and the listener's queue keeps its    *)
(* type: no slot, seat, count, turn or descriptor ever leaves its range.   *)
THEOREM TypeCorrect == Spec => []TypeOK
<1>1. IInv => TypeOK
  BY DEF IInv, Good, LoopTypeOK, TypeOK
<1> QED
  BY <1>1, Invariance, PTL

(* remove_client, both halves of it, and accept keep the table of clients  *)
(* and the descriptor table in step: a slot in use has an open descriptor  *)
(* of its own, and a slot not in use has none.                             *)
THEOREM ClientsOwnDescriptors == Spec => []DescriptorsOwned
<1>1. IInv => DescriptorsOwned
  BY DEF IInv, Good, DescriptorsOwned
<1> QED
  BY <1>1, Invariance, PTL

(* The scan of run_server never waits in recv(), although it acts on a     *)
(* snapshot of the descriptors while the handlers close connections and    *)
(* accept() opens one.                                                     *)
THEOREM ScanDoesNotBlock == Spec => []ScanNeverBlocks
<1>1. IInv => ScanNeverBlocks
  BY DEF IInv
<1> QED
  BY <1>1, Invariance, PTL

(* create_room, join_room and remove_client keep the count of an active    *)
(* room above its seats taken, and only full rooms play.                   *)
THEOREM RoomsAreCounted == Spec => []SeatsCounted
<1>1. IInv => SeatsCounted
  BY DEF IInv, Good, RoomsCounted, SeatsCounted
<1> QED
  BY <1>1, Invariance, PTL

(* MSG_SHOOT uses connected_players[opponent_id] without a test, after the *)
(* answer to the shooter was sent; the pointer is never NULL there.        *)
THEOREM ShootFindsOpponent == Spec => []NoSegfault
<1>1. IInv => NoSegfault
  BY DEF IInv
<1> QED
  BY <1>1, Invariance, PTL
=============================================================================
