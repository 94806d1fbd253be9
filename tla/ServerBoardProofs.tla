------------------------- MODULE ServerBoardProofs --------------------------
(***************************************************************************)
(* What each function of server.c changes and what it leaves alone, as     *)
(* facts about the operators of Server.tla: the steps that the proofs      *)
(* about boards, seats and last messages take one by one.                  *)
(*                                                                         *)
(* Then proofs about the boards the server plays on, for every set of      *)
(* requests: the handlers change a board only by create_room, place_ship   *)
(* and take_shot, and take_shot only for the player who has the turn.      *)
(***************************************************************************)
EXTENDS ServerProofs

(* No call opens a descriptor or sends anything where none leads.          *)
Reaches(s, t) ==
    /\ \A fd \in Fds : t.fds[fd] \in {s.fds[fd], NULL}
    /\ \A p \in Peers : t.sent[p] # s.sent[p] => \E fd \in Fds : s.fds[fd] = p

LEMMA ReachesTrans ==
    ASSUME NEW s, NEW t, NEW u, Reaches(s, t), Reaches(t, u)
    PROVE  Reaches(s, u)
<1>1. \A p \in Peers : p # NULL
  BY ServerAssumption
<1>2. \A fd \in Fds : u.fds[fd] \in {s.fds[fd], NULL}
  BY DEF Reaches
<1>3. ASSUME NEW p \in Peers, u.sent[p] # s.sent[p]
      PROVE  \E fd \in Fds : s.fds[fd] = p
  <2>1. CASE t.sent[p] # s.sent[p]
    BY <2>1 DEF Reaches
  <2>2. CASE t.sent[p] = s.sent[p]
    <3>1. PICK fd \in Fds : t.fds[fd] = p
      BY <1>3, <2>2 DEF Reaches
    <3> QED
      BY <1>1, <3>1 DEF Reaches
  <2> QED
    BY <2>1, <2>2
<1> QED
  BY <1>2, <1>3 DEF Reaches

(* No call changes a board or the id of a room, sets up a room, assigns a  *)
(* client or adds a request, except the few that are there to do it.       *)
Follows(s, t) ==
    /\ t.boards = s.boards
    /\ \A r \in Rooms : /\ t.rooms[r].room_id = s.rooms[r].room_id
                        /\ t.rooms[r].is_active => s.rooms[r].is_active
    /\ \A j \in Slots : t.clients[j].is_connected =>
          /\ t.clients[j].assigned_room_id = s.clients[j].assigned_room_id
          /\ t.clients[j].assigned_player_id = s.clients[j].assigned_player_id
    /\ \A p \in Peers : t.inq[p] \in {s.inq[p], << >>}
    /\ Reaches(s, t)

LEMMA FollowsRefl == ASSUME NEW s PROVE Follows(s, s)
BY DEF Follows, Reaches

LEMMA FollowsTrans ==
    ASSUME NEW s, NEW t, NEW u, Follows(s, t), Follows(t, u), Evolves(t, u)
    PROVE  Follows(s, u)
BY ReachesTrans DEF Follows, Evolves

-----------------------------------------------------------------------------
(* send_message: at most one message more, for the peer behind the open    *)
(* descriptor, and only while the process runs.                            *)
Sends(s, t, fd, m) ==
    /\ t.clients = s.clients /\ t.rooms = s.rooms
    /\ t.boards = s.boards /\ t.fds = s.fds /\ t.inq = s.inq
    /\ t.status = "running" => s.status = "running"
    /\ \A p \in Peers : t.sent[p] # s.sent[p] =>
          /\ IsOpen(s, fd) /\ p = s.fds[fd]
          /\ s.status = "running"
          /\ t.sent[p] = Append(s.sent[p], m)

(* remove_client, no game in progress: the first seat the client holds is  *)
(* free, and a room with no player left inactive.                          *)
Leaves(s, t, i, r) ==
    LET room == s.rooms[r]
        left == t.rooms[r]
        held == {pl \in Players : room.connected_players[pl] = i}
    IN  /\ t.clients = s.clients /\ t.fds = s.fds /\ t.link = s.link
        /\ t.inq = s.inq /\ t.status = s.status
        /\ t.boards = s.boards /\ t.sent = s.sent
        /\ \A q \in Rooms : q # r => t.rooms[q] = s.rooms[q]
        /\ left.room_id = room.room_id /\ ~left.is_game_started
        /\ held = {} => /\ left.connected_players = room.connected_players
                        /\ left.current_player_count = room.current_player_count
        /\ held # {} =>
              /\ left.connected_players =
                     [room.connected_players EXCEPT ![Min(held)] = NULL]
              /\ left.current_player_count = room.current_player_count - 1
        /\ left.is_active <=> left.current_player_count # 0

(* remove_client, last part: the slot and its descriptor are free.         *)
Frees(s, t, i) ==
    /\ t.clients = [s.clients EXCEPT ![i] = FreeSlot]
    /\ t.rooms = s.rooms /\ t.boards = s.boards
    /\ t.sent = s.sent /\ t.status = s.status
    /\ \A p \in Peers : t.inq[p] \in {s.inq[p], << >>}

(* remove_client, game in progress: both seats are given up, the room with *)
(* them, and the opponent is told.                                         *)
Abandons(s, t, i, r) ==
    LET seats == s.rooms[r].connected_players
        other == seats[1 - s.clients[i].assigned_player_id]
        gone  == {i} \cup {seats[pl] : pl \in Players}
    IN  /\ \A j \in Slots :
              /\ t.clients[j].is_connected <=> s.clients[j].is_connected /\ j \notin gone
              /\ t.clients[j].assigned_room_id = s.clients[j].assigned_room_id
              /\ t.clients[j].assigned_player_id = s.clients[j].assigned_player_id
        /\ ~t.rooms[r].is_active
        /\ t.rooms[r].room_id = s.rooms[r].room_id
        /\ \A q \in Rooms : q # r => t.rooms[q] = s.rooms[q]
        /\ t.boards = s.boards /\ t.fds = s.fds /\ t.inq = s.inq
        /\ t.status = "running" => s.status = "running"
        /\ \A p \in Peers : t.sent[p] # s.sent[p] =>
              /\ other # NULL
              /\ IsOpen(s, SocketOf(s, other)) /\ p = s.fds[SocketOf(s, other)]
              /\ s.status = "running"
              /\ t.sent[p] = Append(s.sent[p], Notice("OPPONENT_LEFT"))

LEMMA SendEffect ==
    ASSUME NEW s, Good(s), NEW fd, NEW m \in Message
    PROVE  /\ Good(Send(s, fd, m)) /\ Evolves(s, Send(s, fd, m))
           /\ Sends(s, Send(s, fd, m), fd, m)
<1> DEFINE t == Send(s, fd, m)
<1>1. /\ Good(t) /\ Evolves(s, t)
      /\ t.clients = s.clients /\ t.rooms = s.rooms
      /\ t.boards = s.boards /\ t.fds = s.fds
  BY SendGood
<1>2. /\ t.inq = s.inq
      /\ t.status = "running" => s.status = "running"
      /\ \A p \in Peers : t.sent[p] # s.sent[p] =>
            /\ IsOpen(s, fd) /\ p = s.fds[fd]
            /\ s.status = "running"
            /\ t.sent[p] = Append(s.sent[p], m)
  <2>1. CASE ~IsOpen(s, fd) \/ s.status # "running"
    BY <2>1 DEF Send
  <2>2. CASE IsOpen(s, fd) /\ s.status = "running"
    <3> DEFINE q == s.fds[fd]
    <3>1. CASE s.link[q] = "broken"
      BY <2>2, <3>1 DEF Send, Good, TypedState
    <3>2. CASE s.link[q] # "broken"
      <4> DEFINE sent == [s.sent EXCEPT ![q] = IF m.type \in Observed /\ s.link[q] # "reset"
                                               THEN Append(@, m) ELSE @]
                 link == [s.link EXCEPT ![q] = AfterSend(@)]
      <4>1. t = [s EXCEPT !.link = link, !.sent = sent]
        BY <2>2, <3>2 DEF Send, Good, TypedState
      <4>2. t.inq = s.inq /\ t.sent = sent /\ t.status = s.status
        <5> HIDE DEF t, link, sent
        <5> QED
          BY <4>1 DEF Good, TypedState
      <4>3. \A p \in Peers : sent[p] # s.sent[p] => p = q /\ sent[p] = Append(s.sent[p], m)
        BY DEF Good, TypedState
      <4> QED
        BY <2>2, <4>2, <4>3
    <3> QED
      BY <3>1, <3>2
  <2> QED
    BY <2>1, <2>2
<1> HIDE DEF t
<1>3. Sends(s, t, fd, m)
  BY <1>1, <1>2, Zenon DEF Sends
<1> QED
  BY <1>1, <1>3 DEF t

LEMMA SendFollows ==
    ASSUME NEW s, NEW t, NEW fd, NEW m, Sends(s, t, fd, m)
    PROVE  Follows(s, t)
<1>1. Reaches(s, t)
  BY DEF Sends, Reaches, IsOpen
<1> QED
  BY <1>1 DEF Sends, Follows

LEMMA LeaveRoomEffect ==
    ASSUME NEW s, Good(s), NEW i \in Slots, NEW r \in Rooms,
           s.rooms[r].is_active, ~s.rooms[r].is_game_started
    PROVE  Leaves(s, LeaveRoom(s, i, r), i, r)
<1> DEFINE room == s.rooms[r]
           held == {pl \in Players : room.connected_players[pl] = i}
           seat == Min(held)
           left == IF held = {} THEN room
                   ELSE [room EXCEPT !.connected_players[seat] = NULL,
                                     !.current_player_count = @ - 1]
           final == IF left.current_player_count = 0
                    THEN [left EXCEPT !.is_active = FALSE] ELSE left
           t == LeaveRoom(s, i, r)
<1>1. room \in Room /\ room.is_active /\ ~room.is_game_started
  BY DEF Good, TypedState
<1>2. t = [s EXCEPT !.rooms[r] = final]
  BY DEF LeaveRoom
<1>3. /\ left.room_id = room.room_id /\ ~left.is_game_started /\ left.is_active
      /\ held = {} => /\ left.connected_players = room.connected_players
                      /\ left.current_player_count = room.current_player_count
      /\ held # {} =>
            /\ left.connected_players = [room.connected_players EXCEPT ![seat] = NULL]
            /\ left.current_player_count = room.current_player_count - 1
      /\ DOMAIN left = DOMAIN room
  <2> HIDE DEF room, held, seat
  <2> QED
    BY <1>1 DEF Room
<1>4. /\ final.room_id = left.room_id /\ ~final.is_game_started
      /\ final.connected_players = left.connected_players
      /\ final.current_player_count = left.current_player_count
      /\ final.is_active <=> final.current_player_count # 0
  <2> HIDE DEF left
  <2>1. CASE left.current_player_count = 0
    BY <1>1, <1>3, <2>1 DEF Room
  <2>2. CASE left.current_player_count # 0
    BY <1>3, <2>2
  <2> QED
    BY <2>1, <2>2
<1> HIDE DEF final, left
<1>5. /\ t.clients = s.clients /\ t.fds = s.fds /\ t.link = s.link
      /\ t.inq = s.inq /\ t.status = s.status
      /\ t.boards = s.boards /\ t.sent = s.sent
      /\ t.rooms[r] = final
      /\ \A q \in Rooms : q # r => t.rooms[q] = s.rooms[q]
  <2> HIDE DEF t
  <2> QED
    BY <1>2 DEF Good, TypedState
<1>6. Leaves(s, t, i, r)
  BY <1>3, <1>4, <1>5 DEF Leaves
<1> QED
  BY <1>6 DEF t

LEMMA LeaveRoomFollows ==
    ASSUME NEW s, NEW t, NEW i, NEW r \in Rooms, Leaves(s, t, i, r), s.rooms[r].is_active
    PROVE  Follows(s, t)
BY DEF Leaves, Follows, Reaches

LEMMA FreeClientEffect ==
    ASSUME NEW s, Good(s), NEW i \in Slots
    PROVE  LET t == [CloseFd(s, SocketOf(s, i)) EXCEPT !.clients[i] = FreeSlot]
           IN  Frees(s, t, i) /\ Follows(s, t)
<1> DEFINE fd == SocketOf(s, i)
           u == CloseFd(s, fd)
           t == [u EXCEPT !.clients[i] = FreeSlot]
<1>1. /\ u.clients = s.clients /\ u.rooms = s.rooms /\ u.boards = s.boards
      /\ u.sent = s.sent /\ u.status = s.status
      /\ \A p \in Peers : u.inq[p] \in {s.inq[p], << >>}
      /\ DOMAIN u = DOMAIN s
  <2>1. CASE ~IsOpen(s, fd)
    BY <2>1 DEF CloseFd
  <2>2. CASE IsOpen(s, fd)
    <3> DEFINE p == s.fds[fd]
    <3>1. u = [s EXCEPT !.fds[fd] = NULL, !.link[p] = "closed", !.inq[p] = << >>]
      BY <2>2 DEF CloseFd
    <3> HIDE DEF u, fd, p
    <3>2. /\ u.clients = s.clients /\ u.rooms = s.rooms /\ u.boards = s.boards
          /\ u.sent = s.sent /\ u.status = s.status /\ DOMAIN u = DOMAIN s
      BY <3>1 DEF Good, TypedState
    <3>3. u.inq = [s.inq EXCEPT ![p] = << >>]
      BY <3>1 DEF Good, TypedState
    <3> QED
      BY <3>2, <3>3 DEF Good, TypedState
  <2> QED
    BY <2>1, <2>2
<1>2. {"clients", "rooms", "boards", "sent", "status", "inq"} \subseteq DOMAIN s
  BY DEF Good, TypedState
<1>0. Evolves(s, t)
  BY FreeClientGood
<1> HIDE DEF u
<1>3. /\ t.clients = [u.clients EXCEPT ![i] = FreeSlot]
      /\ t.rooms = u.rooms /\ t.boards = u.boards
      /\ t.sent = u.sent /\ t.status = u.status /\ t.inq = u.inq
  BY <1>1, <1>2
<1> HIDE DEF t
<1>4. Follows(s, t)
  <2>1. \A j \in Slots : t.clients[j].is_connected => j # i /\ t.clients[j] = s.clients[j]
    BY <1>1, <1>3 DEF Good, TypedState, FreeSlot
  <2>2. Reaches(s, t)
    BY <1>0, <1>1, <1>3 DEF Evolves, Reaches
  <2> QED
    BY <1>1, <1>3, <2>1, <2>2 DEF Follows
<1>5. Frees(s, t, i)
  BY <1>1, <1>3 DEF Frees
<1> QED
  BY <1>4, <1>5 DEF t, u

LEMMA AbandonGameEffect ==
    ASSUME NEW s, Good(s), NEW i \in Slots, NEW r \in Rooms
    PROVE  Abandons(s, AbandonGame(s, i, r), i, r)
<1> DEFINE seats == s.rooms[r].connected_players
           other == seats[1 - s.clients[i].assigned_player_id]
           told == IF other = NULL THEN s
                   ELSE Send(s, SocketOf(s, other), Notice("OPPONENT_LEFT"))
           gone == {i} \cup {seats[pl] : pl \in Players}
           clients == [j \in Slots |->
                         IF j \in gone
                         THEN [s.clients[j] EXCEPT !.is_connected = FALSE, !.socket_fd = -1]
                         ELSE s.clients[j]]
           t == AbandonGame(s, i, r)
<1>1. /\ Good(told)
      /\ told.clients = s.clients /\ told.rooms = s.rooms
      /\ told.boards = s.boards /\ told.fds = s.fds /\ told.inq = s.inq
      /\ told.status = "running" => s.status = "running"
      /\ \A p \in Peers : told.sent[p] # s.sent[p] =>
            /\ other # NULL
            /\ IsOpen(s, SocketOf(s, other)) /\ p = s.fds[SocketOf(s, other)]
            /\ s.status = "running"
            /\ told.sent[p] = Append(s.sent[p], Notice("OPPONENT_LEFT"))
  <2>1. CASE other = NULL
    BY <2>1
  <2>2. CASE other # NULL
    <3> DEFINE fd == SocketOf(s, other)
    <3>1. told = Send(s, fd, Notice("OPPONENT_LEFT"))
      BY <2>2
    <3> HIDE DEF fd, told
    <3>2. Notice("OPPONENT_LEFT") \in Message
      BY NoticeIsMessage
    <3>3. /\ Good(told)
          /\ told.clients = s.clients /\ told.rooms = s.rooms
          /\ told.boards = s.boards /\ told.fds = s.fds /\ told.inq = s.inq
          /\ told.status = "running" => s.status = "running"
          /\ \A p \in Peers : told.sent[p] # s.sent[p] =>
                /\ IsOpen(s, fd) /\ p = s.fds[fd]
                /\ s.status = "running"
                /\ told.sent[p] = Append(s.sent[p], Notice("OPPONENT_LEFT"))
      BY <3>1, <3>2, SendEffect DEF Sends
    <3> HIDE DEF other
    <3> QED
      BY <2>2, <3>3 DEF fd
  <2> QED
    BY <2>1, <2>2
<1>2. \A j \in Slots :
         /\ clients[j].is_connected <=> s.clients[j].is_connected /\ j \notin gone
         /\ clients[j].assigned_room_id = s.clients[j].assigned_room_id
         /\ clients[j].assigned_player_id = s.clients[j].assigned_player_id
  <2> SUFFICES ASSUME NEW j \in Slots
               PROVE  /\ clients[j].is_connected <=> s.clients[j].is_connected /\ j \notin gone
                      /\ clients[j].assigned_room_id = s.clients[j].assigned_room_id
                      /\ clients[j].assigned_player_id = s.clients[j].assigned_player_id
    OBVIOUS
  <2>1. s.clients[j] \in Client
    BY DEF Good, TypedState
  <2> HIDE DEF gone
  <2>2. CASE j \in gone
    BY <2>1, <2>2 DEF Client
  <2>3. CASE j \notin gone
    BY <2>3
  <2> QED
    BY <2>2, <2>3
<1>3. t = [told EXCEPT !.clients = clients,
                       !.rooms[r].connected_players = [pl \in Players |-> NULL],
                       !.rooms[r].is_active = FALSE,
                       !.rooms[r].is_game_started = FALSE]
  BY DEF AbandonGame
<1> HIDE DEF told, clients, t
<1>4. /\ t.clients = clients /\ t.boards = told.boards /\ t.fds = told.fds
      /\ t.inq = told.inq /\ t.status = told.status /\ t.sent = told.sent
  BY <1>1, <1>3 DEF Good, TypedState
<1>5. /\ ~t.rooms[r].is_active
      /\ t.rooms[r].room_id = s.rooms[r].room_id
      /\ \A q \in Rooms : q # r => t.rooms[q] = s.rooms[q]
  <2> DEFINE room == [told.rooms[r] EXCEPT !.connected_players = [pl \in Players |-> NULL],
                                           !.is_active = FALSE,
                                           !.is_game_started = FALSE]
  <2>1. told.rooms[r] \in Room /\ told.rooms \in [Rooms -> Room]
    BY <1>1 DEF Good, TypedState
  <2>2. t.rooms = [told.rooms EXCEPT ![r] = room]
    BY <1>1, <1>3, <2>1 DEF Good, TypedState
  <2>3. ~room.is_active /\ room.room_id = told.rooms[r].room_id
    BY <2>1 DEF Room
  <2> HIDE DEF room
  <2> QED
    BY <1>1, <2>1, <2>2, <2>3
<1>6. Abandons(s, t, i, r)
  <2>1. \A j \in Slots :
           /\ t.clients[j].is_connected <=> s.clients[j].is_connected /\ j \notin gone
           /\ t.clients[j].assigned_room_id = s.clients[j].assigned_room_id
           /\ t.clients[j].assigned_player_id = s.clients[j].assigned_player_id
    BY <1>2, <1>4
  <2>2. /\ t.boards = s.boards /\ t.fds = s.fds /\ t.inq = s.inq
        /\ t.status = "running" => s.status = "running"
        /\ \A p \in Peers : t.sent[p] # s.sent[p] =>
              /\ other # NULL
              /\ IsOpen(s, SocketOf(s, other)) /\ p = s.fds[SocketOf(s, other)]
              /\ s.status = "running"
              /\ t.sent[p] = Append(s.sent[p], Notice("OPPONENT_LEFT"))
    <3> HIDE DEF other
    <3> QED
      BY <1>1, <1>4
  <2> QED
    BY <1>5, <2>1, <2>2, Zenon DEF Abandons
<1> QED
  BY <1>6 DEF t

LEMMA AbandonGameFollows ==
    ASSUME NEW s, NEW t, NEW i, NEW r \in Rooms, Abandons(s, t, i, r)
    PROVE  Follows(s, t)
<1>1. Reaches(s, t)
  BY DEF Abandons, Reaches, IsOpen
<1> QED
  BY <1>1 DEF Abandons, Follows

-----------------------------------------------------------------------------
(* remove_client, no game in progress.                                     *)
Quits(s, t, i) ==
    \E left :
        /\ IF RoomOf(s, i) = NULL THEN left = s ELSE Leaves(s, left, i, RoomOf(s, i))
        /\ Good(left)
        /\ Frees(left, t, i)

LEMMA RemoveClientEffect ==
    ASSUME NEW s, Good(s), NEW i \in Slots
    PROVE  LET r == RoomOf(s, i)
               t == RemoveClient(s, i)
           IN  /\ Good(t) /\ Evolves(s, t) /\ Follows(s, t)
               /\ r # NULL => r \in Rooms /\ s.rooms[r].is_active
               /\ IF r # NULL /\ s.rooms[r].is_game_started
                  THEN Abandons(s, t, i, r) ELSE Quits(s, t, i)
<1> DEFINE r == RoomOf(s, i)
           t == RemoveClient(s, i)
           left == IF r = NULL THEN s ELSE LeaveRoom(s, i, r)
<1>1. Good(t) /\ Evolves(s, t)
  BY RemoveClientGood
<1>2. r # NULL => r \in Rooms /\ s.rooms[r].is_active
  BY FindRoomIn DEF RoomOf
<1>3. CASE r # NULL /\ s.rooms[r].is_game_started
  <2>1. Abandons(s, t, i, r)
    BY <1>2, <1>3, AbandonGameEffect DEF RemoveClient
  <2> QED
    BY <1>1, <1>2, <1>3, <2>1, AbandonGameFollows
<1>4. CASE ~(r # NULL /\ s.rooms[r].is_game_started)
  <2>1. /\ Good(left) /\ Evolves(s, left) /\ Follows(s, left) /\ left.clients = s.clients
        /\ IF r = NULL THEN left = s ELSE Leaves(s, left, i, r)
    <3>1. CASE r = NULL
      BY <3>1, EvolvesRefl, FollowsRefl
    <3>2. CASE r # NULL
      <4>1. Good(left) /\ Evolves(s, left) /\ left.clients = s.clients
        BY <1>2, <1>4, <3>2, LeaveRoomGood
      <4>2. Leaves(s, left, i, r)
        BY <1>2, <1>4, <3>2, LeaveRoomEffect
      <4> QED
        BY <1>2, <3>2, <4>1, <4>2, LeaveRoomFollows
    <3> QED
      BY <3>1, <3>2
  <2>2. t = [CloseFd(left, SocketOf(left, i)) EXCEPT !.clients[i] = FreeSlot]
    BY <1>4, <2>1 DEF RemoveClient, SocketOf
  <2> HIDE DEF left, t
  <2>3. Frees(left, t, i) /\ Follows(left, t) /\ Evolves(left, t)
    BY <2>1, <2>2, FreeClientEffect, FreeClientGood
  <2>4. Quits(s, t, i)
    BY <2>1, <2>3 DEF Quits
  <2>5. Follows(s, t)
    BY <2>1, <2>3, FollowsTrans
  <2> QED
    BY <1>1, <1>2, <1>4, <2>4, <2>5 DEF t
<1> QED
  BY <1>3, <1>4

LEMMA SendOrRemoveEffect ==
    ASSUME NEW s, Good(s), NEW i \in Slots, NEW m \in Message
    PROVE  LET fd    == SocketOf(s, i)
               after == Send(s, fd, m)
               t     == SendOrRemove(s, i, m)
           IN  /\ Good(t) /\ Evolves(s, t) /\ Follows(s, t)
               /\ Good(after) /\ Sends(s, after, fd, m)
               /\ t = IF SendFails(s, fd) THEN RemoveClient(after, i) ELSE after
<1> DEFINE fd    == SocketOf(s, i)
           after == Send(s, fd, m)
           t     == SendOrRemove(s, i, m)
<1>1. Good(t) /\ Evolves(s, t)
  BY SendOrRemoveGood
<1>2. t = IF SendFails(s, fd) THEN RemoveClient(after, i) ELSE after
  BY DEF SendOrRemove
<1>3. Good(after) /\ Evolves(s, after) /\ Sends(s, after, fd, m) /\ Follows(s, after)
  BY SendEffect, SendFollows
<1> HIDE DEF after, t
<1>4. /\ Follows(after, RemoveClient(after, i)) /\ Evolves(after, RemoveClient(after, i))
  BY <1>3, RemoveClientEffect
<1>5. Follows(s, t)
  BY <1>2, <1>3, <1>4, FollowsTrans
<1> QED
  BY <1>1, <1>2, <1>3, <1>5 DEF after, t

(* join_room gives the next seat of the room to the client.                *)
Joins(s, t, i, r) ==
    LET count == s.rooms[r].current_player_count
    IN  /\ t.boards = s.boards /\ t.fds = s.fds /\ t.link = s.link
        /\ t.inq = s.inq /\ t.sent = s.sent /\ t.status = s.status
        /\ \A q \in Rooms : q # r => t.rooms[q] = s.rooms[q]
        /\ t.rooms[r] = [s.rooms[r] EXCEPT
                            !.connected_players =
                                [s.rooms[r].connected_players EXCEPT ![count] = i],
                            !.current_player_count = count + 1]
        /\ \A j \in Slots : j # i => t.clients[j] = s.clients[j]
        /\ t.clients[i] = [s.clients[i] EXCEPT !.assigned_player_id = count,
                                               !.assigned_room_id = s.rooms[r].room_id]

LEMMA JoinRoomEffect ==
    ASSUME NEW s, Good(s), NEW i \in Slots, NEW r \in Rooms
    PROVE  Joins(s, JoinRoom(s, i, r), i, r)
<1> DEFINE room  == s.rooms[r]
           count == room.current_player_count
           seats == [room.connected_players EXCEPT ![count] = i]
           new   == [room EXCEPT !.connected_players = seats,
                                 !.current_player_count = count + 1]
           client == [s.clients[i] EXCEPT !.assigned_player_id = count,
                                          !.assigned_room_id = room.room_id]
           t     == JoinRoom(s, i, r)
<1>1. t = [s EXCEPT !.rooms[r] = new, !.clients[i] = client]
  BY DEF JoinRoom, Good, TypedState, Room
<1> HIDE DEF t, new, client
<1>2. /\ t.boards = s.boards /\ t.fds = s.fds /\ t.link = s.link
      /\ t.inq = s.inq /\ t.sent = s.sent /\ t.status = s.status
      /\ t.rooms = [s.rooms EXCEPT ![r] = new]
      /\ t.clients = [s.clients EXCEPT ![i] = client]
  BY <1>1 DEF Good, TypedState
<1>3. /\ \A q \in Rooms : q # r => t.rooms[q] = s.rooms[q]
      /\ t.rooms[r] = new
      /\ \A j \in Slots : j # i => t.clients[j] = s.clients[j]
      /\ t.clients[i] = client
  BY <1>2 DEF Good, TypedState
<1> QED
  BY <1>2, <1>3, Zenon DEF Joins, t, new, client

(* create_room sets the room and its boards up anew.                       *)
Creates(s, t, r) ==
    /\ t.clients = s.clients /\ t.fds = s.fds /\ t.link = s.link
    /\ t.inq = s.inq /\ t.sent = s.sent /\ t.status = s.status
    /\ \A q \in Rooms : q # r => t.rooms[q] = s.rooms[q]
    /\ t.rooms[r] = [InitRoom EXCEPT !.room_id = RoomId(r), !.is_active = TRUE]
    /\ t.boards = [s.boards EXCEPT ![r] = [pl \in Players |-> InitBoard]]

LEMMA CreateRoomEffect ==
    ASSUME NEW s, Good(s), NEW r \in Rooms
    PROVE  Creates(s, CreateRoom(s, r), r)
<1> DEFINE new    == [InitRoom EXCEPT !.room_id = RoomId(r), !.is_active = TRUE]
           fresh  == [pl \in Players |-> InitBoard]
           t      == CreateRoom(s, r)
<1>1. t = [s EXCEPT !.rooms[r] = new, !.boards[r] = fresh]
  BY DEF CreateRoom
<1> HIDE DEF t, new, fresh
<1>2. /\ t.clients = s.clients /\ t.fds = s.fds /\ t.link = s.link
      /\ t.inq = s.inq /\ t.sent = s.sent /\ t.status = s.status
      /\ t.rooms = [s.rooms EXCEPT ![r] = new]
      /\ t.boards = [s.boards EXCEPT ![r] = fresh]
  BY <1>1 DEF Good, TypedState
<1>3. /\ \A q \in Rooms : q # r => t.rooms[q] = s.rooms[q]
      /\ t.rooms[r] = new
  BY <1>2 DEF Good, TypedState
<1> QED
  BY <1>2, <1>3, Zenon DEF Creates, t, new, fresh

(* Assignments to is_game_started and current_turn of a room.              *)
SetsGame(s, t, r, on, turn) ==
    /\ t.clients = s.clients /\ t.fds = s.fds /\ t.link = s.link
    /\ t.inq = s.inq /\ t.sent = s.sent /\ t.status = s.status
    /\ t.boards = s.boards
    /\ \A q \in Rooms : q # r => t.rooms[q] = s.rooms[q]
    /\ t.rooms[r] = [s.rooms[r] EXCEPT !.is_game_started = on, !.current_turn = turn]

LEMMA SetGameEffect ==
    ASSUME NEW s, Good(s), NEW r \in Rooms, NEW on, NEW turn
    PROVE  LET t == [s EXCEPT !.rooms[r] = [s.rooms[r] EXCEPT !.is_game_started = on,
                                                              !.current_turn = turn]]
           IN  SetsGame(s, t, r, on, turn) /\ Follows(s, t)
<1> DEFINE new == [s.rooms[r] EXCEPT !.is_game_started = on, !.current_turn = turn]
           t   == [s EXCEPT !.rooms[r] = new]
<1>1. new.room_id = s.rooms[r].room_id /\ new.is_active = s.rooms[r].is_active
  BY DEF Good, TypedState, Room
<1>2. t = [s EXCEPT !.rooms[r] = new]
  OBVIOUS
<1> HIDE DEF t, new
<1>3. /\ t.clients = s.clients /\ t.fds = s.fds /\ t.link = s.link
      /\ t.inq = s.inq /\ t.sent = s.sent /\ t.status = s.status
      /\ t.boards = s.boards
      /\ t.rooms = [s.rooms EXCEPT ![r] = new]
  BY <1>2 DEF Good, TypedState
<1>4. /\ \A q \in Rooms : q # r => t.rooms[q] = s.rooms[q]
      /\ t.rooms[r] = new
  BY <1>3 DEF Good, TypedState
<1>5. Follows(s, t)
  BY <1>1, <1>3, <1>4 DEF Follows, Reaches
<1>6. SetsGame(s, t, r, on, turn)
  BY <1>3, <1>4, Zenon DEF SetsGame, new
<1> QED
  BY <1>5, <1>6 DEF t, new

-----------------------------------------------------------------------------
LEMMA SendSeatEffect ==
    ASSUME NEW s, Good(s), NEW r, NEW pl, NEW m \in Message
    PROVE  LET t == SendSeat(s, r, pl, m)
           IN  /\ Good(t) /\ Evolves(s, t) /\ Follows(s, t)
               /\ Sends(s, t, SocketOf(s, s.rooms[r].connected_players[pl]), m)
BY SendEffect, SendFollows DEF SendSeat

LEMMA SendTurnMessagesFollows ==
    ASSUME NEW s, Good(s), NEW r, NEW pl
    PROVE  Follows(s, SendTurnMessages(s, r, pl))
<1> DEFINE u == SendSeat(s, r, pl, Notice("YOUR_TURN"))
           v == SendSeat(u, r, 1 - pl, Notice("WAIT_TURN"))
<1>1. SendTurnMessages(s, r, pl) = IF ~BothSeated(s, r) THEN s ELSE v
  BY DEF SendTurnMessages
<1>2. Good(u) /\ Evolves(s, u) /\ Follows(s, u)
  BY SendSeatEffect, NoticeIsMessage
<1> HIDE DEF u
<1>3. Evolves(u, v) /\ Follows(u, v)
  BY <1>2, SendSeatEffect, NoticeIsMessage
<1> HIDE DEF v
<1>4. Follows(s, v)
  BY <1>2, <1>3, FollowsTrans
<1> QED
  BY <1>1, <1>4, FollowsRefl

(* start_game_when_ready: the players are told, the game is on, player 0   *)
(* has the turn.                                                           *)
Starts(s, t, r, u, told, on) ==
    LET start == Notice("GAME_START")
        seats == s.rooms[r].connected_players
    IN  /\ Good(u) /\ Sends(s, u, SocketOf(s, seats[0]), start)
        /\ Good(told) /\ Sends(u, told, SocketOf(s, seats[1]), start)
        /\ Good(on) /\ SetsGame(told, on, r, TRUE, 0)
        /\ Follows(s, on)
        /\ t = SendTurnMessages(on, r, 0)

LEMMA StartGameEffect ==
    ASSUME NEW s, Good(s), NEW r \in Rooms, BothSeated(s, r)
    PROVE  \E u, told, on : Starts(s, StartGame(s, r), r, u, told, on)
<1> DEFINE u == SendSeat(s, r, 0, Notice("GAME_START"))
           told == SendSeat(u, r, 1, Notice("GAME_START"))
           on == [told EXCEPT !.rooms[r] = [told.rooms[r] EXCEPT !.is_game_started = TRUE,
                                                                 !.current_turn = 0]]
           start == Notice("GAME_START")
           seats == s.rooms[r].connected_players
<1>1. start \in Message
  BY NoticeIsMessage
<1>2. Good(u) /\ Evolves(s, u) /\ Follows(s, u) /\ Sends(s, u, SocketOf(s, seats[0]), start)
  BY <1>1, SendSeatEffect
<1> HIDE DEF u
<1>3. /\ Good(told) /\ Evolves(u, told) /\ Follows(u, told)
      /\ Sends(u, told, SocketOf(u, u.rooms[r].connected_players[1]), start)
  BY <1>1, <1>2, SendSeatEffect
<1>4. SocketOf(u, u.rooms[r].connected_players[1]) = SocketOf(s, seats[1])
  BY <1>2 DEF Sends, SocketOf
<1> HIDE DEF told
<1>5. told.rooms = s.rooms
  BY <1>2, <1>3 DEF Sends
<1>6. StartGame(s, r) = SendTurnMessages(on, r, 0)
  <2>1. StartGame(s, r) = SendTurnMessages([told EXCEPT !.rooms[r].is_game_started = TRUE,
                                                        !.rooms[r].current_turn = 0], r, 0)
    BY DEF StartGame, told, u
  <2>2. [told EXCEPT !.rooms[r].is_game_started = TRUE, !.rooms[r].current_turn = 0] = on
    BY <1>3 DEF Good, TypedState
  <2> HIDE DEF on
  <2> QED
    BY <2>1, <2>2
<1>7. Good(on) /\ Evolves(told, on) /\ SetsGame(told, on, r, TRUE, 0) /\ Follows(told, on)
  <2>1. 0 \in Players /\ BothSeated(told, r)
    BY <1>5 DEF Players, ROOM_SIZE, BothSeated
  <2> QED
    BY <1>3, <2>1, GameFlagGood, SetGameEffect
<1> HIDE DEF on
<1>8. Follows(s, on)
  <2>1. Follows(s, told)
    BY <1>2, <1>3, FollowsTrans
  <2> QED
    BY <1>7, <2>1, FollowsTrans
<1>9. Starts(s, StartGame(s, r), r, u, told, on)
  BY <1>2, <1>3, <1>4, <1>6, <1>7, <1>8 DEF Starts
<1> QED
  BY <1>9

LEMMA StartGameFollows ==
    ASSUME NEW s, Good(s), NEW r \in Rooms
    PROVE  Follows(s, StartGame(s, r))
<1>1. CASE BothSeated(s, r)
  <2>1. PICK u, told, on : Starts(s, StartGame(s, r), r, u, told, on)
    BY <1>1, StartGameEffect
  <2>2. Follows(on, StartGame(s, r)) /\ Evolves(on, StartGame(s, r))
    BY <2>1, SendTurnMessagesFollows, SendTurnMessagesGood DEF Starts
  <2> QED
    BY <2>1, <2>2, FollowsTrans DEF Starts
<1>2. CASE ~BothSeated(s, r)
  BY <1>2, FollowsRefl DEF StartGame
<1> QED
  BY <1>1, <1>2

(* end_game_and_disconnect: both players are told who won, the game is     *)
(* off, and the loser, when one is found, and the winner are removed.      *)
Losers(s, r, winner) ==
    {j \in Slots : /\ s.clients[j].is_connected
                   /\ s.clients[j].assigned_room_id = s.rooms[r].room_id
                   /\ s.clients[j].assigned_player_id = 1 - winner}

Ends(s, t, r, i, won, told, over, rest) ==
    LET winner == s.clients[i].assigned_player_id
        seat   == s.rooms[r].connected_players[1 - winner]
        losers == Losers(s, r, winner)
    IN  /\ Good(won) /\ Sends(s, won, SocketOf(s, i), GameOver(winner))
        /\ Good(told)
        /\ IF seat = NULL THEN told = won
           ELSE Sends(won, told, SocketOf(s, seat), GameOver(winner))
        /\ Good(over) /\ SetsGame(told, over, r, FALSE, told.rooms[r].current_turn)
        /\ losers # {} => Min(losers) \in losers
        /\ rest = IF losers = {} THEN over ELSE RemoveClient(over, Min(losers))
        /\ Good(rest) /\ Follows(s, rest)
        /\ t = RemoveClient(rest, i)

LEMMA EndGameEffect ==
    ASSUME NEW s, Good(s), NEW r \in Rooms, NEW i \in Slots
    PROVE  \E won, told, over, rest : Ends(s, EndGame(s, r, i), r, i, won, told, over, rest)
<1> DEFINE winner == s.clients[i].assigned_player_id
           seat   == s.rooms[r].connected_players[1 - winner]
           m      == GameOver(winner)
           won    == Send(s, SocketOf(s, i), m)
           told   == IF seat = NULL THEN won ELSE SendSeat(won, r, 1 - winner, m)
           turn   == told.rooms[r].current_turn
           over   == [told EXCEPT !.rooms[r] = [told.rooms[r] EXCEPT
                                !.is_game_started = FALSE, !.current_turn = turn]]
           losers == Losers(s, r, winner)
           rest   == IF losers = {} THEN over ELSE RemoveClient(over, Min(losers))
<1>1. m \in Message
  BY SeatIsMessage
<1>2. Good(won) /\ Evolves(s, won) /\ Sends(s, won, SocketOf(s, i), m) /\ Follows(s, won)
  BY <1>1, SendEffect, SendFollows
<1> HIDE DEF won, m
<1>3. /\ Good(told) /\ Evolves(won, told) /\ Follows(won, told)
      /\ IF seat = NULL THEN told = won ELSE Sends(won, told, SocketOf(s, seat), m)
  <2>1. CASE seat = NULL
    BY <1>2, <2>1, EvolvesRefl, FollowsRefl
  <2>2. CASE seat # NULL
    <3>1. /\ Good(told) /\ Evolves(won, told) /\ Follows(won, told)
          /\ Sends(won, told, SocketOf(won, won.rooms[r].connected_players[1 - winner]), m)
      BY <1>1, <1>2, <2>2, SendSeatEffect
    <3>2. SocketOf(won, won.rooms[r].connected_players[1 - winner]) = SocketOf(s, seat)
      BY <1>2 DEF Sends, SocketOf
    <3> HIDE DEF told, seat
    <3> QED
      BY <2>2, <3>1, <3>2
  <2> QED
    BY <2>1, <2>2
<1>4. EndGame(s, r, i) = RemoveClient(rest, i)
  <2>1. over = [told EXCEPT !.rooms[r].is_game_started = FALSE]
    <3> HIDE DEF told
    <3> QED
      BY <1>3 DEF Good, TypedState, Room
  <2>2. EndGame(s, r, i) = LET ended == [told EXCEPT !.rooms[r].is_game_started = FALSE]
                           IN  RemoveClient(IF losers = {} THEN ended
                                            ELSE RemoveClient(ended, Min(losers)), i)
    BY DEF EndGame, Losers, won, m
  <2> HIDE DEF over, told, losers
  <2> QED
    BY <2>1, <2>2
<1> HIDE DEF told
<1>5. Good(over) /\ Evolves(told, over) /\ SetsGame(told, over, r, FALSE, turn) /\ Follows(told, over)
  <2>1. turn \in Players
    BY <1>3 DEF Good, TypedState, Room
  <2> HIDE DEF turn
  <2> QED
    BY <1>3, <2>1, GameFlagGood, SetGameEffect
<1>6. losers # {} => Min(losers) \in losers /\ Min(losers) \in Slots
  <2>1. losers \in SUBSET Nat
    BY ServerAssumption DEF Slots, Losers
  <2> QED
    BY <2>1, MinIn DEF Losers
<1> HIDE DEF over, losers
<1>7. Good(rest) /\ Evolves(over, rest) /\ Follows(over, rest)
  BY <1>5, <1>6, RemoveClientEffect, EvolvesRefl, FollowsRefl
<1>8. rest = IF losers = {} THEN over ELSE RemoveClient(over, Min(losers))
  OBVIOUS
<1> HIDE DEF rest
<1>9. Follows(s, rest)
  <2>1. Follows(s, told)
    BY <1>2, <1>3, FollowsTrans
  <2>2. Follows(s, over)
    BY <1>5, <2>1, FollowsTrans
  <2> QED
    BY <1>7, <2>2, FollowsTrans
<1>10. Ends(s, EndGame(s, r, i), r, i, won, told, over, rest)
  BY <1>2, <1>3, <1>4, <1>5, <1>6, <1>7, <1>8, <1>9, Zenon DEF Ends, losers, m
<1> QED
  BY <1>10

LEMMA EndGameFollows ==
    ASSUME NEW s, Good(s), NEW r \in Rooms, NEW i \in Slots
    PROVE  Follows(s, EndGame(s, r, i))
<1>1. PICK won, told, over, rest : Ends(s, EndGame(s, r, i), r, i, won, told, over, rest)
  BY EndGameEffect
<1>2. Follows(rest, RemoveClient(rest, i)) /\ Evolves(rest, RemoveClient(rest, i))
  BY <1>1, RemoveClientEffect DEF Ends
<1> QED
  BY <1>1, <1>2, FollowsTrans DEF Ends

LEMMA AnnounceJoinFollows ==
    ASSUME NEW s, Good(s), NEW i \in Slots, NEW r
    PROVE  Follows(s, AnnounceJoin(s, i, r))
<1> DEFINE other == s.rooms[r].connected_players[1 - s.clients[i].assigned_player_id]
           ok    == Send(s, SocketOf(s, i), Seated("JOIN_OK", s, i))
           told  == Send(ok, SocketOf(s, i), Notice("OPPONENT_JOINED"))
           both  == Send(told, SocketOf(s, other), Notice("OPPONENT_JOINED"))
           gone  == RemoveClient(ok, i)
<1>1. AnnounceJoin(s, i, r) \in {told, both, gone}
  BY DEF AnnounceJoin
<1>2. Good(ok) /\ Evolves(s, ok) /\ Follows(s, ok)
  BY SendEffect, SendFollows, SeatIsMessage
<1> HIDE DEF ok
<1>3. Good(told) /\ Evolves(ok, told) /\ Follows(ok, told)
  BY <1>2, SendEffect, SendFollows, NoticeIsMessage
<1> HIDE DEF told
<1>4. Evolves(told, both) /\ Follows(told, both)
  BY <1>3, SendEffect, SendFollows, NoticeIsMessage
<1>5. Evolves(ok, gone) /\ Follows(ok, gone)
  BY <1>2, RemoveClientEffect
<1>6. Follows(s, told) /\ Follows(s, gone)
  BY <1>2, <1>3, <1>5, FollowsTrans
<1>7. Follows(s, both)
  BY <1>4, <1>6, FollowsTrans
<1> QED
  BY <1>1, <1>6, <1>7

LEMMA AfterShotFollows ==
    ASSUME NEW s, Good(s), NEW i \in Slots, NEW r \in Rooms, NEW c,
           NEW result \in ShotResult, InBounds(c[1], c[2]),
           s.clients[i].assigned_player_id \in Players,
           BothSeated(s, r)
    PROVE  Follows(s, AfterShot(s, i, r, c, result))
<1> DEFINE pl   == s.clients[i].assigned_player_id
           told == SendSeat(s, r, 1 - pl, Report("INCOMING_SHOT", c, result))
           turn == IF result = "MISS" THEN 1 - pl ELSE pl
           on   == [told EXCEPT !.rooms[r].current_turn = turn]
           t    == AfterShot(s, i, r, c, result)
<1>1. pl \in Players /\ 1 - pl \in Players
  BY DEF Players, ROOM_SIZE
<1>2. t \in {EndGame(told, r, i), SendTurnMessages(on, r, turn)}
  BY <1>1 DEF AfterShot, BothSeated
<1>3. Good(told) /\ Evolves(s, told) /\ Follows(s, told) /\ told.rooms = s.rooms
  BY SendSeatEffect, ReportIsMessage DEF Sends
<1>4. turn \in Players
  BY <1>1
<1> HIDE DEF told, turn, pl, t
<1>5. /\ Evolves(told, EndGame(told, r, i)) /\ Follows(told, EndGame(told, r, i))
  BY <1>3, EndGameGood, EndGameFollows
<1>6. told.rooms[r] \in Room
  BY <1>3 DEF Good, TypedState
<1>7. /\ told.rooms[r].is_game_started \in BOOLEAN
      /\ on = [told EXCEPT !.rooms[r] = [told.rooms[r] EXCEPT
                    !.is_game_started = told.rooms[r].is_game_started,
                    !.current_turn = turn]]
  BY <1>3, <1>6 DEF Good, TypedState, Room
<1>8. Good(on) /\ Evolves(told, on) /\ Follows(told, on)
  <2>1. BothSeated(told, r)
    BY <1>3 DEF BothSeated
  <2> HIDE DEF on
  <2> QED
    BY <1>3, <1>4, <1>7, <2>1, GameFlagGood, SetGameEffect
<1> HIDE DEF on
<1>9. /\ Evolves(on, SendTurnMessages(on, r, turn))
      /\ Follows(on, SendTurnMessages(on, r, turn))
  BY <1>8, SendTurnMessagesGood, SendTurnMessagesFollows
<1>10. Follows(s, EndGame(told, r, i)) /\ Follows(s, on)
  BY <1>3, <1>5, <1>8, FollowsTrans
<1>11. Follows(s, SendTurnMessages(on, r, turn))
  BY <1>9, <1>10, FollowsTrans
<1> QED
  BY <1>2, <1>10, <1>11 DEF t

-----------------------------------------------------------------------------
(* MSG_SUBMIT_BOARD keeps the board and notes that it was submitted.       *)
Submits(s, t, r, pl, board) ==
    /\ t.clients = s.clients /\ t.fds = s.fds /\ t.link = s.link
    /\ t.inq = s.inq /\ t.sent = s.sent /\ t.status = s.status
    /\ \A q \in Rooms : q # r => t.rooms[q] = s.rooms[q]
    /\ t.rooms[r] = [s.rooms[r] EXCEPT
                        !.player_boards_submitted =
                            [s.rooms[r].player_boards_submitted EXCEPT ![pl] = TRUE]]
    /\ t.boards = [s.boards EXCEPT ![r][pl] = board]

LEMMA SubmitEffect ==
    ASSUME NEW s, Good(s), NEW r \in Rooms, NEW pl \in Players, NEW board
    PROVE  LET t == [s EXCEPT !.boards[r][pl] = board,
                              !.rooms[r].player_boards_submitted[pl] = TRUE]
           IN  Good(t) /\ Submits(s, t, r, pl, board)
<1> DEFINE old == s.rooms[r]
           flags == [old.player_boards_submitted EXCEPT ![pl] = TRUE]
           room == [old EXCEPT !.player_boards_submitted = flags]
           boards == [s.boards EXCEPT ![r][pl] = board]
           u == [s EXCEPT !.rooms[r] = room]
           t == [s EXCEPT !.boards[r][pl] = board,
                          !.rooms[r].player_boards_submitted[pl] = TRUE]
<1>1. old \in Room /\ (old.is_active => RoomCounted(old))
  BY DEF Good, TypedState, RoomsCounted
<1>2. flags \in [Players -> BOOLEAN]
  BY <1>1 DEF Room
<1>3. room \in Room /\ (room.is_active => RoomCounted(room))
  <2> HIDE DEF old, flags
  <2> QED
    BY <1>1, <1>2 DEF Room, RoomCounted
<1>4. t = [u EXCEPT !.boards = boards]
  BY DEF Good, TypedState, Room
<1>5. Good(u)
  <2> HIDE DEF room
  <2> QED
    BY <1>3, RoomUpdateGood
<1> HIDE DEF boards
<1>6. /\ u.clients = s.clients /\ u.fds = s.fds /\ u.link = s.link
      /\ u.inq = s.inq /\ u.sent = s.sent /\ u.status = s.status
      /\ \A q \in Rooms : q # r => u.rooms[q] = s.rooms[q]
      /\ u.rooms[r] = room
  <2> HIDE DEF room
  <2> QED
    BY DEF Good, TypedState
<1> HIDE DEF u, t
<1>7. Good(t)
  BY <1>4, <1>5, BoardsUpdateGood
<1>8. /\ t.clients = u.clients /\ t.fds = u.fds /\ t.link = u.link
      /\ t.inq = u.inq /\ t.sent = u.sent /\ t.status = u.status
      /\ t.rooms = u.rooms /\ t.boards = boards
  BY <1>4, <1>5 DEF Good, TypedState
<1>9. Submits(s, t, r, pl, board)
  BY <1>6, <1>8, Zenon DEF Submits, boards, room, flags, old
<1> QED
  BY <1>7, <1>9 DEF t

(* The cases of MSG_SUBMIT_BOARD.                                          *)
LEMMA OnSubmitBoardCases ==
    ASSUME NEW s, Good(s), NEW i \in Slots, NEW ships
    PROVE  LET r     == RoomOf(s, i)
               pl    == s.clients[i].assigned_player_id
               board == PlaceBoardShips(s.boards[r][pl], ships)
               t     == OnSubmitBoard(s, i, ships)
           IN  \/ t = SendError(s, i)
               \/ t = [s EXCEPT !.status = "overrun"]
               \/ /\ r \in Rooms /\ s.rooms[r].is_active /\ pl \in Players
                  /\ \E held : LET told == SendOrRemove(held, i, Notice("BOARD_OK"))
                               IN  /\ Good(held) /\ Submits(s, held, r, pl, board)
                                   /\ \/ t = told
                                      \/ /\ ~SendFails(held, SocketOf(held, i))
                                         /\ t = StartGame(told, r)
<1> DEFINE r     == RoomOf(s, i)
           pl    == s.clients[i].assigned_player_id
           board == PlaceBoardShips(s.boards[r][pl], ships)
           held  == [s EXCEPT !.boards[r][pl] = board,
                              !.rooms[r].player_boards_submitted[pl] = TRUE]
           told  == SendOrRemove(held, i, Notice("BOARD_OK"))
           t     == OnSubmitBoard(s, i, ships)
<1>1. CASE r = NULL \/ pl \notin Players
  BY <1>1 DEF OnSubmitBoard
<1>2. CASE ~(r = NULL \/ pl \notin Players) /\ Overruns(board)
  BY <1>2 DEF OnSubmitBoard
<1>3. CASE ~(r = NULL \/ pl \notin Players) /\ ~Overruns(board)
  <2>1. r \in Rooms /\ s.rooms[r].is_active /\ pl \in Players
    BY <1>3, FindRoomIn DEF RoomOf
  <2>2. t = told \/ (~SendFails(held, SocketOf(s, i)) /\ t = StartGame(told, r))
    BY <1>3 DEF OnSubmitBoard
  <2> HIDE DEF board, r, pl, t
  <2>3. Good(held) /\ Submits(s, held, r, pl, board)
    BY <2>1, SubmitEffect
  <2> HIDE DEF held
  <2>4. SocketOf(held, i) = SocketOf(s, i)
    BY <2>3 DEF Submits, SocketOf
  <2> QED
    BY <2>1, <2>2, <2>3, <2>4 DEF r, pl, t, board
<1> QED
  BY <1>1, <1>2, <1>3

(* take_shot on the board of one player.                                   *)
Strikes(s, t, r, pl, board) ==
    /\ t.clients = s.clients /\ t.fds = s.fds /\ t.link = s.link
    /\ t.inq = s.inq /\ t.sent = s.sent /\ t.status = s.status
    /\ t.rooms = s.rooms
    /\ t.boards = [s.boards EXCEPT ![r][pl] = board]

(* The cases of MSG_SHOOT.                                                 *)
LEMMA OnShootCases ==
    ASSUME NEW s, Good(s), NEW i \in Slots, NEW c
    PROVE  LET r      == RoomOf(s, i)
               pl     == s.clients[i].assigned_player_id
               target == s.boards[r][1 - pl]
               result == ShotAnswer(target, c[1], c[2])
               t      == OnShoot(s, i, c)
           IN  \/ t = SendError(s, i)
               \/ /\ MayShoot(s, i, c)
                  /\ r \in Rooms /\ s.rooms[r].is_active /\ s.rooms[r].is_game_started
                  /\ pl \in Players /\ s.rooms[r].current_turn = pl
                  /\ BothSeated(s, r)
                  /\ result \in ShotResult /\ InBounds(c[1], c[2])
                  /\ \E shot :
                        LET told == SendOrRemove(shot, i, Report("SHOT_RESULT", c, result))
                        IN  /\ Good(shot) /\ Evolves(s, shot)
                            /\ Strikes(s, shot, r, 1 - pl, BoardAfterShot(target, c[1], c[2]))
                            /\ IF SendFails(shot, SocketOf(shot, i)) THEN t = told
                               ELSE t = AfterShot(told, i, r, c, result)
<1> DEFINE r      == RoomOf(s, i)
           pl     == s.clients[i].assigned_player_id
           target == s.boards[r][1 - pl]
           after  == BoardAfterShot(target, c[1], c[2])
           shot   == [s EXCEPT !.boards[r][1 - pl] = after]
           result == ShotAnswer(target, c[1], c[2])
           told   == SendOrRemove(shot, i, Report("SHOT_RESULT", c, result))
           t      == OnShoot(s, i, c)
<1>1. CASE ~MayShoot(s, i, c)
  BY <1>1 DEF OnShoot
<1>2. CASE MayShoot(s, i, c)
  <2>1. /\ r \in Rooms /\ s.rooms[r].is_active /\ s.rooms[r].is_game_started
        /\ s.rooms[r].current_turn = pl
    BY <1>2, FindRoomIn DEF MayShoot, RoomOf
  <2>2. t = IF SendFails(shot, SocketOf(s, i)) THEN told ELSE AfterShot(told, i, r, c, result)
    BY <1>2 DEF OnShoot
  <2>3. BothSeated(s, r)
    BY <2>1 DEF Good, RoomsCounted, RoomCounted, BothSeated
  <2>4. InBounds(c[1], c[2]) /\ result \in ShotResult
    BY <1>2 DEF MayShoot, ShotAnswer, ShotResult
  <2>5. pl \in Players
    BY <2>1 DEF Good, TypedState, Room
  <2> DEFINE boards == [s.boards EXCEPT ![r][1 - pl] = after]
  <2>6. shot = [s EXCEPT !.boards = boards]
    BY DEF Good, TypedState
  <2> HIDE DEF after, boards, shot, r, result, t
  <2>7. Good(shot) /\ Evolves(s, shot)
    BY <2>6, BoardsUpdateGood
  <2>8. /\ shot.clients = s.clients /\ shot.fds = s.fds /\ shot.link = s.link
        /\ shot.inq = s.inq /\ shot.sent = s.sent /\ shot.status = s.status
        /\ shot.rooms = s.rooms /\ shot.boards = boards
    BY <2>6 DEF Good, TypedState
  <2>9. Strikes(s, shot, r, 1 - pl, after)
    BY <2>8, Zenon DEF Strikes, boards
  <2>10. SocketOf(shot, i) = SocketOf(s, i)
    BY <2>8 DEF SocketOf
  <2> QED
    BY <1>2, <2>1, <2>2, <2>3, <2>4, <2>5, <2>7, <2>9, <2>10 DEF r, result, after, t
<1> QED
  BY <1>1, <1>2


-----------------------------------------------------------------------------
(* Reading the first request of the slot whose turn it is.                 *)
Reads(t, i) ==
    /\ PeerOf(srv, i) \in Peers
    /\ srv.inq[PeerOf(srv, i)] # << >>
    /\ Head(Inbox(i)) \in Requests
    /\ Good(t)
    /\ t.clients = srv.clients /\ t.rooms = srv.rooms /\ t.boards = srv.boards
    /\ t.fds = srv.fds /\ t.link = srv.link /\ t.sent = srv.sent
    /\ t.status = srv.status
    /\ \A p \in Peers : t.inq[p] = IF p = PeerOf(srv, i) THEN Tail(srv.inq[p])
                                   ELSE srv.inq[p]

LEMMA TakenEffect ==
    ASSUME IInv, NEW i \in Slots, Due(i), Inbox(i) # << >>
    PROVE  Reads(Taken(i), i)
<1> DEFINE p == PeerOf(srv, i)
           inq == [srv.inq EXCEPT ![p] = Tail(srv.inq[p])]
           t == Taken(i)
<1>1. t = [srv EXCEPT !.inq = inq]
  BY DEF Taken, IInv, Good, TypedState
<1>2. p \in Peers /\ srv.inq[p] # << >>
  <2>1. i \in Awaiting(srv) /\ phase = "scan"
    BY DEF Due
  <2>2. IsOpen(srv, SocketOf(srv, i))
    BY <2>1 DEF IInv, ScanNeverBlocks
  <2> QED
    BY <2>2 DEF IInv, Good, TypedState, IsOpen, PeerOf, Inbox
<1>3. Head(Inbox(i)) \in Requests
  <2>1. srv.inq[p] \in Seq(Requests)
    BY <1>2 DEF IInv, Good, TypedState
  <2> QED
    BY <1>2, <2>1 DEF Inbox
<1>4. \A q \in Peers : inq[q] = IF q = p THEN Tail(srv.inq[q]) ELSE srv.inq[q]
  BY DEF IInv, Good, TypedState
<1>5. Good(t)
  BY TakenGood
<1> HIDE DEF t, inq
<1>6. /\ t.clients = srv.clients /\ t.rooms = srv.rooms /\ t.boards = srv.boards
      /\ t.fds = srv.fds /\ t.link = srv.link /\ t.inq = inq
      /\ t.sent = srv.sent /\ t.status = srv.status
  BY <1>1 DEF IInv, Good, TypedState
<1>7. Reads(t, i)
  BY <1>2, <1>3, <1>4, <1>5, <1>6 DEF Reads
<1> QED
  BY <1>7 DEF t

(* What a handler made of the state: all of it, or, when the process ended,*)
(* the messages sent and the reason.                                       *)
LEMMA CommitEffect ==
    ASSUME IInv, NEW t, Commit(t)
    PROVE  \/ t.status = "running" /\ srv' = t
           \/ /\ t.status # "running"
              /\ srv'.clients = srv.clients /\ srv'.rooms = srv.rooms
              /\ srv'.boards = srv.boards /\ srv'.fds = srv.fds
              /\ srv'.link = srv.link /\ srv'.inq = srv.inq
              /\ srv'.sent = t.sent /\ srv'.status = t.status
BY DEF Commit, IInv, Good, TypedState

-----------------------------------------------------------------------------
(* The loop of validate_and_place_board_ships: the board after n ships.    *)
LEMMA PlacedShips ==
    ASSUME NEW b, NEW ships, Len(ships) \in Nat
    PROVE  \E f : /\ PlaceBoardShips(b, ships) = f[Len(ships)]
                  /\ f[0] = b
                  /\ \A n \in 1 .. Len(ships) : f[n] = PlaceShip(f[n - 1], ships[n])
<1> DEFINE len == Len(ships)
           Loop(f, k) == f = [n \in 0 .. k |-> IF n = 0 THEN b
                                               ELSE PlaceShip(f[n - 1], ships[n])]
           S == {k \in Nat : \E f : Loop(f, k)}
<1>1. 0 \in S
  <2>1. Loop([n \in 0 .. 0 |-> b], 0)
    OBVIOUS
  <2> QED
    BY <2>1
<1>2. ASSUME NEW k \in Nat, k \in S PROVE k + 1 \in S
  <2>1. PICK f : Loop(f, k)
    BY <1>2
  <2> DEFINE g == [n \in 0 .. k + 1 |-> IF n = k + 1 THEN PlaceShip(f[k], ships[n]) ELSE f[n]]
  <2>2. \A n \in 0 .. k + 1 : g[n] = IF n = 0 THEN b ELSE PlaceShip(g[n - 1], ships[n])
    <3> TAKE n \in 0 .. k + 1
    <3>1. CASE n = k + 1
      <4>1. g[n] = PlaceShip(f[k], ships[n]) /\ g[n - 1] = f[k] /\ n # 0
        BY <3>1
      <4> QED
        BY <4>1
    <3>2. CASE n # k + 1 /\ n # 0
      <4>1. n \in 0 .. k /\ n - 1 \in 0 .. k /\ n - 1 # k + 1
        BY <3>2
      <4>2. g[n] = f[n] /\ g[n - 1] = f[n - 1]
        BY <3>2, <4>1
      <4>3. f[n] = PlaceShip(f[n - 1], ships[n])
        BY <2>1, <3>2, <4>1
      <4> QED
        BY <3>2, <4>2, <4>3
    <3>3. CASE n # k + 1 /\ n = 0
      BY <2>1, <3>3
    <3> QED
      BY <3>1, <3>2, <3>3
  <2>3. g = [n \in 0 .. k + 1 |-> g[n]]
    OBVIOUS
  <2> HIDE DEF g
  <2>4. Loop(g, k + 1)
    BY <2>2, <2>3
  <2> QED
    BY <2>4
<1> HIDE DEF S
<1>3. len \in S
  BY <1>1, <1>2, SetInduction
<1>4. \E f : Loop(f, len)
  BY <1>3 DEF S
<1> DEFINE placed == CHOOSE f : Loop(f, len)
<1>5. Loop(placed, len)
  BY <1>4
<1>6. PlaceBoardShips(b, ships) = placed[len]
  BY DEF PlaceBoardShips
<1> HIDE DEF placed
<1>7. /\ placed[0] = b
      /\ \A n \in 1 .. len : placed[n] = PlaceShip(placed[n - 1], ships[n])
  BY <1>5
<1> QED
  BY <1>6, <1>7


(* What every ship keeps, the submission keeps.                            *)
KeptBy(T, ships) == \A d \in T, n \in 1 .. Len(ships) : PlaceShip(d, ships[n]) \in T

LEMMA PlacedShipsIn ==
    ASSUME NEW T, NEW b \in T, NEW ships, Len(ships) \in Nat, KeptBy(T, ships)
    PROVE  PlaceBoardShips(b, ships) \in T
<1> DEFINE len == Len(ships)
<1>1. PICK f : /\ PlaceBoardShips(b, ships) = f[len]
               /\ f[0] = b
               /\ \A n \in 1 .. len : f[n] = PlaceShip(f[n - 1], ships[n])
  BY PlacedShips
<1> DEFINE S == {n \in Nat : n <= len => f[n] \in T}
<1>2. 0 \in S
  BY <1>1
<1>3. ASSUME NEW n \in Nat, n \in S PROVE n + 1 \in S
  <2> SUFFICES ASSUME n + 1 <= len PROVE f[n + 1] \in T
    OBVIOUS
  <2>1. n + 1 \in 1 .. len /\ f[n] \in T /\ (n + 1) - 1 = n
    BY <1>3
  <2> QED
    BY <1>1, <2>1 DEF KeptBy
<1> HIDE DEF S
<1>4. len \in S
  BY <1>2, <1>3, SetInduction
<1> QED
  BY <1>1, <1>4 DEF S

LEMMA PlacedShipsStruck ==
    ASSUME NEW b, NEW ships, Len(ships) \in Nat
    PROVE  Struck(PlaceBoardShips(b, ships)) = Struck(b)
<1> DEFINE len == Len(ships)
<1>1. PICK f : /\ PlaceBoardShips(b, ships) = f[len]
               /\ f[0] = b
               /\ \A n \in 1 .. len : f[n] = PlaceShip(f[n - 1], ships[n])
  BY PlacedShips
<1> DEFINE S == {n \in Nat : n <= len => Struck(f[n]) = Struck(b)}
<1>2. 0 \in S
  BY <1>1
<1>3. ASSUME NEW n \in Nat, n \in S PROVE n + 1 \in S
  <2> SUFFICES ASSUME n + 1 <= len PROVE Struck(f[n + 1]) = Struck(b)
    OBVIOUS
  <2>1. n + 1 \in 1 .. len /\ Struck(f[n]) = Struck(b) /\ (n + 1) - 1 = n
    BY <1>3
  <2> QED
    BY <1>1, <2>1, PlaceShipStruck
<1> HIDE DEF S
<1>4. len \in S
  BY <1>2, <1>3, SetInduction
<1> QED
  BY <1>1, <1>4 DEF S

-----------------------------------------------------------------------------
(* What a handler for client i makes of the boards: nothing, new boards    *)
(* for a room it sets up, the ships of a submission on the board of the    *)
(* client, or a shot at the opponent's board by the player whose turn it is*)
Submissions == {m \in Requests : m.type = "SUBMIT_BOARD"}

Deals(s, t) ==
    \E r \in Rooms : t.boards = [s.boards EXCEPT ![r] = [pl \in Players |-> InitBoard]]

Places(s, t) ==
    \E r \in Rooms, pl \in Players, m \in Submissions :
        t.boards = [s.boards EXCEPT ![r][pl] = PlaceBoardShips(s.boards[r][pl], m.ships)]

Shoots(s, t, i) ==
    \E r \in Rooms, c \in Coord :
        LET pl == s.clients[i].assigned_player_id
        IN  /\ r = RoomOf(s, i) /\ pl \in Players
            /\ s.rooms[r].is_active /\ s.rooms[r].is_game_started
            /\ s.rooms[r].current_turn = pl
            /\ s.rooms[r].room_id = s.clients[i].assigned_room_id
            /\ t.boards = [s.boards EXCEPT ![r][1 - pl] =
                               BoardAfterShot(s.boards[r][1 - pl], c[1], c[2])]

BoardsChange(s, t, i) ==
    t.boards = s.boards \/ Deals(s, t) \/ Places(s, t) \/ Shoots(s, t, i)

(* The id of a room changes only when create_room sets the room up.        *)
IdsKept(s, t) ==
    \A r \in Rooms : t.rooms[r].is_active =>
        \/ s.rooms[r].is_active /\ t.rooms[r].room_id = s.rooms[r].room_id
        \/ t.rooms[r].room_id = RoomId(r)

(* A request is answered without a new room for any client but those in A, *)
(* new requests, or messages to a connection that was not accepted.        *)
Serves(s, t, A) ==
    /\ \A j \in Slots \ A : t.clients[j].is_connected =>
          t.clients[j].assigned_room_id = s.clients[j].assigned_room_id
    /\ \A p \in Peers : t.inq[p] \in {s.inq[p], << >>}
    /\ Reaches(s, t)

LEMMA FollowsKeeps ==
    ASSUME NEW s, NEW t, Follows(s, t)
    PROVE  t.boards = s.boards /\ IdsKept(s, t) /\ Serves(s, t, {})
BY DEF Follows, IdsKept, Serves

LEMMA IdsKeptThenFollows ==
    ASSUME NEW s, NEW t, NEW u, IdsKept(s, t), Follows(t, u)
    PROVE  IdsKept(s, u) /\ u.boards = t.boards
BY DEF Follows, IdsKept

LEMMA ServesThenFollows ==
    ASSUME NEW s, NEW t, NEW u, NEW A, Serves(s, t, A), Follows(t, u), Evolves(t, u)
    PROVE  Serves(s, u, A)
BY ReachesTrans DEF Follows, Serves, Evolves

LEMMA JoinKeeps ==
    ASSUME NEW s, Good(s), NEW t, NEW i \in Slots, NEW r \in Rooms,
           s.rooms[r].is_active, Joins(s, t, i, r)
    PROVE  t.boards = s.boards /\ IdsKept(s, t) /\ Serves(s, t, {i})
<1>1. s.rooms[r] \in Room
  BY DEF Good, TypedState
<1>2. t.rooms[r].room_id = s.rooms[r].room_id
  BY <1>1 DEF Joins, Room
<1>3. Serves(s, t, {i})
  BY DEF Joins, Serves, Reaches
<1> QED
  BY <1>2, <1>3 DEF Joins, IdsKept

LEMMA CreateKeeps ==
    ASSUME NEW s, NEW t, NEW r \in Rooms, Creates(s, t, r)
    PROVE  /\ Deals(s, t) /\ IdsKept(s, t) /\ Serves(s, t, {})
           /\ t.rooms[r].is_active
<1>1. t.rooms[r].room_id = RoomId(r) /\ t.rooms[r].is_active
  BY DEF Creates, InitRoom
<1>2. Serves(s, t, {})
  BY DEF Creates, Serves, Reaches
<1> QED
  BY <1>1, <1>2 DEF Creates, Deals, IdsKept


-----------------------------------------------------------------------------
(* The handlers.                                                           *)
LEMMA OnCreateRoomBoards ==
    ASSUME NEW s, Good(s), NEW i \in Slots, NEW r \in Rooms
    PROVE  LET t == OnCreateRoom(s, i, r)
           IN  Deals(s, t) /\ IdsKept(s, t) /\ Serves(s, t, {i})
<1> DEFINE u == CreateRoom(s, r)
           v == JoinRoom(u, i, r)
           w == SendOrRemove(v, i, Seated("ROOM_CREATED", v, i))
<1>1. Good(u) /\ CanJoin(u, r) /\ Creates(s, u, r)
  BY CreateRoomGood, CreateRoomEffect
<1> HIDE DEF u
<1>2. Deals(s, u) /\ IdsKept(s, u) /\ u.rooms[r].is_active /\ u.clients = s.clients
  BY <1>1, CreateKeeps DEF Creates
<1>3. Good(v) /\ Joins(u, v, i, r)
  BY <1>1, JoinRoomGood, JoinRoomEffect
<1> HIDE DEF v
<1>4. v.boards = u.boards /\ IdsKept(u, v) /\ Serves(u, v, {i})
  BY <1>1, <1>2, <1>3, JoinKeeps
<1>5. Follows(v, w) /\ Evolves(v, w)
  BY <1>3, SendOrRemoveEffect, SeatIsMessage
<1> HIDE DEF w
<1>6. IdsKept(v, w) /\ w.boards = v.boards
  BY <1>5, FollowsKeeps
<1>7. IdsKept(s, w)
  BY <1>2, <1>4, <1>6 DEF IdsKept
<1>8. Deals(s, w)
  BY <1>2, <1>4, <1>6 DEF Deals
<1>9. Serves(s, v, {i})
  <2>1. Reaches(s, u) /\ u.inq = s.inq
    BY <1>1 DEF Creates, Reaches
  <2> QED
    BY <1>2, <1>4, <2>1, ReachesTrans DEF Serves
<1>10. Serves(s, w, {i})
  BY <1>5, <1>9, ServesThenFollows
<1> QED
  BY <1>7, <1>8, <1>10 DEF OnCreateRoom, u, v, w

LEMMA OnJoinRoomBoards ==
    ASSUME NEW s, Good(s), NEW i \in Slots, NEW id
    PROVE  LET t == OnJoinRoom(s, i, id)
           IN  t.boards = s.boards /\ IdsKept(s, t) /\ Serves(s, t, {i})
<1> DEFINE r == FindRoom(s, id)
           u == JoinRoom(s, i, r)
           w == AnnounceJoin(u, i, r)
<1>1. CASE CanJoin(s, r)
  <2>1. r \in Rooms /\ s.rooms[r].is_active
    BY <1>1, FindRoomIn DEF CanJoin
  <2> HIDE DEF r
  <2>2. Good(u) /\ Joins(s, u, i, r)
    BY <1>1, <2>1, JoinRoomGood, JoinRoomEffect
  <2> HIDE DEF u
  <2>3. u.boards = s.boards /\ IdsKept(s, u) /\ Serves(s, u, {i})
    BY <2>1, <2>2, JoinKeeps
  <2>4. Follows(u, w) /\ Evolves(u, w)
    BY <2>2, AnnounceJoinFollows, AnnounceJoinGood
  <2> HIDE DEF w
  <2>5. w.boards = u.boards /\ IdsKept(s, w) /\ Serves(s, w, {i})
    BY <2>3, <2>4, IdsKeptThenFollows, ServesThenFollows
  <2> QED
    BY <1>1, <2>3, <2>5 DEF OnJoinRoom, r, u, w
<1>2. CASE ~CanJoin(s, r)
  BY <1>2, SendEffect, SendFollows, FollowsKeeps, NoticeIsMessage
     DEF OnJoinRoom, SendError, Serves
<1> QED
  BY <1>1, <1>2

LEMMA OnSubmitBoardBoards ==
    ASSUME NEW s, Good(s), NEW i \in Slots, NEW m \in Submissions
    PROVE  LET t == OnSubmitBoard(s, i, m.ships)
           IN  (t.boards = s.boards \/ Places(s, t)) /\ IdsKept(s, t) /\ Serves(s, t, {})
<1> DEFINE r     == RoomOf(s, i)
           pl    == s.clients[i].assigned_player_id
           board == PlaceBoardShips(s.boards[r][pl], m.ships)
           t     == OnSubmitBoard(s, i, m.ships)
<1> SUFFICES (t.boards = s.boards \/ Places(s, t)) /\ IdsKept(s, t) /\ Serves(s, t, {})
  OBVIOUS
<1>1. CASE t = SendError(s, i)
  BY <1>1, SendEffect, SendFollows, FollowsKeeps, NoticeIsMessage DEF SendError
<1>2. CASE t = [s EXCEPT !.status = "overrun"]
  <2>1. /\ t.boards = s.boards /\ t.rooms = s.rooms /\ t.clients = s.clients
        /\ t.inq = s.inq /\ t.fds = s.fds /\ t.sent = s.sent
    BY <1>2 DEF Good, TypedState
  <2> QED
    BY <2>1 DEF IdsKept, Serves, Reaches
<1>3. ASSUME r \in Rooms, s.rooms[r].is_active, pl \in Players, NEW held,
             Good(held), Submits(s, held, r, pl, board),
             \/ t = SendOrRemove(held, i, Notice("BOARD_OK"))
             \/ t = StartGame(SendOrRemove(held, i, Notice("BOARD_OK")), r)
      PROVE  Places(s, t) /\ IdsKept(s, t) /\ Serves(s, t, {})
  <2> DEFINE told == SendOrRemove(held, i, Notice("BOARD_OK"))
  <2>1. ASSUME t.boards = held.boards PROVE Places(s, t)
    <3>1. t.boards = [s.boards EXCEPT ![r][pl] = board]
      BY <1>3, <2>1, Zenon DEF Submits
    <3> HIDE DEF t
    <3> QED
      BY <1>3, <3>1, Zenon DEF Places
  <2>2. IdsKept(s, held)
    <3>1. s.rooms[r] \in Room
      BY <1>3 DEF Good, TypedState
    <3>2. /\ held.rooms[r].room_id = s.rooms[r].room_id
          /\ \A q \in Rooms : q # r => held.rooms[q] = s.rooms[q]
      BY <1>3, <3>1 DEF Submits, Room
    <3> QED
      BY <1>3, <3>2 DEF IdsKept
  <2>3. Good(told) /\ Follows(held, told) /\ Evolves(held, told)
    BY <1>3, SendOrRemoveEffect, NoticeIsMessage
  <2> HIDE DEF r, t, told
  <2>4. Follows(told, StartGame(told, r)) /\ Evolves(told, StartGame(told, r))
    BY <1>3, <2>3, StartGameFollows, StartGameGood
  <2>5. t.boards = held.boards /\ IdsKept(s, t)
    BY <1>3, <2>2, <2>3, <2>4, IdsKeptThenFollows DEF told
  <2>6. Places(s, t)
    BY <2>1, <2>5
  <2>7. Serves(s, t, {})
    <3>1. Serves(s, held, {})
      BY <1>3 DEF Submits, Serves, Reaches
    <3>2. Serves(s, told, {})
      BY <2>3, <3>1, ServesThenFollows
    <3>3. Serves(s, StartGame(told, r), {})
      BY <2>4, <3>2, ServesThenFollows
    <3> QED
      BY <1>3, <3>2, <3>3 DEF told
  <2> QED
    BY <2>5, <2>6, <2>7
<1> HIDE DEF t
<1>4. \/ t = SendError(s, i)
      \/ t = [s EXCEPT !.status = "overrun"]
      \/ /\ r \in Rooms /\ s.rooms[r].is_active /\ pl \in Players
         /\ \E held : LET told == SendOrRemove(held, i, Notice("BOARD_OK"))
                      IN  /\ Good(held) /\ Submits(s, held, r, pl, board)
                          /\ \/ t = told
                             \/ /\ ~SendFails(held, SocketOf(held, i))
                                /\ t = StartGame(told, r)
  BY OnSubmitBoardCases DEF t
<1> HIDE DEF r, pl, board
<1>5. CASE /\ r \in Rooms /\ s.rooms[r].is_active /\ pl \in Players
           /\ \E held : LET told == SendOrRemove(held, i, Notice("BOARD_OK"))
                        IN  /\ Good(held) /\ Submits(s, held, r, pl, board)
                            /\ \/ t = told
                               \/ /\ ~SendFails(held, SocketOf(held, i))
                                  /\ t = StartGame(told, r)
  <2>1. PICK held : LET told == SendOrRemove(held, i, Notice("BOARD_OK"))
                    IN  /\ Good(held) /\ Submits(s, held, r, pl, board)
                        /\ \/ t = told
                           \/ /\ ~SendFails(held, SocketOf(held, i))
                              /\ t = StartGame(told, r)
    BY <1>5, Zenon
  <2> QED
    BY <1>3, <1>5, <2>1
<1> QED
  BY <1>1, <1>2, <1>4, <1>5, Zenon

LEMMA OnShootBoards ==
    ASSUME NEW s, Good(s), NEW i \in Slots, NEW c \in Int \X Int
    PROVE  LET t == OnShoot(s, i, c)
           IN  (t.boards = s.boards \/ Shoots(s, t, i)) /\ IdsKept(s, t) /\ Serves(s, t, {})
<1> DEFINE r      == RoomOf(s, i)
           pl     == s.clients[i].assigned_player_id
           target == s.boards[r][1 - pl]
           after  == BoardAfterShot(target, c[1], c[2])
           result == ShotAnswer(target, c[1], c[2])
           t      == OnShoot(s, i, c)
<1> SUFFICES (t.boards = s.boards \/ Shoots(s, t, i)) /\ IdsKept(s, t) /\ Serves(s, t, {})
  OBVIOUS
<1>1. CASE t = SendError(s, i)
  BY <1>1, SendEffect, SendFollows, FollowsKeeps, NoticeIsMessage DEF SendError
<1>2. ASSUME MayShoot(s, i, c),
             r \in Rooms, s.rooms[r].is_active, s.rooms[r].is_game_started,
             pl \in Players, s.rooms[r].current_turn = pl, BothSeated(s, r),
             result \in ShotResult, InBounds(c[1], c[2]),
             NEW shot, Good(shot), Evolves(s, shot),
             Strikes(s, shot, r, 1 - pl, after),
             IF SendFails(shot, SocketOf(shot, i))
             THEN t = SendOrRemove(shot, i, Report("SHOT_RESULT", c, result))
             ELSE t = AfterShot(SendOrRemove(shot, i, Report("SHOT_RESULT", c, result)),
                                i, r, c, result)
      PROVE  Shoots(s, t, i) /\ IdsKept(s, t) /\ Serves(s, t, {})
  <2> DEFINE m == Report("SHOT_RESULT", c, result)
             told == SendOrRemove(shot, i, m)
  <2>1. m \in Message
    BY <1>2, ReportIsMessage
  <2>2. Good(told) /\ Follows(shot, told) /\ Evolves(shot, told)
    BY <1>2, <2>1, SendOrRemoveEffect
  <2>3. ~SendFails(shot, SocketOf(shot, i)) =>
            told.clients = shot.clients /\ told.rooms = shot.rooms
    <3> HIDE DEF m, told, t, result
    <3>1. /\ Sends(shot, Send(shot, SocketOf(shot, i), m), SocketOf(shot, i), m)
          /\ told = IF SendFails(shot, SocketOf(shot, i))
                    THEN RemoveClient(Send(shot, SocketOf(shot, i), m), i)
                    ELSE Send(shot, SocketOf(shot, i), m)
      BY <1>2, <2>1, SendOrRemoveEffect DEF told
    <3> QED
      BY <3>1 DEF Sends
  <2>4. /\ s.rooms[r].room_id = s.clients[i].assigned_room_id
        /\ c \in Coord
    BY <1>2, FindRoomIn DEF RoomOf, MayShoot, InBounds, Coord
  <2>5. shot.clients = s.clients /\ shot.rooms = s.rooms
    BY <1>2 DEF Strikes
  <2> HIDE DEF r, t, told, m, result
  <2>6. ~SendFails(shot, SocketOf(shot, i)) => Follows(told, t) /\ Evolves(told, t)
    <3> SUFFICES ASSUME ~SendFails(shot, SocketOf(shot, i))
                 PROVE  Follows(told, t) /\ Evolves(told, t)
      OBVIOUS
    <3>1. told.clients[i].assigned_player_id \in Players /\ BothSeated(told, r)
      BY <1>2, <2>3, <2>5 DEF BothSeated
    <3>2. t = AfterShot(told, i, r, c, result)
      BY <1>2 DEF told, m
    <3> QED
      BY <1>2, <2>2, <3>1, <3>2, AfterShotFollows, AfterShotGood
  <2>7. t.boards = shot.boards /\ IdsKept(shot, t)
    <3>1. IdsKept(shot, told) /\ told.boards = shot.boards
      BY <2>2, FollowsKeeps
    <3> QED
      BY <1>2, <2>6, <3>1, IdsKeptThenFollows DEF told, m
  <2>8. IdsKept(s, t)
    BY <2>5, <2>7 DEF IdsKept
  <2>9. t.boards = [s.boards EXCEPT ![r][1 - pl] = after]
    BY <1>2, <2>7 DEF Strikes
  <2>10. Shoots(s, t, i)
    BY <1>2, <2>4, <2>9, Zenon DEF Shoots, r
  <2>11. Serves(s, t, {})
    <3>1. Serves(s, shot, {})
      BY <1>2 DEF Strikes, Serves, Reaches
    <3>2. Serves(s, told, {})
      BY <2>2, <3>1, ServesThenFollows
    <3> QED
      BY <1>2, <2>6, <3>2, ServesThenFollows DEF told, m
  <2> QED
    BY <2>8, <2>10, <2>11
<1> HIDE DEF t
<1>3. \/ t = SendError(s, i)
      \/ /\ MayShoot(s, i, c)
         /\ r \in Rooms /\ s.rooms[r].is_active /\ s.rooms[r].is_game_started
         /\ pl \in Players /\ s.rooms[r].current_turn = pl
         /\ BothSeated(s, r)
         /\ result \in ShotResult /\ InBounds(c[1], c[2])
         /\ \E shot :
               LET told == SendOrRemove(shot, i, Report("SHOT_RESULT", c, result))
               IN  /\ Good(shot) /\ Evolves(s, shot)
                   /\ Strikes(s, shot, r, 1 - pl, after)
                   /\ IF SendFails(shot, SocketOf(shot, i)) THEN t = told
                      ELSE t = AfterShot(told, i, r, c, result)
  BY OnShootCases DEF t
<1> HIDE DEF r, pl, after, result
<1>4. CASE t # SendError(s, i)
  <2>1. PICK shot :
           LET told == SendOrRemove(shot, i, Report("SHOT_RESULT", c, result))
           IN  /\ Good(shot) /\ Evolves(s, shot)
               /\ Strikes(s, shot, r, 1 - pl, after)
               /\ IF SendFails(shot, SocketOf(shot, i)) THEN t = told
                  ELSE t = AfterShot(told, i, r, c, result)
    BY <1>3, <1>4, Zenon
  <2> QED
    BY <1>2, <1>3, <1>4, <2>1
<1> QED
  BY <1>1, <1>4


-----------------------------------------------------------------------------
(* The steps.                                                              *)
LEMMA CommittedBoards ==
    ASSUME IInv, NEW i \in Slots,
           NEW s, s.boards = srv.boards, s.rooms = srv.rooms, s.clients = srv.clients,
           NEW t, BoardsChange(s, t, i), IdsKept(s, t), Commit(t)
    PROVE  BoardsChange(srv, srv', i) /\ IdsKept(srv, srv')
<1>1. CASE t.status = "running" /\ srv' = t
  <2>1. IdsKept(srv, srv')
    BY <1>1 DEF IdsKept
  <2>2. RoomOf(s, i) = RoomOf(srv, i)
    BY DEF RoomOf, FindRoom
  <2>3. Deals(s, t) => Deals(srv, srv')
    BY <1>1, Zenon DEF Deals
  <2>4. ASSUME Places(s, t) PROVE Places(srv, srv')
    <3>1. PICK r \in Rooms, pl \in Players, m \in Submissions :
             t.boards = [s.boards EXCEPT ![r][pl] = PlaceBoardShips(s.boards[r][pl], m.ships)]
      BY <2>4, Zenon DEF Places
    <3>2. srv'.boards =
             [srv.boards EXCEPT ![r][pl] = PlaceBoardShips(srv.boards[r][pl], m.ships)]
      BY <1>1, <3>1
    <3> QED
      BY <3>2, Zenon DEF Places
  <2>5. ASSUME Shoots(s, t, i) PROVE Shoots(srv, srv', i)
    <3> DEFINE pl == s.clients[i].assigned_player_id
               player == srv.clients[i].assigned_player_id
    <3>1. PICK r \in Rooms, c \in Coord :
             /\ r = RoomOf(s, i) /\ pl \in Players
             /\ s.rooms[r].is_active /\ s.rooms[r].is_game_started
             /\ s.rooms[r].current_turn = pl
             /\ s.rooms[r].room_id = s.clients[i].assigned_room_id
             /\ t.boards = [s.boards EXCEPT ![r][1 - pl] =
                                BoardAfterShot(s.boards[r][1 - pl], c[1], c[2])]
      BY <2>5, Zenon DEF Shoots
    <3>2. /\ player = pl /\ r = RoomOf(srv, i)
          /\ srv.rooms[r].is_active /\ srv.rooms[r].is_game_started
          /\ srv.rooms[r].current_turn = player
          /\ srv.rooms[r].room_id = srv.clients[i].assigned_room_id
      BY <2>2, <3>1
    <3>3. srv'.boards = [srv.boards EXCEPT ![r][1 - player] =
                             BoardAfterShot(srv.boards[r][1 - player], c[1], c[2])]
      BY <1>1, <3>1, <3>2
    <3> QED
      BY <3>1, <3>2, <3>3, Zenon DEF Shoots
  <2> QED
    BY <1>1, <2>1, <2>3, <2>4, <2>5 DEF BoardsChange
<1>2. CASE srv'.boards = srv.boards /\ srv'.rooms = srv.rooms
  BY <1>2 DEF BoardsChange, IdsKept
<1> QED
  BY <1>1, <1>2, CommitEffect

LEMMA HandleBoards ==
    ASSUME IInv, NEW i \in Slots, Handle(i)
    PROVE  BoardsChange(srv, srv', i) /\ IdsKept(srv, srv')
<1> DEFINE s == Taken(i)
<1>1. CASE HandleEof(i)
  <2>1. Follows(srv, RemoveClient(srv, i))
    BY RemoveClientEffect DEF IInv
  <2>2. BoardsChange(srv, RemoveClient(srv, i), i) /\ IdsKept(srv, RemoveClient(srv, i))
    BY <2>1, FollowsKeeps DEF BoardsChange
  <2> QED
    BY <1>1, <2>2, CommittedBoards DEF HandleEof
<1>2. ASSUME Due(i), Inbox(i) # << >>
      PROVE  /\ Good(s) /\ Head(Inbox(i)) \in Requests
             /\ s.boards = srv.boards /\ s.rooms = srv.rooms /\ s.clients = srv.clients
  BY <1>2, TakenEffect DEF Reads
<1>3. CASE HandleCreateRoom(i)
  <2>1. PICK r \in Rooms : Commit(OnCreateRoom(s, i, r))
    BY <1>3 DEF HandleCreateRoom
  <2>2. Due(i) /\ Inbox(i) # << >>
    BY <1>3 DEF HandleCreateRoom, Receives
  <2>3. BoardsChange(s, OnCreateRoom(s, i, r), i) /\ IdsKept(s, OnCreateRoom(s, i, r))
    BY <1>2, <2>2, OnCreateRoomBoards DEF BoardsChange
  <2> QED
    BY <1>2, <2>1, <2>2, <2>3, CommittedBoards
<1>4. CASE HandleCreateRoomFull(i)
  <2>1. Due(i) /\ Inbox(i) # << >> /\ Commit(SendError(s, i))
    BY <1>4 DEF HandleCreateRoomFull, Receives
  <2>2. BoardsChange(s, SendError(s, i), i) /\ IdsKept(s, SendError(s, i))
    BY <1>2, <2>1, SendEffect, SendFollows, FollowsKeeps, NoticeIsMessage
       DEF SendError, BoardsChange
  <2> QED
    BY <1>2, <2>1, <2>2, CommittedBoards
<1>5. CASE HandleJoinRoom(i)
  <2> DEFINE t == OnJoinRoom(s, i, Head(Inbox(i)).room_id)
  <2>1. Due(i) /\ Inbox(i) # << >> /\ Commit(t)
    BY <1>5 DEF HandleJoinRoom, Receives
  <2>2. BoardsChange(s, t, i) /\ IdsKept(s, t)
    BY <1>2, <2>1, OnJoinRoomBoards DEF BoardsChange
  <2> QED
    BY <1>2, <2>1, <2>2, CommittedBoards
<1>6. CASE HandleSubmitBoard(i)
  <2> DEFINE t == OnSubmitBoard(s, i, Head(Inbox(i)).ships)
  <2>1. /\ Due(i) /\ Inbox(i) # << >> /\ Commit(t)
        /\ Head(Inbox(i)).type = "SUBMIT_BOARD"
    BY <1>6 DEF HandleSubmitBoard, Receives
  <2>2. Head(Inbox(i)) \in Submissions
    BY <1>2, <2>1 DEF Submissions
  <2>3. BoardsChange(s, t, i) /\ IdsKept(s, t)
    BY <1>2, <2>1, <2>2, OnSubmitBoardBoards DEF BoardsChange
  <2> QED
    BY <1>2, <2>1, <2>3, CommittedBoards
<1>7. CASE HandleShoot(i)
  <2> DEFINE t == OnShoot(s, i, Head(Inbox(i)).target)
  <2>1. /\ Due(i) /\ Inbox(i) # << >> /\ Commit(t)
        /\ Head(Inbox(i)).type = "SHOOT"
    BY <1>7 DEF HandleShoot, Receives
  <2>2. Head(Inbox(i)).target \in Int \X Int
    BY <1>2, <2>1, ServerAssumption DEF Request
  <2>3. BoardsChange(s, t, i) /\ IdsKept(s, t)
    BY <1>2, <2>1, <2>2, OnShootBoards DEF BoardsChange
  <2> QED
    BY <1>2, <2>1, <2>3, CommittedBoards
<1>8. CASE HandleDisconnect(i)
  <2>1. Due(i) /\ Inbox(i) # << >> /\ Commit(RemoveClient(s, i))
    BY <1>8 DEF HandleDisconnect, Receives
  <2>2. BoardsChange(s, RemoveClient(s, i), i) /\ IdsKept(s, RemoveClient(s, i))
    BY <1>2, <2>1, RemoveClientEffect, FollowsKeeps DEF BoardsChange
  <2> QED
    BY <1>2, <2>1, <2>2, CommittedBoards
<1>9. CASE HandleOther(i)
  <2>1. Due(i) /\ Inbox(i) # << >> /\ Commit(s)
    BY <1>9 DEF HandleOther, Receives
  <2>2. BoardsChange(s, s, i) /\ IdsKept(s, s)
    BY DEF BoardsChange, IdsKept
  <2> QED
    BY <1>2, <2>1, <2>2, CommittedBoards
<1> QED
  BY <1>1, <1>3, <1>4, <1>5, <1>6, <1>7, <1>8, <1>9 DEF Handle

(* The other steps of the loop and the peers change no board and no id.    *)
LEMMA StepBoards ==
    ASSUME IInv, [Next]_vars
    PROVE  /\ \/ srv'.boards = srv.boards
              \/ \E i \in Slots : Due(i) /\ BoardsChange(srv, srv', i)
           /\ IdsKept(srv, srv')
<1>1. ASSUME srv'.boards = srv.boards, srv'.rooms = srv.rooms
      PROVE  srv'.boards = srv.boards /\ IdsKept(srv, srv')
  BY <1>1 DEF IdsKept
<1>2. ASSUME NEW i \in Slots, Handle(i)
      PROVE  Due(i) /\ BoardsChange(srv, srv', i) /\ IdsKept(srv, srv')
  BY <1>2, HandleBoards DEF Handle, HandleEof, HandleCreateRoom, HandleCreateRoomFull,
     HandleJoinRoom, HandleSubmitBoard, HandleShoot, HandleDisconnect, HandleOther, Receives
<1>3. CASE UNCHANGED srv
  BY <1>1, <1>3
<1>4. CASE Accept
  BY <1>1, <1>4 DEF Accept, IInv, Good, TypedState
<1>5. CASE Reject
  BY <1>1, <1>5 DEF Reject, IInv, Good, TypedState
<1>6. CASE PeerStep
  BY <1>1, <1>6 DEF PeerStep, PeerConnect, PeerSend, PeerClose, IInv, Good, TypedState
<1> QED
  BY <1>2, <1>3, <1>4, <1>5, <1>6 DEF Next, ServerStep, Select, AcceptFails, EndScan, vars


-----------------------------------------------------------------------------
(* A set of boards that what the handlers do to a board does not leave.    *)
Closed(T) ==
    /\ InitBoard \in T
    /\ \A m \in Submissions : KeptBy(T, m.ships)
    /\ \A b \in T, c \in Coord : BoardAfterShot(b, c[1], c[2]) \in T

BoardsIn(s, T) == s.boards \in [Rooms -> [Players -> T]]

LEMMA SubmittedShips ==
    ASSUME NEW m \in Submissions
    PROVE  /\ Len(m.ships) = MAX_SHIPS /\ MAX_SHIPS \in Nat
           /\ \A n \in 1 .. MAX_SHIPS : m.ships[n] \in ShipPlacement
<1>1. m \in Request /\ m.type = "SUBMIT_BOARD"
  BY ServerAssumption DEF Submissions
<1>2. m.ships \in [1 .. MAX_SHIPS -> ShipPlacement]
  BY <1>1 DEF Request
<1> HIDE DEF Submissions
<1>3. MAX_SHIPS \in Nat
  BY GameAssumption
<1> QED
  BY <1>2, <1>3

LEMMA BoardsChangeIn ==
    ASSUME NEW T, Closed(T), NEW s, BoardsIn(s, T), NEW t, NEW i \in Slots,
           BoardsChange(s, t, i)
    PROVE  BoardsIn(t, T)
<1>1. CASE t.boards = s.boards
  BY <1>1 DEF BoardsIn
<1>2. CASE Deals(s, t)
  BY <1>2 DEF Deals, BoardsIn, Closed
<1>3. CASE Places(s, t)
  <2>1. PICK r \in Rooms, pl \in Players, m \in Submissions :
           t.boards = [s.boards EXCEPT ![r][pl] = PlaceBoardShips(s.boards[r][pl], m.ships)]
    BY <1>3, Zenon DEF Places
  <2>2. s.boards[r][pl] \in T /\ KeptBy(T, m.ships) /\ Len(m.ships) \in Nat
    BY SubmittedShips DEF BoardsIn, Closed
  <2>3. PlaceBoardShips(s.boards[r][pl], m.ships) \in T
    BY <2>2, PlacedShipsIn
  <2> QED
    BY <2>1, <2>3 DEF BoardsIn
<1>4. CASE Shoots(s, t, i)
  <2> DEFINE pl == s.clients[i].assigned_player_id
  <2>1. PICK r \in Rooms, c \in Coord :
           /\ pl \in Players
           /\ t.boards = [s.boards EXCEPT ![r][1 - pl] =
                              BoardAfterShot(s.boards[r][1 - pl], c[1], c[2])]
    BY <1>4, Zenon DEF Shoots
  <2>2. 1 - pl \in Players
    BY <2>1 DEF Players, ROOM_SIZE
  <2>3. BoardAfterShot(s.boards[r][1 - pl], c[1], c[2]) \in T
    BY <2>2 DEF BoardsIn, Closed
  <2> QED
    BY <2>1, <2>2, <2>3 DEF BoardsIn
<1> QED
  BY <1>1, <1>2, <1>3, <1>4 DEF BoardsChange

LEMMA BoardsStayIn ==
    ASSUME NEW T, Closed(T), IInv, [Next]_vars, BoardsIn(srv, T)
    PROVE  BoardsIn(srv', T)
<1>1. CASE srv'.boards = srv.boards
  BY <1>1 DEF BoardsIn
<1>2. CASE srv'.boards # srv.boards
  BY <1>2, StepBoards, BoardsChangeIn
<1> QED
  BY <1>1, <1>2

LEMMA InitBoardsIn ==
    ASSUME NEW T, Closed(T), Init
    PROVE  BoardsIn(srv, T)
<1>1. srv.boards = [r \in Rooms |-> [pl \in Players |-> InitBoard]]
  BY DEF Init
<1> QED
  BY <1>1 DEF BoardsIn, Closed

-----------------------------------------------------------------------------
(* All boards, and the boards that agree with their ships.                 *)
LEMMA BoardClosed == Closed(Board)
<1>1. InitBoard \in Board
  BY InitBoardSound DEF Sound
<1>2. \A m \in Submissions : KeptBy(Board, m.ships)
  BY SubmittedShips, PlaceShipBoard DEF KeptBy
<1>3. \A b \in Board, c \in Coord : BoardAfterShot(b, c[1], c[2]) \in Board
  BY ShotBoard
<1> QED
  BY <1>1, <1>2, <1>3 DEF Closed

SoundBoard == {b \in Board : Sound(b)}

LEMMA SoundBoardClosed == Closed(SoundBoard)
<1>1. InitBoard \in SoundBoard
  BY InitBoardSound DEF Sound, SoundBoard
<1>2. \A m \in Submissions : KeptBy(SoundBoard, m.ships)
  <2> SUFFICES ASSUME NEW m \in Submissions, NEW b \in SoundBoard,
                      NEW n \in 1 .. Len(m.ships)
               PROVE  PlaceShip(b, m.ships[n]) \in SoundBoard
    BY DEF KeptBy
  <2>1. m.ships[n] \in ShipPlacement
    BY SubmittedShips
  <2>2. Sound(PlaceShip(b, m.ships[n]))
    BY <2>1, PlaceShipSound DEF SoundBoard
  <2> QED
    BY <2>2 DEF SoundBoard, Sound
<1>3. \A b \in SoundBoard, c \in Coord : BoardAfterShot(b, c[1], c[2]) \in SoundBoard
  BY ShotSound DEF SoundBoard, Sound
<1> QED
  BY <1>1, <1>2, <1>3 DEF Closed


-----------------------------------------------------------------------------
(* The room a client is assigned to is the one its id leads to.            *)
RoomIdsOK(s) == \A r \in Rooms : s.rooms[r].is_active => s.rooms[r].room_id = RoomId(r)

BoardInv(T) == IInv /\ BoardsIn(srv, T) /\ RoomIdsOK(srv)

LEMMA InitBoardInv ==
    ASSUME NEW T, Closed(T), Init
    PROVE  BoardInv(T)
<1>1. \A r \in Rooms : ~srv.rooms[r].is_active
  BY DEF Init, InitRoom
<1> QED
  BY <1>1, InitIInv, InitBoardsIn DEF BoardInv, RoomIdsOK

LEMMA NextBoardInv ==
    ASSUME NEW T, Closed(T), BoardInv(T), [Next]_vars
    PROVE  IInv' /\ BoardsIn(srv', T) /\ RoomIdsOK(srv')
<1>1. RoomIdsOK(srv')
  BY StepBoards DEF BoardInv, RoomIdsOK, IdsKept
<1> QED
  BY <1>1, NextIInv, BoardsStayIn DEF BoardInv

(* Every board the server holds is one of game.h, and the id of an active  *)
(* room is the one create_room gives its slot.                             *)
THEOREM BoardsInvariance == Spec => []BoardInv(Board)
<1>1. Init => BoardInv(Board)
  BY BoardClosed, InitBoardInv
<1>2. BoardInv(Board) /\ [Next]_vars => BoardInv(Board)'
  BY BoardClosed, NextBoardInv DEF BoardInv, BoardsIn, RoomIdsOK
<1> QED
  BY <1>1, <1>2, PTL DEF Spec

(* place_ship and take_shot keep every board the server plays on in        *)
(* agreement with its ships, whoever submits and shoots when and again, and*)
(* whatever place, length and orientation a submission gives a ship.       *)
THEOREM BoardsAlwaysAgree == Spec => []BoardsAgree
<1>1. Closed(SoundBoard)
  BY SoundBoardClosed
<1>2. BoardInv(SoundBoard) => BoardsAgree
  BY DEF BoardInv, BoardsIn, SoundBoard, Sound, BoardsAgree
<1>3. Init => BoardInv(SoundBoard)
  BY <1>1, InitBoardInv
<1>4. BoardInv(SoundBoard) /\ [Next]_vars => BoardInv(SoundBoard)'
  BY <1>1, NextBoardInv DEF BoardInv, BoardsIn, RoomIdsOK
<1> QED
  BY <1>2, <1>3, <1>4, PTL DEF Spec

-----------------------------------------------------------------------------
(* A shot strikes the board of the shooter's opponent, on the shooter's    *)
(* turn, and nothing else the server does strikes a cell.                  *)
LEMMA StepOnTurn ==
    ASSUME BoardInv(Board), [Next]_vars, NEW r \in Rooms, NEW pl \in Players
    PROVE  StruckOnTurn(r, pl)
<1>1. srv.boards \in [Rooms -> [Players -> Board]]
  BY DEF BoardInv, BoardsIn
<1>2. CASE srv'.boards = srv.boards
  BY <1>2 DEF StruckOnTurn
<1>3. ASSUME NEW i \in Slots, Due(i), BoardsChange(srv, srv', i),
             srv'.boards # srv.boards
      PROVE  StruckOnTurn(r, pl)
  <2>1. CASE Deals(srv, srv')
    <3>1. srv'.boards[r][pl] \in {srv.boards[r][pl], InitBoard}
      BY <1>1, <2>1 DEF Deals
    <3>2. Struck(InitBoard) = {}
      BY DEF Struck, InitBoard
    <3>3. Struck(srv'.boards[r][pl]) \subseteq Struck(srv.boards[r][pl])
      BY <3>1, <3>2
    <3> QED
      BY <3>3 DEF StruckOnTurn, Struck
  <2>2. CASE Places(srv, srv')
    <3>1. PICK q \in Rooms, k \in Players, m \in Submissions :
             srv'.boards = [srv.boards EXCEPT ![q][k] =
                                PlaceBoardShips(srv.boards[q][k], m.ships)]
      BY <2>2, Zenon DEF Places
    <3>2. srv'.boards[r][pl] \in
             {srv.boards[r][pl], PlaceBoardShips(srv.boards[r][pl], m.ships)}
      BY <1>1, <3>1
    <3>3. Struck(PlaceBoardShips(srv.boards[r][pl], m.ships)) = Struck(srv.boards[r][pl])
      BY SubmittedShips, PlacedShipsStruck
    <3>4. Struck(srv'.boards[r][pl]) \subseteq Struck(srv.boards[r][pl])
      BY <3>2, <3>3
    <3> QED
      BY <3>4 DEF StruckOnTurn, Struck
  <2>3. CASE Shoots(srv, srv', i)
    <3> DEFINE player == srv.clients[i].assigned_player_id
    <3>1. PICK q \in Rooms, c \in Coord :
             /\ player \in Players
             /\ srv.rooms[q].is_active /\ srv.rooms[q].is_game_started
             /\ srv.rooms[q].current_turn = player
             /\ srv.rooms[q].room_id = srv.clients[i].assigned_room_id
             /\ srv'.boards = [srv.boards EXCEPT ![q][1 - player] =
                                   BoardAfterShot(srv.boards[q][1 - player], c[1], c[2])]
      BY <2>3, Zenon DEF Shoots
    <3>2. srv.clients[i].assigned_room_id = RoomId(q)
      BY <3>1 DEF BoardInv, RoomIdsOK
    <3>3. CASE r = q /\ pl = 1 - player
      <4>1. player = 1 - pl
        BY <3>1, <3>3 DEF Players, ROOM_SIZE
      <4> QED
        BY <1>3, <3>1, <3>2, <3>3, <4>1 DEF StruckOnTurn
    <3>4. CASE ~(r = q /\ pl = 1 - player)
      <4>1. srv'.boards[r][pl] = srv.boards[r][pl]
        BY <1>1, <3>1, <3>4
      <4> QED
        BY <4>1 DEF StruckOnTurn, Struck
    <3> QED
      BY <3>3, <3>4
  <2> QED
    BY <1>3, <2>1, <2>2, <2>3 DEF BoardsChange
<1> QED
  BY <1>2, <1>3, StepBoards DEF BoardInv

(* MSG_SHOOT strikes a board only for a client in the room as the other    *)
(* player, in a game in progress, on its turn; MSG_SUBMIT_BOARD in the     *)
(* middle of a game strikes nothing.                                       *)
THEOREM ShotsOnlyOnTurn == Spec => ShotsRespectTurn
<1>1. Spec => []BoardInv(Board)
  BY BoardsInvariance
<1>2. BoardInv(Board) /\ [Next]_vars =>
         [\A r \in Rooms, pl \in Players : StruckOnTurn(r, pl)]_vars
  BY StepOnTurn
<1> QED
  BY <1>1, <1>2, PTL DEF Spec, ShotsRespectTurn
=============================================================================
