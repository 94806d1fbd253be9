------------------------------- MODULE Server -------------------------------
(***************************************************************************)
(* The Battleship server (server.c) and the part of the kernel it sees.    *)
(*                                                                         *)
(* The server is one thread around select().  What it and the kernel hold  *)
(* is the record srv; each C function is an operator from one srv to the   *)
(* next, composed in the order of its calls, and each message it handles   *)
(* is one action.  The peers connect, send and close between any two of    *)
(* these actions.                                                          *)
(*                                                                         *)
(*   srv.clients   the array of Client slots                               *)
(*   srv.rooms     the array of Room slots, without the boards             *)
(*   srv.boards    room->game.boards of each room                          *)
(*   srv.fds       the server's descriptor table: the peer behind each fd  *)
(*   srv.link      each peer's TCP connection as the server's kernel has it*)
(*   srv.inq       requests received by the kernel and not yet read        *)
(*   srv.sent      messages handed to the kernel, of the types Observed    *)
(*   srv.status    whether the process still runs, and what ended it       *)
(***************************************************************************)
EXTENDS Protocol, SequencesExt

CONSTANTS
    MAX_CLIENTS,    \* slots of the clients array
    MAX_ROOMS,      \* slots of the rooms array
    MAX_FDS,        \* descriptors the process may have for connections
    Peers,          \* connections that can ever be opened
    MaxInq,         \* requests a peer may have in flight
    Requests,       \* messages a peer may send
    Closings,       \* ways a connection may end at the peer, see HungUp
    Observed,       \* types of message recorded in srv.sent
    NULL

Slots   == 0 .. MAX_CLIENTS - 1
Rooms   == 0 .. MAX_ROOMS - 1
Fds     == 0 .. MAX_FDS - 1
ROOM_SIZE == 2
Players == 0 .. ROOM_SIZE - 1

(* create_room numbers the rooms from 1000.                                *)
RoomId(r) == r + 1000
RoomIds   == {RoomId(r) : r \in Rooms}

-----------------------------------------------------------------------------
(* Types                                                                   *)

Client ==
    [socket_fd : Fds \cup {-1}, is_connected : BOOLEAN,
     assigned_room_id : RoomIds \cup {-1},
     assigned_player_id : Players \cup {-1}]

Room ==
    [room_id : RoomIds \cup {-1}, is_active : BOOLEAN,
     current_player_count : 0 .. ROOM_SIZE, is_game_started : BOOLEAN,
     player_boards_submitted : [Players -> BOOLEAN],
     connected_players : [Players -> Slots \cup {NULL}],
     current_turn : Players]

(* A connection as the server's kernel has it.  A FIN only shows in recv;  *)
(* the first send after it still succeeds, the peer's kernel answers it    *)
(* with a RST, and once that has arrived ("broken") the next send raises   *)
(* SIGPIPE.  "fin2" is a FIN whose RST takes one more send to arrive.  A   *)
(* peer that closes with unread data sends a RST at once ("reset"): the    *)
(* next send fails with ECONNRESET.  "closed": the server closed it.       *)
HungUp    == {"fin", "fin2", "reset", "broken"}
LinkState == {"idle", "open", "closed"} \cup HungUp

ASSUME ServerAssumption ==
    /\ MAX_CLIENTS \in Nat \ {0}
    /\ MAX_ROOMS \in Nat \ {0}
    /\ MAX_FDS \in Nat \ {0}
    /\ MaxInq \in Nat \ {0}
    /\ NULL \notin Slots \cup Rooms \cup Peers
    /\ Requests \subseteq Request
    /\ Closings \subseteq {"fin", "fin2", "reset"}

FreeSlot == [socket_fd |-> -1, is_connected |-> FALSE,
             assigned_room_id |-> -1, assigned_player_id |-> -1]

InitRoom == [room_id |-> -1, is_active |-> FALSE,
             current_player_count |-> 0, is_game_started |-> FALSE,
             player_boards_submitted |-> [pl \in Players |-> FALSE],
             connected_players |-> [pl \in Players |-> NULL],
             current_turn |-> 0]

-----------------------------------------------------------------------------
(* send() and close()                                                      *)

IsOpen(s, fd) == fd \in Fds /\ s.fds[fd] # NULL

AfterSend(link) ==
    CASE link = "fin2"                      -> "fin"
      [] link \in {"fin", "reset", "broken"} -> "broken"
      [] OTHER                              -> link

(* send() returns -1: no such descriptor, or the connection was reset.     *)
SendFails(s, fd) == IsOpen(s, fd) => s.link[s.fds[fd]] = "reset"

(* send_message: nothing in the program blocks or handles SIGPIPE, so a    *)
(* send on a broken connection ends the process.                           *)
Send(s, fd, m) ==
    IF ~IsOpen(s, fd) \/ s.status # "running" THEN s
    ELSE LET p == s.fds[fd]
         IN  IF s.link[p] = "broken" THEN [s EXCEPT !.status = "sigpipe"]
             ELSE [s EXCEPT
                      !.link[p] = AfterSend(@),
                      !.sent[p] = IF m.type \in Observed /\ s.link[p] # "reset"
                                  THEN Append(@, m) ELSE @]

CloseFd(s, fd) ==
    IF ~IsOpen(s, fd) THEN s
    ELSE [s EXCEPT !.fds[fd] = NULL,
                   !.link[s.fds[fd]] = "closed",
                   !.inq[s.fds[fd]] = << >>]

SocketOf(s, i) == s.clients[i].socket_fd

SendError(s, i) == Send(s, SocketOf(s, i), Notice("ERROR"))

-----------------------------------------------------------------------------
(* Rooms                                                                   *)

(* find_room.  The ids of active rooms differ and none is -1.              *)
FindRoom(s, id) ==
    LET found == {r \in Rooms : s.rooms[r].is_active /\ s.rooms[r].room_id = id}
    IN  IF found = {} THEN NULL ELSE CHOOSE r \in found : TRUE

RoomOf(s, i) == FindRoom(s, s.clients[i].assigned_room_id)

(* Mutant of CreateRoom: the player count of the slot's last room is kept. *)
CreateRoomKeepsCount(s, r) ==
    [s EXCEPT !.rooms[r] = [InitRoom EXCEPT
                                !.room_id = RoomId(r),
                                !.is_active = TRUE,
                                !.current_player_count = s.rooms[r].current_player_count],
              !.boards[r] = [pl \in Players |-> InitBoard]]

(* create_room, for the slot r it found inactive.                          *)
CreateRoom(s, r) ==
    [s EXCEPT !.rooms[r] = [InitRoom EXCEPT !.room_id = RoomId(r),
                                            !.is_active = TRUE],
              !.boards[r] = [pl \in Players |-> InitBoard]]

CanJoin(s, r) == r # NULL /\ s.rooms[r].current_player_count < ROOM_SIZE

(* join_room: the player id is the number of players already there.        *)
JoinRoom(s, i, r) ==
    LET room      == s.rooms[r]
        player_id == room.current_player_count
    IN  [s EXCEPT !.rooms[r] =
                      [room EXCEPT !.connected_players[player_id] = i,
                                   !.current_player_count = player_id + 1],
                  !.clients[i] =
                      [s.clients[i] EXCEPT !.assigned_player_id = player_id,
                                           !.assigned_room_id = room.room_id]]

(* Mutant of AbandonGame: the other seat is not told.                      *)
AbandonGameSilently(s, i, r) ==
    LET seats == s.rooms[r].connected_players
        gone  == {i} \cup {seats[pl] : pl \in Players}
    IN  [s EXCEPT
            !.clients = [j \in Slots |->
                IF j \in gone
                THEN [s.clients[j] EXCEPT !.is_connected = FALSE, !.socket_fd = -1]
                ELSE s.clients[j]],
            !.rooms[r].connected_players = [pl \in Players |-> NULL],
            !.rooms[r].is_active = FALSE,
            !.rooms[r].is_game_started = FALSE]

(* remove_client, game in progress: the other seat is told, both clients   *)
(* are marked disconnected and the room is deactivated.                    *)
AbandonGame(s, i, r) ==
    LET seats == s.rooms[r].connected_players
        other == seats[1 - s.clients[i].assigned_player_id]
        told  == IF other = NULL THEN s
                 ELSE Send(s, SocketOf(s, other), Notice("OPPONENT_LEFT"))
        gone  == {i} \cup {seats[pl] : pl \in Players}
    IN  [told EXCEPT
            !.clients = [j \in Slots |->
                IF j \in gone
                THEN [s.clients[j] EXCEPT !.is_connected = FALSE, !.socket_fd = -1]
                ELSE s.clients[j]],
            !.rooms[r].connected_players = [pl \in Players |-> NULL],
            !.rooms[r].is_active = FALSE,
            !.rooms[r].is_game_started = FALSE]

(* Mutant of LeaveRoom: the seat keeps its pointer to the client.          *)
LeaveRoomDangling(s, i, r) ==
    LET left == IF \A pl \in Players : s.rooms[r].connected_players[pl] # i
                THEN s.rooms[r]
                ELSE [s.rooms[r] EXCEPT !.current_player_count = @ - 1]
    IN  [s EXCEPT !.rooms[r] =
            IF left.current_player_count = 0
            THEN [left EXCEPT !.is_active = FALSE] ELSE left]

(* remove_client, no game in progress: give up the first seat held, and    *)
(* deactivate a room whose count is down to zero.                          *)
LeaveRoom(s, i, r) ==
    LET held == {pl \in Players : s.rooms[r].connected_players[pl] = i}
        seat == Min(held)
        left == IF held = {} THEN s.rooms[r]
                ELSE [s.rooms[r] EXCEPT !.connected_players[seat] = NULL,
                                        !.current_player_count = @ - 1]
    IN  [s EXCEPT !.rooms[r] =
            IF left.current_player_count = 0
            THEN [left EXCEPT !.is_active = FALSE] ELSE left]

(* Mutants of RemoveClient: the slot is not marked inactive; a game in     *)
(* progress is left like any other room.                                   *)
RemoveClientKeepsSlot(s, i) ==
    LET r == RoomOf(s, i)
    IN  CASE r = NULL -> CloseFd(s, SocketOf(s, i))
          [] r # NULL /\ s.rooms[r].is_game_started -> AbandonGame(s, i, r)
          [] OTHER -> CloseFd(LeaveRoom(s, i, r), SocketOf(s, i))

RemoveClientIgnoresGame(s, i) ==
    LET r    == RoomOf(s, i)
        left == IF r = NULL THEN s ELSE LeaveRoom(s, i, r)
    IN  [CloseFd(left, SocketOf(s, i)) EXCEPT !.clients[i] = FreeSlot]

RemoveClient(s, i) ==
    LET r    == RoomOf(s, i)
        left == IF r = NULL THEN s ELSE LeaveRoom(s, i, r)
    IN  IF r # NULL /\ s.rooms[r].is_game_started
        THEN AbandonGame(s, i, r)
        ELSE [CloseFd(left, SocketOf(s, i)) EXCEPT !.clients[i] = FreeSlot]

(* if (send_message(client->socket_fd, ..) < 0) remove_client(..)          *)
SendOrRemove(s, i, m) ==
    LET after == Send(s, SocketOf(s, i), m)
    IN  IF SendFails(s, SocketOf(s, i)) THEN RemoveClient(after, i) ELSE after

-----------------------------------------------------------------------------
(* The game                                                                *)

(* Send a message to the client seated at player pl of room r.             *)
SendSeat(s, r, pl, m) ==
    Send(s, SocketOf(s, s.rooms[r].connected_players[pl]), m)

BothSeated(s, r) ==
    \A pl \in Players : s.rooms[r].connected_players[pl] # NULL

(* Mutant of SendTurnMessages: both players are asked to shoot.            *)
SendTurnMessagesBoth(s, r, pl) ==
    IF ~BothSeated(s, r) THEN s
    ELSE SendSeat(SendSeat(s, r, pl, Notice("YOUR_TURN")), r, 1 - pl, Notice("YOUR_TURN"))

SendTurnMessages(s, r, pl) ==
    IF ~BothSeated(s, r) THEN s
    ELSE SendSeat(SendSeat(s, r, pl, Notice("YOUR_TURN")), r, 1 - pl, Notice("WAIT_TURN"))

(* Mutant of StartGame: the game starts although a seat is empty.          *)
StartGameUnchecked(s, r) ==
    LET told == IF ~BothSeated(s, r) THEN s
                ELSE SendSeat(SendSeat(s, r, 0, Notice("GAME_START")), r, 1, Notice("GAME_START"))
    IN  SendTurnMessages([told EXCEPT !.rooms[r].is_game_started = TRUE,
                                      !.rooms[r].current_turn = 0], r, 0)

(* start_game_when_ready                                                   *)
StartGame(s, r) ==
    IF ~BothSeated(s, r) THEN s
    ELSE LET told == SendSeat(SendSeat(s, r, 0, Notice("GAME_START")), r, 1, Notice("GAME_START"))
         IN  SendTurnMessages(
                [told EXCEPT !.rooms[r].is_game_started = TRUE,
                             !.rooms[r].current_turn = 0], r, 0)

GameOver(winner) == [type |-> "GAME_OVER", winner_id |-> winner]

(* Mutant of EndGame: the game is not marked over before the clients are   *)
(* removed.                                                                *)
EndGameStillOn(s, r, i) ==
    LET winner == s.clients[i].assigned_player_id
        over   == GameOver(winner)
        told   == SendSeat(Send(s, SocketOf(s, i), over), r, 1 - winner, over)
        loser  == s.rooms[r].connected_players[1 - winner]
    IN  RemoveClient(RemoveClient(told, loser), i)

(* end_game_and_disconnect, called for the winner's client i.              *)
EndGame(s, r, i) ==
    LET winner == s.clients[i].assigned_player_id
        won    == Send(s, SocketOf(s, i), GameOver(winner))
        told   == IF s.rooms[r].connected_players[1 - winner] = NULL THEN won
                  ELSE SendSeat(won, r, 1 - winner, GameOver(winner))
        over   == [told EXCEPT !.rooms[r].is_game_started = FALSE]
        losers == {j \in Slots : /\ s.clients[j].is_connected
                                 /\ s.clients[j].assigned_room_id = s.rooms[r].room_id
                                 /\ s.clients[j].assigned_player_id = 1 - winner}
    IN  RemoveClient(IF losers = {} THEN over ELSE RemoveClient(over, Min(losers)), i)

(* Mutant of PlaceBoardShips: the grid is cleared for a new submission, the*)
(* list of ships is not.                                                   *)
PlaceBoardShipsOnClearGrid(b, ships) ==
    LET placed[n \in 0 .. Len(ships)] ==
            IF n = 0 THEN [b EXCEPT !.cells = InitBoard.cells]
            ELSE PlaceShip(placed[n - 1], ships[n])
    IN  placed[Len(ships)]

(* validate_and_place_board_ships: place_ship returns 0 or 1, so the test  *)
(* for a negative result never refuses a submission; a ship that does not  *)
(* fit is skipped.                                                         *)
PlaceBoardShips(b, ships) ==
    LET placed[n \in 0 .. Len(ships)] ==
            IF n = 0 THEN b ELSE PlaceShip(placed[n - 1], ships[n])
    IN  placed[Len(ships)]

(* place_ship stores past the end of Board.ships.                          *)
Overruns(b) == Len(b.ships) > MAX_SHIPS

-----------------------------------------------------------------------------
(* The cases of handle_client_message                                      *)

(* The client's seat, in the answer to its request for a room.             *)
Seated(type, s, i) ==
    [type |-> type, player_id |-> s.clients[i].assigned_player_id]

OnCreateRoom(s, i, r) ==
    LET joined == JoinRoom(CreateRoom(s, r), i, r)
    IN  SendOrRemove(joined, i, Seated("ROOM_CREATED", joined, i))

(* The client i that took seat pl of room r is answered, then both seats   *)
(* are told that the room is complete.                                     *)
AnnounceJoin(s, i, r) ==
    LET pl    == s.clients[i].assigned_player_id
        other == s.rooms[r].connected_players[1 - pl]
        ok    == Send(s, SocketOf(s, i), Seated("JOIN_OK", s, i))
        told  == Send(ok, SocketOf(s, i), Notice("OPPONENT_JOINED"))
    IN  IF SendFails(s, SocketOf(s, i)) THEN RemoveClient(ok, i)
        ELSE IF other = NULL THEN told
             ELSE Send(told, SocketOf(s, other), Notice("OPPONENT_JOINED"))

OnJoinRoom(s, i, id) ==
    LET r == FindRoom(s, id)
    IN  IF CanJoin(s, r) THEN AnnounceJoin(JoinRoom(s, i, r), i, r)
        ELSE SendError(s, i)

(* Mutant of OnSubmitBoard: the game is started before the answer is sent. *)
OnSubmitBoardStartsFirst(s, i, ships) ==
    LET r     == RoomOf(s, i)
        pl    == s.clients[i].assigned_player_id
        board == PlaceBoardShips(s.boards[r][pl], ships)
        held  == [s EXCEPT !.boards[r][pl] = board,
                           !.rooms[r].player_boards_submitted[pl] = TRUE]
    IN  IF r = NULL \/ pl \notin Players THEN SendError(s, i)
        ELSE IF \A q \in Players : held.rooms[r].player_boards_submitted[q]
        THEN SendOrRemove(StartGame(held, r), i, Notice("BOARD_OK"))
        ELSE SendOrRemove(held, i, Notice("BOARD_OK"))

OnSubmitBoard(s, i, ships) ==
    LET r     == RoomOf(s, i)
        pl    == s.clients[i].assigned_player_id
        board == PlaceBoardShips(s.boards[r][pl], ships)
        held  == [s EXCEPT !.boards[r][pl] = board,
                           !.rooms[r].player_boards_submitted[pl] = TRUE]
        told  == SendOrRemove(held, i, Notice("BOARD_OK"))
    IN  IF r = NULL \/ pl \notin Players THEN SendError(s, i)
        ELSE IF Overruns(board) THEN [s EXCEPT !.status = "overrun"]
        ELSE IF /\ ~SendFails(held, SocketOf(s, i))
                /\ \A q \in Players : held.rooms[r].player_boards_submitted[q]
        THEN StartGame(told, r)
        ELSE told

(* Mutant of AfterShot: the end of the game is looked for on the shooter's *)
(* own board.                                                              *)
AfterShotOwnBoard(s, i, r, c, result) ==
    LET pl   == s.clients[i].assigned_player_id
        told == SendSeat(s, r, 1 - pl, Report("INCOMING_SHOT", c, result))
        turn == IF result = "MISS" THEN 1 - pl ELSE pl
    IN  IF AllShipsSunk(s.boards[r][pl]) THEN EndGame(told, r, i)
        ELSE SendTurnMessages([told EXCEPT !.rooms[r].current_turn = turn], r, turn)

(* Mutant of AfterShot: the turn passes on a hit as well.                  *)
AfterShotAlwaysPasses(s, i, r, c, result) ==
    LET pl   == s.clients[i].assigned_player_id
        told == SendSeat(s, r, 1 - pl, Report("INCOMING_SHOT", c, result))
    IN  IF AllShipsSunk(s.boards[r][1 - pl]) THEN EndGame(told, r, i)
        ELSE SendTurnMessages([told EXCEPT !.rooms[r].current_turn = 1 - pl], r, 1 - pl)

(* What follows the answer to the shooter: the opponent is told, then the  *)
(* game ends, or the turn passes on a miss and is announced again.         *)
AfterShot(s, i, r, c, result) ==
    LET pl   == s.clients[i].assigned_player_id
        told == SendSeat(s, r, 1 - pl, Report("INCOMING_SHOT", c, result))
        turn == IF result = "MISS" THEN 1 - pl ELSE pl
    IN  IF s.rooms[r].connected_players[1 - pl] = NULL
        THEN [s EXCEPT !.status = "segfault"]
        ELSE IF AllShipsSunk(s.boards[r][1 - pl]) THEN EndGame(told, r, i)
        ELSE SendTurnMessages([told EXCEPT !.rooms[r].current_turn = turn], r, turn)

(* Mutant of MayShoot: whose turn it is is not tested.                     *)
MayShootAnyTurn(s, i, c) ==
    LET r == RoomOf(s, i)
    IN  r # NULL /\ s.rooms[r].is_game_started /\ InBounds(c[1], c[2])

MayShoot(s, i, c) ==
    LET r == RoomOf(s, i)
    IN  /\ r # NULL
        /\ s.rooms[r].is_game_started
        /\ s.rooms[r].current_turn = s.clients[i].assigned_player_id
        /\ InBounds(c[1], c[2])

(* Mutant of OnShoot: a client whose shot is refused is removed.           *)
OnShootExpels(s, i, c) ==
    LET r      == RoomOf(s, i)
        pl     == s.clients[i].assigned_player_id
        target == s.boards[r][1 - pl]
        shot   == [s EXCEPT !.boards[r][1 - pl] = BoardAfterShot(target, c[1], c[2])]
        result == ShotAnswer(target, c[1], c[2])
        told   == SendOrRemove(shot, i, Report("SHOT_RESULT", c, result))
    IN  IF ~MayShoot(s, i, c) THEN RemoveClient(SendError(s, i), i)
        ELSE IF SendFails(shot, SocketOf(s, i)) THEN told
        ELSE AfterShot(told, i, r, c, result)

OnShoot(s, i, c) ==
    LET r      == RoomOf(s, i)
        pl     == s.clients[i].assigned_player_id
        target == s.boards[r][1 - pl]
        shot   == [s EXCEPT !.boards[r][1 - pl] = BoardAfterShot(target, c[1], c[2])]
        result == ShotAnswer(target, c[1], c[2])
        told   == SendOrRemove(shot, i, Report("SHOT_RESULT", c, result))
    IN  IF ~MayShoot(s, i, c) THEN SendError(s, i)
        ELSE IF SendFails(shot, SocketOf(s, i)) THEN told
        ELSE AfterShot(told, i, r, c, result)

-----------------------------------------------------------------------------
VARIABLES
    srv,
    phase,      \* where run_server is: "select", "accept" or "scan"
    readfds,    \* the client descriptors select() reported
    next,       \* the slot the scan has reached
    backlog     \* peers whose connection waits to be accepted

vars == <<srv, phase, readfds, next, backlog>>

(* The game of a room is not initialised before create_room sets it up.    *)
Init ==
    /\ srv = [clients |-> [i \in Slots |-> FreeSlot],
              rooms   |-> [r \in Rooms |-> InitRoom],
              boards  |-> [r \in Rooms |-> [pl \in Players |-> InitBoard]],
              fds     |-> [fd \in Fds |-> NULL],
              link    |-> [p \in Peers |-> "idle"],
              inq     |-> [p \in Peers |-> << >>],
              sent    |-> [p \in Peers |-> << >>],
              status  |-> "running"]
    /\ phase = "select"
    /\ readfds = {}
    /\ next = 0
    /\ backlog = << >>

Running == srv.status = "running"

(* recv() would not block: a request or the end of the stream is there.    *)
Readable(s, p) == s.inq[p] # << >> \/ s.link[p] \in HungUp

(* The memory of a process that died does not matter; what it had sent and *)
(* what killed it do.                                                      *)
Commit(s) ==
    srv' = IF s.status = "running" THEN s
           ELSE [srv EXCEPT !.status = s.status, !.sent = s.sent]

ReadyFds(s) ==
    {fd \in Fds : \E i \in Slots :
        /\ s.clients[i].is_connected
        /\ s.clients[i].socket_fd = fd
        /\ Readable(s, s.fds[fd])}

(* Mutant of Select: the listener has its turn only when no client has.    *)
SelectListenerLast ==
    /\ Running
    /\ phase = "select"
    /\ backlog # << >> \/ ReadyFds(srv) # {}
    /\ readfds' = ReadyFds(srv)
    /\ next' = 0
    /\ phase' = IF ReadyFds(srv) = {} THEN "accept" ELSE "scan"
    /\ UNCHANGED <<srv, backlog>>

Select ==
    /\ Running
    /\ phase = "select"
    /\ backlog # << >> \/ ReadyFds(srv) # {}
    /\ readfds' = ReadyFds(srv)
    /\ next' = 0
    /\ phase' = IF backlog # << >> THEN "accept" ELSE "scan"
    /\ UNCHANGED <<srv, backlog>>

-----------------------------------------------------------------------------
(* handle_new_connection                                                   *)

FreeFds   == {fd \in Fds : srv.fds[fd] = NULL}
FreeSlots == {i \in Slots : ~srv.clients[i].is_connected}

(* Mutant of AcceptFails: the loop goes back to select() at once.          *)
AcceptFailsAnew ==
    /\ Running
    /\ phase = "accept"
    /\ FreeFds = {}
    /\ phase' = "select"
    /\ readfds' = {}
    /\ UNCHANGED <<srv, next, backlog>>

(* accept() fails when the process has no descriptor left; the connection  *)
(* stays in the queue of the listener.                                     *)
AcceptFails ==
    /\ Running
    /\ phase = "accept"
    /\ FreeFds = {}
    /\ phase' = "scan"
    /\ UNCHANGED <<srv, readfds, next, backlog>>

Accept ==
    /\ Running
    /\ phase = "accept"
    /\ FreeSlots # {}
    /\ \E fd \in FreeFds, i \in FreeSlots :
          /\ \A other \in FreeFds : fd <= other
          /\ \A other \in FreeSlots : i <= other
          /\ srv' = [srv EXCEPT
                        !.fds[fd] = Head(backlog),
                        !.clients[i] = [FreeSlot EXCEPT !.socket_fd = fd,
                                                        !.is_connected = TRUE]]
    /\ backlog' = Tail(backlog)
    /\ phase' = "scan"
    /\ UNCHANGED <<readfds, next>>

(* No slot is left: the descriptor is closed again.                        *)
Reject ==
    /\ Running
    /\ phase = "accept"
    /\ FreeFds # {}
    /\ FreeSlots = {}
    /\ srv' = [srv EXCEPT !.link[Head(backlog)] = "closed",
                          !.inq[Head(backlog)] = << >>]
    /\ backlog' = Tail(backlog)
    /\ phase' = "scan"
    /\ UNCHANGED <<readfds, next>>

-----------------------------------------------------------------------------
(* The scan over the clients and handle_client_message                     *)

Awaiting(s) == {i \in Slots : /\ i >= next
                              /\ s.clients[i].is_connected
                              /\ s.clients[i].socket_fd \in readfds}

Due(i) ==
    /\ Running
    /\ phase = "scan"
    /\ i \in Awaiting(srv)
    /\ \A j \in Awaiting(srv) : i <= j

PeerOf(s, i) == s.fds[SocketOf(s, i)]
Inbox(i)     == srv.inq[PeerOf(srv, i)]

(* receive_message returns a request of the given type.                    *)
Receives(i, type) ==
    /\ Due(i)
    /\ Inbox(i) # << >>
    /\ Head(Inbox(i)).type = type

Taken(i) == [srv EXCEPT !.inq[PeerOf(srv, i)] = Tail(@)]

(* Mutant of Scanned: the scan starts over after a message.                *)
ScannedAgain(i) ==
    /\ next' = 0
    /\ UNCHANGED <<phase, readfds, backlog>>

Scanned(i) ==
    /\ next' = i + 1
    /\ UNCHANGED <<phase, readfds, backlog>>

(* receive_message fails: the stream has ended.                            *)
HandleEof(i) ==
    /\ Due(i)
    /\ Inbox(i) = << >>
    /\ Commit(RemoveClient(srv, i))
    /\ Scanned(i)

HandleCreateRoom(i) ==
    /\ Receives(i, "CREATE_ROOM")
    /\ \E r \in Rooms :
          /\ ~srv.rooms[r].is_active
          /\ \A q \in Rooms : q < r => srv.rooms[q].is_active
          /\ Commit(OnCreateRoom(Taken(i), i, r))
    /\ Scanned(i)

HandleCreateRoomFull(i) ==
    /\ Receives(i, "CREATE_ROOM")
    /\ \A r \in Rooms : srv.rooms[r].is_active
    /\ Commit(SendError(Taken(i), i))
    /\ Scanned(i)

HandleJoinRoom(i) ==
    /\ Receives(i, "JOIN_ROOM")
    /\ Commit(OnJoinRoom(Taken(i), i, Head(Inbox(i)).room_id))
    /\ Scanned(i)

HandleSubmitBoard(i) ==
    /\ Receives(i, "SUBMIT_BOARD")
    /\ Commit(OnSubmitBoard(Taken(i), i, Head(Inbox(i)).ships))
    /\ Scanned(i)

HandleShoot(i) ==
    /\ Receives(i, "SHOOT")
    /\ Commit(OnShoot(Taken(i), i, Head(Inbox(i)).target))
    /\ Scanned(i)

HandleDisconnect(i) ==
    /\ Receives(i, "DISCONNECT")
    /\ Commit(RemoveClient(Taken(i), i))
    /\ Scanned(i)

(* The server only logs a request of a type it does not handle.            *)
HandleOther(i) ==
    /\ Receives(i, "OTHER")
    /\ Commit(Taken(i))
    /\ Scanned(i)

EndScan ==
    /\ Running
    /\ phase = "scan"
    /\ Awaiting(srv) = {}
    /\ phase' = "select"
    /\ readfds' = {}
    /\ next' = 0
    /\ UNCHANGED <<srv, backlog>>

-----------------------------------------------------------------------------
(* The peers.  Each opens one connection; moves made after the server died *)
(* are of no consequence and left out.                                     *)

PeerConnect(p) ==
    /\ Running
    /\ srv.link[p] = "idle"
    /\ srv' = [srv EXCEPT !.link[p] = "open"]
    /\ backlog' = Append(backlog, p)
    /\ UNCHANGED <<phase, readfds, next>>

PeerSend(p, m) ==
    /\ Running
    /\ srv.link[p] = "open"
    /\ Len(srv.inq[p]) < MaxInq
    /\ srv' = [srv EXCEPT !.inq[p] = Append(@, m)]
    /\ UNCHANGED <<phase, readfds, next, backlog>>

PeerClose(p) ==
    /\ Running
    /\ srv.link[p] = "open"
    /\ \E how \in Closings :
          srv' = [srv EXCEPT !.link[p] = how]
    /\ UNCHANGED <<phase, readfds, next, backlog>>

-----------------------------------------------------------------------------
Handle(i) ==
    \/ HandleEof(i)
    \/ HandleCreateRoom(i)
    \/ HandleCreateRoomFull(i)
    \/ HandleJoinRoom(i)
    \/ HandleSubmitBoard(i)
    \/ HandleShoot(i)
    \/ HandleDisconnect(i)
    \/ HandleOther(i)

ServerStep ==
    \/ Select
    \/ AcceptFails
    \/ Accept
    \/ Reject
    \/ \E i \in Slots : Handle(i)
    \/ EndScan

PeerStep ==
    \E p \in Peers :
        \/ PeerConnect(p)
        \/ \E m \in Requests : PeerSend(p, m)
        \/ PeerClose(p)

Next == ServerStep \/ PeerStep

Spec == Init /\ [][Next]_vars

(* run_server has something to do: it is past select(), or select() would  *)
(* return.  This is ENABLED ServerStep, in a form that is cheap to check.  *)
ServerCanWork == Running /\ (phase # "select" \/ backlog # << >> \/ ReadyFds(srv) # {})

(* The process is scheduled, so the loop goes on whenever select() returns;*)
(* nothing is assumed of the peers.  This is WF_vars(ServerStep).          *)
Scheduled == []<>(~ServerCanWork) \/ []<><<ServerStep>>_vars

FairSpec == Spec /\ Scheduled

-----------------------------------------------------------------------------
(* Type invariant.  The boards are left to BoardsAgree.                    *)
TypedState(s) ==
    /\ s = [clients |-> s.clients, rooms |-> s.rooms, boards |-> s.boards,
            fds |-> s.fds, link |-> s.link, inq |-> s.inq, sent |-> s.sent,
            status |-> s.status]
    /\ s.clients \in [Slots -> Client]
    /\ s.rooms \in [Rooms -> Room]
    /\ s.fds \in [Fds -> Peers \cup {NULL}]
    /\ s.link \in [Peers -> LinkState]
    /\ s.inq \in [Peers -> Seq(Requests)]
    /\ s.sent \in [Peers -> Seq(Message)]
    /\ s.status \in {"running", "sigpipe", "segfault", "overrun"}

TypeOK ==
    /\ TypedState(srv)
    /\ phase \in {"select", "accept", "scan"}
    /\ readfds \subseteq Fds
    /\ next \in 0 .. MAX_CLIENTS
    /\ backlog \in Seq(Peers)

(* Every client slot in use has an open descriptor of its own, and a slot  *)
(* not in use has none: no message is sent to another client's connection, *)
(* and no descriptor is closed twice or through a stale slot.              *)
SlotsOwnDescriptors(s) ==
    /\ \A i \in Slots :
          IF s.clients[i].is_connected
          THEN IsOpen(s, SocketOf(s, i))
          ELSE SocketOf(s, i) = -1
    /\ \A i, j \in Slots :
          i # j /\ s.clients[i].is_connected /\ s.clients[j].is_connected
             => SocketOf(s, i) # SocketOf(s, j)

DescriptorsOwned == SlotsOwnDescriptors(srv)

(* The single thread never blocks in recv(): although readfds is a snapshot*)
(* and earlier messages of the same scan close and accept connections,     *)
(* every descriptor the scan still acts on has data or an end of stream.   *)
ScanNeverBlocks ==
    phase # "select" =>
        \A i \in Awaiting(srv) :
            IsOpen(srv, SocketOf(srv, i)) /\ Readable(srv, PeerOf(srv, i))

(* The player count of an active room never falls below the number of      *)
(* seats taken, and a game in progress has both seats taken: join_room does*)
(* not index past connected_players, no seat of a full room is given away. *)
RoomCounted(room) ==
    LET taken == {pl \in Players : room.connected_players[pl] # NULL}
    IN  /\ taken # {} => room.current_player_count >= 1
        /\ taken = Players => room.current_player_count = ROOM_SIZE
        /\ room.is_game_started => taken = Players

SeatsCounted ==
    \A r \in Rooms : srv.rooms[r].is_active => RoomCounted(srv.rooms[r])

(* MSG_SHOOT dereferences connected_players[opponent_id] without a test:   *)
(* the pointer is never NULL there.                                        *)
NoSegfault == srv.status # "segfault"

(* The boards the server plays on keep the invariant of Board.tla, also    *)
(* when boards are submitted again in the middle of a game.                *)
BoardsAgree ==
    \A r \in Rooms : srv.rooms[r].is_active =>
        \A pl \in Players : BoardAgrees(srv.boards[r][pl])

(* "Validating submitted boards using the shared game logic" (README): in  *)
(* a game in progress each board has a ship cell left to hit, so that the  *)
(* game can still be decided.                                              *)
GamesCanBeDecided ==
    \A r \in Rooms : srv.rooms[r].is_active /\ srv.rooms[r].is_game_started =>
        \A pl \in Players : \E c \in Coord : srv.boards[r][pl].cells[c] = "SHIP"

(* A cell of a board is struck only by a client that is assigned to the    *)
(* room as the other player, in a game in progress, on its turn.           *)
StruckOnTurn(r, pl) ==
    Struck(srv.boards[r][pl])' \subseteq Struck(srv.boards[r][pl])
    \/ /\ srv.rooms[r].is_game_started
       /\ srv.rooms[r].current_turn = 1 - pl
       /\ \E i \in Slots :
             /\ Due(i)
             /\ srv.clients[i].assigned_room_id = RoomId(r)
             /\ srv.clients[i].assigned_player_id = 1 - pl

ShotsRespectTurn == [][\A r \in Rooms, pl \in Players : StruckOnTurn(r, pl)]_vars

(* The request of a connected client is read in the end, unless the client *)
(* loses its slot first or the process ends: nobody is starved by others,  *)
(* by a listener that stays readable or by games that end.  A client that  *)
(* remove_client disconnects together with the opponent it abandons a game *)
(* for is not promised that: its slot is free, its connection stays open   *)
(* and nobody reads it any more.                                           *)
HasSlot(p) == \E i \in Slots : srv.clients[i].is_connected /\ PeerOf(srv, i) = p

EveryRequestServed ==
    \A p \in Peers :
        (HasSlot(p) /\ srv.inq[p] # << >>)
        ~> (srv.inq[p] = << >> \/ ~HasSlot(p) \/ ~Running)

(* A connection in the listener's queue is accepted or rejected in the end,*)
(* however busy the connected clients are, as long as a descriptor comes   *)
(* free again and again.                                                   *)
EveryConnectionTakenUp ==
    \A p \in Peers :
        []<>(FreeFds # {}) =>
            ((\E n \in DOMAIN backlog : backlog[n] = p)
             ~> (srv.link[p] = "closed" \/ (\E fd \in Fds : srv.fds[fd] = p) \/ ~Running))
=============================================================================
