------------------------------ MODULE Session ------------------------------
(***************************************************************************)
(* The server with peers that keep the order of requests of client.c: one  *)
(* CREATE_ROOM or JOIN_ROOM, then one SUBMIT_BOARD, then shots, with a     *)
(* DISCONNECT or a lost connection at any point.  The peers here do not    *)
(* wait for the server's answers as client.c does, so they take every step *)
(* the clients take, and more.                                             *)
(***************************************************************************)
EXTENDS Server

VARIABLE stage      \* how far each peer is in main() of client.c

sessionVars == <<srv, phase, readfds, next, backlog, stage>>

Stage == {"connected", "in_room", "in_game", "left"}

(* Type invariant.                                                         *)
SessionTypeOK == TypeOK /\ stage \in [Peers -> Stage]

SessionInit == Init /\ stage = [p \in Peers |-> "connected"]

(* main(): what a peer sends next, and how far that takes it.              *)
StageAfter(from, type) ==
    CASE type = "DISCONNECT"                                           -> "left"
      [] from = "connected" /\ type \in {"CREATE_ROOM", "JOIN_ROOM"}   -> "in_room"
      [] from = "in_room"   /\ type = "SUBMIT_BOARD"                   -> "in_game"
      [] from = "in_game"   /\ type = "SHOOT"                          -> "in_game"
      [] OTHER                                                         -> "never"

ClientSends(p, m) ==
    /\ stage[p] # "left"
    /\ StageAfter(stage[p], m.type) # "never"
    /\ PeerSend(p, m)
    /\ stage' = [stage EXCEPT ![p] = StageAfter(@, m.type)]

ClientConnects(p) == PeerConnect(p) /\ UNCHANGED stage

ClientCloses(p) == PeerClose(p) /\ stage' = [stage EXCEPT ![p] = "left"]

SessionNext ==
    \/ ServerStep /\ UNCHANGED stage
    \/ \E p \in Peers :
          \/ ClientConnects(p)
          \/ \E m \in Requests : ClientSends(p, m)
          \/ ClientCloses(p)

SessionSpec == SessionInit /\ [][SessionNext]_sessionVars

-----------------------------------------------------------------------------
(* In a game in progress the room's seats and the clients' own records are *)
(* each other's inverse: the client in seat pl is connected and assigned to*)
(* this room as player pl, and no other connected client is.  The server   *)
(* goes from client to room by assigned_room_id and from room to client by *)
(* connected_players, and end_game_and_disconnect by searching the array.  *)
SeatsMatchClients ==
    \A r \in Rooms : srv.rooms[r].is_active /\ srv.rooms[r].is_game_started =>
        \A i \in Slots, pl \in Players :
            srv.rooms[r].connected_players[pl] = i <=>
                /\ srv.clients[i].is_connected
                /\ srv.clients[i].assigned_room_id = srv.rooms[r].room_id
                /\ srv.clients[i].assigned_player_id = pl

(* A game goes on only while it is undecided: once a board was shot at in a*)
(* game in progress, a ship of it is afloat.  The boards and the flags     *)
(* player_boards_submitted outlive the players who left, so this rests on  *)
(* a room being set up anew before it is played in again.                  *)
DecidedGameStops ==
    \A r \in Rooms : srv.rooms[r].is_active /\ srv.rooms[r].is_game_started =>
        \A pl \in Players :
            Struck(srv.boards[r][pl]) # {} => Afloat(srv.boards[r][pl]) # {}

(* A connection is told at most once that the game is over or that the     *)
(* opponent left, and nothing after that.                                  *)
LastWordOnce ==
    \A p \in Peers : \A n \in DOMAIN srv.sent[p] :
        srv.sent[p][n].type \in {"GAME_OVER", "OPPONENT_LEFT"} => n = Len(srv.sent[p])

(* The match a room plays, for Match.tla: the ships and shots as the grids *)
(* of its boards show them, the turn while a game is in progress.          *)
GameOn(r) == srv.rooms[r].is_active /\ srv.rooms[r].is_game_started

ShipsOf(b) == {c \in Coord : b.cells[c] \in {"SHIP", "HIT"}}

MatchOf(r) == INSTANCE Match WITH
    Cells  <- Coord,
    on     <- GameOn(r),
    turn   <- IF GameOn(r) THEN srv.rooms[r].current_turn ELSE 0,
    fleet  <- [pl \in Players |-> ShipsOf(srv.boards[r][pl])],
    struck <- [pl \in Players |-> Struck(srv.boards[r][pl])]

(* A game in progress ends only when a fleet has been struck out, or when  *)
(* the connection of one of its two players has ended or that player says  *)
(* DISCONNECT: not by a shot that is refused, by a message that cannot be  *)
(* delivered to somebody else, nor by a client that joins or leaves another*)
(* room or once sat in this one.                                           *)
PlayerGone(r) ==
    \E pl \in Players : LET i == srv.rooms[r].connected_players[pl]
                       IN  srv.link[PeerOf(srv, i)] \in HungUp \/ Receives(i, "DISCONNECT")

FleetStruckOut(r) ==
    \E pl \in Players : ShipsOf(srv.boards[r][pl]) \subseteq Struck(srv.boards[r][pl])

GamesEndForCause ==
    [][\A r \in Rooms : GameOn(r) /\ ~GameOn(r)'
          => PlayerGone(r) \/ FleetStruckOut(r)']_sessionVars

(* Every room plays matches by the rules of Match.tla and nothing else,    *)
(* whoever comes, goes, is lost in the middle of a shot or comes back.     *)
RoomsPlayMatches ==
    /\ \A r \in Rooms : MatchOf(r)!MatchInit
    /\ [][\A r \in Rooms :
            UNCHANGED MatchOf(r)!matchVars \/ MatchOf(r)!MatchNext]_sessionVars

(* "Assigns player_id based on current_player_count (0 for first, 1 for    *)
(* second)" (comment of join_room): two connected clients of one room      *)
(* never have the same player id.                                          *)
PlayerIdsDiffer ==
    \A i, j \in Slots :
        /\ i # j
        /\ srv.clients[i].is_connected
        /\ srv.clients[j].is_connected
        /\ RoomOf(srv, i) # NULL
        /\ RoomOf(srv, i) = RoomOf(srv, j)
        => srv.clients[i].assigned_player_id # srv.clients[j].assigned_player_id

(* "If room is now empty, deactivate it" (comment of remove_client): an    *)
(* active room has a connected client, and its slot is given back in time. *)
RoomsGivenBack ==
    \A r \in Rooms : srv.rooms[r].is_active =>
        \E i \in Slots : srv.clients[i].is_connected /\ RoomOf(srv, i) = r

(* Every descriptor the server has open belongs to a connected client.     *)
NoDescriptorLeaks ==
    \A fd \in Fds : srv.fds[fd] # NULL =>
        \E i \in Slots : srv.clients[i].is_connected /\ SocketOf(srv, i) = fd

(* No disconnecting client ends the server process.                        *)
SurvivesDisconnects == srv.status # "sigpipe"

(* A board the server has accepted holds every ship of the submission.     *)
AcceptedBoardsComplete ==
    \A r \in Rooms : srv.rooms[r].is_active =>
        \A pl \in Players :
            srv.rooms[r].player_boards_submitted[pl]
                => Len(srv.boards[r][pl].ships) = MAX_SHIPS

(* "Validate client state - must be waiting for opponent" (comment on      *)
(* MSG_SUBMIT_BOARD): a board handed in while the room's game is in        *)
(* progress changes nothing in the rooms.                                  *)
BoardsOnlyWhileWaiting ==
    [][\A i \in Slots, r \in Rooms :
          HandleSubmitBoard(i) /\ RoomOf(srv, i) = r /\ GameOn(r)
             => srv.rooms' = srv.rooms]_sessionVars

(* The array of ships of a board never overflows.                          *)
ShipsFit == srv.status # "overrun"
=============================================================================
