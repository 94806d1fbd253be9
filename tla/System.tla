------------------------------- MODULE System -------------------------------
(***************************************************************************)
(* The whole game: the server of Server.tla and, at the other end of each  *)
(* connection, the program of ClientProgram.tla.                           *)
(*                                                                         *)
(* srv.inq[p] carries requests to the server and srv.sent[p] messages to   *)
(* p's program, which takes them from its front: Observed holds every type *)
(* of message.  A program sees the end of the stream when it has read      *)
(* everything and the server closed the connection or died.                *)
(*                                                                         *)
(* stage is a history variable, the part of Session.tla a program's        *)
(* requests have reached; nothing depends on it.                           *)
(***************************************************************************)
EXTENDS Session

CONSTANTS
    SHIP_LENGTHS,   \* lengths of the ships to place, in order
    RoomChoices,    \* room ids a player may type
    Spots,          \* places and orientations a player may choose for a ship
    Targets,        \* cells a player may shoot at
    Quitters        \* players who may end their input or kill the program

VARIABLE prog       \* the programs, see ClientProgram

Prog == INSTANCE ClientProgram

(* What the program sends as a fleet, at the least.                         *)
Submittable ==
    [1 .. MAX_SHIPS -> [x : Axis, y : Axis, length : Range(SHIP_LENGTHS),
                        orientation : Straight]]

ASSUME SystemAssumption ==
    /\ SHIP_LENGTHS \in [1 .. MAX_SHIPS -> Nat \ {0}]
    /\ RoomChoices \subseteq Int
    /\ {Notice("CREATE_ROOM"), Notice("DISCONNECT")} \subseteq Requests
    /\ [type : {"JOIN_ROOM"}, room_id : RoomChoices] \subseteq Requests
    /\ [type : {"SUBMIT_BOARD"}, ships : Submittable] \subseteq Requests
    /\ [type : {"SHOOT"}, target : Targets] \subseteq Requests
    /\ Spots \subseteq [x : Axis, y : Axis, orientation : Straight]
    /\ Targets \subseteq Coord
    /\ Quitters \subseteq Peers

loopVars   == <<phase, readfds, next, backlog>>
systemVars == <<srv, phase, readfds, next, backlog, stage, prog>>

SystemInit == SessionInit /\ Prog!ProgramInit

-----------------------------------------------------------------------------
(* The two ends of a connection                                            *)

Established(p) == Running /\ srv.link[p] = "open"

(* send() succeeds: the request reaches the server's kernel, or nobody when*)
(* the connection has ended and the program's kernel does not know it yet. *)
Deliver(p, m) ==
    /\ IF Established(p)
       THEN /\ srv' = [srv EXCEPT !.inq[p] = Append(@, m)]
            /\ stage' = [stage EXCEPT ![p] = StageAfter(@, m.type)]
       ELSE UNCHANGED <<srv, stage>>
    /\ UNCHANGED loopVars

(* A close with messages unread sends a RST, or, when they are still on    *)
(* their way, a FIN.                                                       *)
Endings(p) == {how \in Closings : how = "reset" => srv.sent[p] # << >>}

HangUp(p) ==
    /\ IF Established(p)
       THEN /\ \E how \in Endings(p) :
                  srv' = [srv EXCEPT !.link[p] = how, !.sent[p] = << >>]
            /\ stage' = [stage EXCEPT ![p] = "left"]
       ELSE /\ srv' = [srv EXCEPT !.sent[p] = << >>]
            /\ UNCHANGED stage
    /\ UNCHANGED loopVars

(* The listener's kernel completes the connection, or connect() fails: the *)
(* server is gone, or out of reach.                                        *)
StartsUp(p) ==
    \/ Prog!Connect(p) /\ PeerConnect(p) /\ UNCHANGED stage
    \/ Prog!ConnectFails(p) /\ UNCHANGED <<srv, stage, loopVars>>

SendsRequest(p) ==
    \/ Prog!CreateRoom(p) /\ Deliver(p, Notice("CREATE_ROOM"))
    \/ /\ Prog!JoinRoom(p)
       /\ \E id \in RoomChoices : Deliver(p, [type |-> "JOIN_ROOM", room_id |-> id])
    \/ /\ Prog!SubmitBoard(p)
       /\ Deliver(p, [type |-> "SUBMIT_BOARD", ships |-> Prog!Submission(p)])
    \/ \E c \in Targets : Prog!Shoot(p, c) /\ Deliver(p, [type |-> "SHOOT", target |-> c])
    \/ Prog!Disconnect(p) /\ Deliver(p, Notice("DISCONNECT"))

(* send() fails: the server's end of the connection is gone, and a RST has *)
(* told the program's kernel so.                                           *)
FailsToSend(p) ==
    /\ ~Established(p)
    /\ Prog!RequestFails(p)
    /\ UNCHANGED <<srv, stage, loopVars>>

PlacesShip(p) ==
    /\ \E spot \in Spots : Prog!PlaceOwnShip(p, spot.x, spot.y, spot.orientation)
    /\ UNCHANGED <<srv, stage, loopVars>>

TakesMessage(p) ==
    /\ srv.sent[p] # << >>
    /\ Prog!Receive(p, Head(srv.sent[p]))
    /\ srv' = [srv EXCEPT !.sent[p] = Tail(@)]
    /\ UNCHANGED <<stage, loopVars>>

SeesEnd(p) ==
    /\ srv.sent[p] = << >>
    /\ srv.link[p] = "closed" \/ ~Running
    /\ Prog!LoseConnection(p)
    /\ UNCHANGED <<srv, stage, loopVars>>

ClosesDown(p) == Prog!Close(p) /\ HangUp(p)

StopsEarly(p) ==
    \/ (Prog!InputEnds(p) \/ Prog!InputEndsInLine(p)) /\ UNCHANGED <<srv, stage, loopVars>>
    \/ Prog!Killed(p) /\ HangUp(p)

(* What a program does as long as its player answers.                      *)
ProgramWorks(p) ==
    \/ SendsRequest(p)
    \/ FailsToSend(p)
    \/ PlacesShip(p)
    \/ TakesMessage(p)
    \/ SeesEnd(p)
    \/ ClosesDown(p)

ServerWorks == ServerStep /\ UNCHANGED <<stage, prog>>

SystemNext ==
    \/ ServerWorks
    \/ \E p \in Peers :
          \/ StartsUp(p)
          \/ ProgramWorks(p)
          \/ p \in Quitters /\ StopsEarly(p)

SystemSpec == SystemInit /\ [][SystemNext]_systemVars

(* The server and every program are scheduled, and players answer prompts. *)
(* Nobody has to start a program, and nobody has to quit.  The second      *)
(* conjunct is WF_systemVars(ServerWorks), as in Server.tla.               *)
FairSystemSpec ==
    /\ SystemSpec
    /\ []<>(~ServerCanWork) \/ []<><<ServerWorks>>_systemVars
    /\ \A p \in Peers : WF_systemVars(ProgramWorks(p))

-----------------------------------------------------------------------------
(* Type invariant.                                                         *)
SystemTypeOK == SessionTypeOK /\ Prog!ProgramTypeOK

Playing(p) == prog[p].at \in {"submitted", "accepted", "playing", "prompted"}

(* Peer p's program plays seat pl of the game in progress in room r.       *)
PlaysSeat(p, r, pl) ==
    /\ Running
    /\ srv.rooms[r].is_active
    /\ srv.rooms[r].is_game_started
    /\ Playing(p)
    /\ PeerOf(srv, srv.rooms[r].connected_players[pl]) = p

Unread(p, type) == SelectSeq(srv.sent[p], LAMBDA m : m.type = type)

(* The server silently skips a ship that does not fit (server.c:589), so   *)
(* it is the program that must send complete fleets: a submission, placed  *)
(* ship by ship on an empty board as the server does, loses no ship and    *)
(* gives the very board the player sees.                                   *)
SubmissionsComplete ==
    \A p \in Peers : \A n \in DOMAIN srv.inq[p] :
        srv.inq[p][n].type = "SUBMIT_BOARD" =>
            LET placed == PlaceBoardShips(InitBoard, srv.inq[p][n].ships)
            IN  /\ [i \in DOMAIN placed.ships |-> placed.ships[i].length] = SHIP_LENGTHS
                /\ prog[p].at = "submitted" => placed = prog[p].own_board

(* What p's boards will be once its program has read what was sent to it.  *)
ViewAhead(p) == FoldLeft(Prog!Marked, prog[p].enemy_view, Unread(p, "SHOT_RESULT"))
OwnAhead(p)  == FoldLeft(Prog!Marked, prog[p].own_board.cells, Unread(p, "INCOMING_SHOT"))

(* In a game in progress the boards a player sees are the server's, up to  *)
(* the reports still on their way: the own board cell by cell, ships and   *)
(* marks, and the view of the enemy in every mark and in nothing else.     *)
ViewsInStep ==
    \A p \in Peers, r \in Rooms, pl \in Players : PlaysSeat(p, r, pl) =>
        /\ OwnAhead(p) = srv.boards[r][pl].cells
        /\ \A c \in Coord :
              LET mark == srv.boards[r][1 - pl].cells[c]
              IN  ViewAhead(p)[c] = IF mark = "SHIP" THEN "EMPTY" ELSE mark

(* The right to shoot is one token: it is the server's YOUR_TURN on its    *)
(* way, the program's prompt, or the shot on its way back, exactly one of  *)
(* them for the player whose turn it is and none for the other.  So nobody *)
(* is prompted twice, no shot is refused, and the game never waits for a   *)
(* player who was not asked.                                               *)
TurnIsOneToken ==
    \A p \in Peers, r \in Rooms, pl \in Players : PlaysSeat(p, r, pl) =>
        Len(Unread(p, "YOUR_TURN"))
        + (IF prog[p].at = "prompted" THEN 1 ELSE 0)
        + Len(SelectSeq(srv.inq[p], LAMBDA m : m.type = "SHOOT"))
        = IF srv.rooms[r].current_turn = pl THEN 1 ELSE 0

(* No shot of a player is wasted or refused (comment of prompt_shot_or_view*)
(* "Prevents wasted shots"): the program's test on its own view suffices,  *)
(* although that view may be behind the server's board.                    *)
NoShotWasted ==
    \A p \in Peers : Playing(p) =>
        /\ Unread(p, "ERROR") = << >>
        /\ \A n \in DOMAIN srv.sent[p] :
              srv.sent[p][n].type = "SHOT_RESULT" => srv.sent[p][n].result # "INVALID"

FleetCells == FoldLeft(LAMBDA sum, n : sum + n, 0, SHIP_LENGTHS)

(* A verdict fits what the player saw: who is told of a victory has hit as *)
(* many cells as the fleet has, and who is told of a defeat has no ship    *)
(* cell left.                                                              *)
VerdictsFit ==
    \A p \in Peers :
        /\ prog[p].at = "leaving" /\ prog[p].result = "won" =>
              Cardinality({c \in Coord : prog[p].enemy_view[c] = "HIT"}) = FleetCells
        /\ prog[p].at = "leaving" /\ prog[p].result = "lost" =>
              \A c \in Coord : prog[p].own_board.cells[c] # "SHIP"

(* "Keeping the server compatible with the existing shared Message protocol*)
(* and client implementation" (README): no program gives up because of a   *)
(* message that is not an ERROR.                                           *)
MessagesExpected ==
    \A p \in Peers :
        prog[p].at \in Prog!Receiving /\ srv.sent[p] # << >> /\ Head(srv.sent[p]).type # "ERROR"
            => Prog!AfterMessage(prog[p], Head(srv.sent[p])).result # "error"

(* A game that both players play comes to an end for each of them: each    *)
(* program exits, whatever becomes of the other player and of the server.  *)
GamesEnd == \A p \in Peers : prog[p].at = "playing" ~> prog[p].at = "gone"

(* "MSG_GAME_START // Server -> Client (both boards submitted, gameplay    *)
(* begins)" (protocol.h): when a game is in progress, both players have    *)
(* submitted their boards.                                                 *)
StartedWhenBothSubmitted ==
    \A r \in Rooms, pl \in Players :
        Running /\ srv.rooms[r].is_active /\ srv.rooms[r].is_game_started =>
            LET p == PeerOf(srv, srv.rooms[r].connected_players[pl])
            IN  prog[p].at \notin {"creating", "joining", "waiting", "placing"}

(* "Graceful handling of client disconnects where possible" (README): a    *)
(* program that waits for the game to start does not wait for ever.        *)
NobodyStranded ==
    \A p \in Peers : prog[p].at = "accepted" ~> prog[p].at # "accepted"

(* The programs are peers of Session.tla: they keep the order of requests  *)
(* and never have more than MaxInq of them unread, so what holds there for *)
(* its peers, which do not wait for answers, holds of these programs.      *)
AsSession == INSTANCE Session WITH Observed <- {},
            srv <- [srv EXCEPT !.sent = [p \in Peers |-> << >>]]

ProgramsKeepSession == AsSession!SessionInit /\ [][AsSession!SessionNext]_(AsSession!sessionVars)
=============================================================================
