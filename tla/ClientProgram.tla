---------------------------- MODULE ClientProgram ----------------------------
(***************************************************************************)
(* The program a player runs (client.c).  main() is sequential: it asks    *)
(* the player, sends one request, waits for the answer and gives up on an  *)
(* answer it does not expect.  prog[p].at is the call p's process is       *)
(* blocked in; between two such calls it does one of the actions below.    *)
(*                                                                         *)
(* What the connection delivers is not this module's concern: an action    *)
(* that receives has the message as a parameter, and the module that       *)
(* composes clients and server says when the action can be taken and what  *)
(* becomes of the message an action sends.                                 *)
(*                                                                         *)
(*   at           where main() is blocked                                  *)
(*   result       what the player was told about the game                  *)
(*   player_id    the seat the server gave                                 *)
(*   own_board    the player's ships and the opponent's shots              *)
(*   enemy_view   the marks of the player's own shots                      *)
(***************************************************************************)
EXTENDS Protocol, SequencesExt

CONSTANTS
    Peers,          \* processes that may run the program
    SHIP_LENGTHS    \* lengths of the ships to place, in order

VARIABLE prog

(* "start": not yet run.  "menu": create or join?  "creating", "joining",  *)
(* "waiting", "submitted", "accepted", "playing": in receive_message for   *)
(* the answer to CREATE_ROOM or JOIN_ROOM, OPPONENT_JOINED, the answer to  *)
(* SUBMIT_BOARD, GAME_START, the game's messages.  "placing", "prompted":  *)
(* asking for a ship or a shot.  "leaving", "closing": in                  *)
(* client_disconnect, before send_message and before close.  "hung": in    *)
(* the loop of get_player_input that looks for a newline after the input   *)
(* has ended.                                                              *)
Asking    == {"menu", "placing", "prompted"}
Receiving == {"creating", "joining", "waiting", "submitted", "accepted", "playing"}
Departing == {"leaving", "closing", "gone"}
Place     == {"start", "hung"} \cup Asking \cup Receiving \cup Departing

Program ==
    [at : Place,
     result : {"none", "won", "lost", "left", "error"},
     player_id : Int,
     own_board : Board,
     enemy_view : [Coord -> CellState]]

(* client_init                                                             *)
FreshProgram ==
    [at |-> "start", result |-> "none", player_id |-> -1,
     own_board |-> InitBoard, enemy_view |-> InitBoard.cells]

ProgramInit == prog = [p \in Peers |-> FreshProgram]

(* A critical phase failed: main() reports it and disconnects.             *)
GiveUp(c) == [c EXCEPT !.at = "leaving", !.result = "error"]

(* The process is gone; of its memory only what it told the player counts. *)
Exited(c) == [FreshProgram EXCEPT !.at = "gone", !.result = c.result]

-----------------------------------------------------------------------------
(* The answers main() waits for before the game                            *)

Seat(c, m) == [c EXCEPT !.at = "waiting", !.player_id = m.player_id]

AfterAnswer(c, m) ==
    CASE c.at = "creating" /\ m.type = "ROOM_CREATED"     -> Seat(c, m)
      [] c.at = "joining"  /\ m.type = "JOIN_OK"          -> Seat(c, m)
      [] c.at = "waiting"  /\ m.type = "WAITING"          -> c
      [] c.at = "waiting"  /\ m.type = "OPPONENT_JOINED"  -> [c EXCEPT !.at = "placing"]
      [] c.at = "submitted" /\ m.type = "BOARD_OK"        -> [c EXCEPT !.at = "accepted"]
      [] c.at = "accepted" /\ m.type = "GAME_START"       -> [c EXCEPT !.at = "playing"]
      [] OTHER                                            -> GiveUp(c)

-----------------------------------------------------------------------------
(* client_play_game                                                        *)

(* Mutant of Marked: the report that sinks a ship leaves no mark.          *)
MarkedUnlessSunk(cells, m) ==
    CASE m.result = "MISS" -> [cells EXCEPT ![m.target] = "MISS"]
      [] m.result = "HIT"  -> [cells EXCEPT ![m.target] = "HIT"]
      [] OTHER             -> cells

(* Mutant of Marked: the result is stored as it came.                      *)
MarkedAsReported(cells, m) ==
    IF m.result = "INVALID" THEN cells
    ELSE [cells EXCEPT ![m.target] = m.result]

(* The mark a report of a shot leaves on a board.                          *)
Marked(cells, m) ==
    CASE m.result = "MISS"            -> [cells EXCEPT ![m.target] = "MISS"]
      [] m.result \in {"HIT", "SUNK"} -> [cells EXCEPT ![m.target] = "HIT"]
      [] OTHER                        -> cells

Verdict(c, m) == IF m.winner_id = c.player_id THEN "won" ELSE "lost"

AfterGameMessage(c, m) ==
    CASE m.type = "YOUR_TURN" -> [c EXCEPT !.at = "prompted"]
      [] m.type \in {"SHOT_RESULT", "INCOMING_SHOT"} /\ m.target \notin Coord -> GiveUp(c)
      [] m.type = "SHOT_RESULT" /\ m.target \in Coord ->
            [c EXCEPT !.enemy_view = Marked(@, m)]
      [] m.type = "INCOMING_SHOT" /\ m.target \in Coord ->
            [c EXCEPT !.own_board.cells = Marked(@, m)]
      [] m.type = "GAME_OVER" ->
            [c EXCEPT !.at = "leaving", !.result = Verdict(c, m)]
      [] m.type = "OPPONENT_LEFT" ->
            [c EXCEPT !.at = "leaving", !.result = "left"]
      [] m.type = "ERROR" -> GiveUp(c)
      [] OTHER -> c

AfterMessage(c, m) ==
    IF c.at = "playing" THEN AfterGameMessage(c, m) ELSE AfterAnswer(c, m)

(* receive_message returned m.                                             *)
Receive(p, m) ==
    /\ prog[p].at \in Receiving
    /\ prog' = [prog EXCEPT ![p] = AfterMessage(@, m)]

(* receive_message failed.                                                 *)
LoseConnection(p) ==
    /\ prog[p].at \in Receiving
    /\ prog' = [prog EXCEPT ![p] = GiveUp(@)]

-----------------------------------------------------------------------------
(* What the program does of itself                                         *)

Go(p, from, to) ==
    /\ prog[p].at = from
    /\ prog' = [prog EXCEPT ![p].at = to]

Connect(p)    == Go(p, "start", "menu")
CreateRoom(p) == Go(p, "menu", "creating")
JoinRoom(p)   == Go(p, "menu", "joining")

(* connect() fails and connect_to_server exits.                            *)
ConnectFails(p) ==
    /\ prog[p].at = "start"
    /\ prog' = [prog EXCEPT ![p] = Exited(GiveUp(@))]

(* Mutant of PlaceOwnShip: the player's ship is not validated.             *)
PlaceOwnShipUnchecked(p, x, y, orientation) ==
    LET b    == prog[p].own_board
        ship == [x |-> x, y |-> y, length |-> SHIP_LENGTHS[Len(b.ships) + 1],
                 orientation |-> orientation]
    IN  /\ prog[p].at = "placing"
        /\ Len(b.ships) < MAX_SHIPS
        /\ prog' = [prog EXCEPT ![p].own_board.ships =
                        Append(@, ship @@ [hits |-> 0, sunk |-> FALSE])]

(* client_place_ships: the next ship, at a place the player chose and      *)
(* validate_ship_placement accepts; any other place is asked for again.    *)
PlaceOwnShip(p, x, y, orientation) ==
    LET b    == prog[p].own_board
        ship == [x |-> x, y |-> y, length |-> SHIP_LENGTHS[Len(b.ships) + 1],
                 orientation |-> orientation]
    IN  /\ prog[p].at = "placing"
        /\ Len(b.ships) < MAX_SHIPS
        /\ CanPlaceShip(b, ship)
        /\ prog' = [prog EXCEPT ![p].own_board = PlaceShip(@, ship)]

(* Mutant of SubmitBoard: the answer is not waited for.                    *)
SubmitBoardAgain(p) ==
    /\ Len(prog[p].own_board.ships) = MAX_SHIPS
    /\ Go(p, "placing", "placing")

SubmitBoard(p) ==
    /\ Len(prog[p].own_board.ships) = MAX_SHIPS
    /\ Go(p, "placing", "submitted")

(* The ships of SUBMIT_BOARD.                                              *)
Submission(p) ==
    [i \in 1 .. MAX_SHIPS |->
        LET ship == prog[p].own_board.ships[i]
        IN  [x |-> ship.x, y |-> ship.y, length |-> ship.length,
             orientation |-> ship.orientation]]

(* Mutant of ShotAlreadyTaken: cells that were missed are forgotten.       *)
ShotAlreadyHit(view, c) == view[c] = "HIT"

ShotAlreadyTaken(view, c) == view[c] \in {"HIT", "MISS"}

(* prompt_shot_or_view returned c; anything else is asked for again.       *)
Shoot(p, c) ==
    /\ c \in Coord
    /\ ~ShotAlreadyTaken(prog[p].enemy_view, c)
    /\ Go(p, "prompted", "playing")

(* The player has answered, and send_message fails: main() gives up at     *)
(* once, with messages of the server unread.                               *)
RequestFails(p) ==
    /\ prog[p].at \in Asking
    /\ prog[p].at = "placing" => Len(prog[p].own_board.ships) = MAX_SHIPS
    /\ prog[p].at = "prompted" => \E c \in Coord : ~ShotAlreadyTaken(prog[p].enemy_view, c)
    /\ prog' = [prog EXCEPT ![p] = GiveUp(@)]

(* The player's input ends, or is no choice of the menu.                   *)
InputEnds(p) ==
    /\ prog[p].at \in Asking
    /\ prog[p].at = "placing" => Len(prog[p].own_board.ships) < MAX_SHIPS
    /\ prog' = [prog EXCEPT ![p] = GiveUp(@)]

(* The input ends in a line that is no pair of coordinates: getchar()      *)
(* returns EOF for ever, which is no newline.                              *)
InputEndsInLine(p) ==
    /\ Len(prog[p].own_board.ships) < MAX_SHIPS
    /\ Go(p, "placing", "hung")

(* client_disconnect sends DISCONNECT, closes, and main() returns.         *)
Disconnect(p) == Go(p, "leaving", "closing")

Close(p) ==
    /\ prog[p].at = "closing"
    /\ prog' = [prog EXCEPT ![p] = Exited(@)]

(* The process is killed; its kernel closes the connection.                *)
Killed(p) ==
    /\ prog[p].at \notin {"start", "gone"}
    /\ prog' = [prog EXCEPT ![p] = Exited(@)]

-----------------------------------------------------------------------------
(* Type invariant.  The ships placed are left to SubmissionsComplete of    *)
(* System.tla.                                                             *)
ProgramTypeOK ==
    \A p \in Peers :
        /\ DOMAIN prog[p] = DOMAIN FreshProgram
        /\ prog[p].at \in Place
        /\ prog[p].result \in {"none", "won", "lost", "left", "error"}
        /\ prog[p].player_id \in Int
        /\ prog[p].own_board.cells \in [Coord -> CellState]
        /\ prog[p].enemy_view \in [Coord -> CellState]
=============================================================================
