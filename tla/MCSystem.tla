------------------------------ MODULE MCSystem ------------------------------
(* Programs of client.c and the server.  On a 3 x 3 board each player puts *)
(* one ship of two cells and one of one cell on the outer rows, either way *)
(* round (a ship in the middle row leaves no place for the other), and     *)
(* shoots at four cells of the outer rows, one of which is water: a shot   *)
(* misses, hits, sinks a ship or sinks the last one.                       *)
EXTENDS System

Lengths  == <<2, 1>>
RowSpots == {[x |-> 0, y |-> y, orientation |-> "HORIZONTAL"] : y \in Axis}
Corners  == {0, 1} \X {0, 2}
(* One ship of two cells on a 2 x 2 board.                                 *)
OneShip  == <<2>>
OneSpot  == {[x |-> 0, y |-> 0, orientation |-> "HORIZONTAL"]}
AllCells == Coord
TheRoom == {RoomId(0)}

MessageTypes == {"ROOM_CREATED", "JOIN_OK", "OPPONENT_JOINED", "GAME_START",
                 "BOARD_OK", "YOUR_TURN", "WAIT_TURN", "SHOT_RESULT",
                 "INCOMING_SHOT", "GAME_OVER", "OPPONENT_LEFT", "ERROR"}

MCRequests ==
         {Notice("CREATE_ROOM"), Notice("DISCONNECT")}
    \cup [type : {"JOIN_ROOM"}, room_id : RoomChoices]
    \cup [type : {"SUBMIT_BOARD"},
          ships : Submittable]
    \cup [type : {"SHOOT"}, target : Coord]

Symmetry == Permutations(Peers)
=============================================================================
