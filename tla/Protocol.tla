------------------------------ MODULE Protocol ------------------------------
(***************************************************************************)
(* The messages of protocol.h: those a client sends (Request) and those    *)
(* the server sends (Message).  The fields are those a receiver looks at.  *)
(***************************************************************************)
EXTENDS Game

Request ==
         [type : {"CREATE_ROOM", "DISCONNECT", "OTHER"}]
    \cup [type : {"JOIN_ROOM"}, room_id : Int]
    \cup [type : {"SUBMIT_BOARD"}, ships : [1 .. MAX_SHIPS -> ShipPlacement]]
    \cup [type : {"SHOOT"}, target : Int \X Int]

Message ==
         [type : {"WAITING", "OPPONENT_JOINED", "GAME_START", "BOARD_OK",
                  "BOARD_INVALID", "YOUR_TURN", "WAIT_TURN",
                  "OPPONENT_LEFT", "ERROR"}]
    \cup [type : {"ROOM_CREATED", "JOIN_OK"}, player_id : Int]
    \cup [type : {"SHOT_RESULT", "INCOMING_SHOT"},
          target : Int \X Int, result : ShotResult]
    \cup [type : {"GAME_OVER"}, winner_id : Int]

(* A message without fields, and the report of a shot to either player.    *)
Notice(type)           == [type |-> type]
Report(type, c, result) == [type |-> type, target |-> <<c[1], c[2]>>, result |-> result]
=============================================================================
