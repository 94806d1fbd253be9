------------------------------ MODULE MCBoard -------------------------------
(* Ships of two or three segments, in a row, in a column or on one cell,   *)
(* anywhere on a small board and across its edges, and shots at every cell *)
(* and at two targets off the board.                                       *)
EXTENDS Board

MCPlacements ==
         [x : Axis, y : Axis, length : 2 .. 3, orientation : Straight]
    \cup [x : {0}, y : {2}, length : {0, 2}, orientation : {"OTHER"}]

MCShots == Coord \cup {<<-1, 0>>, <<0, BOARD_SIZE>>}
=============================================================================
