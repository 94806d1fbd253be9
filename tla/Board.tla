------------------------------- MODULE Board --------------------------------
(***************************************************************************)
(* One player's board under the two operations the server applies to it:   *)
(* place_ship for each ship of a submission and take_shot for each shot.   *)
(* The server places ships whenever a SUBMIT_BOARD arrives, also after     *)
(* shots were taken, so the two operations interleave freely.              *)
(***************************************************************************)
EXTENDS Game

CONSTANTS
    Placements,     \* ships a submission may ask for
    Shots           \* targets <<x, y>>, on the board or off it

ASSUME BoardAssumption ==
    /\ Placements \subseteq ShipPlacement
    /\ Shots \subseteq Int \X Int

VARIABLES
    board,          \* Board of game.h
    answer          \* what the last operation returned

vars == <<board, answer>>

TypeOK ==
    /\ board \in [cells : [Coord -> CellState], ships : Seq(Ship)]
    /\ Len(board.ships) <= MAX_SHIPS
    /\ \A i \in DOMAIN board.ships :
          board.ships[i].hits \in 0 .. Cardinality(ShipCells(board.ships[i]))
    /\ answer \in ShotResult \cup {"NONE", "PLACED", "REFUSED"}

Init ==
    /\ board = InitBoard
    /\ answer = "NONE"

(* The array has room for one more ship.                                   *)
Place(p) ==
    /\ Len(board.ships) < MAX_SHIPS
    /\ board' = PlaceShip(board, p)
    /\ answer' = IF CanPlaceShip(board, p) THEN "PLACED" ELSE "REFUSED"

Shoot(x, y) ==
    /\ board' = BoardAfterShot(board, x, y)
    /\ answer' = ShotAnswer(board, x, y)

Next ==
    \/ \E p \in Placements : Place(p)
    \/ \E c \in Shots : Shoot(c[1], c[2])

Spec == Init /\ [][Next]_vars

-----------------------------------------------------------------------------
(* The redundant views of a board never diverge: the grid that placing and *)
(* shooting read, and the ships with their counters and sunk flags that    *)
(* all_ships_sunk reads (game.c take_shot updates one through the other).  *)
GridMatchesShips == BoardAgrees(board)

(* The ships as sets of cells, and whether their counters can meet their   *)
(* lengths.                                                                *)
FleetOf(b) == {[cells |-> ShipCells(b.ships[i]), sinkable |-> CanSink(b.ships[i])]
                  : i \in DOMAIN b.ships}

(* The board answers shots and reports defeat as the abstract fleet does:  *)
(* the answers depend on the cells of the ships and the cells shot at and  *)
(* on nothing else.                                                        *)
Abstract == INSTANCE Fleet WITH
    Cells    <- Coord,
    OffBoard <- Shots \ Coord,
    fleet    <- FleetOf(board),
    struck   <- Struck(board),
    lost     <- AllShipsSunk(board)

ImplementsFleet == Abstract!Spec

(* "This ensures ships cannot touch each other at all - not horizontally,  *)
(* vertically, OR diagonally" (comment in can_place_ship): no two ships on *)
(* a board have cells that are neighbours.                                 *)
ShipsNeverTouch ==
    \A i, j \in DOMAIN board.ships :
        i # j => \A c \in ShipCells(board.ships[i]) :
                    Neighbours(c) \cap ShipCells(board.ships[j]) = {}
=============================================================================
