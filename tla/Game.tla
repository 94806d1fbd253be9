-------------------------------- MODULE Game --------------------------------
(***************************************************************************)
(* The rules of Battleship as game.c computes them: placing ships on a     *)
(* board, answering a shot, deciding whether a board is lost.  Every       *)
(* operator is a pure function of a board; the C functions update it in    *)
(* place.                                                                  *)
(*                                                                         *)
(* A coordinate is a pair <<x, y>>, column first, as in Message; the code  *)
(* indexes cells[y][x].  ships_placed is the length of the sequence ships. *)
(***************************************************************************)
EXTENDS Integers, Sequences, FiniteSetsExt

CONSTANTS
    BOARD_SIZE,     \* width and height of a board
    MAX_SHIPS       \* capacity of Board.ships, and ships in a submission

ASSUME GameAssumption == /\ BOARD_SIZE \in Nat \ {0}
                         /\ MAX_SHIPS \in Nat \ {0}

Axis  == 0 .. BOARD_SIZE - 1
Coord == Axis \X Axis

CellState   == {"EMPTY", "SHIP", "HIT", "MISS"}
ShotResult  == {"INVALID", "MISS", "HIT", "SUNK"}

(* HORIZONTAL and VERTICAL of game.h, and any value a message may carry in *)
(* their place: the server does not check it.                              *)
Straight    == {"HORIZONTAL", "VERTICAL"}
Orientation == Straight \cup {"OTHER"}

(* ShipPlacement of protocol.h, as it arrives in a message: any integers.  *)
ShipPlacement ==
    [x : Int, y : Int, length : Int, orientation : Orientation]

Ship ==
    [x : Int, y : Int, length : Int, orientation : Orientation,
     hits : Int, sunk : BOOLEAN]

Board == [cells : [Coord -> CellState], ships : Seq(Ship)]

InBounds(x, y) == <<x, y>> \in Coord

InitBoard == [cells |-> [c \in Coord |-> "EMPTY"], ships |-> << >>]

(* The cell of segment i: one step of dx = 1 or of dy = 1 from the one     *)
(* before, or no step at all when the orientation is neither.              *)
Segment(ship, i) ==
    <<ship.x + (IF ship.orientation = "HORIZONTAL" THEN i ELSE 0),
      ship.y + (IF ship.orientation = "VERTICAL" THEN i ELSE 0)>>

(* The cells the loops over 0 <= i < ship.length visit.                    *)
ShipCells(ship) == {Segment(ship, i) : i \in 0 .. ship.length - 1}

Neighbours(c) == ((c[1] - 1 .. c[1] + 1) \X (c[2] - 1 .. c[2] + 1)) \ {c}

CanPlaceShip(b, ship) ==
    /\ \A c \in ShipCells(ship) : c \in Coord /\ b.cells[c] = "EMPTY"
    /\ \A c \in ShipCells(ship) :
          \A n \in Neighbours(c) \cap Coord : b.cells[n] # "SHIP"

(* place_ship: an illegal ship leaves the board alone (and returns 0).     *)
PlaceShip(b, p) ==
    IF CanPlaceShip(b, p)
    THEN [cells |-> [c \in Coord |->
                        IF c \in ShipCells(p) THEN "SHIP" ELSE b.cells[c]],
          ships |-> Append(b.ships,
                        [x |-> p.x, y |-> p.y, length |-> p.length,
                         orientation |-> p.orientation,
                         hits |-> 0, sunk |-> FALSE])]
    ELSE b

(* Mutant of GetShipAt: every ship is looked up as if it were horizontal.  *)
GetShipAtFlat(b, c) ==
    LET covering == {i \in DOMAIN b.ships :
                        c \in ShipCells([b.ships[i] EXCEPT !.orientation = "HORIZONTAL"])}
    IN  IF covering = {} THEN 0 ELSE Min(covering)

(* get_ship_at: the first ship that covers c, 0 when there is none.        *)
GetShipAt(b, c) ==
    LET covering == {i \in DOMAIN b.ships : c \in ShipCells(b.ships[i])}
    IN  IF covering = {} THEN 0 ELSE Min(covering)

(* Mutant of HitShip: the count is compared before it is incremented.      *)
HitShipLate(ship) ==
    [ship EXCEPT !.hits = @ + 1, !.sunk = @ \/ ship.hits = ship.length]

(* One more hit on ship i; the ship sinks when the count meets its length. *)
HitShip(ship) ==
    [ship EXCEPT !.hits = @ + 1,
                 !.sunk = @ \/ ship.hits + 1 = ship.length]

(* take_shot: what the shooter is told.                                    *)
ShotAnswer(b, x, y) ==
    LET c == <<x, y>>
        i == GetShipAt(b, c)
    IN  IF ~InBounds(x, y) THEN "INVALID"
        ELSE CASE b.cells[c] = "EMPTY" -> "MISS"
               [] b.cells[c] = "SHIP"  ->
                    IF i # 0 /\ HitShip(b.ships[i]).hits = b.ships[i].length
                    THEN "SUNK" ELSE "HIT"
               [] OTHER                -> "INVALID"

(* Mutant of BoardAfterShot: a cell already hit counts again.              *)
BoardAfterShotRepeats(b, x, y) ==
    LET c == <<x, y>>
        i == GetShipAt(b, c)
    IN  CASE ~InBounds(x, y) \/ i = 0 -> b
          [] OTHER -> [cells |-> [b.cells EXCEPT ![c] = "HIT"],
                       ships |-> [b.ships EXCEPT ![i] = HitShip(@)]]

(* take_shot: the board it leaves.                                         *)
BoardAfterShot(b, x, y) ==
    LET c == <<x, y>>
        i == GetShipAt(b, c)
    IN  IF ~InBounds(x, y) THEN b
        ELSE CASE b.cells[c] = "EMPTY" -> [b EXCEPT !.cells[c] = "MISS"]
               [] b.cells[c] = "SHIP"  ->
                    [cells |-> [b.cells EXCEPT ![c] = "HIT"],
                     ships |-> IF i = 0 THEN b.ships
                               ELSE [b.ships EXCEPT ![i] = HitShip(@)]]
               [] OTHER                -> b

(* Mutant of AllShipsSunk: the first ship sunk decides the game.           *)
AnyShipSunk(b) == \E i \in DOMAIN b.ships : b.ships[i].sunk

AllShipsSunk(b) == \A i \in DOMAIN b.ships : b.ships[i].sunk

-----------------------------------------------------------------------------
(* Facts about one board that Board.tla and Server.tla check.              *)

Struck(b)   == {c \in Coord : b.cells[c] \in {"HIT", "MISS"}}
Afloat(b)   == {i \in DOMAIN b.ships : ~b.ships[i].sunk}

(* take_shot compares hits with segments: a ship can be sunk when it has a *)
(* segment and every segment a cell of its own.  One of length 0 cannot,   *)
(* nor one of several segments whose orientation is neither.               *)
CanSink(ship) == ship.length >= 1 /\ Cardinality(ShipCells(ship)) = ship.length

(* The grid and the list of ships tell the same story: ships lie apart on  *)
(* the grid, a cell shows SHIP or HIT exactly where a ship lies, a ship's  *)
(* hit counter is the number of its cells shown HIT, and it is marked sunk *)
(* exactly when it can be sunk and no cell of it is left.                  *)
BoardAgrees(b) ==
    /\ \A i, j \in DOMAIN b.ships :
          i # j => ShipCells(b.ships[i]) \cap ShipCells(b.ships[j]) = {}
    /\ \A c \in Coord :
          b.cells[c] \in {"SHIP", "HIT"}
             <=> \E i \in DOMAIN b.ships : c \in ShipCells(b.ships[i])
    /\ \A i \in DOMAIN b.ships :
          LET s   == b.ships[i]
              hit == {c \in ShipCells(s) : b.cells[c] = "HIT"}
          IN  /\ s.hits = Cardinality(hit)
              /\ s.sunk <=> CanSink(s) /\ hit = ShipCells(s)
=============================================================================
