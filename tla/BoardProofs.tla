---------------------------- MODULE BoardProofs -----------------------------
(***************************************************************************)
(* Proofs about Board.tla for every size of board, every number of ships   *)
(* and every choice of ships and targets: the grid and the ships of a      *)
(* board never diverge, and a board answers as the abstract fleet does.    *)
(***************************************************************************)
EXTENDS Board, GameProofs

(* The inductive invariant: besides what GridMatchesShips says, every ship *)
(* lies on the board, so that none of its cells is out of reach of a shot. *)
IInv ==
    /\ Sound(board)
    /\ Len(board.ships) <= MAX_SHIPS
    /\ answer \in ShotResult \cup {"NONE", "PLACED", "REFUSED"}

-----------------------------------------------------------------------------
LEMMA PlaceShipLen ==
    ASSUME NEW b, Sound(b), NEW p \in ShipPlacement
    PROVE  /\ Len(b.ships) \in Nat
           /\ Len(PlaceShip(b, p).ships) \in {Len(b.ships), Len(b.ships) + 1}
<1>1. Len(b.ships) \in Nat
  BY DEF Sound, Board
<1>2. CASE CanPlaceShip(b, p)
  BY <1>1, <1>2, PlacedShip
<1>3. CASE ~CanPlaceShip(b, p)
  BY <1>1, <1>3 DEF PlaceShip
<1> QED
  BY <1>2, <1>3, <1>1

LEMMA ShotLen ==
    ASSUME NEW b, Sound(b), NEW x, NEW y
    PROVE  Len(BoardAfterShot(b, x, y).ships) = Len(b.ships)
<1> DEFINE c == <<x, y>>
           t == BoardAfterShot(b, x, y)
           i == GetShipAt(b, c)
<1>1. CASE c \in Coord /\ b.cells[c] = "SHIP"
  <2>1. /\ i \in DOMAIN b.ships
        /\ t.ships = [b.ships EXCEPT ![i] = HitShip(b.ships[i])]
        /\ HitShip(b.ships[i]) \in Ship
    BY <1>1, ShotAtShip
  <2>2. b.ships \in Seq(Ship) /\ DOMAIN b.ships = 1 .. Len(b.ships)
    BY DEF Sound, Board
  <2> HIDE DEF t, i
  <2> QED
    BY <2>1, <2>2, ExceptSeq DEF t
<1>2. CASE ~(c \in Coord /\ b.cells[c] = "SHIP")
  <2>1. t.ships = b.ships
    BY <1>2 DEF BoardAfterShot, InBounds, Sound, Board
  <2> QED
    BY <2>1
<1> QED
  BY <1>1, <1>2

LEMMA ShotAnswerType ==
    ASSUME NEW b, NEW x, NEW y
    PROVE  ShotAnswer(b, x, y) \in ShotResult
BY DEF ShotAnswer, ShotResult

LEMMA InitIInv == Init => IInv
<1> SUFFICES ASSUME Init PROVE IInv
  OBVIOUS
<1>1. board = InitBoard /\ answer = "NONE"
  BY DEF Init
<1>2. Len(board.ships) = 0
  BY <1>1 DEF InitBoard
<1> QED
  BY <1>1, <1>2, InitBoardSound, GameAssumption DEF IInv

LEMMA NextIInv == IInv /\ [Next]_vars => IInv'
<1> SUFFICES ASSUME IInv, [Next]_vars PROVE IInv'
  OBVIOUS
<1>1. Sound(board) /\ MAX_SHIPS \in Nat
  BY GameAssumption DEF IInv
<1>2. ASSUME NEW p \in Placements, Place(p) PROVE IInv'
  <2>1. p \in ShipPlacement
    BY BoardAssumption
  <2>2. Sound(board')
    BY <1>1, <1>2, <2>1, PlaceShipSound DEF Place
  <2>3. Len(board'.ships) <= MAX_SHIPS
    BY <1>1, <1>2, <2>1, PlaceShipLen DEF Place
  <2> QED
    BY <1>2, <2>2, <2>3 DEF IInv, Place
<1>3. ASSUME NEW c \in Shots, Shoot(c[1], c[2]) PROVE IInv'
  BY <1>1, <1>3, ShotSound, ShotLen, ShotAnswerType DEF IInv, Shoot
<1>4. CASE UNCHANGED vars
  BY <1>4 DEF vars, IInv
<1> QED
  BY <1>2, <1>3, <1>4 DEF Next

(* Every board reached agrees with its ships, whatever was placed on it    *)
(* and shot at (the two views game.c updates one through the other).       *)
THEOREM Invariance == Spec => []IInv
BY InitIInv, NextIInv, PTL DEF Spec

(* A ship of a board is hit at most as often as it has cells, and the      *)
(* array of ships never overflows (game.h Board.ships).                    *)
THEOREM TypeCorrect == Spec => []TypeOK
<1>1. IInv => TypeOK
  BY HitsInRange DEF IInv, Sound, Board, TypeOK
<1> QED
  BY <1>1, Invariance, PTL

(* The grid that placing and shooting read and the counters and flags that *)
(* all_ships_sunk reads never diverge (game.c take_shot, place_ship).      *)
THEOREM GridAlwaysMatches == Spec => []GridMatchesShips
<1>1. IInv => GridMatchesShips
  BY DEF IInv, Sound, GridMatchesShips
<1> QED
  BY <1>1, Invariance, PTL

-----------------------------------------------------------------------------
(* A ship that can be sunk is marked sunk when all its cells were shot at. *)
LEMMA SunkMeansStruck ==
    ASSUME NEW b, Sound(b), NEW i \in DOMAIN b.ships
    PROVE  b.ships[i].sunk
              <=> CanSink(b.ships[i]) /\ ShipCells(b.ships[i]) \subseteq Struck(b)
<1>1. /\ b.ships[i].sunk
           <=> CanSink(b.ships[i]) /\ HitCells(b, i) = ShipCells(b.ships[i])
      /\ ShipCells(b.ships[i]) \subseteq Coord
      /\ \A c \in ShipCells(b.ships[i]) : b.cells[c] \in {"SHIP", "HIT"}
  BY DEF Sound, BoardAgrees, HitCells
<1>2. HitCells(b, i) = ShipCells(b.ships[i]) <=> ShipCells(b.ships[i]) \subseteq Struck(b)
  BY <1>1 DEF HitCells, Struck
<1> QED
  BY <1>1, <1>2

LEMMA LostMeansDefeated ==
    ASSUME NEW b, Sound(b)
    PROVE  AllShipsSunk(b) <=> Abstract!Defeated(FleetOf(b), Struck(b))
<1> DEFINE ship(i) == [cells |-> ShipCells(b.ships[i]), sinkable |-> CanSink(b.ships[i])]
<1>1. \A i \in DOMAIN b.ships : b.ships[i].sunk <=> Abstract!Sinks(ship(i), Struck(b))
  BY SunkMeansStruck DEF Abstract!Sinks
<1>2. FleetOf(b) = {ship(i) : i \in DOMAIN b.ships}
  BY DEF FleetOf
<1> HIDE DEF ship
<1> QED
  BY <1>1, <1>2 DEF AllShipsSunk, Abstract!Defeated

LEMMA PlaceRefines ==
    ASSUME IInv, NEW p \in Placements, Place(p)
    PROVE  Abstract!Launch \/ Abstract!Refuse
<1>1. Sound(board) /\ p \in ShipPlacement
  BY BoardAssumption DEF IInv
<1>2. CASE ~CanPlaceShip(board, p)
  <2>1. board' = board /\ answer' = "REFUSED"
    BY <1>2 DEF Place, PlaceShip
  <2> QED
    BY <2>1 DEF Abstract!Refuse
<1>3. CASE CanPlaceShip(board, p)
  <2> DEFINE n == Len(board.ships) + 1
             cells == ShipCells(p)
             ship == [cells |-> cells, sinkable |-> CanSink(p)]
  <2>1. /\ board' \in Board
        /\ Len(board'.ships) = n
        /\ \A i \in 1 .. Len(board.ships) : board'.ships[i] = board.ships[i]
        /\ ShipCells(board'.ships[n]) = cells
        /\ CanSink(board'.ships[n]) = CanSink(p)
        /\ ~board'.ships[n].sunk
        /\ cells \subseteq Coord
        /\ \A c \in cells : board.cells[c] = "EMPTY"
        /\ \A c \in Coord : board'.cells[c] =
                IF c \in cells THEN "SHIP" ELSE board.cells[c]
    BY <1>1, <1>3, PlacedShip DEF Place
  <2>2. /\ Len(board.ships) \in Nat
        /\ DOMAIN board.ships = 1 .. Len(board.ships)
        /\ DOMAIN board'.ships = 1 .. n
    BY <1>1, <2>1 DEF Sound, Board
  <2>3. CanSink(p) => cells # {}
    BY <1>1, CanSinkHasCells DEF ShipPlacement
  <2>4. /\ cells \in SUBSET (Coord \ Struck(board))
        /\ \A other \in FleetOf(board) : other.cells \cap cells = {}
    BY <1>1, <2>1 DEF Struck, FleetOf, Sound, BoardAgrees
  <2>5. FleetOf(board') = FleetOf(board) \cup {ship}
    <3>1. \A i \in 1 .. n : i = n \/ i \in 1 .. Len(board.ships)
      BY <2>2
    <3>2. n \in 1 .. n /\ \A i \in 1 .. Len(board.ships) : i \in 1 .. n
      BY <2>2
    <3> HIDE DEF n, cells
    <3> QED
      BY <2>1, <2>2, <3>1, <3>2, Zenon DEF FleetOf
  <2>6. Struck(board') = Struck(board)
    BY <2>1 DEF Struck
  <2>7. ~AllShipsSunk(board')
    BY <2>1, <2>2 DEF AllShipsSunk
  <2>8. answer' = "PLACED"
    BY <1>3 DEF Place
  <2> QED
    <3>1. CanSink(p) \in BOOLEAN
      BY DEF CanSink
    <3>2. AllShipsSunk(board') = FALSE
      BY <2>7, Zenon DEF AllShipsSunk
    <3> HIDE DEF n, cells
    <3>3. Abstract!Launch
      BY <2>3, <2>4, <2>5, <2>6, <2>8, <3>1, <3>2, Zenon DEF Abstract!Launch
    <3> QED
      BY <3>3
<1> QED
  BY <1>2, <1>3

(* Strike of Fleet.tla, said of the board.                                 *)
LEMMA StrikeOnBoard ==
    ASSUME NEW c, c \in Coord \ Struck(board),
           Struck(board') = Struck(board) \cup {c},
           FleetOf(board') = FleetOf(board),
           AllShipsSunk(board') <=> Abstract!Defeated(FleetOf(board), Struck(board')),
           answer' = IF \E ship \in FleetOf(board) : c \in ship.cells
                     THEN IF \E ship \in FleetOf(board) :
                                c \in ship.cells /\ Abstract!Sinks(ship, Struck(board'))
                          THEN "SUNK" ELSE "HIT"
                     ELSE "MISS"
    PROVE  Abstract!Strike(c)
<1>1. AllShipsSunk(board') = Abstract!Defeated(FleetOf(board), Struck(board'))
  BY Zenon DEF AllShipsSunk, Abstract!Defeated
<1> QED
  BY <1>1, Zenon DEF Abstract!Strike

LEMMA ShootRefines ==
    ASSUME IInv, NEW c \in Shots, Shoot(c[1], c[2])
    PROVE  \/ c \in Coord /\ Abstract!Strike(c)
           \/ Abstract!Waste(c) /\ c \in Coord \cup (Shots \ Coord)
<1>1. Sound(board) /\ Sound(board') /\ c = <<c[1], c[2]>>
  BY ShotSound, BoardAssumption DEF IInv, Shoot
<1>2. board.cells \in [Coord -> CellState] /\ board.ships \in Seq(Ship)
  BY <1>1 DEF Sound, Board
<1>3. /\ AllShipsSunk(board) <=> Abstract!Defeated(FleetOf(board), Struck(board))
      /\ AllShipsSunk(board') <=> Abstract!Defeated(FleetOf(board'), Struck(board'))
  BY <1>1, LostMeansDefeated
<1>4. /\ board' = BoardAfterShot(board, c[1], c[2])
      /\ answer' = ShotAnswer(board, c[1], c[2])
  BY DEF Shoot
<1>5. CASE c \notin Coord \/ c \in Struck(board)
  <2>1. board' = board /\ answer' = "INVALID"
    BY <1>1, <1>4, <1>5 DEF BoardAfterShot, ShotAnswer, InBounds, Struck
  <2> QED
    BY <1>5, <2>1 DEF Abstract!Waste, Struck
<1>6. CASE c \in Coord /\ board.cells[c] = "EMPTY"
  <2>1. board' = [board EXCEPT !.cells[c] = "MISS"] /\ answer' = "MISS"
    BY <1>1, <1>4, <1>6 DEF BoardAfterShot, ShotAnswer, InBounds
  <2>2. /\ board'.ships = board.ships
        /\ \A d \in Coord : board'.cells[d] = IF d = c THEN "MISS" ELSE board.cells[d]
    BY <1>1, <1>2, <1>6, <2>1 DEF Sound, Board
  <2>3. FleetOf(board') = FleetOf(board) /\ Struck(board') = Struck(board) \cup {c}
    BY <1>6, <2>2 DEF FleetOf, Struck
  <2>4. \A ship \in FleetOf(board) : c \notin ship.cells
    BY <1>1, <1>6 DEF FleetOf, Sound, BoardAgrees
  <2>5. c \in Coord \ Struck(board)
    BY <1>6 DEF Struck
  <2>6. c \in Coord /\ Abstract!Strike(c)
    BY <1>3, <1>6, <2>1, <2>3, <2>4, <2>5, StrikeOnBoard
  <2> QED
    BY <2>6
<1>7. CASE c \in Coord /\ board.cells[c] = "SHIP"
  <2> DEFINE i == GetShipAt(board, c)
             s == HitShip(board.ships[i])
  <2>1. /\ i \in DOMAIN board.ships
        /\ i # 0
        /\ c \in ShipCells(board.ships[i])
        /\ board' = [cells |-> [board.cells EXCEPT ![c] = "HIT"],
                     ships |-> [board.ships EXCEPT ![i] = s]]
        /\ ShipCells(board'.ships[i]) = ShipCells(board.ships[i])
        /\ HitCells(board', i) = HitCells(board, i) \cup {c}
        /\ CanSink(board'.ships[i]) = CanSink(board.ships[i])
        /\ s.hits = board.ships[i].length
                <=> CanSink(board.ships[i]) /\ HitCells(board', i) = ShipCells(board.ships[i])
        /\ s.sunk
                <=> CanSink(board.ships[i]) /\ HitCells(board', i) = ShipCells(board.ships[i])
    BY <1>1, <1>4, <1>7, ShotAtShip
  <2>2. answer' = IF s.hits = board.ships[i].length THEN "SUNK" ELSE "HIT"
    BY <1>1, <1>4, <1>7, <2>1 DEF ShotAnswer, InBounds
  <2> HIDE DEF i, s
  <2>3. /\ DOMAIN board'.ships = DOMAIN board.ships
        /\ \A d \in Coord : board'.cells[d] = IF d = c THEN "HIT" ELSE board.cells[d]
        /\ \A j \in DOMAIN board.ships :
              board'.ships[j] = IF j = i THEN s ELSE board.ships[j]
    BY <1>2, <2>1
  <2>4. FleetOf(board') = FleetOf(board)
    BY <2>1, <2>3 DEF FleetOf
  <2>5. Struck(board') = Struck(board) \cup {c}
    BY <1>7, <2>3 DEF Struck
  <2> DEFINE target == [cells |-> ShipCells(board.ships[i]),
                        sinkable |-> CanSink(board.ships[i])]
  <2>6. \A ship \in FleetOf(board) : c \in ship.cells => ship = target
    <3> SUFFICES ASSUME NEW ship \in FleetOf(board), c \in ship.cells
                 PROVE  ship = target
      OBVIOUS
    <3>1. PICK j \in DOMAIN board.ships :
             ship = [cells |-> ShipCells(board.ships[j]), sinkable |-> CanSink(board.ships[j])]
      BY Zenon DEF FleetOf
    <3>2. j # i => ShipCells(board.ships[j]) \cap ShipCells(board.ships[i]) = {}
      BY <1>1, <2>1 DEF Sound, BoardAgrees
    <3>3. c \in ShipCells(board.ships[j])
      BY <3>1
    <3> QED
      BY <2>1, <3>1, <3>2, <3>3
  <2>7. target \in FleetOf(board) /\ c \in target.cells
    BY <2>1 DEF FleetOf
  <2>8. s.hits = board.ships[i].length <=> Abstract!Sinks(target, Struck(board'))
    <3>1. board'.ships[i].sunk
             <=> CanSink(board'.ships[i]) /\ ShipCells(board'.ships[i]) \subseteq Struck(board')
      BY <1>1, <2>1, <2>3, SunkMeansStruck
    <3> QED
      BY <2>1, <2>3, <3>1 DEF Abstract!Sinks
  <2> HIDE DEF target
  <2>9. answer' = IF \E ship \in FleetOf(board) :
                        c \in ship.cells /\ Abstract!Sinks(ship, Struck(board'))
                  THEN "SUNK" ELSE "HIT"
    BY <2>2, <2>6, <2>7, <2>8
  <2>10. c \in Coord \ Struck(board)
    BY <1>7 DEF Struck
  <2>11. c \in Coord /\ Abstract!Strike(c)
    BY <1>3, <1>7, <2>1, <2>4, <2>5, <2>7, <2>9, <2>10, StrikeOnBoard
  <2> QED
    BY <2>11
<1>8. c \notin Coord \/ c \in Struck(board)
         \/ (c \in Coord /\ board.cells[c] = "EMPTY")
         \/ (c \in Coord /\ board.cells[c] = "SHIP")
  BY <1>2 DEF Struck, CellState
<1> QED
  BY <1>5, <1>6, <1>7, <1>8

(* place_ship and take_shot implement the abstract fleet: what a player is *)
(* told, and whether the game is over, depends on the cells of the ships   *)
(* and the cells shot at and on nothing else.                              *)
THEOREM BoardImplementsFleet == Spec => ImplementsFleet
<1>1. Init => Abstract!Init
  <2> SUFFICES ASSUME Init PROVE Abstract!Init
    OBVIOUS
  <2>1. board.ships = << >> /\ \A c \in Coord : board.cells[c] = "EMPTY"
    BY DEF Init, InitBoard
  <2> QED
    BY <2>1 DEF Init, Abstract!Init, Struck, AllShipsSunk, FleetOf
<1>2. IInv /\ [Next]_vars => [Abstract!Next]_(Abstract!vars)
  <2> SUFFICES ASSUME IInv, [Next]_vars PROVE [Abstract!Next]_(Abstract!vars)
    OBVIOUS
  <2>1. ASSUME NEW p \in Placements, Place(p) PROVE Abstract!Next
    BY <2>1, PlaceRefines DEF Abstract!Next
  <2>2. ASSUME NEW c \in Shots, Shoot(c[1], c[2]) PROVE Abstract!Next
    BY <2>2, ShootRefines DEF Abstract!Next
  <2>3. CASE UNCHANGED vars
    BY <2>3 DEF vars, Abstract!vars
  <2> QED
    BY <2>1, <2>2, <2>3 DEF Next
<1> QED
  BY <1>1, <1>2, Invariance, PTL DEF Spec, ImplementsFleet, Abstract!Spec
=============================================================================
