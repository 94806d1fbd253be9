----------------------------- MODULE GameProofs -----------------------------
(***************************************************************************)
(* Facts about the rules of Game.tla for every size of board: a board that *)
(* is put together by place_ship and take_shot always agrees with its list *)
(* of ships.                                                               *)
(***************************************************************************)
EXTENDS Game, FiniteSetTheorems, SequenceTheorems, TLAPS

HitCells(b, i) == {c \in ShipCells(b.ships[i]) : b.cells[c] = "HIT"}

(* A board whose ships lie on the board, and whose grid and ships tell the *)
(* same story.                                                             *)
Sound(b) ==
    /\ b \in Board
    /\ \A i \in DOMAIN b.ships : ShipCells(b.ships[i]) \subseteq Coord
    /\ BoardAgrees(b)

-----------------------------------------------------------------------------
(* A nonempty set of natural numbers has the least element Min denotes.    *)
LEMMA MinLeast ==
    ASSUME NEW S \in SUBSET Nat, S # {}
    PROVE  Min(S) \in S /\ \A y \in S : Min(S) <= y
<1> DEFINE R == {ss \in Nat \X Nat : ss[1] < ss[2]}
<1>1. R = OpToRel(<, Nat)
  BY Zenon DEF OpToRel
<1>2. IsWellFoundedOn(R, Nat)
  BY <1>1, NatLessThanWellFounded, Zenon
<1>3. \A y, x \in Nat : y < x => <<y, x>> \in R
  OBVIOUS
<1> HIDE DEF R
<1>4. PICK x \in S : \A y \in S : ~(<<y, x>> \in R)
  BY <1>2, WFMin
<1>5. \A y \in S : x <= y
  <2> SUFFICES ASSUME NEW y \in S PROVE x <= y
    OBVIOUS
  <2>1. x \in Nat /\ y \in Nat
    OBVIOUS
  <2>2. ~(y < x)
    BY <1>3, <1>4, <2>1, Zenon
  <2> QED
    BY <2>1, <2>2
<1> QED
  BY <1>5 DEF Min

LEMMA MinIn ==
    ASSUME NEW S \in SUBSET Nat, S # {}
    PROVE  Min(S) \in S
BY MinLeast

(* Induction, for a set instead of a predicate.                            *)
LEMMA SetInduction ==
    ASSUME NEW S, 0 \in S, \A n \in Nat : n \in S => n + 1 \in S
    PROVE  \A n \in Nat : n \in S
<1> DEFINE D == Nat \ S
<1> SUFFICES ASSUME D # {} PROVE FALSE
  OBVIOUS
<1>1. Min(D) \in D /\ \A y \in D : Min(D) <= y
  BY MinLeast
<1> DEFINE m == Min(D)
<1> HIDE DEF m
<1>2. m \in Nat /\ m \notin S /\ \A y \in D : m <= y
  BY <1>1 DEF m
<1>3. m - 1 \in Nat /\ m - 1 \in S
  BY <1>2
<1> QED
  BY <1>2, <1>3

(* A ship has no more cells than segments, whatever its orientation.       *)
LEMMA ShipCellsCounted ==
    ASSUME NEW ship, ship.length \in Int
    PROVE  /\ IsFiniteSet(ShipCells(ship))
           /\ Cardinality(ShipCells(ship)) \in Nat
           /\ ship.length >= 1 => /\ Cardinality(ShipCells(ship)) <= ship.length
                                  /\ ShipCells(ship) # {}
           /\ ship.length < 1 => ShipCells(ship) = {}
<1> DEFINE I == 0 .. ship.length - 1
           f == [i \in I |-> Segment(ship, i)]
<1>1. ShipCells(ship) = {Segment(ship, i) : i \in I}
  BY DEF ShipCells
<1>2. f \in Surjection(I, ShipCells(ship))
  <2>1. f \in [I -> ShipCells(ship)]
    BY <1>1
  <2>2. \A c \in ShipCells(ship) : \E i \in I : f[i] = c
    BY <1>1
  <2> HIDE DEF f, I
  <2> QED
    BY <2>1, <2>2, Zenon DEF Surjection
<1>3. IsFiniteSet(I) /\ (ship.length >= 1 => Cardinality(I) = ship.length)
  BY FS_Interval
<1>4. /\ ship.length >= 1 => 0 \in I
      /\ ship.length < 1 => I = {}
  OBVIOUS
<1> HIDE DEF I, f
<1>5. IsFiniteSet(ShipCells(ship)) /\ Cardinality(ShipCells(ship)) <= Cardinality(I)
  BY <1>2, <1>3, FS_Surjection
<1> QED
  BY <1>1, <1>3, <1>4, <1>5, FS_CardinalityType

(* A ship that can be sunk has a cell.                                     *)
LEMMA CanSinkHasCells ==
    ASSUME NEW ship, ship.length \in Int, CanSink(ship)
    PROVE  ShipCells(ship) # {}
BY ShipCellsCounted DEF CanSink

(* A ship of one or more cells in a row or a column can be sunk.           *)
LEMMA StraightShipsCanSink ==
    ASSUME NEW ship, ship.x \in Int, ship.y \in Int,
           ship.length \in Int, ship.length >= 1,
           ship.orientation \in Straight
    PROVE  CanSink(ship)
<1> DEFINE I == 0 .. ship.length - 1
           f == [i \in I |-> Segment(ship, i)]
<1>1. ShipCells(ship) = {Segment(ship, i) : i \in I}
  BY DEF ShipCells
<1>2. \A i, j \in I : Segment(ship, i) = Segment(ship, j) => i = j
  <2> TAKE i, j \in I
  <2> HAVE Segment(ship, i) = Segment(ship, j)
  <2>1. CASE ship.orientation = "HORIZONTAL"
    <3>1. ship.x + i = ship.x + j
      BY <2>1 DEF Segment
    <3> QED
      BY <3>1
  <2>2. CASE ship.orientation = "VERTICAL"
    <3>1. ship.y + i = ship.y + j
      BY <2>2 DEF Segment
    <3> QED
      BY <3>1
  <2> QED
    BY <2>1, <2>2 DEF Straight
<1>3. f \in Bijection(I, ShipCells(ship))
  <2>1. f \in [I -> ShipCells(ship)]
    BY <1>1
  <2>2. \A i, j \in I : f[i] = f[j] => i = j
    BY <1>2
  <2>3. \A c \in ShipCells(ship) : \E i \in I : f[i] = c
    BY <1>1
  <2> HIDE DEF f, I
  <2> QED
    BY <2>1, <2>2, <2>3, Zenon DEF Bijection, Injection, Surjection, IsInjective
<1>4. IsFiniteSet(I) /\ Cardinality(I) = ship.length
  BY FS_Interval
<1>5. ExistsBijection(I, ShipCells(ship))
  BY <1>3, Zenon DEF ExistsBijection
<1> HIDE DEF I, f
<1>6. Cardinality(ShipCells(ship)) = ship.length
  BY <1>4, <1>5, FS_Bijection
<1> QED
  BY <1>6 DEF CanSink

(* Only where a ship lies and how long it is decide which cells it covers. *)
LEMMA SameCells ==
    ASSUME NEW s, NEW t, s.x = t.x, s.y = t.y, s.length = t.length,
           s.orientation = t.orientation
    PROVE  ShipCells(s) = ShipCells(t) /\ CanSink(s) = CanSink(t)
<1>1. \A i : Segment(s, i) = Segment(t, i)
  BY DEF Segment
<1>2. ShipCells(s) = ShipCells(t)
  BY <1>1 DEF ShipCells
<1> QED
  BY <1>2 DEF CanSink

(* The board a player starts with.                                         *)
LEMMA InitBoardSound == Sound(InitBoard)
BY DEF Sound, InitBoard, Board, BoardAgrees, CellState

(* What a legal ship adds to a board.                                      *)
LEMMA PlacedShip ==
    ASSUME NEW b, Sound(b), NEW p \in ShipPlacement,
           CanPlaceShip(b, p)
    PROVE  LET t == PlaceShip(b, p)
               n == Len(b.ships) + 1
           IN  /\ t \in Board
               /\ Len(t.ships) = n
               /\ \A i \in 1 .. Len(b.ships) : t.ships[i] = b.ships[i]
               /\ ShipCells(t.ships[n]) = ShipCells(p)
               /\ CanSink(t.ships[n]) = CanSink(p)
               /\ t.ships[n].hits = 0 /\ ~t.ships[n].sunk
               /\ ShipCells(p) \subseteq Coord
               /\ \A c \in ShipCells(p) : b.cells[c] = "EMPTY"
               /\ \A c \in Coord : t.cells[c] =
                    IF c \in ShipCells(p) THEN "SHIP" ELSE b.cells[c]
<1> DEFINE new == [x |-> p.x, y |-> p.y, length |-> p.length,
                   orientation |-> p.orientation, hits |-> 0, sunk |-> FALSE]
           grid == [c \in Coord |-> IF c \in ShipCells(p) THEN "SHIP" ELSE b.cells[c]]
<1>1. new \in Ship
  BY DEF Ship, ShipPlacement
<1>2. ShipCells(new) = ShipCells(p) /\ CanSink(new) = CanSink(p)
  BY SameCells
<1>3. new.hits = 0 /\ ~new.sunk
  OBVIOUS
<1>4. PlaceShip(b, p) = [cells |-> grid, ships |-> Append(b.ships, new)]
  BY DEF PlaceShip
<1>5. /\ b.ships \in Seq(Ship) /\ b.cells \in [Coord -> CellState]
      /\ Len(b.ships) \in Nat
  BY DEF Sound, Board
<1>6. grid \in [Coord -> CellState]
  BY <1>5 DEF CellState
<1>7. \A c \in ShipCells(p) : c \in Coord /\ b.cells[c] = "EMPTY"
  BY DEF CanPlaceShip
<1>8. \A c \in Coord : grid[c] = IF c \in ShipCells(p) THEN "SHIP" ELSE b.cells[c]
  OBVIOUS
<1> HIDE DEF new, grid
<1>9. /\ Append(b.ships, new) \in Seq(Ship)
      /\ Len(Append(b.ships, new)) = Len(b.ships) + 1
      /\ \A i \in 1 .. Len(b.ships) : Append(b.ships, new)[i] = b.ships[i]
      /\ Append(b.ships, new)[Len(b.ships) + 1] = new
  BY <1>1, <1>5, AppendProperties
<1> QED
  BY <1>2, <1>3, <1>4, <1>6, <1>7, <1>8, <1>9 DEF Board

LEMMA PlaceShipSound ==
    ASSUME NEW b, Sound(b), NEW p \in ShipPlacement
    PROVE  Sound(PlaceShip(b, p))
<1>1. CASE ~CanPlaceShip(b, p)
  BY <1>1 DEF PlaceShip
<1>2. CASE CanPlaceShip(b, p)
  <2> DEFINE t == PlaceShip(b, p)
             n == Len(b.ships) + 1
  <2>1. /\ t \in Board
        /\ Len(t.ships) = n
        /\ \A i \in 1 .. Len(b.ships) : t.ships[i] = b.ships[i]
        /\ ShipCells(t.ships[n]) = ShipCells(p)
        /\ CanSink(t.ships[n]) = CanSink(p)
        /\ t.ships[n].hits = 0 /\ ~t.ships[n].sunk
        /\ ShipCells(p) \subseteq Coord
        /\ \A c \in ShipCells(p) : b.cells[c] = "EMPTY"
        /\ \A c \in Coord : t.cells[c] =
                IF c \in ShipCells(p) THEN "SHIP" ELSE b.cells[c]
    BY <1>2, PlacedShip
  <2> HIDE DEF t
  <2>2. Len(b.ships) \in Nat /\ DOMAIN b.ships = 1 .. Len(b.ships)
    BY DEF Sound, Board
  <2>3. DOMAIN t.ships = 1 .. n
    BY <2>1 DEF Board
  <2>4. \A i \in 1 .. n : i = n \/ i \in 1 .. Len(b.ships)
    BY <2>2
  <2>5. CanSink(p) => ShipCells(p) # {}
    BY CanSinkHasCells DEF ShipPlacement
  <2>6. \A i \in 1 .. Len(b.ships) :
           /\ ShipCells(b.ships[i]) \subseteq Coord
           /\ \A c \in ShipCells(b.ships[i]) : b.cells[c] \in {"SHIP", "HIT"}
           /\ ShipCells(b.ships[i]) \cap ShipCells(p) = {}
    <3> TAKE i \in 1 .. Len(b.ships)
    <3>1. ShipCells(b.ships[i]) \subseteq Coord
      BY <2>2 DEF Sound
    <3>2. \A c \in ShipCells(b.ships[i]) : b.cells[c] \in {"SHIP", "HIT"}
      BY <2>2, <3>1 DEF Sound, BoardAgrees
    <3> QED
      BY <2>1, <3>1, <3>2
  <2>7. \A i, j \in DOMAIN t.ships :
           i # j => ShipCells(t.ships[i]) \cap ShipCells(t.ships[j]) = {}
    <3>1. \A i, j \in 1 .. Len(b.ships) :
             i # j => ShipCells(b.ships[i]) \cap ShipCells(b.ships[j]) = {}
      BY <2>2 DEF Sound, BoardAgrees
    <3> QED
      BY <2>1, <2>3, <2>4, <2>6, <3>1
  <2>8. ASSUME NEW c \in Coord
        PROVE  t.cells[c] \in {"SHIP", "HIT"}
                  <=> \E i \in DOMAIN t.ships : c \in ShipCells(t.ships[i])
    <3>1. b.cells[c] \in {"SHIP", "HIT"}
             <=> \E i \in 1 .. Len(b.ships) : c \in ShipCells(b.ships[i])
      BY <2>2 DEF Sound, BoardAgrees
    <3>2. CASE c \in ShipCells(p)
      <4>1. n \in DOMAIN t.ships
        BY <2>2, <2>3
      <4> QED
        BY <2>1, <3>2, <4>1
    <3>3. CASE c \notin ShipCells(p)
      <4>1. (\E i \in 1 .. Len(b.ships) : c \in ShipCells(b.ships[i]))
               <=> \E i \in 1 .. n : c \in ShipCells(t.ships[i])
        <5>1. \A i \in 1 .. Len(b.ships) : i \in 1 .. n
          BY <2>2
        <5> QED
          BY <2>1, <2>4, <3>3, <5>1
      <4> QED
        BY <2>1, <2>3, <3>1, <3>3, <4>1
    <3> QED
      BY <3>2, <3>3
  <2>9. ASSUME NEW i \in DOMAIN t.ships
        PROVE  /\ t.ships[i].hits = Cardinality(HitCells(t, i))
               /\ t.ships[i].sunk
                    <=> CanSink(t.ships[i]) /\ HitCells(t, i) = ShipCells(t.ships[i])
    <3>1. CASE i = n
      <4>1. HitCells(t, i) = {}
        BY <2>1, <3>1 DEF HitCells
      <4> QED
        BY <2>1, <2>5, <3>1, <4>1, FS_EmptySet
    <3>2. CASE i \in 1 .. Len(b.ships)
      <4>1. t.ships[i] = b.ships[i]
        BY <2>1, <3>2
      <4>2. HitCells(t, i) = HitCells(b, i)
        BY <2>1, <2>6, <3>2, <4>1 DEF HitCells
      <4>3. /\ b.ships[i].hits = Cardinality(HitCells(b, i))
            /\ b.ships[i].sunk
                 <=> CanSink(b.ships[i]) /\ HitCells(b, i) = ShipCells(b.ships[i])
        BY <2>2, <3>2 DEF Sound, BoardAgrees, HitCells
      <4> QED
        BY <4>1, <4>2, <4>3
    <3> QED
      BY <2>3, <2>4, <3>1, <3>2
  <2>10. BoardAgrees(t)
    BY <2>7, <2>8, <2>9 DEF BoardAgrees, HitCells
  <2>11. \A i \in DOMAIN t.ships : ShipCells(t.ships[i]) \subseteq Coord
    BY <2>1, <2>3, <2>4, <2>6
  <2> QED
    BY <2>1, <2>10, <2>11 DEF Sound, t
<1> QED
  BY <1>1, <1>2

(* The ship get_ship_at finds is the one that covers the cell.             *)
LEMMA GetShipAtFinds ==
    ASSUME NEW b, Sound(b), NEW i \in DOMAIN b.ships,
           NEW c \in ShipCells(b.ships[i])
    PROVE  GetShipAt(b, c) = i /\ i # 0
<1> DEFINE covering == {j \in DOMAIN b.ships : c \in ShipCells(b.ships[j])}
<1>1. DOMAIN b.ships = 1 .. Len(b.ships) /\ Len(b.ships) \in Nat
  BY DEF Sound, Board
<1>2. covering = {i}
  BY DEF Sound, BoardAgrees
<1>3. covering \in SUBSET Nat /\ covering # {}
  BY <1>1, <1>2
<1>4. Min(covering) \in covering
  BY <1>3, MinIn
<1>5. GetShipAt(b, c) = Min(covering)
  BY <1>3 DEF GetShipAt
<1> HIDE DEF covering
<1> QED
  BY <1>1, <1>2, <1>4, <1>5

(* A ship is never hit more often than it has cells.                       *)
LEMMA HitsInRange ==
    ASSUME NEW b, Sound(b), NEW i \in DOMAIN b.ships
    PROVE  /\ IsFiniteSet(HitCells(b, i))
           /\ IsFiniteSet(ShipCells(b.ships[i]))
           /\ Cardinality(ShipCells(b.ships[i])) \in Nat
           /\ b.ships[i].hits = Cardinality(HitCells(b, i))
           /\ b.ships[i].hits \in 0 .. Cardinality(ShipCells(b.ships[i]))
<1>1. b.ships[i].length \in Int
  <2>1. b.ships[i] \in Ship
    BY DEF Sound, Board
  <2> QED
    BY <2>1 DEF Ship
<1>2. /\ IsFiniteSet(ShipCells(b.ships[i]))
      /\ Cardinality(ShipCells(b.ships[i])) \in Nat
  BY <1>1, ShipCellsCounted
<1>3. HitCells(b, i) \in SUBSET ShipCells(b.ships[i])
  BY DEF HitCells
<1>4. b.ships[i].hits = Cardinality(HitCells(b, i))
  BY DEF Sound, BoardAgrees, HitCells
<1>5. /\ IsFiniteSet(HitCells(b, i))
      /\ Cardinality(HitCells(b, i)) <= Cardinality(ShipCells(b.ships[i]))
  BY <1>2, <1>3, FS_Subset
<1>6. Cardinality(HitCells(b, i)) \in Nat
  BY <1>5, FS_CardinalityType
<1> QED
  BY <1>2, <1>4, <1>5, <1>6

(* A hit changes the counter and the flag of a ship and nothing else.      *)
LEMMA HitShipFields ==
    ASSUME NEW s \in Ship
    PROVE  /\ HitShip(s) \in Ship
           /\ HitShip(s).hits = s.hits + 1
           /\ HitShip(s).length = s.length
           /\ HitShip(s).sunk <=> s.sunk \/ s.hits + 1 = s.length
           /\ ShipCells(HitShip(s)) = ShipCells(s)
           /\ CanSink(HitShip(s)) = CanSink(s)
<1> DEFINE hits == s.hits + 1
           sunk == s.sunk \/ s.hits + 1 = s.length
<1>1. HitShip(s) = [s EXCEPT !.hits = hits, !.sunk = sunk]
  BY DEF HitShip
<1>2. hits \in Int /\ sunk \in BOOLEAN
  BY DEF Ship
<1> HIDE DEF hits, sunk
<1>3. HitShip(s) \in Ship
  BY <1>1, <1>2 DEF Ship
<1>4. HitShip(s).hits = hits /\ HitShip(s).sunk = sunk
  BY <1>1 DEF Ship
<1>5. /\ HitShip(s).x = s.x
      /\ HitShip(s).y = s.y
      /\ HitShip(s).length = s.length
      /\ HitShip(s).orientation = s.orientation
  BY <1>1 DEF Ship
<1>6. ShipCells(HitShip(s)) = ShipCells(s) /\ CanSink(HitShip(s)) = CanSink(s)
  BY <1>5, SameCells
<1> QED
  BY <1>3, <1>4, <1>5, <1>6 DEF hits, sunk

(* What a first shot at a ship changes: the one ship that covers the cell. *)
LEMMA ShotAtShip ==
    ASSUME NEW b, Sound(b), NEW x, NEW y, <<x, y>> \in Coord,
           b.cells[<<x, y>>] = "SHIP"
    PROVE  LET c == <<x, y>>
               t == BoardAfterShot(b, x, y)
               i == GetShipAt(b, c)
           IN  /\ i \in DOMAIN b.ships
               /\ i # 0
               /\ c \in ShipCells(b.ships[i])
               /\ t = [cells |-> [b.cells EXCEPT ![c] = "HIT"],
                       ships |-> [b.ships EXCEPT ![i] = HitShip(@)]]
               /\ HitCells(t, i) = HitCells(b, i) \cup {c}
               /\ ShipCells(t.ships[i]) = ShipCells(b.ships[i])
               /\ CanSink(t.ships[i]) = CanSink(b.ships[i])
               /\ HitShip(b.ships[i]) \in Ship
               /\ HitShip(b.ships[i]).hits = Cardinality(HitCells(t, i))
               /\ HitShip(b.ships[i]).hits = b.ships[i].length
                    <=> CanSink(b.ships[i]) /\ HitCells(t, i) = ShipCells(b.ships[i])
               /\ HitShip(b.ships[i]).sunk
                    <=> CanSink(b.ships[i]) /\ HitCells(t, i) = ShipCells(b.ships[i])
<1> DEFINE c == <<x, y>>
           t == BoardAfterShot(b, x, y)
           i == GetShipAt(b, c)
           s == b.ships[i]
<1>1. PICK j \in DOMAIN b.ships : c \in ShipCells(b.ships[j])
  BY DEF Sound, BoardAgrees
<1>2. i = j /\ i # 0
  BY <1>1, GetShipAtFinds
<1>3. t = [cells |-> [b.cells EXCEPT ![c] = "HIT"],
           ships |-> [b.ships EXCEPT ![i] = HitShip(@)]]
  BY <1>2 DEF BoardAfterShot, InBounds
<1> HIDE DEF t, i
<1>4. /\ i \in DOMAIN b.ships /\ c \in ShipCells(s)
      /\ b.cells \in [Coord -> CellState]
      /\ b.ships \in Seq(Ship)
      /\ s \in Ship
      /\ ShipCells(s) \subseteq Coord
  BY <1>1, <1>2 DEF Sound, Board
<1>5. /\ IsFiniteSet(HitCells(b, i))
      /\ IsFiniteSet(ShipCells(s))
      /\ s.hits = Cardinality(HitCells(b, i))
      /\ s.hits \in Nat
  BY <1>4, HitsInRange
<1>6. /\ HitShip(s) \in Ship
      /\ HitShip(s).hits = s.hits + 1
      /\ HitShip(s).length = s.length
      /\ HitShip(s).sunk <=> s.sunk \/ s.hits + 1 = s.length
      /\ ShipCells(HitShip(s)) = ShipCells(s)
      /\ CanSink(HitShip(s)) = CanSink(s)
  BY <1>4, HitShipFields
<1>7. t.ships[i] = HitShip(s)
  BY <1>3, <1>4
<1>8. c \notin HitCells(b, i)
  BY DEF HitCells
<1>9. HitCells(t, i) = HitCells(b, i) \cup {c}
  <2>1. ShipCells(t.ships[i]) = ShipCells(s)
    BY <1>6, <1>7
  <2>2. \A d \in ShipCells(s) : t.cells[d] = "HIT" <=> d = c \/ b.cells[d] = "HIT"
    BY <1>3, <1>4
  <2> QED
    BY <1>4, <2>1, <2>2 DEF HitCells
<1>10. /\ IsFiniteSet(HitCells(t, i))
       /\ Cardinality(HitCells(t, i)) = s.hits + 1
  BY <1>5, <1>8, <1>9, FS_AddElement
<1>11. s.hits + 1 = s.length <=> CanSink(s) /\ HitCells(t, i) = ShipCells(s)
  <2>1. HitCells(t, i) \in SUBSET ShipCells(s)
    BY <1>6, <1>7 DEF HitCells
  <2>2. /\ Cardinality(HitCells(t, i)) <= Cardinality(ShipCells(s))
        /\ Cardinality(ShipCells(s)) = Cardinality(HitCells(t, i))
             => HitCells(t, i) = ShipCells(s)
    BY <1>5, <2>1, FS_Subset
  <2>3. s.length \in Int
    BY <1>4 DEF Ship
  <2>4. /\ Cardinality(ShipCells(s)) \in Nat
        /\ s.length >= 1 => Cardinality(ShipCells(s)) <= s.length
    BY <2>3, ShipCellsCounted
  <2>5. ASSUME s.hits + 1 = s.length
        PROVE  CanSink(s) /\ HitCells(t, i) = ShipCells(s)
    <3>1. s.length >= 1 /\ Cardinality(ShipCells(s)) = s.length
      BY <1>5, <1>10, <2>2, <2>3, <2>4, <2>5
    <3> QED
      BY <1>10, <2>2, <2>5, <3>1 DEF CanSink
  <2>6. ASSUME CanSink(s), HitCells(t, i) = ShipCells(s)
        PROVE  s.hits + 1 = s.length
    BY <1>10, <2>6 DEF CanSink
  <2> QED
    BY <2>5, <2>6
<1>12. ~s.sunk
  BY <1>4, <1>8 DEF Sound, BoardAgrees, HitCells
<1> QED
  BY <1>2, <1>3, <1>4, <1>6, <1>7, <1>9, <1>10, <1>11, <1>12 DEF t, i

LEMMA ShotSound ==
    ASSUME NEW b, Sound(b), NEW x, NEW y
    PROVE  Sound(BoardAfterShot(b, x, y))
<1> DEFINE c == <<x, y>>
           t == BoardAfterShot(b, x, y)
<1>1. b.cells \in [Coord -> CellState] /\ b.ships \in Seq(Ship)
  BY DEF Sound, Board
<1>2. CASE c \notin Coord \/ b.cells[c] \notin {"EMPTY", "SHIP"}
  <2>1. t = b
    BY <1>2 DEF BoardAfterShot, InBounds
  <2> QED
    BY <2>1
<1>3. CASE c \in Coord /\ b.cells[c] = "EMPTY"
  <2>1. t = [b EXCEPT !.cells[c] = "MISS"]
    BY <1>3 DEF BoardAfterShot, InBounds
  <2>2. /\ t \in Board /\ t.ships = b.ships
        /\ \A d \in Coord : t.cells[d] = IF d = c THEN "MISS" ELSE b.cells[d]
    <3> DEFINE grid == [b.cells EXCEPT ![c] = "MISS"]
    <3>1. grid \in [Coord -> CellState]
      BY <1>1, <1>3 DEF CellState
    <3>2. \A d \in Coord : grid[d] = IF d = c THEN "MISS" ELSE b.cells[d]
      BY <1>1
    <3>3. t = [b EXCEPT !.cells = grid]
      BY <2>1
    <3>4. b \in Board
      BY DEF Sound
    <3> HIDE DEF grid, t, c
    <3>5. t.cells = grid /\ t.ships = b.ships /\ t \in Board
      BY <3>1, <3>3, <3>4 DEF Board
    <3> QED
      BY <3>2, <3>5
  <2> HIDE DEF t
  <2>3. \A i \in DOMAIN b.ships : c \notin ShipCells(b.ships[i])
    BY <1>3 DEF Sound, BoardAgrees
  <2>4. \A i \in DOMAIN b.ships : HitCells(t, i) = HitCells(b, i)
    BY <2>2, <2>3 DEF HitCells, Sound
  <2>5. BoardAgrees(t)
    <3>1. \A d \in Coord : t.cells[d] \in {"SHIP", "HIT"}
             <=> \E i \in DOMAIN t.ships : d \in ShipCells(t.ships[i])
      BY <2>2, <2>3 DEF Sound, BoardAgrees
    <3>2. \A i \in DOMAIN t.ships :
             /\ t.ships[i].hits = Cardinality(HitCells(t, i))
             /\ t.ships[i].sunk
                  <=> CanSink(t.ships[i]) /\ HitCells(t, i) = ShipCells(t.ships[i])
      BY <2>2, <2>4 DEF Sound, BoardAgrees, HitCells
    <3>3. \A i, j \in DOMAIN t.ships :
             i # j => ShipCells(t.ships[i]) \cap ShipCells(t.ships[j]) = {}
      BY <2>2 DEF Sound, BoardAgrees
    <3> QED
      BY <3>1, <3>2, <3>3 DEF BoardAgrees, HitCells
  <2> QED
    BY <2>2, <2>5 DEF Sound, t
<1>4. CASE c \in Coord /\ b.cells[c] = "SHIP"
  <2> DEFINE i == GetShipAt(b, c)
             s == HitShip(b.ships[i])
  <2>1. /\ i \in DOMAIN b.ships
        /\ c \in ShipCells(b.ships[i])
        /\ t = [cells |-> [b.cells EXCEPT ![c] = "HIT"],
                ships |-> [b.ships EXCEPT ![i] = s]]
        /\ HitCells(t, i) = HitCells(b, i) \cup {c}
        /\ ShipCells(t.ships[i]) = ShipCells(b.ships[i])
        /\ CanSink(t.ships[i]) = CanSink(b.ships[i])
        /\ s \in Ship
        /\ s.hits = Cardinality(HitCells(t, i))
        /\ s.sunk <=> CanSink(b.ships[i]) /\ HitCells(t, i) = ShipCells(b.ships[i])
    BY <1>4, ShotAtShip
  <2> HIDE DEF t, i, s
  <2>2. /\ t.cells \in [Coord -> CellState]
        /\ t.ships \in Seq(Ship)
        /\ t \in Board
    <3>1. [b.cells EXCEPT ![c] = "HIT"] \in [Coord -> CellState]
      BY <1>1 DEF CellState
    <3>2. [b.ships EXCEPT ![i] = s] \in Seq(Ship)
      BY <1>1, <2>1, ExceptSeq
    <3> HIDE DEF c
    <3> QED
      BY <2>1, <3>1, <3>2 DEF Board
  <2>3. /\ DOMAIN t.ships = DOMAIN b.ships
        /\ \A d \in Coord : t.cells[d] = IF d = c THEN "HIT" ELSE b.cells[d]
        /\ \A j \in DOMAIN b.ships : t.ships[j] = IF j = i THEN s ELSE b.ships[j]
    BY <1>1, <2>1
  <2>4. \A j \in DOMAIN b.ships : ShipCells(t.ships[j]) = ShipCells(b.ships[j])
    BY <2>1, <2>3
  <2>5. \A j \in DOMAIN b.ships : j # i => c \notin ShipCells(b.ships[j])
    BY <2>1 DEF Sound, BoardAgrees
  <2>6. \A j \in DOMAIN b.ships : j # i => HitCells(t, j) = HitCells(b, j)
    BY <2>3, <2>5 DEF HitCells, Sound
  <2>7. \A j, k \in DOMAIN t.ships :
           j # k => ShipCells(t.ships[j]) \cap ShipCells(t.ships[k]) = {}
    BY <2>3, <2>4 DEF Sound, BoardAgrees
  <2>8. \A d \in Coord : t.cells[d] \in {"SHIP", "HIT"}
           <=> \E j \in DOMAIN t.ships : d \in ShipCells(t.ships[j])
    <3> TAKE d \in Coord
    <3>1. b.cells[d] \in {"SHIP", "HIT"}
             <=> \E j \in DOMAIN t.ships : d \in ShipCells(t.ships[j])
      BY <2>3, <2>4 DEF Sound, BoardAgrees
    <3>2. t.cells[d] \in {"SHIP", "HIT"} <=> b.cells[d] \in {"SHIP", "HIT"}
      BY <1>4, <2>3
    <3> QED
      BY <3>1, <3>2
  <2>9. ASSUME NEW j \in DOMAIN t.ships
        PROVE  /\ t.ships[j].hits = Cardinality(HitCells(t, j))
               /\ t.ships[j].sunk
                    <=> CanSink(t.ships[j]) /\ HitCells(t, j) = ShipCells(t.ships[j])
               /\ ShipCells(t.ships[j]) \subseteq Coord
    <3>1. /\ b.ships[j].hits = Cardinality(HitCells(b, j))
          /\ b.ships[j].sunk
               <=> CanSink(b.ships[j]) /\ HitCells(b, j) = ShipCells(b.ships[j])
          /\ ShipCells(b.ships[j]) \subseteq Coord
      BY <2>3 DEF Sound, BoardAgrees, HitCells
    <3>2. CASE j = i
      BY <2>1, <2>3, <3>1, <3>2
    <3>3. CASE j # i
      BY <2>3, <2>4, <2>6, <3>1, <3>3
    <3> QED
      BY <3>2, <3>3
  <2>10. BoardAgrees(t)
    BY <2>7, <2>8, <2>9 DEF BoardAgrees, HitCells
  <2> QED
    BY <2>2, <2>9, <2>10 DEF Sound, t
<1> QED
  BY <1>2, <1>3, <1>4


-----------------------------------------------------------------------------
(* What holds of every board, also of one with ships of no cells.          *)
LEMMA PlaceShipBoard ==
    ASSUME NEW b \in Board, NEW p \in ShipPlacement
    PROVE  PlaceShip(b, p) \in Board
<1>1. CASE CanPlaceShip(b, p)
  <2> DEFINE ship == [x |-> p.x, y |-> p.y, length |-> p.length,
                      orientation |-> p.orientation, hits |-> 0, sunk |-> FALSE]
             cells == [c \in Coord |-> IF c \in ShipCells(p) THEN "SHIP" ELSE b.cells[c]]
  <2>1. ship \in Ship
    BY DEF Ship, ShipPlacement
  <2>2. cells \in [Coord -> CellState]
    BY DEF Board, CellState
  <2> HIDE DEF ship, cells
  <2>3. Append(b.ships, ship) \in Seq(Ship)
    BY <2>1, AppendProperties DEF Board
  <2>4. PlaceShip(b, p) = [cells |-> cells, ships |-> Append(b.ships, ship)]
    BY <1>1 DEF PlaceShip, cells, ship
  <2> QED
    BY <2>2, <2>3, <2>4 DEF Board
<1>2. CASE ~CanPlaceShip(b, p)
  BY <1>2 DEF PlaceShip
<1> QED
  BY <1>1, <1>2

(* Placing a ship strikes no cell and clears none that was struck.         *)
LEMMA PlaceShipStruck ==
    ASSUME NEW b, NEW p
    PROVE  Struck(PlaceShip(b, p)) = Struck(b)
<1>1. CASE CanPlaceShip(b, p)
  <2> DEFINE t == PlaceShip(b, p)
  <2>1. \A c \in Coord : t.cells[c] = IF c \in ShipCells(p) THEN "SHIP" ELSE b.cells[c]
    BY <1>1 DEF PlaceShip
  <2>2. \A c \in ShipCells(p) : b.cells[c] = "EMPTY"
    BY <1>1 DEF CanPlaceShip
  <2> HIDE DEF t
  <2>3. Struck(t) = Struck(b)
    BY <2>1, <2>2 DEF Struck
  <2> QED
    BY <2>3 DEF t
<1>2. CASE ~CanPlaceShip(b, p)
  BY <1>2 DEF PlaceShip
<1> QED
  BY <1>1, <1>2

LEMMA ShotBoard ==
    ASSUME NEW b \in Board, NEW x, NEW y
    PROVE  BoardAfterShot(b, x, y) \in Board
<1> DEFINE c == <<x, y>>
           i == GetShipAt(b, c)
           covering == {j \in DOMAIN b.ships : c \in ShipCells(b.ships[j])}
           t == BoardAfterShot(b, x, y)
<1>1. b.cells \in [Coord -> CellState] /\ b.ships \in Seq(Ship)
  BY DEF Board
<1>2. i = 0 \/ i \in DOMAIN b.ships
  <2>1. covering \in SUBSET Nat
    BY <1>1
  <2>2. covering # {} => Min(covering) \in covering
    BY <2>1, MinIn
  <2> QED
    BY <2>2 DEF GetShipAt
<1>3. CASE c \in Coord /\ b.cells[c] = "EMPTY"
  <2> DEFINE cells == [b.cells EXCEPT ![c] = "MISS"]
  <2>1. t = [cells |-> cells, ships |-> b.ships]
    BY <1>3 DEF BoardAfterShot, InBounds, Board
  <2>2. cells \in [Coord -> CellState]
    BY <1>1 DEF CellState
  <2> HIDE DEF cells, t
  <2>3. t \in Board
    BY <1>1, <2>1, <2>2 DEF Board
  <2> QED
    BY <2>3 DEF t
<1>4. CASE c \in Coord /\ b.cells[c] = "SHIP"
  <2> DEFINE hit == HitShip(b.ships[i])
             cells == [b.cells EXCEPT ![c] = "HIT"]
             ships == IF i = 0 THEN b.ships ELSE [b.ships EXCEPT ![i] = hit]
  <2>1. t = [cells |-> cells, ships |-> ships]
    BY <1>4 DEF BoardAfterShot, InBounds
  <2>2. cells \in [Coord -> CellState]
    BY <1>1 DEF CellState
  <2>3. i # 0 => hit \in Ship
    BY <1>1, <1>2, HitShipFields
  <2> HIDE DEF hit, i
  <2>4. ships \in Seq(Ship)
    BY <1>1, <1>2, <2>3, ExceptSeq
  <2> HIDE DEF cells, ships, t
  <2> QED
    BY <2>1, <2>2, <2>4 DEF Board, t
<1>5. CASE ~(c \in Coord /\ b.cells[c] \in {"EMPTY", "SHIP"})
  BY <1>5 DEF BoardAfterShot, InBounds
<1> QED
  BY <1>3, <1>4, <1>5
=============================================================================
