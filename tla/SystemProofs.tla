---------------------------- MODULE SystemProofs -----------------------------
(***************************************************************************)
(* Proofs about System.tla, for every number of programs, rooms, slots and *)
(* descriptors: what the server promises to peers that keep the order of   *)
(* client.c it promises to the programs themselves, because each of them   *)
(* is where the server's peer is supposed to be, and what they send is     *)
(* a complete fleet on the board their player sees.                        *)
(***************************************************************************)
EXTENDS System, SessionProofs

-----------------------------------------------------------------------------
(* ClientProgram has copies of the operators of Game and Protocol.         *)
LEMMA SameGame ==
    /\ Prog!InitBoard = InitBoard
    /\ Prog!Board = Board /\ Prog!Coord = Coord /\ Prog!CellState = CellState
    /\ \A b, p : Prog!CanPlaceShip(b, p) <=> CanPlaceShip(b, p)
    /\ \A b, p : Prog!PlaceShip(b, p) = PlaceShip(b, p)
<1>1. /\ Prog!InitBoard = InitBoard
      /\ Prog!Board = Board /\ Prog!Coord = Coord /\ Prog!CellState = CellState
  BY DEF Prog!InitBoard, InitBoard, Prog!Board, Board, Prog!Coord, Coord, Prog!Axis, Axis,
     Prog!CellState, CellState, Prog!Ship, Ship, Prog!Orientation, Orientation,
     Prog!Straight, Straight
<1>2. \A p : Prog!ShipCells(p) = ShipCells(p)
  BY DEF Prog!ShipCells, ShipCells, Prog!Segment, Segment
<1>3. \A c : Prog!Neighbours(c) = Neighbours(c)
  BY DEF Prog!Neighbours, Neighbours
<1>4. ASSUME NEW b, NEW p PROVE Prog!CanPlaceShip(b, p) <=> CanPlaceShip(b, p)
  BY <1>1, <1>2, <1>3 DEF Prog!CanPlaceShip, CanPlaceShip
<1>5. ASSUME NEW b, NEW p PROVE Prog!PlaceShip(b, p) = PlaceShip(b, p)
  BY <1>1, <1>2, <1>4 DEF Prog!PlaceShip, PlaceShip
<1> QED
  BY <1>1, <1>4, <1>5

-----------------------------------------------------------------------------
(* The fleet a player puts down                                            *)

(* The board is empty but for its ships, placed one after the other as the *)
(* server will place them.                                                 *)
Sent(ship) == [x |-> ship.x, y |-> ship.y, length |-> ship.length,
               orientation |-> ship.orientation]

PlacedBy(f, b) ==
    /\ f[0] = InitBoard
    /\ f[Len(b.ships)] = b
    /\ \A n \in 1 .. Len(b.ships) : f[n] = PlaceShip(f[n - 1], Sent(b.ships[n]))

Laid(b) ==
    /\ b \in Board
    /\ Len(b.ships) <= MAX_SHIPS
    /\ \A n \in 1 .. Len(b.ships) :
          /\ b.ships[n].length = SHIP_LENGTHS[n]
          /\ b.ships[n].x \in Axis /\ b.ships[n].y \in Axis
          /\ b.ships[n].orientation \in Straight
    /\ \E f : PlacedBy(f, b)

(* The server will find every ship of the submission in its place.         *)
Complete(ships) ==
    LET placed == PlaceBoardShips(InitBoard, ships)
    IN  [i \in DOMAIN placed.ships |-> placed.ships[i].length] = SHIP_LENGTHS

LEMMA LaidInit == Laid(InitBoard)
<1>1. InitBoard \in Board /\ InitBoard.ships = << >> /\ Len(InitBoard.ships) = 0
  BY DEF InitBoard, Board, CellState
<1>2. PlacedBy([n \in {0} |-> InitBoard], InitBoard)
  BY <1>1 DEF PlacedBy
<1>3. \E f : PlacedBy(f, InitBoard)
  BY <1>2
<1> QED
  BY <1>1, <1>3, GameAssumption DEF Laid

LEMMA LaidPlace ==
    ASSUME NEW b, Laid(b), Len(b.ships) < MAX_SHIPS,
           NEW x \in Axis, NEW y \in Axis, NEW orientation \in Straight,
           NEW ship, ship = [x |-> x, y |-> y, length |-> SHIP_LENGTHS[Len(b.ships) + 1],
                             orientation |-> orientation],
           CanPlaceShip(b, ship)
    PROVE  Laid(PlaceShip(b, ship))
<1> DEFINE k  == Len(b.ships)
           c  == PlaceShip(b, ship)
           new == [x |-> ship.x, y |-> ship.y, length |-> ship.length,
                   orientation |-> ship.orientation, hits |-> 0, sunk |-> FALSE]
<1>1. /\ b \in Board /\ b.ships \in Seq(Ship) /\ k \in Nat /\ k + 1 \in 1 .. MAX_SHIPS
      /\ k + 1 <= MAX_SHIPS
  BY GameAssumption DEF Laid, Board
<1>2. SHIP_LENGTHS[k + 1] \in Int
  BY <1>1, SystemAssumption
<1>3. new \in Ship /\ ship \in ShipPlacement
  BY <1>2, GameAssumption DEF Ship, ShipPlacement, Axis, Orientation
<1>4. c \in Board /\ c.ships = Append(b.ships, new)
  <2>1. c \in Board
    BY <1>1, <1>3, PlaceShipBoard
  <2> QED
    BY <2>1 DEF PlaceShip
<1> HIDE DEF new, c
<1>5. /\ Len(c.ships) = k + 1 /\ c.ships[k + 1] = new
      /\ \A n \in 1 .. k : c.ships[n] = b.ships[n]
  BY <1>1, <1>3, <1>4, AppendProperties
<1>6. Sent(new) = ship
  BY DEF Sent, new
<1>7. PICK f : PlacedBy(f, b)
  BY Zenon DEF Laid
<1> DEFINE g == [n \in 0 .. k + 1 |-> IF n = k + 1 THEN c ELSE f[n]]
<1>8. PlacedBy(g, c)
  <2>1. g[0] = InitBoard /\ g[k + 1] = c
    BY <1>1, <1>7 DEF PlacedBy
  <2>2. ASSUME NEW n \in 1 .. k + 1
        PROVE  g[n] = PlaceShip(g[n - 1], Sent(c.ships[n]))
    <3>1. CASE n = k + 1
      <4>1. g[n] = c /\ g[n - 1] = b
        BY <1>1, <1>7, <3>1 DEF PlacedBy
      <4>2. Sent(c.ships[n]) = ship
        BY <1>5, <1>6, <3>1
      <4> QED
        BY <4>1, <4>2 DEF c
    <3>2. CASE n # k + 1
      <4>1. n \in 1 .. k
        BY <1>1, <3>2
      <4>2. g[n] = f[n] /\ g[n - 1] = f[n - 1] /\ c.ships[n] = b.ships[n]
        BY <1>1, <1>5, <4>1
      <4> HIDE DEF g
      <4> QED
        BY <1>7, <4>1, <4>2 DEF PlacedBy
    <3> QED
      BY <3>1, <3>2
  <2> HIDE DEF g
  <2> QED
    BY <1>5, <2>1, <2>2 DEF PlacedBy
<1>9. \A n \in 1 .. k + 1 :
         /\ c.ships[n].length = SHIP_LENGTHS[n]
         /\ c.ships[n].x \in Axis /\ c.ships[n].y \in Axis
         /\ c.ships[n].orientation \in Straight
  <2>1. /\ new.length = SHIP_LENGTHS[k + 1] /\ new.x \in Axis /\ new.y \in Axis
        /\ new.orientation \in Straight
    BY DEF new
  <2>2. \A n \in 1 .. k + 1 : n \in 1 .. k \/ n = k + 1
    BY <1>1
  <2> QED
    BY <1>5, <2>1, <2>2 DEF Laid
<1> QED
  <2>1. \E h : PlacedBy(h, c)
    BY <1>8, Zenon
  <2>2. Laid(c)
    BY <1>1, <1>4, <1>5, <1>9, <2>1 DEF Laid
  <2> QED
    BY <2>2 DEF c

(* Placed ship by ship on an empty board, as the server does it, a fleet   *)
(* that was laid ship by ship gives the same board.                        *)
LEMMA LaidAgain ==
    ASSUME NEW b, Laid(b), NEW ships, Len(ships) = Len(b.ships),
           \A n \in 1 .. Len(ships) : ships[n] = Sent(b.ships[n])
    PROVE  PlaceBoardShips(InitBoard, ships) = b
<1> DEFINE len == Len(ships)
<1>1. len \in Nat
  BY DEF Laid, Board
<1>2. PICK f : PlacedBy(f, b)
  BY Zenon DEF Laid
<1>3. PICK g : /\ PlaceBoardShips(InitBoard, ships) = g[len]
               /\ g[0] = InitBoard
               /\ \A n \in 1 .. len : g[n] = PlaceShip(g[n - 1], ships[n])
  BY <1>1, PlacedShips
<1> HIDE DEF len
<1> DEFINE S == {n \in Nat : n <= len => g[n] = f[n]}
<1>4. 0 \in S
  BY <1>2, <1>3 DEF PlacedBy
<1>5. ASSUME NEW n \in Nat, n \in S PROVE n + 1 \in S
  <2> SUFFICES ASSUME n + 1 <= len PROVE g[n + 1] = f[n + 1]
    OBVIOUS
  <2>1. n + 1 \in 1 .. len /\ g[n] = f[n] /\ (n + 1) - 1 = n
    BY <1>1, <1>5
  <2>2. f[n + 1] = PlaceShip(f[n], Sent(b.ships[n + 1]))
    BY <1>2, <2>1 DEF PlacedBy, len
  <2>3. g[n + 1] = PlaceShip(g[n], ships[n + 1])
    BY <1>3, <2>1
  <2>4. ships[n + 1] = Sent(b.ships[n + 1])
    BY <2>1 DEF len
  <2> QED
    BY <2>1, <2>2, <2>3, <2>4
<1> HIDE DEF S
<1>6. len \in S
  BY <1>1, <1>4, <1>5, SetInduction
<1>7. g[len] = f[len]
  BY <1>1, <1>6 DEF S
<1> QED
  BY <1>2, <1>3, <1>7 DEF PlacedBy, len

LEMMA LaidComplete ==
    ASSUME NEW b, Laid(b), Len(b.ships) = MAX_SHIPS,
           NEW ships, ships = [i \in 1 .. MAX_SHIPS |-> Sent(b.ships[i])]
    PROVE  PlaceBoardShips(InitBoard, ships) = b /\ Complete(ships)
<1>1. /\ Len(ships) = Len(b.ships)
      /\ \A n \in 1 .. Len(ships) : ships[n] = Sent(b.ships[n])
  BY GameAssumption
<1>2. PlaceBoardShips(InitBoard, ships) = b
  BY <1>1, LaidAgain, Zenon
<1>3. [i \in DOMAIN b.ships |-> b.ships[i].length] = SHIP_LENGTHS
  <2>1. DOMAIN b.ships = 1 .. MAX_SHIPS
    BY DEF Laid, Board
  <2>2. \A i \in 1 .. MAX_SHIPS : b.ships[i].length = SHIP_LENGTHS[i]
    BY DEF Laid
  <2> QED
    BY <2>1, <2>2, SystemAssumption
<1> QED
  BY <1>2, <1>3 DEF Complete

(* What the program sends of it is a request of protocol.h.                *)
LEMMA LaidRequest ==
    ASSUME NEW b, Laid(b), Len(b.ships) = MAX_SHIPS
    PROVE  [type |-> "SUBMIT_BOARD", ships |-> [i \in 1 .. MAX_SHIPS |-> Sent(b.ships[i])]]
              \in Requests
<1> DEFINE ships == [i \in 1 .. MAX_SHIPS |-> Sent(b.ships[i])]
<1>1. ASSUME NEW i \in 1 .. MAX_SHIPS
      PROVE  Sent(b.ships[i]) \in [x : Axis, y : Axis, length : Range(SHIP_LENGTHS),
                                   orientation : Straight]
  <2>1. /\ b.ships[i].x \in Axis /\ b.ships[i].y \in Axis
        /\ b.ships[i].length = SHIP_LENGTHS[i]
        /\ b.ships[i].orientation \in Straight
    BY <1>1 DEF Laid
  <2>2. SHIP_LENGTHS[i] \in Range(SHIP_LENGTHS)
    BY <1>1, SystemAssumption DEF Range
  <2> QED
    BY <2>1, <2>2 DEF Sent
<1>2. ships \in Submittable
  BY <1>1 DEF Submittable
<1> HIDE DEF ships
<1>3. [type |-> "SUBMIT_BOARD", ships |-> ships] \in [type : {"SUBMIT_BOARD"}, ships : Submittable]
  BY <1>2
<1> QED
  BY <1>3, SystemAssumption DEF ships

-----------------------------------------------------------------------------
(* Where a program is, and where the server's peer is                      *)

Before   == {"start", "menu", "creating", "joining", "waiting", "placing"}
InRoom   == {"creating", "joining", "waiting", "placing"}
InGame   == {"submitted", "accepted", "playing", "prompted"}

SubmitsIn(q) == {n \in DOMAIN q : q[n].type = "SUBMIT_BOARD"}

(* The program c, whose requests q the server has not read: as long as the *)
(* server hears it (heard), it is at the stage st of Session.tla that it   *)
(* has reached in main(); it has submitted no board before it laid all its *)
(* ships; and the board it then waits for the answer to is the one it sent.*)
PeerOK(c, q, st, heard) ==
    /\ c \in Prog!Program
    /\ c.at = "start" => st = "connected"
    /\ heard => /\ c.at = "menu"   => st = "connected"
                /\ c.at \in InRoom => st = "in_room"
                /\ c.at \in InGame => st = "in_game"
    /\ c.at \in Before => Laid(c.own_board) /\ SubmitsIn(q) = {}
    /\ \A n \in SubmitsIn(q) :
          /\ Complete(q[n].ships)
          /\ c.at = "submitted" => PlaceBoardShips(InitBoard, q[n].ships) = c.own_board

(* The inductive invariant.                                                *)
SystemIInv ==
    /\ SessionIInv
    /\ prog = [p \in Peers |-> prog[p]]
    /\ \A p \in Peers : PeerOK(prog[p], srv.inq[p], stage[p], Established(p))

(* Reading takes requests away, and a connection that was lost stays lost. *)
LEMMA PeerRead ==
    ASSUME NEW c, NEW q \in Seq(Requests), NEW st, NEW heard, NEW rest, NEW still,
           PeerOK(c, q, st, heard),
           rest \in {q, << >>} \/ (q # << >> /\ rest = Tail(q)),
           still => heard
    PROVE  PeerOK(c, rest, st, still)
<1>1. \A n \in SubmitsIn(rest) : \E k \in SubmitsIn(q) : rest[n] = q[k]
  <2>1. CASE rest = q
    BY <2>1
  <2>2. CASE rest = << >>
    BY <2>2 DEF SubmitsIn
  <2>3. CASE q # << >> /\ rest = Tail(q)
    <3> SUFFICES ASSUME NEW n \in SubmitsIn(rest)
                 PROVE  \E k \in SubmitsIn(q) : rest[n] = q[k]
      OBVIOUS
    <3>1. /\ Len(q) \in Nat /\ DOMAIN q = 1 .. Len(q)
          /\ DOMAIN rest = 1 .. Len(q) - 1
          /\ \A k \in 1 .. Len(q) - 1 : rest[k] = q[k + 1]
      BY <2>3, HeadTailProperties
    <3>2. n \in 1 .. Len(q) - 1 /\ rest[n].type = "SUBMIT_BOARD"
      BY <3>1 DEF SubmitsIn
    <3>3. n + 1 \in DOMAIN q /\ rest[n] = q[n + 1]
      BY <3>1, <3>2
    <3>4. n + 1 \in SubmitsIn(q)
      BY <3>2, <3>3 DEF SubmitsIn
    <3> QED
      BY <3>3, <3>4
  <2> QED
    BY <2>1, <2>2, <2>3
<1>2. SubmitsIn(q) = {} => SubmitsIn(rest) = {}
  BY <1>1
<1> QED
  BY <1>1, <1>2 DEF PeerOK

(* The server's own steps.                                                 *)
LEMMA ServerReads ==
    ASSUME SessionIInv, IInv', ServerStep
    PROVE  /\ Running
           /\ \A p \in Peers :
                 /\ srv'.inq[p] \in {srv.inq[p], << >>}
                    \/ (srv.inq[p] # << >> /\ srv'.inq[p] = Tail(srv.inq[p]))
                 /\ srv'.link[p] = "open" => srv.link[p] = "open"
<1>0. IInv /\ Sess(srv, NULL, {}) /\ Untold /\ AskOnce
  BY DEF SessionIInv
<1>1. CASE Select \/ AcceptFails \/ EndScan
  BY <1>1 DEF Select, AcceptFails, EndScan
<1>2. CASE Accept
  <2>1. Running /\ srv'.inq = srv.inq /\ srv'.link = srv.link
    BY <1>0, <1>2 DEF Accept, IInv, Good, TypedState
  <2> QED
    BY <2>1
<1>3. CASE Reject
  <2>1. /\ Running
        /\ srv'.link = [srv.link EXCEPT ![Head(backlog)] = "closed"]
        /\ srv'.inq = [srv.inq EXCEPT ![Head(backlog)] = << >>]
    BY <1>0, <1>3 DEF Reject, IInv, Good, TypedState
  <2>2. \A p \in Peers : /\ srv'.link[p] \in {"closed", srv.link[p]}
                         /\ srv'.inq[p] \in {srv.inq[p], << >>}
    BY <1>0, <2>1 DEF IInv, Good, TypedState
  <2> QED
    BY <2>1, <2>2
<1>4. ASSUME NEW i \in Slots, Handle(i)
      PROVE  Running /\ Answers(i)
  <2>1. Due(i)
    BY <1>4 DEF Handle, HandleEof, HandleCreateRoom, HandleCreateRoomFull, HandleJoinRoom,
       HandleSubmitBoard, HandleShoot, HandleDisconnect, HandleOther, Receives
  <2>2. Running /\ srv.clients[i].is_connected
    BY <2>1 DEF Due, Awaiting
  <2>3. AsksForRoom(i) => srv.clients[i].assigned_room_id = -1
    BY <1>0, <2>2, AskerRoomless
  <2>4. \E s, t, A : Outcome(i, s, t, A)
    BY <1>0, <1>4, <2>3, HandleOutcome
  <2>5. PICK s, t, A : Outcome(i, s, t, A)
    BY <2>4, Zenon
  <2>6. Answers(i)
    BY <1>0, <2>5, OutcomeAnswers
  <2> QED
    BY <2>2, <2>6
<1>5. ASSUME NEW i \in Slots, Running, Answers(i)
      PROVE  \A p \in Peers :
                 /\ srv'.inq[p] \in {srv.inq[p], << >>}
                    \/ (srv.inq[p] # << >> /\ srv'.inq[p] = Tail(srv.inq[p]))
                 /\ srv'.link[p] = "open" => srv.link[p] = "open"
  BY <1>5 DEF Answers
<1> QED
  BY <1>1, <1>2, <1>3, <1>4, <1>5 DEF ServerStep

-----------------------------------------------------------------------------
(* What a program makes of a message, and of its own steps                 *)

LEMMA FreshTyped ==
    /\ Prog!FreshProgram \in Prog!Program
    /\ Prog!FreshProgram.at = "start" /\ Prog!FreshProgram.own_board = InitBoard
<1>1. InitBoard \in Board /\ InitBoard.cells \in [Coord -> CellState]
  BY LaidInit DEF Laid, Board
<1>2. /\ Prog!InitBoard \in Prog!Board
      /\ Prog!InitBoard.cells \in [Prog!Coord -> Prog!CellState]
  BY <1>1, SameGame
<1> QED
  BY <1>2, SameGame DEF Prog!FreshProgram, Prog!Program, Prog!Place

LEMMA EndTyped ==
    ASSUME NEW c \in Prog!Program
    PROVE  /\ Prog!GiveUp(c) \in Prog!Program /\ Prog!GiveUp(c).at = "leaving"
           /\ Prog!Exited(c) \in Prog!Program /\ Prog!Exited(c).at = "gone"
<1>1. Prog!GiveUp(c) \in Prog!Program /\ Prog!GiveUp(c).at = "leaving"
  BY DEF Prog!GiveUp, Prog!Program, Prog!Place, Prog!Departing
<1>2. Prog!FreshProgram \in Prog!Program
  BY FreshTyped
<1>3. Prog!Exited(c) \in Prog!Program /\ Prog!Exited(c).at = "gone"
  <2> DEFINE f == Prog!FreshProgram
  <2>1. Prog!Exited(c) = [f EXCEPT !.at = "gone", !.result = c.result]
    BY DEF Prog!Exited
  <2>2. f \in Prog!Program
    BY <1>2
  <2> HIDE DEF f
  <2> QED
    BY <2>1, <2>2 DEF Prog!Program, Prog!Place, Prog!Departing
<1> QED
  BY <1>1, <1>3

LEMMA MarkedTyped ==
    ASSUME NEW cells \in [Prog!Coord -> Prog!CellState], NEW m
    PROVE  Prog!Marked(cells, m) \in [Prog!Coord -> Prog!CellState]
<1>1. "MISS" \in Prog!CellState /\ "HIT" \in Prog!CellState
  BY DEF Prog!CellState
<1> QED
  BY <1>1 DEF Prog!Marked

(* How a program goes on: not before the submission again, and not to      *)
(* another board while it waits for the answer to one.                     *)
Onward(c, d) ==
    /\ d \in Prog!Program
    /\ d.at \notin {"start", "menu", "creating", "joining"}
    /\ d.at \in InRoom => c.at \in InRoom /\ d.own_board = c.own_board
    /\ d.at \in InGame => c.at \in InGame
    /\ d.at = "submitted" => c.at = "submitted" /\ d.own_board = c.own_board

LEMMA EndOnward ==
    ASSUME NEW c \in Prog!Program
    PROVE  Onward(c, Prog!GiveUp(c)) /\ Onward(c, Prog!Exited(c))
BY EndTyped DEF Onward, InRoom, InGame

LEMMA AnswerOnward ==
    ASSUME NEW c \in Prog!Program, c.at \in Prog!Receiving, c.at # "playing",
           NEW m \in Message
    PROVE  Onward(c, Prog!AfterAnswer(c, m))
<1> DEFINE d == Prog!AfterAnswer(c, m)
<1>1. CASE d = Prog!GiveUp(c)
  BY <1>1, EndOnward
<1>2. CASE /\ c.at \in {"creating", "joining"} /\ m.type \in {"ROOM_CREATED", "JOIN_OK"}
           /\ d = Prog!Seat(c, m)
  <2>1. m.player_id \in Int
    BY <1>2 DEF Message
  <2> HIDE DEF d
  <2> QED
    BY <1>2, <2>1 DEF Prog!Seat, Prog!Program, Prog!Place, Prog!Receiving, Onward, InRoom,
       InGame, d
<1>3. CASE c.at = "waiting" /\ d \in {c, [c EXCEPT !.at = "placing"]}
  <2> HIDE DEF d
  <2> QED
    BY <1>3 DEF Prog!Program, Prog!Place, Prog!Asking, Onward, InRoom, InGame, d
<1>4. CASE /\ c.at \in {"submitted", "accepted"}
           /\ d \in {[c EXCEPT !.at = "accepted"], [c EXCEPT !.at = "playing"]}
  <2> HIDE DEF d
  <2> QED
    BY <1>4 DEF Prog!Program, Prog!Place, Prog!Receiving, Onward, InRoom, InGame, d
<1> QED
  BY <1>1, <1>2, <1>3, <1>4 DEF Prog!AfterAnswer

LEMMA GameOnward ==
    ASSUME NEW c \in Prog!Program, c.at = "playing", NEW m \in Message
    PROVE  Onward(c, Prog!AfterGameMessage(c, m))
<1> DEFINE d == Prog!AfterGameMessage(c, m)
           views == {[c EXCEPT !.enemy_view = Prog!Marked(@, m)],
                     [c EXCEPT !.own_board.cells = Prog!Marked(@, m)]}
           moves == {c, [c EXCEPT !.at = "prompted"],
                     [c EXCEPT !.at = "leaving", !.result = Prog!Verdict(c, m)],
                     [c EXCEPT !.at = "leaving", !.result = "left"]}
<1>1. d = Prog!GiveUp(c) \/ d \in views \/ d \in moves
  BY DEF Prog!AfterGameMessage
<1> HIDE DEF d
<1>2. CASE d = Prog!GiveUp(c)
  BY <1>2, EndOnward DEF d
<1>3. CASE d \in views
  <2>1. /\ c.enemy_view \in [Prog!Coord -> Prog!CellState]
        /\ c.own_board \in Prog!Board
        /\ c.own_board.cells \in [Prog!Coord -> Prog!CellState]
    BY DEF Prog!Program, Prog!Board
  <2>2. /\ Prog!Marked(c.enemy_view, m) \in [Prog!Coord -> Prog!CellState]
        /\ Prog!Marked(c.own_board.cells, m) \in [Prog!Coord -> Prog!CellState]
    BY <2>1, MarkedTyped
  <2>3. [c.own_board EXCEPT !.cells = Prog!Marked(c.own_board.cells, m)] \in Prog!Board
    BY <2>1, <2>2 DEF Prog!Board
  <2>4. d \in Prog!Program /\ d.at = "playing"
    BY <1>3, <2>2, <2>3 DEF Prog!Program
  <2> QED
    BY <2>4 DEF Onward, InRoom, InGame, d
<1>4. CASE d \in moves
  <2>1. Prog!Verdict(c, m) \in {"won", "lost"}
    BY DEF Prog!Verdict
  <2>2. d \in Prog!Program /\ d.at \in {"playing", "prompted", "leaving"}
    BY <1>4, <2>1 DEF Prog!Program, Prog!Place, Prog!Asking, Prog!Departing
  <2> QED
    BY <2>2 DEF Onward, InRoom, InGame, d
<1> QED
  BY <1>1, <1>2, <1>3, <1>4 DEF d

LEMMA MessageOnward ==
    ASSUME NEW c \in Prog!Program, c.at \in Prog!Receiving, NEW m \in Message
    PROVE  Onward(c, Prog!AfterMessage(c, m))
BY AnswerOnward, GameOnward DEF Prog!AfterMessage

(* The player's prompts.                                                   *)
LEMMA GoTyped ==
    ASSUME NEW c \in Prog!Program, NEW to \in Prog!Place
    PROVE  /\ [c EXCEPT !.at = to] \in Prog!Program
           /\ [c EXCEPT !.at = to].at = to
           /\ [c EXCEPT !.at = to].own_board = c.own_board
BY DEF Prog!Program

-----------------------------------------------------------------------------
(* One program goes on                                                     *)

LEMMA PeerOnward ==
    ASSUME NEW c, NEW q, NEW st, NEW heard, PeerOK(c, q, st, heard),
           NEW d, Onward(c, d), NEW to, NEW still,
           still => heard /\ (to = st \/ d.at \notin InRoom \cup InGame)
    PROVE  PeerOK(d, q, to, still)
<1>1. d.at \in Before => d.at \in InRoom /\ c.at \in Before /\ d.own_board = c.own_board
  BY DEF Onward, Before, InRoom
<1> QED
  BY <1>1 DEF PeerOK, Onward, InRoom, InGame

(* Another request than a submission is sent.                              *)
LEMMA PeerAsks ==
    ASSUME NEW d, NEW q \in Seq(Requests), NEW st, NEW heard, PeerOK(d, q, st, heard),
           NEW m \in Requests, m.type # "SUBMIT_BOARD"
    PROVE  PeerOK(d, Append(q, m), st, heard)
<1>1. /\ Len(q) \in Nat /\ DOMAIN q = 1 .. Len(q)
      /\ DOMAIN Append(q, m) = 1 .. Len(q) + 1
      /\ \A n \in 1 .. Len(q) : Append(q, m)[n] = q[n]
      /\ Append(q, m)[Len(q) + 1] = m
  BY AppendProperties
<1>2. \A n \in 1 .. Len(q) + 1 : n \in 1 .. Len(q) \/ n = Len(q) + 1
  BY <1>1
<1>3. SubmitsIn(Append(q, m)) = SubmitsIn(q)
  BY <1>1, <1>2 DEF SubmitsIn
<1>4. \A n \in SubmitsIn(q) : Append(q, m)[n] = q[n]
  BY <1>1 DEF SubmitsIn
<1> QED
  BY <1>3, <1>4 DEF PeerOK

(* The board is submitted, once it is complete.                            *)
LEMMA PeerSubmits ==
    ASSUME NEW c, NEW q \in Seq(Requests), NEW st, NEW heard, PeerOK(c, q, st, heard),
           c.at = "placing", Len(c.own_board.ships) = MAX_SHIPS,
           NEW m, m = [type  |-> "SUBMIT_BOARD",
                       ships |-> [i \in 1 .. MAX_SHIPS |-> Sent(c.own_board.ships[i])]]
    PROVE  PeerOK([c EXCEPT !.at = "submitted"], Append(q, m), "in_game", heard)
<1> DEFINE b == c.own_board
           d == [c EXCEPT !.at = "submitted"]
           ships == [i \in 1 .. MAX_SHIPS |-> Sent(b.ships[i])]
<1>1. c \in Prog!Program /\ Laid(b) /\ SubmitsIn(q) = {}
  BY DEF PeerOK, Before
<1>2. d \in Prog!Program /\ d.at = "submitted" /\ d.own_board = b
  BY <1>1, GoTyped DEF Prog!Place, Prog!Receiving
<1>3. m \in Requests /\ m.ships = ships /\ m.type = "SUBMIT_BOARD"
  BY <1>1, LaidRequest
<1>4. PlaceBoardShips(InitBoard, ships) = b /\ Complete(ships)
  BY <1>1, LaidComplete
<1>5. /\ Len(q) \in Nat /\ DOMAIN q = 1 .. Len(q)
      /\ DOMAIN Append(q, m) = 1 .. Len(q) + 1
      /\ \A n \in 1 .. Len(q) : Append(q, m)[n] = q[n]
      /\ Append(q, m)[Len(q) + 1] = m
  BY <1>3, AppendProperties
<1>6. ASSUME NEW n \in SubmitsIn(Append(q, m)) PROVE Append(q, m)[n] = m
  <2>1. CASE n \in 1 .. Len(q)
    BY <1>1, <1>5, <2>1 DEF SubmitsIn
  <2>2. n \in 1 .. Len(q) \/ n = Len(q) + 1
    BY <1>5 DEF SubmitsIn
  <2> QED
    BY <1>5, <2>1, <2>2
<1> HIDE DEF b, d, ships
<1>7. PeerOK(d, Append(q, m), "in_game", heard)
  BY <1>2, <1>3, <1>4, <1>6 DEF PeerOK, Before, InRoom, InGame
<1> QED
  BY <1>7 DEF d

-----------------------------------------------------------------------------
(* What the steps of one program do to the connections                     *)

(* The other programs do not notice.                                       *)
OthersAlone(p) ==
    /\ srv'.status = srv.status
    /\ \A o \in Peers : o # p => /\ srv'.inq[o] = srv.inq[o]
                                 /\ srv'.link[o] = srv.link[o]
                                 /\ stage'[o] = stage[o]

LEMMA OnePeer ==
    ASSUME SystemIInv, SessionIInv', NEW p \in Peers, OthersAlone(p),
           NEW c, prog' = [prog EXCEPT ![p] = c],
           PeerOK(c, srv'.inq[p], stage'[p], Established(p)')
    PROVE  SystemIInv'
<1>1. /\ prog' = [o \in Peers |-> prog'[o]] /\ prog'[p] = c
      /\ \A o \in Peers : o # p => prog'[o] = prog[o]
  BY DEF SystemIInv
<1>2. ASSUME NEW o \in Peers, o # p
      PROVE  PeerOK(prog'[o], srv'.inq[o], stage'[o], Established(o)')
  <2>1. PeerOK(prog[o], srv.inq[o], stage[o], Established(o))
    BY DEF SystemIInv
  <2>2. srv'.inq[o] = srv.inq[o] /\ stage'[o] = stage[o] /\ prog'[o] = prog[o]
    BY <1>1, <1>2 DEF OthersAlone
  <2>3. Established(o)' => Established(o)
    BY <1>2 DEF OthersAlone, Established, Running
  <2> QED
    BY <2>1, <2>2, <2>3 DEF PeerOK
<1>3. \A o \in Peers : PeerOK(prog'[o], srv'.inq[o], stage'[o], Established(o)')
  BY <1>1, <1>2
<1> QED
  BY <1>1, <1>3 DEF SystemIInv

(* Nothing happens on the connections.                                     *)
LEMMA StillAlone ==
    ASSUME SessionIInv, UNCHANGED <<srv, stage, loopVars>>
    PROVE  SessionIInv'
BY SessionNextIInv DEF loopVars, sessionVars

LEMMA DeliverAlone ==
    ASSUME SessionIInv, NEW p \in Peers, NEW m \in Requests, Deliver(p, m),
           Established(p) => StageAfter(stage[p], m.type) # "never"
    PROVE  /\ SessionIInv' /\ OthersAlone(p)
           /\ Established(p)' => Established(p)
           /\ IF Established(p)
              THEN /\ srv'.inq[p] = Append(srv.inq[p], m)
                   /\ stage'[p] = StageAfter(stage[p], m.type)
              ELSE srv'.inq[p] = srv.inq[p] /\ stage'[p] = stage[p]
<1>0. IInv /\ stage \in [Peers -> Stage]
  BY DEF SessionIInv
<1>1. CASE ~Established(p)
  <2>1. UNCHANGED <<srv, stage, loopVars>>
    BY <1>1 DEF Deliver
  <2>2. SessionIInv'
    BY <2>1, StillAlone
  <2> QED
    BY <1>1, <2>1, <2>2 DEF OthersAlone, Established, Running
<1>2. CASE Established(p)
  <2> DEFINE inq == [srv.inq EXCEPT ![p] = Append(srv.inq[p], m)]
  <2>1. /\ srv' = [srv EXCEPT !.inq[p] = Append(@, m)]
        /\ stage' = [stage EXCEPT ![p] = StageAfter(@, m.type)]
        /\ UNCHANGED <<phase, readfds, next, backlog>>
    BY <1>2 DEF Deliver, loopVars
  <2>2. /\ srv' = [srv EXCEPT !.link = srv.link, !.inq = inq, !.sent = srv.sent]
        /\ srv.link \in [Peers -> LinkState] /\ srv.sent \in [Peers -> Seq(Message)]
        /\ srv.inq \in [Peers -> Seq(Requests)]
    BY <1>0, <2>1 DEF IInv, Good, TypedState
  <2>3. /\ inq \in [Peers -> Seq(Requests)] /\ inq[p] = Append(srv.inq[p], m)
        /\ \A o \in Peers : o # p => inq[o] = srv.inq[o]
        /\ \A o \in Peers : srv.inq[o] # << >> => inq[o] # << >>
    BY <2>2
  <2> HIDE DEF inq
  <2>4. IInv'
    BY <1>0, <2>1, <2>2, <2>3, WiresIInv
  <2>5. SessionIInv'
    BY <1>2, <2>1, <2>4, RequestSession
  <2>6. /\ srv'.inq = inq /\ srv'.link = srv.link /\ srv'.status = srv.status
    BY <1>0, <2>2 DEF IInv, Good, TypedState
  <2>7. stage'[p] = StageAfter(stage[p], m.type) /\ \A o \in Peers : o # p => stage'[o] = stage[o]
    BY <1>0, <2>1
  <2> QED
    BY <1>2, <2>3, <2>5, <2>6, <2>7 DEF OthersAlone
<1> QED
  BY <1>1, <1>2

(* The invariant of the server does not depend on what is read or closed.  *)
LEMMA WiresKept ==
    ASSUME SessionIInv,
           NEW link \in [Peers -> LinkState], NEW sent \in [Peers -> Seq(Message)],
           srv' = [srv EXCEPT !.link = link, !.sent = sent],
           \A o \in Peers : srv.link[o] # "idle" <=> link[o] # "idle",
           \A o \in Peers : srv.link[o] \in HungUp => link[o] \in HungUp,
           Trims(srv.sent, sent), UNCHANGED loopVars, stage' \in [Peers -> Stage],
           \A o \in Peers : stage'[o] # stage[o] => stage'[o] = "left"
    PROVE  SessionIInv'
<1>0. IInv
  BY DEF SessionIInv
<1>1. UNCHANGED <<phase, readfds, next, backlog>> /\ backlog' = backlog
  BY DEF loopVars
<1>2. IInv'
  <2>1. /\ srv.inq \in [Peers -> Seq(Requests)]
        /\ srv' = [srv EXCEPT !.link = link, !.inq = srv.inq, !.sent = sent]
    BY <1>0 DEF IInv, Good, TypedState
  <2>2. /\ \A o \in Peers : srv.link[o] # "idle" => link[o] # "idle"
        /\ \A o \in Peers : srv.inq[o] # << >> => srv.inq[o] # << >>
    OBVIOUS
  <2> QED
    BY <1>0, <1>1, <2>1, <2>2, WiresIInv, ZenonT(40)
<1>3. \A o \in Peers : link[o] = "idle" => srv.link[o] = "idle"
  OBVIOUS
<1> QED
  BY <1>1, <1>2, <1>3, ReadSession, ZenonT(40)

(* Messages are taken, or the connection is closed.                        *)
LEMMA WiresAlone ==
    ASSUME SessionIInv, NEW p \in Peers, NEW how, NEW rest,
           how = srv.link[p] \/ (srv.link[p] = "open" /\ how \in Closings),
           rest = << >> \/ (srv.sent[p] # << >> /\ rest = Tail(srv.sent[p])),
           srv' = [srv EXCEPT !.link[p] = how, !.sent[p] = rest],
           stage' \in {stage, [stage EXCEPT ![p] = "left"]},
           UNCHANGED loopVars
    PROVE  /\ SessionIInv' /\ OthersAlone(p)
           /\ Established(p)' => Established(p) /\ how = srv.link[p]
           /\ srv'.inq[p] = srv.inq[p]
<1>0. IInv /\ stage \in [Peers -> Stage]
  BY DEF SessionIInv
<1> DEFINE link == [srv.link EXCEPT ![p] = how]
           sent == [srv.sent EXCEPT ![p] = rest]
<1>1. /\ srv' = [srv EXCEPT !.link = link, !.sent = sent]
      /\ srv.link \in [Peers -> LinkState] /\ srv.sent \in [Peers -> Seq(Message)]
  BY <1>0 DEF IInv, Good, TypedState
<1>2. /\ how \in LinkState /\ (srv.link[p] # "idle" <=> how # "idle")
      /\ (srv.link[p] \in HungUp => how \in HungUp)
      /\ how = "open" => how = srv.link[p]
  <2>1. CASE how = srv.link[p]
    BY <1>1, <2>1
  <2>2. CASE srv.link[p] = "open" /\ how \in Closings
    BY <2>2, ServerAssumption DEF LinkState, HungUp
  <2> QED
    BY <2>1, <2>2
<1>3. rest \in Seq(Message)
  <2>1. srv.sent[p] \in Seq(Message)
    BY <1>1
  <2>2. CASE rest = << >>
    BY <2>2
  <2>3. CASE srv.sent[p] # << >> /\ rest = Tail(srv.sent[p])
    <3>1. Tail(srv.sent[p]) \in Seq(Message)
      BY <2>1, <2>3, HeadTailProperties
    <3> QED
      BY <2>3, <3>1
  <2> QED
    BY <2>2, <2>3
<1>4. /\ link \in [Peers -> LinkState] /\ sent \in [Peers -> Seq(Message)]
      /\ link[p] = how /\ sent[p] = rest
      /\ \A o \in Peers : o # p => link[o] = srv.link[o] /\ sent[o] = srv.sent[o]
  BY <1>1, <1>2, <1>3
<1> HIDE DEF link, sent
<1>5. /\ \A o \in Peers : srv.link[o] # "idle" <=> link[o] # "idle"
      /\ \A o \in Peers : srv.link[o] \in HungUp => link[o] \in HungUp
  BY <1>2, <1>4
<1>6. Trims(srv.sent, sent)
  BY <1>4 DEF Trims
<1>7. /\ stage' \in [Peers -> Stage]
      /\ \A o \in Peers : stage'[o] # stage[o] => stage'[o] = "left"
      /\ \A o \in Peers : o # p => stage'[o] = stage[o]
  BY <1>0 DEF Stage
<1>8. SessionIInv'
  BY <1>1, <1>4, <1>5, <1>6, <1>7, WiresKept
<1>9. srv'.inq = srv.inq /\ srv'.link = link /\ srv'.status = srv.status
  BY <1>0, <1>1 DEF IInv, Good, TypedState
<1> QED
  BY <1>2, <1>4, <1>7, <1>8, <1>9 DEF OthersAlone, Established, Running

LEMMA HangUpAlone ==
    ASSUME SessionIInv, NEW p \in Peers, HangUp(p)
    PROVE  /\ SessionIInv' /\ OthersAlone(p) /\ ~Established(p)'
           /\ srv'.inq[p] = srv.inq[p]
<1>0. IInv
  BY DEF SessionIInv
<1>1. UNCHANGED loopVars
  BY DEF HangUp
<1>2. CASE Established(p)
  <2>1. PICK how \in Endings(p) : srv' = [srv EXCEPT !.link[p] = how, !.sent[p] = << >>]
    BY <1>2 DEF HangUp
  <2>2. stage' = [stage EXCEPT ![p] = "left"] /\ srv.link[p] = "open" /\ how \in Closings
    BY <1>2 DEF HangUp, Established, Endings
  <2>3. how # "open"
    BY <2>2, ServerAssumption
  <2> QED
    BY <1>1, <2>1, <2>2, <2>3, WiresAlone
<1>3. CASE ~Established(p)
  <2>1. srv' = [srv EXCEPT !.sent[p] = << >>] /\ stage' = stage
    BY <1>3 DEF HangUp
  <2>2. srv' = [srv EXCEPT !.link[p] = srv.link[p], !.sent[p] = << >>]
    BY <1>0, <2>1 DEF IInv, Good, TypedState
  <2> QED
    BY <1>1, <1>3, <2>1, <2>2, WiresAlone
<1> QED
  BY <1>2, <1>3

-----------------------------------------------------------------------------
(* The steps                                                               *)

LEMMA SystemInitIInv == SystemInit => SystemIInv
<1> SUFFICES ASSUME SystemInit PROVE SystemIInv
  OBVIOUS
<1>1. SessionIInv
  BY SessionInitIInv DEF SystemInit
<1>2. ASSUME NEW p \in Peers
      PROVE  PeerOK(prog[p], srv.inq[p], stage[p], Established(p))
  <2>1. prog[p] = Prog!FreshProgram
    BY DEF SystemInit, Prog!ProgramInit
  <2>2. srv.inq[p] = << >> /\ stage[p] = "connected"
    BY DEF SystemInit, SessionInit, Init
  <2>3. SubmitsIn(srv.inq[p]) = {}
    BY <2>2 DEF SubmitsIn
  <2> QED
    BY <2>1, <2>2, <2>3, FreshTyped, LaidInit DEF PeerOK, InRoom, InGame
<1>3. prog = [p \in Peers |-> prog[p]]
  BY DEF SystemInit, Prog!ProgramInit
<1> QED
  BY <1>1, <1>2, <1>3 DEF SystemIInv

LEMMA ServerWorksIInv ==
    ASSUME SystemIInv, ServerWorks
    PROVE  SystemIInv'
<1>1. SessionIInv /\ ServerStep /\ stage' = stage /\ prog' = prog
  BY DEF SystemIInv, ServerWorks
<1>2. SessionIInv'
  BY <1>1, SessionNextIInv DEF SessionNext
<1>3. IInv' /\ IInv
  BY <1>1, <1>2 DEF SessionIInv
<1>4. ASSUME NEW p \in Peers
      PROVE  PeerOK(prog'[p], srv'.inq[p], stage'[p], Established(p)')
  <2>1. PeerOK(prog[p], srv.inq[p], stage[p], Established(p))
    BY DEF SystemIInv
  <2>2. /\ srv'.inq[p] \in {srv.inq[p], << >>}
           \/ (srv.inq[p] # << >> /\ srv'.inq[p] = Tail(srv.inq[p]))
        /\ Established(p)' => Established(p)
    BY <1>1, <1>3, ServerReads DEF Established
  <2>3. srv.inq[p] \in Seq(Requests)
    BY <1>3 DEF IInv, Good, TypedState
  <2>4. PeerOK(prog[p], srv'.inq[p], stage[p], Established(p)')
    BY <2>1, <2>2, <2>3, PeerRead
  <2> QED
    BY <1>1, <2>4
<1> QED
  BY <1>1, <1>2, <1>4 DEF SystemIInv

(* A program goes on by itself, or what it did on the connection leaves its*)
(* requests alone.                                                         *)
LEMMA OnwardIInv ==
    ASSUME SystemIInv, SessionIInv', NEW p \in Peers, OthersAlone(p),
           NEW d, prog' = [prog EXCEPT ![p] = d], Onward(prog[p], d),
           srv'.inq[p] = srv.inq[p],
           Established(p)' => Established(p) /\ (stage'[p] = stage[p] \/ d.at \notin InRoom \cup InGame)
    PROVE  SystemIInv'
<1>1. PeerOK(prog[p], srv.inq[p], stage[p], Established(p))
  BY DEF SystemIInv
<1>2. PeerOK(d, srv.inq[p], stage'[p], Established(p)')
  BY <1>1, PeerOnward
<1> QED
  BY <1>2, OnePeer

LEMMA AloneIInv ==
    ASSUME SystemIInv, NEW p \in Peers, UNCHANGED <<srv, stage, loopVars>>,
           NEW d, prog' = [prog EXCEPT ![p] = d], Onward(prog[p], d)
    PROVE  SystemIInv'
<1>1. SessionIInv' /\ OthersAlone(p)
  BY StillAlone DEF SystemIInv, OthersAlone
<1>2. /\ srv'.inq[p] = srv.inq[p] /\ stage'[p] = stage[p]
      /\ Established(p)' => Established(p)
  BY DEF Established, Running
<1> QED
  BY <1>1, <1>2, OnwardIInv

LEMMA StartsUpIInv ==
    ASSUME SystemIInv, NEW p \in Peers, StartsUp(p)
    PROVE  SystemIInv'
<1> DEFINE c == prog[p]
<1>0. SessionIInv /\ IInv /\ PeerOK(c, srv.inq[p], stage[p], Established(p))
  BY DEF SystemIInv, SessionIInv
<1>1. c \in Prog!Program
  BY <1>0 DEF PeerOK
<1>2. CASE Prog!Connect(p) /\ PeerConnect(p) /\ UNCHANGED stage
  <2> DEFINE d == [c EXCEPT !.at = "menu"]
  <2>1. c.at = "start" /\ prog' = [prog EXCEPT ![p] = d]
    BY <1>2 DEF Prog!Connect, Prog!Go
  <2>2. d \in Prog!Program /\ d.at = "menu" /\ d.own_board = c.own_board
    BY <1>1, GoTyped DEF Prog!Place, Prog!Asking
  <2>3. /\ srv.link[p] = "idle" /\ srv' = [srv EXCEPT !.link[p] = "open"]
    BY <1>2 DEF PeerConnect
  <2>4. SessionIInv'
    <3>1. [SessionNext]_sessionVars
      BY <1>2 DEF SessionNext, ClientConnects
    <3> QED
      BY <1>0, <3>1, SessionNextIInv
  <2>5. srv'.inq = srv.inq /\ stage' = stage /\ OthersAlone(p)
    BY <1>0, <1>2, <2>3 DEF IInv, Good, TypedState, OthersAlone
  <2> HIDE DEF d, c
  <2>6. PeerOK(d, srv.inq[p], stage[p], Established(p)')
    BY <1>0, <2>1, <2>2 DEF PeerOK, Before, InRoom, InGame
  <2> QED
    BY <2>1, <2>4, <2>5, <2>6, OnePeer
<1>3. CASE Prog!ConnectFails(p) /\ UNCHANGED <<srv, stage, loopVars>>
  <2> DEFINE d == Prog!Exited(Prog!GiveUp(c))
  <2>1. prog' = [prog EXCEPT ![p] = d]
    BY <1>3 DEF Prog!ConnectFails
  <2>2. d \in Prog!Program /\ d.at = "gone"
    BY <1>1, EndTyped
  <2> HIDE DEF d, c
  <2>3. Onward(c, d)
    BY <2>2 DEF Onward, InRoom, InGame
  <2> QED
    BY <1>3, <2>1, <2>3, AloneIInv DEF c
<1> QED
  BY <1>2, <1>3 DEF StartsUp

(* One kind of request other than a submission.                            *)
LEMMA AsksIInv ==
    ASSUME SystemIInv, NEW p \in Peers, NEW m \in Requests, m.type # "SUBMIT_BOARD",
           Deliver(p, m),
           NEW to \in Prog!Place \ {"start"}, prog' = [prog EXCEPT ![p].at = to],
           to \in Before => prog[p].at \in Before,
           to # "submitted",
           Established(p) =>
              /\ StageAfter(stage[p], m.type) # "never"
              /\ to = "menu"   => StageAfter(stage[p], m.type) = "connected"
              /\ to \in InRoom => StageAfter(stage[p], m.type) = "in_room"
              /\ to \in InGame => StageAfter(stage[p], m.type) = "in_game"
    PROVE  SystemIInv'
<1> DEFINE c == prog[p]
           d == [c EXCEPT !.at = to]
<1>0. SessionIInv /\ IInv /\ PeerOK(c, srv.inq[p], stage[p], Established(p))
  BY DEF SystemIInv, SessionIInv
<1>1. c \in Prog!Program /\ srv.inq[p] \in Seq(Requests)
  BY <1>0 DEF PeerOK, IInv, Good, TypedState
<1>2. d \in Prog!Program /\ d.at = to /\ d.own_board = c.own_board
  BY <1>1, GoTyped
<1>3. prog' = [prog EXCEPT ![p] = d]
  OBVIOUS
<1>4. /\ SessionIInv' /\ OthersAlone(p)
      /\ Established(p)' => Established(p)
      /\ IF Established(p)
         THEN /\ srv'.inq[p] = Append(srv.inq[p], m)
              /\ stage'[p] = StageAfter(stage[p], m.type)
         ELSE srv'.inq[p] = srv.inq[p] /\ stage'[p] = stage[p]
  BY <1>0, DeliverAlone
<1> HIDE DEF d
<1>5. PeerOK(d, srv.inq[p], stage'[p], Established(p)')
  BY <1>0, <1>2, <1>4 DEF PeerOK
<1>6. PeerOK(d, srv'.inq[p], stage'[p], Established(p)')
  BY <1>1, <1>4, <1>5, PeerAsks
<1> QED
  BY <1>3, <1>4, <1>6, OnePeer

LEMMA SendsRequestIInv ==
    ASSUME SystemIInv, NEW p \in Peers, SendsRequest(p)
    PROVE  SystemIInv'
<1> DEFINE c == prog[p]
<1>0. SessionIInv /\ IInv /\ PeerOK(c, srv.inq[p], stage[p], Established(p))
  BY DEF SystemIInv, SessionIInv
<1>1. /\ {"creating", "joining", "submitted", "playing", "closing"} \subseteq Prog!Place
      /\ "start" \notin {"creating", "joining", "submitted", "playing", "closing"}
  BY DEF Prog!Place, Prog!Receiving, Prog!Departing
<1>2. CASE Prog!CreateRoom(p) /\ Deliver(p, Notice("CREATE_ROOM"))
  <2> DEFINE m == Notice("CREATE_ROOM")
  <2>1. m \in Requests /\ m.type = "CREATE_ROOM"
    BY SystemAssumption DEF Notice
  <2>2. c.at = "menu" /\ prog' = [prog EXCEPT ![p].at = "creating"]
    BY <1>2 DEF Prog!CreateRoom, Prog!Go
  <2>3. Established(p) => StageAfter(stage[p], "CREATE_ROOM") = "in_room"
    BY <1>0, <2>2 DEF PeerOK, StageAfter
  <2>4. c.at \in Before /\ Deliver(p, m)
    BY <1>2, <2>2 DEF Before
  <2> HIDE DEF m
  <2> QED
    BY <1>1, <2>1, <2>2, <2>3, <2>4, AsksIInv DEF InRoom, InGame
<1>3. CASE Prog!JoinRoom(p) /\ \E id \in RoomChoices : Deliver(p, [type |-> "JOIN_ROOM", room_id |-> id])
  <2>1. PICK id \in RoomChoices : Deliver(p, [type |-> "JOIN_ROOM", room_id |-> id])
    BY <1>3
  <2> DEFINE m == [type |-> "JOIN_ROOM", room_id |-> id]
  <2>2. m \in Requests /\ m.type = "JOIN_ROOM"
    <3>1. m \in [type : {"JOIN_ROOM"}, room_id : RoomChoices]
      OBVIOUS
    <3> QED
      BY <3>1, SystemAssumption
  <2>3. c.at = "menu" /\ prog' = [prog EXCEPT ![p].at = "joining"]
    BY <1>3 DEF Prog!JoinRoom, Prog!Go
  <2>4. Established(p) => StageAfter(stage[p], "JOIN_ROOM") = "in_room"
    BY <1>0, <2>3 DEF PeerOK, StageAfter
  <2>5. c.at \in Before /\ Deliver(p, m)
    BY <2>1, <2>3 DEF Before
  <2> HIDE DEF m
  <2> QED
    BY <1>1, <2>2, <2>3, <2>4, <2>5, AsksIInv DEF InRoom, InGame
<1>4. CASE Prog!SubmitBoard(p) /\ Deliver(p, [type |-> "SUBMIT_BOARD", ships |-> Prog!Submission(p)])
  <2> DEFINE ships == [i \in 1 .. MAX_SHIPS |-> Sent(c.own_board.ships[i])]
             m == [type |-> "SUBMIT_BOARD", ships |-> ships]
             d == [c EXCEPT !.at = "submitted"]
  <2>1. Prog!Submission(p) = ships
    BY DEF Prog!Submission, Sent
  <2>2. /\ Len(c.own_board.ships) = MAX_SHIPS /\ c.at = "placing"
        /\ prog' = [prog EXCEPT ![p] = d]
    BY <1>4 DEF Prog!SubmitBoard, Prog!Go
  <2>3. Laid(c.own_board) /\ (Established(p) => stage[p] = "in_room")
    BY <1>0, <2>2 DEF PeerOK, Before, InRoom
  <2>4. m \in Requests /\ m.type = "SUBMIT_BOARD"
    BY <2>2, <2>3, LaidRequest
  <2>5. Deliver(p, m)
    BY <1>4, <2>1
  <2> HIDE DEF c, m, d
  <2>6. Established(p) => StageAfter(stage[p], m.type) = "in_game"
    BY <2>3, <2>4 DEF StageAfter
  <2>7. /\ SessionIInv' /\ OthersAlone(p)
        /\ Established(p)' => Established(p)
        /\ IF Established(p)
           THEN /\ srv'.inq[p] = Append(srv.inq[p], m)
                /\ stage'[p] = StageAfter(stage[p], m.type)
           ELSE srv'.inq[p] = srv.inq[p] /\ stage'[p] = stage[p]
    BY <1>0, <2>4, <2>5, <2>6, DeliverAlone
  <2>8. PeerOK(d, srv'.inq[p], stage'[p], Established(p)')
    <3>1. srv.inq[p] \in Seq(Requests)
      BY <1>0 DEF IInv, Good, TypedState
    <3>2. PeerOK(d, Append(srv.inq[p], m), "in_game", Established(p))
      BY <1>0, <2>2, <3>1, PeerSubmits DEF d, m
    <3>3. CASE Established(p)
      BY <2>6, <2>7, <3>2, <3>3 DEF PeerOK
    <3>4. CASE ~Established(p)
      <4>1. d \in Prog!Program /\ d.at = "submitted"
        BY <1>0, <1>1, GoTyped DEF PeerOK, d
      <4>2. SubmitsIn(srv.inq[p]) = {}
        BY <1>0, <2>2 DEF PeerOK, Before
      <4> QED
        BY <2>7, <3>4, <4>1, <4>2 DEF PeerOK, Before, InRoom
    <3> QED
      BY <3>3, <3>4
  <2> QED
    BY <2>2, <2>7, <2>8, OnePeer
<1>5. CASE \E t \in Targets : Prog!Shoot(p, t) /\ Deliver(p, [type |-> "SHOOT", target |-> t])
  <2>1. PICK t \in Targets : Prog!Shoot(p, t) /\ Deliver(p, [type |-> "SHOOT", target |-> t])
    BY <1>5
  <2> DEFINE m == [type |-> "SHOOT", target |-> t]
  <2>2. m \in Requests /\ m.type = "SHOOT"
    <3>1. m \in [type : {"SHOOT"}, target : Targets]
      OBVIOUS
    <3> QED
      BY <3>1, SystemAssumption
  <2>3. c.at = "prompted" /\ prog' = [prog EXCEPT ![p].at = "playing"]
    BY <2>1 DEF Prog!Shoot, Prog!Go
  <2>4. Established(p) => StageAfter(stage[p], "SHOOT") = "in_game"
    BY <1>0, <2>3 DEF PeerOK, StageAfter, InGame
  <2>5. Deliver(p, m)
    BY <2>1
  <2> HIDE DEF m
  <2> QED
    BY <1>1, <2>2, <2>3, <2>4, <2>5, AsksIInv DEF InRoom, InGame, Before
<1>6. CASE Prog!Disconnect(p) /\ Deliver(p, Notice("DISCONNECT"))
  <2> DEFINE m == Notice("DISCONNECT")
  <2>1. m \in Requests /\ m.type = "DISCONNECT"
    BY SystemAssumption DEF Notice
  <2>2. c.at = "leaving" /\ prog' = [prog EXCEPT ![p].at = "closing"]
    BY <1>6 DEF Prog!Disconnect, Prog!Go
  <2>3. StageAfter(stage[p], "DISCONNECT") = "left"
    BY DEF StageAfter
  <2>4. Deliver(p, m)
    BY <1>6
  <2> HIDE DEF m
  <2> QED
    BY <1>1, <2>1, <2>2, <2>3, <2>4, AsksIInv DEF InRoom, InGame, Before
<1> QED
  BY <1>2, <1>3, <1>4, <1>5, <1>6 DEF SendsRequest

LEMMA PlacesShipIInv ==
    ASSUME SystemIInv, NEW p \in Peers, PlacesShip(p)
    PROVE  SystemIInv'
<1> DEFINE c == prog[p]
           b == c.own_board
<1>0. SessionIInv /\ PeerOK(c, srv.inq[p], stage[p], Established(p))
  BY DEF SystemIInv
<1>1. PICK spot \in Spots : Prog!PlaceOwnShip(p, spot.x, spot.y, spot.orientation)
  BY DEF PlacesShip
<1> DEFINE ship == [x |-> spot.x, y |-> spot.y, length |-> SHIP_LENGTHS[Len(b.ships) + 1],
                    orientation |-> spot.orientation]
           laid == PlaceShip(b, ship)
           d == [c EXCEPT !.own_board = laid]
<1>2. /\ c.at = "placing" /\ Len(b.ships) < MAX_SHIPS /\ CanPlaceShip(b, ship)
      /\ prog' = [prog EXCEPT ![p].own_board = laid]
  BY <1>1, SameGame DEF Prog!PlaceOwnShip
<1>3. c \in Prog!Program /\ Laid(b)
  BY <1>0, <1>2 DEF PeerOK, Before
<1>4. spot.x \in Axis /\ spot.y \in Axis /\ spot.orientation \in Straight
  BY SystemAssumption
<1>5. Laid(laid)
  <2> HIDE DEF b
  <2> QED
    BY <1>2, <1>3, <1>4, LaidPlace
<1>6. prog' = [prog EXCEPT ![p] = d]
  BY <1>2
<1> HIDE DEF laid
<1>7. laid \in Prog!Board
  BY <1>5, SameGame DEF Laid
<1>8. d \in Prog!Program /\ d.at = "placing" /\ d.own_board = laid
  BY <1>2, <1>3, <1>7 DEF Prog!Program
<1> HIDE DEF d, c, b
<1>9. PeerOK(d, srv.inq[p], stage[p], Established(p))
  BY <1>0, <1>2, <1>5, <1>8 DEF PeerOK, Before, InRoom, InGame
<1>10. UNCHANGED <<srv, stage, loopVars>>
  BY DEF PlacesShip
<1>11. SessionIInv' /\ OthersAlone(p)
  BY <1>0, <1>10, StillAlone DEF OthersAlone
<1>12. PeerOK(d, srv'.inq[p], stage'[p], Established(p)')
  BY <1>9, <1>10 DEF Established, Running
<1> QED
  BY <1>6, <1>11, <1>12, OnePeer

LEMMA TakesMessageIInv ==
    ASSUME SystemIInv, NEW p \in Peers, TakesMessage(p)
    PROVE  SystemIInv'
<1> DEFINE c == prog[p]
           m == Head(srv.sent[p])
           d == Prog!AfterMessage(c, m)
<1>0. SessionIInv /\ IInv /\ PeerOK(c, srv.inq[p], stage[p], Established(p))
  BY DEF SystemIInv, SessionIInv
<1>1. /\ srv.sent[p] # << >> /\ c.at \in Prog!Receiving
      /\ prog' = [prog EXCEPT ![p] = d]
      /\ srv' = [srv EXCEPT !.sent[p] = Tail(@)]
      /\ stage' = stage /\ UNCHANGED loopVars
  BY DEF TakesMessage, Prog!Receive
<1>2. c \in Prog!Program
  BY <1>0 DEF PeerOK
<1>3. m \in Message
  <2>1. srv.sent[p] \in Seq(Message)
    BY <1>0 DEF IInv, Good, TypedState
  <2> QED
    BY <1>1, <2>1, HeadTailProperties
<1> HIDE DEF m
<1>4. Onward(c, d)
  BY <1>1, <1>2, <1>3, MessageOnward
<1> HIDE DEF c, d
<1>5. srv' = [srv EXCEPT !.link[p] = srv.link[p], !.sent[p] = Tail(srv.sent[p])]
  BY <1>0, <1>1 DEF IInv, Good, TypedState
<1>6. /\ SessionIInv' /\ OthersAlone(p)
      /\ Established(p)' => Established(p)
      /\ srv'.inq[p] = srv.inq[p]
  BY <1>0, <1>1, <1>5, WiresAlone
<1> QED
  BY <1>1, <1>4, <1>6, OnwardIInv DEF c

LEMMA SeesEndIInv ==
    ASSUME SystemIInv, NEW p \in Peers, SeesEnd(p)
    PROVE  SystemIInv'
<1> DEFINE d == Prog!GiveUp(prog[p])
<1>1. prog' = [prog EXCEPT ![p] = d] /\ UNCHANGED <<srv, stage, loopVars>>
  BY DEF SeesEnd, Prog!LoseConnection
<1>2. Onward(prog[p], d)
  BY EndOnward DEF SystemIInv, PeerOK
<1> HIDE DEF d
<1> QED
  BY <1>1, <1>2, AloneIInv

LEMMA FailsToSendIInv ==
    ASSUME SystemIInv, NEW p \in Peers, FailsToSend(p)
    PROVE  SystemIInv'
<1> DEFINE d == Prog!GiveUp(prog[p])
<1>1. prog' = [prog EXCEPT ![p] = d] /\ UNCHANGED <<srv, stage, loopVars>>
  BY DEF FailsToSend, Prog!RequestFails
<1>2. Onward(prog[p], d)
  BY EndOnward DEF SystemIInv, PeerOK
<1> HIDE DEF d
<1> QED
  BY <1>1, <1>2, AloneIInv

(* The process ends and its kernel closes the connection.                  *)
LEMMA EndsIInv ==
    ASSUME SystemIInv, NEW p \in Peers, HangUp(p),
           prog' = [prog EXCEPT ![p] = Prog!Exited(@)]
    PROVE  SystemIInv'
<1> DEFINE d == Prog!Exited(prog[p])
<1>1. Onward(prog[p], d)
  BY EndOnward DEF SystemIInv, PeerOK
<1>2. SessionIInv' /\ OthersAlone(p) /\ ~Established(p)' /\ srv'.inq[p] = srv.inq[p]
  BY HangUpAlone DEF SystemIInv
<1>3. prog' = [prog EXCEPT ![p] = d]
  OBVIOUS
<1> HIDE DEF d
<1> QED
  BY <1>1, <1>2, <1>3, OnwardIInv

LEMMA StopsEarlyIInv ==
    ASSUME SystemIInv, NEW p \in Peers, StopsEarly(p)
    PROVE  SystemIInv'
<1> DEFINE c == prog[p]
<1>0. c \in Prog!Program
  BY DEF SystemIInv, PeerOK
<1>1. CASE Prog!InputEnds(p) /\ UNCHANGED <<srv, stage, loopVars>>
  <2> DEFINE d == Prog!GiveUp(c)
  <2>1. prog' = [prog EXCEPT ![p] = d]
    BY <1>1 DEF Prog!InputEnds
  <2>2. Onward(c, d)
    BY <1>0, EndOnward
  <2> HIDE DEF d
  <2> QED
    BY <1>1, <2>1, <2>2, AloneIInv
<1>2. CASE Prog!InputEndsInLine(p) /\ UNCHANGED <<srv, stage, loopVars>>
  <2> DEFINE d == [c EXCEPT !.at = "hung"]
  <2>1. prog' = [prog EXCEPT ![p] = d]
    BY <1>2 DEF Prog!InputEndsInLine, Prog!Go
  <2>2. d \in Prog!Program /\ d.at = "hung"
    BY <1>0, GoTyped DEF Prog!Place
  <2> HIDE DEF d
  <2>3. Onward(c, d)
    BY <2>2 DEF Onward, InRoom, InGame
  <2> QED
    BY <1>2, <2>1, <2>3, AloneIInv
<1>3. CASE Prog!Killed(p) /\ HangUp(p)
  BY <1>3, EndsIInv DEF Prog!Killed
<1> QED
  BY <1>1, <1>2, <1>3 DEF StopsEarly

LEMMA SystemNextIInv == SystemIInv /\ [SystemNext]_systemVars => SystemIInv'
<1> SUFFICES ASSUME SystemIInv, [SystemNext]_systemVars PROVE SystemIInv'
  OBVIOUS
<1>1. CASE ServerWorks
  BY <1>1, ServerWorksIInv
<1>2. ASSUME NEW p \in Peers, ProgramWorks(p) PROVE SystemIInv'
  <2>1. CASE SendsRequest(p)
    BY <2>1, SendsRequestIInv
  <2>2. CASE PlacesShip(p)
    BY <2>2, PlacesShipIInv
  <2>3. CASE TakesMessage(p)
    BY <2>3, TakesMessageIInv
  <2>4. CASE SeesEnd(p)
    BY <2>4, SeesEndIInv
  <2>5. CASE ClosesDown(p)
    BY <2>5, EndsIInv DEF ClosesDown, Prog!Close
  <2>6. CASE FailsToSend(p)
    BY <2>6, FailsToSendIInv
  <2> QED
    BY <1>2, <2>1, <2>2, <2>3, <2>4, <2>5, <2>6 DEF ProgramWorks
<1>3. CASE UNCHANGED systemVars
  <2>1. UNCHANGED <<srv, stage, loopVars>> /\ prog' = prog
    BY <1>3 DEF systemVars, loopVars
  <2>2. SessionIInv'
    BY <2>1, StillAlone DEF SystemIInv
  <2> QED
    BY <2>1, <2>2 DEF SystemIInv, Established, Running
<1> QED
  BY <1>1, <1>2, <1>3, StartsUpIInv, StopsEarlyIInv DEF SystemNext

(* Wherever the programs and the server get to: the server's invariant of  *)
(* SessionProofs.tla, which is about peers that do not wait for answers,   *)
(* holds with the programs at the other ends, and each program is where    *)
(* the server's peer is.                                                   *)
THEOREM SystemInvariance == SystemSpec => []SystemIInv
<1> QED
  BY SystemInitIInv, SystemNextIInv, PTL DEF SystemSpec

(* The server and the programs keep their types.                           *)
THEOREM SystemTypesCorrect == SystemSpec => []SystemTypeOK
<1>1. SystemIInv => SystemTypeOK
  <2> SUFFICES ASSUME SystemIInv PROVE SystemTypeOK
    OBVIOUS
  <2>1. SessionTypeOK
    BY DEF SystemIInv, SessionIInv, IInv, Good, LoopTypeOK, TypeOK, SessionTypeOK
  <2>2. ASSUME NEW p \in Peers
        PROVE  /\ DOMAIN prog[p] = DOMAIN Prog!FreshProgram
               /\ prog[p].at \in Prog!Place
               /\ prog[p].result \in {"none", "won", "lost", "left", "error"}
               /\ prog[p].player_id \in Int
               /\ prog[p].own_board.cells \in [Prog!Coord -> Prog!CellState]
               /\ prog[p].enemy_view \in [Prog!Coord -> Prog!CellState]
    <3>1. prog[p] \in Prog!Program
      BY DEF SystemIInv, PeerOK
    <3>2. DOMAIN prog[p] = {"at", "result", "player_id", "own_board", "enemy_view"}
      BY <3>1 DEF Prog!Program
    <3>3. DOMAIN Prog!FreshProgram = {"at", "result", "player_id", "own_board", "enemy_view"}
      BY DEF Prog!FreshProgram
    <3> QED
      BY <3>1, <3>2, <3>3 DEF Prog!Program, Prog!Board
  <2> QED
    BY <2>1, <2>2 DEF SystemTypeOK, Prog!ProgramTypeOK
<1> QED
  BY <1>1, SystemInvariance, PTL

(* MSG_SUBMIT_BOARD drops a ship that does not fit without a word; client.c*)
(* never sends one: client_place_ships validates each ship against the     *)
(* ones before it as the server will, so that the server loses no ship and *)
(* sets up the board that the player sees.                                 *)
THEOREM SubmissionsAreComplete == SystemSpec => []SubmissionsComplete
<1>1. SystemIInv => SubmissionsComplete
  <2> SUFFICES ASSUME SystemIInv, NEW p \in Peers, NEW n \in DOMAIN srv.inq[p],
                      srv.inq[p][n].type = "SUBMIT_BOARD"
               PROVE  LET placed == PlaceBoardShips(InitBoard, srv.inq[p][n].ships)
                      IN  /\ [i \in DOMAIN placed.ships |-> placed.ships[i].length]
                                = SHIP_LENGTHS
                          /\ prog[p].at = "submitted" => placed = prog[p].own_board
    BY DEF SubmissionsComplete
  <2>1. n \in SubmitsIn(srv.inq[p])
    BY DEF SubmitsIn
  <2>2. PeerOK(prog[p], srv.inq[p], stage[p], Established(p))
    BY DEF SystemIInv
  <2>3. /\ Complete(srv.inq[p][n].ships)
        /\ prog[p].at = "submitted" =>
              PlaceBoardShips(InitBoard, srv.inq[p][n].ships) = prog[p].own_board
    BY <2>1, <2>2 DEF PeerOK
  <2> QED
    BY <2>3 DEF Complete
<1> QED
  BY <1>1, SystemInvariance, PTL

-----------------------------------------------------------------------------
(* What the server promises, with the programs at the other ends           *)

(* With the programs of client.c, as with the peers of Session.tla: every  *)
(* slot owns its descriptor, the loop never waits in recv() and never      *)
(* dereferences a missing opponent, the seats of a game and the clients    *)
(* name each other, a game ends with its last ship, and what a program has *)
(* not read yet holds nothing behind GAME_OVER or OPPONENT_LEFT.           *)
THEOREM ServerServesPrograms ==
    SystemSpec => []( /\ DescriptorsOwned /\ ScanNeverBlocks /\ SeatsCounted /\ NoSegfault
                      /\ SeatsMatchClients /\ DecidedGameStops /\ LastWordOnce )
<1>1. SystemIInv => DescriptorsOwned /\ ScanNeverBlocks /\ SeatsCounted /\ NoSegfault
  BY DEF SystemIInv, SessionIInv, IInv, Good, RoomsCounted, DescriptorsOwned, SeatsCounted
<1>2. SystemIInv => SeatsMatchClients
  BY SeatsMatch DEF SystemIInv
<1>3. SystemIInv => DecidedGameStops
  BY RoomIsNotNull DEF SystemIInv, SessionIInv, Sess, BoardFit, DecidedGameStops
<1>4. SystemIInv => LastWordOnce
  BY DEF SystemIInv, SessionIInv, Sess, LastOK, LastWords, LastWordOnce
<1> QED
  BY <1>1, <1>2, <1>3, <1>4, SystemInvariance, PTL

(* No program touches the server's rooms.                                  *)
LEMMA StepIsServers ==
    ASSUME SystemIInv, [SystemNext]_systemVars
    PROVE  \/ ServerStep /\ stage' = stage
           \/ srv'.rooms = srv.rooms /\ srv'.boards = srv.boards
<1>0. TypedState(srv)
  BY DEF SystemIInv, SessionIInv, IInv, Good
<1>1. ASSUME NEW p \in Peers, NEW m, Deliver(p, m)
      PROVE  srv'.rooms = srv.rooms /\ srv'.boards = srv.boards
  BY <1>0, <1>1 DEF Deliver, TypedState
<1>2. ASSUME NEW p \in Peers, HangUp(p)
      PROVE  srv'.rooms = srv.rooms /\ srv'.boards = srv.boards
  BY <1>0, <1>2 DEF HangUp, TypedState
<1>3. ASSUME NEW p \in Peers, StartsUp(p)
      PROVE  srv'.rooms = srv.rooms /\ srv'.boards = srv.boards
  BY <1>0, <1>3 DEF StartsUp, PeerConnect, TypedState
<1>4. ASSUME NEW p \in Peers, SendsRequest(p)
      PROVE  srv'.rooms = srv.rooms /\ srv'.boards = srv.boards
  BY <1>1, <1>4 DEF SendsRequest
<1>5. ASSUME NEW p \in Peers, PlacesShip(p) \/ TakesMessage(p) \/ SeesEnd(p) \/ FailsToSend(p)
      PROVE  srv'.rooms = srv.rooms /\ srv'.boards = srv.boards
  BY <1>0, <1>5 DEF PlacesShip, TakesMessage, SeesEnd, FailsToSend, TypedState
<1>6. ASSUME NEW p \in Peers, ClosesDown(p) \/ StopsEarly(p)
      PROVE  srv'.rooms = srv.rooms /\ srv'.boards = srv.boards
  BY <1>2, <1>6 DEF ClosesDown, StopsEarly
<1>7. CASE UNCHANGED systemVars
  BY <1>7 DEF systemVars
<1> QED
  BY <1>3, <1>4, <1>5, <1>6, <1>7 DEF SystemNext, ProgramWorks, ServerWorks

LEMMA SystemBoardInv ==
    ASSUME NEW T, Closed(T), SystemIInv, SystemIInv', BoardInv(T), [SystemNext]_systemVars
    PROVE  IInv' /\ BoardsIn(srv', T) /\ RoomIdsOK(srv')
<1>1. IInv'
  BY DEF SystemIInv, SessionIInv
<1>2. CASE ServerStep /\ stage' = stage
  <2>1. [Next]_vars
    BY <1>2 DEF Next
  <2> QED
    BY <2>1, NextBoardInv
<1>3. CASE srv'.rooms = srv.rooms /\ srv'.boards = srv.boards
  BY <1>1, <1>3 DEF BoardInv, BoardsIn, RoomIdsOK
<1> QED
  BY <1>2, <1>3, StepIsServers

LEMMA SystemPlays ==
    ASSUME SystemIInv, [SystemNext]_systemVars, [~SubmitsInGame]_systemVars
    PROVE  Plays(srv, srv')
<1>1. SessionIInv
  BY DEF SystemIInv
<1>2. CASE ServerStep /\ stage' = stage
  <2>1. [SessionNext]_sessionVars
    BY <1>2 DEF SessionNext
  <2>2. SubmitsInGame => UNCHANGED sessionVars
    BY DEF systemVars, sessionVars
  <2> QED
    BY <1>1, <2>1, <2>2, StepPlays
<1>3. CASE srv'.rooms = srv.rooms /\ srv'.boards = srv.boards
  BY <1>3, SameRoomsCarried, CarriedPlays
<1> QED
  BY <1>2, <1>3, StepIsServers

(* Shots are struck on turn by programs, too.                              *)
THEOREM ProgramsShootOnTurn == SystemSpec => ShotsRespectTurn
<1>1. SystemInit => BoardInv(Board)
  BY BoardClosed, InitBoardInv DEF SystemInit, SessionInit
<1>2. SystemIInv /\ SystemIInv' /\ BoardInv(Board) /\ [SystemNext]_systemVars
         => BoardInv(Board)'
  BY BoardClosed, SystemBoardInv DEF BoardInv, BoardsIn, RoomIdsOK
<1>3. SystemIInv /\ BoardInv(Board) /\ [SystemNext]_systemVars =>
         [\A r \in Rooms, pl \in Players : StruckOnTurn(r, pl)]_vars
  <2> SUFFICES ASSUME SystemIInv, BoardInv(Board), [SystemNext]_systemVars,
                      NEW r \in Rooms, NEW pl \in Players
               PROVE  StruckOnTurn(r, pl)
    OBVIOUS
  <2>1. CASE ServerStep /\ stage' = stage
    <3>1. [Next]_vars
      BY <2>1 DEF Next
    <3> QED
      BY <3>1, StepOnTurn
  <2>2. CASE srv'.rooms = srv.rooms /\ srv'.boards = srv.boards
    BY <2>2 DEF StruckOnTurn, Struck
  <2> QED
    BY <2>1, <2>2, StepIsServers
<1> QED
  BY <1>1, <1>2, <1>3, SystemInvariance, PTL DEF SystemSpec, ShotsRespectTurn

(* The rooms in which the programs play, play by the rules of Match.tla,   *)
(* whatever programs are started, quit, die or are cut off, as long as no  *)
(* board reaches the server in the middle of a game.                       *)
THEOREM ProgramsPlayMatches ==
    ASSUME ShipsCanSink
    PROVE  SystemSpec /\ [][~SubmitsInGame]_systemVars => RoomsPlayMatches
<1>1. Closed(SinkableBoard)
  BY SinkableBoardClosed
<1>2. SystemInit => BoardInv(SinkableBoard)
  BY <1>1, InitBoardInv DEF SystemInit, SessionInit
<1>3. SystemIInv /\ SystemIInv' /\ BoardInv(SinkableBoard) /\ [SystemNext]_systemVars
         => BoardInv(SinkableBoard)'
  BY <1>1, SystemBoardInv DEF BoardInv, BoardsIn, RoomIdsOK
<1>4. SystemInit => \A r \in Rooms : MatchOf(r)!MatchInit
  BY MatchInits DEF SystemInit
<1>5. /\ SystemIInv /\ SystemIInv'
      /\ BoardInv(SinkableBoard) /\ BoardInv(SinkableBoard)'
      /\ [SystemNext]_systemVars /\ [~SubmitsInGame]_systemVars
      => [\A r \in Rooms :
             UNCHANGED MatchOf(r)!matchVars \/ MatchOf(r)!MatchNext]_sessionVars
  <2> SUFFICES ASSUME SystemIInv, SystemIInv',
                      BoardInv(SinkableBoard), BoardInv(SinkableBoard)',
                      [SystemNext]_systemVars, [~SubmitsInGame]_systemVars,
                      NEW r \in Rooms
               PROVE  UNCHANGED MatchOf(r)!matchVars \/ MatchOf(r)!MatchNext
    OBVIOUS
  <2>1. RoomStep(srv, srv', r)
    BY SystemPlays DEF Plays
  <2>2. IInv /\ IInv' /\ BoardFit(srv, r)
    BY RoomIsNotNull DEF SystemIInv, SessionIInv, Sess
  <2>3. BoardsIn(srv, SinkableBoard) /\ BoardsIn(srv', SinkableBoard)
    BY DEF BoardInv, BoardsIn
  <2> QED
    BY <2>1, <2>2, <2>3, MatchStep
<1> QED
  BY <1>2, <1>3, <1>4, <1>5, SystemInvariance, PTL DEF SystemSpec, RoomsPlayMatches
=============================================================================
