----------------------------- MODULE MCSession -----------------------------
(* Peers that follow the protocol.  A board is one ship in a corner, and   *)
(* shots are at that ship, at water or off the board.                      *)
EXTENDS Session

Corner(x, y) == <<[x |-> x, y |-> y, length |-> 1, orientation |-> "HORIZONTAL"]>>

Plain(type)  == [type |-> type]
Join(id)     == [type |-> "JOIN_ROOM", room_id |-> id]
Submit(s)    == [type |-> "SUBMIT_BOARD", ships |-> s]
ShootAt(c)   == [type |-> "SHOOT", target |-> c]

(* Two boards whose ships are apart, and one whose ship is off the board.  *)
TwoBoards == {Plain("CREATE_ROOM"), Join(RoomId(0)), Submit(Corner(0, 0)),
              Submit(Corner(2, 2))}
OffBoard  == {Plain("CREATE_ROOM"), Submit(Corner(BOARD_SIZE, 0))}

MCRequests == {Plain("CREATE_ROOM"), Join(RoomId(0)), Submit(Corner(0, 0)),
               ShootAt(<<0, 0>>), ShootAt(<<1, 1>>), ShootAt(<<BOARD_SIZE, 0>>),
               Plain("DISCONNECT")}

Symmetry   == Permutations(Peers)
=============================================================================
