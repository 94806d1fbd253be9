------------------------------ MODULE MCServer ------------------------------
(* Peers that send any request in any order.                               *)
EXTENDS Server

CONSTANT Waiters    \* in LoopSpec, peers that say nothing but DISCONNECT

At(x, y, length, orientation) ==
    [x |-> x, y |-> y, length |-> length, orientation |-> orientation]

Plain(type)  == [type |-> type]
Join(id)     == [type |-> "JOIN_ROOM", room_id |-> id]
Submit(s)    == [type |-> "SUBMIT_BOARD", ships |-> s]
ShootAt(c)   == [type |-> "SHOOT", target |-> c]

(* Rooms fill, empty and are set up again while games of two shots are     *)
(* played in them.  The submission is a ship of two cells and one whose two*)
(* segments share a cell next to the first: it is refused until that cell  *)
(* was hit, fits when the board is then handed in again, and never sinks.  *)
LobbyRequests ==
    {Plain("CREATE_ROOM"), Join(RoomId(0)),
     Submit(<<At(1, 0, 2, "HORIZONTAL"), At(0, 0, 2, "OTHER")>>),
     ShootAt(<<1, 0>>), ShootAt(<<2, 0>>)}

(* Games of one shot, and clients that talk and leave.                     *)
LoopRequests ==
    {Plain("CREATE_ROOM"), Join(RoomId(0)), Submit(<<At(0, 0, 1, "HORIZONTAL")>>),
     ShootAt(<<0, 0>>), Plain("OTHER"), Plain("DISCONNECT")}

(* Two ships of length 0.                                                  *)
HollowRequests ==
    {Plain("CREATE_ROOM"), Join(RoomId(0)),
     Submit(<<At(0, 0, 0, "HORIZONTAL"), At(0, 0, 0, "VERTICAL")>>)}

(* The scheduled server with some peers that only wait, and may leave:     *)
(* Next with fewer requests.                                               *)
Says(p) == IF p \in Waiters THEN Requests \cap {Plain("DISCONNECT")} ELSE Requests

LoopNext ==
    \/ ServerStep
    \/ \E p \in Peers :
          \/ PeerConnect(p)
          \/ \E m \in Says(p) : PeerSend(p, m)
          \/ PeerClose(p)

LoopSpec == Init /\ [][LoopNext]_vars /\ Scheduled

Symmetry == Permutations(Peers)
=============================================================================
