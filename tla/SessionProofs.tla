---------------------------- MODULE SessionProofs ----------------------------
(***************************************************************************)
(* Proofs about Session.tla for every number of slots, rooms, descriptors  *)
(* and peers and every set of requests: what the server promises to peers  *)
(* that ask for a room at most once, as client.c does, and that its rooms  *)
(* play the matches of Match.tla.                                          *)
(***************************************************************************)
EXTENDS Session, RoomProofs

(* A connection the server has not accepted was told nothing.              *)
Untold ==
    \A p \in Peers :
        srv.link[p] = "idle" \/ (\E n \in DOMAIN backlog : backlog[n] = p)
            => srv.sent[p] = << >>

(* A peer asks for a room once, and while the request waits, or is yet to  *)
(* be made, the client the server keeps for it has no room.                *)
AsksIn(q) == {n \in DOMAIN q : q[n].type \in Asking}

Roomless(p) ==
    \A i \in Slots : srv.clients[i].is_connected /\ PeerOf(srv, i) = p
        => srv.clients[i].assigned_room_id = -1

AskOnce ==
    \A p \in Peers :
        /\ \A m, n \in AsksIn(srv.inq[p]) : m = n
        /\ stage[p] = "connected" => AsksIn(srv.inq[p]) = {}
        /\ stage[p] = "connected" \/ AsksIn(srv.inq[p]) # {} => Roomless(p)

(* The inductive invariant.                                                *)
SessionIInv ==
    /\ IInv
    /\ Sess(srv, NULL, {})
    /\ Untold
    /\ AskOnce
    /\ stage \in [Peers -> Stage]

-----------------------------------------------------------------------------
LEMMA AsksTail ==
    ASSUME NEW q \in Seq(Requests), q # << >>
    PROVE  /\ \A n \in AsksIn(Tail(q)) : n \in Int /\ n + 1 \in AsksIn(q)
           /\ Head(q).type \in Asking => 1 \in AsksIn(q)
<1>1. /\ Tail(q) \in Seq(Requests) /\ Len(Tail(q)) = Len(q) - 1 /\ Len(q) \in Nat
      /\ \A n \in 1 .. Len(Tail(q)) : Tail(q)[n] = q[n + 1]
      /\ Len(q) # 0 /\ Head(q) = q[1]
  BY HeadTailProperties
<1>2. DOMAIN Tail(q) = 1 .. Len(Tail(q)) /\ DOMAIN q = 1 .. Len(q)
  BY <1>1
<1> QED
  BY <1>1, <1>2 DEF AsksIn

LEMMA AsksNone == AsksIn(<< >>) = {}
BY DEF AsksIn

(* No step but PeerSend adds a request; a client gets a room when its one  *)
(* request for it is read.                                                 *)
LEMMA AskOnceKept ==
    ASSUME IInv, AskOnce,
           \A j \in Slots : srv'.clients[j].is_connected =>
              \/ srv'.clients[j].assigned_room_id = -1
              \/ /\ srv.clients[j].is_connected /\ PeerOf(srv', j) = PeerOf(srv, j)
                 /\ \/ srv'.clients[j].assigned_room_id = srv.clients[j].assigned_room_id
                    \/ /\ AsksForRoom(j)
                       /\ srv'.inq[PeerOf(srv, j)] \in {Tail(srv.inq[PeerOf(srv, j)]), << >>},
           \A p \in Peers :
              \/ srv'.inq[p] \in {srv.inq[p], << >>}
              \/ srv.inq[p] # << >> /\ srv'.inq[p] = Tail(srv.inq[p]),
           \A p \in Peers : stage'[p] # stage[p] => stage'[p] # "connected"
    PROVE  AskOnce'
<1> SUFFICES ASSUME NEW p \in Peers
             PROVE  /\ \A m, n \in AsksIn(srv'.inq[p]) : m = n
                    /\ stage'[p] = "connected" => AsksIn(srv'.inq[p]) = {}
                    /\ stage'[p] = "connected" \/ AsksIn(srv'.inq[p]) # {} =>
                          \A i \in Slots : srv'.clients[i].is_connected /\ PeerOf(srv', i) = p
                              => srv'.clients[i].assigned_room_id = -1
  BY DEF AskOnce, Roomless
<1>1. srv.inq[p] \in Seq(Requests)
  BY DEF IInv, Good, TypedState
<1>2. /\ \A m, n \in AsksIn(srv.inq[p]) : m = n
      /\ stage[p] = "connected" => AsksIn(srv.inq[p]) = {}
      /\ stage[p] = "connected" \/ AsksIn(srv.inq[p]) # {} => Roomless(p)
  BY DEF AskOnce
<1>3. \/ AsksIn(srv'.inq[p]) = AsksIn(srv.inq[p])
      \/ AsksIn(srv'.inq[p]) = {}
      \/ /\ srv.inq[p] # << >> /\ srv'.inq[p] = Tail(srv.inq[p])
         /\ \A n \in AsksIn(srv'.inq[p]) : n \in Int /\ n + 1 \in AsksIn(srv.inq[p])
  BY <1>1, AsksTail, AsksNone
<1>4. \A m, n \in AsksIn(srv'.inq[p]) : m = n
  <2> SUFFICES ASSUME NEW m \in AsksIn(srv'.inq[p]), NEW n \in AsksIn(srv'.inq[p])
               PROVE  m = n
    OBVIOUS
  <2>1. CASE AsksIn(srv'.inq[p]) = AsksIn(srv.inq[p])
    BY <1>2, <2>1
  <2>2. CASE \A k \in AsksIn(srv'.inq[p]) : k \in Int /\ k + 1 \in AsksIn(srv.inq[p])
    <3>1. m + 1 = n + 1 /\ m \in Int /\ n \in Int
      BY <1>2, <2>2
    <3> QED
      BY <3>1
  <2> QED
    BY <1>3, <2>1, <2>2
<1>5. AsksIn(srv.inq[p]) = {} => AsksIn(srv'.inq[p]) = {}
  BY <1>3
<1>6. stage'[p] = "connected" => stage[p] = "connected"
  OBVIOUS
<1>7. ASSUME stage'[p] = "connected" \/ AsksIn(srv'.inq[p]) # {},
             NEW i \in Slots, srv'.clients[i].is_connected, PeerOf(srv', i) = p
      PROVE  srv'.clients[i].assigned_room_id = -1
  <2>1. Roomless(p)
    BY <1>2, <1>5, <1>6, <1>7
  <2>2. CASE AsksForRoom(i) /\ PeerOf(srv, i) = p
             /\ srv'.inq[p] \in {Tail(srv.inq[p]), << >>}
    <3>1. srv.inq[p] # << >> /\ 1 \in AsksIn(srv.inq[p])
      BY <1>1, <2>2, AsksTail DEF AsksForRoom, Inbox
    <3>2. AsksIn(srv'.inq[p]) = {}
      <4> SUFFICES ASSUME NEW n \in AsksIn(srv'.inq[p]) PROVE FALSE
        OBVIOUS
      <4>1. AsksIn(Tail(srv.inq[p])) = AsksIn(srv'.inq[p])
        BY <2>2, AsksNone
      <4>2. n \in Int /\ n + 1 \in AsksIn(srv.inq[p]) /\ n + 1 = 1
        BY <1>1, <1>2, <3>1, <4>1, AsksTail
      <4>3. n \in 1 .. Len(Tail(srv.inq[p])) /\ Len(Tail(srv.inq[p])) \in Nat
        BY <1>1, <3>1, <4>1, HeadTailProperties DEF AsksIn
      <4> QED
        BY <4>2, <4>3
    <3> QED
      BY <1>2, <1>6, <1>7, <3>1, <3>2
  <2> QED
    BY <1>7, <2>1, <2>2 DEF Roomless
<1> QED
  BY <1>2, <1>4, <1>5, <1>6, <1>7


-----------------------------------------------------------------------------
LEMMA SessionInitIInv == SessionInit => SessionIInv
<1> SUFFICES ASSUME SessionInit PROVE SessionIInv
  OBVIOUS
<1>1. IInv
  BY InitIInv DEF SessionInit
<1>2. /\ srv.clients = [i \in Slots |-> FreeSlot]
      /\ srv.rooms = [r \in Rooms |-> InitRoom]
      /\ srv.boards = [r \in Rooms |-> [pl \in Players |-> InitBoard]]
      /\ srv.inq = [p \in Peers |-> << >>]
      /\ srv.sent = [p \in Peers |-> << >>]
      /\ stage = [p \in Peers |-> "connected"]
  BY DEF SessionInit, Init
<1>3. /\ \A r \in Rooms : ~srv.rooms[r].is_active
      /\ \A i \in Slots : ~srv.clients[i].is_connected
  BY <1>2 DEF InitRoom, FreeSlot
<1>4. SeatsOK(srv)
  <2>1. \A r \in Rooms : Assigned(srv, r) = {} /\ Bound(srv, r) = 0
    BY <1>3 DEF Assigned, Bound
  <2> QED
    BY <1>3, <2>1 DEF SeatsOK, SeatsFit, AtMost
<1>5. BoardsIn(srv, Board)
  BY <1>2, BoardClosed DEF BoardsIn, Closed
<1>6. \A r \in Rooms : BoardFit(srv, r)
  BY <1>3 DEF BoardFit
<1>7. LastOK(srv, {})
  BY <1>2, <1>3 DEF LastOK
<1>8. Sess(srv, NULL, {})
  BY <1>1, <1>4, <1>5, <1>6, <1>7 DEF Sess, IInv
<1>9. Untold /\ AskOnce
  BY <1>2, <1>3, AsksNone DEF Untold, AskOnce, Roomless
<1>10. stage \in [Peers -> Stage]
  BY <1>2 DEF Stage
<1> QED
  BY <1>1, <1>8, <1>9, <1>10 DEF SessionIInv

-----------------------------------------------------------------------------
(* Steps that leave clients, rooms, boards and descriptors alone.  Messages *)
(* may be taken from the front.                                            *)
Trims(sent, rest) ==
    \A p \in Peers : \/ rest[p] \in {sent[p], << >>}
                     \/ sent[p] # << >> /\ rest[p] = Tail(sent[p])

LEMMA TrimmedLast ==
    ASSUME NEW s, NEW t, LastOK(s, {}), Good(s), Trims(s.sent, t.sent),
           t.clients = s.clients, t.fds = s.fds, t.status = s.status
    PROVE  LastOK(t, {})
<1> SUFFICES ASSUME NEW p \in Peers
             PROVE  /\ \A n \in DOMAIN t.sent[p] :
                          t.sent[p][n].type \in LastWords => n = Len(t.sent[p])
                    /\ ToldLast(t, p) /\ t.status = "running" =>
                          \A i \in Slots :
                             t.clients[i].is_connected /\ PeerOf(t, i) = p => i \in {}
  BY DEF LastOK
<1>1. /\ \A n \in DOMAIN s.sent[p] : s.sent[p][n].type \in LastWords => n = Len(s.sent[p])
      /\ ToldLast(s, p) /\ s.status = "running" =>
            \A i \in Slots : s.clients[i].is_connected /\ PeerOf(s, i) = p => i \in {}
  BY DEF LastOK
<1>2. \A i \in Slots : PeerOf(t, i) = PeerOf(s, i)
  BY DEF PeerOf, SocketOf
<1>3. CASE t.sent[p] = s.sent[p]
  BY <1>1, <1>2, <1>3 DEF ToldLast
<1>4. CASE t.sent[p] = << >>
  BY <1>4 DEF ToldLast
<1>5. CASE s.sent[p] # << >> /\ t.sent[p] = Tail(s.sent[p])
  <2>1. s.sent[p] \in Seq(Message)
    BY DEF Good, TypedState
  <2>2. /\ DOMAIN s.sent[p] = 1 .. Len(s.sent[p]) /\ Len(s.sent[p]) \in Nat
        /\ DOMAIN t.sent[p] = 1 .. Len(s.sent[p]) - 1
        /\ Len(t.sent[p]) = Len(s.sent[p]) - 1
        /\ \A n \in 1 .. Len(s.sent[p]) - 1 : t.sent[p][n] = s.sent[p][n + 1]
    BY <1>5, <2>1, HeadTailProperties
  <2>3. \A n \in DOMAIN t.sent[p] : /\ n \in Int /\ n + 1 \in DOMAIN s.sent[p]
                                    /\ t.sent[p][n] = s.sent[p][n + 1]
    <3> SUFFICES ASSUME NEW n \in DOMAIN t.sent[p]
                 PROVE  /\ n \in Int /\ n + 1 \in DOMAIN s.sent[p]
                        /\ t.sent[p][n] = s.sent[p][n + 1]
      OBVIOUS
    <3>1. n \in 1 .. Len(s.sent[p]) - 1
      BY <2>2
    <3> QED
      BY <2>2, <3>1
  <2>4. ToldLast(t, p) => ToldLast(s, p)
    BY <2>3 DEF ToldLast
  <2>5. \A n \in DOMAIN t.sent[p] :
           t.sent[p][n].type \in LastWords => n = Len(t.sent[p])
    <3> SUFFICES ASSUME NEW n \in DOMAIN t.sent[p], t.sent[p][n].type \in LastWords
                 PROVE  n = Len(t.sent[p])
      OBVIOUS
    <3>1. n \in Int /\ n + 1 = Len(s.sent[p])
      BY <1>1, <2>3
    <3> QED
      BY <2>2, <3>1
  <2> QED
    BY <1>1, <1>2, <2>4, <2>5
<1> QED
  BY <1>3, <1>4, <1>5 DEF Trims

LEMMA WireSess ==
    ASSUME IInv, Sess(srv, NULL, {}), IInv',
           srv'.clients = srv.clients, srv'.rooms = srv.rooms, srv'.boards = srv.boards,
           srv'.fds = srv.fds, Trims(srv.sent, srv'.sent), srv'.status = srv.status
    PROVE  /\ Sess(srv', NULL, {})
           /\ \A j \in Slots : srv'.clients[j].is_connected =>
                 /\ srv.clients[j].is_connected /\ PeerOf(srv', j) = PeerOf(srv, j)
                 /\ srv'.clients[j].assigned_room_id = srv.clients[j].assigned_room_id
<1>1. Good(srv')
  BY DEF IInv
<1>2. SeatsOK(srv') /\ LastOK(srv', {})
  <2>1. SeatsOK(srv')
    BY SameSeats DEF Sess
  <2>2. LastOK(srv', {})
    BY TrimmedLast DEF Sess
  <2> QED
    BY <2>1, <2>2
<1>3. BoardsIn(srv', Board) /\ \A r \in Rooms : BoardFit(srv', r)
  BY RoomIsNotNull DEF Sess, BoardsIn, BoardFit
<1> QED
  BY <1>1, <1>2, <1>3 DEF Sess, PeerOf, SocketOf

(* select(), accept() failing and the end of the scan.                     *)
LEMMA LoopSession ==
    ASSUME SessionIInv, IInv', srv' = srv, backlog' = backlog, stage' = stage
    PROVE  SessionIInv'
<1>1. Sess(srv', NULL, {})
  BY DEF SessionIInv
<1>2. Untold' /\ AskOnce' /\ stage' \in [Peers -> Stage]
  BY DEF SessionIInv, Untold, AskOnce, Roomless, AsksIn, PeerOf, SocketOf
<1> QED
  BY <1>1, <1>2 DEF SessionIInv

(* accept() finds a slot for a connection that was told nothing yet, and   *)
(* the client it sets up there is in no room.                              *)
LEMMA AcceptSession ==
    ASSUME SessionIInv, IInv', Accept, stage' = stage
    PROVE  SessionIInv'
<1> DEFINE p == Head(backlog)
<1>0. IInv /\ Sess(srv, NULL, {}) /\ Untold /\ AskOnce
  BY DEF SessionIInv
<1>1. PICK fd \in FreeFds, i \in FreeSlots :
         srv' = [srv EXCEPT !.fds[fd] = p,
                            !.clients[i] = [FreeSlot EXCEPT !.socket_fd = fd,
                                                            !.is_connected = TRUE]]
  BY DEF Accept
<1> DEFINE client == [FreeSlot EXCEPT !.socket_fd = fd, !.is_connected = TRUE]
<1>2. backlog' = Tail(backlog) /\ phase = "accept"
  BY DEF Accept
<1>3. /\ fd \in Fds /\ srv.fds[fd] = NULL
      /\ i \in Slots /\ ~srv.clients[i].is_connected
  BY DEF FreeFds, FreeSlots
<1>4. /\ backlog \in Seq(Peers) /\ backlog # << >> /\ p \in Peers
      /\ p = backlog[1] /\ 1 \in DOMAIN backlog
  BY <1>0, <1>2 DEF IInv, QueueOK, LoopTypeOK
<1>5. /\ client.assigned_room_id = -1 /\ client.socket_fd = fd /\ client.is_connected
  BY <1>3 DEF FreeSlot
<1> HIDE DEF client, p
<1>6. /\ srv'.rooms = srv.rooms /\ srv'.boards = srv.boards /\ srv'.link = srv.link
      /\ srv'.inq = srv.inq /\ srv'.sent = srv.sent /\ srv'.status = srv.status
      /\ \A d \in Fds : srv'.fds[d] = IF d = fd THEN p ELSE srv.fds[d]
      /\ \A j \in Slots : srv'.clients[j] = IF j = i THEN client ELSE srv.clients[j]
  BY <1>0, <1>1, <1>3 DEF client, IInv, Good, TypedState
<1>7. ASSUME NEW j \in Slots, srv'.clients[j].is_connected
      PROVE  IF j = i
             THEN PeerOf(srv', j) = p /\ srv'.clients[j].assigned_room_id = -1
             ELSE /\ srv.clients[j].is_connected /\ PeerOf(srv', j) = PeerOf(srv, j)
                  /\ srv'.clients[j] = srv.clients[j]
  <2>1. CASE j = i
    BY <1>3, <1>5, <1>6, <2>1 DEF PeerOf, SocketOf
  <2>2. CASE j # i
    <3>1. srv.clients[j].is_connected /\ srv'.clients[j] = srv.clients[j]
      BY <1>6, <1>7, <2>2
    <3>2. IsOpen(srv, SocketOf(srv, j))
      BY <1>0, <3>1, PeersDiffer DEF IInv
    <3>3. PeerOf(srv', j) = PeerOf(srv, j)
      BY <1>3, <1>6, <3>1, <3>2 DEF IsOpen, PeerOf, SocketOf
    <3> QED
      BY <2>2, <3>1, <3>3
  <2> QED
    BY <2>1, <2>2
<1>8. SeatsOK(srv')
  <2>1. \A r \in Rooms : Assigned(srv', r) = Assigned(srv, r)
    BY <1>3, <1>5, <1>6, RoomIdsDiffer DEF Assigned
  <2>2. \A r \in Rooms : Bound(srv', r) = Bound(srv, r)
    BY <1>6 DEF Bound
  <2>3. ASSUME NEW r \in Rooms PROVE SeatsFit(srv', r)
    <3>1. SeatsFit(srv, r)
      BY <1>0 DEF Sess, SeatsOK
    <3> QED
      BY <1>3, <1>6, <3>1 DEF SeatsFit
  <2> QED
    BY <1>0, <2>1, <2>2, <2>3 DEF Sess, SeatsOK
<1>9. BoardsIn(srv', Board) /\ \A r \in Rooms : BoardFit(srv', r)
  BY <1>0, <1>6, RoomIsNotNull DEF Sess, BoardsIn, BoardFit
<1>10. LastOK(srv', {})
  <2>1. LastOK(srv, {})
    BY <1>0 DEF Sess
  <2>2. \A q \in Peers : ToldLast(srv', q) = ToldLast(srv, q)
    BY <1>6 DEF ToldLast
  <2>3. srv.sent[p] = << >>
    BY <1>0, <1>4 DEF Untold
  <2>4. ~ToldLast(srv, p)
    BY <2>3 DEF ToldLast
  <2>5. ASSUME NEW q \in Peers, ToldLast(srv', q), srv'.status = "running",
               NEW j \in Slots, srv'.clients[j].is_connected, PeerOf(srv', j) = q
        PROVE  FALSE
    <3>1. ToldLast(srv, q) /\ j # i
      BY <1>7, <2>2, <2>4, <2>5
    <3>2. srv.clients[j].is_connected /\ PeerOf(srv, j) = q
      BY <1>7, <2>5, <3>1
    <3> QED
      BY <1>6, <2>1, <2>5, <3>1, <3>2 DEF LastOK
  <2> QED
    BY <1>6, <2>1, <2>5 DEF LastOK
<1>11. Sess(srv', NULL, {})
  BY <1>8, <1>9, <1>10 DEF Sess, IInv
<1>12. Untold'
  <2>1. \A n \in DOMAIN Tail(backlog) :
           n + 1 \in DOMAIN backlog /\ Tail(backlog)[n] = backlog[n + 1]
    BY <1>4
  <2> QED
    BY <1>0, <1>2, <1>6, <2>1 DEF Untold
<1>13. AskOnce'
  <2>1. \A j \in Slots : srv'.clients[j].is_connected =>
           \/ srv'.clients[j].assigned_room_id = -1
           \/ /\ srv.clients[j].is_connected /\ PeerOf(srv', j) = PeerOf(srv, j)
              /\ srv'.clients[j].assigned_room_id = srv.clients[j].assigned_room_id
    BY <1>7
  <2> QED
    BY <1>0, <1>6, <2>1, AskOnceKept
<1> QED
  BY <1>11, <1>12, <1>13 DEF SessionIInv


(* No slot is left: the connection is closed before any client has it.     *)
LEMMA RejectSession ==
    ASSUME SessionIInv, IInv', Reject, stage' = stage
    PROVE  SessionIInv'
<1>0. IInv /\ Sess(srv, NULL, {}) /\ Untold /\ AskOnce
  BY DEF SessionIInv
<1>1. /\ srv' = [srv EXCEPT !.link[Head(backlog)] = "closed",
                            !.inq[Head(backlog)] = << >>]
      /\ backlog' = Tail(backlog) /\ phase = "accept"
  BY DEF Reject
<1>2. backlog \in Seq(Peers) /\ backlog # << >> /\ Head(backlog) \in Peers
  BY <1>0, <1>1 DEF IInv, QueueOK, LoopTypeOK
<1>3. /\ srv'.clients = srv.clients /\ srv'.rooms = srv.rooms /\ srv'.boards = srv.boards
      /\ srv'.fds = srv.fds /\ srv'.sent = srv.sent /\ srv'.status = srv.status
      /\ \A p \in Peers : srv'.link[p] = "idle" => srv.link[p] = "idle"
      /\ \A p \in Peers : srv'.inq[p] \in {srv.inq[p], << >>}
  BY <1>0, <1>1, <1>2 DEF IInv, Good, TypedState
<1>4. /\ Sess(srv', NULL, {})
      /\ \A j \in Slots : srv'.clients[j].is_connected =>
            /\ srv.clients[j].is_connected /\ PeerOf(srv', j) = PeerOf(srv, j)
            /\ srv'.clients[j].assigned_room_id = srv.clients[j].assigned_room_id
  BY <1>0, <1>3, WireSess DEF Trims
<1>5. Untold'
  <2>1. \A n \in DOMAIN Tail(backlog) :
           n + 1 \in DOMAIN backlog /\ Tail(backlog)[n] = backlog[n + 1]
    BY <1>2
  <2> QED
    BY <1>0, <1>1, <1>3, <2>1 DEF Untold
<1>6. AskOnce'
  BY <1>0, <1>3, <1>4, AskOnceKept
<1> QED
  BY <1>4, <1>5, <1>6 DEF SessionIInv

(* A client that asks for a room has none.                                 *)
LEMMA AskerRoomless ==
    ASSUME IInv, AskOnce, NEW i \in Slots, srv.clients[i].is_connected, AsksForRoom(i)
    PROVE  srv.clients[i].assigned_room_id = -1
<1>1. PeerOf(srv, i) \in Peers
  BY PeersDiffer DEF IInv
<1>2. Inbox(i) \in Seq(Requests)
  BY <1>1 DEF IInv, Good, TypedState, Inbox
<1>3. 1 \in AsksIn(Inbox(i))
  BY <1>2, AsksTail DEF AsksForRoom
<1>4. Roomless(PeerOf(srv, i))
  BY <1>1, <1>3 DEF AskOnce, Inbox
<1> QED
  BY <1>4 DEF Roomless

(* A message is handled or a connection has ended.                         *)
LEMMA HandleSession ==
    ASSUME SessionIInv, IInv', NEW i \in Slots, Handle(i), stage' = stage
    PROVE  SessionIInv'
<1>0. IInv /\ Sess(srv, NULL, {}) /\ Untold /\ AskOnce
  BY DEF SessionIInv
<1>1. Due(i) /\ srv.clients[i].is_connected /\ backlog' = backlog
  BY DEF Handle, HandleEof, HandleCreateRoom, HandleCreateRoomFull, HandleJoinRoom,
     HandleSubmitBoard, HandleShoot, HandleDisconnect, HandleOther, Receives, Due, Awaiting,
     Scanned
<1>3. AsksForRoom(i) => srv.clients[i].assigned_room_id = -1
  BY <1>0, <1>1, AskerRoomless
<1>4. \E s, t, A : Outcome(i, s, t, A)
  BY <1>0, <1>3, HandleOutcome
<1>5. PICK s, t, A : Outcome(i, s, t, A)
  BY <1>4, Zenon
<1>6. Sess(srv', NULL, {})
  BY <1>0, <1>5, OutcomeSess
<1>7. Answers(i)
  BY <1>0, <1>5, OutcomeAnswers
<1>8. Untold'
  <2>1. \A fd \in Fds, p \in Peers : srv.fds[fd] = p =>
           /\ srv.link[p] # "idle"
           /\ \A n \in DOMAIN backlog : backlog[n] # p
    BY <1>0, ServerAssumption DEF IInv, Good, PeersDistinct, QueueOK
  <2> QED
    BY <1>0, <1>1, <1>7, <2>1 DEF Untold, Answers
<1>9. AskOnce'
  <2>1. \A j \in Slots : srv'.clients[j].is_connected =>
           /\ srv.clients[j].is_connected /\ PeerOf(srv', j) = PeerOf(srv, j)
           /\ \/ srv'.clients[j].assigned_room_id = srv.clients[j].assigned_room_id
              \/ /\ AsksForRoom(j)
                 /\ srv'.inq[PeerOf(srv, j)] \in {Tail(srv.inq[PeerOf(srv, j)]), << >>}
    BY <1>7 DEF Answers
  <2>2. \A p \in Peers :
           \/ srv'.inq[p] \in {srv.inq[p], << >>}
           \/ srv.inq[p] # << >> /\ srv'.inq[p] = Tail(srv.inq[p])
    BY <1>7 DEF Answers
  <2> QED
    BY <1>0, <2>1, <2>2, AskOnceKept
<1>10. stage' \in [Peers -> Stage]
  BY DEF SessionIInv
<1> QED
  BY <1>6, <1>8, <1>9, <1>10 DEF SessionIInv

-----------------------------------------------------------------------------
(* The peers.                                                              *)
LEMMA ConnectSession ==
    ASSUME SessionIInv, IInv', NEW p \in Peers, ClientConnects(p)
    PROVE  SessionIInv'
<1>0. IInv /\ Sess(srv, NULL, {}) /\ Untold /\ AskOnce
  BY DEF SessionIInv
<1>1. /\ srv.link[p] = "idle" /\ srv' = [srv EXCEPT !.link[p] = "open"]
      /\ backlog' = Append(backlog, p) /\ stage' = stage
  BY DEF ClientConnects, PeerConnect
<1>2. /\ srv'.clients = srv.clients /\ srv'.rooms = srv.rooms /\ srv'.boards = srv.boards
      /\ srv'.fds = srv.fds /\ srv'.sent = srv.sent /\ srv'.status = srv.status
      /\ srv'.inq = srv.inq
      /\ \A q \in Peers : srv'.link[q] = "idle" => srv.link[q] = "idle"
  BY <1>0, <1>1 DEF IInv, Good, TypedState
<1>3. /\ Sess(srv', NULL, {})
      /\ \A j \in Slots : srv'.clients[j].is_connected =>
            /\ srv.clients[j].is_connected /\ PeerOf(srv', j) = PeerOf(srv, j)
            /\ srv'.clients[j].assigned_room_id = srv.clients[j].assigned_room_id
  BY <1>0, <1>2, WireSess DEF Trims
<1>4. Untold'
  <2>1. backlog \in Seq(Peers)
    BY <1>0 DEF IInv, LoopTypeOK
  <2>2. \A n \in DOMAIN Append(backlog, p) :
           \/ n \in DOMAIN backlog /\ Append(backlog, p)[n] = backlog[n]
           \/ Append(backlog, p)[n] = p
    BY <2>1, AppendProperties
  <2> QED
    BY <1>0, <1>1, <1>2, <2>2 DEF Untold
<1>5. AskOnce'
  BY <1>0, <1>1, <1>2, <1>3, AskOnceKept
<1> QED
  BY <1>1, <1>3, <1>4, <1>5 DEF SessionIInv

(* A peer reads what it was sent, or leaves.                               *)
LEMMA ReadSession ==
    ASSUME SessionIInv, IInv',
           NEW link, NEW sent, srv' = [srv EXCEPT !.link = link, !.sent = sent],
           \A q \in Peers : link[q] = "idle" => srv.link[q] = "idle",
           Trims(srv.sent, sent), backlog' = backlog, stage' \in [Peers -> Stage],
           \A q \in Peers : stage'[q] # stage[q] => stage'[q] = "left"
    PROVE  SessionIInv'
<1>0. IInv /\ Sess(srv, NULL, {}) /\ Untold /\ AskOnce /\ stage \in [Peers -> Stage]
  BY DEF SessionIInv
<1>1. /\ srv'.clients = srv.clients /\ srv'.rooms = srv.rooms /\ srv'.boards = srv.boards
      /\ srv'.fds = srv.fds /\ srv'.sent = sent /\ srv'.status = srv.status
      /\ srv'.inq = srv.inq /\ srv'.link = link
  BY <1>0 DEF IInv, Good, TypedState
<1>2. /\ Sess(srv', NULL, {})
      /\ \A j \in Slots : srv'.clients[j].is_connected =>
            /\ srv.clients[j].is_connected /\ PeerOf(srv', j) = PeerOf(srv, j)
            /\ srv'.clients[j].assigned_room_id = srv.clients[j].assigned_room_id
  BY <1>0, <1>1, WireSess
<1>3. Untold'
  <2>1. \A q \in Peers : srv.sent[q] = << >> => srv'.sent[q] = << >>
    BY <1>1 DEF Trims
  <2> QED
    BY <1>0, <1>1, <2>1 DEF Untold
<1>4. \A q \in Peers : stage'[q] # stage[q] => stage'[q] # "connected"
  OBVIOUS
<1>5. AskOnce'
  BY <1>0, <1>1, <1>2, <1>4, AskOnceKept
<1> QED
  BY <1>2, <1>3, <1>5 DEF SessionIInv

LEMMA CloseSession ==
    ASSUME SessionIInv, IInv', NEW p \in Peers, ClientCloses(p)
    PROVE  SessionIInv'
<1>0. IInv /\ stage \in [Peers -> Stage]
  BY DEF SessionIInv
<1>1. PICK how \in Closings : srv' = [srv EXCEPT !.link[p] = how]
  BY DEF ClientCloses, PeerClose
<1> DEFINE link == [srv.link EXCEPT ![p] = how]
<1>2. /\ backlog' = backlog /\ stage' = [stage EXCEPT ![p] = "left"]
      /\ how # "idle"
  BY ServerAssumption DEF ClientCloses, PeerClose
<1>3. /\ srv' = [srv EXCEPT !.link = link, !.sent = srv.sent]
      /\ \A q \in Peers : link[q] = "idle" => srv.link[q] = "idle"
  BY <1>0, <1>1, <1>2 DEF IInv, Good, TypedState
<1>4. stage' \in [Peers -> Stage] /\ \A q \in Peers : stage'[q] # stage[q] => stage'[q] = "left"
  BY <1>0, <1>2 DEF Stage
<1>5. Trims(srv.sent, srv.sent)
  BY DEF Trims
<1>6. backlog' = backlog
  BY <1>2
<1> HIDE DEF link
<1> QED
  BY <1>3, <1>4, <1>5, <1>6, ReadSession

(* A peer asks for a room while it is "connected", and only then.          *)
LEMMA RequestSession ==
    ASSUME SessionIInv, IInv', NEW p \in Peers, NEW m \in Requests,
           srv' = [srv EXCEPT !.inq[p] = Append(@, m)], backlog' = backlog,
           stage' = [stage EXCEPT ![p] = StageAfter(@, m.type)],
           StageAfter(stage[p], m.type) # "never"
    PROVE  SessionIInv'
<1>0. IInv /\ Sess(srv, NULL, {}) /\ Untold /\ AskOnce /\ stage \in [Peers -> Stage]
  BY DEF SessionIInv
<1> DEFINE q == srv.inq[p]
<1>1. /\ backlog' = backlog /\ srv' = [srv EXCEPT !.inq[p] = Append(q, m)]
      /\ stage' = [stage EXCEPT ![p] = StageAfter(stage[p], m.type)]
      /\ StageAfter(stage[p], m.type) # "never"
  OBVIOUS
<1>2. /\ srv'.clients = srv.clients /\ srv'.rooms = srv.rooms /\ srv'.boards = srv.boards
      /\ srv'.fds = srv.fds /\ srv'.sent = srv.sent /\ srv'.status = srv.status
      /\ srv'.link = srv.link
      /\ srv'.inq[p] = Append(q, m)
      /\ \A o \in Peers : o # p => srv'.inq[o] = srv.inq[o]
      /\ q \in Seq(Requests)
  BY <1>0, <1>1 DEF IInv, Good, TypedState
<1>3. /\ Sess(srv', NULL, {})
      /\ \A j \in Slots : srv'.clients[j].is_connected =>
            /\ srv.clients[j].is_connected /\ PeerOf(srv', j) = PeerOf(srv, j)
            /\ srv'.clients[j].assigned_room_id = srv.clients[j].assigned_room_id
  BY <1>0, <1>2, WireSess DEF Trims
<1>4. Untold'
  BY <1>0, <1>1, <1>2 DEF Untold
<1>5. /\ StageAfter(stage[p], m.type) \in Stage \ {"connected"}
      /\ m.type \in Asking => stage[p] = "connected"
  BY <1>1 DEF StageAfter, Stage, Asking
<1>6. /\ stage' \in [Peers -> Stage] /\ stage'[p] # "connected"
      /\ \A o \in Peers : o # p => stage'[o] = stage[o]
  BY <1>0, <1>1, <1>5
<1> HIDE DEF q
<1>7. AsksIn(Append(q, m)) =
         IF m.type \in Asking THEN AsksIn(q) \cup {Len(q) + 1} ELSE AsksIn(q)
  <2>1. /\ Len(q) \in Nat /\ DOMAIN q = 1 .. Len(q)
        /\ DOMAIN Append(q, m) = 1 .. Len(q) + 1
        /\ \A n \in 1 .. Len(q) : Append(q, m)[n] = q[n]
        /\ Append(q, m)[Len(q) + 1] = m
    BY <1>2, AppendProperties
  <2> QED
    BY <2>1 DEF AsksIn
<1>8. \A o \in Peers : Roomless(o) => Roomless(o)'
  BY <1>3 DEF Roomless
<1>9. ASSUME NEW o \in Peers
      PROVE  /\ \A k, n \in AsksIn(srv'.inq[o]) : k = n
             /\ stage'[o] = "connected" => AsksIn(srv'.inq[o]) = {}
             /\ stage'[o] = "connected" \/ AsksIn(srv'.inq[o]) # {} => Roomless(o)
  <2>0. /\ \A k, n \in AsksIn(srv.inq[o]) : k = n
        /\ stage[o] = "connected" => AsksIn(srv.inq[o]) = {}
        /\ stage[o] = "connected" \/ AsksIn(srv.inq[o]) # {} => Roomless(o)
    BY <1>0 DEF AskOnce
  <2>1. CASE o # p
    <3>1. srv'.inq[o] = srv.inq[o] /\ stage'[o] = stage[o]
      BY <1>2, <1>6, <2>1
    <3> QED
      BY <2>0, <3>1
  <2>2. CASE o = p /\ m.type \notin Asking
    <3>1. AsksIn(srv'.inq[o]) = AsksIn(srv.inq[o])
      BY <1>2, <1>7, <2>2 DEF q
    <3>2. stage'[o] # "connected"
      BY <1>6, <2>2
    <3> QED
      BY <2>0, <3>1, <3>2
  <2>3. CASE o = p /\ m.type \in Asking
    <3>1. AsksIn(q) = {} /\ Roomless(p)
      BY <1>0, <1>5, <2>3 DEF AskOnce, q
    <3>2. AsksIn(srv'.inq[p]) = {Len(q) + 1}
      <4>1. AsksIn(Append(q, m)) = AsksIn(q) \cup {Len(q) + 1}
        BY <1>7, <2>3
      <4> QED
        BY <1>2, <3>1, <4>1
    <3> QED
      BY <1>6, <2>3, <3>1, <3>2
  <2> QED
    BY <2>1, <2>2, <2>3
<1>10. AskOnce'
  <2>1. \A o \in Peers :
           /\ \A k, n \in AsksIn(srv'.inq[o]) : k = n
           /\ stage'[o] = "connected" => AsksIn(srv'.inq[o]) = {}
           /\ stage'[o] = "connected" \/ AsksIn(srv'.inq[o]) # {} => Roomless(o)'
    BY <1>8, <1>9
  <2> QED
    BY <2>1 DEF AskOnce, AsksIn
<1> QED
  BY <1>3, <1>4, <1>6, <1>10 DEF SessionIInv

LEMMA SendSession ==
    ASSUME SessionIInv, IInv', NEW p \in Peers, NEW m \in Requests, ClientSends(p, m)
    PROVE  SessionIInv'
BY RequestSession DEF ClientSends, PeerSend

-----------------------------------------------------------------------------
LEMMA SessionIsNext == [SessionNext]_sessionVars => [Next]_vars
BY DEF SessionNext, sessionVars, vars, Next, PeerStep, ClientConnects, ClientSends, ClientCloses

LEMMA SessionNextIInv == SessionIInv /\ [SessionNext]_sessionVars => SessionIInv'
<1> SUFFICES ASSUME SessionIInv, [SessionNext]_sessionVars PROVE SessionIInv'
  OBVIOUS
<1>0. IInv'
  BY SessionIsNext, NextIInv DEF SessionIInv
<1>1. CASE Accept /\ stage' = stage
  BY <1>0, <1>1, AcceptSession
<1>2. CASE Reject /\ stage' = stage
  BY <1>0, <1>2, RejectSession
<1>3. CASE (\E i \in Slots : Handle(i)) /\ stage' = stage
  BY <1>0, <1>3, HandleSession
<1>4. CASE (Select \/ AcceptFails \/ EndScan) /\ stage' = stage
  BY <1>0, <1>4, LoopSession DEF Select, AcceptFails, EndScan
<1>5. CASE UNCHANGED sessionVars
  BY <1>0, <1>5, LoopSession DEF sessionVars
<1>6. CASE \E p \in Peers :
              \/ ClientConnects(p)
              \/ \E m \in Requests : ClientSends(p, m)
              \/ ClientCloses(p)
  BY <1>0, <1>6, ConnectSession, SendSession, CloseSession
<1> QED
  BY <1>1, <1>2, <1>3, <1>4, <1>5, <1>6 DEF SessionNext, ServerStep

(* The invariant holds of every state the server reaches with peers that   *)
(* keep the order of requests of client.c.                                 *)
THEOREM SessionInvariance == SessionSpec => []SessionIInv
<1> QED
  BY SessionInitIInv, SessionNextIInv, PTL DEF SessionSpec

(* The seats of a game and the clients, in every state of the invariant.   *)
LEMMA SeatsMatch == SessionIInv => SeatsMatchClients
<1> SUFFICES ASSUME SessionIInv, NEW r \in Rooms,
                    srv.rooms[r].is_active, srv.rooms[r].is_game_started,
                    NEW i \in Slots, NEW pl \in Players
             PROVE  srv.rooms[r].connected_players[pl] = i <=>
                       /\ srv.clients[i].is_connected
                       /\ srv.clients[i].assigned_room_id = srv.rooms[r].room_id
                       /\ srv.clients[i].assigned_player_id = pl
  BY DEF SeatsMatchClients
<1>1. Good(srv) /\ SeatsOK(srv)
  BY DEF SessionIInv, Sess
<1>2. srv.rooms[r].room_id = RoomId(r)
  BY <1>1 DEF SeatsOK, SeatsFit
<1> DEFINE seats == srv.rooms[r].connected_players
<1>3. /\ srv.clients[seats[0]].assigned_player_id = 0
      /\ srv.clients[seats[1]].assigned_player_id = 1
      /\ Assigned(srv, r) = {seats[0], seats[1]}
  BY <1>1, PlayingSeats
<1>4. seats[pl] = i => i \in Assigned(srv, r) /\ srv.clients[i].assigned_player_id = pl
  BY <1>3 DEF Players, ROOM_SIZE
<1>5. i \in Assigned(srv, r) /\ srv.clients[i].assigned_player_id = pl => seats[pl] = i
  BY <1>3 DEF Players, ROOM_SIZE
<1>6. i \in Assigned(srv, r) <=>
         /\ srv.clients[i].is_connected
         /\ srv.clients[i].assigned_room_id = srv.rooms[r].room_id
  BY <1>2 DEF Assigned
<1> QED
  BY <1>4, <1>5, <1>6

(* create_room, join_room and remove_client keep connected_players and the *)
(* assigned ids of the clients each other's inverse while a game is on, so *)
(* the opponent found through either is the same client.                   *)
THEOREM SeatsAndClientsMatch == SessionSpec => []SeatsMatchClients
<1> QED
  BY SeatsMatch, SessionInvariance, PTL

(* end_game_and_disconnect, or remove_client when the shooter cannot be    *)
(* answered, ends the game with the shot that sinks the last ship, and no  *)
(* game starts on a board that was played on.                              *)
THEOREM DecidedGamesStop == SessionSpec => []DecidedGameStops
<1>1. SessionIInv => DecidedGameStops
  BY RoomIsNotNull DEF SessionIInv, Sess, BoardFit, DecidedGameStops
<1> QED
  BY <1>1, SessionInvariance, PTL

(* A client that was sent GAME_OVER or OPPONENT_LEFT is sent nothing more: *)
(* in the same step it loses its slot, and no later client of that slot    *)
(* has the same connection.                                                *)
THEOREM LastWordsAreLast == SessionSpec => []LastWordOnce
<1>1. SessionIInv => LastWordOnce
  BY DEF SessionIInv, Sess, LastOK, LastWords, LastWordOnce
<1> QED
  BY <1>1, SessionInvariance, PTL


-----------------------------------------------------------------------------
(* The rooms as Match.tla sees them.  Whatever a call does to a room, a    *)
(* game that is on goes on with the same turn or is over, and no game      *)
(* begins: only a few calls are there to do more.                          *)
OnIn(s, q) == s.rooms[q].is_active /\ s.rooms[q].is_game_started

Goes(s, t, q) ==
    OnIn(t, q) => OnIn(s, q) /\ t.rooms[q].current_turn = s.rooms[q].current_turn

Carried(s, t) == \A q \in Rooms : Goes(s, t, q)

LEMMA CarriedTrans ==
    ASSUME NEW s, NEW t, NEW u, Carried(s, t), Carried(t, u)
    PROVE  Carried(s, u)
BY DEF Carried, Goes

LEMMA SameRoomsCarried ==
    ASSUME NEW s, NEW t, t.rooms = s.rooms
    PROVE  Carried(s, t)
BY DEF Carried, Goes, OnIn

(* remove_client ends a game of the client's room.                         *)
LEMMA RemoveClientCarried ==
    ASSUME NEW s, Good(s), NEW i \in Slots
    PROVE  LET r == RoomOf(s, i)
               t == RemoveClient(s, i)
           IN  Carried(s, t) /\ (r # NULL => ~OnIn(t, r))
<1> DEFINE r == RoomOf(s, i)
           t == RemoveClient(s, i)
<1> SUFFICES Carried(s, t) /\ (r # NULL => ~OnIn(t, r))
  OBVIOUS
<1>1. /\ r # NULL => r \in Rooms
      /\ IF r # NULL /\ s.rooms[r].is_game_started
         THEN Abandons(s, t, i, r) ELSE Quits(s, t, i)
  BY RemoveClientEffect
<1> HIDE DEF r, t
<1>2. CASE r # NULL /\ s.rooms[r].is_game_started
  BY <1>1, <1>2 DEF Abandons, Carried, Goes, OnIn
<1>3. CASE ~(r # NULL /\ s.rooms[r].is_game_started)
  <2>1. PICK left : /\ IF r = NULL THEN left = s ELSE Leaves(s, left, i, r)
                    /\ Frees(left, t, i)
    BY <1>1, <1>3, Zenon DEF Quits, r
  <2>2. CASE r = NULL
    BY <2>1, <2>2, SameRoomsCarried DEF Frees
  <2>3. CASE r # NULL
    <3>1. /\ \A q \in Rooms : q # r => left.rooms[q] = s.rooms[q]
          /\ ~left.rooms[r].is_game_started /\ t.rooms = left.rooms
      BY <2>1, <2>3 DEF Leaves, Frees
    <3> QED
      BY <3>1 DEF Carried, Goes, OnIn
  <2> QED
    BY <2>2, <2>3
<1> QED
  BY <1>2, <1>3

LEMMA SendCarried ==
    ASSUME NEW s, Good(s), NEW fd, NEW m \in Message
    PROVE  LET t == Send(s, fd, m)
           IN  Good(t) /\ t.rooms = s.rooms /\ Carried(s, t)
BY SendEffect, SameRoomsCarried DEF Sends

LEMMA SendOrRemoveCarried ==
    ASSUME NEW s, Good(s), NEW i \in Slots, NEW m \in Message
    PROVE  LET t == SendOrRemove(s, i, m)
               r == RoomOf(s, i)
           IN  /\ Good(t) /\ Follows(s, t) /\ Carried(s, t)
               /\ IF SendFails(s, SocketOf(s, i)) THEN r # NULL => ~OnIn(t, r)
                  ELSE t.rooms = s.rooms /\ t.clients = s.clients
<1> DEFINE fd    == SocketOf(s, i)
           after == Send(s, fd, m)
           t     == SendOrRemove(s, i, m)
           r     == RoomOf(s, i)
<1>1. /\ Good(t) /\ Follows(s, t)
      /\ Good(after) /\ Sends(s, after, fd, m)
      /\ t = IF SendFails(s, fd) THEN RemoveClient(after, i) ELSE after
  BY SendOrRemoveEffect
<1> HIDE DEF after, t
<1>2. Carried(s, after)
  BY <1>1, SameRoomsCarried DEF Sends
<1>3. RoomOf(after, i) = r
  BY <1>1 DEF Sends, RoomOf, FindRoom
<1> HIDE DEF r
<1>4. CASE SendFails(s, fd)
  <2>1. t = RemoveClient(after, i)
    BY <1>1, <1>4
  <2>2. Carried(after, t) /\ (r # NULL => ~OnIn(t, r))
    BY <1>1, <1>3, <2>1, RemoveClientCarried
  <2>3. Carried(s, t)
    BY <1>2, <2>2, CarriedTrans
  <2> QED
    BY <1>1, <1>4, <2>2, <2>3 DEF t, r
<1>5. CASE ~SendFails(s, fd)
  BY <1>1, <1>2, <1>5 DEF Sends, t
<1> QED
  BY <1>4, <1>5

LEMMA SetsGameRooms ==
    ASSUME NEW s, Good(s), NEW r \in Rooms, NEW on, NEW turn,
           NEW t, SetsGame(s, t, r, on, turn)
    PROVE  /\ \A q \in Rooms : q # r => t.rooms[q] = s.rooms[q]
           /\ t.rooms[r].is_active = s.rooms[r].is_active
           /\ t.rooms[r].is_game_started = on
           /\ t.rooms[r].current_turn = turn
BY DEF SetsGame, Good, TypedState, Room

LEMMA EndGameCarried ==
    ASSUME NEW s, Good(s), NEW r \in Rooms, NEW i \in Slots
    PROVE  Carried(s, EndGame(s, r, i)) /\ ~OnIn(EndGame(s, r, i), r)
<1> DEFINE winner == s.clients[i].assigned_player_id
           losers == Losers(s, r, winner)
           t      == EndGame(s, r, i)
<1> SUFFICES Carried(s, t) /\ ~OnIn(t, r)
  OBVIOUS
<1>1. PICK won, told, over, rest : Ends(s, t, r, i, won, told, over, rest)
  BY EndGameEffect
<1> HIDE DEF t
<1>2. /\ told.rooms = s.rooms /\ Good(told) /\ Good(over)
      /\ SetsGame(told, over, r, FALSE, told.rooms[r].current_turn)
      /\ losers # {} => Min(losers) \in losers
      /\ rest = IF losers = {} THEN over ELSE RemoveClient(over, Min(losers))
      /\ Good(rest) /\ t = RemoveClient(rest, i)
  BY <1>1 DEF Ends, Sends
<1>3. Carried(s, over) /\ ~OnIn(over, r)
  <2> DEFINE off  == FALSE
             turn == told.rooms[r].current_turn
  <2>1. SetsGame(told, over, r, off, turn)
    BY <1>2
  <2> HIDE DEF off, turn
  <2>2. /\ \A q \in Rooms : q # r => over.rooms[q] = told.rooms[q]
        /\ over.rooms[r].is_game_started = off
    BY <1>2, <2>1, SetsGameRooms
  <2> QED
    BY <1>2, <2>2 DEF off, Carried, Goes, OnIn
<1>4. losers \subseteq Slots
  BY DEF Losers
<1> HIDE DEF losers
<1>5. Carried(over, rest)
  BY <1>2, <1>4, RemoveClientCarried, SameRoomsCarried
<1>6. Carried(rest, t)
  BY <1>2, RemoveClientCarried
<1>7. Carried(over, t)
  BY <1>5, <1>6, CarriedTrans
<1> QED
  BY <1>3, <1>7, CarriedTrans DEF Carried, Goes

LEMMA TurnMessagesRooms ==
    ASSUME NEW s, Good(s), NEW r, NEW pl
    PROVE  SendTurnMessages(s, r, pl).rooms = s.rooms
<1> DEFINE u == SendSeat(s, r, pl, Notice("YOUR_TURN"))
           v == SendSeat(u, r, 1 - pl, Notice("WAIT_TURN"))
<1>1. SendTurnMessages(s, r, pl) = IF ~BothSeated(s, r) THEN s ELSE v
  BY DEF SendTurnMessages
<1>2. Good(u) /\ u.rooms = s.rooms
  BY SendSeatEffect, NoticeIsMessage DEF Sends
<1> HIDE DEF u
<1>3. v.rooms = u.rooms
  BY <1>2, SendSeatEffect, NoticeIsMessage DEF Sends
<1> QED
  BY <1>1, <1>2, <1>3

(* start_game_when_ready: a game that begins begins with player 0's turn.  *)
LEMMA StartGameRooms ==
    ASSUME NEW s, Good(s), NEW r \in Rooms, ~OnIn(s, r)
    PROVE  LET t == StartGame(s, r)
           IN  /\ \A q \in Rooms : q # r => t.rooms[q] = s.rooms[q]
               /\ OnIn(t, r) => t.rooms[r].current_turn = 0
<1> DEFINE t == StartGame(s, r)
<1> SUFFICES /\ \A q \in Rooms : q # r => t.rooms[q] = s.rooms[q]
             /\ OnIn(t, r) => t.rooms[r].current_turn = 0
  OBVIOUS
<1>1. CASE BothSeated(s, r)
  <2>1. PICK u, told, on : Starts(s, t, r, u, told, on)
    BY <1>1, StartGameEffect
  <2> HIDE DEF t
  <2>2. /\ told.rooms = s.rooms /\ Good(told) /\ Good(on)
        /\ SetsGame(told, on, r, TRUE, 0) /\ t = SendTurnMessages(on, r, 0)
    BY <2>1 DEF Starts, Sends
  <2>3. t.rooms = on.rooms
    BY <2>2, TurnMessagesRooms
  <2> DEFINE begun == TRUE
  <2>4. SetsGame(told, on, r, begun, 0)
    BY <2>2
  <2> HIDE DEF begun
  <2>5. /\ \A q \in Rooms : q # r => on.rooms[q] = told.rooms[q]
        /\ on.rooms[r].current_turn = 0
    BY <2>2, <2>4, SetsGameRooms
  <2> QED
    BY <2>2, <2>3, <2>5
<1>2. CASE ~BothSeated(s, r)
  <2>1. t = s
    BY <1>2 DEF StartGame
  <2> HIDE DEF t
  <2> QED
    BY <2>1
<1> QED
  BY <1>1, <1>2

(* MSG_SHOOT, after the answer: the game is over when every ship of the    *)
(* opponent is sunk, and goes on by the rule of turns when not.            *)
LEMMA AfterShotRooms ==
    ASSUME NEW s, Good(s), NEW i \in Slots, NEW r \in Rooms, NEW c,
           NEW result \in ShotResult, InBounds(c[1], c[2]),
           s.clients[i].assigned_player_id \in Players, BothSeated(s, r)
    PROVE  LET pl == s.clients[i].assigned_player_id
               t  == AfterShot(s, i, r, c, result)
           IN  /\ \A q \in Rooms : q # r => Goes(s, t, q)
               /\ OnIn(t, r) =>
                     /\ OnIn(s, r) /\ ~AllShipsSunk(s.boards[r][1 - pl])
                     /\ t.rooms[r].current_turn = IF result = "MISS" THEN 1 - pl ELSE pl
<1> DEFINE pl   == s.clients[i].assigned_player_id
           told == SendSeat(s, r, 1 - pl, Report("INCOMING_SHOT", c, result))
           turn == IF result = "MISS" THEN 1 - pl ELSE pl
           on   == [told EXCEPT !.rooms[r].current_turn = turn]
           sunk == AllShipsSunk(s.boards[r][1 - pl])
           t    == AfterShot(s, i, r, c, result)
<1> SUFFICES /\ \A q \in Rooms : q # r => Goes(s, t, q)
             /\ OnIn(t, r) => OnIn(s, r) /\ ~sunk /\ t.rooms[r].current_turn = turn
  OBVIOUS
<1>1. 1 - pl \in Players /\ turn \in Players
  BY DEF Players, ROOM_SIZE
<1>2. t = IF sunk THEN EndGame(told, r, i) ELSE SendTurnMessages(on, r, turn)
  BY <1>1 DEF AfterShot, BothSeated
<1>3. Good(told) /\ told.rooms = s.rooms
  BY SendSeatEffect, ReportIsMessage DEF Sends
<1> HIDE DEF told, turn, sunk, t
<1>4. CASE sunk
  <2>1. Carried(told, t) /\ ~OnIn(t, r)
    BY <1>2, <1>3, <1>4, EndGameCarried
  <2> QED
    BY <1>3, <2>1 DEF Carried, Goes, OnIn
<1>5. CASE ~sunk
  <2>1. told.rooms[r] \in Room
    BY <1>3 DEF Good, TypedState
  <2>2. /\ told.rooms[r].is_game_started \in BOOLEAN
        /\ on = [told EXCEPT !.rooms[r] = [told.rooms[r] EXCEPT
                      !.is_game_started = told.rooms[r].is_game_started,
                      !.current_turn = turn]]
    BY <1>3, <2>1 DEF Good, TypedState, Room
  <2> DEFINE going == told.rooms[r].is_game_started
  <2>3. Good(on) /\ SetsGame(told, on, r, going, turn)
    <3>1. BothSeated(told, r)
      BY <1>3 DEF BothSeated
    <3> HIDE DEF on
    <3> QED
      BY <1>1, <1>3, <2>2, <3>1, GameFlagGood, SetGameEffect
  <2> HIDE DEF on
  <2>4. t.rooms = on.rooms
    BY <1>2, <1>5, <2>3, TurnMessagesRooms
  <2>5. going = s.rooms[r].is_game_started
    BY <1>3
  <2> HIDE DEF going
  <2>6. /\ \A q \in Rooms : q # r => t.rooms[q] = s.rooms[q]
        /\ t.rooms[r].is_active = s.rooms[r].is_active
        /\ t.rooms[r].is_game_started = s.rooms[r].is_game_started
        /\ t.rooms[r].current_turn = turn
    BY <1>3, <2>3, <2>4, <2>5, SetsGameRooms
  <2> QED
    BY <1>5, <2>6 DEF Goes, OnIn
<1> QED
  BY <1>4, <1>5

(* What a handler makes of a room: nothing, but that its game may end; new *)
(* boards; the ships of a submission on one of them, after which the game  *)
(* may begin; or a shot of the player who has the turn.                    *)
Untouched(s, t, q) == t.boards[q] = s.boards[q] /\ Goes(s, t, q)

Clears(s, t, q) ==
    /\ t.boards[q] = [pl \in Players |-> InitBoard]
    /\ ~OnIn(s, q) /\ ~OnIn(t, q)

Arranges(s, t, q) ==
    /\ s.rooms[q].is_active /\ ~OnIn(s, q)
    /\ \E pl \in Players, m \in Submissions :
          t.boards[q] = [s.boards[q] EXCEPT ![pl] =
                             PlaceBoardShips(s.boards[q][pl], m.ships)]
    /\ OnIn(t, q) => t.rooms[q].current_turn = 0

Fires(s, t, q) ==
    \E c \in Coord :
        LET pl     == s.rooms[q].current_turn
            target == s.boards[q][1 - pl]
            after  == BoardAfterShot(target, c[1], c[2])
            result == ShotAnswer(target, c[1], c[2])
        IN  /\ OnIn(s, q)
            /\ t.boards[q] = [s.boards[q] EXCEPT ![1 - pl] = after]
            /\ OnIn(t, q) =>
                  /\ ~AllShipsSunk(after)
                  /\ t.rooms[q].current_turn = IF result = "MISS" THEN 1 - pl ELSE pl

RoomStep(s, t, q) ==
    Untouched(s, t, q) \/ Clears(s, t, q) \/ Arranges(s, t, q) \/ Fires(s, t, q)

Plays(s, t) == \A q \in Rooms : RoomStep(s, t, q)

LEMMA CarriedPlays ==
    ASSUME NEW s, NEW t, Carried(s, t), t.boards = s.boards
    PROVE  Plays(s, t)
BY DEF Carried, Plays, RoomStep, Untouched

LEMMA SendErrorPlays ==
    ASSUME NEW s, Good(s), NEW i
    PROVE  Plays(s, SendError(s, i))
BY SendEffect, SameRoomsCarried, CarriedPlays, NoticeIsMessage DEF SendError, Sends

LEMMA OnCreateRoomPlays ==
    ASSUME NEW s, Good(s), BoardsIn(s, Board), NEW i \in Slots,
           NEW r \in Rooms, ~s.rooms[r].is_active
    PROVE  Plays(s, OnCreateRoom(s, i, r))
<1> DEFINE u == CreateRoom(s, r)
           v == JoinRoom(u, i, r)
           w == SendOrRemove(v, i, Seated("ROOM_CREATED", v, i))
           fresh == [pl \in Players |-> InitBoard]
<1>1. Good(u) /\ CanJoin(u, r) /\ Creates(s, u, r)
  BY CreateRoomGood, CreateRoomEffect
<1> HIDE DEF u
<1>2. Good(v) /\ Joins(u, v, i, r)
  BY <1>1, JoinRoomGood, JoinRoomEffect
<1> HIDE DEF v
<1>3. Carried(v, w) /\ Follows(v, w)
  BY <1>2, SendOrRemoveCarried, SeatIsMessage
<1> HIDE DEF w
<1>4. w.boards = [s.boards EXCEPT ![r] = fresh]
  BY <1>1, <1>2, <1>3 DEF Creates, Joins, Follows
<1>5. /\ \A q \in Rooms : q # r => v.rooms[q] = s.rooms[q]
      /\ ~v.rooms[r].is_game_started
  <2>1. ~u.rooms[r].is_game_started /\ u.rooms[r] \in Room
    BY <1>1 DEF Creates, InitRoom, Good, TypedState
  <2> QED
    BY <1>1, <1>2, <2>1 DEF Creates, Joins, Room
<1> HIDE DEF fresh
<1>6. ASSUME NEW q \in Rooms PROVE RoomStep(s, w, q)
  <2>1. CASE q = r
    <3>1. w.boards[q] = fresh /\ ~OnIn(s, q) /\ ~OnIn(w, q)
      BY <1>3, <1>4, <1>5, <2>1 DEF BoardsIn, Carried, Goes, OnIn
    <3> QED
      BY <3>1 DEF fresh, RoomStep, Clears
  <2>2. CASE q # r
    BY <1>3, <1>4, <1>5, <2>2 DEF BoardsIn, Carried, Goes, OnIn, RoomStep, Untouched
  <2> QED
    BY <2>1, <2>2
<1> QED
  BY <1>6 DEF OnCreateRoom, Plays, u, v, w

LEMMA OnJoinRoomPlays ==
    ASSUME NEW s, Good(s), NEW i \in Slots, NEW id
    PROVE  Plays(s, OnJoinRoom(s, i, id))
<1> DEFINE r == FindRoom(s, id)
           u == JoinRoom(s, i, r)
           other == u.rooms[r].connected_players[1 - u.clients[i].assigned_player_id]
           ok    == Send(u, SocketOf(u, i), Seated("JOIN_OK", u, i))
           told  == Send(ok, SocketOf(u, i), Notice("OPPONENT_JOINED"))
           both  == Send(told, SocketOf(u, other), Notice("OPPONENT_JOINED"))
           gone  == RemoveClient(ok, i)
           t     == OnJoinRoom(s, i, id)
<1>1. CASE CanJoin(s, r)
  <2>1. r \in Rooms
    BY <1>1, FindRoomIn DEF CanJoin
  <2>2. t \in {told, both, gone}
    BY <1>1 DEF OnJoinRoom, AnnounceJoin
  <2>3. t.boards = s.boards
    BY OnJoinRoomBoards
  <2> HIDE DEF r, t
  <2>4. Good(u) /\ Joins(s, u, i, r)
    BY <1>1, <2>1, JoinRoomGood, JoinRoomEffect
  <2> HIDE DEF u
  <2>5. Carried(s, u)
    <3>1. /\ \A q \in Rooms : q # r => u.rooms[q] = s.rooms[q]
          /\ u.rooms[r].is_active = s.rooms[r].is_active
          /\ u.rooms[r].is_game_started = s.rooms[r].is_game_started
          /\ u.rooms[r].current_turn = s.rooms[r].current_turn
      BY <2>1, <2>4 DEF Joins, Good, TypedState, Room
    <3> QED
      BY <3>1 DEF Carried, Goes, OnIn
  <2>6. Good(ok) /\ Carried(u, ok)
    BY <2>4, SendCarried, SeatIsMessage
  <2> HIDE DEF ok
  <2>7. Good(told) /\ Carried(ok, told) /\ Carried(ok, gone)
    BY <2>6, SendCarried, RemoveClientCarried, NoticeIsMessage
  <2> HIDE DEF told, gone
  <2>8. Carried(told, both)
    BY <2>7, SendCarried, NoticeIsMessage
  <2> HIDE DEF both
  <2>9. Carried(s, ok)
    BY <2>5, <2>6, CarriedTrans
  <2>10. Carried(s, told) /\ Carried(s, gone)
    BY <2>7, <2>9, CarriedTrans
  <2>11. Carried(s, both)
    BY <2>8, <2>10, CarriedTrans
  <2>12. Carried(s, t)
    BY <2>2, <2>10, <2>11
  <2> QED
    BY <2>3, <2>12, CarriedPlays DEF t
<1>2. CASE ~CanJoin(s, r)
  BY <1>2, SendErrorPlays DEF OnJoinRoom
<1> QED
  BY <1>1, <1>2

(* A board handed in while the room's game is not on.                      *)
LEMMA OnSubmitBoardPlays ==
    ASSUME NEW s, Good(s), BoardsIn(s, Board), NEW i \in Slots, NEW m \in Submissions,
           RoomOf(s, i) # NULL => ~OnIn(s, RoomOf(s, i))
    PROVE  Plays(s, OnSubmitBoard(s, i, m.ships))
<1> DEFINE r     == RoomOf(s, i)
           pl    == s.clients[i].assigned_player_id
           board == PlaceBoardShips(s.boards[r][pl], m.ships)
           t     == OnSubmitBoard(s, i, m.ships)
           ok    == Notice("BOARD_OK")
<1> SUFFICES Plays(s, t)
  OBVIOUS
<1>1. CASE t = SendError(s, i)
  BY <1>1, SendErrorPlays
<1>2. CASE t = [s EXCEPT !.status = "overrun"]
  <2>1. t.rooms = s.rooms /\ t.boards = s.boards
    BY <1>2 DEF Good, TypedState
  <2> HIDE DEF t
  <2> QED
    BY <2>1, SameRoomsCarried, CarriedPlays
<1>3. ASSUME r \in Rooms, s.rooms[r].is_active, pl \in Players, NEW held,
             Good(held), Submits(s, held, r, pl, board),
             \/ t = SendOrRemove(held, i, ok)
             \/ /\ ~SendFails(held, SocketOf(held, i))
                /\ t = StartGame(SendOrRemove(held, i, ok), r)
      PROVE  Plays(s, t)
  <2> DEFINE told == SendOrRemove(held, i, ok)
  <2>1. r # NULL /\ ~OnIn(s, r)
    BY <1>3, RoomIsNotNull
  <2> HIDE DEF r, pl, t, board
  <2>2. /\ held.boards = [s.boards EXCEPT ![r][pl] = board]
        /\ \A q \in Rooms : q # r => held.rooms[q] = s.rooms[q]
        /\ ~OnIn(held, r)
    BY <1>3, <2>1 DEF Submits, OnIn, Good, TypedState, Room
  <2>3. Good(told) /\ Follows(held, told) /\ Carried(held, told)
    BY <1>3, SendOrRemoveCarried, NoticeIsMessage
  <2> HIDE DEF told
  <2>4. told.boards = held.boards /\ ~OnIn(told, r)
    BY <1>3, <2>2, <2>3 DEF Follows, Carried, Goes
  <2>5. /\ t.boards = told.boards
        /\ \A q \in Rooms : q # r => t.rooms[q] = told.rooms[q]
        /\ OnIn(t, r) => t.rooms[r].current_turn = 0
    <3>1. CASE t = told
      BY <2>4, <3>1
    <3>2. CASE t = StartGame(told, r)
      BY <1>3, <2>3, <2>4, <3>2, StartGameFollows, StartGameRooms DEF Follows
    <3> QED
      BY <1>3, <3>1, <3>2 DEF told
  <2>6. ASSUME NEW q \in Rooms PROVE RoomStep(s, t, q)
    <3>1. CASE q = r
      <4>1. t.boards[q] = [s.boards[q] EXCEPT ![pl] = board]
        BY <1>3, <2>2, <2>4, <2>5, <3>1 DEF BoardsIn
      <4>2. t.boards[q] = [s.boards[q] EXCEPT ![pl] =
                              PlaceBoardShips(s.boards[q][pl], m.ships)]
        BY <3>1, <4>1 DEF board
      <4>3. Arranges(s, t, q)
        BY <1>3, <2>1, <2>5, <3>1, <4>2 DEF Arranges
      <4> QED
        BY <4>3 DEF RoomStep
    <3>2. CASE q # r
      <4>1. t.boards[q] = s.boards[q] /\ Goes(s, t, q)
        BY <1>3, <2>2, <2>3, <2>4, <2>5, <3>2 DEF BoardsIn, Carried, Goes, OnIn
      <4> QED
        BY <4>1 DEF RoomStep, Untouched
    <3> QED
      BY <3>1, <3>2
  <2> QED
    BY <2>6 DEF Plays
<1>4. \/ t = SendError(s, i)
      \/ t = [s EXCEPT !.status = "overrun"]
      \/ /\ r \in Rooms /\ s.rooms[r].is_active /\ pl \in Players
         /\ \E held : LET told == SendOrRemove(held, i, Notice("BOARD_OK"))
                      IN  /\ Good(held) /\ Submits(s, held, r, pl, board)
                          /\ \/ t = told
                             \/ /\ ~SendFails(held, SocketOf(held, i))
                                /\ t = StartGame(told, r)
  BY OnSubmitBoardCases
<1> HIDE DEF t, r, pl, board
<1>5. CASE /\ r \in Rooms /\ s.rooms[r].is_active /\ pl \in Players
           /\ \E held : LET told == SendOrRemove(held, i, Notice("BOARD_OK"))
                        IN  /\ Good(held) /\ Submits(s, held, r, pl, board)
                            /\ \/ t = told
                               \/ /\ ~SendFails(held, SocketOf(held, i))
                                  /\ t = StartGame(told, r)
  <2>1. PICK held : LET told == SendOrRemove(held, i, Notice("BOARD_OK"))
                    IN  /\ Good(held) /\ Submits(s, held, r, pl, board)
                        /\ \/ t = told
                           \/ /\ ~SendFails(held, SocketOf(held, i))
                              /\ t = StartGame(told, r)
    BY <1>5, Zenon
  <2> QED
    BY <1>3, <1>5, <2>1
<1> QED
  BY <1>1, <1>2, <1>4, <1>5, Zenon

LEMMA OnShootPlays ==
    ASSUME NEW s, Good(s), BoardsIn(s, Board), NEW i \in Slots, NEW c
    PROVE  Plays(s, OnShoot(s, i, c))
<1> DEFINE r      == RoomOf(s, i)
           pl     == s.clients[i].assigned_player_id
           target == s.boards[r][1 - pl]
           after  == BoardAfterShot(target, c[1], c[2])
           result == ShotAnswer(target, c[1], c[2])
           t      == OnShoot(s, i, c)
<1> SUFFICES Plays(s, t)
  OBVIOUS
<1>1. CASE t = SendError(s, i)
  BY <1>1, SendErrorPlays
<1>2. ASSUME r \in Rooms, s.rooms[r].is_active, s.rooms[r].is_game_started,
             pl \in Players, s.rooms[r].current_turn = pl, BothSeated(s, r),
             result \in ShotResult, InBounds(c[1], c[2]),
             NEW shot, Good(shot),
             Strikes(s, shot, r, 1 - pl, after),
             IF SendFails(shot, SocketOf(shot, i))
             THEN t = SendOrRemove(shot, i, Report("SHOT_RESULT", c, result))
             ELSE t = AfterShot(SendOrRemove(shot, i, Report("SHOT_RESULT", c, result)),
                                i, r, c, result)
      PROVE  Plays(s, t)
  <2> DEFINE m    == Report("SHOT_RESULT", c, result)
             told == SendOrRemove(shot, i, m)
             turn == IF result = "MISS" THEN 1 - pl ELSE pl
             sunk == AllShipsSunk(after)
             ends == SendFails(shot, SocketOf(shot, i))
  <2>1. m \in Message
    BY <1>2, ReportIsMessage
  <2>2. 1 - pl \in Players
    <3>1. pl \in Players
      BY <1>2
    <3> HIDE DEF pl
    <3> QED
      BY <3>1 DEF Players, ROOM_SIZE
  <2>3. /\ shot.clients = s.clients /\ shot.rooms = s.rooms
        /\ shot.boards = [s.boards EXCEPT ![r][1 - pl] = after]
    BY <1>2 DEF Strikes
  <2>4. /\ shot.boards[r] = [s.boards[r] EXCEPT ![1 - pl] = after]
        /\ shot.boards[r][1 - pl] = after
        /\ \A q \in Rooms : q # r => shot.boards[q] = s.boards[q]
    <3>1. s.boards \in [Rooms -> [Players -> Board]] /\ r \in Rooms
      BY <1>2 DEF BoardsIn
    <3> HIDE DEF after, pl, r
    <3> QED
      BY <2>2, <2>3, <3>1
  <2>5. RoomOf(shot, i) = r /\ r # NULL
    <3>1. RoomOf(shot, i) = RoomOf(s, i)
      <4>1. shot.clients = s.clients /\ shot.rooms = s.rooms
        BY <2>3
      <4> QED
        BY <4>1 DEF RoomOf, FindRoom
    <3> QED
      BY <1>2, <3>1, RoomIsNotNull
  <2>6. /\ Good(told) /\ told.boards = shot.boards /\ Carried(shot, told)
        /\ IF ends THEN ~OnIn(told, r)
           ELSE told.rooms = shot.rooms /\ told.clients = shot.clients
    <3> HIDE DEF r, m
    <3> QED
      BY <1>2, <2>1, <2>5, SendOrRemoveCarried DEF Follows
  <2> HIDE DEF told
  <2>7. /\ t.boards = shot.boards
        /\ \A q \in Rooms : q # r => Goes(s, t, q)
        /\ OnIn(t, r) => ~sunk /\ t.rooms[r].current_turn = turn
    <3>1. CASE ends
      <4>1. t = told
        BY <1>2, <3>1 DEF told, m
      <4> HIDE DEF t, r, sunk, turn
      <4> QED
        BY <2>3, <2>6, <3>1, <4>1 DEF Carried, Goes, OnIn
    <3>2. CASE ~ends
      <4>1. t = AfterShot(told, i, r, c, result)
        BY <1>2, <3>2 DEF told, m
      <4>2. told.rooms = s.rooms /\ told.clients = s.clients /\ told.boards[r][1 - pl] = after
        BY <2>3, <2>4, <2>6, <3>2
      <4> HIDE DEF t, r, result, after
      <4>3. told.clients[i].assigned_player_id = pl /\ BothSeated(told, r)
        BY <1>2, <4>2 DEF BothSeated
      <4> HIDE DEF pl
      <4>4. /\ \A q \in Rooms : q # r => Goes(told, t, q)
            /\ OnIn(t, r) =>
                  /\ ~AllShipsSunk(told.boards[r][1 - pl])
                  /\ t.rooms[r].current_turn = IF result = "MISS" THEN 1 - pl ELSE pl
        BY <1>2, <2>6, <4>1, <4>3, AfterShotRooms
      <4>5. t.boards = told.boards
        BY <1>2, <2>6, <4>1, <4>3, AfterShotFollows DEF Follows
      <4> QED
        BY <2>6, <4>2, <4>4, <4>5 DEF Goes, OnIn
    <3> QED
      BY <3>1, <3>2
  <2>8. c[1] \in Axis /\ c[2] \in Axis
    BY <1>2 DEF InBounds, Coord
  <2> DEFINE d == <<c[1], c[2]>>
  <2>9. d \in Coord /\ d[1] = c[1] /\ d[2] = c[2]
    BY <2>8 DEF Coord
  <2>10. Fires(s, t, r)
    <3>1. /\ OnIn(s, r)
          /\ t.boards[r] = [s.boards[r] EXCEPT ![1 - pl] = after]
          /\ OnIn(t, r) => ~sunk /\ t.rooms[r].current_turn = turn
      BY <1>2, <2>4, <2>7 DEF OnIn
    <3>2. s.rooms[r].current_turn = pl
      BY <1>2
    <3>3. /\ after = BoardAfterShot(s.boards[r][1 - pl], d[1], d[2])
          /\ result = ShotAnswer(s.boards[r][1 - pl], d[1], d[2])
      BY <2>9
    <3> HIDE DEF t, r, d, pl, after, result
    <3> QED
      BY <2>9, <3>1, <3>2, <3>3, Zenon DEF Fires
  <2> HIDE DEF r, t
  <2>11. \A q \in Rooms : q # r => Untouched(s, t, q)
    BY <2>4, <2>7 DEF Untouched
  <2> QED
    BY <2>10, <2>11 DEF Plays, RoomStep
<1> HIDE DEF t
<1>3. \/ t = SendError(s, i)
      \/ /\ MayShoot(s, i, c)
         /\ r \in Rooms /\ s.rooms[r].is_active /\ s.rooms[r].is_game_started
         /\ pl \in Players /\ s.rooms[r].current_turn = pl
         /\ BothSeated(s, r)
         /\ result \in ShotResult /\ InBounds(c[1], c[2])
         /\ \E shot :
               LET told == SendOrRemove(shot, i, Report("SHOT_RESULT", c, result))
               IN  /\ Good(shot) /\ Evolves(s, shot)
                   /\ Strikes(s, shot, r, 1 - pl, after)
                   /\ IF SendFails(shot, SocketOf(shot, i)) THEN t = told
                      ELSE t = AfterShot(told, i, r, c, result)
  BY OnShootCases DEF t
<1> HIDE DEF r, pl, after, result
<1>4. CASE t # SendError(s, i)
  <2>1. PICK shot :
           LET told == SendOrRemove(shot, i, Report("SHOT_RESULT", c, result))
           IN  /\ Good(shot) /\ Evolves(s, shot)
               /\ Strikes(s, shot, r, 1 - pl, after)
               /\ IF SendFails(shot, SocketOf(shot, i)) THEN t = told
                  ELSE t = AfterShot(told, i, r, c, result)
    BY <1>3, <1>4, Zenon
  <2> QED
    BY <1>2, <1>3, <1>4, <2>1
<1> QED
  BY <1>1, <1>4

LEMMA CommittedPlays ==
    ASSUME IInv, NEW s, s.boards = srv.boards, s.rooms = srv.rooms,
           NEW t, Plays(s, t), Commit(t)
    PROVE  Plays(srv, srv')
<1>1. ASSUME NEW q \in Rooms PROVE RoomStep(srv, t, q)
  <2>1. srv.rooms[q] = s.rooms[q] /\ srv.boards[q] = s.boards[q]
    OBVIOUS
  <2>2. OnIn(srv, q) = OnIn(s, q)
    BY <2>1 DEF OnIn
  <2>3. CASE Untouched(s, t, q)
    BY <2>1, <2>2, <2>3 DEF Untouched, Goes, RoomStep
  <2>4. CASE Clears(s, t, q)
    BY <2>2, <2>4 DEF Clears, RoomStep
  <2>5. CASE Arranges(s, t, q)
    <3>1. Arranges(srv, t, q)
      BY <2>1, <2>2, <2>5 DEF Arranges
    <3> QED
      BY <3>1 DEF RoomStep
  <2>6. CASE Fires(s, t, q)
    <3>1. Fires(srv, t, q)
      BY <2>1, <2>2, <2>6 DEF Fires
    <3> QED
      BY <3>1 DEF RoomStep
  <2>7. RoomStep(s, t, q)
    BY DEF Plays
  <2> QED
    BY <2>3, <2>4, <2>5, <2>6, <2>7 DEF RoomStep
<1>2. CASE srv' = t
  BY <1>1, <1>2 DEF Plays
<1>3. CASE srv'.rooms = srv.rooms /\ srv'.boards = srv.boards
  BY <1>3, SameRoomsCarried, CarriedPlays
<1> QED
  BY <1>2, <1>3, CommitEffect

LEMMA HandlePlays ==
    ASSUME IInv, BoardsIn(srv, Board), NEW i \in Slots, Handle(i),
           HandleSubmitBoard(i) /\ RoomOf(srv, i) # NULL => ~OnIn(srv, RoomOf(srv, i))
    PROVE  Plays(srv, srv')
<1> DEFINE s == Taken(i)
<1>1. Due(i)
  BY DEF Handle, HandleEof, HandleCreateRoom, HandleCreateRoomFull, HandleJoinRoom,
     HandleSubmitBoard, HandleShoot, HandleDisconnect, HandleOther, Receives
<1>2. CASE HandleEof(i)
  <2> DEFINE t == RemoveClient(srv, i)
  <2>1. Carried(srv, t) /\ t.boards = srv.boards
    BY RemoveClientCarried, RemoveClientEffect DEF IInv, Follows
  <2>2. Commit(t)
    BY <1>2 DEF HandleEof
  <2> HIDE DEF t
  <2> QED
    BY <2>1, <2>2, CarriedPlays, CommittedPlays
<1>3. ASSUME Inbox(i) # << >>
      PROVE  /\ Good(s) /\ BoardsIn(s, Board) /\ Head(Inbox(i)) \in Requests
             /\ s.clients = srv.clients /\ s.rooms = srv.rooms /\ s.boards = srv.boards
  <2>1. Reads(s, i)
    BY <1>1, <1>3, TakenEffect
  <2> HIDE DEF s
  <2> QED
    BY <2>1 DEF Reads, BoardsIn
<1> HIDE DEF s
<1>4. ASSUME NEW t, Inbox(i) # << >>, Plays(s, t), Commit(t)
      PROVE  Plays(srv, srv')
  BY <1>3, <1>4, CommittedPlays
<1>5. CASE HandleCreateRoom(i)
  <2>1. Inbox(i) # << >>
    BY <1>5 DEF HandleCreateRoom, Receives
  <2>2. PICK r \in Rooms : ~srv.rooms[r].is_active /\ Commit(OnCreateRoom(s, i, r))
    BY <1>5 DEF HandleCreateRoom, s
  <2>3. Plays(s, OnCreateRoom(s, i, r))
    BY <1>3, <2>1, <2>2, OnCreateRoomPlays
  <2> QED
    BY <1>4, <2>1, <2>2, <2>3
<1>6. CASE HandleCreateRoomFull(i)
  <2>1. Inbox(i) # << >> /\ Commit(SendError(s, i))
    BY <1>6 DEF HandleCreateRoomFull, Receives, s
  <2> QED
    BY <1>3, <1>4, <2>1, SendErrorPlays
<1>7. CASE HandleJoinRoom(i)
  <2>1. Inbox(i) # << >> /\ Commit(OnJoinRoom(s, i, Head(Inbox(i)).room_id))
    BY <1>7 DEF HandleJoinRoom, Receives, s
  <2> QED
    BY <1>3, <1>4, <2>1, OnJoinRoomPlays
<1>8. CASE HandleSubmitBoard(i)
  <2> DEFINE m == Head(Inbox(i))
  <2>1. /\ Inbox(i) # << >> /\ Commit(OnSubmitBoard(s, i, m.ships))
        /\ m.type = "SUBMIT_BOARD"
    BY <1>8 DEF HandleSubmitBoard, Receives, s
  <2>2. m \in Submissions
    BY <1>3, <2>1 DEF Submissions
  <2> HIDE DEF m
  <2>3. s.rooms = srv.rooms /\ RoomOf(s, i) = RoomOf(srv, i)
    <3>1. s.clients = srv.clients /\ s.rooms = srv.rooms
      BY <1>3, <2>1
    <3> QED
      BY <3>1 DEF RoomOf, FindRoom
  <2>4. RoomOf(s, i) # NULL => ~OnIn(s, RoomOf(s, i))
    BY <1>8, <2>3 DEF OnIn
  <2>5. Plays(s, OnSubmitBoard(s, i, m.ships))
    BY <1>3, <2>1, <2>2, <2>4, OnSubmitBoardPlays
  <2> QED
    BY <1>4, <2>1, <2>5
<1>9. CASE HandleShoot(i)
  <2>1. Inbox(i) # << >> /\ Commit(OnShoot(s, i, Head(Inbox(i)).target))
    BY <1>9 DEF HandleShoot, Receives, s
  <2> QED
    BY <1>3, <1>4, <2>1, OnShootPlays
<1>10. CASE HandleDisconnect(i)
  <2> DEFINE t == RemoveClient(s, i)
  <2>1. Inbox(i) # << >> /\ Commit(t)
    BY <1>10 DEF HandleDisconnect, Receives, s
  <2>2. Carried(s, t) /\ t.boards = s.boards
    BY <1>3, <2>1, RemoveClientCarried, RemoveClientEffect DEF Follows
  <2> HIDE DEF t
  <2> QED
    BY <1>4, <2>1, <2>2, CarriedPlays
<1>11. CASE HandleOther(i)
  <2>1. Inbox(i) # << >> /\ Commit(s)
    BY <1>11 DEF HandleOther, Receives, s
  <2> QED
    BY <1>4, <2>1, SameRoomsCarried, CarriedPlays
<1> QED
  BY <1>2, <1>5, <1>6, <1>7, <1>8, <1>9, <1>10, <1>11 DEF Handle

(* A board handed in while the room's game is in progress: server.c takes  *)
(* it and starts the game anew (see BoardsOnlyWhileWaiting).               *)
SubmitsInGame ==
    \E i \in Slots :
        HandleSubmitBoard(i) /\ RoomOf(srv, i) # NULL /\ GameOn(RoomOf(srv, i))

LEMMA StepPlays ==
    ASSUME SessionIInv, [SessionNext]_sessionVars, SubmitsInGame => UNCHANGED sessionVars
    PROVE  Plays(srv, srv')
<1>1. IInv /\ BoardsIn(srv, Board)
  BY DEF SessionIInv, Sess
<1>2. CASE srv'.rooms = srv.rooms /\ srv'.boards = srv.boards
  BY <1>2, SameRoomsCarried, CarriedPlays
<1>3. CASE UNCHANGED sessionVars
  BY <1>2, <1>3 DEF sessionVars
<1>4. CASE Accept \/ Reject
  <2>1. srv'.rooms = srv.rooms /\ srv'.boards = srv.boards
    BY <1>1, <1>4 DEF Accept, Reject, IInv, Good, TypedState
  <2> QED
    BY <1>2, <2>1
<1>5. CASE Select \/ AcceptFails \/ EndScan
  BY <1>2, <1>5 DEF Select, AcceptFails, EndScan
<1>6. ASSUME NEW i \in Slots, Handle(i) PROVE Plays(srv, srv')
  <2>1. CASE SubmitsInGame
    BY <1>3, <2>1
  <2>2. CASE ~SubmitsInGame
    <3>1. HandleSubmitBoard(i) /\ RoomOf(srv, i) # NULL => ~OnIn(srv, RoomOf(srv, i))
      BY <2>2 DEF SubmitsInGame, GameOn, OnIn
    <3> QED
      BY <1>1, <1>6, <3>1, HandlePlays
  <2> QED
    BY <2>1, <2>2
<1>7. CASE \E p \in Peers :
              \/ ClientConnects(p)
              \/ \E m \in Requests : ClientSends(p, m)
              \/ ClientCloses(p)
  <2>1. srv'.rooms = srv.rooms /\ srv'.boards = srv.boards
    BY <1>1, <1>7 DEF ClientConnects, ClientSends, ClientCloses, PeerConnect, PeerSend,
       PeerClose, IInv, Good, TypedState
  <2> QED
    BY <1>2, <2>1
<1> QED
  BY <1>3, <1>4, <1>5, <1>6, <1>7 DEF SessionNext, ServerStep

-----------------------------------------------------------------------------
(* The boards as Match.tla sees them.                                      *)
LEMMA ShotFleet ==
    ASSUME NEW b \in Board, NEW c \in Coord
    PROVE  LET t      == BoardAfterShot(b, c[1], c[2])
               result == ShotAnswer(b, c[1], c[2])
           IN  /\ ShipsOf(t) = ShipsOf(b)
               /\ Struck(t) = Struck(b) \cup {c}
               /\ c \in Struck(b) => t = b /\ result # "MISS"
               /\ c \notin Struck(b) => (result = "MISS" <=> c \notin ShipsOf(b))
<1> DEFINE t      == BoardAfterShot(b, c[1], c[2])
           result == ShotAnswer(b, c[1], c[2])
           i      == GetShipAt(b, c)
<1>1. c = <<c[1], c[2]>> /\ InBounds(c[1], c[2])
  BY DEF InBounds, Coord
<1>2. b.cells \in [Coord -> CellState]
  BY DEF Board
<1>3. CASE b.cells[c] = "EMPTY"
  <2>1. t = [b EXCEPT !.cells[c] = "MISS"] /\ result = "MISS"
    BY <1>1, <1>3 DEF BoardAfterShot, ShotAnswer
  <2> HIDE DEF t, result
  <2>2. t.cells = [b.cells EXCEPT ![c] = "MISS"]
    BY <2>1 DEF Board
  <2> QED
    BY <1>2, <1>3, <2>1, <2>2 DEF ShipsOf, Struck, t, result
<1>4. CASE b.cells[c] = "SHIP"
  <2>1. t.cells = [b.cells EXCEPT ![c] = "HIT"] /\ result \in {"SUNK", "HIT"}
    BY <1>1, <1>4 DEF BoardAfterShot, ShotAnswer
  <2> HIDE DEF t, result
  <2> QED
    BY <1>2, <1>4, <2>1 DEF ShipsOf, Struck, t, result
<1>5. CASE b.cells[c] \in {"HIT", "MISS"}
  <2>1. t = b /\ result = "INVALID"
    BY <1>1, <1>5 DEF BoardAfterShot, ShotAnswer
  <2>2. c \in Struck(b)
    BY <1>5 DEF Struck
  <2> HIDE DEF t, result
  <2> QED
    BY <2>1, <2>2 DEF t, result
<1> QED
  BY <1>2, <1>3, <1>4, <1>5 DEF CellState

LEMMA PlacedFleet ==
    ASSUME NEW b \in Board, NEW m \in Submissions
    PROVE  ShipsOf(b) \subseteq ShipsOf(PlaceBoardShips(b, m.ships))
<1> DEFINE T == {d \in Board : ShipsOf(b) \subseteq ShipsOf(d)}
<1>1. KeptBy(T, m.ships)
  <2> SUFFICES ASSUME NEW d \in T, NEW n \in 1 .. Len(m.ships)
               PROVE  PlaceShip(d, m.ships[n]) \in T
    BY DEF KeptBy
  <2>1. m.ships[n] \in ShipPlacement
    BY SubmittedShips
  <2>2. PlaceShip(d, m.ships[n]) \in Board
    BY <2>1, PlaceShipBoard
  <2>3. ShipsOf(d) \subseteq ShipsOf(PlaceShip(d, m.ships[n]))
    BY DEF ShipsOf, PlaceShip
  <2> QED
    BY <2>2, <2>3
<1>2. b \in T /\ Len(m.ships) \in Nat
  BY SubmittedShips
<1>3. PlaceBoardShips(b, m.ships) \in T
  <2> HIDE DEF T
  <2> QED
    BY <1>1, <1>2, PlacedShipsIn
<1> QED
  BY <1>3

(* Every ship handed in can be sunk, as those of client.c can; the server  *)
(* looks at neither the length of a ship nor its orientation.              *)
ShipsCanSink ==
    \A m \in Submissions : \A n \in 1 .. MAX_SHIPS : CanSink(m.ships[n])

SinkableBoard ==
    {b \in Board : Sound(b) /\ \A i \in DOMAIN b.ships : CanSink(b.ships[i])}

LEMMA PlaceShipSinkable ==
    ASSUME NEW b \in SinkableBoard, NEW p \in ShipPlacement, CanSink(p)
    PROVE  PlaceShip(b, p) \in SinkableBoard
<1>1. CASE ~CanPlaceShip(b, p)
  BY <1>1 DEF PlaceShip
<1>2. CASE CanPlaceShip(b, p)
  <2> DEFINE t == PlaceShip(b, p)
             n == Len(b.ships) + 1
  <2>1. Sound(b) /\ Sound(t)
    BY PlaceShipSound DEF SinkableBoard
  <2>2. /\ t \in Board
        /\ Len(t.ships) = n
        /\ \A i \in 1 .. Len(b.ships) : t.ships[i] = b.ships[i]
        /\ CanSink(t.ships[n]) = CanSink(p)
    BY <1>2, <2>1, PlacedShip
  <2> HIDE DEF t
  <2>3. /\ Len(b.ships) \in Nat
        /\ DOMAIN b.ships = 1 .. Len(b.ships)
        /\ DOMAIN t.ships = 1 .. n
    BY <2>1, <2>2 DEF Sound, Board
  <2>4. \A i \in 1 .. n : i = n \/ i \in 1 .. Len(b.ships)
    BY <2>3
  <2>5. \A i \in 1 .. Len(b.ships) : CanSink(b.ships[i])
    BY <2>3 DEF SinkableBoard
  <2>6. \A i \in DOMAIN t.ships : CanSink(t.ships[i])
    BY <2>2, <2>3, <2>4, <2>5
  <2> QED
    BY <2>1, <2>2, <2>6 DEF SinkableBoard, t
<1> QED
  BY <1>1, <1>2

LEMMA ShotSinkable ==
    ASSUME NEW b \in SinkableBoard, NEW x, NEW y
    PROVE  BoardAfterShot(b, x, y) \in SinkableBoard
<1> DEFINE c == <<x, y>>
           t == BoardAfterShot(b, x, y)
           i == GetShipAt(b, c)
<1>1. Sound(b) /\ Sound(t) /\ t \in Board
  BY ShotSound DEF SinkableBoard, Sound
<1>2. CASE c \in Coord /\ b.cells[c] = "SHIP"
  <2>1. /\ i \in DOMAIN b.ships
        /\ t.ships = [b.ships EXCEPT ![i] = HitShip(b.ships[i])]
        /\ CanSink(t.ships[i]) = CanSink(b.ships[i])
    BY <1>1, <1>2, ShotAtShip
  <2> HIDE DEF t, i
  <2>2. \A j \in DOMAIN t.ships : j \in DOMAIN b.ships /\ (j = i \/ t.ships[j] = b.ships[j])
    BY <2>1
  <2>3. \A j \in DOMAIN t.ships : CanSink(t.ships[j])
    BY <2>1, <2>2 DEF SinkableBoard
  <2> QED
    BY <1>1, <2>3 DEF SinkableBoard, t
<1>3. CASE ~(c \in Coord /\ b.cells[c] = "SHIP")
  <2>1. t.ships = b.ships
    BY <1>1, <1>3 DEF BoardAfterShot, InBounds, Sound, Board
  <2> QED
    BY <1>1, <2>1 DEF SinkableBoard
<1> QED
  BY <1>2, <1>3

LEMMA SinkableBoardClosed ==
    ASSUME ShipsCanSink
    PROVE  Closed(SinkableBoard)
<1>1. InitBoard \in SinkableBoard
  <2>1. DOMAIN InitBoard.ships = {}
    BY DEF InitBoard
  <2> QED
    BY <2>1, InitBoardSound DEF Sound, SinkableBoard
<1>2. \A m \in Submissions : KeptBy(SinkableBoard, m.ships)
  BY SubmittedShips, PlaceShipSinkable DEF KeptBy, ShipsCanSink
<1>3. \A b \in SinkableBoard, c \in Coord : BoardAfterShot(b, c[1], c[2]) \in SinkableBoard
  BY ShotSinkable
<1> QED
  BY <1>1, <1>2, <1>3 DEF Closed

(* While a ship is not sunk, a cell of it was not shot at.                 *)
LEMMA UndecidedFleet ==
    ASSUME NEW b \in SinkableBoard, ~AllShipsSunk(b)
    PROVE  ~(ShipsOf(b) \subseteq Struck(b))
<1>1. PICK i \in DOMAIN b.ships : ~b.ships[i].sunk
  BY DEF AllShipsSunk
<1>2. PICK c \in ShipCells(b.ships[i]) : b.cells[c] # "HIT"
  <2>1. /\ CanSink(b.ships[i])
        /\ b.ships[i].sunk <=> CanSink(b.ships[i]) /\ HitCells(b, i) = ShipCells(b.ships[i])
    BY DEF SinkableBoard, Sound, BoardAgrees, HitCells
  <2> QED
    BY <1>1, <2>1 DEF HitCells
<1>3. c \in Coord /\ b.cells[c] \in {"SHIP", "HIT"}
  BY DEF SinkableBoard, Sound, BoardAgrees
<1> QED
  BY <1>2, <1>3 DEF ShipsOf, Struck

LEMMA MatchInits ==
    ASSUME SessionInit, NEW q \in Rooms
    PROVE  MatchOf(q)!MatchInit
<1>1. /\ srv.rooms[q] = InitRoom
      /\ srv.boards[q] = [pl \in Players |-> InitBoard]
  BY DEF SessionInit, Init
<1>2. ~GameOn(q)
  BY <1>1 DEF GameOn, InitRoom
<1>3. ShipsOf(InitBoard) = {} /\ Struck(InitBoard) = {}
  BY DEF ShipsOf, Struck, InitBoard
<1>4. \A pl \in Players : ShipsOf(srv.boards[q][pl]) = {} /\ Struck(srv.boards[q][pl]) = {}
  BY <1>1, <1>3
<1>5. MatchOf(q)!Sides = Players
  BY DEF MatchOf!Sides, Players, ROOM_SIZE
<1> QED
  BY <1>2, <1>4, <1>5 DEF MatchOf!MatchInit, MatchOf!NoCells

(* What a step of the server does to a room is a step of Match.tla, or     *)
(* changes nothing of what Match.tla sees.                                 *)
LEMMA MatchStep ==
    ASSUME BoardsIn(srv, SinkableBoard), BoardsIn(srv', SinkableBoard),
           IInv, IInv', NEW q \in Rooms, BoardFit(srv, q), RoomStep(srv, srv', q)
    PROVE  UNCHANGED MatchOf(q)!matchVars \/ MatchOf(q)!MatchNext
<1> DEFINE on     == GameOn(q)
           turn   == IF GameOn(q) THEN srv.rooms[q].current_turn ELSE 0
           fleet  == [pl \in Players |-> ShipsOf(srv.boards[q][pl])]
           struck == [pl \in Players |-> Struck(srv.boards[q][pl])]
           old    == srv.boards[q]
           new    == srv'.boards[q]
           none   == [pl \in Players |-> {}]
<1>1. /\ on <=> OnIn(srv, q)
      /\ on' <=> OnIn(srv', q)
      /\ on \in BOOLEAN /\ on' \in BOOLEAN
  BY DEF GameOn, OnIn, IInv, Good, TypedState, Room
<1>2. /\ turn = IF on THEN srv.rooms[q].current_turn ELSE 0
      /\ turn' = IF on' THEN srv'.rooms[q].current_turn ELSE 0
  OBVIOUS
<1>3. /\ old \in [Players -> SinkableBoard]
      /\ new \in [Players -> SinkableBoard]
  BY DEF BoardsIn
<1>4. /\ fleet = [pl \in Players |-> ShipsOf(old[pl])]
      /\ fleet' = [pl \in Players |-> ShipsOf(new[pl])]
      /\ struck = [pl \in Players |-> Struck(old[pl])]
      /\ struck' = [pl \in Players |-> Struck(new[pl])]
  BY DEF ShipsOf, Struck
<1>5. MatchOf(q)!Sides = Players /\ MatchOf(q)!NoCells = none
  BY DEF MatchOf!Sides, MatchOf!NoCells, Players, ROOM_SIZE
<1>6. \A pl \in Players : 1 - pl \in Players /\ 1 - pl # pl /\ 1 - (1 - pl) = pl
  BY DEF Players, ROOM_SIZE
<1>7. srv.rooms[q].current_turn \in Players
  BY DEF IInv, Good, TypedState, Room
<1>8. CASE Untouched(srv, srv', q)
  <2>1. fleet' = fleet /\ struck' = struck
    BY <1>4, <1>8 DEF Untouched
  <2>2. \/ on' = on /\ turn' = turn
        \/ on /\ on' = FALSE /\ turn' = 0
    BY <1>1, <1>2, <1>8 DEF Untouched, Goes
  <2>3. CASE on' = on /\ turn' = turn
    BY <2>1, <2>3 DEF MatchOf!matchVars
  <2>4. CASE on /\ on' = FALSE /\ turn' = 0
    BY <2>1, <2>4 DEF MatchOf!MatchNext, MatchOf!Forfeit, MatchOf!Over
  <2> QED
    BY <2>2, <2>3, <2>4
<1>9. CASE Clears(srv, srv', q)
  <2>1. ~on /\ on' = on /\ turn' = turn
    BY <1>1, <1>2, <1>9 DEF Clears
  <2>2. \A pl \in Players : new[pl] = InitBoard
    BY <1>9 DEF Clears
  <2>3. ShipsOf(InitBoard) = {} /\ Struck(InitBoard) = {}
    BY DEF ShipsOf, Struck, InitBoard
  <2>4. fleet' = none /\ struck' = none
    BY <1>4, <2>2, <2>3
  <2>5. MatchOf(q)!Clear
    BY <1>5, <2>1, <2>4 DEF MatchOf!Clear
  <2> QED
    BY <2>5 DEF MatchOf!MatchNext
<1>10. CASE Arranges(srv, srv', q)
  <2>1. PICK pl \in Players, m \in Submissions :
            new = [old EXCEPT ![pl] = PlaceBoardShips(old[pl], m.ships)]
    BY <1>10, Zenon DEF Arranges
  <2> DEFINE placed == PlaceBoardShips(old[pl], m.ships)
  <2>2. ShipsOf(old[pl]) \subseteq ShipsOf(placed) /\ Struck(placed) = Struck(old[pl])
    <3>1. old[pl] \in Board
      BY <1>3 DEF SinkableBoard
    <3> QED
      BY <3>1, PlacedFleet, PlacedShipsStruck, SubmittedShips
  <2> HIDE DEF placed
  <2>3. /\ new[pl] = placed
        /\ \A o \in Players : o # pl => new[o] = old[o]
    BY <1>3, <2>1 DEF placed
  <2>4. \A o \in Players : Struck(old[o]) = {} /\ Struck(new[o]) = {}
    <3>1. \A o \in Players : Struck(old[o]) = {}
      BY <1>10 DEF BoardFit, Arranges, OnIn
    <3> QED
      BY <2>2, <2>3, <3>1
  <2>5. struck = none /\ struck' = struck
    BY <1>4, <2>4
  <2>6. /\ ~on /\ turn' = turn
    BY <1>1, <1>2, <1>10 DEF Arranges
  <2>7. /\ fleet' \in [Players -> SUBSET Coord]
        /\ fleet[pl] \subseteq fleet'[pl]
        /\ fleet'[1 - pl] = fleet[1 - pl]
    <3>1. \A b : ShipsOf(b) \subseteq Coord
      BY DEF ShipsOf
    <3> QED
      BY <1>4, <1>6, <2>2, <2>3, <3>1
  <2>8. MatchOf(q)!Arrange(pl)
    BY <1>1, <1>5, <2>5, <2>6, <2>7 DEF MatchOf!Arrange
  <2> QED
    BY <1>5, <2>8 DEF MatchOf!MatchNext
<1>11. CASE Fires(srv, srv', q)
  <2> DEFINE pl     == srv.rooms[q].current_turn
             target == old[1 - pl]
  <2>1. PICK c \in Coord :
            LET after  == BoardAfterShot(target, c[1], c[2])
                result == ShotAnswer(target, c[1], c[2])
            IN  /\ OnIn(srv, q)
                /\ new = [old EXCEPT ![1 - pl] = after]
                /\ OnIn(srv', q) =>
                      /\ ~AllShipsSunk(after)
                      /\ srv'.rooms[q].current_turn = IF result = "MISS" THEN 1 - pl ELSE pl
    BY <1>11, Zenon DEF Fires
  <2> DEFINE after  == BoardAfterShot(target, c[1], c[2])
             result == ShotAnswer(target, c[1], c[2])
  <2>2. 1 - pl \in Players /\ pl \in Players /\ target \in Board
    BY <1>3, <1>6, <1>7 DEF SinkableBoard
  <2>3. /\ ShipsOf(after) = ShipsOf(target)
        /\ Struck(after) = Struck(target) \cup {c}
        /\ c \in Struck(target) => after = target /\ result # "MISS"
        /\ c \notin Struck(target) => (result = "MISS" <=> c \notin ShipsOf(target))
    <3> HIDE DEF target
    <3> QED
      BY <2>2, ShotFleet
  <2>4. /\ on /\ turn = pl
        /\ new = [old EXCEPT ![1 - pl] = after]
        /\ on' => ~AllShipsSunk(after) /\ turn' = IF result = "MISS" THEN 1 - pl ELSE pl
        /\ ~on' => turn' = 0
    BY <1>1, <1>2, <2>1
  <2> HIDE DEF after, result, on, turn, fleet, struck
  <2>5. /\ new[1 - pl] = after
        /\ \A o \in Players : o # 1 - pl => new[o] = old[o]
    BY <1>3, <2>2, <2>4
  <2>6. fleet' = fleet
    BY <1>4, <2>3, <2>5
  <2>7. fleet[1 - pl] = ShipsOf(target) /\ struck[1 - pl] = Struck(target)
    BY <1>4, <2>2
  <2>8. struck' = [struck EXCEPT ![1 - pl] = struck[1 - pl] \cup {c}]
    BY <1>4, <2>2, <2>3, <2>5
  <2>9. CASE c \in Struck(target)
    <3>1. struck' = struck
      <4>1. new = old
        BY <1>3, <2>3, <2>4, <2>9
      <4> QED
        BY <1>4, <4>1
    <3>2. CASE on'
      <4>1. on' = on /\ turn' = turn
        BY <1>1, <2>3, <2>4, <2>9, <3>2
      <4> QED
        BY <2>6, <3>1, <4>1 DEF MatchOf!matchVars, on, turn, fleet, struck
    <3>3. CASE ~on'
      <4>1. on /\ on' = FALSE /\ turn' = 0
        BY <1>1, <2>4, <3>3
      <4> QED
        BY <2>6, <3>1, <4>1
           DEF MatchOf!MatchNext, MatchOf!Forfeit, MatchOf!Over, on, turn, fleet, struck
    <3> QED
      BY <3>2, <3>3
  <2>10. CASE c \notin Struck(target)
    <3>1. \/ on' = FALSE /\ turn' = 0
          \/ /\ ~(fleet[1 - pl] \subseteq struck'[1 - pl])
             /\ turn' = IF c \in fleet[1 - pl] THEN pl ELSE 1 - pl
             /\ on' = on
      <4>1. CASE ~on'
        BY <1>1, <2>4, <4>1
      <4>2. CASE on'
        <5>1. after \in SinkableBoard /\ ~AllShipsSunk(after)
          BY <1>3, <2>2, <2>4, <2>5, <4>2
        <5>2. ~(ShipsOf(after) \subseteq Struck(after))
          BY <5>1, UndecidedFleet
        <5>3. struck'[1 - pl] = Struck(after)
          BY <1>4, <2>2, <2>5
        <5> QED
          BY <1>1, <2>3, <2>4, <2>7, <2>10, <4>2, <5>2, <5>3
      <4> QED
        BY <4>1, <4>2
    <3>2. c \notin struck[1 - pl]
      BY <2>7, <2>10
    <3>3. MatchOf(q)!Fire(c)
      <4> DEFINE side == 1 - turn
      <4>1. side = 1 - pl /\ on /\ turn = pl
        BY <2>4
      <4>2. /\ c \notin struck[side]
            /\ struck' = [struck EXCEPT ![side] = struck[side] \cup {c}]
            /\ fleet' = fleet
            /\ \/ on' = FALSE /\ turn' = 0
               \/ /\ ~(fleet[side] \subseteq struck'[side])
                  /\ turn' = IF c \in fleet[side] THEN turn ELSE side
                  /\ on' = on
        <5> HIDE DEF side, pl, target
        <5> QED
          BY <2>6, <2>8, <3>1, <3>2, <4>1
      <4> HIDE DEF pl, target
      <4> QED
        BY <4>1, <4>2 DEF MatchOf!Fire, MatchOf!Over, on, turn, fleet, struck
    <3> QED
      BY <3>3 DEF MatchOf!MatchNext
  <2> QED
    BY <2>9, <2>10
<1> QED
  BY <1>8, <1>9, <1>10, <1>11 DEF RoomStep

(* Whoever comes, goes, is lost in the middle of a shot or comes back,     *)
(* every room plays matches by the rules of Match.tla: create_room clears  *)
(* the boards, MSG_SUBMIT_BOARD arranges a fleet and begins the game,      *)
(* MSG_SHOOT fires on the shooter's turn and ends the game with the last   *)
(* ship, and remove_client forfeits.  One thing breaks the rules, a board  *)
(* handed in during a game (BoardsOnlyWhileWaiting), so the theorem is     *)
(* about the behaviours without one; and it needs ships that can be sunk,  *)
(* as a game goes on without a cell left when one cannot.                  *)
THEOREM RoomsImplementMatch ==
    ASSUME ShipsCanSink
    PROVE  SessionSpec /\ [][~SubmitsInGame]_sessionVars => RoomsPlayMatches
<1>1. Closed(SinkableBoard)
  BY SinkableBoardClosed
<1>2. SessionInit => BoardInv(SinkableBoard)
  BY <1>1, InitBoardInv DEF SessionInit
<1>3. BoardInv(SinkableBoard) /\ [SessionNext]_sessionVars => BoardInv(SinkableBoard)'
  BY <1>1, SessionIsNext, NextBoardInv DEF BoardInv, BoardsIn, RoomIdsOK
<1>4. SessionInit => \A r \in Rooms : MatchOf(r)!MatchInit
  BY MatchInits
<1>5. /\ SessionIInv /\ SessionIInv'
      /\ BoardInv(SinkableBoard) /\ BoardInv(SinkableBoard)'
      /\ [SessionNext]_sessionVars /\ [~SubmitsInGame]_sessionVars
      => [\A r \in Rooms :
             UNCHANGED MatchOf(r)!matchVars \/ MatchOf(r)!MatchNext]_sessionVars
  <2> SUFFICES ASSUME SessionIInv, SessionIInv',
                      BoardInv(SinkableBoard), BoardInv(SinkableBoard)',
                      [SessionNext]_sessionVars, [~SubmitsInGame]_sessionVars,
                      NEW r \in Rooms
               PROVE  UNCHANGED MatchOf(r)!matchVars \/ MatchOf(r)!MatchNext
    OBVIOUS
  <2>1. RoomStep(srv, srv', r)
    BY StepPlays DEF Plays
  <2>2. IInv /\ IInv' /\ BoardFit(srv, r)
    BY RoomIsNotNull DEF SessionIInv, Sess
  <2>3. BoardsIn(srv, SinkableBoard) /\ BoardsIn(srv', SinkableBoard)
    BY DEF BoardInv, BoardsIn
  <2> QED
    BY <2>1, <2>2, <2>3, MatchStep
<1> QED
  BY <1>2, <1>3, <1>4, <1>5, SessionInvariance, PTL DEF SessionSpec, RoomsPlayMatches
=============================================================================
