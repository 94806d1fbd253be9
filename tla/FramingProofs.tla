---------------------------- MODULE FramingProofs ----------------------------
(***************************************************************************)
(* Proofs about Framing.tla for every set of connections and every size of *)
(* messages and buffers: its types, and that it implements Mailbox.        *)
(*                                                                         *)
(* Number the bytes a peer sends from 1 on.  The invariant says that what  *)
(* the server has handled, what it is receiving and what is in the pipe    *)
(* are, one after the other, the bytes sent so far.  Since a byte's number *)
(* determines its message and its place there, SIZE bytes received from    *)
(* the beginning of a message are that message.                            *)
(***************************************************************************)
EXTENDS Framing, SequenceTheorems, TLAPS

(* Bytes and messages.                                                     *)
Byte == Nat \X (1 .. SIZE)
Msg  == [1 .. SIZE -> Nat \X Nat]

(* The number of byte <<n, k>> in the stream.                              *)
Index(b) == (b[1] - 1) * SIZE + b[2]

BytesSent(c) == (sending[c] - 1) * SIZE + sent[c]

(* The bytes of c in receive_message's buffer.                             *)
Received(c) == IF reading = c THEN Len(data) ELSE 0

BytesTaken(c) == Len(handled[c]) * SIZE + Received(c)

(* The server has the first messages of c, whole and in order.             *)
HandledInOrder(c) ==
    /\ handled[c] \in Seq(Msg)
    /\ \A n \in 1 .. Len(handled[c]) : handled[c][n] = Whole(n)

(* As long as the server serves c, no byte is missing or out of place.     *)
StreamIntact(c) ==
    c \notin removed =>
        /\ BytesTaken(c) + Len(pipe[c]) = BytesSent(c)
        /\ \A k \in 1 .. Len(pipe[c]) : Index(pipe[c][k]) = BytesTaken(c) + k

(* A connection the server removed had ended and was read to the end.      *)
RemovedAtEnd(c) ==
    c \in removed =>
        /\ c \notin open
        /\ c \notin ready
        /\ reading # c
        /\ pipe[c] = << >>
        /\ Len(handled[c]) = Posted(c)

(* The buffer holds the beginning of the message after the last handled.   *)
BufferInOrder ==
    /\ reading \notin ready
    /\ reading = NoConn => data = << >>
    /\ \A k \in 1 .. Len(data) : data[k] = <<Len(handled[reading]) + 1, k>>

Types ==
    /\ sending \in [Conns -> 0 .. MaxMessages]
    /\ sent \in [Conns -> 0 .. SIZE]
    /\ pipe \in [Conns -> Seq(Byte)]
    /\ \A c \in Conns : Len(pipe[c]) <= CAPACITY
    /\ \A c \in Conns : sending[c] = 0 => sent[c] = SIZE
    /\ open \subseteq Conns
    /\ ready \subseteq Conns
    /\ reading \in Conns \cup {NoConn}
    /\ data \in Seq(Nat \X Nat)
    /\ Len(data) < SIZE
    /\ handled \in [Conns -> Seq(Msg)]
    /\ removed \subseteq Conns

IInv ==
    /\ Types
    /\ \A c \in Conns : HandledInOrder(c) /\ StreamIntact(c) /\ RemovedAtEnd(c)
    /\ BufferInOrder

-----------------------------------------------------------------------------
(* Arithmetic of byte numbers                                              *)

LEMMA SizeType == SIZE \in Nat /\ SIZE >= 1 /\ NoConn \notin Conns
BY FramingAssumption DEF NoConn

(* A message before another one ends before it begins.                     *)
LEMMA MessagesApart ==
    ASSUME NEW m \in Int, NEW n \in Int, m < n
    PROVE  m * SIZE <= (n - 1) * SIZE
<1>1. n - 1 - m \in Nat
  OBVIOUS
<1>2. (n - 1 - m) * SIZE >= 0
  BY <1>1, SizeType
<1>3. (n - 1 - m) * SIZE = (n - 1) * SIZE - m * SIZE
  BY SizeType
<1> QED
  BY <1>2, <1>3, SizeType

(* A byte's number determines its message and its place there.             *)
LEMMA IndexInjective ==
    ASSUME NEW m \in Int, NEW n \in Int, NEW j \in 1 .. SIZE, NEW k \in 1 .. SIZE,
           (m - 1) * SIZE + j = (n - 1) * SIZE + k
    PROVE  m = n /\ j = k
<1>1. ASSUME NEW a \in Int, NEW b \in Int, NEW x \in 1 .. SIZE, NEW y \in 1 .. SIZE, a < b
      PROVE  (a - 1) * SIZE + x < (b - 1) * SIZE + y
  <2>1. a * SIZE <= (b - 1) * SIZE
    BY <1>1, MessagesApart
  <2>2. (a - 1) * SIZE = a * SIZE - SIZE
    BY SizeType
  <2> QED
    BY <2>1, <2>2, SizeType
<1>2. ~(m < n)
  BY <1>1, SizeType
<1>3. ~(n < m)
  BY <1>1, SizeType
<1>4. m = n
  BY <1>2, <1>3
<1> QED
  BY <1>4, SizeType

-----------------------------------------------------------------------------
(* The server never has more messages than were posted, and all of them    *)
(* when the pipe is empty.                                                 *)
LEMMA HandledWerePosted ==
    ASSUME IInv, NEW c \in Conns
    PROVE  /\ Posted(c) \in Nat /\ Len(handled[c]) \in Nat
           /\ Len(handled[c]) <= Posted(c)
<1>1. PICK h \in Nat : h = Len(handled[c])
  BY DEF IInv, Types
<1>2. PICK s \in Nat : s = sending[c]
  BY FramingAssumption DEF IInv, Types
<1>3. sent[c] \in 0 .. SIZE /\ (s = 0 => sent[c] = SIZE)
  BY <1>2 DEF IInv, Types
<1>4. Posted(c) \in Nat
  BY <1>2, <1>3 DEF Posted
<1>5. CASE c \in removed
  BY <1>4, <1>5 DEF IInv, RemovedAtEnd
<1>6. CASE c \notin removed
  <2>1. h * SIZE <= (s - 1) * SIZE + sent[c]
    <3>1. /\ BytesTaken(c) + Len(pipe[c]) = (s - 1) * SIZE + sent[c]
          /\ BytesTaken(c) = h * SIZE + Received(c)
      BY <1>1, <1>2, <1>6 DEF IInv, StreamIntact, BytesTaken, BytesSent
    <3>2. Received(c) \in Nat /\ Len(pipe[c]) \in Nat
      BY DEF IInv, Types, Received
    <3>3. h * SIZE \in Int /\ (s - 1) * SIZE \in Int
      BY SizeType
    <3> QED
      BY <3>1, <3>2, <3>3, <1>3, SizeType
  <2>2. CASE h > s
    <3>1. s * SIZE <= (h - 1) * SIZE
      BY <2>2, MessagesApart
    <3>2. (h - 1) * SIZE = h * SIZE - SIZE /\ (s - 1) * SIZE = s * SIZE - SIZE
      BY SizeType
    <3>3. h * SIZE \in Int /\ s * SIZE \in Int
      BY SizeType
    <3> QED
      BY <1>3, <2>1, <3>1, <3>2, <3>3, SizeType
  <2>3. CASE h = s
    <3>1. (s - 1) * SIZE = s * SIZE - SIZE /\ s * SIZE \in Int
      BY SizeType
    <3>2. sent[c] = SIZE
      BY <1>3, <2>1, <2>3, <3>1, SizeType
    <3> QED
      BY <1>1, <1>2, <1>4, <2>3, <3>2 DEF Posted
  <2>4. CASE h < s
    BY <1>1, <1>2, <1>4, <2>4 DEF Posted
  <2> QED
    BY <2>2, <2>3, <2>4
<1> QED
  BY <1>5, <1>6

NeverAhead == \A c \in Conns : Len(handled[c]) <= Posted(c)

LEMMA HandledPosted == IInv => NeverAhead
BY HandledWerePosted DEF NeverAhead

LEMMA AllHandledAtEnd ==
    ASSUME IInv, NEW c \in Conns, reading = c, pipe[c] = << >>
    PROVE  Len(handled[c]) = Posted(c)
<1>1. PICK h \in Nat : h = Len(handled[c])
  BY DEF IInv, Types
<1>2. PICK s \in Nat : s = sending[c]
  BY FramingAssumption DEF IInv, Types
<1>3. sent[c] \in 0 .. SIZE /\ Len(data) \in Nat /\ Len(data) < SIZE
  BY <1>2 DEF IInv, Types
<1>4. h * SIZE + Len(data) = (s - 1) * SIZE + sent[c]
  <2>1. /\ BytesTaken(c) + Len(pipe[c]) = (s - 1) * SIZE + sent[c]
        /\ BytesTaken(c) = h * SIZE + Len(data)
        /\ Len(pipe[c]) = 0
    BY <1>1, <1>2 DEF IInv, StreamIntact, RemovedAtEnd, BytesTaken, BytesSent, Received
  <2>2. h * SIZE \in Int
    BY SizeType
  <2> QED
    BY <1>3, <2>1, <2>2
<1>5. (h - 1) * SIZE = h * SIZE - SIZE /\ (s - 1 - 1) * SIZE = (s - 1) * SIZE - SIZE
  BY SizeType
<1>6. h * SIZE \in Int /\ (s - 1) * SIZE \in Int
  BY SizeType
<1>7. CASE sent[c] = SIZE
  <2>1. h \in Int /\ s \in Int /\ h + 1 \in Int /\ (h + 1 - 1) * SIZE = h * SIZE
    BY SizeType
  <2>2. CASE Len(data) = 0
    <3>1. (h - 1) * SIZE + SIZE = (s - 1) * SIZE + SIZE
      BY <1>4, <1>5, <1>6, <1>7, <2>2, SizeType
    <3>2. h = s
      BY <3>1, IndexInjective, SizeType
    <3> QED
      BY <1>1, <1>2, <1>7, <3>2 DEF Posted
  <2>3. CASE Len(data) # 0
    <3>1. (h + 1 - 1) * SIZE + Len(data) = (s - 1) * SIZE + SIZE
      BY <1>4, <1>7, <2>1
    <3>2. Len(data) \in 1 .. SIZE /\ SIZE \in 1 .. SIZE
      BY <1>3, <2>3, SizeType
    <3>3. Len(data) = SIZE
      BY <2>1, <3>1, <3>2, IndexInjective
    <3> QED
      BY <1>3, <3>3, SizeType
  <2> QED
    BY <2>2, <2>3
<1>8. CASE sent[c] < SIZE
  <2>1. PICK m \in Int : m = h + 1
    OBVIOUS
  <2>2. m - 1 = h
    BY <2>1
  <2>3. (m - 1) * SIZE + (Len(data) + 1) = (s - 1) * SIZE + (sent[c] + 1)
    BY <1>3, <1>4, <1>6, <2>2
  <2>4. Len(data) + 1 \in 1 .. SIZE /\ sent[c] + 1 \in 1 .. SIZE /\ s \in Int
    BY <1>3, <1>8, SizeType
  <2>5. m = s
    BY <2>3, <2>4, IndexInjective
  <2>6. Posted(c) = s - 1
    BY <1>2, <1>3, <1>8, SizeType DEF Posted
  <2> QED
    BY <1>1, <2>1, <2>5, <2>6
<1> QED
  BY <1>3, <1>7, <1>8, SizeType

-----------------------------------------------------------------------------
(* The steps keep the invariant.                                           *)

(* Nothing is said of a connection that its own state does not determine.  *)
ConnInv(c) == HandledInOrder(c) /\ StreamIntact(c) /\ RemovedAtEnd(c)

LEMMA ConnKept ==
    ASSUME NEW c \in Conns, ConnInv(c),
           sending'[c] = sending[c], sent'[c] = sent[c], pipe'[c] = pipe[c],
           handled'[c] = handled[c], Received(c)' = Received(c),
           c \in removed' => c \in removed,
           c \in removed => c \in removed',
           c \in open' => c \in open,
           c \in removed => c \notin ready' /\ reading' # c
    PROVE  ConnInv(c)'
BY DEF ConnInv, HandledInOrder, StreamIntact, RemovedAtEnd, Posted, BytesTaken, BytesSent

LEMMA InitIInv == Init => IInv
<1> SUFFICES ASSUME Init PROVE IInv
  OBVIOUS
<1>1. Types
  BY FramingAssumption, SizeType DEF Init, Types
<1>2. ASSUME NEW c \in Conns PROVE ConnInv(c)
  <2>1. Received(c) = 0
    BY SizeType DEF Init, Received
  <2>2. BytesSent(c) = 0 /\ BytesTaken(c) = 0
    BY <2>1, SizeType DEF Init, BytesSent, BytesTaken
  <2> QED
    BY <2>2 DEF Init, ConnInv, HandledInOrder, StreamIntact, RemovedAtEnd
<1>3. BufferInOrder
  BY DEF Init, BufferInOrder
<1> QED
  BY <1>1, <1>2, <1>3 DEF IInv, ConnInv

LEMMA BeginSendIInv ==
    ASSUME IInv, NEW c \in Conns, BeginSend(c)
    PROVE  IInv'
<1> USE DEF BeginSend, serverVars
<1>1. /\ sending' = [sending EXCEPT ![c] = @ + 1]
      /\ sent' = [sent EXCEPT ![c] = 0]
      /\ c \in open /\ sent[c] = SIZE
  BY SizeType DEF InSend, IInv, Types
<1>2. Types'
  <2>1. sending[c] \in 0 .. MaxMessages /\ sending[c] < MaxMessages
    BY DEF IInv, Types
  <2>2. sending' \in [Conns -> 0 .. MaxMessages]
    BY <1>1, <2>1, FramingAssumption DEF IInv, Types
  <2>3. sent' \in [Conns -> 0 .. SIZE]
    BY <1>1, SizeType DEF IInv, Types
  <2>4. \A d \in Conns : sending'[d] = 0 => sent'[d] = SIZE
    BY <1>1, <2>1 DEF IInv, Types
  <2> QED
    BY <2>2, <2>3, <2>4 DEF IInv, Types
<1>3. ASSUME NEW d \in Conns PROVE ConnInv(d)'
  <2>1. Received(d)' = Received(d)
    BY DEF Received
  <2>2. CASE d # c
    BY <2>1, <2>2, ConnKept DEF IInv, Types, ConnInv, RemovedAtEnd
  <2>3. CASE d = c
    <3>1. sending'[c] = sending[c] + 1 /\ sent'[c] = 0 /\ c \notin removed
      BY <1>1 DEF IInv, Types, RemovedAtEnd
    <3>2. BytesSent(c)' = BytesSent(c)
      BY <1>1, <3>1, SizeType DEF BytesSent, IInv, Types
    <3>3. BytesTaken(c)' = BytesTaken(c)
      BY <2>1, <2>3 DEF BytesTaken
    <3> QED
      BY <2>3, <3>1, <3>2, <3>3 DEF IInv, ConnInv, HandledInOrder, StreamIntact, RemovedAtEnd
  <2> QED
    BY <2>2, <2>3
<1>4. BufferInOrder'
  BY DEF IInv, BufferInOrder
<1> QED
  BY <1>2, <1>3, <1>4 DEF IInv, ConnInv

LEMMA SendSomeIInv ==
    ASSUME IInv, NEW c \in Conns, SendSome(c)
    PROVE  IInv'
<1>1. PICK n \in 1 .. Offered(c) :
          /\ Len(pipe[c]) + n <= CAPACITY
          /\ pipe' = [pipe EXCEPT ![c] = @ \o [k \in 1 .. n |-> <<sending[c], sent[c] + k>>]]
          /\ sent' = [sent EXCEPT ![c] = @ + n]
  BY DEF SendSome
<1> DEFINE more == [k \in 1 .. n |-> <<sending[c], sent[c] + k>>]
<1>2. /\ sending' = sending /\ open' = open /\ ready' = ready /\ reading' = reading
      /\ data' = data /\ handled' = handled /\ removed' = removed
      /\ c \in open /\ sent[c] < SIZE
  BY DEF SendSome, InSend, serverVars
<1>3. /\ sending[c] \in Nat /\ sent[c] \in Nat /\ n \in Nat /\ n >= 1
      /\ sent[c] + n <= SIZE
      /\ sending[c] >= 1
  <2>1. sending[c] \in 0 .. MaxMessages /\ sent[c] \in 0 .. SIZE
    BY DEF IInv, Types
  <2>2. sending[c] # 0
    BY <1>2, SizeType DEF IInv, Types
  <2> QED
    BY <2>1, <2>2, FramingAssumption, SizeType DEF Offered
<1>4. more \in Seq(Byte) /\ Len(more) = n
  BY <1>3, SizeType DEF Byte
<1>5. \A k \in 1 .. n : more[k] = <<sending[c], sent[c] + k>>
  OBVIOUS
<1> HIDE DEF more
<1>6. pipe[c] \in Seq(Byte)
  BY DEF IInv, Types
<1>7. /\ pipe'[c] = pipe[c] \o more
      /\ \A d \in Conns : d # c => pipe'[d] = pipe[d] /\ sent'[d] = sent[d]
      /\ sent'[c] = sent[c] + n
  BY <1>1 DEF IInv, Types, more
<1>8. /\ pipe'[c] \in Seq(Byte)
      /\ Len(pipe'[c]) = Len(pipe[c]) + n
      /\ Len(pipe[c]) \in Nat
      /\ \A k \in 1 .. Len(pipe[c]) + n : pipe'[c][k] =
              IF k <= Len(pipe[c]) THEN pipe[c][k] ELSE more[k - Len(pipe[c])]
  <2>1. /\ pipe[c] \o more \in Seq(Byte)
        /\ Len(pipe[c] \o more) = Len(pipe[c]) + Len(more)
        /\ \A k \in 1 .. Len(pipe[c]) + Len(more) : (pipe[c] \o more)[k] =
              IF k <= Len(pipe[c]) THEN pipe[c][k] ELSE more[k - Len(pipe[c])]
    BY <1>4, <1>6, ConcatProperties
  <2> QED
    BY <2>1, <1>4, <1>6, <1>7
<1>9. Types'
  <2>1. pipe' \in [Conns -> Seq(Byte)]
    <3>1. pipe' = [pipe EXCEPT ![c] = pipe[c] \o more]
      BY <1>1 DEF more
    <3> QED
      BY <3>1, <1>7, <1>8 DEF IInv, Types
  <2>2. \A d \in Conns : Len(pipe'[d]) <= CAPACITY
    BY <1>1, <1>7, <1>8 DEF IInv, Types
  <2>3. sent' \in [Conns -> 0 .. SIZE]
    BY <1>1, <1>3, SizeType DEF IInv, Types
  <2>4. \A d \in Conns : sending'[d] = 0 => sent'[d] = SIZE
    BY <1>2, <1>3, <1>7 DEF IInv, Types
  <2> QED
    BY <1>2, <2>1, <2>2, <2>3, <2>4 DEF IInv, Types
<1>10. ASSUME NEW d \in Conns PROVE ConnInv(d)'
  <2>1. Received(d)' = Received(d)
    BY <1>2 DEF Received
  <2>2. CASE d # c
    BY <1>2, <1>7, <2>1, <2>2, ConnKept DEF IInv, Types, ConnInv, RemovedAtEnd
  <2>3. CASE d = c
    <3>1. c \notin removed
      BY <1>2 DEF IInv, RemovedAtEnd
    <3>2. BytesTaken(c)' = BytesTaken(c)
      BY <1>2, <2>1, <2>3 DEF BytesTaken
    <3>3. BytesSent(c)' = BytesSent(c) + n
      BY <1>2, <1>3, <1>7, SizeType DEF BytesSent
    <3>4. BytesTaken(c) + Len(pipe[c]) = BytesSent(c) /\ BytesTaken(c) \in Int
          /\ \A k \in 1 .. Len(pipe[c]) : Index(pipe[c][k]) = BytesTaken(c) + k
      <4>1. Len(handled[c]) \in Nat /\ Received(c) \in Nat
        BY DEF IInv, Types, Received
      <4> QED
        BY <3>1, <4>1, SizeType DEF IInv, StreamIntact, BytesTaken
    <3>5. ASSUME NEW k \in 1 .. Len(pipe'[c])
          PROVE  Index(pipe'[c][k]) = BytesTaken(c) + k
      <4>1. CASE k <= Len(pipe[c])
        BY <1>8, <3>4, <4>1
      <4>2. CASE k > Len(pipe[c])
        <5> DEFINE j == k - Len(pipe[c])
        <5>1. j \in 1 .. n /\ pipe'[c][k] = more[j]
          BY <1>3, <1>8, <4>2
        <5>2. more[j] = <<sending[c], sent[c] + j>>
          BY <1>5, <5>1
        <5>3. Index(more[j]) = (sending[c] - 1) * SIZE + (sent[c] + j)
          BY <5>2 DEF Index
        <5>4. (sending[c] - 1) * SIZE \in Int
          BY <1>3, SizeType
        <5>5. Index(more[j]) = BytesSent(c) + j
          BY <1>3, <5>1, <5>3, <5>4 DEF BytesSent
        <5> QED
          BY <3>4, <1>8, <5>1, <5>5
      <4> QED
        BY <1>8, <4>1, <4>2
    <3>6. BytesTaken(c) + Len(pipe'[c]) = BytesSent(c) + n
      BY <1>3, <1>8, <3>4
    <3> QED
      BY <1>2, <2>3, <3>1, <3>2, <3>3, <3>5, <3>6
         DEF IInv, ConnInv, HandledInOrder, StreamIntact, RemovedAtEnd
  <2> QED
    BY <2>2, <2>3
<1>11. BufferInOrder'
  BY <1>2 DEF IInv, BufferInOrder
<1> QED
  BY <1>9, <1>10, <1>11 DEF IInv, ConnInv

LEMMA EndIInv ==
    ASSUME IInv, NEW c \in Conns, End(c)
    PROVE  IInv'
<1>1. /\ open' = open \ {c}
      /\ sending' = sending /\ sent' = sent /\ pipe' = pipe /\ ready' = ready
      /\ reading' = reading /\ data' = data /\ handled' = handled /\ removed' = removed
  BY DEF End, serverVars
<1>2. Types'
  BY <1>1 DEF IInv, Types
<1>3. ASSUME NEW d \in Conns PROVE ConnInv(d)'
  <2>1. Received(d)' = Received(d)
    BY <1>1 DEF Received
  <2> QED
    BY <1>1, <2>1, ConnKept DEF IInv, ConnInv, RemovedAtEnd
<1>4. BufferInOrder'
  BY <1>1 DEF IInv, BufferInOrder
<1> QED
  BY <1>2, <1>3, <1>4 DEF IInv, ConnInv

LEMMA SelectIInv == ASSUME IInv, Select PROVE IInv'
<1>1. /\ ready' = {c \in Conns : Readable(c)} /\ reading = NoConn
      /\ sending' = sending /\ sent' = sent /\ pipe' = pipe /\ open' = open
      /\ reading' = reading /\ data' = data /\ handled' = handled /\ removed' = removed
  BY DEF Select, peerVars
<1>2. Types'
  BY <1>1 DEF IInv, Types
<1>3. ASSUME NEW d \in Conns PROVE ConnInv(d)'
  <2>1. Received(d)' = Received(d)
    BY <1>1 DEF Received
  <2>2. d \in removed => d \notin ready'
    BY <1>1 DEF Readable
  <2> QED
    BY <1>1, <2>1, <2>2, ConnKept DEF IInv, ConnInv, RemovedAtEnd
<1>4. BufferInOrder'
  BY <1>1, SizeType DEF IInv, BufferInOrder
<1> QED
  BY <1>2, <1>3, <1>4 DEF IInv, ConnInv

LEMMA BeginReceiveIInv ==
    ASSUME IInv, NEW c \in Conns, BeginReceive(c)
    PROVE  IInv'
<1>1. /\ reading = NoConn /\ reading' = c /\ c \in ready
      /\ data' = << >> /\ ready' = ready \ {c}
      /\ sending' = sending /\ sent' = sent /\ pipe' = pipe /\ open' = open
      /\ handled' = handled /\ removed' = removed
  BY DEF BeginReceive, peerVars
<1>2. Types'
  BY <1>1, SizeType DEF IInv, Types
<1>3. ASSUME NEW d \in Conns PROVE ConnInv(d)'
  <2>1. Received(d)' = Received(d)
    BY <1>1, SizeType DEF Received
  <2>2. d \in removed => d \notin ready' /\ reading' # d
    BY <1>1 DEF IInv, RemovedAtEnd
  <2> QED
    BY <1>1, <2>1, <2>2, ConnKept DEF IInv, ConnInv
<1>4. BufferInOrder'
  BY <1>1, SizeType DEF BufferInOrder
<1> QED
  BY <1>2, <1>3, <1>4 DEF IInv, ConnInv

(* The bytes at the front of the pipe continue the message being received. *)
LEMMA FrontOfPipe ==
    ASSUME IInv, NEW c \in Conns, reading = c,
           NEW k \in 1 .. Len(pipe[c]), Len(data) + k <= SIZE
    PROVE  pipe[c][k] = <<Len(handled[c]) + 1, Len(data) + k>>
<1> DEFINE b == pipe[c][k]
           h == Len(handled[c])
<1>1. b \in Byte /\ h \in Nat /\ Len(data) \in Nat
  BY DEF IInv, Types
<1>2. Index(b) = h * SIZE + Len(data) + k
  BY DEF IInv, StreamIntact, RemovedAtEnd, BytesTaken, Received
<1>3. (b[1] - 1) * SIZE + b[2] = ((h + 1) - 1) * SIZE + (Len(data) + k)
  <2>1. h * SIZE \in Int /\ (h + 1) - 1 = h
    BY <1>1, SizeType
  <2> QED
    BY <1>1, <1>2, <2>1 DEF Index
<1>4. b[1] \in Int /\ b[2] \in 1 .. SIZE /\ b = <<b[1], b[2]>>
  BY <1>1 DEF Byte
<1>5. h + 1 \in Int /\ Len(data) + k \in 1 .. SIZE
  BY <1>1, SizeType
<1> HIDE DEF b, h
<1>6. b[1] = h + 1 /\ b[2] = Len(data) + k
  BY <1>3, <1>4, <1>5, IndexInjective
<1> QED
  BY <1>4, <1>6 DEF b, h

LEMMA ReceiveSomeIInv ==
    ASSUME IInv, NEW c \in Conns, ReceiveSome(c)
    PROVE  IInv'
<1> DEFINE got(n) == data \o SubSeq(pipe[c], 1, n)
<1>1. /\ reading = c
      /\ sending' = sending /\ sent' = sent /\ open' = open
      /\ ready' = ready /\ removed' = removed
  BY DEF ReceiveSome, peerVars
<1>2. PICK n \in 1 .. Wanted :
          /\ n <= Len(pipe[c])
          /\ pipe' = [pipe EXCEPT ![c] = SubSeq(@, n + 1, Len(@))]
          /\ IF Len(got(n)) < SIZE
             THEN data' = got(n) /\ UNCHANGED <<reading, handled>>
             ELSE /\ handled' = [handled EXCEPT ![c] = Append(@, got(n))]
                  /\ data' = << >>
                  /\ reading' = NoConn
  BY DEF ReceiveSome
<1> DEFINE g == got(n)
<1>3. PICK h \in Nat : h = Len(handled[c])
  BY DEF IInv, Types
<1>4. pipe[c] \in Seq(Byte) /\ data \in Seq(Nat \X Nat) /\ handled[c] \in Seq(Msg)
  BY DEF IInv, Types
<1>5. /\ Len(pipe[c]) \in Nat /\ Len(data) \in Nat /\ n \in Nat /\ n >= 1
      /\ Len(data) + n <= SIZE
  BY <1>4, SizeType DEF Wanted
<1>6. /\ SubSeq(pipe[c], 1, n) \in Seq(Nat \X Nat)
      /\ Len(SubSeq(pipe[c], 1, n)) = n
      /\ \A k \in 1 .. n : SubSeq(pipe[c], 1, n)[k] = <<h + 1, Len(data) + k>>
  <2>1. \A k \in 1 .. n : pipe[c][k] = <<h + 1, Len(data) + k>>
    <3> TAKE k \in 1 .. n
    <3>1. k \in 1 .. Len(pipe[c]) /\ Len(data) + k <= SIZE
      BY <1>2, <1>5, SizeType
    <3> QED
      BY <1>3, <1>1, <3>1, FrontOfPipe
  <2>2. \A k \in 1 .. n : pipe[c][k] \in Nat \X Nat
    <3> TAKE k \in 1 .. n
    <3>1. h + 1 \in Nat /\ Len(data) + k \in Nat
      BY <1>5
    <3>2. pipe[c][k] = <<h + 1, Len(data) + k>>
      BY <2>1
    <3> QED
      BY <3>1, <3>2
  <2>3. /\ SubSeq(pipe[c], 1, n) \in Seq(Nat \X Nat)
        /\ Len(SubSeq(pipe[c], 1, n)) = IF 1 <= n THEN n - 1 + 1 ELSE 0
        /\ \A k \in 1 .. n - 1 + 1 : SubSeq(pipe[c], 1, n)[k] = pipe[c][1 + k - 1]
    BY <1>5, <1>4, <2>2, SubSeqProperties
  <2> QED
    BY <1>5, <2>1, <2>3
<1>7. /\ g \in Seq(Nat \X Nat)
      /\ Len(g) = Len(data) + n
      /\ \A k \in 1 .. Len(g) : g[k] = <<h + 1, k>>
  <2> DEFINE more == SubSeq(pipe[c], 1, n)
  <2>1. /\ data \o more \in Seq(Nat \X Nat)
        /\ Len(data \o more) = Len(data) + Len(more)
        /\ \A k \in 1 .. Len(data) + Len(more) : (data \o more)[k] =
                IF k <= Len(data) THEN data[k] ELSE more[k - Len(data)]
    BY <1>6, <1>4, ConcatProperties
  <2>2. \A k \in 1 .. Len(data) : data[k] = <<h + 1, k>>
    BY <1>3, <1>1 DEF IInv, BufferInOrder
  <2> HIDE DEF more
  <2>3. ASSUME NEW k \in 1 .. Len(data) + n PROVE (data \o more)[k] = <<h + 1, k>>
    <3>1. CASE k <= Len(data)
      BY <1>5, <1>6, <2>1, <2>2, <3>1 DEF more
    <3>2. CASE k > Len(data)
      <4>1. (data \o more)[k] = more[k - Len(data)] /\ k - Len(data) \in 1 .. n
        BY <1>5, <1>6, <2>1, <3>2 DEF more
      <4>2. more[k - Len(data)] = <<h + 1, Len(data) + (k - Len(data))>>
        BY <1>6, <4>1 DEF more
      <4>3. Len(data) + (k - Len(data)) = k
        BY <1>5
      <4> QED
        BY <4>1, <4>2, <4>3
    <3>3. k <= Len(data) \/ k > Len(data)
      BY <1>5
    <3> QED
      BY <3>1, <3>2, <3>3
  <2> QED
    BY <1>6, <2>1, <2>3 DEF more
<1>8. /\ pipe'[c] \in Seq(Byte)
      /\ Len(pipe'[c]) = Len(pipe[c]) - n
      /\ \A k \in 1 .. Len(pipe'[c]) : pipe'[c][k] = pipe[c][n + k]
      /\ \A d \in Conns : d # c => pipe'[d] = pipe[d]
      /\ pipe' \in [Conns -> Seq(Byte)]
  <2> DEFINE rest == SubSeq(pipe[c], n + 1, Len(pipe[c]))
  <2>1. pipe' = [pipe EXCEPT ![c] = rest]
    BY <1>2
  <2>2. \A k \in n + 1 .. Len(pipe[c]) : pipe[c][k] \in Byte
    BY <1>5, <1>4
  <2>3. /\ rest \in Seq(Byte)
        /\ Len(rest) = IF n + 1 <= Len(pipe[c]) THEN Len(pipe[c]) - (n + 1) + 1 ELSE 0
        /\ \A k \in 1 .. Len(pipe[c]) - (n + 1) + 1 : rest[k] = pipe[c][n + 1 + k - 1]
    BY <1>5, <2>2, SubSeqProperties
  <2>4. /\ rest \in Seq(Byte) /\ Len(rest) = Len(pipe[c]) - n
        /\ \A k \in 1 .. Len(rest) : rest[k] = pipe[c][n + k]
    <3> HIDE DEF rest
    <3>1. rest \in Seq(Byte)
      BY <2>3
    <3>2. Len(rest) = Len(pipe[c]) - n
      BY <1>2, <1>5, <2>3
    <3>3. ASSUME NEW k \in 1 .. Len(rest) PROVE rest[k] = pipe[c][n + k]
      <4>1. k \in 1 .. Len(pipe[c]) - (n + 1) + 1 /\ n + 1 + k - 1 = n + k
        BY <1>2, <1>5, <3>2
      <4>2. rest[k] = pipe[c][n + 1 + k - 1]
        BY <2>3, <4>1
      <4> QED
        BY <4>1, <4>2
    <3> QED
      BY <3>1, <3>2, <3>3
  <2> HIDE DEF rest
  <2> QED
    BY <2>1, <2>4 DEF IInv, Types
<1> HIDE DEF g
<1>9. Len(g) < SIZE \/ Len(g) = SIZE
  BY <1>5, <1>7, SizeType
<1>10. c \notin removed
  BY <1>1 DEF IInv, RemovedAtEnd
<1>11. CASE Len(g) < SIZE
  <2>1. data' = g /\ reading' = reading /\ handled' = handled
    BY <1>2, <1>11 DEF g
  <2>2. Types'
    <3>1. \A d \in Conns : Len(pipe'[d]) <= CAPACITY
      <4>1. CAPACITY \in Nat /\ \A d \in Conns : Len(pipe[d]) <= CAPACITY
        BY FramingAssumption DEF IInv, Types
      <4>2. Len(pipe'[c]) <= CAPACITY
        BY <1>5, <1>8, <4>1
      <4> QED
        BY <1>8, <4>1, <4>2
    <3> QED
      BY <1>1, <1>7, <1>8, <1>11, <2>1, <3>1 DEF IInv, Types
  <2>3. ASSUME NEW d \in Conns, d # c PROVE ConnInv(d)'
    <3>1. Received(d)' = Received(d)
      BY <1>1, <2>1, <2>3 DEF Received
    <3> QED
      BY <1>1, <1>8, <2>1, <2>3, <3>1, ConnKept DEF IInv, ConnInv, RemovedAtEnd
  <2>4. BytesTaken(c)' = BytesTaken(c) + n /\ BytesTaken(c) \in Int
    <3>1. h * SIZE \in Int
      BY SizeType
    <3>2. BytesTaken(c) = h * SIZE + Len(data) /\ BytesTaken(c)' = h * SIZE + Len(g)
      BY <1>3, <1>1, <2>1 DEF BytesTaken, Received
    <3>3. Len(g) = Len(data) + n /\ Len(data) \in Int /\ n \in Int
      BY <1>5, <1>7
    <3> DEFINE whole == h * SIZE
    <3>4. /\ whole \in Int
          /\ BytesTaken(c) = whole + Len(data) /\ BytesTaken(c)' = whole + Len(g)
      BY <3>1, <3>2
    <3> HIDE DEF whole
    <3> QED
      BY <3>3, <3>4
  <2>5. ConnInv(c)'
    <3>1. HandledInOrder(c)'
      BY <2>1 DEF IInv, HandledInOrder
    <3>2. /\ BytesTaken(c) + Len(pipe[c]) = BytesSent(c)
          /\ \A k \in 1 .. Len(pipe[c]) : Index(pipe[c][k]) = BytesTaken(c) + k
      BY <1>10 DEF IInv, StreamIntact
    <3>3. BytesTaken(c)' + Len(pipe'[c]) = BytesSent(c)'
      BY <1>1, <1>5, <1>8, <2>4, <3>2 DEF BytesSent
    <3>4. \A k \in 1 .. Len(pipe'[c]) : Index(pipe'[c][k]) = BytesTaken(c)' + k
      BY <1>2, <1>5, <1>8, <2>4, <3>2
    <3> QED
      BY <1>1, <1>10, <3>1, <3>3, <3>4 DEF ConnInv, StreamIntact, RemovedAtEnd
  <2>6. BufferInOrder'
    BY <1>3, <1>1, <1>7, <2>1, SizeType DEF IInv, BufferInOrder
  <2> QED
    BY <2>2, <2>3, <2>5, <2>6 DEF IInv, ConnInv
<1>12. CASE Len(g) = SIZE
  <2>1. /\ handled' = [handled EXCEPT ![c] = Append(@, g)]
        /\ data' = << >> /\ reading' = NoConn
    BY <1>2, <1>12, SizeType DEF g
  <2>2. g = Whole(h + 1) /\ g \in Msg
    <3>1. g = [k \in 1 .. SIZE |-> <<h + 1, k>>]
      BY <1>7, <1>12
    <3>2. h + 1 \in Nat /\ \A k \in 1 .. SIZE : <<h + 1, k>> \in Nat \X Nat
      BY <1>5, SizeType
    <3> QED
      BY <3>1, <3>2 DEF Whole, Msg
  <2>3. /\ handled'[c] \in Seq(Msg)
        /\ Len(handled'[c]) = h + 1
        /\ \A m \in 1 .. h : handled'[c][m] = handled[c][m]
        /\ handled'[c][h + 1] = g
        /\ \A d \in Conns : d # c => handled'[d] = handled[d]
        /\ handled' \in [Conns -> Seq(Msg)]
    <3>1. /\ Append(handled[c], g) \in Seq(Msg)
          /\ Len(Append(handled[c], g)) = h + 1
          /\ \A m \in 1 .. h : Append(handled[c], g)[m] = handled[c][m]
          /\ Append(handled[c], g)[h + 1] = g
      BY <1>3, <1>4, <2>2, AppendProperties
    <3> QED
      BY <2>1, <3>1 DEF IInv, Types
  <2>4. Types'
    <3>1. \A d \in Conns : Len(pipe'[d]) <= CAPACITY
      <4>1. CAPACITY \in Nat /\ \A d \in Conns : Len(pipe[d]) <= CAPACITY
        BY FramingAssumption DEF IInv, Types
      <4>2. Len(pipe'[c]) <= CAPACITY
        BY <1>5, <1>8, <4>1
      <4> QED
        BY <1>8, <4>1, <4>2
    <3>2. data' \in Seq(Nat \X Nat) /\ Len(data') < SIZE
      BY <2>1, SizeType
    <3> QED
      BY <1>1, <1>8, <2>1, <2>3, <3>1, <3>2 DEF IInv, Types
  <2>5. ASSUME NEW d \in Conns, d # c PROVE ConnInv(d)'
    <3>1. Received(d)' = Received(d)
      BY <1>1, <2>1, <2>5, SizeType DEF Received
    <3>2. reading' # d
      BY <2>1, SizeType
    <3> QED
      BY <1>1, <1>8, <2>3, <2>5, <3>1, <3>2, ConnKept DEF IInv, ConnInv, RemovedAtEnd
  <2>6. BytesTaken(c)' = BytesTaken(c) + n /\ BytesTaken(c) \in Int
    <3>1. h * SIZE \in Int /\ (h + 1) * SIZE = h * SIZE + SIZE
      BY <1>5, SizeType
    <3>2. BytesTaken(c) = h * SIZE + Len(data)
      BY <1>3, <1>1 DEF BytesTaken, Received
    <3>3. BytesTaken(c)' = (h + 1) * SIZE + 0
      BY <2>1, <2>3, SizeType DEF BytesTaken, Received
    <3>4. BytesTaken(c)' = h * SIZE + SIZE
      BY <3>1, <3>3, SizeType
    <3>5. SIZE = Len(data) + n
      BY <1>7, <1>12
    <3> HIDE <3>3
    <3> QED
      BY <1>5, <3>1, <3>2, <3>4, <3>5
  <2>7. ConnInv(c)'
    <3>1. HandledInOrder(c)'
      <4>1. \A m \in 1 .. h : handled[c][m] = Whole(m)
        BY <1>3 DEF IInv, HandledInOrder
      <4>2. \A m \in 1 .. h + 1 : handled'[c][m] = Whole(m)
        BY <1>5, <2>2, <2>3, <4>1
      <4> QED
        BY <2>3, <4>2 DEF HandledInOrder
    <3>2. /\ BytesTaken(c) + Len(pipe[c]) = BytesSent(c)
          /\ \A k \in 1 .. Len(pipe[c]) : Index(pipe[c][k]) = BytesTaken(c) + k
      BY <1>10 DEF IInv, StreamIntact
    <3>3. BytesTaken(c)' + Len(pipe'[c]) = BytesSent(c)'
      BY <1>1, <1>5, <1>8, <2>6, <3>2 DEF BytesSent
    <3>4. \A k \in 1 .. Len(pipe'[c]) : Index(pipe'[c][k]) = BytesTaken(c)' + k
      BY <1>2, <1>5, <1>8, <2>6, <3>2
    <3> QED
      BY <1>1, <1>10, <3>1, <3>3, <3>4 DEF ConnInv, StreamIntact, RemovedAtEnd
  <2>8. BufferInOrder'
    BY <1>1, <2>1, SizeType DEF IInv, Types, BufferInOrder
  <2> QED
    BY <2>4, <2>5, <2>7, <2>8 DEF IInv, ConnInv
<1> QED
  BY <1>9, <1>11, <1>12

LEMMA ReceiveFailsIInv ==
    ASSUME IInv, NEW c \in Conns, ReceiveFails(c)
    PROVE  IInv'
<1>1. /\ reading = c /\ pipe[c] = << >> /\ c \notin open
      /\ removed' = removed \cup {c} /\ data' = << >> /\ reading' = NoConn
      /\ sending' = sending /\ sent' = sent /\ pipe' = pipe /\ open' = open
      /\ ready' = ready /\ handled' = handled
  BY DEF ReceiveFails, peerVars
<1>2. Types'
  BY <1>1, SizeType DEF IInv, Types
<1>3. ASSUME NEW d \in Conns, d # c PROVE ConnInv(d)'
  <2>1. Received(d)' = Received(d) /\ reading' # d
    BY <1>1, <1>3, SizeType DEF Received
  <2> QED
    BY <1>1, <1>3, <2>1, ConnKept DEF IInv, ConnInv, RemovedAtEnd
<1>4. ConnInv(c)'
  <2>1. Len(handled[c]) = Posted(c)
    BY <1>1, AllHandledAtEnd
  <2>2. HandledInOrder(c)' /\ StreamIntact(c)'
    BY <1>1 DEF IInv, HandledInOrder, StreamIntact
  <2>3. RemovedAtEnd(c)'
    BY <1>1, <2>1, SizeType DEF RemovedAtEnd, Posted, IInv, BufferInOrder
  <2> QED
    BY <2>2, <2>3 DEF ConnInv
<1>5. BufferInOrder'
  BY <1>1, SizeType DEF IInv, Types, BufferInOrder
<1> QED
  BY <1>2, <1>3, <1>4, <1>5 DEF IInv, ConnInv

-----------------------------------------------------------------------------
LEMMA NextIInv == IInv /\ [Next]_vars => IInv'
<1> SUFFICES ASSUME IInv, [Next]_vars PROVE IInv'
  OBVIOUS
<1>1. CASE Select
  BY <1>1, SelectIInv
<1>2. ASSUME NEW c \in Conns, BeginReceive(c) \/ ReceiveSome(c) \/ ReceiveFails(c)
      PROVE  IInv'
  BY <1>2, BeginReceiveIInv, ReceiveSomeIInv, ReceiveFailsIInv
<1>3. ASSUME NEW c \in Conns, BeginSend(c) \/ SendSome(c) \/ End(c)
      PROVE  IInv'
  BY <1>3, BeginSendIInv, SendSomeIInv, EndIInv
<1>4. CASE UNCHANGED vars
  BY <1>4 DEF vars, peerVars, serverVars, IInv, Types, HandledInOrder, StreamIntact,
              RemovedAtEnd, BufferInOrder, Posted, BytesSent, BytesTaken, Received
<1> QED
  BY <1>1, <1>2, <1>3, <1>4 DEF Next, ServerStep

(* The invariant: the bytes handled, being received and in the pipe are,   *)
(* one after the other, the bytes the peer has sent.                       *)
THEOREM Invariance == Spec => []IInv
BY InitIInv, NextIInv, PTL DEF Spec

(* Every reachable state is well typed: no pipe overflows, and             *)
(* receive_message's buffer never holds a whole message between two calls. *)
THEOREM TypeCorrect == Spec => []TypeOK
<1>1. IInv => TypeOK
  BY DEF IInv, Types, TypeOK
<1> QED
  BY <1>1, Invariance, PTL

-----------------------------------------------------------------------------
(* Framing implements Mailbox.                                             *)

(* Nothing happens in the mailbox when the messages posted and handled     *)
(* stay as they are.                                                       *)
LEMMA MailStutters ==
    ASSUME IInv, \A c \in Conns : Posted(c)' = Posted(c),
           open' = open, handled' = handled, removed' = removed
    PROVE  UNCHANGED Mail!mailVars
BY DEF Mail!mailVars

LEMMA MailInitial == Init => Mail!MailInit
<1> SUFFICES ASSUME Init PROVE Mail!MailInit
  OBVIOUS
<1>1. \A c \in Conns : Posted(c) = 0 /\ handled[c] = << >>
  BY DEF Init, Posted
<1>2. \A c \in Conns : [n \in 1 .. Posted(c) - Len(handled[c]) |-> Whole(Len(handled[c]) + n)] = << >>
  BY <1>1
<1> QED
  BY <1>1, <1>2 DEF Mail!MailInit, Init

LEMMA BeginSendMail ==
    ASSUME IInv, NEW c \in Conns, BeginSend(c)
    PROVE  UNCHANGED Mail!mailVars
<1>1. /\ sending' = [sending EXCEPT ![c] = @ + 1]
      /\ sent' = [sent EXCEPT ![c] = 0]
      /\ open' = open /\ handled' = handled /\ removed' = removed
      /\ sent[c] = SIZE
  BY SizeType DEF BeginSend, serverVars, InSend, IInv, Types
<1>2. ASSUME NEW d \in Conns PROVE Posted(d)' = Posted(d)
  <2>1. CASE d = c
    <3>1. sending'[c] = sending[c] + 1 /\ sent'[c] = 0 /\ sending[c] \in Int
      BY <1>1, FramingAssumption DEF IInv, Types
    <3> QED
      BY <1>1, <2>1, <3>1, SizeType DEF Posted
  <2>2. CASE d # c
    BY <1>1, <2>2 DEF IInv, Types, Posted
  <2> QED
    BY <2>1, <2>2
<1> QED
  BY <1>1, <1>2, MailStutters

(* The last byte of a message posts it.                                    *)
LEMMA SendSomeMail ==
    ASSUME IInv, NEW c \in Conns, SendSome(c)
    PROVE  Mail!Post(c) \/ UNCHANGED Mail!mailVars
<1>1. PICK n \in 1 .. Offered(c) : sent' = [sent EXCEPT ![c] = @ + n]
  BY DEF SendSome
<1>2. /\ sending' = sending /\ open' = open /\ handled' = handled /\ removed' = removed
      /\ c \in open /\ sent[c] < SIZE
  BY DEF SendSome, InSend, serverVars
<1>3. /\ sending[c] \in Nat /\ sent[c] \in Nat /\ n \in Nat /\ n >= 1
      /\ sent'[c] = sent[c] + n /\ sent[c] + n <= SIZE
      /\ \A d \in Conns : d # c => Posted(d)' = Posted(d)
  BY <1>1, <1>2, FramingAssumption, SizeType DEF IInv, Types, Offered, Posted
<1>4. CASE sent[c] + n < SIZE
  <2>1. Posted(c)' = Posted(c)
    BY <1>2, <1>3, <1>4, SizeType DEF Posted
  <2> QED
    BY <1>2, <1>3, <2>1, MailStutters
<1>5. CASE sent[c] + n = SIZE
  <2>1. PICK h \in Nat : h = Len(handled[c])
    BY HandledWerePosted
  <2>2. PICK k \in Nat : k = Posted(c)
    BY HandledWerePosted
  <2>3. Posted(c)' = k + 1 /\ h <= k
    BY <1>2, <1>3, <1>5, <2>1, <2>2, HandledWerePosted, SizeType DEF Posted
  <2>4. \A d \in Conns : Posted(d)' = IF d = c THEN k + 1 ELSE Posted(d)
    BY <1>3, <2>3
  <2>5. [m \in 1 .. (k + 1) - h |-> Whole(h + m)]
           = Append([m \in 1 .. k - h |-> Whole(h + m)], Whole(k + 1))
    <3> DEFINE old == [m \in 1 .. k - h |-> Whole(h + m)]
               new == [m \in 1 .. (k + 1) - h |-> Whole(h + m)]
               all == {Whole(j) : j \in Nat}
    <3>1. /\ old \in Seq(all) /\ Len(old) = k - h
          /\ new \in Seq(all) /\ Len(new) = (k + 1) - h
      BY <2>3
    <3>2. Whole(k + 1) \in all
      OBVIOUS
    <3> HIDE DEF all, old, new
    <3>3. /\ Append(old, Whole(k + 1)) \in Seq(all)
          /\ Len(Append(old, Whole(k + 1))) = Len(old) + 1
          /\ \A m \in 1 .. Len(old) : Append(old, Whole(k + 1))[m] = old[m]
          /\ Append(old, Whole(k + 1))[Len(old) + 1] = Whole(k + 1)
      BY <3>1, <3>2, AppendProperties
    <3>4. \A m \in 1 .. Len(new) : new[m] = Append(old, Whole(k + 1))[m]
      <4> USE DEF old, new
      <4> TAKE m \in 1 .. Len(new)
      <4>1. CASE m = (k + 1) - h
        BY <2>3, <3>1, <3>3, <4>1
      <4>2. CASE m # (k + 1) - h
        <5>1. m \in 1 .. k - h
          BY <2>3, <3>1, <4>2
        <5> QED
          BY <3>1, <3>3, <5>1
      <4> QED
        BY <4>1, <4>2
    <3>5. Len(new) = Len(Append(old, Whole(k + 1)))
      BY <2>3, <3>1, <3>3
    <3>6. new = Append(old, Whole(k + 1))
      BY <3>1, <3>3, <3>4, <3>5, SeqEqual
    <3> QED
      BY <3>6 DEF old, new
  <2>6. Conns \ open' = Conns \ open /\ c \notin Conns \ open
    BY <1>2
  <2>7. [d \in Conns |-> Posted(d)]'
           = [[d \in Conns |-> Posted(d)] EXCEPT ![c] = @ + 1]
    BY <2>2, <2>4
  <2>8. [d \in Conns |-> [m \in 1 .. Posted(d) - Len(handled[d]) |-> Whole(Len(handled[d]) + m)]]'
           = [[d \in Conns |-> [m \in 1 .. Posted(d) - Len(handled[d]) |-> Whole(Len(handled[d]) + m)]]
                EXCEPT ![c] = Append(@, Whole([d \in Conns |-> Posted(d)]'[c]))]
    <3>1. ASSUME NEW d \in Conns, d # c
          PROVE  [m \in 1 .. Posted(d)' - Len(handled'[d]) |-> Whole(Len(handled'[d]) + m)]
                   = [m \in 1 .. Posted(d) - Len(handled[d]) |-> Whole(Len(handled[d]) + m)]
      BY <1>2, <2>4, <3>1
    <3>2. [m \in 1 .. Posted(c)' - Len(handled'[c]) |-> Whole(Len(handled'[c]) + m)]
             = Append([m \in 1 .. Posted(c) - Len(handled[c]) |-> Whole(Len(handled[c]) + m)],
                      Whole(Posted(c)'))
      BY <1>2, <2>1, <2>2, <2>3, <2>5
    <3> QED
      BY <3>1, <3>2
  <2> QED
    BY <1>2, <2>6, <2>7, <2>8 DEF Mail!Post
<1> QED
  BY <1>3, <1>4, <1>5, SizeType

LEMMA EndMail ==
    ASSUME IInv, NEW c \in Conns, End(c)
    PROVE  Mail!HangUp(c)
<1>1. /\ open' = open \ {c} /\ sending' = sending /\ sent' = sent
      /\ handled' = handled /\ removed' = removed
  BY DEF End, serverVars
<1>2. Conns \ open' = (Conns \ open) \cup {c}
  BY <1>1
<1>3. \A d \in Conns : Posted(d)' = Posted(d)
  BY <1>1 DEF Posted
<1> QED
  BY <1>1, <1>2, <1>3 DEF Mail!HangUp

(* The last byte of a message takes it: what receive_message returns is    *)
(* the oldest message posted and not yet taken.                            *)
LEMMA ReceiveSomeMail ==
    ASSUME IInv, NEW c \in Conns, ReceiveSome(c)
    PROVE  Mail!Take(c) \/ UNCHANGED Mail!mailVars
<1>1. /\ sending' = sending /\ sent' = sent /\ open' = open /\ removed' = removed
      /\ \/ handled' = handled
         \/ \E g : handled' = [handled EXCEPT ![c] = Append(@, g)]
  BY DEF ReceiveSome, peerVars
<1>2. \A d \in Conns : Posted(d)' = Posted(d)
  BY <1>1 DEF Posted
<1>3. CASE handled' = handled
  BY <1>1, <1>2, <1>3, MailStutters
<1>4. CASE \E g : handled' = [handled EXCEPT ![c] = Append(@, g)]
  <2>1. PICK g : handled' = [handled EXCEPT ![c] = Append(@, g)]
    BY <1>4
  <2>2. PICK h \in Nat : h = Len(handled[c])
    BY HandledWerePosted
  <2>3. PICK k \in Nat : k = Posted(c)
    BY HandledWerePosted
  <2>4. IInv'
    BY ReceiveSomeIInv
  <2>5. /\ handled'[c] = Append(handled[c], g)
        /\ handled[c] \in Seq(Msg) /\ handled'[c] \in Seq(Msg)
    BY <2>1, <2>4 DEF IInv, Types
  <2>6. Len(handled'[c]) = h + 1 /\ handled'[c][h + 1] = g
    BY <2>2, <2>5
  <2>7. g = Whole(h + 1)
    <3>1. \A m \in 1 .. Len(handled'[c]) : handled'[c][m] = Whole(m)
      BY <2>4 DEF IInv, HandledInOrder
    <3> QED
      BY <2>6, <3>1
  <2>8. h + 1 <= k
    <3>1. NeverAhead'
      BY <2>4, HandledPosted, PTL
    <3> QED
      BY <1>2, <2>3, <2>6, <3>1 DEF NeverAhead
  <2>9. \A d \in Conns : d # c => handled'[d] = handled[d]
    BY <2>1 DEF IInv, Types
  <2>10. LET old == [m \in 1 .. k - h |-> Whole(h + m)]
             new == [m \in 1 .. k - (h + 1) |-> Whole(h + 1 + m)]
         IN  old # << >> /\ Head(old) = Whole(h + 1) /\ new = Tail(old)
    <3> DEFINE old == [m \in 1 .. k - h |-> Whole(h + m)]
               new == [m \in 1 .. k - (h + 1) |-> Whole(h + 1 + m)]
               all == {Whole(j) : j \in Nat}
    <3>1. /\ old \in Seq(all) /\ Len(old) = k - h
          /\ new \in Seq(all) /\ Len(new) = k - (h + 1)
      BY <2>8
    <3>2. old[1] = Whole(h + 1)
      BY <2>8
    <3>3. \A m \in 1 .. Len(new) : new[m] = old[m + 1]
      <4> TAKE m \in 1 .. Len(new)
      <4>1. m + 1 \in 1 .. k - h /\ h + 1 + m = h + (m + 1)
        BY <2>8, <3>1
      <4> QED
        BY <3>1, <4>1
    <3> HIDE DEF old, new, all
    <3>4. old # << >>
      BY <2>8, <3>1
    <3>5. /\ Tail(old) \in Seq(all)
          /\ Len(Tail(old)) = Len(old) - 1
          /\ \A m \in 1 .. Len(Tail(old)) : Tail(old)[m] = old[m + 1]
      BY <3>1, <3>4, HeadTailProperties
    <3>6. new = Tail(old)
      BY <2>8, <3>1, <3>3, <3>5, SeqEqual
    <3>7. Head(old) = Whole(h + 1)
      BY <3>1, <3>2, <3>4
    <3> QED
      BY <3>4, <3>6, <3>7 DEF old, new
  <2> DEFINE waiting(d) == [n \in 1 .. Posted(d) - Len(handled[d]) |->
                                Whole(Len(handled[d]) + n)]
  <2>11. /\ waiting(c) # << >> /\ Head(waiting(c)) = g
         /\ waiting(c)' = Tail(waiting(c))
    BY <1>2, <2>2, <2>3, <2>6, <2>7, <2>10
  <2>12. \A d \in Conns : d # c => waiting(d)' = waiting(d)
    BY <1>2, <2>9
  <2> HIDE DEF waiting
  <2>13. [d \in Conns |-> waiting(d)]' = [[d \in Conns |-> waiting(d)] EXCEPT ![c] = Tail(@)]
    BY <2>11, <2>12
  <2>14. [d \in Conns |-> Posted(d)]' = [d \in Conns |-> Posted(d)]
    BY <1>2
  <2> QED
    BY <1>1, <2>1, <2>11, <2>13, <2>14 DEF Mail!Take, waiting
<1> QED
  BY <1>1, <1>3, <1>4

(* The server removes a connection when it has ended and every message     *)
(* that was posted is taken.                                               *)
LEMMA ReceiveFailsMail ==
    ASSUME IInv, NEW c \in Conns, ReceiveFails(c)
    PROVE  Mail!SeeEnd(c)
<1>1. /\ reading = c /\ pipe[c] = << >> /\ c \notin open
      /\ removed' = removed \cup {c}
      /\ sending' = sending /\ sent' = sent /\ open' = open /\ handled' = handled
  BY DEF ReceiveFails, peerVars
<1>2. \A d \in Conns : Posted(d)' = Posted(d)
  BY <1>1 DEF Posted
<1>3. Posted(c) - Len(handled[c]) = 0
  BY <1>1, AllHandledAtEnd, HandledWerePosted
<1>4. [n \in 1 .. Posted(c) - Len(handled[c]) |-> Whole(Len(handled[c]) + n)] = << >>
  BY <1>3
<1> QED
  BY <1>1, <1>2, <1>4 DEF Mail!SeeEnd

LEMMA NextMail == IInv /\ [Next]_vars => [Mail!MailNext]_(Mail!mailVars)
<1> SUFFICES ASSUME IInv, [Next]_vars PROVE Mail!MailNext \/ UNCHANGED Mail!mailVars
  OBVIOUS
<1>1. ASSUME Select \/ (\E c \in Conns : BeginReceive(c)) \/ UNCHANGED vars
      PROVE  UNCHANGED Mail!mailVars
  <2>1. /\ sending' = sending /\ sent' = sent /\ open' = open
        /\ handled' = handled /\ removed' = removed
    BY <1>1 DEF Select, BeginReceive, vars, peerVars, serverVars
  <2> QED
    BY <2>1, MailStutters DEF Posted
<1>2. ASSUME NEW c \in Conns, ReceiveSome(c) \/ ReceiveFails(c)
      PROVE  Mail!MailNext \/ UNCHANGED Mail!mailVars
  BY <1>2, ReceiveSomeMail, ReceiveFailsMail DEF Mail!MailNext
<1>3. ASSUME NEW c \in Conns, BeginSend(c) \/ SendSome(c) \/ End(c)
      PROVE  Mail!MailNext \/ UNCHANGED Mail!mailVars
  BY <1>3, BeginSendMail, SendSomeMail, EndMail DEF Mail!MailNext
<1> QED
  BY <1>1, <1>2, <1>3 DEF Next, ServerStep

(* Framing implements Mailbox: however send() and recv() cut the stream    *)
(* and wherever a peer stops, the server gets whole messages, in order,    *)
(* each once, and sees the end of a connection after the last of them.     *)
THEOREM FramingImplementsMailbox == Spec => ImplementsMailbox
BY MailInitial, NextMail, Invariance, PTL DEF Spec, ImplementsMailbox, Mail!MailSpec
=============================================================================
