------------------------------- MODULE Framing -------------------------------
(***************************************************************************)
(* How messages cross a connection (utils.c).  A Message is SIZE bytes of  *)
(* a stream.  send() may take only some of the bytes it is offered and     *)
(* waits when the buffers are full; recv() may return only some of those   *)
(* asked for and waits when there is none; send_message and                *)
(* receive_message call them until the message is complete.                *)
(*                                                                         *)
(* Each peer is a process that sends its messages over its own connection. *)
(* The server is one thread: it selects the connections with something to  *)
(* read and calls receive_message for one after the other.                 *)
(*                                                                         *)
(* A byte is the pair of its message's number and its place there.         *)
(***************************************************************************)
EXTENDS Integers, SequencesExt

CONSTANTS
    Conns,          \* connections, as numbers: the server's scan order
    SIZE,           \* sizeof(Message)
    CAPACITY,       \* bytes the kernels buffer for a connection
    MaxMessages     \* messages a peer sends at most

ASSUME FramingAssumption ==
    /\ Conns \subseteq Nat
    /\ SIZE \in Nat \ {0}
    /\ CAPACITY \in Nat \ {0}
    /\ MaxMessages \in Nat

VARIABLES
    sending,        \* the number of the message each peer is at
    sent,           \* `sent' of its send_message
    pipe,           \* bytes on their way or buffered
    open,           \* connections not ended by their peer
    ready,          \* connections select() reported and not yet served
    reading,        \* the connection in receive_message, or NoConn
    data,           \* the bytes received by it
    handled,        \* messages receive_message returned
    removed         \* connections it failed for

peerVars   == <<sending, sent, open>>
serverVars == <<ready, reading, data, handled, removed>>
vars       == <<peerVars, pipe, serverVars>>

NoConn == -1

Whole(n) == [k \in 1 .. SIZE |-> <<n, k>>]

Init ==
    /\ sending = [c \in Conns |-> 0]
    /\ sent = [c \in Conns |-> SIZE]
    /\ pipe = [c \in Conns |-> << >>]
    /\ open = Conns
    /\ ready = {}
    /\ reading = NoConn
    /\ data = << >>
    /\ handled = [c \in Conns |-> << >>]
    /\ removed = {}

-----------------------------------------------------------------------------
(* send_message                                                            *)

InSend(c) == c \in open /\ sent[c] < SIZE

BeginSend(c) ==
    /\ c \in open
    /\ ~InSend(c)
    /\ sending[c] < MaxMessages
    /\ sending' = [sending EXCEPT ![c] = @ + 1]
    /\ sent' = [sent EXCEPT ![c] = 0]
    /\ UNCHANGED <<open, pipe, serverVars>>

(* Mutant of Offered: every send() is offered a whole message.             *)
OfferedWhole(c) == SIZE

(* total - sent                                                            *)
Offered(c) == SIZE - sent[c]

(* One send(): as many bytes as fit, or fewer.                             *)
SendSome(c) ==
    /\ InSend(c)
    /\ \E n \in 1 .. Offered(c) :
          /\ Len(pipe[c]) + n <= CAPACITY
          /\ pipe' = [pipe EXCEPT ![c] = @ \o [k \in 1 .. n |-> <<sending[c], sent[c] + k>>]]
          /\ sent' = [sent EXCEPT ![c] = @ + n]
    /\ UNCHANGED <<sending, open, serverVars>>

(* The peer closes, or is killed, in the middle of a message perhaps.      *)
End(c) ==
    /\ c \in open
    /\ open' = open \ {c}
    /\ UNCHANGED <<sending, sent, pipe, serverVars>>

-----------------------------------------------------------------------------
(* run_server and receive_message                                          *)

Readable(c) == c \notin removed /\ (pipe[c] # << >> \/ c \notin open)

Select ==
    /\ ready = {}
    /\ reading = NoConn
    /\ ready' = {c \in Conns : Readable(c)}
    /\ UNCHANGED <<peerVars, pipe, reading, data, handled, removed>>

BeginReceive(c) ==
    /\ reading = NoConn
    /\ c \in ready
    /\ \A d \in ready : c <= d
    /\ reading' = c
    /\ data' = << >>
    /\ ready' = ready \ {c}
    /\ UNCHANGED <<peerVars, pipe, handled, removed>>

(* Mutant of Wanted: every recv() asks for a whole message.                *)
WantedWhole == SIZE

(* total - received                                                        *)
Wanted == SIZE - Len(data)

(* One recv(): some of the bytes wanted; the last ones complete the        *)
(* message, which the server then handles.                                 *)
ReceiveSome(c) ==
    /\ reading = c
    /\ \E n \in 1 .. Wanted :
          /\ n <= Len(pipe[c])
          /\ pipe' = [pipe EXCEPT ![c] = SubSeq(@, n + 1, Len(@))]
          /\ LET got == data \o SubSeq(pipe[c], 1, n)
             IN  IF Len(got) < SIZE
                 THEN data' = got /\ UNCHANGED <<reading, handled>>
                 ELSE /\ handled' = [handled EXCEPT ![c] = Append(@, got)]
                      /\ data' = << >>
                      /\ reading' = NoConn
    /\ UNCHANGED <<peerVars, ready, removed>>

(* Mutant of ReceiveFails: the end of the stream in the middle of a        *)
(* message is not taken for a failure.                                     *)
ReceiveFailsBetween(c) ==
    /\ reading = c
    /\ pipe[c] = << >> /\ data = << >>
    /\ c \notin open
    /\ removed' = removed \cup {c}
    /\ reading' = NoConn
    /\ UNCHANGED <<peerVars, pipe, ready, data, handled>>

(* recv() returns 0: what was received of the message is dropped.          *)
ReceiveFails(c) ==
    /\ reading = c
    /\ pipe[c] = << >>
    /\ c \notin open
    /\ removed' = removed \cup {c}
    /\ data' = << >>
    /\ reading' = NoConn
    /\ UNCHANGED <<peerVars, pipe, ready, handled>>

ServerStep ==
    \/ Select
    \/ \E c \in Conns : BeginReceive(c) \/ ReceiveSome(c) \/ ReceiveFails(c)

Next ==
    \/ ServerStep
    \/ \E c \in Conns : BeginSend(c) \/ SendSome(c) \/ End(c)

Spec == Init /\ [][Next]_vars

(* The server is scheduled; nothing is assumed of the peers.               *)
ServerFairSpec == Spec /\ WF_vars(ServerStep)

(* A peer that has begun a message goes on until it is sent, or ends.      *)
FairSpec == ServerFairSpec /\ \A c \in Conns : WF_vars(SendSome(c) \/ (InSend(c) /\ End(c)))

-----------------------------------------------------------------------------
TypeOK ==
    /\ sending \in [Conns -> 0 .. MaxMessages]
    /\ sent \in [Conns -> 0 .. SIZE]
    /\ \A c \in Conns : Len(pipe[c]) <= CAPACITY
    /\ open \subseteq Conns
    /\ ready \subseteq Conns
    /\ reading \in Conns \cup {NoConn}
    /\ Len(data) < SIZE
    /\ removed \subseteq Conns

(* Framing implements Mailbox: however the bytes are cut and wherever a    *)
(* peer stops, the server gets the messages sent, whole and in order, and  *)
(* sees the end of a connection after the last of them.  A message is      *)
(* posted with its last byte and taken with its last byte.                 *)
Posted(c) == IF sent[c] = SIZE THEN sending[c] ELSE sending[c] - 1

Mail == INSTANCE Mailbox WITH
    Msg     <- Whole,
    inq     <- [c \in Conns |-> [n \in 1 .. Posted(c) - Len(handled[c]) |->
                                    Whole(Len(handled[c]) + n)]],
    posted  <- [c \in Conns |-> Posted(c)],
    hungup  <- Conns \ open,
    handled <- handled,
    removed <- removed

ImplementsMailbox == Mail!MailSpec

(* A message that is complete in the buffers is handled in the end, also   *)
(* when other peers send slowly, byte by byte, or end in the middle.       *)
(* (run_server: "Monitors the listening socket and all active client       *)
(* sockets simultaneously.")                                               *)
WholeMessagesServed ==
    \A c \in Conns : \A n \in 1 .. MaxMessages :
        (sending[c] >= n /\ (sent[c] = SIZE \/ sending[c] > n))
            ~> Len(handled[c]) >= n
=============================================================================
