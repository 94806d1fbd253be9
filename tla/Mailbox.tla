------------------------------- MODULE Mailbox -------------------------------
(***************************************************************************)
(* What Server.tla takes for granted of its connections: a peer's requests *)
(* arrive whole and in order, one is taken at a time, and the end of a     *)
(* connection shows once all of them were taken.                           *)
(***************************************************************************)
EXTENDS Naturals, Sequences

CONSTANTS
    Conns,          \* connections
    Msg(_)          \* the n-th message of a connection

VARIABLES
    inq,            \* messages posted and not yet taken
    posted,         \* number of messages posted
    hungup,         \* connections the peer has ended
    handled,        \* messages taken, in order
    removed         \* connections whose end was seen

mailVars == <<inq, posted, hungup, handled, removed>>

MailInit ==
    /\ inq = [c \in Conns |-> << >>]
    /\ posted = [c \in Conns |-> 0]
    /\ hungup = {}
    /\ handled = [c \in Conns |-> << >>]
    /\ removed = {}

Post(c) ==
    /\ c \notin hungup
    /\ posted' = [posted EXCEPT ![c] = @ + 1]
    /\ inq' = [inq EXCEPT ![c] = Append(@, Msg(posted'[c]))]
    /\ UNCHANGED <<hungup, handled, removed>>

HangUp(c) ==
    /\ hungup' = hungup \cup {c}
    /\ UNCHANGED <<inq, posted, handled, removed>>

Take(c) ==
    /\ inq[c] # << >>
    /\ handled' = [handled EXCEPT ![c] = Append(@, Head(inq[c]))]
    /\ inq' = [inq EXCEPT ![c] = Tail(@)]
    /\ UNCHANGED <<posted, hungup, removed>>

SeeEnd(c) ==
    /\ c \in hungup
    /\ inq[c] = << >>
    /\ removed' = removed \cup {c}
    /\ UNCHANGED <<inq, posted, hungup, handled>>

MailNext == \E c \in Conns : Post(c) \/ HangUp(c) \/ Take(c) \/ SeeEnd(c)

MailSpec == MailInit /\ [][MailNext]_mailVars
=============================================================================
