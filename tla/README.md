# A verification of the command-line Battleship program

This directory holds TLA+ specifications of the Battleship program in
`src/a3`, the TLC configurations that check them, and proofs that TLAPS checks.
The program is a server that runs any number of two-player games for clients
connected over TCP, and a terminal client. The server is one thread around
`select()`, without persistence and without timeouts; all of its difficulty is
in the order in which messages, connections and disconnections reach its two
arrays, `clients[]` and `rooms[]`. The client is sequential and gives up on an
answer it does not expect; its difficulty is whether the server, which reacts to
both players, ever sends it one.

## 1. Inventory

| Part | State | Operations | Modules |
|---|---|---|---|
| Game rules, `game.c` | a `Board`: grid of cells, array of ships with hit counter and sunk flag | `init_board`, `can_place_ship`, `place_ship`, `get_ship_at`, `take_shot`, `all_ships_sunk` | `Game`, `Board`, `Fleet` |
| Event loop, `server.c` `run_server`, `handle_new_connection` | the ready set of `select()`, the scan position, the listener's queue | select, accept, reject, scan | `Server` |
| Dispatch, `handle_client_message` | `clients[]` | one case per message type, and end of stream | `Server` |
| Rooms, `create_room`, `find_room`, `join_room` | `rooms[]`: id, active flag, count, seats, submission flags, boards | create, join, leave | `Server` |
| Gameplay, `start_game_when_ready`, `send_turn_messages`, `end_game_and_disconnect` | started flag and turn of a room | start, shoot, end | `Server`, `Match` |
| Disconnects, `remove_client` | both arrays, descriptors | abandon a game, leave a room, free a slot | `Server` |
| Framing, `utils.c` `send_message`, `receive_message` | the bytes of a connection, the message being sent or received | send, receive, their failures | `Framing`, `Mailbox`, `Server` |
| Client, `client.c` | where `main` is blocked, its seat, its copies of both boards | connect, create or join, wait, place, submit, play, disconnect | `ClientProgram`, `System`; its order of requests alone: `Session` |
| Terminal input, `get_player_input` and the prompts of `client.c` | none | ask for a choice, a ship, a shot | `ClientProgram` (accepted answers and the end of the input) |
| Set-up, `socket.c`, `main` | the listening socket | address, bind, listen, accept, connect | initial state, `accept` and the outcome of `connect` only |
| Terminal output, Makefile, commit hooks | none | printing | not modelled |

**How they interact.** The client's requests travel over one TCP connection per
player. The server answers within the handler that reads the request, also to
the *other* player: a join tells the player who waits, a shot tells the
opponent, the end of a game tells both. A client finds its room by
`assigned_room_id`, a room finds its clients by the pointers in
`connected_players`, and `end_game_and_disconnect` finds the loser by searching
`clients[]`. A room's board and submission flag are per seat and outlive the
player. A client never sees the server's boards: it places its ships on a board
of its own and marks the shots it is told of, and it decides from those marks
where it may still shoot.

**What is hard.** (1) A handler works on a snapshot of `select()` while it
closes descriptors that are in it. (2) Four pieces of code update seats, counts
and ids of a room separately. (3) A send may fail, or kill the process, in the
middle of a handler that goes on to use what a removal has reset. (4) Requests
come in any order: boards again, shots before the game, joins while seated.
(5) Clients vanish between any two steps, between two bytes of a message too.
(6) A client is blocked in one call at a time - a prompt, or a receive that
accepts one type of message - while the other player's actions make the server
send to it. `PROJECT.json` lists each hazard at its line under "hazards", with
the properties that cover it.

**What makes each part correct.** Rules: the grid and the ship list agree, and
answers depend on the ships' cells and the struck cells only. Loop: it never
blocks in `recv`, serves everybody, takes up every connection. Dispatch and
disconnects: every slot owns one open descriptor, none leaks. Rooms: seats,
counts and ids agree. Gameplay: a room plays matches by the rules; a decided
game ends, and its last message is the last. Framing: whole messages in order.
Client and server together: both players see the server's boards, exactly one
may shoot, nobody is sent a message it does not expect, and games end.

## 2. Modules and how they correspond to the code

- **`Game`** - `game.c` as operators on a board, no variables. `ships_placed`
  is the length of `ships`. `BoardAfterShot` and `ShotAnswer` are the effect and
  the result of `take_shot`. `BoardAgrees` is the invariant of a board. An
  orientation is HORIZONTAL, VERTICAL or `"OTHER"`, any value a message may carry in
  their place: `server.c:584` does not look, and `can_place_ship` then takes no step
  from one segment to the next, so that all of them share a cell. `CanSink` are the ships whose counter can
  meet their length.
- **`Board`** - one board under `Place` and `Shoot`, interleaved as the server
  allows. `answer` is what the last call returned.
- **`Fleet`** - the abstract specification of a board: ships, which are sets of
  cells and can be sunk or not, a set of struck cells, and a verdict. `Board` implements it
  (`ImplementsFleet`, with `fleet`, `struck` and `lost` computed from the board).
- **`Protocol`** - the messages of `protocol.h`, each with the fields its
  receiver looks at.
- **`Server`** - `server.c`. Everything the process and its kernel hold is
  one record `srv`; each C function is an operator from one such record to the
  next (`JoinRoom`, `RemoveClient`, `EndGame`, ...), composed in the order of
  the calls, and each case of `handle_client_message` is one action
  (`HandleCreateRoom`, `HandleJoinRoom`, ..., `HandleEof`). The handler runs to
  its end in one action because nothing else touches its data: the program has
  one thread. Peers connect, send and close between any two actions, so also
  between two slots of one scan. `phase`, `readfds` and `next` are the program
  counter of `run_server`.
- **`Session`** - `Server` with peers that keep the request order of `main()`
  in `client.c` (`stage`). They do not wait for answers, so they can do
  everything the real clients can, and more.
- **`Match`** - the abstract specification of a room: two fleets, the cells
  struck, whose move it is, and whether a game is on; no message, connection or
  counter. A game is over when a side has no cell left, and may be over at any
  moment because a player may be lost; `GamesEndForCause` of `Session` says that
  there is no other reason. `RoomsPlayMatches` maps each room to it: the fleet is read off
  the grid, `turn` and `on` off the room.
- **`ClientProgram`** - `client.c`. `prog[p].at` is the blocking call `main()`
  is in, which is finer than `ClientState` (the code has one state for three
  receives); each phase function is split into actions at these calls. The
  answer a receive accepts, and the marks a report leaves, are `AfterAnswer` and
  `AfterGameMessage`. The module has no connection: an action that receives takes
  the message as a parameter. A prompt is one action that takes an answer the code
  accepts; the answers it asks for again change nothing. When the input ends,
  `main()` gives up, or, in the middle of a line of coordinates, hangs in the loop
  that looks for its newline (`hung`).
- **`System`** - `Session`'s server and, at the other end of every connection, a
  `ClientProgram`. Its actions conjoin one program's action with what becomes of
  the message (`Deliver`, `TakesMessage`, `HangUp`). `stage` is a history variable.
  `ProgramsKeepSession` shows that the programs implement the peers of `Session`:
  what holds of those, which send without waiting, holds of these (and is proved so in
  `SystemProofs`).
- **`Framing`** - the bytes of a connection through the loops of `send_message`
  and `receive_message`: a byte is its message's number and its place there, each
  `send()` or `recv()` moves some bytes, and the server serves one connection at a
  time. **`Mailbox`** is what `Server` takes for granted of a connection: requests
  whole and in order, the end after the last. `Framing` implements `Mailbox`;
  a message counts as posted with its last byte (`Posted`).
- **`MCBoard`, `MCServer`, `MCSession`, `MCSystem`, `MCFraming`** -
  requests, placements, shots and messages for TLC.
- **`GameProofs`** - facts about the operators of `Game`; **`BoardProofs`** and
  **`FramingProofs`** - the theorems about `Board` and `Framing`.
- **`ServerProofs`**, **`ServerBoardProofs`** - each function of `server.c` keeps the
  tables well-formed; exactly what it changes, and what that means for the boards.
  **`RoomProofs`**, **`SessionProofs`** - seats, games and last messages when peers
  keep the order of `client.c`, and the refinement of `Match`. **`SystemProofs`** -
  the fleets the programs send, and the same with the programs at the other ends.

Operators named as mutants in their comments (`RemoveClientKeepsSlot`, ...) are
plausible bugs, and not part of any specification: each shows that a property
can fail when the code is changed in that way.

**The connection.** `srv.link` is the state of a peer's connection in the
server's kernel. A peer closes with a FIN; the first send after it succeeds and
provokes a RST, and when that has arrived the next send raises SIGPIPE, which
nothing handles. Whether the RST arrives before the second or the third send is
left open (`fin`, `fin2`). A peer that closes with unread data sends a RST at
once (`reset`): one send fails with an error before SIGPIPE. A process that has
died (`sigpipe`, `overrun`, `segfault`) takes no more steps, and its kernel ends
its connections: a program reads what was sent to it and then sees the end.

**Abstractions.** Names, error texts, logging and the room ids in answers are
left out; `sent` holds the messages of the types in `Observed`, none of them
where no property needs them, all of them in `System`, where the programs take them
from its front. A submission holds
`MAX_SHIPS` ships, as `Message` does. Outside `Framing`, messages arrive whole. A
peer is one connection and runs the program once. A store past the end of
`Board.ships` is undefined behaviour: the model stops there (`overrun`) and makes
no claim about what follows. When the server's end of a connection is gone, a
program's `send()` may be lost without an error (`Deliver`), which then shows in the
next receive, or fail, and the program gives up at once with messages unread
(`FailsToSend`); a SIGPIPE ends it in the same place.

## 3. Runs

| Run | Question | Result |
|---|---|---|
| `board` | Do grid, ship list, counters and answers stay in step? Does the board implement `Fleet`? | holds |
| `server_lobby` | Do slots, descriptors, seats and counts survive any requests and disconnections, and the boards repeated submissions in a game? | holds |
| `server_loop` | With games going on and while `accept` keeps failing, is the request of every client that has a slot read, and every connection taken up while descriptors last? | holds |
| `session` | Do seats match clients in a game, are shots lawful, does a game stop when it is decided and not before, is the last word last? | holds |
| `framing` | Does the byte stream implement `Mailbox`? Is every complete message handled when no peer stops half way? | holds |
| `system` | Two programs: do fleets, boards, turns and verdicts agree, does every message find its receiver waiting for it, and do rooms implement `Match`? | holds |
| `system_live` | Does every game end for both players? Are the programs peers of `Session`? | holds |
| `session_ids` | player ids "0 for first, 1 for second" (`server.c:520`) | violated: both players can be 1 |
| `session_leak` | "cleaning up server-side resources" (`README.md:38`) | violated: an abandoned game leaks two descriptors |
| `session_sigpipe` | "Graceful handling of client disconnects" (`README.md:21`) | violated: SIGPIPE ends the server |
| `session_fit` | `Ship ships[MAX_SHIPS]` (`game.h:49`) | violated: a seat's board is used again |
| `system_waiter` | "Graceful handling of client disconnects" (`README.md:21`) | violated: a client waits for GAME_START for ever |

The findings in `PROJECT.json` quote the documentation and name the line of the
code for each violated run.

**Further disagreements.** The modules also state the following claims of the
documentation, which the code does not keep. They are not runs of their own; TLC
refutes each in the configuration named when it takes the place of the properties
there.

| Claim | Definition | Configuration | What happens |
|---|---|---|---|
| "ships cannot touch each other at all" (`game.c:42`) | `Board!ShipsNeverTouch` | `MCBoard.cfg` | `can_place_ship` refuses only SHIP neighbours: a board submitted again after a hit may touch the ship that was hit |
| "If any ship fails validation, sends error" (`server.c:564`) | `Session!AcceptedBoardsComplete` | `MCSessionSigpipe.cfg`, `Requests <- OffBoard` | `server.c:589` tests `place_ship` for a value it never returns: the ship is skipped and BOARD_OK sent |
| "Validating submitted boards" (`README.md:34`) | `Server!GamesCanBeDecided` | `MCServerLobby.cfg`, `Requests <- HollowRequests` | a ship of length 0 is accepted, and its owner cannot lose |
| "must be waiting for opponent" (`server.c:306`) | `Session!BoardsOnlyWhileWaiting` | `MCSessionSigpipe.cfg` | only the player id is tested: a board in the middle of a game starts it anew |
| "If room is now empty, deactivate it" (`server.c:846`) | `Session!RoomsGivenBack` | `MCSessionSigpipe.cfg` | a client whose seat was taken over is not counted out, and the room stays active |
| "both boards submitted, gameplay begins" (`protocol.h:26`) | `System!StartedWhenBothSubmitted` | `MCSystemLive.cfg` with three peers, slots and descriptors, all of them quitters, `SystemSpec` | the flag of a player who left starts a game with one who is still placing ships |
| "compatible with the existing ... client implementation" (`README.md:39`) | `System!MessagesExpected` | as before | a second OPPONENT_JOINED ends a client that waits for the game to start |
| "Monitors ... all active client sockets simultaneously" (`server.c:74`) | `Framing!WholeMessagesServed` | `MCFraming.cfg`, `ServerFairSpec` | a peer that stops in the middle of a message stops the server |
| "schedules automatic cleanup in 30 seconds" (`server.c:786-787`) | none: `Server!AbandonGame` shows the behaviour | | the room and both slots are given up at once, in the same call; nothing in the program keeps time |
| "Returns 0 if OK, -1 if EOF" (`utils.c:57`) | none: `ClientProgram!InputEndsInLine` shows the behaviour | | `get_player_input` loops on EOF |

**Clients without a slot.** When a game is abandoned, `server.c:820-834` frees the
slots of both players and forgets their descriptors without closing them
(`session_leak`). The player who is still there is told OPPONENT_LEFT, but its
connection stays open and `select()` no longer watches it: a SHOOT that is on its way is
never read. So `EveryRequestServed` promises that a request is read as long as the
client has a slot. The program of `client.c` survives this because OPPONENT_LEFT
ends it (`GamesEnd`); another client that went on sending would wait for ever.

**Two programs and three.** `system` holds with two programs because each runs
once: nobody can take the seat of a player who left. With a third program the
leftovers of a seat - board, flag, count, pointer - are met by somebody else, and
`session_ids`, `session_fit` and three of the further disagreements show what each
leads to. So `ViewsInStep`, `TurnIsOneToken`,
`NoShotWasted`, `VerdictsFit` and `MessagesExpected` are claims about a room whose
two players are the first to sit in it.

**Bounds.** `board`: a 3 x 3 board and two ships of two or three cells give
ships that touch, cross, leave the board, sink and are submitted after shots;
others, of length 0 or of two segments on one cell, never sink;
shots go to every cell and past two edges. Server runs: one room, because rooms share nothing
but the client slots; three peers, so that slots and descriptors are reused by
somebody else; two slots and three descriptors in `server_lobby`, so that the array
is full and a connection is accepted and rejected; three slots and two descriptors in
`server_loop`, so that `accept` fails.
`MaxInq = 1`: a peer has one unread request at a time; a longer queue delays
requests and adds no order between peers, as the server reads one message per
slot and scan. The submission in `server_lobby` is a ship of two cells and one of two
segments on one cell, beside the first: the second is refused as long as its
neighbour shows SHIP, and fits when the board is handed in again after that cell was
hit. Shots go to the two cells of the first ship. So a game may be decided, or a
board that was shot at gets another ship and the game starts anew and is never decided, and
submissions also meet boards already full, sunk, or left by somebody else. Boards in
`server_loop` and `session` have one ship of one cell, enough for a hit
that sinks and a game that ends; `board` and `system` cover more ships and shots.
In `server_loop` two peers send any requests, and the third (`Waiters`) says nothing
but DISCONNECT: it waits in the listener's queue while `accept` fails, or holds a
descriptor while one of the others waits. Peers leave there by DISCONNECT, which
`remove_client` treats as it does a lost connection, and which leaks descriptors in a
game as well. In `server_lobby` and `session` a peer closes with `reset`,
after which a send fails before a later one raises SIGPIPE; the other runs
close with FIN as well.

`system`: 3 x 3 board, a ship of two cells and one of one, each on one of the
outer rows (`RowSpots`: both players may choose either way round, or find no place
for the second ship), shots at four
cells of those rows (`Corners`), so that a shot misses, hits, sinks a ship or the
last ship; both players may be killed or end their input at any point, closing
with FIN or RST. The choice of ships and shots is restricted, their order is not.
`system_live`: 2 x 2 board and one ship of two cells, all four cells as targets.
In the `System` runs `MaxInq = 2` is no restriction: programs are not held back by
it, and `ProgramsKeepSession` shows that two are never exceeded (a request and the
DISCONNECT behind it; with 1 the property fails). `framing`: messages of three bytes and buffers of four, so that a buffer ends in
the middle of a message and a `recv` can meet parts of two; two messages per peer.

Each peer connects once, so runs end: the configurations of the server say
`CHECK_DEADLOCK FALSE` because with every connection closed, or the process dead,
nothing more happens; the same holds of programs that have exited and streams that
have ended. The peers are symmetric in the safety
runs; the liveness runs use no symmetry.

**Fairness.** `Scheduled` of `Server` is weak fairness of `ServerStep` only: the
process is one runnable thread that `select()` wakes whenever something is
readable, so a step that stays possible is taken. It is written out with `ServerCanWork`, the condition under
which `run_server` is past `select()` or `select()` would return, in the place of
`ENABLED ServerStep`, which TLC evaluates far too slowly; that the two are equal
was confirmed by TLC as an invariant on a small instance. Nothing is assumed of the peers,
which may stop for ever at any point. `EveryConnectionTakenUp` promises nothing
when from some point on no descriptor comes free: then `accept` fails for ever.

`FairSystemSpec` assumes that the server and every program are scheduled and that
players answer their prompts: weak fairness of `ServerWorks` and of each
`ProgramWorks(p)`. Nobody has to start a program, quit, or be killed. That of
the server is written out in the same way. With players who answer, `GamesEnd` says that
a program that plays reaches its exit whatever becomes of the other player or of
the server.

`Framing` has two: under `ServerFairSpec` only the server is scheduled, and a peer
that stops within a message blocks it; under `FairSpec` a peer
that has begun a message goes on or ends, as the loop of `send_message` does in a
process that is scheduled.

## 4. Proofs

TLAPS checks these theorems, for every number of slots, rooms, descriptors and
connections, every set of peers and requests, and every size of boards, fleets,
messages and buffers:

| Module | Theorem | States |
|---|---|---|
| `BoardProofs` | `TypeCorrect`, `GridAlwaysMatches` | `Spec => []TypeOK`, `[]GridMatchesShips` of `Board` |
| | `BoardImplementsFleet` | `Spec => ImplementsFleet` |
| `FramingProofs` | `TypeCorrect`, `FramingImplementsMailbox` | `Spec => []TypeOK`, `Spec => ImplementsMailbox` |
| `ServerProofs` | `TypeCorrect`, `ClientsOwnDescriptors`, `ScanDoesNotBlock`, `RoomsAreCounted`, `ShootFindsOpponent` | `Spec => []TypeOK`, `[]DescriptorsOwned`, `[]ScanNeverBlocks`, `[]SeatsCounted`, `[]NoSegfault` of `Server` |
| `ServerBoardProofs` | `BoardsAlwaysAgree` | `Spec => []BoardsAgree` |
| | `ShotsOnlyOnTurn` | `Spec => ShotsRespectTurn`, an action property |
| `SessionProofs` | `SeatsAndClientsMatch`, `DecidedGamesStop`, `LastWordsAreLast` | `SessionSpec => []SeatsMatchClients`, `[]DecidedGameStops`, `[]LastWordOnce` |
| | `RoomsImplementMatch` | `ShipsCanSink` implies `SessionSpec /\ [][~SubmitsInGame]_sessionVars => RoomsPlayMatches` |
| `SystemProofs` | `SystemTypesCorrect`, `SubmissionsAreComplete` | `SystemSpec => []SystemTypeOK`, `[]SubmissionsComplete` |
| | `ServerServesPrograms` | `SystemSpec => []` of `DescriptorsOwned`, `ScanNeverBlocks`, `SeatsCounted`, `NoSegfault`, `SeatsMatchClients`, `DecidedGameStops`, `LastWordOnce` |
| | `ProgramsShootOnTurn` | `SystemSpec => ShotsRespectTurn` |
| | `ProgramsPlayMatches` | `ShipsCanSink` implies `SystemSpec /\ [][~SubmitsInGame]_systemVars => RoomsPlayMatches` |

**Assumptions.** The named assumptions of `Game`, `Server`, `Framing` and the
other modules: sizes are positive, `NULL` is not a slot, room or peer, the inputs are
of their types. TLC evaluates them in the runs. Two theorems say more. `ShipsCanSink`: every ship of a submission has
a segment, and each segment a cell of its own. The ships of `client.c` are straight and
have two to five; the server does not look, and a ship of length 0, or of several
segments on one cell, makes both false, because it is never sunk and has no cell
left, so that the game goes on after its fleet is struck out (see `GamesCanBeDecided`
above). `BoardsAlwaysAgree` needs no such assumption. `SubmitsInGame`: a board is handed in to a room
whose game is on. The server accepts it and starts the game anew
(`BoardsOnlyWhileWaiting` above), which no rule of `Match` allows, so
`RoomsPlayMatches` is false of `Session` as a whole; it is proved of the behaviours
without such a submission. Programs can do the same from three of them on, when a
flag left in a seat starts a game early (`StartedWhenBothSubmitted` above), so
`ProgramsPlayMatches` has the same hypothesis; `system` checks the rooms of two
programs without it.

**Boards** (`GameProofs`, `BoardProofs`). `GridMatchesShips` says that a hit counter is
the number of a ship's cells shown HIT and that the sunk flag means all of them, for a
ship that can be sunk. To
keep that through `take_shot`, a ship's cells must lie on the board,
and the ship `get_ship_at` finds must be the only one there: `Sound`.
`GameProofs` shows that `place_ship` and `take_shot` keep a board sound, whether the
placement is refused or not; the cardinality facts (`hits` reaches `length` exactly
when the last cell is hit) are lemmas there. The refinement of `Fleet` follows step
by step, since `Sound` identifies counters with sets.

**Framing** (`FramingProofs`). The types alone are not inductive: that `recv` never
writes past the buffer rests on where the loop is. The invariant numbers
the bytes a peer sends. What the server has handled, what it is receiving and what
is in the pipe are, one after the other, the bytes sent so far; a byte's number
determines its message and place, so `SIZE` bytes received from a message's start are
that message, and a fragment is only left behind by an end. Each action of `Framing`
then either moves bytes along this line, which `Mailbox` does not see, or completes,
takes or ends a message, which is a step of `Mailbox`.

**Tables** (`ServerProofs`). None of the five properties is inductive alone. A slot's
descriptor stays its own only because no peer is behind two descriptors
(`PeersDistinct`): otherwise closing one connection would close another's. The new
connection is not behind a descriptor only because the listener's queue holds each
peer once and none that is already accepted (`QueueOK`). The scan finds data only because
until `accept()` has run every reported descriptor is still open, so that
the new connection cannot be given one of them. And the pointer in MSG_SHOOT is
good only because a game in progress has both seats taken, which in turn rests
on the counts. `IInv` is the conjunction. The step is proved in two layers. Every
operator that models a C function is shown, bottom up from `Send` to the
handlers, to keep a state `Good` and to *evolve* it (`Evolves`): clients are only
dropped, descriptors only closed, what waits on an open descriptor stays.
`HandledIInv` then turns any such evolution into a step that keeps `IInv`, so each
handler needs one line; `Select`, `Accept`, `Reject` and the peers' actions are
proved directly.

**Effects** (first part of `ServerBoardProofs`). The later proofs need to know exactly what a function
changes. There is a predicate for each kind of change (`Sends`, `Frees`, `Leaves`,
`Abandons`, `Creates`, `Joins`, `Submits`, `Strikes`, `SetsGame`, `Ends`, ...) and a
lemma for each function that says which of them it is made of, in the order of the
calls, the branches in which a send fails included.

**The boards of the server** (`ServerBoardProofs`). A set of boards is `Closed` when it
contains the initial board and neither the ships of a submission nor a shot leads
out of it. Whatever peers send, the boards of the rooms stay in a closed set
(`BoardInv`): once with all boards, which gives `ShotsRespectTurn`, and once with
the sound ones, which gives `BoardsAgree`. `PlaceBoardShips` loops over the
ships of a submission; the induction over this loop is an argument about sets of
numbers, as there is no rule of induction to instantiate.

**Sessions** (`RoomProofs`, `SessionProofs`). `SeatsMatchClients` fails in `Server`,
where a seated client may ask for another room and leave its pointer behind. In a
session a peer asks once (`AskOnce`): while its request waits, the client has no room
(`Roomless`). Then `SeatsOK` is inductive:
whoever holds a seat is connected and assigned to that room and seat, and no more
clients are assigned to a room than it counts. A game in progress has both seats
taken and two counted, so nobody else is assigned, which is the other direction of
the property. `DecidedGameStops` needs to be known of
rooms without a game too: in an active room whose game is not on, no cell was struck
(`BoardFit`); this is where `create_room`, which clears the boards, and
`remove_client`, which deactivates the room of an abandoned game, come in. For
`LastWordOnce` a handler passes through states that break it, as `EndGame` tells both players
and removes them one by one; `LastOK` has as a parameter the clients that are
*doomed*, told and not yet removed, and the lemmas follow this set through the calls
until it is empty again. `Untold` (a connection that waits to be accepted was sent
nothing) closes the argument.

**Rooms implement `Match`** (end of `SessionProofs`). For every handler, `Plays` says
what becomes of each room: it is untouched but that its game may end (`Untouched`),
it gets new boards (`Clears`), a fleet is arranged and the game may begin
(`Arranges`), or the player whose turn it is fires (`Fires`), after which the game is
over or goes on by the rule of turns. `MatchStep` turns each into a step of `Match` or
a stutter: `BoardFit` gives that a fleet is arranged on boards nobody shot at,
`SinkableBoard` (sound, with ships that can be sunk) that a game goes on only while a cell is left, and a shot at a cell that
was struck before changes nothing or ends as a forfeit.

**The whole system** (`SystemProofs`). `SystemIInv` is the invariant of the sessions
and, for each program, `PeerOK`: while its connection is up, the program is at a place
that fits the `stage` the server's peer has reached, so whatever it sends next is in
order; no submission is on its way before it submits; and its board is `Laid` until
then: empty but for the first ships of the fleet, placed one after the other by
`place_ship`. For the server, which places the ships of a submission in the same order
on an empty board, that makes every submission `Complete`: its loop is the
program's history run again (`LaidAgain`), so that no placement is refused, and it ends
with the board the player sees. A server step reads requests and never opens a link
again, which `PeerOK` survives (`ServerReads`). A program's step touches its own
connection only (`OthersAlone`); it appends a request that its stage allows, drops
messages it has read, or hangs up, and the lemmas about a session's peers
(`RequestSession`, `ReadSession`) cover each. `SystemAssumption` says that what
players may type is among the requests of the server's model. The theorems about the
server then follow for the system (`StepIsServers`: only the server's steps
touch rooms and boards).

**Only model-checked.** Liveness (`EveryRequestServed`, `EveryConnectionTakenUp`,
`GamesEnd`, `WholeMessagesServed`), because fairness and ENABLED are
out of the prover's reach. `GamesEndForCause`, which `session` checks. `ViewsInStep`, `TurnIsOneToken`, `NoShotWasted`,
`VerdictsFit` and `MessagesExpected` hold of two programs and not of any number of
them (section 3). `ProgramsKeepSession` holds within the bound on unread requests:
for two programs `MaxInq = 2` is enough, as `system_live` shows; with more of them, a game
started anew can prompt a player twice, and no bound holds for every number of programs.
`SystemIInv` contains the part of it that does not depend on the bound, the order of
requests.

## 5. What is not modelled

Not modelled: `print_board` and all texts, the Makefile and the hooks, because
they have no state the properties are about; address resolution, `bind` and
`listen`, which run once before anything else; `select()` failing, because every
descriptor it is given is open (`DescriptorsOwned`); how prompts split the input
into numbers and lines; the server's own `send()`
into a full buffer, because a game sends far less than a connection buffers;
a SIGPIPE in the client as distinct from a `send()` that fails: it ends the program at
the same places, without a DISCONNECT nobody would read.
