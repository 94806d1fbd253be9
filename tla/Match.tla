-------------------------------- MODULE Match --------------------------------
(***************************************************************************)
(* What a room promises its two players, with no message, connection, ship *)
(* or counter in sight: fleets are arranged while no game is on, a game    *)
(* begins on untouched fleets with side 0 to move, each move strikes a new *)
(* cell of the other side, a hit moves again, and the game is over when a  *)
(* side has no cell left.  A player may be lost at any moment, in the      *)
(* middle of a move too, and then the game is over as well.                *)
(***************************************************************************)
EXTENDS Integers

CONSTANT Cells

VARIABLES
    on,         \* a game is being played
    turn,       \* the side to move, 0 when no game is on
    fleet,      \* the cells of each side's ships
    struck      \* the cells of each side that were shot at

matchVars == <<on, turn, fleet, struck>>

Sides    == {0, 1}
NoCells  == [pl \in Sides |-> {}]

MatchInit == on = FALSE /\ turn = 0 /\ fleet = NoCells /\ struck = NoCells

(* The board is cleared for other players.                                 *)
Clear ==
    /\ ~on
    /\ fleet' = NoCells
    /\ struck' = NoCells
    /\ UNCHANGED <<on, turn>>

(* A side adds ships to its fleet, and the game may begin with that.       *)
Arrange(pl) ==
    /\ ~on
    /\ struck = NoCells
    /\ fleet' \in [Sides -> SUBSET Cells]
    /\ fleet[pl] \subseteq fleet'[pl]
    /\ fleet'[1 - pl] = fleet[1 - pl]
    /\ on' \in BOOLEAN
    /\ UNCHANGED <<turn, struck>>

Over == on' = FALSE /\ turn' = 0

(* The side to move strikes cell c.  The game is over after that when no   *)
(* cell of the other side is left, and it may be over in any case, as a    *)
(* player may be lost with the move; that a game ends for no other reason  *)
(* is GamesEndForCause of Session.tla.                                     *)
Fire(c) ==
    LET target == 1 - turn
    IN  /\ on
        /\ c \notin struck[target]
        /\ struck' = [struck EXCEPT ![target] = @ \cup {c}]
        /\ UNCHANGED fleet
        /\ \/ Over
           \/ /\ ~(fleet[target] \subseteq struck'[target])
              /\ turn' = IF c \in fleet[target] THEN turn ELSE target
              /\ UNCHANGED on

Forfeit == on /\ Over /\ UNCHANGED <<fleet, struck>>

MatchNext ==
    \/ Clear
    \/ \E pl \in Sides : Arrange(pl)
    \/ \E c \in Cells : Fire(c)
    \/ Forfeit

MatchSpec == MatchInit /\ [][MatchNext]_matchVars
=============================================================================
