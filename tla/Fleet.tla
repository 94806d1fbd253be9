------------------------------- MODULE Fleet --------------------------------
(***************************************************************************)
(* What one player's board promises, with no grid, no hit counters and no  *)
(* flags: a fleet of ships that share no cell, the set of cells shot at,   *)
(* and a verdict that depends on these two sets only.  A ship put together *)
(* from segments without a cell of their own, or from none, never sinks.   *)
(* Board.tla implements this specification.                                *)
(***************************************************************************)
EXTENDS Naturals

CONSTANTS Cells,        \* cells of the board
          OffBoard      \* targets that are not on the board

VARIABLES fleet,        \* set of ships [cells, sinkable]
          struck,       \* cells shot at so far
          answer,       \* what the last operation reported
          lost          \* whether no ship is left afloat

vars == <<fleet, struck, answer, lost>>

Sinks(ship, hits) == ship.sinkable /\ ship.cells \subseteq hits

Defeated(ships, hits) == \A ship \in ships : Sinks(ship, hits)

Init ==
    /\ fleet = {}
    /\ struck = {}
    /\ answer = "NONE"
    /\ lost = TRUE

(* A ship is accepted only on cells that no ship uses and no shot has hit. *)
Launch ==
    /\ answer' = "PLACED"
    /\ lost' = FALSE
    /\ UNCHANGED struck
    /\ \E cells \in SUBSET (Cells \ struck), sinkable \in BOOLEAN :
          /\ \A ship \in fleet : ship.cells \cap cells = {}
          /\ sinkable => cells # {}
          /\ fleet' = fleet \cup {[cells |-> cells, sinkable |-> sinkable]}

Refuse ==
    /\ answer' = "REFUSED"
    /\ UNCHANGED <<fleet, struck, lost>>

(* A first shot at a cell is answered by the ship it hits, if any.         *)
Strike(c) ==
    /\ c \in Cells \ struck
    /\ struck' = struck \cup {c}
    /\ answer' = IF \E ship \in fleet : c \in ship.cells
                 THEN IF \E ship \in fleet : c \in ship.cells /\ Sinks(ship, struck')
                      THEN "SUNK" ELSE "HIT"
                 ELSE "MISS"
    /\ lost' = Defeated(fleet, struck')
    /\ UNCHANGED fleet

(* A shot off the board or at a cell already shot at changes nothing.      *)
Waste(c) ==
    /\ c \in OffBoard \cup struck
    /\ answer' = "INVALID"
    /\ UNCHANGED <<fleet, struck, lost>>

Next ==
    \/ Launch
    \/ Refuse
    \/ \E c \in Cells : Strike(c)
    \/ \E c \in Cells \cup OffBoard : Waste(c)

Spec == Init /\ [][Next]_vars
=============================================================================
