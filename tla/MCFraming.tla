------------------------------ MODULE MCFraming ------------------------------
(* Two peers, messages of two or three bytes and buffers that end in the   *)
(* middle of a message.                                                    *)
EXTENDS Framing

TwoConns == {0, 1}
=============================================================================
