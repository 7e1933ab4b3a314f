--------------------------- MODULE MCOReExchange ---------------------------
(* Instances of OReExchange for TLC: controllers and loads.                 *)
EXTENDS OReExchangeInv

(* With O-Re every pass is followed by a question; with D-Re it need not be.*)
Calm == {[controller |-> "O-Re", mayIdle |-> FALSE, mayBeDeaf |-> TRUE],
         [controller |-> "D-Re", mayIdle |-> FALSE, mayBeDeaf |-> TRUE],
         [controller |-> "D-Re", mayIdle |-> TRUE, mayBeDeaf |-> FALSE]}

Idle == {[controller |-> "O-Re", mayIdle |-> TRUE, mayBeDeaf |-> FALSE]}
=============================================================================
