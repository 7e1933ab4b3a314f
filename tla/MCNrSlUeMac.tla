---------------------------- MODULE MCNrSlUeMac ----------------------------
(* Instances of NrSlUeMac for TLC: the pools the runs use.                  *)
EXTENDS NrSlUeMacInv

EverySlot == [i \in 0 .. 0 |-> TRUE]
ThreeOfFour == [i \in 0 .. 3 |-> i # 1]

Symmetry == {[d \in Dsts |-> IF d = a THEN b ELSE IF d = b THEN a ELSE d] : a, b \in Dsts}
=============================================================================
