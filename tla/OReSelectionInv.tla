--------------------------- MODULE OReSelectionInv ---------------------------
(***************************************************************************)
(* The inductive invariants of OReSelection, checked by TLC and used by    *)
(* the proofs.                                                             *)
(***************************************************************************)
EXTENDS OReSelection

(* Behind EdgeSplits and EnoughLeft.                                        *)
HeardOK ==
  /\ packets \subseteq Packet /\ IsFiniteSet(packets)
  /\ tempEdge \in Nat \ {0} /\ table \in Tables /\ load \in Loads

EdgeAhead ==
  pc = "edge" =>
    packets # {} /\ 10 * AtLeast(tempEdge - 1) > Gamma10 * Cardinality(packets)

AnswerReadable ==
  pc = "trigger" /\ load.ore => instructions[1] = 1 \/ instructions[2] \in Nat \ {0}

DrawOK ==
  pc = "draw" =>
    /\ totalTx \in Nat /\ IsFiniteSet(txOpps)
    /\ newTxOpps \in Seq(Window \X {NotDrawn}) /\ txOpps \subseteq Window

SelInv ==
  HeardOK /\ EdgeAhead /\ EdgeSplits /\ AnswerReadable /\ DrawOK /\ EnoughLeft

-----------------------------------------------------------------------------
(* Behind the properties of the allocations: what was chosen, followed from *)
(* the answer of the controller to the scheduler's list.                    *)

(* A resource that a UE far away has announced, with a counter that a row   *)
(* for n resources allows.                                                  *)
FarResource(slot, sc, n) ==
  \E p \in L \cup R : \E r \in Tried :
    p.ahead = slot /\ p.sc = sc /\ table[r].n = n /\ p.rc <= table[r].rc

(* The answer asks to draw a number of slots, or else the scheduler will    *)
(* read pairs of far resources from it, one less for an odd number.         *)
AnswerOK ==
  pc = "trigger" /\ load.ore =>
    \/ \E n \in 1 .. 9 : instructions = <<2, n>>
    \/ LET n == instructions[2]
       IN /\ Overwrites /\ n \in 1 .. 9 /\ NumPairs = n - (n % 2)
          /\ \A i \in 1 .. NumPairs : \E slot \in Window, sc \in SubCh :
               Pair(Window, i) = <<slot, sc>> /\ FarResource(slot, sc, n)

(* With overwriting each chosen slot has its subchannel, of a far UE or, in *)
(* the one that is missing to an odd number, a free one.                    *)
OverwriteOK ==
  /\ pc = "draw" => ~Overwrites
  /\ pc = "odd" => Overwrites /\ totalTx % 2 = 1
  /\ pc \in {"odd", "assign", "allocate"} /\ Overwrites =>
       \A i \in DOMAIN newTxOpps :
         /\ newTxOpps[i][2] # NotDrawn
         /\ \/ FarResource(newTxOpps[i][1], newTxOpps[i][2], totalTx)
            \/ totalTx % 2 = 1 /\ newTxOpps[i][2] \notin occupied[newTxOpps[i][1]]

(* Without it the chosen slots are distinct ones of the list, in the end as *)
(* many as asked for, or all.                                               *)
DrawnOK ==
  pc \in {"draw", "assign", "allocate"} /\ ~Overwrites =>
    /\ \A i \in DOMAIN newTxOpps :
         newTxOpps[i][2] = NotDrawn /\ (pc = "draw" => newTxOpps[i][1] \notin txOpps)
    /\ \A i, j \in DOMAIN newTxOpps : newTxOpps[i][1] = newTxOpps[j][1] => i = j
    /\ IF pc = "draw" THEN Cardinality(DOMAIN occupied) > totalTx
                      ELSE Len(newTxOpps) = Min({totalTx, Cardinality(DOMAIN occupied)})

SomeChosen == pc \in {"assign", "allocate"} => newTxOpps # <<>>

(* The condition of AnnouncesRest: with overwriting, whose choices may fall *)
(* into one slot, each SCI announces its own transmission only, as in the   *)
(* experiments (O-Re_Experiments.cc:467).                                   *)
OnePerReserve == \A l \in Loads : l.ore => l.maxNumPerReserve = 1

ChoiceInv ==
  /\ SelTypeOK /\ OnePerResource(packets)
  /\ AnswerOK /\ OverwriteOK /\ DrawnOK /\ SomeChosen
  /\ OverwritesFar /\ DrawnAreFree /\ (OnePerReserve => AnnouncesRest)
-----------------------------------------------------------------------------
(* How many steps of a selection are left at most: turns of the loop for    *)
(* the edge up to the farthest packet, slots to draw, and the rest.  The    *)
(* attempts to draw one free resource for an odd number are one step.       *)
Farthest == Max({0} \cup {p.zone : p \in packets})

StepsLeft ==
  CASE pc = "idle"     -> 0
    [] pc = "done"     -> 1
    [] pc = "allocate" -> 2
    [] pc = "assign"   -> 3
    [] pc = "odd"      -> 3 + (totalTx - Len(newTxOpps))
    [] pc = "draw"     -> 3 + Cardinality(txOpps)
    [] pc = "trigger"  -> 4 + Cardinality(Window)
    [] pc = "mode"     -> 5 + Cardinality(Window)
    [] pc = "edge"     -> 5 + Cardinality(Window) + (Farthest + 2 - tempEdge)

(* To an odd number of choices one is missing.                              *)
OneMissing == pc = "odd" => Len(newTxOpps) + 1 = totalTx

(* The loops of run.py:364-371 and nr-sl-ue-mac-scheduler-simple.cc:465-478 *)
(* and :497-510 end when a comparison comes out, and count nothing: each of *)
(* their turns brings the selection nearer to its end.                      *)
SelectionShortens == [][Select \/ Finish => StepsLeft' < StepsLeft]_vars
=============================================================================
