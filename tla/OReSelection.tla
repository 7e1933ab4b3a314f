---------------------------- MODULE OReSelection ----------------------------
(* How a UE gets the resources of its next transport blocks.               *)
(*                                                                         *)
(* With O-Re the controller (O-Re_experiments/run.py) looks for resources  *)
(* that are announced by UEs far enough away to the left and to the right. *)
(* If there are enough of them the UE overwrites them (mode 1); otherwise  *)
(* it draws a number of free ones at random (mode 2).  The answer is a     *)
(* string of digits, from which NrSlUeMacSchedulerSimple allocates.        *)
(* Without the controller the scheduler always draws.                      *)
(*                                                                         *)
(* Slots are told by how far they lie ahead, distances in zones.  All      *)
(* slots of the window belong to the pool, as in the experiments.          *)
(***************************************************************************)
EXTENDS Integers, Sequences, FiniteSets, FiniteSetsExt

CONSTANTS
  T1, T2,             (* the selection window                              *)
  TotalSubCh,
  Gamma10,            (* gamma of run.py, in tenths                        *)
  Tables,             (* settings tables: rows of resources, Rc and NSe    *)
  MaxTx,              (* slMaxTxTransNumPssch, used without the controller *)
  Nows,               (* bound of the model: times modulo 100              *)
  Heard,              (* bound of the model: packets heard in a pass       *)
  Occupancies,        (* bound of the model: occupied resources            *)
  Edges,              (* bound of the model: earlier estimates of the edge *)
  Loads               (* what asks for resources                           *)

Window == T1 .. T2

SubCh == 0 .. TotalSubCh - 1

Row == [n : Nat, rc : Nat, nSe : Nat]

(* need: subchannels that the data would fill; mayFilter: the list of slots *)
(* may have been filtered, which happens with several destinations.         *)
Load == [ore : BOOLEAN, need : Nat \ {0}, maxNumPerReserve : Nat \ {0}, mayFilter : BOOLEAN]

(* A packet that announces a resource of the window.  zone is the distance  *)
(* of its sender in zones, side the direction along the road.               *)
Packet == [ahead : Window, sc : SubCh, rc : Nat, zone : Nat, side : {-1, 0, 1}]

(* At most one packet is decoded on a resource.                             *)
OnePerResource(ps) == \A p, q \in ps : p.ahead = q.ahead /\ p.sc = q.sc => p = q

ASSUME SelAssumption ==
  /\ T1 \in Nat \ {0} /\ T2 \in T1 .. 100
  /\ TotalSubCh \in 1 .. 10
  /\ Gamma10 \in 0 .. 9
  /\ \A table \in Tables : table \in Seq(Row) /\ Len(table) >= 2 /\ table[Len(table)].nSe > 0
  /\ \A table \in Tables : \A r \in DOMAIN table :
       table[r].n < 10 /\ table[r].n < T2 - T1 + 1 /\ table[r].nSe < 10
  /\ \A table \in Tables : \A r \in 1 .. Len(table) - 2 : table[r].n > 0
  /\ MaxTx \in Nat \ {0}
  /\ Nows \subseteq 0 .. 99
  /\ \A ps \in Heard : ps \subseteq Packet /\ IsFiniteSet(ps) /\ OnePerResource(ps)
  /\ Occupancies \subseteq SUBSET (Window \X SubCh)
  /\ Edges \subseteq Nat
  /\ Loads \subseteq Load
  /\ \A l \in Loads : l.ore => ~l.mayFilter

VARIABLES
  pc, load,
  now, packets, table, tempEdge, dEdge,      (* the controller             *)
  instructions,                              (* the string it answers with *)
  occupied, txOpps,     (* occupied subchannels of slots; slots not yet drawn *)
  totalTx, newTxOpps,   (* chosen slots, each with the subchannel it starts at *)
  assignedSbCh, slotAllocList

ctlVars == <<now, packets, table, tempEdge, dEdge>>
schedVars == <<occupied, txOpps, totalTx, newTxOpps, assignedSbCh, slotAllocList>>
vars == <<pc, load, ctlVars, instructions, schedVars>>

NotDrawn == -1       (* the start of a slot for which it is still to choose *)

Init ==
  /\ pc = "idle" /\ load \in Loads
  /\ now \in Nows /\ packets = {} /\ table \in Tables
  /\ tempEdge = 1 /\ dEdge \in Edges
  /\ instructions = <<>>
  /\ occupied = <<>> /\ txOpps = {} /\ totalTx = 0 /\ newTxOpps = <<>>
  /\ assignedSbCh = 0 /\ slotAllocList = {}

-----------------------------------------------------------------------------
(* The controller.                                                          *)

(* A new selection.  The table goes with the estimated density of UEs, and  *)
(* dEdge is the estimate of the last selection.  The controller of D-Re     *)
(* answers as that of O-Re does when no packets were heard.                 *)
Ask ==
  /\ pc = "idle"
  /\ load' \in Loads
  /\ IF load'.ore
     THEN /\ now' \in Nows /\ packets' \in Heard /\ table' \in Tables
          /\ dEdge' \in Edges /\ tempEdge' = 1
          /\ pc' = IF packets' = {} THEN "mode" ELSE "edge"
     ELSE pc' = "trigger" /\ UNCHANGED ctlVars
  /\ UNCHANGED <<instructions, schedVars>>

AtLeast(z) == Cardinality({p \in packets : p.zone >= z})

WidenEdge_StopsShort ==
  /\ pc = "edge"
  /\ LET share == 10 * AtLeast(tempEdge)
         gamma == Gamma10 * Cardinality(packets)
     IN /\ tempEdge' = IF share > gamma THEN tempEdge + 1 ELSE tempEdge
        /\ pc' = IF share > gamma THEN "edge" ELSE "mode"
  /\ UNCHANGED <<load, now, packets, table, dEdge, instructions, schedVars>>

WidenEdge_GoesOn ==
  /\ pc = "edge"
  /\ LET share == 10 * AtLeast(tempEdge)
         gamma == Gamma10 * Cardinality(packets)
     IN /\ tempEdge' = IF share > gamma THEN tempEdge + 1 ELSE tempEdge
        /\ pc' = IF share >= gamma THEN "edge" ELSE "mode"
  /\ UNCHANGED <<load, now, packets, table, dEdge, instructions, schedVars>>

(* One turn of the loop that looks for the distance which only a share of   *)
(* gamma of the heard packets has travelled.                                *)
WidenEdge ==
  /\ pc = "edge"
  /\ LET share == 10 * AtLeast(tempEdge)
         gamma == Gamma10 * Cardinality(packets)
     IN /\ tempEdge' = IF share >= gamma THEN tempEdge + 1 ELSE tempEdge
        /\ pc' = IF share > gamma THEN "edge" ELSE "mode"
  /\ UNCHANGED <<load, now, packets, table, dEdge, instructions, schedVars>>

(* beta is a half.  Without packets the estimate stays.                     *)
IsFar(p) == 2 * p.zone >= (tempEdge - 1) + dEdge

L == {p \in packets : IsFar(p) /\ p.side < 0}
R == {p \in packets : IsFar(p) /\ p.side > 0}

Overwritable_AnyCounter(side, row) == side

Overwritable(side, row) == {p \in side : p.rc <= row.rc}

Fits(row) ==
  /\ Cardinality(Overwritable(L, row)) >= row.n \div 2
  /\ Cardinality(Overwritable(R, row)) >= row.n \div 2

Tried == 1 .. Len(table) - 2

(* Sort(choices, 3) and reverse(): ascending in the subchannel, and among   *)
(* equals the last in the list, which is in the order of the slots.         *)
Before(p, q) == p.sc < q.sc \/ (p.sc = q.sc /\ p.ahead > q.ahead)

Nth(choices, k) ==
  CHOOSE p \in choices : Cardinality({q \in choices : Before(q, p)}) = k

Chosen(row, i) ==
  IF i % 2 = 0 THEN Nth(Overwritable(L, row), i \div 2) ELSE Nth(Overwritable(R, row), i \div 2)

ChosenSlot_WithoutWrap(slot) == slot - now - T1

(* The place in the window of a slot number, which is modulo 100.           *)
ChosenSlot(slot) == IF slot > now THEN slot - now - T1 ELSE 100 + slot - now - T1

TwoDigits(slot) == IF slot > 9 THEN <<slot \div 10, slot % 10>> ELSE <<0, slot>>

(* The digits of a choice: two for the slot, one for the subchannel.        *)
Digits(p) == TwoDigits(ChosenSlot((now + p.ahead) % 100)) \o <<p.sc>>

(* One choice from the left, the next from the right, and so on.            *)
Overwrite(row) ==
  <<1, row.n>> \o
  [i \in 1 .. 3 * (row.n - (row.n % 2)) |->
     Digits(Chosen(row, (i - 1) \div 3))[1 + ((i - 1) % 3)]]

Draw == <<2, table[Len(table)].nSe>>

SelectMode ==
  /\ pc = "mode"
  /\ \/ /\ L = {} \/ R = {} \/ \A r \in Tried : ~Fits(table[r])
        /\ instructions' = Draw
     \/ /\ L # {} /\ R # {}
        /\ \E r \in Tried :
             /\ Fits(table[r]) /\ \A better \in 1 .. r - 1 : ~Fits(table[better])
             /\ instructions' = Overwrite(table[r])
  /\ pc' = "trigger"
  /\ UNCHANGED <<load, ctlVars, schedVars>>

(* In the first milliseconds, when the controller knows of no UE.           *)
SelectBlindly ==
  /\ pc = "mode" /\ packets = {}
  /\ instructions' = <<2, 1>>
  /\ pc' = "trigger"
  /\ UNCHANGED <<load, ctlVars, schedVars>>

-----------------------------------------------------------------------------
(* The scheduler.                                                           *)

Full(slot) == occupied[slot] = SubCh

(* The element at a place of the list of slots, counted from 0.             *)
At(slots, place) ==
  CHOOSE s \in slots : Cardinality({o \in slots : o < s}) = place

NumPairs == (Len(instructions) - 2) \div 3

Pair(slots, i) ==
  <<At(slots, 10 * instructions[3 * i] + instructions[3 * i + 1]), instructions[3 * i + 2]>>

(* Sensing has found resources occupied, and slots may be filtered out.     *)
FindOpportunities ==
  \E slots \in (IF load.mayFilter THEN (SUBSET Window) \ {{}} ELSE {Window}), taken \in Occupancies :
    /\ taken \subseteq slots \X SubCh
    /\ occupied' = [s \in slots |-> {sc \in SubCh : <<s, sc>> \in taken}]
    /\ txOpps' = slots

(* The slots to overwrite are taken from the list by their places; one that *)
(* is missing to an odd number is drawn.  When all are drawn, what was heard *)
(* matters no more and is forgotten (a reduction of the model).             *)
DoNrSlAllocation ==
  /\ pc = "trigger"
  /\ FindOpportunities
  /\ totalTx' = IF load.ore THEN instructions[2] ELSE MaxTx
  /\ IF load.ore /\ instructions[1] = 1
     THEN /\ newTxOpps' = [i \in 1 .. NumPairs |-> Pair(txOpps', i)]
          /\ pc' = IF NumPairs = totalTx' THEN "assign" ELSE "odd"
          /\ UNCHANGED <<packets, tempEdge>>
     ELSE /\ IF Cardinality(txOpps') > totalTx'
             THEN newTxOpps' = <<>> /\ pc' = "draw"
             ELSE /\ newTxOpps' =
                       [i \in 1 .. Cardinality(txOpps') |-> <<At(txOpps', i - 1), NotDrawn>>]
                  /\ pc' = "assign"
          /\ packets' = {} /\ tempEdge' = 1
  /\ UNCHANGED <<load, now, table, dEdge, instructions, assignedSbCh, slotAllocList>>

DrawSlot_NeverFull ==
  /\ pc = "draw"
  /\ \E s \in txOpps :
       /\ newTxOpps' = IF ~Full(s) THEN Append(newTxOpps, <<s, NotDrawn>>) ELSE newTxOpps
       /\ txOpps' = txOpps \ {s}
  /\ pc' = IF Len(newTxOpps') = totalTx THEN "assign" ELSE "draw"
  /\ UNCHANGED <<load, ctlVars, instructions, occupied, totalTx, assignedSbCh, slotAllocList>>

(* RandomlySelectSlots: a full slot is passed over as long as there are     *)
(* others.                                                                  *)
DrawSlot ==
  /\ pc = "draw"
  /\ \E s \in txOpps :
       /\ newTxOpps' = IF ~Full(s) \/ Cardinality(txOpps) <= totalTx
                       THEN Append(newTxOpps, <<s, NotDrawn>>) ELSE newTxOpps
       /\ txOpps' = txOpps \ {s}
  /\ pc' = IF Len(newTxOpps') = totalTx THEN "assign" ELSE "draw"
  /\ UNCHANGED <<load, ctlVars, instructions, occupied, totalTx, assignedSbCh, slotAllocList>>

(* The slot may be one of those that are overwritten.                       *)
DrawOddSlot ==
  /\ pc = "odd"
  /\ \E s \in txOpps : \E sc \in SubCh \ occupied[s] :
       newTxOpps' = Append(newTxOpps, <<s, sc>>)
  /\ pc' = IF Len(newTxOpps') = totalTx THEN "assign" ELSE "odd"
  /\ UNCHANGED <<load, ctlVars, instructions, occupied, txOpps, totalTx, assignedSbCh,
                 slotAllocList>>

(* GetAvailSbChInfo: a full slot counts as a free one.                      *)
Available(slot) == IF Full(slot) THEN SubCh ELSE SubCh \ occupied[slot]

LongestRun(slot) ==
  Max({n \in 1 .. TotalSubCh : \E sc \in SubCh : sc .. sc + n - 1 \subseteq Available(slot)})

NumSubCh == Min({LongestRun(newTxOpps[i][1]) : i \in DOMAIN newTxOpps})

AssignSubChannels ==
  /\ pc = "assign"
  /\ assignedSbCh' = Min({load.need, NumSubCh})
  /\ pc' = "allocate"
  /\ UNCHANGED <<load, ctlVars, instructions, occupied, txOpps, totalTx, newTxOpps, slotAllocList>>

MayStart_QuickExit(i, sc) ==
  IF newTxOpps[i][2] # NotDrawn THEN sc = newTxOpps[i][2]
  ELSE assignedSbCh = 1 \/ sc .. sc + assignedSbCh - 1 \subseteq Available(newTxOpps[i][1])

(* RandSelSbChStart, and the subchannels to overwrite.                      *)
MayStart(i, sc) ==
  IF newTxOpps[i][2] # NotDrawn THEN sc = newTxOpps[i][2]
  ELSE \/ NumSubCh = TotalSubCh /\ assignedSbCh = 1
       \/ sc .. sc + assignedSbCh - 1 \subseteq Available(newTxOpps[i][1])

(* How many slots the SCI 1-A of an allocation announces, if it carries one. *)
SlotNumInd_AlwaysMost(size) ==
  IF size % load.maxNumPerReserve = 0 THEN load.maxNumPerReserve ELSE 0

SlotNumInd(size) ==
  IF size % load.maxNumPerReserve = 0
  THEN Min({load.maxNumPerReserve, Len(newTxOpps) - size}) ELSE 0

(* slotAllocList is a set ordered by the slot: in the order of slots and    *)
(* subchannels, an allocation is dropped if its slot is already there.      *)
Allocations(start) ==
  LET slot(i) == newTxOpps[i][1]
      size(i) == Cardinality({slot(j) : j \in {k \in DOMAIN newTxOpps : slot(k) < slot(i)}})
      first(i) == \A j \in DOMAIN newTxOpps : slot(j) = slot(i) => start[i] <= start[j]
  IN {[slot |-> slot(i), start |-> start[i], length |-> assignedSbCh,
       ndi |-> IF size(i) = 0 THEN 1 ELSE 0, rv |-> size(i),
       txSci1A |-> size(i) % load.maxNumPerReserve = 0, slotNumInd |-> SlotNumInd(size(i))] :
      i \in {j \in DOMAIN newTxOpps : first(j)}}

Allocate ==
  /\ pc = "allocate"
  /\ \E start \in [DOMAIN newTxOpps -> SubCh] :
       /\ \A i \in DOMAIN newTxOpps : MayStart(i, start[i])
       /\ slotAllocList' = Allocations(start)
  /\ pc' = "done"
  /\ UNCHANGED <<load, ctlVars, instructions, occupied, txOpps, totalTx, newTxOpps, assignedSbCh>>

(* The MAC has taken the allocation; nothing of it is kept here.            *)
Finish ==
  /\ pc = "done"
  /\ pc' = "idle" /\ packets' = {} /\ tempEdge' = 1 /\ instructions' = <<>>
  /\ occupied' = <<>> /\ txOpps' = {} /\ totalTx' = 0 /\ newTxOpps' = <<>>
  /\ assignedSbCh' = 0 /\ slotAllocList' = {}
  /\ UNCHANGED <<load, now, table, dEdge>>

Select ==
  \/ WidenEdge \/ SelectMode \/ SelectBlindly
  \/ DoNrSlAllocation \/ DrawSlot \/ DrawOddSlot
  \/ AssignSubChannels \/ Allocate

Next == Ask \/ Select \/ Finish

Spec == Init /\ [][Next]_vars

FairSpec == Spec /\ WF_vars(Select) /\ WF_vars(Finish)

-----------------------------------------------------------------------------
(* The variables keep their types.                                          *)
SelTypeOK ==
  /\ pc \in {"idle", "edge", "mode", "trigger", "draw", "odd", "assign", "allocate", "done"}
  /\ load \in Loads /\ now \in Nows /\ table \in Tables /\ dEdge \in Edges
  /\ packets \subseteq Packet /\ tempEdge \in Nat \ {0}
  /\ instructions \in Seq(0 .. 9)
  /\ txOpps \subseteq DOMAIN occupied /\ DOMAIN occupied \subseteq Window
  /\ \A s \in DOMAIN occupied : occupied[s] \subseteq SubCh
  /\ totalTx \in 0 .. 9 \/ totalTx = MaxTx
  /\ newTxOpps \in Seq((DOMAIN occupied) \X (SubCh \cup {NotDrawn}))
  /\ assignedSbCh \in 0 .. TotalSubCh
  /\ \A a \in slotAllocList : a.slot \in Window /\ a.start \in SubCh

(* O-Re/run.py:364-371: the estimate of the edge is the distance in zones   *)
(* which exactly a share of gamma of the packets has travelled, or else the *)
(* last one that a larger share has travelled.                              *)
EdgeSplits ==
  pc = "mode" /\ packets # {} =>
    LET gamma == Gamma10 * Cardinality(packets)
    IN \/ 10 * AtLeast(tempEdge - 1) = gamma
       \/ 10 * AtLeast(tempEdge - 1) > gamma /\ 10 * AtLeast(tempEdge) < gamma

Overwrites == load.ore /\ instructions # <<>> /\ instructions[1] = 1

(* A resource that is overwritten is one that a UE far away has announced,  *)
(* whose counter a row of the table allows - although the controller only   *)
(* hears of it by a slot number modulo 100, and the scheduler by a place in *)
(* a list, and it sorts slots and subchannels again (run.py:349-643,        *)
(* nr-sl-ue-mac-scheduler-simple.cc:83-220).                                *)
OverwritesFar ==
  pc = "done" /\ Overwrites =>
    \A a \in slotAllocList :
      \/ \E p \in L \cup R : \E r \in Tried :
           /\ p.ahead = a.slot /\ p.sc = a.start
           /\ table[r].n = totalTx /\ p.rc <= table[r].rc
      \/ totalTx % 2 = 1 /\ a.start \notin occupied[a.slot]

(* nr-sl-ue-mac-scheduler-simple.cc:458-521: while slots are drawn and full *)
(* ones passed over, enough are left; none is drawn from an empty list.     *)
EnoughLeft ==
  pc = "draw" => Len(newTxOpps) < totalTx /\ Len(newTxOpps) + Cardinality(txOpps) >= totalTx

(* Drawn resources lie in the band and are free, unless all of their slot   *)
(* is occupied, and there are as many as were asked for and the list has.   *)
DrawnAreFree ==
  pc = "done" /\ ~Overwrites =>
    /\ Cardinality(slotAllocList) = Min({totalTx, Cardinality(DOMAIN occupied)})
    /\ \A a \in slotAllocList :
         LET band == a.start .. a.start + a.length - 1
         IN band \subseteq SubCh /\ (Full(a.slot) \/ band \cap occupied[a.slot] = {})

(* The SCI 1-A that an allocation carries announces the transmissions up to *)
(* the next one that carries an SCI 1-A (scheduler-simple.cc:343-363).      *)
AnnouncesRest ==
  pc = "done" =>
    \A a \in slotAllocList : a.txSci1A =>
      a.slotNumInd = Cardinality({b \in slotAllocList : b.slot >= a.slot /\
        \A c \in slotAllocList : c.txSci1A /\ a.slot < c.slot => b.slot < c.slot})

(* Every selection comes to an end.                                         *)
SelectionEnds == pc # "idle" ~> pc = "idle"

(* O-Re/run.py:413: "last row of the settings table is different": all the  *)
(* others are tried, and the UE overwrites if one of them fits.             *)
TriesRows ==
  pc = "trigger" /\ load.ore /\ L # {} /\ R # {} =>
    (Overwrites <=> \E r \in 1 .. Len(table) - 1 : Fits(table[r]))
=============================================================================
