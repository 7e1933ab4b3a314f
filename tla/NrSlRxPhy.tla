----------------------------- MODULE NrSlRxPhy -----------------------------
(***************************************************************************)
(* Sidelink reception of one UE: the transport blocks its PHY expects, as  *)
(* announced by the SCI 1-A of the transmitting UEs, and the soft bits of  *)
(* the blocks it could not decode (classes NrUePhy, NrSpectrumPhy and      *)
(* NrHarqPhy).                                                             *)
(*                                                                         *)
(* A stream is one destination of one transmitting UE.  A stream sends one *)
(* block after another, each several times, in slots it announces with SCI *)
(* 1-A.  NrSlUeMac models how those slots come about, that two streams of  *)
(* a UE share none, and that an announced one is never left out.  As       *)
(* there, slots are counted from the current one, a passed slot is -1 and  *)
(* an allocation is a slot with its place in the sequence of transmissions *)
(* of a block.                                                             *)
(*                                                                         *)
(* Within a slot PSCCH precedes PSSCH.  The receiver is half-duplex: while *)
(* it transmits SCI and data it hears nothing, while it transmits data     *)
(* alone it hears the PSCCH only.                                          *)
(***************************************************************************)
EXTENDS Integers, Sequences

CONSTANTS
  Streams,
  Rntis, RntiOf,        (* the RNTI of the UE that sends a stream           *)
  HarqIds,
  MaxNumPerReserve,     (* slots one SCI 1-A announces, its own included    *)
  Window,               (* how far ahead the slots of a block lie           *)
  TotalTx,              (* transmissions of a block                         *)
  MaxRxGrants           (* bound of the model: the queue has none           *)

(* The pool has slMaxNumPerReserve 1, 2 or 3; a gap has 8 bits, 255 being   *)
(* the absent one.                                                          *)
ASSUME RxAssumption ==
  /\ RntiOf \in [Streams -> Rntis]
  /\ HarqIds # {}
  /\ MaxNumPerReserve \in 1 .. 3
  /\ Window \in 1 .. 254
  /\ TotalTx \subseteq Nat \ {0}
  /\ MaxRxGrants \in Nat

VARIABLES
  tb,           (* per stream: the block, its slots to come, its HARQ id    *)
  slRxGrants,   (* m_slRxGrants: a queue of expected blocks                 *)
  expected,     (* RNTIs in m_slTransportBlocks, all for the current slot   *)
  history,      (* m_slDataHistory: of which blocks there are soft bits     *)
  hears,        (* what half-duplex leaves of the slot                      *)
  pc, todo,     (* place in the slot                                        *)
  halted        (* "no", or what stopped the program                        *)

vars == <<tb, slRxGrants, expected, history, hears, pc, todo, halted>>

-----------------------------------------------------------------------------
(* The transmitters.                                                        *)

Alloc == [sfn : Nat, tx : Nat]

Tb == [allocs : SUBSET Alloc, n : Nat, id : HarqIds]

NoTb == [allocs |-> {}, n |-> 0, id |-> CHOOSE id \in HarqIds : TRUE]

Idle == pc = "idle" /\ halted = "no"

Now(s) == {a \in tb[s].allocs : a.sfn = 0}

SendersOf(r) == {s \in Streams : RntiOf[s] = r /\ Now(s) # {}}

AnySignal == \E s \in Streams : Now(s) # {}

(* Every MaxNumPerReserve-th transmission carries SCI 1-A and announces     *)
(* those up to the next one.                                                *)
TxSci1A(a) == a.tx % MaxNumPerReserve = 0

SlotNumInd(s, a) ==
  IF a.tx + MaxNumPerReserve <= tb[s].n THEN MaxNumPerReserve ELSE tb[s].n - a.tx

(* At most two gaps, for which the cumulative std::advance in the code is   *)
(* right: with a third it would skip a slot.                                *)
ComputeGaps(s, a) ==
  [i \in 1 .. SlotNumInd(s, a) - 1 |->
     (CHOOSE b \in tb[s].allocs : b.tx = a.tx + i).sfn - a.sfn]

SlotLists(n) ==
  {f \in [1 .. n -> 1 .. Window] : \A i, j \in 1 .. n : i < j => f[i] < f[j]}

Allocs(slots) == {[sfn |-> slots[i], tx |-> i - 1] : i \in DOMAIN slots}

OtherStreams(s) == {t \in Streams \ {s} : RntiOf[t] = RntiOf[s]}

(* A new block.  Its slots and its HARQ id are not those of another stream  *)
(* of the UE.  What soft bits there are under the id are from now on those  *)
(* of an earlier block.                                                     *)
NewTb(s) ==
  /\ Idle
  /\ tb[s].allocs = {}
  /\ \E n \in TotalTx, id \in HarqIds : \E slots \in SlotLists(n) :
       /\ \A t \in OtherStreams(s) :
            /\ tb[t].allocs # {} => tb[t].id # id
            /\ \A a \in Allocs(slots), b \in tb[t].allocs : a.sfn # b.sfn
       /\ tb' = [tb EXCEPT ![s] = [allocs |-> Allocs(slots), n |-> n, id |-> id]]
       /\ history' = [history EXCEPT ![RntiOf[s]][id] = IF @ = {} THEN {} ELSE {"earlier"}]
  /\ UNCHANGED <<slRxGrants, expected, hears, pc, todo, halted>>

-----------------------------------------------------------------------------
(* The start of a slot.                                                     *)

Init ==
  /\ tb = [s \in Streams |-> NoTb]
  /\ slRxGrants = <<>>
  /\ expected = {}
  /\ history = [r \in Rntis |-> [id \in HarqIds |-> {}]]
  /\ hears = "all"
  /\ pc = "idle"
  /\ todo = {}
  /\ halted = "no"

Passed(k) == IF k <= 0 THEN -1 ELSE k - 1

SlotPassed ==
  [i \in DOMAIN slRxGrants |->
     [rnti |-> slRxGrants[i].rnti, sfn |-> Passed(slRxGrants[i].sfn)]]

(* SendSlExpectedTbInfo looks at the front of the queue only, and takes it  *)
(* when it is for this slot.                                                *)
FrontIsNow(grants) == grants # <<>> /\ Head(grants).sfn = 0

SendSlExpectedTbInfo(grants) ==
  IF FrontIsNow(grants) THEN {Head(grants).rnti} ELSE {}

(* StartSlot: the table of the last slot is cleared, then the announced     *)
(* block, if any, is entered.                                               *)
StartSlot ==
  /\ Idle
  /\ tb' = [s \in Streams |->
       [tb[s] EXCEPT !.allocs = {[sfn |-> a.sfn - 1, tx |-> a.tx] : a \in @}]]
  /\ slRxGrants' = IF FrontIsNow(SlotPassed) THEN Tail(SlotPassed) ELSE SlotPassed
  /\ expected' = SendSlExpectedTbInfo(SlotPassed)
  /\ hears' \in {"all", "pscch", "none"}
  /\ pc' = "pscch"
  /\ todo' = IF hears' = "none" THEN {}
             ELSE {s \in Streams : \E a \in tb[s].allocs : a.sfn = 1 /\ TxSci1A(a)}
  /\ UNCHANGED <<history, halted>>

-----------------------------------------------------------------------------
(* Reception of PSCCH.  An SCI that collided or is corrupt is dropped.      *)
SciTurn(s) ==
  /\ halted = "no" /\ pc = "pscch" /\ s \in todo
  /\ todo' = todo \ {s}
  /\ UNCHANGED <<tb, history, hears, pc>>

SciLost(s) ==
  /\ SciTurn(s)
  /\ UNCHANGED <<slRxGrants, expected, halted>>

SaveFutureSlRxGrants_NextSlot(s, gaps) ==
  slRxGrants \o [i \in DOMAIN gaps |-> [rnti |-> RntiOf[s], sfn |-> gaps[i] + 1]]

SaveFutureSlRxGrants_AtFront(s, gaps) ==
  [i \in DOMAIN gaps |-> [rnti |-> RntiOf[s], sfn |-> gaps[i]]] \o slRxGrants

SaveFutureSlRxGrants(s, gaps) ==
  slRxGrants \o [i \in DOMAIN gaps |-> [rnti |-> RntiOf[s], sfn |-> gaps[i]]]

(* AddSlExpectedTb aborts on a second block of one RNTI in a slot.          *)
PhyPscchPduReceived(s) ==
  /\ SciTurn(s)
  /\ \E a \in Now(s) : slRxGrants' = SaveFutureSlRxGrants(s, ComputeGaps(s, a))
  /\ Len(slRxGrants') <= MaxRxGrants
  /\ expected' = expected \union {RntiOf[s]}
  /\ halted' = IF RntiOf[s] \in expected THEN "twoTbs" ELSE "no"

-----------------------------------------------------------------------------
(* Reception of PSSCH, when there is a signal.  An expected block whose     *)
(* signal is not among them stops the program.                              *)
StartRxSlPssch ==
  /\ halted = "no" /\ pc = "pscch" /\ todo = {}
  /\ pc' = "pssch"
  /\ todo' = IF hears = "all" /\ AnySignal THEN expected ELSE {}
  /\ halted' = IF \E r \in todo' : SendersOf(r) = {} THEN "sinrNotUpdated" ELSE "no"
  /\ UNCHANGED <<tb, slRxGrants, expected, history, hears>>

(* The soft bits a block is combined with: none when it has ndi = 1.        *)
SoftBits(s) ==
  IF \E a \in Now(s) : a.tx = 0 THEN {} ELSE history[RntiOf[s]][tb[s].id]

(* The soft bits are kept when the resource blocks collided, erased when    *)
(* the block is decoded, and those of this transmission added when not.     *)
RxSlPssch(s) ==
  /\ halted = "no" /\ pc = "pssch" /\ RntiOf[s] \in todo
  /\ s \in SendersOf(RntiOf[s])
  /\ todo' = todo \ {RntiOf[s]}
  /\ \E bits \in {SoftBits(s), {}, SoftBits(s) \union {"this"}} :
       history' = [history EXCEPT ![RntiOf[s]][tb[s].id] = bits]
  /\ UNCHANGED <<tb, slRxGrants, expected, hears, pc, halted>>

(* The table is cleared at the end of a reception.                          *)
EndRxSlFrame ==
  /\ halted = "no" /\ pc = "pssch" /\ todo = {}
  /\ pc' = "idle"
  /\ expected' = IF hears = "all" /\ AnySignal THEN {} ELSE expected
  /\ tb' = [s \in Streams |->
       IF tb[s].allocs = Now(s) THEN NoTb
       ELSE [tb[s] EXCEPT !.allocs = @ \ Now(s)]]
  /\ UNCHANGED <<slRxGrants, history, hears, todo, halted>>

Next ==
  \/ StartSlot \/ StartRxSlPssch \/ EndRxSlFrame
  \/ \E s \in Streams : NewTb(s) \/ SciLost(s) \/ PhyPscchPduReceived(s) \/ RxSlPssch(s)

Spec == Init /\ [][Next]_vars

-----------------------------------------------------------------------------
(* Properties.                                                              *)

(* Every variable keeps its type; in particular, an announced block has a   *)
(* slot within the window.                                                  *)
RxTypeOK ==
  /\ tb \in [Streams -> Tb]
  /\ slRxGrants \in Seq([rnti : Rntis, sfn : -1 .. Window])
  /\ expected \subseteq Rntis
  /\ history \in [Rntis -> [HarqIds -> SUBSET {"this", "earlier"}]]
  /\ hears \in {"all", "pscch", "none"}
  /\ pc \in {"idle", "pscch", "pssch"}
  /\ todo \subseteq Streams \union Rntis
  /\ halted \in {"no", "twoTbs", "sinrNotUpdated"}

(* The PHY never stops on a second block of one RNTI, nor on an expected    *)
(* block without a signal, whatever SCIs are lost and however the streams   *)
(* interleave their announcements.                                          *)
NeverAborts == halted = "no"

(* nr-ue-phy.h:918-920, SendSlExpectedTbInfo "will go over" the announced   *)
(* blocks and send on those "to be received in the current slot": a block   *)
(* announced for a slot is expected in it.                                  *)
AnnouncedIsExpected ==
  [][StartSlot => \A i \in DOMAIN slRxGrants :
       slRxGrants[i].sfn = 1 => slRxGrants[i].rnti \in expected']_vars

(* An entry of the queue is in turn when all that stand before it are for   *)
(* earlier slots, still ahead.                                              *)
InTurn(i) ==
  /\ i \in DOMAIN slRxGrants
  /\ \A j \in 1 .. i : slRxGrants[j].sfn >= 1
  /\ \A j, k \in 1 .. i : j < k => slRxGrants[j].sfn < slRxGrants[k].sfn

(* What the front alone (nr-ue-phy.cc:1711-1725) can promise, and to any    *)
(* number of UEs: a block in turn is never overtaken by what is announced   *)
(* later, and is expected in its slot; only one that an SCI entered behind  *)
(* a later slot, or the same, is missed.                                    *)
InTurnIsExpected ==
  [][\A i \in DOMAIN slRxGrants : InTurn(i) =>
       IF ~StartSlot THEN slRxGrants'[i] = slRxGrants[i] /\ InTurn(i)'
       ELSE IF slRxGrants[i].sfn = 1 THEN slRxGrants[i].rnti \in expected'
       ELSE \E j \in DOMAIN slRxGrants' :
              /\ slRxGrants'[j].rnti = slRxGrants[i].rnti
              /\ slRxGrants'[j].sfn = slRxGrants[i].sfn - 1
              /\ InTurn(j)']_vars

(* RxSlPssch: a block is combined with soft bits of its own only.           *)
NoStaleSoftBits ==
  [][\A s \in Streams : RxSlPssch(s) => "earlier" \notin SoftBits(s)]_vars

=============================================================================
