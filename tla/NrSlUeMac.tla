----------------------------- MODULE NrSlUeMac -----------------------------
(***************************************************************************)
(* Sidelink transmission of one UE in mode 2: the semi-persistent grants   *)
(* of class NrUeMac, driven by the slot indication of the PHY, with the    *)
(* RLC UM queues that feed it, the buffer view of the scheduler and the    *)
(* HARQ entity.                                                            *)
(*                                                                         *)
(* Slots are counted from the current one: an allocation with sfn = 0 is   *)
(* for the slot being processed, one with sfn = 3 for three slots later.   *)
(* A slot already passed never equals the current one again, so that all   *)
(* of them are the single value -1.                                        *)
(*                                                                         *)
(* The simulator is single threaded.  DoNrSlSlotIndication is one call     *)
(* with two loops, over the destinations and then over the grants; each    *)
(* iteration is an action, and pc and todo keep the place.  The upper      *)
(* layers act between two slot indications only.                           *)
(***************************************************************************)
EXTENDS NrSlUeMacHarq, FiniteSets

CONSTANTS
  ResvPeriod,           (* m_pRsvpTx in slots                               *)
  T1, T2,               (* the selection window, m_t1 and m_t2              *)
  PhyPool,              (* the physical pool: is slot i a sidelink slot?    *)
  PoolLen,              (* its length                                       *)
  ReselCounters,        (* values GetRndmReselectionCounter can draw        *)
  CReselFactor,         (* m_cResel = m_reselCounter * 10                   *)
  TotalTx,              (* transmissions per TB the scheduler may ask for   *)
  SlProbResourceKeep,   (* m_slProbResourceKeep in percent                  *)
  EnableSensing,        (* attribute EnableSensing                          *)
  AssertsEnabled,       (* debug build: NS_ASSERT_MSG stops the program     *)
  MaxTxBuffer,          (* capacity of an RLC queue, in SDUs                *)
  SaturatedTraffic      (* the applications keep every RLC queue filled     *)

(* std::numeric_limits <uint16_t>::max ()                                   *)
MaxUint16 == 65535

(* T2 <= ResvPeriod is not checked by the code (ValidateResvPeriod is        *)
(* commented out); the scenarios keep to it.                                *)
ASSUME MacAssumption ==
  /\ ResvPeriod \in Nat \ {0}
  /\ T1 \in Nat \ {0} /\ T2 \in Nat /\ T1 <= T2 /\ T2 <= ResvPeriod
  /\ PoolLen \in Nat \ {0} /\ PhyPool \in [0 .. PoolLen - 1 -> BOOLEAN]
  /\ ReselCounters \subseteq Nat \ {0}
  /\ CReselFactor \in Nat \ {0}
  /\ \A r \in ReselCounters : r * CReselFactor <= MaxUint16
  /\ TotalTx \subseteq Nat \ {0}
  /\ SlProbResourceKeep \in 0 .. 100
  /\ EnableSensing \in BOOLEAN
  /\ AssertsEnabled \in BOOLEAN
  /\ MaxTxBuffer \in Nat \ {0}
  /\ SaturatedTraffic \in BOOLEAN

VARIABLES
  txBuffer,       (* RLC: SDUs in m_txBuffer, per destination               *)
  rbsTimer,       (* RLC: m_rbsTimer is running                             *)
  txQueueSize,    (* scheduler: what it believes is in the RLC queue        *)
  granted,        (* destinations with an entry in m_grantInfo              *)
  grantInfo,      (* those entries, NrSlGrantInfo                           *)
  harq,           (* m_nrSlHarq                                             *)
  poolIndex,      (* current slot modulo the pool length                    *)
  txInSlot,       (* destinations whose TB went to the PHY in this slot     *)
  pc, todo,       (* place in DoNrSlSlotIndication                          *)
  halted          (* "no", or what stopped the program                      *)

rlcVars == <<txBuffer, rbsTimer>>
macVars == <<granted, grantInfo, harq>>
vars == <<txBuffer, rbsTimer, txQueueSize, granted, grantInfo, harq,
          poolIndex, txInSlot, pc, todo, halted>>

-----------------------------------------------------------------------------
(* Grants.  An allocation keeps its slot and its place in the sequence of   *)
(* transmissions of a TB: 0 is the one with ndi = 1.                        *)

Alloc == [sfn : Int, tx : Nat]

NoHarqId == 255

NrSlGrantInfo ==
  [cReselCounter : 0 .. MaxUint16,
   slResoReselCounter : Int,
   prevSlResoReselCounter : Nat,
   slotAllocations : SUBSET Alloc,
   nSelected : Nat,
   tbTxCounter : Nat,
   nrSlHarqId : HarqIds \union {NoHarqId}]

DefaultGrant ==
  [cReselCounter |-> 255, slResoReselCounter |-> 255,
   prevSlResoReselCounter |-> 255, slotAllocations |-> {},
   nSelected |-> 0, tbTxCounter |-> 0, nrSlHarqId |-> NoHarqId]

(* slotAllocations.begin (): the std::set is ordered by slot.               *)
IsFirst(a, allocs) == a \in allocs /\ \A b \in allocs : a.sfn <= b.sfn

(* One slot later.                                                          *)
Passed(s) == IF s <= 0 THEN -1 ELSE s - 1

Advance(allocs) == {[sfn |-> Passed(a.sfn), tx |-> a.tx] : a \in allocs}

(* CreateGrantInfo: the list of the first period, repeated once for each    *)
(* of the cResel periods.                                                   *)
SlotAllocations(slotAllocList, cResel) ==
  {[sfn |-> slotAllocList[k] + i * ResvPeriod, tx |-> k - 1] :
     k \in DOMAIN slotAllocList, i \in 0 .. cResel - 1}

CreateGrantInfo_SmallCResel(slotAllocList, reselCounter) ==
  [cReselCounter |-> reselCounter,
   slResoReselCounter |-> reselCounter,
   prevSlResoReselCounter |-> reselCounter,
   slotAllocations |-> SlotAllocations(slotAllocList, reselCounter * CReselFactor),
   nSelected |-> Len(slotAllocList),
   tbTxCounter |-> 0,
   nrSlHarqId |-> NoHarqId]

CreateGrantInfo_FewPeriods(slotAllocList, reselCounter) ==
  [cReselCounter |-> reselCounter * CReselFactor,
   slResoReselCounter |-> reselCounter,
   prevSlResoReselCounter |-> reselCounter,
   slotAllocations |-> SlotAllocations(slotAllocList, reselCounter),
   nSelected |-> Len(slotAllocList),
   tbTxCounter |-> 0,
   nrSlHarqId |-> NoHarqId]

CreateGrantInfo(slotAllocList, reselCounter) ==
  [cReselCounter |-> reselCounter * CReselFactor,
   slResoReselCounter |-> reselCounter,
   prevSlResoReselCounter |-> reselCounter,
   slotAllocations |-> SlotAllocations(slotAllocList, reselCounter * CReselFactor),
   nSelected |-> Len(slotAllocList),
   tbTxCounter |-> 0,
   nrSlHarqId |-> NoHarqId]

SelectionWindow_FromStart ==
  {s \in T1 .. T2 : PhyPool[s % PoolLen]}

(* GetNrSlCommOpportunities: the sidelink slots of the selection window.    *)
SelectionWindow ==
  {s \in T1 .. T2 : PhyPool[(poolIndex + s) % PoolLen]}

(* GetNrSlTxOpportunities marks occupied subchannels but removes no slot;   *)
(* sensing can only empty the list, when the RSRP threshold passes 0 dBm.   *)
TxOpportunities ==
  IF EnableSensing THEN {SelectionWindow, {}} ELSE {SelectionWindow}

(* FilterTxOpportunities, with the allocations of d already erased.         *)
FilterTxOpportunities_FirstOnly(opps, d) ==
  {s \in opps : \A e \in granted \ {d} :
                  \A a \in grantInfo[e].slotAllocations :
                    IsFirst(a, grantInfo[e].slotAllocations) => a.sfn # s}

FilterTxOpportunities(opps, d) ==
  {s \in opps : \A e \in granted \ {d} :
                  \A a \in grantInfo[e].slotAllocations : a.sfn # s}

(* What the scheduler can answer: as many of the slots as it asks for, or   *)
(* all when there are fewer, ordered by slot.                               *)
SlotAllocLists(slots) ==
  UNION {{f \in [1 .. n -> slots] : \A i, j \in 1 .. n : i < j => f[i] < f[j]} :
           n \in {IF Cardinality(slots) > t THEN t ELSE Cardinality(slots) :
                    t \in TotalTx}}

-----------------------------------------------------------------------------
Init ==
  /\ txBuffer = [d \in Dsts |-> 0]
  /\ rbsTimer = [d \in Dsts |-> FALSE]
  /\ txQueueSize = [d \in Dsts |-> 0]
  /\ granted = {}
  /\ grantInfo = [d \in Dsts |-> DefaultGrant]
  /\ harq = InitHarqBuffer
  /\ poolIndex = 0
  /\ txInSlot = {}
  /\ pc = "idle"
  /\ todo = {}
  /\ halted = "no"

Idle == pc = "idle" /\ halted = "no"

(* RLC: a PDCP PDU arrives.  A full queue drops it; the report is sent      *)
(* either way and the timer is cancelled.                                   *)
TransmitNrSlPdcpPdu_NoReportWhenFull(d) ==
  /\ Idle
  /\ txBuffer' = [txBuffer EXCEPT ![d] = IF @ < MaxTxBuffer THEN @ + 1 ELSE @]
  /\ txQueueSize' = [txQueueSize EXCEPT ![d] = IF txBuffer[d] < MaxTxBuffer THEN txBuffer'[d] ELSE @]
  /\ rbsTimer' = [rbsTimer EXCEPT ![d] = FALSE]
  /\ UNCHANGED <<macVars, poolIndex, txInSlot, pc, todo, halted>>

TransmitNrSlPdcpPdu(d) ==
  /\ Idle
  /\ txBuffer' = [txBuffer EXCEPT ![d] = IF @ < MaxTxBuffer THEN @ + 1 ELSE @]
  /\ txQueueSize' = [txQueueSize EXCEPT ![d] = txBuffer'[d]]
  /\ rbsTimer' = [rbsTimer EXCEPT ![d] = FALSE]
  /\ UNCHANGED <<macVars, poolIndex, txInSlot, pc, todo, halted>>

(* RLC: the timer expires.  It restarts while data is waiting.              *)
ExpireNrSlRbsTimer(d) ==
  /\ Idle
  /\ rbsTimer[d]
  /\ txQueueSize' = [txQueueSize EXCEPT ![d] = IF txBuffer[d] > 0 THEN txBuffer[d] ELSE @]
  /\ rbsTimer' = [rbsTimer EXCEPT ![d] = txBuffer[d] > 0]
  /\ UNCHANGED <<txBuffer, macVars, poolIndex, txInSlot, pc, todo, halted>>

-----------------------------------------------------------------------------
(* DoSlotIndication: time passes; a sidelink slot starts the first loop,    *)
(* or the second one when no HARQ process is available.                     *)
SlotIndication ==
  /\ Idle
  /\ SaturatedTraffic => \A d \in Dsts : txBuffer[d] > 0
  /\ poolIndex' = (poolIndex + 1) % PoolLen
  /\ grantInfo' = [d \in Dsts |->
       [grantInfo[d] EXCEPT !.slotAllocations = Advance(@)]]
  /\ txInSlot' = {}
  /\ IF PhyPool[poolIndex']
     THEN IF Len(harq.ids) > 0
          THEN pc' = "sched" /\ todo' = Dsts
          ELSE pc' = "tx" /\ todo' = granted
     ELSE UNCHANGED <<pc, todo>>
  /\ UNCHANGED <<rlcVars, txQueueSize, granted, harq, halted>>

EndOfSched ==
  /\ halted = "no" /\ pc = "sched" /\ todo = {}
  /\ pc' = "tx"
  /\ todo' = granted
  /\ UNCHANGED <<rlcVars, txQueueSize, macVars, poolIndex, txInSlot, halted>>

EndOfTx ==
  /\ halted = "no" /\ pc = "tx" /\ todo = {}
  /\ pc' = "idle"
  /\ UNCHANGED <<rlcVars, txQueueSize, macVars, poolIndex, txInSlot, todo, halted>>

(* The loop over the destinations.                                          *)
SchedTurn(d) ==
  /\ halted = "no" /\ pc = "sched" /\ d \in todo
  /\ todo' = todo \ {d}
  /\ UNCHANGED <<rlcVars, harq, poolIndex, txInSlot, pc>>

HasGrant(d) == d \in granted /\ grantInfo[d].slResoReselCounter >= 0

SkipDst(d) ==
  /\ SchedTurn(d)
  /\ HasGrant(d)
  /\ UNCHANGED <<txQueueSize, granted, grantInfo, halted>>

(* The draw is the integer 0 or 1, compared with a probability in [0, 1].   *)
MayKeep(d, randProb) ==
  /\ d \in granted
  /\ grantInfo[d].cReselCounter >= 0
  /\ grantInfo[d].slotAllocations # {}
  /\ SlProbResourceKeep > 100 * randProb

Keep(d) ==
  /\ SchedTurn(d)
  /\ ~HasGrant(d)
  /\ \E randProb \in {0, 1} : MayKeep(d, randProb)
  /\ grantInfo' = [grantInfo EXCEPT
       ![d].slResoReselCounter = grantInfo[d].prevSlResoReselCounter]
  /\ halted' = IF AssertsEnabled THEN "assert" ELSE "no"
  /\ UNCHANGED <<txQueueSize, granted>>

(* The scheduler fits the TB to the data it knows of and forgets what it    *)
(* assigned: all of it, or some when the slots are too small.               *)
AssignedData(d) ==
  \E left \in 0 .. txQueueSize[d] :
    txQueueSize' = [txQueueSize EXCEPT ![d] = left]

(* The new grant replaces the old one, whose counter is asserted not to be  *)
(* negative.                                                                *)
SchedUeNrSlConfigInd(d, slotAllocList, reselCounter) ==
  /\ grantInfo' = [grantInfo EXCEPT ![d] = CreateGrantInfo(slotAllocList, reselCounter)]
  /\ granted' = granted \union {d}
  /\ halted' = IF AssertsEnabled /\ d \in granted THEN "assert" ELSE "no"

(* The allocations are erased and the scheduler is asked for new ones: it   *)
(* answers when it knows of data and got slots.                             *)
Reselect(d) ==
  /\ SchedTurn(d)
  /\ ~HasGrant(d)
  /\ \E randProb \in {0, 1} : ~MayKeep(d, randProb)
  /\ \E opps \in TxOpportunities :
       LET filtered == FilterTxOpportunities(opps, d)
       IN \/ /\ filtered = {} \/ txQueueSize[d] = 0
             /\ grantInfo' = [grantInfo EXCEPT ![d].slotAllocations = {}]
             /\ UNCHANGED <<txQueueSize, granted, halted>>
          \/ /\ filtered # {} /\ txQueueSize[d] > 0
             /\ \E reselCounter \in ReselCounters, list \in SlotAllocLists(filtered) :
                  SchedUeNrSlConfigInd(d, list, reselCounter)
             /\ AssignedData(d)

-----------------------------------------------------------------------------
(* The loop over the grants.                                                *)
TxTurn(d) ==
  /\ halted = "no" /\ pc = "tx" /\ d \in todo
  /\ todo' = todo \ {d}
  /\ UNCHANGED <<txQueueSize, granted, poolIndex, pc>>

NoTxNow(d) ==
  /\ TxTurn(d)
  /\ \/ ~HasGrant(d)
     \/ \E a \in grantInfo[d].slotAllocations :
          IsFirst(a, grantInfo[d].slotAllocations) /\ a.sfn # 0
  /\ UNCHANGED <<rlcVars, grantInfo, harq, txInSlot, halted>>

(* begin () of an empty set is read: the garbage found there differs from   *)
(* the current slot, or the end iterator is erased.                         *)
ReadEmptyGrant(d) ==
  /\ TxTurn(d)
  /\ HasGrant(d)
  /\ grantInfo[d].slotAllocations = {}
  /\ halted' \in {"no", "undefined"}
  /\ UNCHANGED <<rlcVars, grantInfo, harq, txInSlot>>

TxNow(d, a) ==
  /\ TxTurn(d)
  /\ HasGrant(d)
  /\ IsFirst(a, grantInfo[d].slotAllocations)
  /\ a.sfn = 0

(* After a transmission that was not wasted: the last one of a TB counts    *)
(* both counters down and gives the HARQ id back.  n is tbTxCounter.        *)
Used_NotErased(g, a, n, id) ==
  LET last == n = g.nSelected
  IN [g EXCEPT !.slResoReselCounter = IF last THEN @ - 1 ELSE @,
               !.cReselCounter = IF last THEN (@ - 1) % (MaxUint16 + 1) ELSE @,
               !.tbTxCounter = IF last /\ a.tx # 0 THEN 0 ELSE n,
               !.nrSlHarqId = id]

Used_CountsRetxOnly(g, a, n, id) ==
  LET last == n = g.nSelected
  IN [g EXCEPT !.slotAllocations = @ \ {a},
               !.slResoReselCounter = IF last /\ a.tx # 0 THEN @ - 1 ELSE @,
               !.cReselCounter = IF last /\ a.tx # 0 THEN (@ - 1) % (MaxUint16 + 1) ELSE @,
               !.tbTxCounter = IF last /\ a.tx # 0 THEN 0 ELSE n,
               !.nrSlHarqId = id]

Used(g, a, n, id) ==
  LET last == n = g.nSelected
  IN [g EXCEPT !.slotAllocations = @ \ {a},
               !.slResoReselCounter = IF last THEN @ - 1 ELSE @,
               !.cReselCounter = IF last THEN (@ - 1) % (MaxUint16 + 1) ELSE @,
               !.tbTxCounter = IF last /\ a.tx # 0 THEN 0 ELSE n,
               !.nrSlHarqId = id]

Wasted(g, a, n, id) ==
  [g EXCEPT !.slotAllocations = @ \ {a}, !.tbTxCounter = n, !.nrSlHarqId = id]

Feedback(h, d, id, last) ==
  IF last THEN RecvNrSlHarqFeedback(h, id) ELSE h

FeedbackOutcome(h, d, id, last) ==
  CASE last /\ FeedbackAborts(h, d, id) -> "harqMismatch"
    [] last /\ AssertsEnabled /\ IsHarqIdAvailable(h, id) -> "assert"
    [] OTHER -> "no"

(* A new TB with no process left: AssignNrSlHarqProcessId aborts.           *)
NoHarqProcess(d) ==
  /\ \E a \in grantInfo[d].slotAllocations : TxNow(d, a) /\ a.tx = 0
  /\ harq.ids = <<>>
  /\ halted' = "harqBusy"
  /\ UNCHANGED <<rlcVars, grantInfo, harq, txInSlot>>

(* The RLC sends what fits in the TB, possibly a segment of the first SDU,  *)
(* and runs its timer when data is left.                                    *)
NotifyNrSlTxOpportunity(d) ==
  \E left \in 0 .. txBuffer[d] :
    /\ txBuffer' = [txBuffer EXCEPT ![d] = left]
    /\ rbsTimer' = [rbsTimer EXCEPT ![d] = @ \/ left > 0]

(* A new TB with data in the RLC queue.                                     *)
NewTx(d) ==
  \E a \in grantInfo[d].slotAllocations :
    /\ TxNow(d, a) /\ a.tx = 0
    /\ harq.ids # <<>>
    /\ txBuffer[d] > 0
    /\ LET id == NextHarqId(harq)
           assigned == AssignNrSlHarqProcessId(harq, d)
           loaded == AddPacket(assigned, id)
           last == grantInfo[d].nSelected = 1
       IN /\ harq' = Feedback(loaded, d, id, last)
          /\ grantInfo' = [grantInfo EXCEPT ![d] = Used(@, a, 1, id)]
          /\ halted' = IF AddPacketAborts(assigned, d, id) THEN "harqMismatch"
                       ELSE FeedbackOutcome(loaded, d, id, last)
    /\ NotifyNrSlTxOpportunity(d)
    /\ txInSlot' = txInSlot \union {d}

(* A new TB and an empty RLC queue: an id is assigned, nothing is sent.     *)
NewTxWasted(d) ==
  \E a \in grantInfo[d].slotAllocations :
    /\ TxNow(d, a) /\ a.tx = 0
    /\ harq.ids # <<>>
    /\ txBuffer[d] = 0
    /\ harq' = AssignNrSlHarqProcessId(harq, d)
    /\ grantInfo' = [grantInfo EXCEPT ![d] = Wasted(@, a, 1, NextHarqId(harq))]
    /\ UNCHANGED <<rlcVars, txInSlot, halted>>

(* A blind retransmission of the burst in the HARQ buffer; GetPacketBurst   *)
(* aborts on an id of another destination.                                  *)
ReTx(d) ==
  \E a \in grantInfo[d].slotAllocations :
    /\ TxNow(d, a) /\ a.tx # 0
    /\ LET g == grantInfo[d]
           id == g.nrSlHarqId
           n == g.tbTxCounter + 1
           last == n = g.nSelected
       IN IF id = NoHarqId \/ harq.pkt[id].dst # d
          THEN halted' = "harqMismatch" /\ UNCHANGED <<grantInfo, harq, txInSlot>>
          ELSE IF harq.pkt[id].full
          THEN /\ harq' = Feedback(harq, d, id, last)
               /\ grantInfo' = [grantInfo EXCEPT ![d] = Used(@, a, n, id)]
               /\ halted' = FeedbackOutcome(harq, d, id, last)
               /\ txInSlot' = txInSlot \union {d}
          ELSE /\ grantInfo' = [grantInfo EXCEPT ![d] = Wasted(@, a, n, id)]
               /\ UNCHANGED <<harq, txInSlot, halted>>
    /\ UNCHANGED rlcVars

-----------------------------------------------------------------------------
(* Nothing happens once the program stopped.                                *)
Stopped == halted # "no" /\ UNCHANGED vars

UpperLayer(d) == TransmitNrSlPdcpPdu(d) \/ ExpireNrSlRbsTimer(d)

SchedDst(d) == SkipDst(d) \/ Keep(d) \/ Reselect(d)

TxGrant(d) ==
  \/ NoTxNow(d) \/ ReadEmptyGrant(d) \/ NoHarqProcess(d)
  \/ NewTx(d) \/ NewTxWasted(d) \/ ReTx(d)

Slot == SlotIndication \/ EndOfSched \/ EndOfTx
          \/ \E d \in Dsts : SchedDst(d) \/ TxGrant(d)

Next == Slot \/ (\E d \in Dsts : UpperLayer(d)) \/ Stopped

Spec == Init /\ [][Next]_vars

(* The simulator always reaches the next event: the slot clock, whose       *)
(* actions are never disabled for long, and the RLC timer, an event of its  *)
(* own that falls between two slots.                                        *)
FairSpec ==
  /\ Spec
  /\ WF_vars(Slot)
  /\ \A d \in Dsts : SF_vars(ExpireNrSlRbsTimer(d))
  /\ SaturatedTraffic => \A d \in Dsts : WF_vars(TransmitNrSlPdcpPdu(d))

-----------------------------------------------------------------------------
(* Properties.                                                              *)

(* Every variable keeps its type.                                           *)
TypeOK ==
  /\ txBuffer \in [Dsts -> 0 .. MaxTxBuffer]
  /\ rbsTimer \in [Dsts -> BOOLEAN]
  /\ txQueueSize \in [Dsts -> 0 .. MaxTxBuffer]
  /\ granted \subseteq Dsts
  /\ grantInfo \in [Dsts -> NrSlGrantInfo]
  /\ harq \in HarqState
  /\ poolIndex \in 0 .. PoolLen - 1
  /\ txInSlot \subseteq Dsts
  /\ pc \in {"idle", "sched", "tx"}
  /\ todo \subseteq Dsts
  /\ halted \in {"no", "harqBusy", "harqMismatch", "assert", "undefined"}

(* The PHY has one PSSCH queue and one allocation per slot: the MAC never   *)
(* hands it the TBs of two destinations in the same slot, whatever the      *)
(* order of grants, keeps and reselections that led there                   *)
(* (FilterTxOpportunities is the only guard).                               *)
OneTbPerSlot == \A d, e \in txInSlot : d = e

(* The id of a TB that has transmissions left is not in the FIFO and is     *)
(* still the destination's: GetPacketBurst and RecvNrSlHarqFeedback, which  *)
(* abort otherwise, never do, although nrSlHarqId is only a copy kept in    *)
(* the grant while ids are handed out and returned in other slots.          *)
RetxHoldsHarqId ==
  \A d \in granted :
    \A a \in grantInfo[d].slotAllocations :
      (HasGrant(d) /\ IsFirst(a, grantInfo[d].slotAllocations) /\ a.sfn >= 0 /\ a.tx # 0)
        => /\ grantInfo[d].nrSlHarqId # NoHarqId
           /\ harq.pkt[grantInfo[d].nrSlHarqId].dst = d
           /\ ~IsHarqIdAvailable(harq, grantInfo[d].nrSlHarqId)

(* A burst stays in the HARQ buffer only while its grant is active and has  *)
(* retransmissions of it ahead: neither a reselection nor a kept grant      *)
(* strands a transport block.                                               *)
BufferedTbHasGrant ==
  \A id \in HarqIds :
    harq.pkt[id].full =>
      \E d \in granted :
        /\ HasGrant(d)
        /\ grantInfo[d].nrSlHarqId = id
        /\ harq.pkt[id].dst = d
        /\ \E a \in grantInfo[d].slotAllocations : a.tx # 0

(* The blind retransmission service is implemented: the TB on the air is    *)
(* the one in the HARQ buffer under the id its grant keeps.  A grant with   *)
(* a buffered TB is never replaced, its id never handed to another          *)
(* destination, its count never restarted.                                  *)
OnAir(d) ==
  /\ grantInfo[d].nrSlHarqId # NoHarqId
  /\ harq.pkt[grantInfo[d].nrSlHarqId] = [dst |-> d, full |-> TRUE]

TbOnAir ==
  [d \in Dsts |->
     IF OnAir(d)
     THEN [id |-> grantInfo[d].nrSlHarqId, sent |-> grantInfo[d].tbTxCounter,
           total |-> grantInfo[d].nSelected]
     ELSE [id |-> NoHarqId, sent |-> 0, total |-> 0]]

Service == INSTANCE SlBlindRetransmission WITH
  Ids <- HarqIds, NoId <- NoHarqId,
  Totals <- UNION {1 .. t : t \in TotalTx},
  inSlot <- txInSlot, tb <- TbOnAir

BlindRetransmission == Service!Spec

(* The service with its times, where the period fits the pool.  The         *)
(* transmissions ahead of a TB are the allocations before those of the next *)
(* TB, so that what SCI 1-A announces in one slot is what                   *)
(* DoNrSlSlotIndication does in later ones, with the grant, its counters    *)
(* and the other grants changing in between.                                *)
BeforeNextTb(allocs) ==
  {a \in allocs : \A b \in allocs : b.tx = 0 => a.sfn < b.sfn}

SlotsAhead ==
  [d \in Dsts |->
     IF OnAir(d) THEN {a.sfn : a \in BeforeNextTb(grantInfo[d].slotAllocations)} ELSE {}]

TimedService == INSTANCE SlAnnouncedTransmission WITH
  Ids <- HarqIds, NoId <- NoHarqId,
  Totals <- UNION {1 .. t : t \in TotalTx},
  inSlot <- txInSlot, tb <- TbOnAir, ahead <- SlotsAhead

AnnouncedTransmission == TimedService!AnnouncedSpec

(* cReselCounter, an unsigned number nobody tests for zero, counts at least *)
(* the periods that still have allocations: it cannot wrap around.          *)
CReselCoversAllocations ==
  \A d \in granted :
    Cardinality(grantInfo[d].slotAllocations)
      <= grantInfo[d].cReselCounter * grantInfo[d].nSelected

(* Data waiting in the RLC is never forgotten: the destination has a grant, *)
(* or the scheduler knows of the data, or the timer that tells it is        *)
(* running.  AssignedData lets the scheduler forget data before the RLC     *)
(* sends it, and every new PDU cancels the timer.  (Whether the grant still *)
(* has allocations is another question: see DataIsSent.)                    *)
NoLostWakeup ==
  \A d \in Dsts :
    txBuffer[d] > 0 => HasGrant(d) \/ txQueueSize[d] > 0 \/ rbsTimer[d]

(* An active grant never has an allocation in the past: the head of the set *)
(* would block it for good.                                                 *)
NoMissedSlot ==
  \A d \in granted :
    (HasGrant(d) /\ pc = "idle" /\ halted = "no")
      => \A a \in grantInfo[d].slotAllocations : a.sfn > 0

(* No HARQ id leaks: one that is not in the FIFO holds a TB.                *)
NoHarqIdLeak ==
  \A id \in HarqIds : IsHarqIdAvailable(harq, id) \/ harq.pkt[id].full

(* While the applications keep the queues filled, nothing stops the         *)
(* program: the one test for a free HARQ process before the loops is enough *)
(* for every new TB sent in the slot.                                       *)
NeverStops == halted = "no"

(* With queues always filled every destination is sent to again and again:  *)
(* its grant runs out, is erased and replaced, and the grants of the others *)
(* leave it room.                                                           *)
SaturatedIsServed == \A d \in Dsts : []<>(d \in txInSlot)

(* nr-v2x-design.inc:294-296: several HARQ processes "allow continuous flow *)
(* of data": while some are free, data that reaches the RLC is followed by  *)
(* a transmission.                                                          *)
DataIsSent ==
  \A d \in Dsts :
    txBuffer[d] > 0 ~> d \in txInSlot \/ halted # "no" \/ harq.ids = <<>>

-----------------------------------------------------------------------------
(* What comments say of grants; README.md says when it holds.               *)

(* nr-ue-mac.cc:1750-1752: a counter that is not negative means that        *)
(* resources are assigned; begin () of an empty set is never read.          *)
CounterMeansResources ==
  \A d \in Dsts : HasGrant(d) => grantInfo[d].slotAllocations # {}

(* nr-ue-mac.h:684-688: the period is a multiple of the length of the pool, *)
(* so that every allocation of every later period is in a sidelink slot.    *)
AllocationsInPool ==
  \A d \in granted :
    \A a \in grantInfo[d].slotAllocations :
      a.sfn >= 0 => PhyPool[(poolIndex + a.sfn) % PoolLen]

=============================================================================
