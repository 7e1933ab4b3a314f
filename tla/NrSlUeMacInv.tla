--------------------------- MODULE NrSlUeMacInv ---------------------------
(***************************************************************************)
(* The inductive invariant of NrSlUeMac, checked by TLC and used by the    *)
(* proofs.                                                                 *)
(***************************************************************************)
EXTENDS NrSlUeMac

(* An id in the FIFO is there once, and its entry is reset.                 *)
FreeIdsAreClean(h) ==
  /\ \A i, j \in DOMAIN h.ids : h.ids[i] = h.ids[j] => i = j
  /\ \A i \in DOMAIN h.ids : h.pkt[h.ids[i]] = EmptyPkt

(* The allocations of one grant that are not past: one per slot, numbered   *)
(* within a TB of n transmissions, in sequence, and repeated with the       *)
(* period down to the current slot.                                         *)
SlotsDistinct(allocs) ==
  \A a, b \in allocs : (a.sfn = b.sfn /\ a.sfn >= 0) => a = b

TxInRange(allocs, n) == \A a \in allocs : a.tx < n

InSequence(allocs) ==
  \A a, b \in allocs :
    (/\ 0 <= a.sfn /\ a.sfn < b.sfn
     /\ ~\E c \in allocs : a.sfn < c.sfn /\ c.sfn < b.sfn
     /\ b.tx # 0)
      => b.tx = a.tx + 1

Periodic(allocs) ==
  \A a \in allocs : \A k \in 0 .. a.sfn :
    a.sfn - k * ResvPeriod >= 1 => \E b \in allocs : b.sfn = a.sfn - k * ResvPeriod

Ordered(allocs, n) ==
  /\ SlotsDistinct(allocs)
  /\ TxInRange(allocs, n)
  /\ InSequence(allocs)
  /\ Periodic(allocs)

HoldsHarqId(d) ==
  /\ grantInfo[d].nrSlHarqId # NoHarqId
  /\ harq.pkt[grantInfo[d].nrSlHarqId].dst = d
  /\ ~IsHarqIdAvailable(harq, grantInfo[d].nrSlHarqId)

(* A grant whose next allocation is a retransmission is in the middle of a  *)
(* TB: it counted the transmissions so far and holds the id.                *)
MidTb(d) ==
  \A a \in grantInfo[d].slotAllocations :
    (IsFirst(a, grantInfo[d].slotAllocations) /\ a.sfn >= 0 /\ a.tx # 0)
      => /\ HasGrant(d)
         /\ grantInfo[d].tbTxCounter = a.tx
         /\ HoldsHarqId(d)

NoSharedSlot(d, e) ==
  \A a \in grantInfo[d].slotAllocations, b \in grantInfo[e].slotAllocations :
    a.sfn = b.sfn => a.sfn < 0

(* A destination that was sent to in this slot has it for itself.           *)
SlotTaken(e) ==
  \A d \in Dsts \ {e} :
    /\ d \notin txInSlot
    /\ \A a \in grantInfo[d].slotAllocations : a.sfn # 0

IInv ==
  /\ TypeOK
  /\ FreeIdsAreClean(harq)
  /\ \A d \in Dsts \ granted : grantInfo[d].slotAllocations = {}
  /\ \A d \in Dsts : Ordered(grantInfo[d].slotAllocations, grantInfo[d].nSelected)
  /\ \A d \in Dsts : MidTb(d)
  /\ \A d, e \in Dsts : d # e => NoSharedSlot(d, e)
  /\ \A e \in txInSlot : SlotTaken(e)

-----------------------------------------------------------------------------
(* What is needed further for data, counters, buffered TBs and the service. *)

IsNext(a, g) == IsFirst(a, g.slotAllocations) /\ a.sfn >= 0

ReTxNext(g) == \E a \in g.slotAllocations : IsNext(a, g) /\ a.tx # 0

(* A grant alone is a reason to wait only while its next transmission is    *)
(* one of new data: after the last retransmission it may be gone.           *)
Woken(d) ==
  txBuffer[d] > 0 =>
    txQueueSize[d] > 0 \/ rbsTimer[d] \/ (HasGrant(d) /\ ~ReTxNext(grantInfo[d]))

(* The counter covers the allocations, those of the TB under way included   *)
(* that are used already.                                                   *)
Counted(g) ==
  /\ IsFiniteSet(g.slotAllocations)
  /\ Cardinality(g.slotAllocations) <= g.cReselCounter * g.nSelected
  /\ \A a \in g.slotAllocations :
       IsNext(a, g) => Cardinality(g.slotAllocations) + a.tx <= g.cReselCounter * g.nSelected

(* No TB is cut short: each transmission but the last of a TB of n is       *)
(* followed by the next one.                                                *)
Followed(allocs, n) ==
  \A a \in allocs :
    0 <= a.sfn /\ a.tx + 1 < n =>
      \E b \in allocs :
        /\ b.tx = a.tx + 1 /\ a.sfn < b.sfn
        /\ ~\E c \in allocs : a.sfn < c.sfn /\ c.sfn < b.sfn

Totals == UNION {1 .. t : t \in TotalTx}

(* A buffered TB belongs to an active grant, whose next transmission is not *)
(* one of new data.                                                         *)
Retransmits(d, id) ==
  /\ HasGrant(d)
  /\ grantInfo[d].nrSlHarqId = id /\ harq.pkt[id].dst = d
  /\ \E a \in grantInfo[d].slotAllocations : a.tx # 0
  /\ \A a \in grantInfo[d].slotAllocations : IsNext(a, grantInfo[d]) => a.tx # 0

(* A destination is sent to at most once in a slot.                         *)
OncePerSlot ==
  /\ pc = "sched" => txInSlot = {}
  /\ pc = "tx" => todo \cap txInSlot = {}

(* What holds of a grant by itself.                                         *)
Sound(g) ==
  /\ Counted(g)
  /\ Followed(g.slotAllocations, g.nSelected)
  /\ g.slotAllocations # {} => g.nSelected \in Totals

(* Data, counters and buffered TBs agree with the grants: what the refinement *)
(* of SlBlindRetransmission by DoNrSlSlotIndication rests on.                 *)
ServiceInv ==
  /\ IInv
  /\ \A d \in Dsts : Woken(d)
  /\ \A d \in Dsts : Sound(grantInfo[d])
  /\ \A id \in HarqIds : harq.pkt[id].full => \E d \in Dsts : Retransmits(d, id)
  /\ OncePerSlot
-----------------------------------------------------------------------------
(* What holds under conditions on the configuration.                        *)

(* nr-ue-mac.h:684-688: the period is a multiple of the length of the pool. *)
PeriodFitsPool == ResvPeriod % PoolLen = 0

(* Whatever the state, an allocation not yet past is in a sidelink slot.    *)
InPool ==
  \A d \in Dsts : \A a \in grantInfo[d].slotAllocations :
    a.sfn >= 0 => PhyPool[(poolIndex + a.sfn) % PoolLen]

(* A destination that would be passed over in its slot: it has allocations  *)
(* and no active grant.                                                     *)
Expired(d) == ~HasGrant(d) /\ grantInfo[d].slotAllocations # {}

(* No allocation is passed over.  A grant expires in a turn of the second   *)
(* loop that returns a HARQ id, so that the first loop runs, and keeps or   *)
(* erases it, before another destination can take that id.                  *)
OnTime ==
  /\ \A d \in Dsts : \A a \in grantInfo[d].slotAllocations :
       /\ a.sfn >= 0
       /\ pc = "idle" \/ (pc = "tx" /\ d \notin todo) => a.sfn > 0
  /\ pc # "idle" => PhyPool[poolIndex]
  /\ pc = "sched" => \A d \in Dsts \ todo : ~Expired(d)
  /\ pc # "sched" => \A d \in Dsts : Expired(d) => harq.ids # <<>>
  /\ pc = "tx" => \A d \in Dsts : Expired(d) => d \in txInSlot

TimelyInv ==
  /\ ServiceInv
  /\ InPool
  /\ halted = "no" => OnTime

(* While queues are kept filled a turn always finds data, so that every id  *)
(* taken from the FIFO holds a TB.                                          *)
FilledInv ==
  /\ ServiceInv
  /\ pc = "sched" => \A d \in Dsts : txBuffer[d] > 0
  /\ pc = "tx" => \A d \in todo : txBuffer[d] > 0
  /\ NoHarqIdLeak

(* An active grant has allocations for every TB its counter promises: for   *)
(* all that cReselCounter counts, which is more.                            *)
Lasts(g) ==
  /\ g.slotAllocations # {}
  /\ g.slResoReselCounter < g.cReselCounter
  /\ \A a \in g.slotAllocations :
       IsNext(a, g) => Cardinality(g.slotAllocations) + a.tx >= g.cReselCounter * g.nSelected

(* Every transmission promised is made: the conditions of a saturated       *)
(* scenario that does not keep grants.                                      *)
Saturated == SaturatedTraffic /\ SlProbResourceKeep = 0 /\ CReselFactor >= 2

ServedInv ==
  /\ TimelyInv
  /\ FilledInv
  /\ \A d \in Dsts : HasGrant(d) => Lasts(grantInfo[d])

(* A HARQ process for each destination, and no debug build.                 *)
EnoughProcesses ==
  /\ IsFiniteSet(Dsts)
  /\ Cardinality(Dsts) <= NumSidelinkProcess
  /\ ~AssertsEnabled
=============================================================================
