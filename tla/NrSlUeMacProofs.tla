-------------------------- MODULE NrSlUeMacProofs --------------------------
(***************************************************************************)
(* The safety of sidelink transmission for every number of destinations,   *)
(* HARQ processes, retransmissions and reselection counters, every pool    *)
(* and every keep probability: IInv is an invariant, and with it OneTbPerSlot    *)
(* and RetxHoldsHarqId.                                                    *)
(***************************************************************************)
EXTENDS NrSlUeMacLemmas

(* The invariant says nothing of the RLC, the scheduler and the place in    *)
(* the slot but their types.                                                *)
LEMMA FrameLemma ==
  ASSUME IInv, TypeOK', UNCHANGED <<granted, grantInfo, harq, txInSlot>>
  PROVE  IInv'
<1>1. \A d \in Dsts : MidTb(d)'
  BY DEF IInv, MidTb, HasGrant, HoldsHarqId
<1>2. \A d, e \in Dsts : d # e => NoSharedSlot(d, e)'
  BY DEF IInv, NoSharedSlot
<1>3. \A e \in txInSlot' : SlotTaken(e)'
  BY DEF IInv, SlotTaken
<1> QED BY <1>1, <1>2, <1>3 DEF IInv

LEMMA InitLemma == Init => IInv
<1> SUFFICES ASSUME Init PROVE IInv
  OBVIOUS
<1>1. \A d \in Dsts : grantInfo[d] = DefaultGrant
  BY DEF Init
<1>2. DefaultGrant \in NrSlGrantInfo
  <2>1. 255 \in 0 .. MaxUint16
    BY DEF MaxUint16
  <2> QED BY <2>1 DEF DefaultGrant, NrSlGrantInfo
<1>3. TypeOK
  <2>1. grantInfo \in [Dsts -> NrSlGrantInfo]
    BY <1>2 DEF Init
  <2>2. 0 \in 0 .. MaxTxBuffer /\ 0 \in 0 .. PoolLen - 1
    BY MacAssumption
  <2> QED BY <2>1, <2>2, InitHarqLemma DEF Init, TypeOK
<1>4. \A d \in Dsts : grantInfo[d].slotAllocations = {} /\ grantInfo[d].nSelected = 0
  <2>1. DefaultGrant.slotAllocations = {} /\ DefaultGrant.nSelected = 0
    BY DEF DefaultGrant
  <2> QED BY <1>1, <2>1
<1>5. Ordered({}, 0)
  BY DEF Ordered, SlotsDistinct, TxInRange, InSequence, Periodic
<1>6. \A d \in Dsts : MidTb(d)
  BY <1>4 DEF MidTb
<1>7. \A d, e \in Dsts : NoSharedSlot(d, e)
  BY <1>4 DEF NoSharedSlot
<1>8. txInSlot = {} /\ FreeIdsAreClean(harq)
  BY InitHarqLemma DEF Init
<1> QED BY <1>3, <1>4, <1>5, <1>6, <1>7, <1>8 DEF IInv

(* The types of the parts of the state a step reads.                        *)
LEMMA GrantTypes ==
  ASSUME TypeOK, NEW d \in Dsts
  PROVE  /\ grantInfo[d] \in NrSlGrantInfo
         /\ grantInfo[d].cReselCounter \in 0 .. MaxUint16
         /\ grantInfo[d].slResoReselCounter \in Int
         /\ grantInfo[d].prevSlResoReselCounter \in Nat
         /\ grantInfo[d].slotAllocations \in SUBSET Alloc
         /\ grantInfo[d].nSelected \in Nat
         /\ grantInfo[d].tbTxCounter \in Nat
         /\ grantInfo[d].nrSlHarqId \in HarqIds \union {NoHarqId}
BY DEF TypeOK, NrSlGrantInfo

LEMMA UpperLayerLemma ==
  ASSUME IInv, NEW d \in Dsts, UpperLayer(d)
  PROVE  IInv'
<1>1. CASE TransmitNrSlPdcpPdu(d)
  <2>1. TypeOK'
    BY <1>1, MacAssumption DEF IInv, TypeOK, TransmitNrSlPdcpPdu, macVars
  <2> QED BY <1>1, <2>1, FrameLemma DEF TransmitNrSlPdcpPdu, macVars
<1>2. CASE ExpireNrSlRbsTimer(d)
  <2>1. TypeOK'
    BY <1>2, MacAssumption DEF IInv, TypeOK, ExpireNrSlRbsTimer, macVars
  <2> QED BY <1>2, <2>1, FrameLemma DEF ExpireNrSlRbsTimer, macVars
<1> QED BY <1>1, <1>2 DEF UpperLayer

(* The steps that only move the place in the slot, or stop the program.     *)
LEMMA ControlLemma ==
  ASSUME IInv,
         \/ EndOfSched \/ EndOfTx \/ Stopped
         \/ \E d \in Dsts : SkipDst(d) \/ NoTxNow(d) \/ ReadEmptyGrant(d) \/ NoHarqProcess(d)
  PROVE  IInv'
<1>1. CASE EndOfSched
  BY <1>1, FrameLemma DEF EndOfSched, IInv, TypeOK, macVars, rlcVars
<1>2. CASE EndOfTx
  BY <1>2, FrameLemma DEF EndOfTx, IInv, TypeOK, macVars, rlcVars
<1>3. CASE Stopped
  BY <1>3, FrameLemma DEF Stopped, IInv, TypeOK, vars
<1>4. ASSUME NEW d \in Dsts, SkipDst(d)
      PROVE  IInv'
  BY <1>4, FrameLemma DEF SkipDst, SchedTurn, IInv, TypeOK, rlcVars
<1>5. ASSUME NEW d \in Dsts, NoTxNow(d)
      PROVE  IInv'
  BY <1>5, FrameLemma DEF NoTxNow, TxTurn, IInv, TypeOK, rlcVars
<1>6. ASSUME NEW d \in Dsts, ReadEmptyGrant(d)
      PROVE  IInv'
  BY <1>6, FrameLemma DEF ReadEmptyGrant, TxTurn, IInv, TypeOK, rlcVars
<1>7. ASSUME NEW d \in Dsts, NoHarqProcess(d)
      PROVE  IInv'
  BY <1>7, FrameLemma DEF NoHarqProcess, TxNow, TxTurn, IInv, TypeOK, rlcVars
<1> QED BY <1>1, <1>2, <1>3, <1>4, <1>5, <1>6, <1>7

LEMMA SlotIndicationLemma ==
  ASSUME IInv, SlotIndication
  PROVE  IInv'
<1> DEFINE later(d) == Advance(grantInfo[d].slotAllocations)
<1>1. ASSUME NEW d \in Dsts
      PROVE  /\ grantInfo'[d] \in NrSlGrantInfo
             /\ grantInfo'[d].slotAllocations = later(d)
             /\ grantInfo'[d].nSelected = grantInfo[d].nSelected
             /\ grantInfo'[d].tbTxCounter = grantInfo[d].tbTxCounter
             /\ grantInfo'[d].nrSlHarqId = grantInfo[d].nrSlHarqId
             /\ grantInfo'[d].slResoReselCounter = grantInfo[d].slResoReselCounter
  <2>1. grantInfo'[d] = [grantInfo[d] EXCEPT !.slotAllocations = later(d)]
    BY DEF SlotIndication
  <2>2. later(d) \in SUBSET Alloc
    BY GrantTypes, AdvanceLemma DEF IInv
  <2> HIDE DEF later
  <2> QED BY <2>1, <2>2, GrantTypes DEF IInv, NrSlGrantInfo
<1>2. ASSUME NEW d \in Dsts
      PROVE  /\ \A b \in later(d) : b.sfn \in Int /\ b.tx \in Nat
             /\ Ordered(later(d), grantInfo[d].nSelected)
             /\ \A b \in later(d) : b.sfn >= 0 =>
                  \E a \in grantInfo[d].slotAllocations : a.sfn = b.sfn + 1 /\ a.tx = b.tx
             /\ \A b \in later(d) : (IsFirst(b, later(d)) /\ b.sfn >= 0) =>
                    \E a \in grantInfo[d].slotAllocations :
                      IsFirst(a, grantInfo[d].slotAllocations) /\ a.sfn = b.sfn + 1 /\ a.tx = b.tx
  <2>1. \A b \in later(d) : b.sfn \in Int /\ b.tx \in Nat
    <3>1. later(d) \in SUBSET Alloc
      BY GrantTypes, AdvanceLemma DEF IInv
    <3> HIDE DEF later
    <3> QED BY <3>1 DEF Alloc
  <2> QED BY <2>1, GrantTypes, AdvanceLemma DEF IInv
<1>2a. \A d \in Dsts : grantInfo[d].slotAllocations = {} => later(d) = {}
  BY DEF Advance
<1> HIDE DEF later
<1>3. TypeOK'
  <2>1. grantInfo' \in [Dsts -> NrSlGrantInfo]
    <3>1. grantInfo' = [d \in Dsts |-> grantInfo'[d]]
      BY DEF SlotIndication
    <3> QED BY <1>1, <3>1
  <2>2. poolIndex' \in 0 .. PoolLen - 1
    BY MacAssumption, SMTT(60) DEF SlotIndication, IInv, TypeOK
  <2> QED BY <2>1, <2>2 DEF SlotIndication, IInv, TypeOK, rlcVars
<1>4. /\ FreeIdsAreClean(harq')
      /\ harq' = harq /\ granted' = granted /\ txInSlot' = {}
  BY DEF SlotIndication, IInv
<1>5. \A d \in Dsts \ granted' : grantInfo'[d].slotAllocations = {}
  BY <1>1, <1>2a, <1>4 DEF IInv
<1>6. ASSUME NEW d \in Dsts
      PROVE  MidTb(d)'
  <2> SUFFICES ASSUME NEW b \in grantInfo'[d].slotAllocations,
                      IsFirst(b, grantInfo'[d].slotAllocations), b.sfn >= 0, b.tx # 0
               PROVE  /\ HasGrant(d)'
                      /\ grantInfo'[d].tbTxCounter = b.tx
                      /\ HoldsHarqId(d)'
    BY DEF MidTb
  <2>1. PICK a \in grantInfo[d].slotAllocations :
          IsFirst(a, grantInfo[d].slotAllocations) /\ a.sfn = b.sfn + 1 /\ a.tx = b.tx
    BY <1>1, <1>2
  <2>2. b.sfn \in Int
    BY <1>1, <1>2
  <2>3. HasGrant(d) /\ grantInfo[d].tbTxCounter = b.tx /\ HoldsHarqId(d)
    BY <2>1, <2>2 DEF IInv, MidTb
  <2> QED BY <1>1, <1>4, <2>3 DEF HasGrant, HoldsHarqId
<1>7. ASSUME NEW d \in Dsts, NEW e \in Dsts, d # e
      PROVE  NoSharedSlot(d, e)'
  <2> SUFFICES ASSUME NEW a \in grantInfo'[d].slotAllocations,
                      NEW b \in grantInfo'[e].slotAllocations,
                      a.sfn = b.sfn, a.sfn >= 0
               PROVE  FALSE
    <3>1. \A a \in grantInfo'[d].slotAllocations : a.sfn \in Int
      BY <1>1, <1>2
    <3> QED BY <3>1 DEF NoSharedSlot
  <2>1. PICK a1 \in grantInfo[d].slotAllocations : a1.sfn = a.sfn + 1
    BY <1>1, <1>2
  <2>2. PICK b1 \in grantInfo[e].slotAllocations : b1.sfn = b.sfn + 1
    BY <1>1, <1>2
  <2>3. a.sfn \in Int
    BY <1>1, <1>2
  <2> QED BY <1>7, <2>1, <2>2, <2>3 DEF IInv, NoSharedSlot
<1> QED BY <1>1, <1>2, <1>3, <1>4, <1>5, <1>6, <1>7 DEF IInv

LEMMA KeepLemma ==
  ASSUME IInv, NEW d \in Dsts, Keep(d)
  PROVE  IInv'
<1>1. /\ grantInfo' = [grantInfo EXCEPT ![d].slResoReselCounter = grantInfo[d].prevSlResoReselCounter]
      /\ harq' = harq /\ granted' = granted /\ txInSlot' = txInSlot /\ ~HasGrant(d)
  BY DEF Keep, SchedTurn
<1>2. \A e \in Dsts : /\ grantInfo'[e].slotAllocations = grantInfo[e].slotAllocations
                      /\ grantInfo'[e].nSelected = grantInfo[e].nSelected
                      /\ e # d => grantInfo'[e] = grantInfo[e]
  BY <1>1, GrantTypes DEF IInv, NrSlGrantInfo, TypeOK
<1>3. TypeOK'
  <2>1. grantInfo' \in [Dsts -> NrSlGrantInfo]
    <3>1. [grantInfo[d] EXCEPT !.slResoReselCounter = grantInfo[d].prevSlResoReselCounter] \in NrSlGrantInfo
      BY GrantTypes DEF IInv, NrSlGrantInfo
    <3> QED BY <1>1, <3>1 DEF IInv, TypeOK
  <2> QED BY <2>1 DEF Keep, SchedTurn, rlcVars, IInv, TypeOK
<1>4. ASSUME NEW e \in Dsts
      PROVE  MidTb(e)'
  <2>1. CASE e = d
    BY <1>1, <1>2, <2>1 DEF IInv, MidTb
  <2>2. CASE e # d
    BY <1>1, <1>2, <2>2 DEF IInv, MidTb, HasGrant, HoldsHarqId
  <2> QED BY <2>1, <2>2
<1>5. \A e, f \in Dsts : e # f => NoSharedSlot(e, f)'
  BY <1>2 DEF IInv, NoSharedSlot
<1>6. \A e \in txInSlot' : SlotTaken(e)'
  BY <1>1, <1>2 DEF IInv, SlotTaken
<1> QED BY <1>1, <1>2, <1>3, <1>4, <1>5, <1>6 DEF IInv

(* A grant that is in order, lies in the future, starts with a new TB and   *)
(* shares no slot with the grants of the other destinations.                *)
Fits(d, g) ==
  /\ g \in NrSlGrantInfo
  /\ Ordered(g.slotAllocations, g.nSelected)
  /\ \A a \in g.slotAllocations :
       /\ a.sfn >= 1
       /\ IsFirst(a, g.slotAllocations) => a.tx = 0
       /\ \A e \in Dsts \ {d} : \A b \in grantInfo[e].slotAllocations : a.sfn # b.sfn

(* Such a grant may replace any other.                                      *)
LEMMA ReplaceLemma ==
  ASSUME IInv, TypeOK', NEW d \in Dsts, NEW g, Fits(d, g),
         grantInfo' = [grantInfo EXCEPT ![d] = g],
         granted \subseteq granted',
         g.slotAllocations = {} \/ d \in granted',
         harq' = harq, txInSlot' = txInSlot
  PROVE  IInv'
<1> USE DEF Fits
<1>1. /\ grantInfo'[d] = g
      /\ \A e \in Dsts \ {d} : grantInfo'[e] = grantInfo[e]
  BY DEF IInv, TypeOK
<1>2. \A a \in g.slotAllocations : a.sfn \in Int
  BY DEF NrSlGrantInfo, Alloc
<1>3. \A e \in Dsts \ granted' : grantInfo'[e].slotAllocations = {}
  BY <1>1 DEF IInv
<1>4. \A e \in Dsts : Ordered(grantInfo'[e].slotAllocations, grantInfo'[e].nSelected)
  BY <1>1 DEF IInv
<1>5. ASSUME NEW e \in Dsts
      PROVE  MidTb(e)'
  <2>1. CASE e = d
    BY <1>1, <2>1 DEF MidTb
  <2>2. ASSUME e # d, NEW a \in grantInfo[e].slotAllocations
        PROVE  e \in granted
    BY <2>2 DEF IInv
  <2>3. CASE e # d
    BY <1>1, <2>2, <2>3 DEF IInv, MidTb, HasGrant, HoldsHarqId
  <2> QED BY <2>1, <2>3
<1>6. ASSUME NEW e \in Dsts, NEW f \in Dsts, e # f
      PROVE  NoSharedSlot(e, f)'
  <2>1. CASE e = d
    BY <1>1, <1>6, <2>1 DEF NoSharedSlot
  <2>2. CASE f = d
    BY <1>1, <1>6, <2>2 DEF NoSharedSlot
  <2>3. CASE e # d /\ f # d
    BY <1>1, <1>6, <2>3 DEF IInv, NoSharedSlot
  <2> QED BY <2>1, <2>2, <2>3
<1>7. ASSUME NEW e \in txInSlot'
      PROVE  SlotTaken(e)'
  <2>1. SlotTaken(e)
    BY <1>7 DEF IInv
  <2>2. \A a \in g.slotAllocations : a.sfn # 0
    BY <1>2
  <2> QED BY <1>1, <2>1, <2>2 DEF SlotTaken
<1> QED BY <1>3, <1>4, <1>5, <1>6, <1>7 DEF IInv

(* The heart of OneTbPerSlot: a slot of the window that no other grant has  *)
(* now stays free in every later period too, because the other grants are   *)
(* periodic down to the current slot and the window is no longer than the   *)
(* period.                                                                  *)
LEMMA ReselectLemma ==
  ASSUME IInv, NEW d \in Dsts, Reselect(d)
  PROVE  IInv'
<1>1. PICK opps \in TxOpportunities :
        LET filtered == FilterTxOpportunities(opps, d)
        IN \/ /\ filtered = {} \/ txQueueSize[d] = 0
              /\ grantInfo' = [grantInfo EXCEPT ![d].slotAllocations = {}]
              /\ UNCHANGED <<txQueueSize, granted, halted>>
           \/ /\ filtered # {} /\ txQueueSize[d] > 0
              /\ \E reselCounter \in ReselCounters, list \in SlotAllocLists(filtered) :
                   grantInfo' = [grantInfo EXCEPT ![d] = CreateGrantInfo(list, reselCounter)]
              /\ \E left \in 0 .. txQueueSize[d] :
                   txQueueSize' = [txQueueSize EXCEPT ![d] = left]
              /\ granted' = granted \union {d}
              /\ halted' = IF AssertsEnabled /\ d \in granted THEN "assert" ELSE "no"
  BY DEF Reselect, SchedUeNrSlConfigInd, AssignedData
<1> DEFINE filtered == FilterTxOpportunities(opps, d)
           Cleared ==
             /\ grantInfo' = [grantInfo EXCEPT ![d].slotAllocations = {}]
             /\ UNCHANGED <<txQueueSize, granted, halted>>
           Created ==
             /\ filtered # {}
             /\ \E reselCounter \in ReselCounters, list \in SlotAllocLists(filtered) :
                  grantInfo' = [grantInfo EXCEPT ![d] = CreateGrantInfo(list, reselCounter)]
             /\ \E left \in 0 .. txQueueSize[d] :
                  txQueueSize' = [txQueueSize EXCEPT ![d] = left]
             /\ granted' = granted \union {d}
             /\ halted' = IF AssertsEnabled /\ d \in granted THEN "assert" ELSE "no"
<1>1a. Cleared \/ Created
  BY <1>1, Zenon
<1>2. filtered \in SUBSET (T1 .. T2)
  BY DEF FilterTxOpportunities, TxOpportunities, SelectionWindow
<1>3. \A s \in filtered : \A e \in Dsts \ {d} : \A b \in grantInfo[e].slotAllocations : b.sfn # s
  <2>1. \A s \in filtered : \A e \in granted \ {d} : \A b \in grantInfo[e].slotAllocations : b.sfn # s
    BY DEF FilterTxOpportunities
  <2> QED BY <2>1 DEF IInv
<1>4. /\ harq' = harq /\ txInSlot' = txInSlot /\ poolIndex' = poolIndex /\ pc' = pc
      /\ txBuffer' = txBuffer /\ rbsTimer' = rbsTimer
      /\ todo' = todo \ {d}
  BY DEF Reselect, SchedTurn, rlcVars
<1> HIDE DEF filtered
<1>5. CASE Cleared
  <2> DEFINE g == [grantInfo[d] EXCEPT !.slotAllocations = {}]
  <2>1. g \in NrSlGrantInfo /\ g.slotAllocations = {} /\ grantInfo' = [grantInfo EXCEPT ![d] = g]
    <3>1. grantInfo[d] \in NrSlGrantInfo
      BY GrantTypes DEF IInv
    <3>2. g \in NrSlGrantInfo /\ g.slotAllocations = {}
      BY <3>1 DEF NrSlGrantInfo
    <3>3. grantInfo' = [grantInfo EXCEPT ![d] = g]
      BY <1>5
    <3> QED BY <3>2, <3>3
  <2> HIDE DEF g
  <2>2. TypeOK'
    BY <1>4, <1>5, <2>1, ZenonT(60) DEF IInv, TypeOK
  <2>3. Ordered(g.slotAllocations, g.nSelected)
    BY <2>1 DEF Ordered, SlotsDistinct, TxInRange, InSequence, Periodic
  <2>4. Fits(d, g)
    BY <2>1, <2>3 DEF Fits
  <2> QED BY <1>4, <1>5, <2>1, <2>2, <2>4, ReplaceLemma
<1>6. CASE Created
  <2>1. PICK reselCounter \in ReselCounters, list \in SlotAllocLists(filtered) :
          grantInfo' = [grantInfo EXCEPT ![d] = CreateGrantInfo(list, reselCounter)]
    BY <1>6
  <2> DEFINE g == CreateGrantInfo(list, reselCounter)
  <2>2. /\ g \in NrSlGrantInfo
        /\ Ordered(g.slotAllocations, g.nSelected)
        /\ \A a \in g.slotAllocations :
             /\ a.sfn >= 1
             /\ IsFirst(a, g.slotAllocations) => a.tx = 0
             /\ \E s \in filtered, i \in Nat : a.sfn = s + i * ResvPeriod
    BY <1>2, <1>6, CreateLemma
  <2>3. grantInfo' = [grantInfo EXCEPT ![d] = g]
    BY <2>1
  <2> HIDE DEF g
  <2>4. TypeOK'
    <3>1. txQueueSize' \in [Dsts -> 0 .. MaxTxBuffer]
      BY <1>6, MacAssumption DEF IInv, TypeOK
    <3> QED BY <1>4, <1>6, <2>2, <2>3, <3>1 DEF IInv, TypeOK
  <2>5. ASSUME NEW e \in Dsts \ {d}, NEW a \in g.slotAllocations,
               NEW b \in grantInfo[e].slotAllocations, a.sfn = b.sfn
        PROVE  FALSE
    <3>1. PICK s \in filtered, i \in Nat : a.sfn = s + i * ResvPeriod
      BY <2>2
    <3>2. s \in Nat /\ s >= 1 /\ i * ResvPeriod \in Nat /\ i <= i * ResvPeriod
      BY <1>2, MacAssumption, PeriodsGrow
    <3>3. i \in 0 .. b.sfn /\ b.sfn - i * ResvPeriod = s
      BY <2>5, <3>1, <3>2
    <3>4. \E c \in grantInfo[e].slotAllocations : c.sfn = s
      BY <3>2, <3>3 DEF IInv, Ordered, Periodic
    <3> QED BY <1>3, <3>4
  <2>6. granted \subseteq granted' /\ d \in granted'
    BY <1>6
  <2>7. Fits(d, g)
    BY <2>2, <2>5 DEF Fits
  <2> QED BY <1>4, <2>3, <2>4, <2>6, <2>7, ReplaceLemma
<1> HIDE DEF Cleared, Created
<1> QED BY <1>1a, <1>5, <1>6

-----------------------------------------------------------------------------
(* h is the grant g after the transmission in a, the n-th of the TB with    *)
(* that id.                                                                 *)
AfterTx(g, h, a, n, id) ==
  /\ h \in NrSlGrantInfo
  /\ h.slotAllocations = g.slotAllocations \ {a}
  /\ h.nSelected = g.nSelected
  /\ h.nrSlHarqId = id
  /\ n # g.nSelected => h.tbTxCounter = n /\ h.slResoReselCounter = g.slResoReselCounter
  /\ \/ h.cReselCounter = g.cReselCounter
     \/ n = g.nSelected /\ h.cReselCounter = (g.cReselCounter - 1) % (MaxUint16 + 1)

LEMMA UsedLemma ==
  ASSUME NEW g \in NrSlGrantInfo, NEW a, NEW n \in Nat, NEW id \in HarqIds
  PROVE  AfterTx(g, Used(g, a, n, id), a, n, id)
<1> DEFINE last == n = g.nSelected
           c == IF last THEN (g.cReselCounter - 1) % (MaxUint16 + 1) ELSE g.cReselCounter
           r == IF last THEN g.slResoReselCounter - 1 ELSE g.slResoReselCounter
           t == IF last /\ a.tx # 0 THEN 0 ELSE n
<1>1. g.cReselCounter \in 0 .. MaxUint16 /\ g.slResoReselCounter \in Int
  BY DEF NrSlGrantInfo
<1>2. c \in 0 .. MaxUint16 /\ r \in Int /\ t \in Nat
  BY <1>1, MaxUint16Type
<1>3. /\ n # g.nSelected => t = n /\ r = g.slResoReselCounter
      /\ c = g.cReselCounter \/ (n = g.nSelected /\ c = (g.cReselCounter - 1) % (MaxUint16 + 1))
  OBVIOUS
<1>4. Used(g, a, n, id) = [g EXCEPT !.slotAllocations = g.slotAllocations \ {a},
                                    !.slResoReselCounter = r, !.cReselCounter = c,
                                    !.tbTxCounter = t, !.nrSlHarqId = id]
  BY DEF Used
<1> HIDE DEF c, r, t
<1> QED BY <1>2, <1>3, <1>4, ZenonT(60) DEF NrSlGrantInfo, AfterTx

LEMMA WastedLemma ==
  ASSUME NEW g \in NrSlGrantInfo, NEW a, NEW n \in Nat, NEW id \in HarqIds
  PROVE  /\ AfterTx(g, Wasted(g, a, n, id), a, n, id)
         /\ Wasted(g, a, n, id).tbTxCounter = n
         /\ Wasted(g, a, n, id).slResoReselCounter = g.slResoReselCounter
BY DEF Wasted, NrSlGrantInfo, AfterTx

(* What the three kinds of transmission have in common: the first           *)
(* allocation, for this slot, is gone; the HARQ entity is in order and the  *)
(* other destinations hold what they held; a TB that is not complete is     *)
(* counted and holds its id.                                                *)
Transmits(d, a, g) ==
  /\ d \in granted
  /\ a \in grantInfo[d].slotAllocations
  /\ IsFirst(a, grantInfo[d].slotAllocations) /\ a.sfn = 0
  /\ g \in NrSlGrantInfo
  /\ g.slotAllocations = grantInfo[d].slotAllocations \ {a}
  /\ g.nSelected = grantInfo[d].nSelected
  /\ grantInfo' = [grantInfo EXCEPT ![d] = g]
  /\ granted' = granted
  /\ txInSlot' \subseteq txInSlot \union {d}
  /\ FreeIdsAreClean(harq')
  /\ \A e \in Dsts \ {d} : HoldsHarqId(e) => HoldsHarqId(e)'
  /\ a.tx + 1 < g.nSelected =>
       g.slResoReselCounter >= 0 /\ g.tbTxCounter = a.tx + 1 /\ HoldsHarqId(d)'

LEMMA TransmitsLemma ==
  ASSUME IInv, TypeOK', NEW d \in Dsts, NEW a, NEW g, Transmits(d, a, g)
  PROVE  IInv'
<1> DEFINE allocs == grantInfo[d].slotAllocations
<1>1. /\ grantInfo'[d] = g
      /\ \A e \in Dsts \ {d} : grantInfo'[e] = grantInfo[e]
  BY DEF Transmits, IInv, TypeOK
<1>2. /\ g.slotAllocations = allocs \ {a} /\ g.nSelected = grantInfo[d].nSelected
      /\ allocs \in SUBSET Alloc /\ grantInfo[d].nSelected \in Nat
      /\ a \in allocs /\ IsFirst(a, allocs) /\ a.sfn = 0 /\ a.tx \in Nat
      /\ Ordered(allocs, grantInfo[d].nSelected)
  BY GrantTypes DEF Transmits, IInv, Alloc
<1> HIDE DEF allocs
<1>3. /\ Ordered(g.slotAllocations, g.nSelected)
      /\ \A b \in g.slotAllocations : b.sfn > 0
      /\ \A b \in g.slotAllocations :
           (IsFirst(b, g.slotAllocations) /\ b.tx # 0) => b.tx = a.tx + 1 /\ b.tx < g.nSelected
  <2> DEFINE n == grantInfo[d].nSelected
             rest == allocs \ {a}
  <2>1. n \in Nat /\ Ordered(allocs, n)
    BY <1>2
  <2> HIDE DEF n
  <2>2. /\ Ordered(rest, n)
        /\ \A b \in rest : b.sfn > 0
        /\ \A b \in rest : (IsFirst(b, rest) /\ b.tx # 0) => b.tx = a.tx + 1 /\ b.tx < n
    BY <1>2, <2>1, EraseLemma
  <2>3. g.slotAllocations = rest /\ g.nSelected = n
    BY <1>2 DEF n
  <2> QED BY <2>2, <2>3
<1>4. \A e \in Dsts \ granted' : grantInfo'[e].slotAllocations = {}
  BY <1>1 DEF IInv, Transmits
<1>5. \A e \in Dsts : Ordered(grantInfo'[e].slotAllocations, grantInfo'[e].nSelected)
  BY <1>1, <1>3 DEF IInv
<1>6. ASSUME NEW e \in Dsts
      PROVE  MidTb(e)'
  <2>1. CASE e = d
    <3> SUFFICES ASSUME NEW b \in g.slotAllocations, IsFirst(b, g.slotAllocations), b.tx # 0
                 PROVE  /\ d \in granted' /\ g.slResoReselCounter >= 0
                        /\ g.tbTxCounter = b.tx
                        /\ HoldsHarqId(d)'
      BY <1>1, <2>1 DEF MidTb, HasGrant
    <3>1. b.tx = a.tx + 1 /\ a.tx + 1 < g.nSelected
      BY <1>3
    <3> QED BY <3>1 DEF Transmits
  <2>2. CASE e # d
    <3>1. HoldsHarqId(e) => HoldsHarqId(e)'
      BY <2>2 DEF Transmits
    <3>2. granted' = granted
      BY DEF Transmits
    <3> QED BY <1>1, <2>2, <3>1, <3>2 DEF IInv, MidTb, HasGrant
  <2> QED BY <2>1, <2>2
<1>7. ASSUME NEW e \in Dsts, NEW f \in Dsts, e # f
      PROVE  NoSharedSlot(e, f)'
  <2>1. /\ grantInfo'[e].slotAllocations \subseteq grantInfo[e].slotAllocations
        /\ grantInfo'[f].slotAllocations \subseteq grantInfo[f].slotAllocations
    BY <1>1, <1>2 DEF allocs
  <2> QED BY <1>7, <2>1 DEF IInv, NoSharedSlot
<1>8. ASSUME NEW e \in txInSlot
      PROVE  e = d
  <2> SUFFICES ASSUME e # d PROVE FALSE
    OBVIOUS
  <2>1. SlotTaken(e)
    BY DEF IInv
  <2> QED BY <1>2, <2>1 DEF SlotTaken, allocs
<1>9. ASSUME NEW e \in txInSlot'
      PROVE  SlotTaken(e)'
  <2>1. e = d /\ \A f \in Dsts \ {d} : f \notin txInSlot'
    BY <1>8, <1>9 DEF Transmits
  <2>2. ASSUME NEW f \in Dsts \ {d}, NEW b \in grantInfo[f].slotAllocations
        PROVE  b.sfn # 0
    BY <1>2 DEF IInv, NoSharedSlot, allocs
  <2> QED BY <1>1, <2>1, <2>2 DEF SlotTaken
<1>10. FreeIdsAreClean(harq')
  BY DEF Transmits
<1> QED BY <1>4, <1>5, <1>6, <1>7, <1>9, <1>10 DEF IInv

(* A destination does not hold an id that is free or another's.             *)
LEMMA OtherIdLemma ==
  ASSUME TypeOK, NEW d \in Dsts, NEW e \in Dsts \ {d}, HoldsHarqId(e), NEW id \in HarqIds,
         IsHarqIdAvailable(harq, id) \/ harq.pkt[id].dst = d
  PROVE  grantInfo[e].nrSlHarqId \in HarqIds \ {id}
BY GrantTypes DEF HoldsHarqId

(* Other destinations keep what they hold when the HARQ entity changes at   *)
(* one id that is not theirs.                                               *)
LEMMA OthersHoldLemma ==
  ASSUME TypeOK, NEW d \in Dsts, NEW id \in HarqIds,
         IsHarqIdAvailable(harq, id) \/ harq.pkt[id].dst = d,
         \A other \in HarqIds \ {id} :
           /\ harq'.pkt[other] = harq.pkt[other]
           /\ IsHarqIdAvailable(harq', other) <=> IsHarqIdAvailable(harq, other),
         \A e \in Dsts \ {d} : grantInfo'[e] = grantInfo[e]
  PROVE  \A e \in Dsts \ {d} : HoldsHarqId(e) => HoldsHarqId(e)'
<1> SUFFICES ASSUME NEW e \in Dsts \ {d}, HoldsHarqId(e)
             PROVE  HoldsHarqId(e)'
  OBVIOUS
<1>1. grantInfo[e].nrSlHarqId \in HarqIds \ {id}
  BY OtherIdLemma
<1> QED BY <1>1 DEF HoldsHarqId

LEMMA FeedbackOutcomeType ==
  ASSUME NEW h, NEW d, NEW id, NEW last
  PROVE  FeedbackOutcome(h, d, id, last) \in {"no", "harqMismatch", "assert"}
BY DEF FeedbackOutcome

LEMMA NewTxLemma ==
  ASSUME IInv, NEW d \in Dsts, NewTx(d)
  PROVE  IInv'
<1> DEFINE id == NextHarqId(harq)
           assigned == AssignNrSlHarqProcessId(harq, d)
           loaded == AddPacket(assigned, id)
           last == grantInfo[d].nSelected = 1
<1>1. PICK a \in grantInfo[d].slotAllocations :
        /\ TxNow(d, a) /\ a.tx = 0
        /\ harq.ids # <<>>
        /\ harq' = Feedback(loaded, d, id, last)
        /\ grantInfo' = [grantInfo EXCEPT ![d] = Used(grantInfo[d], a, 1, id)]
        /\ halted' = IF AddPacketAborts(assigned, d, id) THEN "harqMismatch"
                     ELSE FeedbackOutcome(loaded, d, id, last)
        /\ \E left \in 0 .. txBuffer[d] :
             /\ txBuffer' = [txBuffer EXCEPT ![d] = left]
             /\ rbsTimer' = [rbsTimer EXCEPT ![d] = @ \/ left > 0]
        /\ txInSlot' = txInSlot \union {d}
  BY DEF NewTx, NotifyNrSlTxOpportunity
<1>2. harq \in HarqState /\ FreeIdsAreClean(harq) /\ TypeOK
  BY DEF IInv, TypeOK
<1>3. /\ id \in HarqIds /\ IsHarqIdAvailable(harq, id)
      /\ assigned \in HarqState /\ FreeIdsAreClean(assigned)
      /\ assigned.pkt = [harq.pkt EXCEPT ![id] = [dst |-> d, full |-> FALSE]]
      /\ ~IsHarqIdAvailable(assigned, id)
      /\ \A other \in HarqIds \ {id} :
           IsHarqIdAvailable(assigned, other) <=> IsHarqIdAvailable(harq, other)
  BY <1>1, <1>2, AssignLemma
<1>4. harq.pkt \in [HarqIds -> PktInfo]
  BY <1>2 DEF HarqState
<1> HIDE DEF id, assigned
<1>5. /\ loaded \in HarqState /\ FreeIdsAreClean(loaded)
      /\ loaded.ids = assigned.ids
      /\ loaded.pkt[id].dst = d
      /\ \A other \in HarqIds \ {id} : loaded.pkt[other] = harq.pkt[other]
  <2>1. loaded.pkt = [assigned.pkt EXCEPT ![id] = [dst |-> assigned.pkt[id].dst, full |-> TRUE]]
    BY <1>3, AddPacketLemma
  <2>2. assigned.pkt[id].dst = d
    BY <1>3, <1>4
  <2>3. loaded \in HarqState /\ FreeIdsAreClean(loaded) /\ loaded.ids = assigned.ids
    BY <1>3, AddPacketLemma
  <2> HIDE DEF loaded
  <2> QED BY <1>3, <1>4, <2>1, <2>2, <2>3
<1>6. /\ ~IsHarqIdAvailable(loaded, id)
      /\ \A other \in HarqIds \ {id} :
           IsHarqIdAvailable(loaded, other) <=> IsHarqIdAvailable(harq, other)
  BY <1>3, <1>5 DEF IsHarqIdAvailable
<1> HIDE DEF loaded
<1>7. /\ harq' \in HarqState /\ FreeIdsAreClean(harq')
      /\ \A other \in HarqIds \ {id} :
           /\ harq'.pkt[other] = harq.pkt[other]
           /\ IsHarqIdAvailable(harq', other) <=> IsHarqIdAvailable(harq, other)
      /\ ~last => harq'.pkt[id].dst = d /\ ~IsHarqIdAvailable(harq', id)
  <2>1. CASE last
    <3>1. harq' = RecvNrSlHarqFeedback(loaded, id)
      BY <1>1, <2>1 DEF Feedback
    <3>2. loaded.pkt \in [HarqIds -> PktInfo]
      BY <1>5 DEF HarqState
    <3>3. /\ harq' \in HarqState /\ FreeIdsAreClean(harq')
          /\ harq'.pkt = [loaded.pkt EXCEPT ![id] = EmptyPkt]
          /\ \A other \in HarqIds \ {id} :
               IsHarqIdAvailable(harq', other) <=> IsHarqIdAvailable(loaded, other)
      BY <1>3, <1>5, <1>6, <3>1, FeedbackLemma
    <3> QED BY <1>5, <1>6, <2>1, <3>2, <3>3
  <2>2. CASE ~last
    <3>1. harq' = loaded
      BY <1>1, <2>2 DEF Feedback
    <3> QED BY <1>5, <1>6, <2>2, <3>1
  <2> QED BY <2>1, <2>2
<1> DEFINE g == Used(grantInfo[d], a, 1, id)
<1>8. /\ g \in NrSlGrantInfo
      /\ g.slotAllocations = grantInfo[d].slotAllocations \ {a}
      /\ g.nSelected = grantInfo[d].nSelected
      /\ g.nrSlHarqId = id
      /\ ~last => g.tbTxCounter = 1 /\ g.slResoReselCounter = grantInfo[d].slResoReselCounter
  <2>1. grantInfo[d] \in NrSlGrantInfo /\ 1 \in Nat
    BY <1>2, GrantTypes
  <2>2. AfterTx(grantInfo[d], g, a, 1, id)
    BY <1>3, <2>1, UsedLemma
  <2> HIDE DEF g
  <2> QED BY <2>2 DEF AfterTx
<1>9. /\ grantInfo' = [grantInfo EXCEPT ![d] = g]
      /\ d \in granted /\ granted' = granted
      /\ IsFirst(a, grantInfo[d].slotAllocations) /\ a.sfn = 0
      /\ HasGrant(d)
      /\ txQueueSize' = txQueueSize /\ poolIndex' = poolIndex /\ pc' = pc
      /\ todo' = todo \ {d}
  BY <1>1 DEF TxNow, TxTurn, HasGrant
<1> HIDE DEF g
<1>10. TypeOK'
  <2>1. txBuffer' \in [Dsts -> 0 .. MaxTxBuffer] /\ rbsTimer' \in [Dsts -> BOOLEAN]
    BY <1>1, <1>2, MacAssumption DEF TypeOK
  <2>2. halted' \in {"no", "harqBusy", "harqMismatch", "assert", "undefined"}
    BY <1>1, FeedbackOutcomeType
  <2>3. grantInfo' \in [Dsts -> NrSlGrantInfo]
    BY <1>2, <1>8, <1>9 DEF TypeOK
  <2> QED BY <1>1, <1>2, <1>7, <1>9, <2>1, <2>2, <2>3 DEF TypeOK
<1>11. /\ grantInfo'[d] = g
       /\ \A e \in Dsts \ {d} : grantInfo'[e] = grantInfo[e]
  BY <1>2, <1>9 DEF TypeOK
<1>12. \A e \in Dsts \ {d} : HoldsHarqId(e) => HoldsHarqId(e)'
  BY <1>2, <1>3, <1>7, <1>11, OthersHoldLemma
<1>13. ASSUME a.tx + 1 < g.nSelected
       PROVE  g.slResoReselCounter >= 0 /\ g.tbTxCounter = a.tx + 1 /\ HoldsHarqId(d)'
  <2>1. ~last /\ a.tx + 1 = 1
    BY <1>1, <1>8, <1>13
  <2>2. HoldsHarqId(d)'
    BY <1>3, <1>7, <1>8, <1>11, <2>1, HarqIdsFacts DEF HoldsHarqId
  <2> QED BY <1>8, <1>9, <2>1, <2>2 DEF HasGrant
<1>14. Transmits(d, a, g)
  BY <1>1, <1>7, <1>8, <1>9, <1>12, <1>13 DEF Transmits
<1> QED BY <1>10, <1>14, TransmitsLemma

LEMMA NewTxWastedLemma ==
  ASSUME IInv, NEW d \in Dsts, NewTxWasted(d)
  PROVE  IInv'
<1> DEFINE id == NextHarqId(harq)
<1>1. PICK a \in grantInfo[d].slotAllocations :
        /\ TxNow(d, a) /\ a.tx = 0
        /\ harq.ids # <<>>
        /\ harq' = AssignNrSlHarqProcessId(harq, d)
        /\ grantInfo' = [grantInfo EXCEPT ![d] = Wasted(grantInfo[d], a, 1, id)]
        /\ UNCHANGED <<rlcVars, txInSlot, halted>>
  BY DEF NewTxWasted
<1>2. harq \in HarqState /\ FreeIdsAreClean(harq) /\ TypeOK
  BY DEF IInv, TypeOK
<1>3. /\ id \in HarqIds /\ IsHarqIdAvailable(harq, id)
      /\ harq' \in HarqState /\ FreeIdsAreClean(harq')
      /\ harq'.pkt = [harq.pkt EXCEPT ![id] = [dst |-> d, full |-> FALSE]]
      /\ ~IsHarqIdAvailable(harq', id)
      /\ \A other \in HarqIds \ {id} :
           IsHarqIdAvailable(harq', other) <=> IsHarqIdAvailable(harq, other)
  BY <1>1, <1>2, AssignLemma
<1>4. /\ harq'.pkt[id].dst = d
      /\ \A other \in HarqIds \ {id} : harq'.pkt[other] = harq.pkt[other]
  <2>1. harq.pkt \in [HarqIds -> PktInfo]
    BY <1>2 DEF HarqState
  <2> QED BY <1>3, <2>1
<1> HIDE DEF id
<1> DEFINE g == Wasted(grantInfo[d], a, 1, id)
<1>5. /\ AfterTx(grantInfo[d], g, a, 1, id)
      /\ g.tbTxCounter = 1
      /\ g.slResoReselCounter = grantInfo[d].slResoReselCounter
  <2>1. grantInfo[d] \in NrSlGrantInfo /\ 1 \in Nat
    BY <1>2, GrantTypes
  <2> QED BY <1>3, <2>1, WastedLemma
<1>5a. /\ g \in NrSlGrantInfo
       /\ g.slotAllocations = grantInfo[d].slotAllocations \ {a}
       /\ g.nSelected = grantInfo[d].nSelected
       /\ g.nrSlHarqId = id
  <2> HIDE DEF g
  <2> QED BY <1>5 DEF AfterTx
<1>6. /\ grantInfo' = [grantInfo EXCEPT ![d] = g]
      /\ d \in granted /\ granted' = granted
      /\ IsFirst(a, grantInfo[d].slotAllocations) /\ a.sfn = 0
      /\ HasGrant(d)
      /\ txQueueSize' = txQueueSize /\ poolIndex' = poolIndex /\ pc' = pc
      /\ todo' = todo \ {d}
  BY <1>1 DEF TxNow, TxTurn, HasGrant
<1> HIDE DEF g
<1>7. TypeOK'
  <2>1. grantInfo' \in [Dsts -> NrSlGrantInfo]
    BY <1>2, <1>5a, <1>6 DEF TypeOK
  <2> QED BY <1>1, <1>2, <1>3, <1>6, <2>1 DEF TypeOK, rlcVars
<1>8. /\ grantInfo'[d] = g
      /\ \A e \in Dsts \ {d} : grantInfo'[e] = grantInfo[e]
  BY <1>2, <1>6 DEF TypeOK
<1>9. \A e \in Dsts \ {d} : HoldsHarqId(e) => HoldsHarqId(e)'
  BY <1>2, <1>3, <1>4, <1>8, OthersHoldLemma
<1>10. HoldsHarqId(d)'
  BY <1>3, <1>4, <1>5a, <1>8, HarqIdsFacts DEF HoldsHarqId
<1>11. g.slResoReselCounter >= 0 /\ g.tbTxCounter = a.tx + 1
  BY <1>1, <1>5, <1>6 DEF HasGrant
<1>12. Transmits(d, a, g)
  BY <1>1, <1>3, <1>5a, <1>6, <1>9, <1>10, <1>11 DEF Transmits
<1> QED BY <1>7, <1>12, TransmitsLemma

(* A retransmission finds the id of its TB, because the grant is in the     *)
(* middle of it (MidTb).                                                    *)
LEMMA ReTxLemma ==
  ASSUME IInv, NEW d \in Dsts, ReTx(d)
  PROVE  IInv'
<1> DEFINE id == grantInfo[d].nrSlHarqId
           n == grantInfo[d].tbTxCounter + 1
           last == n = grantInfo[d].nSelected
           Sent(a) ==
             /\ harq' = Feedback(harq, d, id, last)
             /\ grantInfo' = [grantInfo EXCEPT ![d] = Used(grantInfo[d], a, n, id)]
             /\ halted' = FeedbackOutcome(harq, d, id, last)
             /\ txInSlot' = txInSlot \union {d}
           Skipped(a) ==
             /\ grantInfo' = [grantInfo EXCEPT ![d] = Wasted(grantInfo[d], a, n, id)]
             /\ UNCHANGED <<harq, txInSlot, halted>>
<1>1. PICK a \in grantInfo[d].slotAllocations :
        /\ TxNow(d, a) /\ a.tx # 0
        /\ IF id = NoHarqId \/ harq.pkt[id].dst # d
           THEN halted' = "harqMismatch" /\ UNCHANGED <<grantInfo, harq, txInSlot>>
           ELSE IF harq.pkt[id].full THEN Sent(a) ELSE Skipped(a)
        /\ UNCHANGED rlcVars
  BY DEF ReTx
<1>2. harq \in HarqState /\ FreeIdsAreClean(harq) /\ TypeOK
  BY DEF IInv, TypeOK
<1>3. /\ d \in granted /\ granted' = granted
      /\ IsFirst(a, grantInfo[d].slotAllocations) /\ a.sfn = 0
      /\ HasGrant(d)
      /\ txQueueSize' = txQueueSize /\ poolIndex' = poolIndex /\ pc' = pc
      /\ todo' = todo \ {d}
  BY <1>1 DEF TxNow, TxTurn, HasGrant
<1>4. grantInfo[d].tbTxCounter = a.tx /\ HoldsHarqId(d)
  BY <1>1, <1>3 DEF IInv, MidTb
<1>5. /\ id \in HarqIds /\ harq.pkt[id].dst = d /\ ~IsHarqIdAvailable(harq, id)
      /\ Sent(a) \/ Skipped(a)
  BY <1>1, <1>2, <1>4, GrantTypes DEF HoldsHarqId
<1>6. grantInfo[d] \in NrSlGrantInfo /\ n \in Nat /\ n = a.tx + 1
  BY <1>2, <1>4, GrantTypes
<1>7. /\ harq' \in HarqState /\ FreeIdsAreClean(harq')
      /\ \A other \in HarqIds \ {id} :
           /\ harq'.pkt[other] = harq.pkt[other]
           /\ IsHarqIdAvailable(harq', other) <=> IsHarqIdAvailable(harq, other)
      /\ ~last => harq' = harq
  <2>1. CASE Sent(a) /\ last
    <3>1. harq' = RecvNrSlHarqFeedback(harq, id)
      BY <2>1 DEF Feedback
    <3>2. /\ harq' \in HarqState /\ FreeIdsAreClean(harq')
          /\ harq'.pkt = [harq.pkt EXCEPT ![id] = EmptyPkt]
          /\ \A other \in HarqIds \ {id} :
               IsHarqIdAvailable(harq', other) <=> IsHarqIdAvailable(harq, other)
      BY <1>2, <1>5, <3>1, FeedbackLemma
    <3>3. harq.pkt \in [HarqIds -> PktInfo]
      BY <1>2 DEF HarqState
    <3> QED BY <2>1, <3>2, <3>3
  <2>2. CASE Skipped(a) \/ ~last
    <3>1. harq' = harq
      BY <1>5, <2>2 DEF Feedback
    <3> QED BY <1>2, <3>1
  <2> QED BY <1>5, <2>1, <2>2
<1>8. PICK g :
        /\ grantInfo' = [grantInfo EXCEPT ![d] = g]
        /\ AfterTx(grantInfo[d], g, a, n, id)
  <2> HIDE DEF id, n
  <2>1. CASE Sent(a)
    <3>1. AfterTx(grantInfo[d], Used(grantInfo[d], a, n, id), a, n, id)
      BY <1>5, <1>6, UsedLemma
    <3> QED BY <2>1, <3>1
  <2>2. CASE Skipped(a)
    <3>1. AfterTx(grantInfo[d], Wasted(grantInfo[d], a, n, id), a, n, id)
      BY <1>5, <1>6, WastedLemma
    <3> QED BY <2>2, <3>1
  <2> QED BY <1>5, <2>1, <2>2
<1>8a. /\ g \in NrSlGrantInfo
       /\ g.slotAllocations = grantInfo[d].slotAllocations \ {a}
       /\ g.nSelected = grantInfo[d].nSelected
       /\ g.nrSlHarqId = id
       /\ ~last => g.tbTxCounter = n /\ g.slResoReselCounter = grantInfo[d].slResoReselCounter
  BY <1>8 DEF AfterTx
<1>9. TypeOK'
  <2>1. halted' \in {"no", "harqBusy", "harqMismatch", "assert", "undefined"}
    BY <1>2, <1>5, FeedbackOutcomeType DEF TypeOK
  <2>2. grantInfo' \in [Dsts -> NrSlGrantInfo]
    BY <1>2, <1>8, <1>8a DEF TypeOK
  <2>3. txInSlot' \subseteq Dsts
    BY <1>2, <1>5 DEF TypeOK
  <2> QED BY <1>1, <1>2, <1>3, <1>7, <2>1, <2>2, <2>3 DEF TypeOK, rlcVars
<1>10. /\ grantInfo'[d] = g
       /\ \A e \in Dsts \ {d} : grantInfo'[e] = grantInfo[e]
  BY <1>2, <1>8 DEF TypeOK
<1>11. \A e \in Dsts \ {d} : HoldsHarqId(e) => HoldsHarqId(e)'
  <2> HIDE DEF id
  <2> QED BY <1>2, <1>5, <1>7, <1>10, OthersHoldLemma
<1>12. ASSUME a.tx + 1 < g.nSelected
       PROVE  g.slResoReselCounter >= 0 /\ g.tbTxCounter = a.tx + 1 /\ HoldsHarqId(d)'
  <2>1. ~last
    BY <1>6, <1>8a, <1>12
  <2>2. harq' = harq /\ g.tbTxCounter = a.tx + 1
        /\ g.slResoReselCounter = grantInfo[d].slResoReselCounter
    BY <1>6, <1>7, <1>8a, <2>1
  <2>3. HoldsHarqId(d)'
    BY <1>4, <1>8a, <1>10, <2>2 DEF HoldsHarqId
  <2> QED BY <1>3, <2>2, <2>3 DEF HasGrant
<1>13. txInSlot' \subseteq txInSlot \union {d}
  BY <1>5
<1>14. Transmits(d, a, g)
  BY <1>3, <1>7, <1>8, <1>8a, <1>11, <1>12, <1>13 DEF Transmits
<1> QED BY <1>9, <1>14, TransmitsLemma

-----------------------------------------------------------------------------
LEMMA NextLemma == IInv /\ [Next]_vars => IInv'
<1> SUFFICES ASSUME IInv, [Next]_vars PROVE IInv'
  OBVIOUS
<1>1. CASE SlotIndication
  BY <1>1, SlotIndicationLemma
<1>2. CASE EndOfSched \/ EndOfTx \/ Stopped
  BY <1>2, ControlLemma
<1>3. ASSUME NEW d \in Dsts, SchedDst(d)
      PROVE  IInv'
  BY <1>3, ControlLemma, KeepLemma, ReselectLemma DEF SchedDst
<1>4. ASSUME NEW d \in Dsts, TxGrant(d)
      PROVE  IInv'
  BY <1>4, ControlLemma, NewTxLemma, NewTxWastedLemma, ReTxLemma DEF TxGrant
<1>5. ASSUME NEW d \in Dsts, UpperLayer(d)
      PROVE  IInv'
  BY <1>5, UpperLayerLemma
<1>6. CASE UNCHANGED vars
  BY <1>6, FrameLemma DEF vars, IInv, TypeOK
<1> QED BY <1>1, <1>2, <1>3, <1>4, <1>5, <1>6 DEF Next, Slot

(* Every state the transmitting UE can reach satisfies the strengthened     *)
(* invariant: free HARQ ids are clean, grants are in order and periodic,    *)
(* share no slot, and hold an id of their own while a TB has transmissions  *)
(* left.                                                                    *)
THEOREM Invariant == Spec => []IInv
<1>1. Init => IInv
  BY InitLemma
<1>2. IInv /\ [Next]_vars => IInv'
  BY NextLemma
<1> QED BY <1>1, <1>2, PTL DEF Spec

(* The variables of the MAC, the RLC and the HARQ entity keep their types;  *)
(* in particular the RLC queue never exceeds its capacity.                  *)
THEOREM TypeCorrect == Spec => []TypeOK
<1>1. IInv => TypeOK
  BY DEF IInv
<1> QED BY <1>1, Invariant, PTL

(* The MAC never hands the PHY the TBs of two destinations in one slot: the *)
(* reselection of one grant, whatever the others have done since, keeps     *)
(* clear of all their later periods.                                        *)
THEOREM OneTbPerSlotHolds == Spec => []OneTbPerSlot
<1>1. IInv => OneTbPerSlot
  BY DEF IInv, TypeOK, OneTbPerSlot, SlotTaken
<1> QED BY <1>1, Invariant, PTL

(* A destination about to retransmit still owns the HARQ id its grant       *)
(* keeps: GetPacketBurst and RecvNrSlHarqFeedback never abort.              *)
THEOREM RetxHoldsHarqIdHolds == Spec => []RetxHoldsHarqId
<1>1. IInv => RetxHoldsHarqId
  BY DEF IInv, TypeOK, RetxHoldsHarqId, MidTb, HoldsHarqId
<1> QED BY <1>1, Invariant, PTL
=============================================================================
