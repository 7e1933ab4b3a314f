----------------------- MODULE NrSlUeMacServedProofs -----------------------
(***************************************************************************)
(* What holds of the grants under conditions on the configuration: a       *)
(* period that fits the pool, queues kept filled, grants not kept, a HARQ  *)
(* process for each destination.  Each theorem names the ones it needs.    *)
(***************************************************************************)
EXTENDS NrSlUeMacServiceProofs, WellFoundedInduction

-----------------------------------------------------------------------------
(* Remainders.                                                              *)
LEMMA DivMod ==
  ASSUME NEW z \in Int, NEW L \in Nat \ {0}
  PROVE  z \div L \in Int /\ z % L \in 0 .. L - 1 /\ z = L * (z \div L) + (z % L)
OBVIOUS

(* Quotient and remainder are unique.                                       *)
LEMMA ModUnique ==
  ASSUME NEW L \in Nat \ {0}, NEW q \in Int, NEW k \in Int, NEW r \in 0 .. L - 1, NEW m \in 0 .. L - 1,
         L * q + r = L * k + m
  PROVE  r = m
<1>1. ASSUME NEW x \in Int, NEW y \in Int, x < y
      PROVE  L * x + L <= L * y
  <2>1. y - x \in Nat /\ y - x >= 1
    BY <1>1
  <2>2. L * (y - x) >= L
    BY <2>1
  <2>3. L * (y - x) = L * y - L * x
    OBVIOUS
  <2>4. L * x \in Int /\ L * y \in Int
    OBVIOUS
  <2> QED BY <2>2, <2>3, <2>4
<1>2. L * q \in Int /\ L * k \in Int
  OBVIOUS
<1>3. q < k => FALSE
  BY <1>1, <1>2
<1>4. k < q => FALSE
  BY <1>1, <1>2
<1> QED BY <1>2, <1>3, <1>4

(* Whole turns do not change a remainder, nor does taking it early.         *)
LEMMA ModShift ==
  ASSUME NEW y \in Int, NEW q \in Int, NEW L \in Nat \ {0}
  PROVE  (y + q * L) % L = y % L
<1> DEFINE z == y + q * L
<1>1. z \in Int /\ q * L = L * q /\ L * q \in Int
  OBVIOUS
<1>2. /\ z \div L \in Int /\ z % L \in 0 .. L - 1 /\ z = L * (z \div L) + (z % L)
      /\ y \div L \in Int /\ y % L \in 0 .. L - 1 /\ y = L * (y \div L) + (y % L)
  BY <1>1, DivMod
<1>3. L * ((y \div L) + q) = L * (y \div L) + L * q
  BY <1>2
<1>4. L * ((y \div L) + q) + (y % L) = L * (z \div L) + (z % L)
  BY <1>1, <1>2, <1>3
<1>5. (y \div L) + q \in Int
  BY <1>2
<1> HIDE DEF z
<1>6. y % L = z % L
  <2> DEFINE k == (y \div L) + q
             j == z \div L
             r == y % L
             m == z % L
  <2>1. k \in Int /\ j \in Int /\ r \in 0 .. L - 1 /\ m \in 0 .. L - 1 /\ L * k + r = L * j + m
    BY <1>2, <1>4, <1>5
  <2> HIDE DEF k, j, r, m
  <2>2. r = m
    BY <2>1, ModUnique
  <2> QED BY <2>2 DEF r, m
<1> QED BY <1>6 DEF z

LEMMA ModStep ==
  ASSUME NEW p \in Int, NEW x \in Int, NEW L \in Nat \ {0}
  PROVE  ((p % L) + x) % L = (p + x) % L
<1>1. p \div L \in Int /\ p % L \in 0 .. L - 1 /\ p = L * (p \div L) + (p % L)
  BY DivMod
<1> DEFINE r == p % L
           q == p \div L
<1>2. q \in Int /\ r \in Int /\ p = L * q + r /\ L * q = q * L
  BY <1>1
<1> HIDE DEF r, q
<1>3. p + x = (r + x) + q * L /\ r + x \in Int
  BY <1>2
<1>4. ((r + x) + q * L) % L = (r + x) % L
  BY <1>2, <1>3, ModShift, ZenonT(60)
<1> QED BY <1>3, <1>4 DEF r

(* A whole number of periods is a whole number of turns of the pool.        *)
LEMMA PeriodsInPool ==
  ASSUME PeriodFitsPool, NEW x \in Int, NEW i \in Nat
  PROVE  (x + i * ResvPeriod) % PoolLen = x % PoolLen
<1> DEFINE turns == ResvPeriod \div PoolLen
<1>1. ResvPeriod \in Int /\ PoolLen \in Nat \ {0}
  BY MacAssumption
<1>2. turns \in Int /\ ResvPeriod = PoolLen * turns
  BY <1>1, DivMod DEF PeriodFitsPool
<1> HIDE DEF turns
<1>3. i * ResvPeriod = (i * turns) * PoolLen /\ i * turns \in Int
  BY <1>1, <1>2
<1>4. (x + (i * turns) * PoolLen) % PoolLen = x % PoolLen
  BY <1>1, <1>3, ModShift
<1> QED BY <1>3, <1>4

-----------------------------------------------------------------------------
(* No allocation is passed over.                                            *)

(* The state TimelyInv speaks of beyond ServiceInv.                         *)
LEMMA TimelyFrame ==
  ASSUME TimelyInv, ServiceInv',
         UNCHANGED <<granted, grantInfo, harq, poolIndex, txInSlot>>,
         halted' = "no" => OnTime'
  PROVE  TimelyInv'
<1>1. InPool'
  BY DEF TimelyInv, InPool
<1> QED BY <1>1 DEF TimelyInv

LEMMA TimelyInit == Init => TimelyInv
<1> SUFFICES ASSUME Init PROVE TimelyInv
  OBVIOUS
<1>1. \A d \in Dsts : grantInfo[d].slotAllocations = {}
  BY DEF Init, DefaultGrant
<1>2. InPool
  BY <1>1 DEF InPool
<1>3. pc = "idle"
  BY DEF Init
<1>4. OnTime
  BY <1>1, <1>3 DEF OnTime, Expired
<1> QED BY <1>2, <1>4, ServiceInitLemma DEF TimelyInv

(* Between two slots, the loops, and the turns that change no grant.        *)
LEMMA TimelyMoves ==
  ASSUME TimelyInv, ServiceInv', Moves \/ \E d \in Dsts : UpperLayer(d)
  PROVE  TimelyInv'
<1>1. TypeOK
  BY DEF TimelyInv, ServiceInv, IInv
<1>2. CASE UNCHANGED vars
  BY <1>2, TimelyFrame DEF vars, TimelyInv, OnTime, Expired, HasGrant
<1>3. CASE \E d \in Dsts : UpperLayer(d)
  <2>1. UNCHANGED <<granted, grantInfo, harq, poolIndex, txInSlot, pc, todo, halted>>
    BY <1>3 DEF UpperLayer, TransmitNrSlPdcpPdu, ExpireNrSlRbsTimer, macVars
  <2> QED BY <2>1, TimelyFrame DEF TimelyInv, OnTime, Expired, HasGrant
<1>4. CASE EndOfSched
  <2>1. /\ UNCHANGED <<granted, grantInfo, harq, poolIndex, txInSlot, halted>>
        /\ halted = "no" /\ pc = "sched" /\ todo = {} /\ pc' = "tx" /\ todo' = granted
    BY <1>4 DEF EndOfSched, macVars
  <2>2. OnTime'
    <3>1. \A d \in Dsts : ~Expired(d)'
      BY <2>1 DEF TimelyInv, OnTime, Expired, HasGrant
    <3>2. \A d \in Dsts \ granted : grantInfo[d].slotAllocations = {}
      BY DEF TimelyInv, ServiceInv, IInv
    <3>3. \A d \in Dsts : \A a \in grantInfo'[d].slotAllocations :
            a.sfn >= 0 /\ ~(d \notin todo')
      BY <2>1, <3>2 DEF TimelyInv, OnTime
    <3> QED BY <2>1, <3>1, <3>3 DEF TimelyInv, OnTime
  <2> QED BY <2>1, <2>2, TimelyFrame
<1>5. CASE EndOfTx
  <2>1. /\ UNCHANGED <<granted, grantInfo, harq, poolIndex, txInSlot, halted>>
        /\ halted = "no" /\ pc = "tx" /\ todo = {} /\ pc' = "idle"
    BY <1>5 DEF EndOfTx, macVars
  <2>2. OnTime'
    BY <2>1 DEF TimelyInv, OnTime, Expired, HasGrant
  <2> QED BY <2>1, <2>2, TimelyFrame
<1>6. ASSUME NEW d \in Dsts, SkipDst(d)
      PROVE  TimelyInv'
  <2>1. /\ UNCHANGED <<granted, grantInfo, harq, poolIndex, txInSlot, halted, pc>>
        /\ halted = "no" /\ pc = "sched" /\ todo' = todo \ {d} /\ HasGrant(d)
    BY <1>6 DEF SkipDst, SchedTurn
  <2>2. OnTime'
    BY <2>1 DEF TimelyInv, OnTime, Expired, HasGrant
  <2> QED BY <2>1, <2>2, TimelyFrame
<1>7. ASSUME NEW d \in Dsts, NoTxNow(d) \/ ReadEmptyGrant(d)
      PROVE  TimelyInv'
  <2>1. /\ UNCHANGED <<granted, grantInfo, harq, poolIndex, txInSlot, pc>>
        /\ halted = "no" /\ pc = "tx" /\ d \in todo /\ todo' = todo \ {d}
    BY <1>7 DEF NoTxNow, ReadEmptyGrant, TxTurn
  <2>2. \/ ~HasGrant(d)
        \/ \A a \in grantInfo[d].slotAllocations : a.sfn > 0
    <3>1. CASE \E a \in grantInfo[d].slotAllocations :
                 IsFirst(a, grantInfo[d].slotAllocations) /\ a.sfn # 0
      <4>1. PICK a \in grantInfo[d].slotAllocations :
              IsFirst(a, grantInfo[d].slotAllocations) /\ a.sfn # 0
        BY <3>1
      <4>2. a.sfn >= 0 /\ \A b \in grantInfo[d].slotAllocations : a.sfn <= b.sfn /\ b.sfn \in Int
        BY <1>1, <2>1, <4>1, GrantTypes DEF TimelyInv, OnTime, IsFirst, Alloc
      <4> QED BY <4>1, <4>2
    <3> QED BY <1>7, <3>1 DEF NoTxNow, ReadEmptyGrant
  <2>3. \A a \in grantInfo[d].slotAllocations : a.sfn > 0
    <3>1. CASE ~HasGrant(d)
      <4> SUFFICES ASSUME grantInfo[d].slotAllocations # {} PROVE FALSE
        OBVIOUS
      <4>1. d \in txInSlot
        BY <2>1, <3>1 DEF TimelyInv, OnTime, Expired
      <4> QED BY <2>1, <4>1 DEF TimelyInv, ServiceInv, OncePerSlot
    <3> QED BY <2>2, <3>1
  <2>4. OnTime'
    BY <2>1, <2>3 DEF TimelyInv, OnTime, Expired, HasGrant
  <2> QED BY <2>1, <2>4, TimelyFrame
<1>8. ASSUME NEW d \in Dsts, NoHarqProcess(d)
      PROVE  TimelyInv'
  <2>1. /\ UNCHANGED <<granted, grantInfo, harq, poolIndex, txInSlot>>
        /\ halted' = "harqBusy"
    BY <1>8 DEF NoHarqProcess, TxNow, TxTurn
  <2> QED BY <2>1, TimelyFrame
<1> QED BY <1>2, <1>3, <1>4, <1>5, <1>6, <1>7, <1>8 DEF Moves

(* A slot passes.  A slot that is not a sidelink slot is nobody's; before a *)
(* first loop that is left out no grant has expired.                        *)
LEMMA TimelySlotIndication ==
  ASSUME TimelyInv, ServiceInv', SlotIndication
  PROVE  TimelyInv'
<1>1. TypeOK /\ TypeOK' /\ PoolLen \in Nat \ {0} /\ poolIndex \in Int
  BY MacAssumption DEF TimelyInv, ServiceInv, IInv, TypeOK
<1>2. /\ pc = "idle" /\ halted = "no" /\ halted' = "no" /\ harq' = harq /\ granted' = granted
      /\ poolIndex' = (poolIndex + 1) % PoolLen
      /\ IF PhyPool[poolIndex']
         THEN IF Len(harq.ids) > 0 THEN pc' = "sched" /\ todo' = Dsts
              ELSE pc' = "tx" /\ todo' = granted
         ELSE pc' = pc
  BY DEF SlotIndication, Idle
<1>3. ASSUME NEW d \in Dsts
      PROVE  /\ grantInfo'[d].slotAllocations = Advance(grantInfo[d].slotAllocations)
             /\ grantInfo'[d].slResoReselCounter = grantInfo[d].slResoReselCounter
  <2>1. grantInfo'[d] = [grantInfo[d] EXCEPT !.slotAllocations = Advance(@)]
    BY DEF SlotIndication
  <2> QED BY <1>1, <2>1, GrantTypes DEF NrSlGrantInfo
<1>4. ASSUME NEW d \in Dsts, NEW b \in grantInfo'[d].slotAllocations
      PROVE  /\ b.sfn \in Int
             /\ b.sfn >= 0 => \E a \in grantInfo[d].slotAllocations : a.sfn = b.sfn + 1
             /\ \E a \in grantInfo[d].slotAllocations : b.sfn = Passed(a.sfn)
  <2> DEFINE allocs == grantInfo[d].slotAllocations
             n == grantInfo[d].nSelected
  <2>1. allocs \in SUBSET Alloc /\ n \in Nat /\ Ordered(allocs, n) /\ b \in Advance(allocs)
    BY <1>1, <1>3, <1>4, GrantTypes DEF TimelyInv, ServiceInv, IInv
  <2> HIDE DEF allocs, n
  <2>2. /\ Advance(allocs) \in SUBSET Alloc
        /\ \A c \in Advance(allocs) : c.sfn >= 0 =>
             \E a \in allocs : a.sfn = c.sfn + 1 /\ a.tx = c.tx
    BY <2>1, AdvanceLemma
  <2>3. \E a \in allocs : b.sfn = Passed(a.sfn)
    BY <2>1 DEF Advance
  <2>4. b.sfn \in Int
    BY <2>1, <2>2 DEF Alloc
  <2> QED BY <2>1, <2>2, <2>3, <2>4 DEF allocs
<1>5. ASSUME NEW d \in Dsts, NEW b \in grantInfo'[d].slotAllocations
      PROVE  b.sfn >= 0
  <2>1. PICK a \in grantInfo[d].slotAllocations : b.sfn = Passed(a.sfn)
    BY <1>4
  <2>2. a.sfn > 0 /\ a.sfn \in Int
    BY <1>1, <1>2, GrantTypes DEF TimelyInv, OnTime, Alloc
  <2> QED BY <2>1, <2>2 DEF Passed
<1>6. ASSUME NEW d \in Dsts, NEW b \in grantInfo'[d].slotAllocations
      PROVE  PhyPool[(poolIndex' + b.sfn) % PoolLen]
  <2>1. PICK a \in grantInfo[d].slotAllocations : a.sfn = b.sfn + 1
    BY <1>4, <1>5
  <2>2. PhyPool[(poolIndex + (b.sfn + 1)) % PoolLen]
    BY <1>4, <1>5, <2>1 DEF TimelyInv, InPool
  <2>3. (((poolIndex + 1) % PoolLen) + b.sfn) % PoolLen = ((poolIndex + 1) + b.sfn) % PoolLen
    <3> DEFINE p == poolIndex + 1
               x == b.sfn
    <3>1. p \in Int /\ x \in Int
      BY <1>1, <1>4
    <3> HIDE DEF p, x
    <3>2. ((p % PoolLen) + x) % PoolLen = (p + x) % PoolLen
      BY <1>1, <3>1, ModStep
    <3> QED BY <3>2 DEF p, x
  <2>4. (poolIndex + 1) + b.sfn = poolIndex + (b.sfn + 1)
    BY <1>1, <1>4
  <2> QED BY <1>2, <2>2, <2>3, <2>4
<1>7. InPool'
  BY <1>6 DEF InPool
<1>8. ASSUME NEW d \in Dsts, Expired(d)'
      PROVE  harq.ids # <<>>
  <2>1. Expired(d)
    BY <1>2, <1>3, <1>8 DEF Expired, HasGrant, Advance
  <2> QED BY <1>2, <2>1 DEF TimelyInv, OnTime
<1>9. Len(harq.ids) > 0 <=> harq.ids # <<>>
  <2>1. harq.ids \in Seq(HarqIds)
    BY <1>1 DEF TypeOK, HarqState
  <2> QED BY <2>1, EmptySeq, LenProperties
<1>10. \A d \in Dsts \ granted : grantInfo'[d].slotAllocations = {}
  BY <1>2 DEF TimelyInv, ServiceInv, IInv
<1>11. ~PhyPool[poolIndex'] =>
         \A d \in Dsts : \A b \in grantInfo'[d].slotAllocations : b.sfn # 0
  <2> SUFFICES ASSUME ~PhyPool[poolIndex'], NEW d \in Dsts,
                      NEW b \in grantInfo'[d].slotAllocations, b.sfn = 0
               PROVE  FALSE
    OBVIOUS
  <2>1. (poolIndex' + 0) % PoolLen = poolIndex'
    BY <1>1 DEF TypeOK
  <2> QED BY <1>6, <2>1
<1>12. OnTime'
  <2>1. CASE pc' = "idle"
    <3>1. \A d \in Dsts : \A b \in grantInfo'[d].slotAllocations : b.sfn > 0
      BY <1>2, <1>4, <1>5, <1>11, <2>1
    <3>2. \A d \in Dsts : \A b \in grantInfo'[d].slotAllocations : b.sfn >= 0
      BY <1>5
    <3> QED BY <1>2, <1>8, <2>1, <3>1, <3>2 DEF OnTime
  <2>2. CASE pc' # "idle"
    <3>1. PhyPool[poolIndex']
      BY <1>2, <2>2
    <3>2. pc' = "tx" => todo' = granted /\ harq.ids = <<>>
      BY <1>2, <1>9, <3>1
    <3>3. pc' = "sched" => todo' = Dsts
      BY <1>2, <3>1
    <3> QED BY <1>2, <1>5, <1>8, <1>10, <2>2, <3>1, <3>2, <3>3 DEF OnTime
  <2> QED BY <2>1, <2>2
<1> QED BY <1>7, <1>12 DEF TimelyInv

(* The first loop replaces or keeps the grant of d, or leaves it empty.     *)
LEMMA TimelyReplace ==
  ASSUME TimelyInv, ServiceInv', NEW d \in Dsts, SchedTurn(d),
         NEW g, grantInfo' = [grantInfo EXCEPT ![d] = g],
         granted \subseteq granted', granted' \subseteq granted \union {d},
         \A a \in g.slotAllocations :
           a.sfn >= 0 => PhyPool[(poolIndex + a.sfn) % PoolLen],
         halted' = "no" =>
           /\ g.slotAllocations = {} \/ HasGrant(d)'
           /\ \A a \in g.slotAllocations : a.sfn >= 0
  PROVE  TimelyInv'
<1>1. /\ grantInfo'[d] = g
      /\ \A e \in Dsts \ {d} : grantInfo'[e] = grantInfo[e]
  BY DEF TimelyInv, ServiceInv, IInv, TypeOK
<1>2. /\ halted = "no" /\ pc = "sched" /\ pc' = pc /\ poolIndex' = poolIndex
      /\ todo' = todo \ {d}
  BY DEF SchedTurn
<1>3. InPool'
  <2> SUFFICES ASSUME NEW e \in Dsts, NEW a \in grantInfo'[e].slotAllocations, a.sfn >= 0
               PROVE  PhyPool[(poolIndex + a.sfn) % PoolLen]
    BY <1>2 DEF InPool
  <2> QED BY <1>1 DEF TimelyInv, InPool
<1>4. ASSUME halted' = "no"
      PROVE  OnTime'
  <2>1. ASSUME NEW e \in Dsts, NEW a \in grantInfo'[e].slotAllocations
        PROVE  a.sfn >= 0
    BY <1>1, <1>2, <1>4 DEF TimelyInv, OnTime
  <2>2. ASSUME NEW e \in Dsts \ todo'
        PROVE  ~Expired(e)'
    <3>1. CASE e = d
      BY <1>1, <1>4, <3>1 DEF Expired
    <3>2. CASE e # d
      <4>1. ~Expired(e)
        BY <1>2, <3>2 DEF TimelyInv, OnTime
      <4> QED BY <1>1, <3>2, <4>1 DEF Expired, HasGrant
    <3> QED BY <3>1, <3>2
  <2>3. PhyPool[poolIndex']
    BY <1>2 DEF TimelyInv, OnTime
  <2> QED BY <1>2, <2>1, <2>2, <2>3 DEF OnTime
<1> QED BY <1>3, <1>4 DEF TimelyInv

LEMMA TimelyKeep ==
  ASSUME TimelyInv, ServiceInv', NEW d \in Dsts, Keep(d)
  PROVE  TimelyInv'
<1> DEFINE g == [grantInfo[d] EXCEPT !.slResoReselCounter = grantInfo[d].prevSlResoReselCounter]
<1>1. /\ SchedTurn(d) /\ d \in granted /\ granted' = granted
      /\ grantInfo' = [grantInfo EXCEPT ![d] = g]
  BY DEF Keep, MayKeep
<1>2. TypeOK /\ grantInfo[d] \in NrSlGrantInfo /\ grantInfo[d].prevSlResoReselCounter \in Nat
  BY GrantTypes DEF TimelyInv, ServiceInv, IInv
<1>3. /\ g.slotAllocations = grantInfo[d].slotAllocations
      /\ g.slResoReselCounter \in Nat
  BY <1>2 DEF NrSlGrantInfo
<1>4. HasGrant(d)'
  BY <1>1, <1>2, <1>3 DEF HasGrant, TypeOK
<1>5. halted = "no" /\ (halted = "no" => OnTime)
  BY <1>1 DEF SchedTurn, TimelyInv
<1>6. \A a \in g.slotAllocations :
        a.sfn >= 0 /\ PhyPool[(poolIndex + a.sfn) % PoolLen]
  BY <1>3, <1>5 DEF OnTime, TimelyInv, InPool
<1> HIDE DEF g
<1> QED BY <1>1, <1>4, <1>6, TimelyReplace

LEMMA TimelyReselect ==
  ASSUME PeriodFitsPool, TimelyInv, ServiceInv', NEW d \in Dsts, Reselect(d)
  PROVE  TimelyInv'
<1>0. TypeOK
  BY DEF TimelyInv, ServiceInv, IInv
<1>1. SchedTurn(d) /\ TypeOK /\ poolIndex \in Int
  <2>1. poolIndex \in Int
    BY <1>0, MacAssumption DEF TypeOK
  <2>2. SchedTurn(d)
    BY DEF Reselect
  <2> QED BY <1>0, <2>1, <2>2
<1>2. PICK opps \in TxOpportunities :
        LET filtered == FilterTxOpportunities(opps, d)
        IN \/ /\ grantInfo' = [grantInfo EXCEPT ![d].slotAllocations = {}]
              /\ UNCHANGED <<txQueueSize, granted, halted>>
           \/ /\ filtered # {}
              /\ \E reselCounter \in ReselCounters, list \in SlotAllocLists(filtered) :
                   grantInfo' = [grantInfo EXCEPT ![d] = CreateGrantInfo(list, reselCounter)]
              /\ granted' = granted \union {d}
  BY DEF Reselect, SchedUeNrSlConfigInd
<1> DEFINE filtered == FilterTxOpportunities(opps, d)
           Cleared ==
             /\ grantInfo' = [grantInfo EXCEPT ![d].slotAllocations = {}]
             /\ UNCHANGED <<txQueueSize, granted, halted>>
           Created ==
             /\ filtered # {}
             /\ \E reselCounter \in ReselCounters, list \in SlotAllocLists(filtered) :
                  grantInfo' = [grantInfo EXCEPT ![d] = CreateGrantInfo(list, reselCounter)]
             /\ granted' = granted \union {d}
<1>3. Cleared \/ Created
  BY <1>2, Zenon
<1>4. /\ filtered \in SUBSET (T1 .. T2)
      /\ \A s \in filtered : s \in Int /\ PhyPool[(poolIndex + s) % PoolLen]
  <2>1. filtered \subseteq opps /\ opps \subseteq SelectionWindow
    BY DEF FilterTxOpportunities, TxOpportunities
  <2>2. \A s \in SelectionWindow : s \in T1 .. T2 /\ PhyPool[(poolIndex + s) % PoolLen]
    BY DEF SelectionWindow
  <2>3. T1 .. T2 \subseteq Int
    BY MacAssumption
  <2> HIDE DEF filtered
  <2> QED BY <2>1, <2>2, <2>3
<1> HIDE DEF filtered
<1>5. CASE Cleared
  <2> DEFINE g == [grantInfo[d] EXCEPT !.slotAllocations = {}]
  <2>1. g.slotAllocations = {} /\ grantInfo' = [grantInfo EXCEPT ![d] = g]
    BY <1>1, <1>5, GrantTypes DEF NrSlGrantInfo
  <2> HIDE DEF g
  <2> QED BY <1>1, <1>5, <2>1, TimelyReplace
<1>6. CASE Created
  <2>1. PICK reselCounter \in ReselCounters, list \in SlotAllocLists(filtered) :
          grantInfo' = [grantInfo EXCEPT ![d] = CreateGrantInfo(list, reselCounter)]
    BY <1>6
  <2> DEFINE g == CreateGrantInfo(list, reselCounter)
  <2>2. /\ g \in NrSlGrantInfo
        /\ Ordered(g.slotAllocations, g.nSelected)
        /\ \A a \in g.slotAllocations :
             /\ a.sfn >= 1
             /\ IsFirst(a, g.slotAllocations) => a.tx = 0
             /\ \E s \in filtered, i \in Nat : a.sfn = s + i * ResvPeriod
    BY <1>4, <1>6, CreateLemma
  <2>4. g.slResoReselCounter = reselCounter /\ reselCounter \in Nat
    BY MacAssumption DEF CreateGrantInfo
  <2>5. grantInfo' = [grantInfo EXCEPT ![d] = g]
    BY <2>1
  <2> HIDE DEF g
  <2>6. HasGrant(d)'
    BY <1>1, <1>6, <2>4, <2>5 DEF HasGrant, TypeOK
  <2>7. ASSUME NEW a \in g.slotAllocations
        PROVE  a.sfn >= 0 /\ PhyPool[(poolIndex + a.sfn) % PoolLen]
    <3>1. PICK s \in filtered, i \in Nat : a.sfn = s + i * ResvPeriod
      BY <2>2
    <3>2. a.sfn \in Int /\ a.sfn >= 0
      BY <2>2 DEF NrSlGrantInfo, Alloc
    <3>3. i * ResvPeriod \in Nat /\ s \in Int
      BY <1>4, PeriodsGrow
    <3>4. (poolIndex + a.sfn) % PoolLen = (poolIndex + s) % PoolLen
      <4> DEFINE x == poolIndex + s
                 step == i * ResvPeriod
      <4>1. x \in Int /\ step \in Nat /\ poolIndex + a.sfn = x + step
        BY <1>1, <3>1, <3>3
      <4>2. (x + i * ResvPeriod) % PoolLen = x % PoolLen
        <5> HIDE DEF x
        <5> QED BY <4>1, PeriodsInPool
      <4> QED BY <4>1, <4>2
    <3> QED BY <1>4, <3>2, <3>4
  <2>8. granted \subseteq granted' /\ granted' \subseteq granted \union {d}
    BY <1>6
  <2> QED BY <1>1, <2>5, <2>6, <2>7, <2>8, TimelyReplace
<1> HIDE DEF Cleared, Created
<1> QED BY <1>3, <1>5, <1>6

(* In a turn of the second loop only the last transmission of a TB lets a   *)
(* grant expire.  It gives its id back, and no other grant has expired      *)
(* since the slot is not shared.                                            *)
LEMMA TimelyTurn ==
  ASSUME TimelyInv, ServiceInv', halted = "no",
         NEW d \in Dsts, NEW a \in grantInfo[d].slotAllocations, NEW id \in HarqIds,
         Sends(d, a, id) \/ Skips(d, a, id)
  PROVE  TimelyInv'
<1>1. PICK g, pkt : Turn(d, a, g, id, pkt)
  BY Zenon DEF Sends, Skips
<1>2. /\ grantInfo'[d] = g
      /\ \A e \in Dsts \ {d} : grantInfo'[e] = grantInfo[e]
  BY <1>1 DEF Turn, TimelyInv, ServiceInv, IInv, TypeOK
<1>3. /\ pc = "tx" /\ pc' = "tx" /\ todo' = todo \ {d} /\ halted' = "no"
      /\ poolIndex' = poolIndex /\ granted' = granted /\ HasGrant(d)
      /\ IsFirst(a, grantInfo[d].slotAllocations) /\ a.sfn = 0
  BY <1>1 DEF Turn
<1>4. AfterTx(grantInfo[d], g, a, a.tx + 1, id)
  BY <1>1 DEF Turn
<1>5. /\ g.slotAllocations \subseteq grantInfo[d].slotAllocations
      /\ \A b \in g.slotAllocations : b.sfn > 0 /\ b.sfn \in Int
  <2> DEFINE allocs == grantInfo[d].slotAllocations
             n == grantInfo[d].nSelected
             rest == allocs \ {a}
  <2>1. allocs \in SUBSET Alloc /\ n \in Nat /\ Ordered(allocs, n) /\ g.slotAllocations = rest
    BY <1>4, GrantTypes DEF TimelyInv, ServiceInv, IInv, AfterTx
  <2>2. a \in allocs /\ IsFirst(a, allocs) /\ a.sfn = 0
    BY <1>3
  <2> HIDE DEF allocs, n
  <2>3. \A b \in rest : b.sfn > 0
    BY <2>1, <2>2, EraseLemma
  <2>4. \A b \in rest : b.sfn \in Int
    BY <2>1 DEF Alloc
  <2> QED BY <2>1, <2>3, <2>4 DEF allocs
<1>6. InPool'
  <2> SUFFICES ASSUME NEW e \in Dsts, NEW b \in grantInfo'[e].slotAllocations, b.sfn >= 0
               PROVE  PhyPool[(poolIndex + b.sfn) % PoolLen]
    BY <1>3 DEF InPool
  <2>1. b \in grantInfo[e].slotAllocations
    BY <1>2, <1>5
  <2> QED BY <2>1 DEF TimelyInv, InPool
<1>7. OnTime
  BY DEF TimelyInv
<1>8. ASSUME NEW e \in Dsts, NEW b \in grantInfo'[e].slotAllocations
      PROVE  b.sfn >= 0 /\ (e \notin todo' => b.sfn > 0)
  <2>1. CASE e = d
    BY <1>2, <1>5, <2>1
  <2>2. CASE e # d
    BY <1>2, <1>3, <1>7, <2>2 DEF OnTime
  <2> QED BY <2>1, <2>2
<1>9. ASSUME NEW e \in Dsts, Expired(e)'
      PROVE  harq'.ids # <<>> /\ e \in txInSlot'
  <2>1. CASE e # d
    <3>1. Expired(e)
      BY <1>2, <1>3, <1>9, <2>1 DEF Expired, HasGrant
    <3>2. e \in txInSlot
      BY <1>3, <1>7, <3>1 DEF OnTime
    <3>3. SlotTaken(e)
      BY <3>2 DEF TimelyInv, ServiceInv, IInv
    <3> QED BY <1>3, <2>1, <3>3 DEF SlotTaken
  <2>2. CASE e = d
    <3>1. g.slResoReselCounter # grantInfo[d].slResoReselCounter
      BY <1>2, <1>3, <1>9, <2>2 DEF Expired, HasGrant
    <3>2. a.tx + 1 = grantInfo[d].nSelected
      BY <1>4, <3>1 DEF AfterTx
    <3>3. ~Skips(d, a, id)
      <4> SUFFICES ASSUME Skips(d, a, id) PROVE FALSE
        OBVIOUS
      <4>1. grantInfo' = [grantInfo EXCEPT ![d] = Wasted(grantInfo[d], a, a.tx + 1, id)]
        BY DEF Skips, Turn
      <4>2. g = Wasted(grantInfo[d], a, a.tx + 1, id)
        BY <1>2, <4>1 DEF TimelyInv, ServiceInv, IInv, TypeOK
      <4>3. grantInfo[d] \in NrSlGrantInfo
        BY GrantTypes DEF TimelyInv, ServiceInv, IInv
      <4> QED BY <3>1, <4>2, <4>3 DEF Wasted, NrSlGrantInfo
    <3>4. IsHarqIdAvailable(harq', id) /\ d \in txInSlot'
      BY <3>2, <3>3 DEF Sends
    <3> QED BY <2>2, <3>4 DEF IsHarqIdAvailable
  <2> QED BY <2>1, <2>2
<1>10. PhyPool[poolIndex']
  BY <1>3, <1>7 DEF OnTime
<1>11. OnTime'
  BY <1>3, <1>8, <1>9, <1>10 DEF OnTime
<1> QED BY <1>6, <1>11 DEF TimelyInv

LEMMA TimelyNext == PeriodFitsPool /\ TimelyInv /\ [Next]_vars => TimelyInv'
<1> SUFFICES ASSUME PeriodFitsPool, TimelyInv, [Next]_vars PROVE TimelyInv'
  OBVIOUS
<1>0. IInv /\ ServiceInv'
  BY ServiceNextLemma DEF TimelyInv, ServiceInv
<1>1. CASE SlotIndication
  BY <1>0, <1>1, TimelySlotIndication
<1>2. CASE EndOfSched \/ EndOfTx \/ Stopped \/ UNCHANGED vars
  BY <1>0, <1>2, TimelyMoves DEF Moves, Stopped
<1>3. ASSUME NEW d \in Dsts, SchedDst(d)
      PROVE  TimelyInv'
  BY <1>0, <1>3, TimelyMoves, TimelyKeep, TimelyReselect DEF SchedDst, Moves
<1>4. ASSUME NEW d \in Dsts, TxGrant(d)
      PROVE  TimelyInv'
  <2>1. CASE Moves
    BY <1>0, <2>1, TimelyMoves
  <2>2. halted = "no"
    BY <1>4 DEF TxGrant, NoTxNow, ReadEmptyGrant, NoHarqProcess, NewTx, NewTxWasted, ReTx,
                TxNow, TxTurn
  <2>3. CASE \E a \in grantInfo[d].slotAllocations, id \in HarqIds :
               Sends(d, a, id) \/ Skips(d, a, id)
    BY <1>0, <2>2, <2>3, TimelyTurn
  <2> QED BY <1>0, <1>4, <2>1, <2>3, TxGrantCases
<1>5. CASE \E d \in Dsts : UpperLayer(d)
  BY <1>0, <1>5, TimelyMoves
<1> QED BY <1>1, <1>2, <1>3, <1>4, <1>5 DEF Next, Slot

(* With a period that is a multiple of the pool, as nr-ue-mac.h:684-688     *)
(* demands, every reachable state satisfies TimelyInv: no allocation is     *)
(* passed over, and all that are not past are in the pool.                  *)
THEOREM TimelyInvariant == ASSUME PeriodFitsPool PROVE Spec => []TimelyInv
<1>1. Init => TimelyInv
  BY TimelyInit
<1>2. TimelyInv /\ [Next]_vars => TimelyInv'
  BY TimelyNext
<1> QED BY <1>1, <1>2, PTL DEF Spec

(* An active grant never has an allocation in the past, which would block   *)
(* it for good: DoNrSlSlotIndication looks at begin () only, and each slot  *)
(* with allocations is a sidelink slot whose loops run.                     *)
THEOREM NoMissedSlotHolds == ASSUME PeriodFitsPool PROVE Spec => []NoMissedSlot
<1>1. TimelyInv => NoMissedSlot
  BY DEF TimelyInv, ServiceInv, IInv, TypeOK, OnTime, NoMissedSlot
<1> QED BY <1>1, TimelyInvariant, PTL

(* Every allocation of every later period is in a sidelink slot, although   *)
(* CreateGrantInfo repeats the list of the first period without looking.    *)
THEOREM AllocationsInPoolHolds == ASSUME PeriodFitsPool PROVE Spec => []AllocationsInPool
<1>1. TimelyInv => AllocationsInPool
  BY DEF TimelyInv, ServiceInv, IInv, TypeOK, InPool, AllocationsInPool
<1> QED BY <1>1, TimelyInvariant, PTL

-----------------------------------------------------------------------------
(* No id leaks while queues are kept filled.                                *)
LEMMA FilledInit == Init => FilledInv
<1> SUFFICES ASSUME Init PROVE FilledInv
  OBVIOUS
<1>1. ASSUME NEW id \in HarqIds
      PROVE  IsHarqIdAvailable(harq, id)
  <2>1. NumSidelinkProcess \in Nat /\ id + 1 \in 1 .. NumSidelinkProcess /\ (id + 1) - 1 = id
    BY HarqAssumption DEF HarqIds
  <2>2. harq.ids = [i \in 1 .. NumSidelinkProcess |-> i - 1]
    BY DEF Init, InitHarqBuffer
  <2>3. id + 1 \in DOMAIN harq.ids /\ harq.ids[id + 1] = id
    BY <2>1, <2>2
  <2> QED BY <2>3 DEF IsHarqIdAvailable
<1>2. pc = "idle"
  BY DEF Init
<1> QED BY <1>1, <1>2, ServiceInitLemma DEF FilledInv, NoHarqIdLeak

(* With its queue filled a new TB always gets data, and a retransmission    *)
(* finds the burst of its id.                                               *)
LEMMA FilledNeverSkips ==
  ASSUME FilledInv, NEW d \in Dsts, NEW a \in grantInfo[d].slotAllocations, NEW id \in HarqIds
  PROVE  ~Skips(d, a, id)
<1> SUFFICES ASSUME Skips(d, a, id) PROVE FALSE
  OBVIOUS
<1>1. pc = "tx" /\ d \in todo
  BY DEF Skips, Turn
<1>2. txBuffer[d] > 0 /\ (IsHarqIdAvailable(harq, id) \/ harq.pkt[id].full)
  BY <1>1 DEF FilledInv, NoHarqIdLeak
<1>3. txBuffer[d] \in Nat
  BY MacAssumption DEF FilledInv, ServiceInv, IInv, TypeOK
<1> QED BY <1>2, <1>3 DEF Skips

LEMMA FilledTurn ==
  ASSUME FilledInv, ServiceInv', NEW d \in Dsts, NEW a \in grantInfo[d].slotAllocations,
         NEW id \in HarqIds, Sends(d, a, id)
  PROVE  FilledInv'
<1>1. harq.pkt \in [HarqIds -> PktInfo]
  BY DEF FilledInv, ServiceInv, IInv, TypeOK, HarqState
<1>2. PICK pkt :
        /\ harq'.pkt = [harq.pkt EXCEPT ![id] = pkt]
        /\ a.tx + 1 # grantInfo[d].nSelected => pkt = [dst |-> d, full |-> TRUE]
  BY Zenon DEF Sends, Turn
<1>3. /\ \A other \in HarqIds \ {id} :
           /\ harq'.pkt[other] = harq.pkt[other]
           /\ IsHarqIdAvailable(harq', other) <=> IsHarqIdAvailable(harq, other)
      /\ harq'.pkt[id] = pkt
  BY <1>1, <1>2 DEF Sends, Turn
<1>4. IsHarqIdAvailable(harq', id) \/ harq'.pkt[id].full
  BY <1>2, <1>3 DEF Sends
<1>5. NoHarqIdLeak'
  BY <1>3, <1>4 DEF FilledInv, NoHarqIdLeak
<1>6. /\ pc' = "tx" /\ pc = "tx" /\ todo' = todo \ {d}
      /\ \A e \in Dsts \ {d} : txBuffer'[e] = txBuffer[e]
  BY DEF Sends, Turn
<1>7. todo \subseteq Dsts
  BY DEF FilledInv, ServiceInv, IInv, TypeOK
<1> QED BY <1>5, <1>6, <1>7 DEF FilledInv

LEMMA FilledNext == SaturatedTraffic /\ FilledInv /\ [Next]_vars => FilledInv'
<1> SUFFICES ASSUME SaturatedTraffic, FilledInv, [Next]_vars PROVE FilledInv'
  OBVIOUS
<1>0. IInv /\ ServiceInv' /\ TypeOK
  BY ServiceNextLemma DEF FilledInv, ServiceInv, IInv
<1>1. CASE SlotIndication
  BY <1>0, <1>1 DEF SlotIndication, Idle, rlcVars, FilledInv, NoHarqIdLeak, TypeOK
<1>2. ASSUME Moves
      PROVE  FilledInv'
  <2>1. /\ harq' = harq /\ txBuffer' = txBuffer
        /\ \/ pc = "sched" /\ pc' = "sched"
           \/ pc = "sched" /\ pc' = "tx"
           \/ pc' = "tx" /\ pc = "tx" /\ todo' \subseteq todo
           \/ pc' = "idle"
           \/ pc' = pc /\ todo' = todo
    BY <1>2 DEF Moves, EndOfSched, EndOfTx, SkipDst, NoTxNow, ReadEmptyGrant, NoHarqProcess,
                SchedTurn, TxTurn, TxNow, macVars, rlcVars, vars
  <2>2. NoHarqIdLeak'
    BY <2>1 DEF FilledInv, NoHarqIdLeak
  <2>3. todo' \subseteq Dsts
    BY <1>0 DEF ServiceInv, IInv, TypeOK
  <2> QED BY <1>0, <2>1, <2>2, <2>3 DEF FilledInv
<1>3. ASSUME NEW d \in Dsts, Keep(d) \/ Reselect(d)
      PROVE  FilledInv'
  BY <1>0, <1>3 DEF Keep, Reselect, SchedTurn, rlcVars, FilledInv, NoHarqIdLeak
<1>4. ASSUME NEW d \in Dsts, TxGrant(d)
      PROVE  FilledInv'
  <2>1. CASE \E a \in grantInfo[d].slotAllocations, id \in HarqIds :
               Sends(d, a, id) \/ Skips(d, a, id)
    BY <1>0, <2>1, FilledTurn, FilledNeverSkips
  <2> QED BY <1>0, <1>2, <1>4, <2>1, TxGrantCases
<1>5. ASSUME NEW d \in Dsts, UpperLayer(d)
      PROVE  FilledInv'
  <2>1. pc' = "idle" /\ harq' = harq
    BY <1>5 DEF UpperLayer, TransmitNrSlPdcpPdu, ExpireNrSlRbsTimer, Idle, macVars
  <2> QED BY <1>0, <2>1 DEF FilledInv, NoHarqIdLeak
<1>6. CASE EndOfSched \/ EndOfTx \/ Stopped \/ UNCHANGED vars
  BY <1>2, <1>6 DEF Moves, Stopped
<1>7. ASSUME NEW d \in Dsts, SchedDst(d)
      PROVE  FilledInv'
  BY <1>2, <1>3, <1>7 DEF SchedDst, Moves
<1> QED BY <1>1, <1>4, <1>5, <1>6, <1>7 DEF Next, Slot

(* While the applications keep every RLC queue filled, every reachable      *)
(* state satisfies FilledInv: a turn of DoNrSlSlotIndication finds data.    *)
THEOREM FilledInvariant == ASSUME SaturatedTraffic PROVE Spec => []FilledInv
<1>1. Init => FilledInv
  BY FilledInit
<1>2. FilledInv /\ [Next]_vars => FilledInv'
  BY FilledNext
<1> QED BY <1>1, <1>2, PTL DEF Spec

(* While queues are kept filled no HARQ id leaks: one that is not in the    *)
(* FIFO holds a TB.  (With a queue that runs empty ids do leak, an entry    *)
(* reset only by the feedback of a TB that was sent.)                       *)
THEOREM NoHarqIdLeakHolds == ASSUME SaturatedTraffic PROVE Spec => []NoHarqIdLeak
<1>1. FilledInv => NoHarqIdLeak
  BY DEF FilledInv
<1> QED BY <1>1, FilledInvariant, PTL

-----------------------------------------------------------------------------
(* An active grant has allocations for all that its counter promises.       *)

(* A fresh grant has exactly one allocation for each selected slot and each *)
(* of the cResel periods, more than the counter promises.                   *)
LEMMA CreateLasts ==
  ASSUME Saturated, NEW slots \in SUBSET (T1 .. T2), slots # {},
         NEW list \in SlotAllocLists(slots), NEW reselCounter \in ReselCounters
  PROVE  Lasts(CreateGrantInfo(list, reselCounter))
<1> DEFINE n == Len(list)
           cResel == reselCounter * CReselFactor
           allocs == SlotAllocations(list, cResel)
           g == CreateGrantInfo(list, reselCounter)
           At(k, i) == [sfn |-> list[k] + i * ResvPeriod, tx |-> k - 1]
           places == (1 .. n) \X (0 .. cResel - 1)
<1>1. /\ n \in Nat \ {0}
      /\ DOMAIN list = 1 .. n
      /\ \A k \in 1 .. n : list[k] \in Nat
  <2>1. T1 .. T2 \subseteq Nat
    BY MacAssumption
  <2> QED BY <2>1, SlotListLemma
<1>2. cResel \in Nat \ {0} /\ reselCounter \in Nat /\ reselCounter < cResel
  <2>1. reselCounter \in Nat /\ reselCounter >= 1 /\ CReselFactor \in Nat /\ CReselFactor >= 2
    BY MacAssumption DEF Saturated
  <2>2. cResel \in Nat /\ cResel >= reselCounter + reselCounter
    BY <2>1
  <2> HIDE DEF cResel
  <2> QED BY <2>1, <2>2
<1>3. /\ g.slotAllocations = allocs /\ g.nSelected = n /\ g.cReselCounter = cResel
      /\ g.slResoReselCounter = reselCounter
  BY DEF CreateGrantInfo
<1>4. Sound(g) /\ g \in NrSlGrantInfo
  BY CreateSound, CreateLemma
<1>5. \A k \in 1 .. n, i \in 0 .. cResel - 1 : At(k, i) \in allocs
  BY <1>1, SlotAllocationsLemma
<1>6. ASSUME NEW j \in 1 .. n, NEW k \in 1 .. n,
             NEW h \in 0 .. cResel - 1, NEW i \in 0 .. cResel - 1, At(j, h) = At(k, i)
      PROVE  j = k /\ h = i
  <2>1. j = k
    BY <1>1, <1>6
  <2>2. h \in Nat /\ i \in Nat /\ h * ResvPeriod \in Nat /\ i * ResvPeriod \in Nat
    BY <1>2, PeriodsGrow
  <2>3. list[j] + h * ResvPeriod <= list[k] + i * ResvPeriod
        /\ list[k] + i * ResvPeriod <= list[j] + h * ResvPeriod
    BY <1>1, <1>6, <2>2
  <2>4. (h < i \/ (h = i /\ j <= k)) /\ (i < h \/ (i = h /\ k <= j))
    BY <2>2, <2>3, PeriodsOrdered DEF n
  <2> QED BY <2>1, <2>2, <2>4
<1> HIDE DEF n, cResel, allocs, g
<1>7. Cardinality(places) = n * cResel /\ IsFiniteSet(places)
  <2>1. IsFiniteSet(1 .. n) /\ Cardinality(1 .. n) = n
    BY <1>1, FS_Interval
  <2>2. IsFiniteSet(0 .. cResel - 1) /\ Cardinality(0 .. cResel - 1) = cResel
    BY <1>2, FS_Interval
  <2>3. /\ IsFiniteSet(places)
        /\ Cardinality(places) = Cardinality(1 .. n) * Cardinality(0 .. cResel - 1)
    BY ONLY <2>1, <2>2, FS_Product, Zenon
  <2> QED BY ONLY <2>1, <2>2, <2>3, Zenon
<1>8. Cardinality(places) <= Cardinality(allocs)
  <2> DEFINE Is(a, p) == a = At(p[1], p[2])
             f == [a \in allocs |-> IF \E p \in places : Is(a, p)
                                    THEN CHOOSE p \in places : Is(a, p) ELSE <<1, 0>>]
  <2>1. ASSUME NEW p \in places
        PROVE  \E a \in allocs : f[a] = p
    <3> DEFINE a == At(p[1], p[2])
    <3>1. p[1] \in 1 .. n /\ p[2] \in 0 .. cResel - 1 /\ p = <<p[1], p[2]>>
      BY <2>1
    <3>2. a \in allocs
      BY <1>5, <3>1
    <3>3. Is(a, p)
      OBVIOUS
    <3>4. f[a] \in places /\ Is(a, f[a])
      <4>1. \E q \in places : Is(a, q)
        BY <2>1, <3>3
      <4> HIDE DEF Is, places, a
      <4>2. f[a] = CHOOSE q \in places : Is(a, q)
        BY <3>2, <4>1
      <4> QED BY <4>1, <4>2
    <3>5. f[a] = <<f[a][1], f[a][2]>> /\ f[a][1] \in 1 .. n /\ f[a][2] \in 0 .. cResel - 1
      <4> HIDE DEF f, a
      <4> QED BY <3>4
    <3>6. f[a][1] = p[1] /\ f[a][2] = p[2]
      <4>1. At(p[1], p[2]) = At(f[a][1], f[a][2])
        <5> HIDE DEF f
        <5> QED BY <3>4
      <4> HIDE DEF At, f, Is, a
      <4> QED BY <1>6, <3>1, <3>5, <4>1
    <3> QED BY <3>1, <3>2, <3>5, <3>6, ZenonT(60)
  <2>2. <<1, 0>> \in places
    BY <1>1, <1>2
  <2>3. f \in [allocs -> places]
    BY <2>2
  <2>4. IsFiniteSet(allocs)
    BY <1>3, <1>4 DEF Sound, Counted
  <2> HIDE DEF f, places
  <2> QED BY <2>1, <2>3, <2>4, ImageLemma, SMTT(60)
<1>9. allocs # {}
  <2>1. 1 \in 1 .. n /\ 0 \in 0 .. cResel - 1
    BY <1>1, <1>2
  <2> QED BY <1>5, <2>1
<1>10. ASSUME NEW a \in allocs
       PROVE  Cardinality(allocs) + a.tx >= cResel * n
  <2>1. a.tx \in Nat
    BY <1>3, <1>4 DEF NrSlGrantInfo, Alloc
  <2>2. Cardinality(allocs) \in Nat
    BY <1>3, <1>4, FS_CardinalityType DEF Sound, Counted
  <2> DEFINE size == n * cResel
  <2>3. size \in Nat /\ size = cResel * n
    BY <1>1, <1>2
  <2>4. size <= Cardinality(allocs)
    BY <1>7, <1>8
  <2> HIDE DEF size
  <2> QED BY <2>1, <2>2, <2>3, <2>4
<1> QED BY <1>2, <1>3, <1>9, <1>10 DEF Lasts, g

(* A slot passes and no allocation is past: none is lost.                   *)
LEMMA AdvanceLasts ==
  ASSUME NEW g \in NrSlGrantInfo, Ordered(g.slotAllocations, g.nSelected), Sound(g), Lasts(g),
         \A a \in g.slotAllocations : a.sfn > 0,
         NEW h \in NrSlGrantInfo, h.slotAllocations = Advance(g.slotAllocations),
         h.nSelected = g.nSelected, h.cReselCounter = g.cReselCounter,
         h.slResoReselCounter = g.slResoReselCounter
  PROVE  Lasts(h)
<1> DEFINE allocs == g.slotAllocations
           later == h.slotAllocations
           size == g.cReselCounter * g.nSelected
<1>1. allocs \in SUBSET Alloc /\ later \in SUBSET Alloc /\ size \in Int
  <2>1. g.cReselCounter \in Nat /\ g.nSelected \in Nat
    BY MaxUint16Type DEF NrSlGrantInfo
  <2> QED BY <2>1 DEF NrSlGrantInfo
<1>2. /\ Sound(h)
      /\ \A b \in later : IsNext(b, h) => \E a \in allocs : IsNext(a, g) /\ a.tx = b.tx
  BY AdvanceSound
<1>3. \A a \in allocs : /\ a.sfn \in Int /\ a.tx \in Nat /\ a = [sfn |-> a.sfn, tx |-> a.tx]
                        /\ [sfn |-> a.sfn - 1, tx |-> a.tx] \in later
  BY <1>1 DEF Alloc, Advance, Passed
<1>4. Cardinality(allocs) <= Cardinality(later)
  <2> DEFINE f == [b \in later |-> IF [sfn |-> b.sfn + 1, tx |-> b.tx] \in allocs
                                   THEN [sfn |-> b.sfn + 1, tx |-> b.tx]
                                   ELSE CHOOSE a \in allocs : TRUE]
  <2>1. ASSUME NEW a \in allocs
        PROVE  \E b \in later : f[b] = a
    <3> DEFINE b == [sfn |-> a.sfn - 1, tx |-> a.tx]
    <3>1. b \in later /\ [sfn |-> b.sfn + 1, tx |-> b.tx] = a
      BY <1>3
    <3> HIDE DEF b
    <3> QED BY <3>1
  <2>2. f \in [later -> allocs]
    <3>1. (CHOOSE a \in allocs : TRUE) \in allocs
      BY DEF Lasts
    <3> QED BY <3>1
  <2>3. IsFiniteSet(later)
    BY <1>2 DEF Sound, Counted
  <2> HIDE DEF f, allocs, later
  <2> QED BY <2>1, <2>2, <2>3, ImageLemma
<1>5. Cardinality(allocs) \in Nat /\ Cardinality(later) \in Nat
  BY <1>2, FS_CardinalityType DEF Sound, Counted
<1>6. ASSUME NEW b \in later, IsNext(b, h)
      PROVE  Cardinality(later) + b.tx >= size
  <2>1. PICK a \in allocs : IsNext(a, g) /\ a.tx = b.tx
    BY <1>2, <1>6
  <2>2. Cardinality(allocs) + a.tx >= size /\ a.tx \in Nat
    BY <1>3, <2>1 DEF Lasts
  <2> HIDE DEF size, allocs, later
  <2> QED BY <1>1, <1>4, <1>5, <2>1, <2>2
<1>7. later # {}
  BY <1>3 DEF Lasts
<1> QED BY <1>6, <1>7 DEF Lasts

(* The counters after a transmission that was not wasted, exactly.          *)
LEMMA UsedCounters ==
  ASSUME NEW g \in NrSlGrantInfo, NEW a, NEW n, NEW id
  PROVE  /\ Used(g, a, n, id).slResoReselCounter
              = IF n = g.nSelected THEN g.slResoReselCounter - 1 ELSE g.slResoReselCounter
         /\ Used(g, a, n, id).cReselCounter
              = IF n = g.nSelected THEN (g.cReselCounter - 1) % (MaxUint16 + 1)
                ELSE g.cReselCounter
BY DEF Used, NrSlGrantInfo

(* A transmission: the last one of a TB uses up the last of nSelected       *)
(* allocations, and both counters go down by one.                           *)
LEMMA UsedLasts ==
  ASSUME NEW g \in NrSlGrantInfo, Ordered(g.slotAllocations, g.nSelected), Sound(g), Lasts(g),
         g.slResoReselCounter >= 0,
         NEW a \in g.slotAllocations, IsFirst(a, g.slotAllocations), a.sfn = 0,
         NEW h, NEW id, AfterTx(g, h, a, a.tx + 1, id),
         h.slResoReselCounter = IF a.tx + 1 = g.nSelected THEN g.slResoReselCounter - 1
                                ELSE g.slResoReselCounter,
         h.cReselCounter = IF a.tx + 1 = g.nSelected THEN (g.cReselCounter - 1) % (MaxUint16 + 1)
                           ELSE g.cReselCounter,
         h.slResoReselCounter >= 0
  PROVE  Lasts(h)
<1> DEFINE allocs == g.slotAllocations
           rest == h.slotAllocations
           n == g.nSelected
           c == g.cReselCounter
           r == g.slResoReselCounter
           size == c * n
<1>1. /\ allocs \in SUBSET Alloc /\ n \in Nat /\ c \in 0 .. MaxUint16 /\ c \in Nat /\ r \in Int
      /\ \A b \in allocs : b.sfn \in Int /\ b.tx \in Nat
      /\ rest = allocs \ {a} /\ h \in NrSlGrantInfo /\ h.nSelected = n
      /\ size \in Nat
  <2>1. c \in Nat /\ n \in Nat
    BY MaxUint16Type DEF NrSlGrantInfo
  <2> QED BY <2>1 DEF NrSlGrantInfo, Alloc, AfterTx
<1>2. /\ Sound(h) /\ a.tx \in Nat /\ a.tx + 1 <= n
      /\ a.tx + 1 < n => /\ \E b \in rest : b.tx # 0
                         /\ \A b \in rest : IsNext(b, h) => b.tx # 0
  BY EraseSound DEF AfterTx
<1>3. /\ Cardinality(rest) = Cardinality(allocs) - 1
      /\ Cardinality(allocs) \in Nat /\ Cardinality(rest) \in Nat
  <2>1. IsFiniteSet(allocs) /\ IsFiniteSet(rest)
    BY <1>2 DEF Sound, Counted
  <2> QED BY <1>1, <2>1, FS_RemoveElement, FS_CardinalityType, SMTT(60)
<1>4. Cardinality(allocs) + a.tx >= size
  BY DEF Lasts, IsNext
<1>5. r < c /\ c >= 1
  <2>1. r < c
    BY DEF Lasts
  <2> QED BY <1>1, <2>1
<1>6. CASE a.tx + 1 = n
  <2>1. h.slResoReselCounter = r - 1 /\ h.cReselCounter = c - 1 /\ r >= 1 /\ c >= 2
    <3>1. h.slResoReselCounter = r - 1 /\ h.cReselCounter = (c - 1) % (MaxUint16 + 1)
      BY <1>6
    <3>2. r >= 1 /\ c >= 2
      BY <1>1, <1>5, <3>1
    <3>3. (c - 1) % (MaxUint16 + 1) = c - 1
      BY <1>1, <1>5, MaxUint16Type
    <3> QED BY <3>1, <3>2, <3>3
  <2>2. (c - 1) * n = size - n /\ (c - 1) * n >= n
    <3>1. (c - 1) * n = size - n
      BY <1>1
    <3>2. c - 1 \in Nat /\ c - 1 >= 1
      BY <1>1, <2>1
    <3>3. (c - 1) * n >= n
      <4> DEFINE k == c - 1
      <4>1. k \in Nat /\ k >= 1 /\ n \in Nat
        BY <1>1, <3>2
      <4> HIDE DEF k, n
      <4>2. k * n >= n
        BY <4>1
      <4> QED BY <4>2 DEF k
    <3> QED BY <3>1, <3>3
  <2>3. n \in Nat /\ n >= 1 /\ a.tx = n - 1 /\ size - n >= n
    BY <1>1, <1>2, <1>6, <2>2
  <2> DEFINE left == h.cReselCounter * h.nSelected
  <2>4. left = size - n
    BY <1>1, <2>1, <2>2
  <2> HIDE DEF size, n, left
  <2>5. Cardinality(rest) >= left /\ Cardinality(rest) >= 1
    BY <1>1, <1>3, <1>4, <2>3, <2>4
  <2>6. rest # {}
    <3> SUFFICES ASSUME rest = {} PROVE FALSE
      OBVIOUS
    <3>1. Cardinality({}) = 0
      BY FS_EmptySet
    <3> HIDE DEF rest
    <3> QED BY <2>5, <3>1
  <2>7. \A b \in rest : Cardinality(rest) + b.tx >= left
    <3>1. \A b \in rest : b.tx \in Nat
      BY <1>1
    <3>2. left \in Int
      BY <1>1, <2>3, <2>4
    <3> QED BY <1>3, <2>5, <3>1, <3>2
  <2>8. h.slResoReselCounter < h.cReselCounter
    BY <1>1, <1>5, <2>1
  <2> QED BY <2>6, <2>7, <2>8 DEF Lasts, left
<1>7. CASE a.tx + 1 # n
  <2>1. a.tx + 1 < n
    BY <1>1, <1>2, <1>7
  <2>2. h.slResoReselCounter = r /\ h.cReselCounter = c /\ h.cReselCounter * h.nSelected = size
    BY <1>1, <1>7
  <2>3. ASSUME NEW b \in rest, IsNext(b, h)
        PROVE  b.tx = a.tx + 1
    <3> DEFINE left == allocs \ {a}
    <3>1. \A e \in left : (IsFirst(e, left) /\ e.tx # 0) => e.tx = a.tx + 1
      BY <1>1, EraseLemma, ZenonT(60)
    <3>2. b.tx # 0
      BY <1>2, <2>1, <2>3
    <3> QED BY <1>1, <2>3, <3>1, <3>2 DEF IsNext
  <2>4. \A b \in rest : IsNext(b, h) => Cardinality(rest) + b.tx >= size
    <3> HIDE DEF size
    <3> QED BY <1>1, <1>2, <1>3, <1>4, <2>3
  <2>5. rest # {}
    BY <1>2, <2>1
  <2> QED BY <1>5, <2>2, <2>4, <2>5 DEF Lasts
<1> QED BY <1>6, <1>7

(* No draw keeps a grant when the probability is 0.                         *)
LEMMA NothingIsKept == ASSUME Saturated, NEW d \in Dsts PROVE ~Keep(d)
BY DEF Keep, MayKeep, Saturated

LEMMA ServedInit == Init => ServedInv
<1> SUFFICES ASSUME Init PROVE ServedInv
  OBVIOUS
<1>1. \A d \in Dsts : ~HasGrant(d)
  BY DEF Init, HasGrant
<1> QED BY <1>1, TimelyInit, FilledInit DEF ServedInv

LEMMA ServedFrame ==
  ASSUME ServedInv, TimelyInv', FilledInv', UNCHANGED <<granted, grantInfo>>
  PROVE  ServedInv'
BY DEF ServedInv, HasGrant

LEMMA ServedSlotIndication ==
  ASSUME ServedInv, TimelyInv', FilledInv', SlotIndication
  PROVE  ServedInv'
<1>1. TypeOK /\ TypeOK'
  BY DEF ServedInv, TimelyInv, ServiceInv, IInv
<1>2. SUFFICES ASSUME NEW d \in Dsts, HasGrant(d)' PROVE Lasts(grantInfo'[d])
  BY DEF ServedInv
<1> DEFINE g == grantInfo[d]
           h == grantInfo'[d]
<1>3. g \in NrSlGrantInfo /\ Ordered(g.slotAllocations, g.nSelected) /\ Sound(g)
  BY <1>1, GrantTypes DEF ServedInv, TimelyInv, ServiceInv, IInv
<1>4. h \in NrSlGrantInfo
  BY <1>1 DEF TypeOK
<1>5. /\ h.slotAllocations = Advance(g.slotAllocations)
      /\ h.nSelected = g.nSelected /\ h.cReselCounter = g.cReselCounter
      /\ h.slResoReselCounter = g.slResoReselCounter
  <2>1. h = [g EXCEPT !.slotAllocations = Advance(@)]
    BY DEF SlotIndication
  <2> HIDE DEF g, h
  <2> QED BY <1>3, <2>1 DEF NrSlGrantInfo
<1>6. granted' = granted /\ pc = "idle" /\ halted = "no"
  BY DEF SlotIndication, Idle
<1>7. Lasts(g)
  BY <1>2, <1>5, <1>6 DEF ServedInv, HasGrant
<1>8. \A a \in g.slotAllocations : a.sfn > 0
  BY <1>6 DEF ServedInv, TimelyInv, OnTime
<1> HIDE DEF g, h
<1>9. Lasts(h)
  BY <1>3, <1>4, <1>5, <1>7, <1>8, AdvanceLasts
<1> QED BY <1>9 DEF h

LEMMA ServedReselect ==
  ASSUME Saturated, ServedInv, TimelyInv', FilledInv', NEW d \in Dsts, Reselect(d)
  PROVE  ServedInv'
<1>0. TypeOK
  BY DEF ServedInv, TimelyInv, ServiceInv, IInv
<1>1. ~HasGrant(d)
  BY DEF Reselect
<1>2. PICK opps \in TxOpportunities :
        LET filtered == FilterTxOpportunities(opps, d)
        IN \/ /\ grantInfo' = [grantInfo EXCEPT ![d].slotAllocations = {}]
              /\ granted' = granted
           \/ /\ filtered # {}
              /\ \E reselCounter \in ReselCounters, list \in SlotAllocLists(filtered) :
                   grantInfo' = [grantInfo EXCEPT ![d] = CreateGrantInfo(list, reselCounter)]
              /\ granted' = granted \union {d}
  BY DEF Reselect, SchedUeNrSlConfigInd
<1> DEFINE filtered == FilterTxOpportunities(opps, d)
           Cleared ==
             /\ grantInfo' = [grantInfo EXCEPT ![d].slotAllocations = {}]
             /\ granted' = granted
           Created ==
             /\ filtered # {}
             /\ \E reselCounter \in ReselCounters, list \in SlotAllocLists(filtered) :
                  grantInfo' = [grantInfo EXCEPT ![d] = CreateGrantInfo(list, reselCounter)]
             /\ granted' = granted \union {d}
<1>3. Cleared \/ Created
  BY <1>2, Zenon
<1>4. filtered \in SUBSET (T1 .. T2)
  BY DEF FilterTxOpportunities, TxOpportunities, SelectionWindow
<1> HIDE DEF filtered
<1>5. PICK g :
        /\ grantInfo' = [grantInfo EXCEPT ![d] = g]
        /\ HasGrant(d)' => Lasts(g)
  <2>1. CASE Cleared
    <3> DEFINE g == [grantInfo[d] EXCEPT !.slotAllocations = {}]
    <3>1. grantInfo' = [grantInfo EXCEPT ![d] = g]
      BY <2>1
    <3>2. g.slResoReselCounter = grantInfo[d].slResoReselCounter
      BY <1>0, GrantTypes DEF NrSlGrantInfo
    <3> HIDE DEF g
    <3>3. ~HasGrant(d)'
      BY <1>0, <1>1, <2>1, <3>1, <3>2 DEF HasGrant, TypeOK
    <3> QED BY <3>1, <3>3
  <2>2. CASE Created
    <3>1. PICK reselCounter \in ReselCounters, list \in SlotAllocLists(filtered) :
            grantInfo' = [grantInfo EXCEPT ![d] = CreateGrantInfo(list, reselCounter)]
      BY <2>2
    <3>2. Lasts(CreateGrantInfo(list, reselCounter))
      BY <1>4, <2>2, CreateLasts
    <3> QED BY <3>1, <3>2
  <2> HIDE DEF Cleared, Created
  <2> QED BY <1>3, <2>1, <2>2
<1>6. ASSUME NEW e \in Dsts, HasGrant(e)'
      PROVE  Lasts(grantInfo'[e])
  <2>1. CASE e = d
    BY <1>0, <1>5, <1>6, <2>1 DEF TypeOK
  <2>2. CASE e # d
    <3>1. grantInfo'[e] = grantInfo[e] /\ (e \in granted' => e \in granted)
      BY <1>0, <1>3, <1>5, <2>2 DEF TypeOK
    <3> QED BY <1>6, <3>1 DEF ServedInv, HasGrant
  <2> QED BY <2>1, <2>2
<1> QED BY <1>6 DEF ServedInv

LEMMA ServedTurn ==
  ASSUME ServedInv, TimelyInv', FilledInv', NEW d \in Dsts,
         NEW a \in grantInfo[d].slotAllocations, NEW id \in HarqIds, Sends(d, a, id)
  PROVE  ServedInv'
<1> DEFINE old == grantInfo[d]
           g == Used(old, a, a.tx + 1, id)
<1>0. TypeOK
  BY DEF ServedInv, TimelyInv, ServiceInv, IInv
<1>1. /\ HasGrant(d) /\ granted' = granted
      /\ IsFirst(a, old.slotAllocations) /\ a.sfn = 0
      /\ grantInfo' = [grantInfo EXCEPT ![d] = g]
      /\ AfterTx(old, g, a, a.tx + 1, id)
  BY DEF Sends, Turn
<1>2. /\ old \in NrSlGrantInfo /\ Ordered(old.slotAllocations, old.nSelected) /\ Sound(old)
      /\ Lasts(old) /\ a \in old.slotAllocations
      /\ old.slResoReselCounter >= 0
  BY <1>0, <1>1, GrantTypes DEF ServedInv, TimelyInv, ServiceInv, IInv, HasGrant
<1> HIDE DEF old
<1>3. /\ g.slResoReselCounter = IF a.tx + 1 = old.nSelected THEN old.slResoReselCounter - 1
                                ELSE old.slResoReselCounter
      /\ g.cReselCounter = IF a.tx + 1 = old.nSelected
                           THEN (old.cReselCounter - 1) % (MaxUint16 + 1)
                           ELSE old.cReselCounter
  <2> DEFINE n == a.tx + 1
  <2> HIDE DEF n
  <2>1. /\ Used(old, a, n, id).slResoReselCounter
              = IF n = old.nSelected THEN old.slResoReselCounter - 1 ELSE old.slResoReselCounter
        /\ Used(old, a, n, id).cReselCounter
              = IF n = old.nSelected THEN (old.cReselCounter - 1) % (MaxUint16 + 1)
                ELSE old.cReselCounter
    BY <1>2, UsedCounters
  <2> QED BY <2>1 DEF n
<1> HIDE DEF g
<1>4. /\ grantInfo'[d] = g
      /\ \A e \in Dsts \ {d} : grantInfo'[e] = grantInfo[e]
  BY <1>0, <1>1 DEF TypeOK
<1>5. HasGrant(d)' => Lasts(g)
  <2> SUFFICES ASSUME g.slResoReselCounter >= 0 PROVE Lasts(g)
    BY <1>4 DEF HasGrant
  <2> QED BY <1>1, <1>2, <1>3, UsedLasts
<1>6. \A e \in Dsts : HasGrant(e)' => Lasts(grantInfo'[e])
  BY <1>1, <1>4, <1>5 DEF ServedInv, HasGrant
<1> QED BY <1>6 DEF ServedInv

LEMMA ServedNext ==
  PeriodFitsPool /\ Saturated /\ ServedInv /\ [Next]_vars => ServedInv'
<1> SUFFICES ASSUME PeriodFitsPool, Saturated, ServedInv, [Next]_vars PROVE ServedInv'
  OBVIOUS
<1>0. /\ IInv /\ FilledInv /\ TimelyInv' /\ FilledInv'
  BY TimelyNext, FilledNext DEF ServedInv, Saturated, TimelyInv, ServiceInv
<1>1. CASE SlotIndication
  BY <1>0, <1>1, ServedSlotIndication
<1>2. ASSUME Moves
      PROVE  ServedInv'
  <2>1. UNCHANGED <<granted, grantInfo>>
    BY <1>2 DEF Moves, EndOfSched, EndOfTx, SkipDst, NoTxNow, ReadEmptyGrant, NoHarqProcess,
                SchedTurn, TxTurn, TxNow, macVars, rlcVars, vars
  <2> QED BY <1>0, <2>1, ServedFrame
<1>3. ASSUME NEW d \in Dsts, SchedDst(d)
      PROVE  ServedInv'
  BY <1>0, <1>2, <1>3, NothingIsKept, ServedReselect DEF SchedDst, Moves
<1>4. ASSUME NEW d \in Dsts, TxGrant(d)
      PROVE  ServedInv'
  <2>1. CASE \E a \in grantInfo[d].slotAllocations, id \in HarqIds :
               Sends(d, a, id) \/ Skips(d, a, id)
    BY <1>0, <2>1, ServedTurn, FilledNeverSkips
  <2> QED BY <1>0, <1>2, <1>4, <2>1, TxGrantCases
<1>5. ASSUME NEW d \in Dsts, UpperLayer(d)
      PROVE  ServedInv'
  BY <1>0, <1>5, ServedFrame DEF UpperLayer, TransmitNrSlPdcpPdu, ExpireNrSlRbsTimer, macVars
<1>6. CASE EndOfSched \/ EndOfTx \/ Stopped \/ UNCHANGED vars
  BY <1>2, <1>6 DEF Moves, Stopped
<1> QED BY <1>1, <1>3, <1>4, <1>5, <1>6 DEF Next, Slot

(* In a saturated scenario that keeps no grant every reachable state        *)
(* satisfies ServedInv: an active grant has allocations for all the TBs its *)
(* counter promises.                                                        *)
THEOREM ServedInvariant == ASSUME PeriodFitsPool, Saturated PROVE Spec => []ServedInv
<1>1. Init => ServedInv
  BY ServedInit
<1>2. ServedInv /\ [Next]_vars => ServedInv'
  BY ServedNext
<1> QED BY <1>1, <1>2, PTL DEF Spec

(* Then a counter that is not negative means that resources are assigned,   *)
(* as nr-ue-mac.cc:1750-1752 has it: begin () of an empty set is not read.  *)
THEOREM CounterMeansResourcesHolds ==
  ASSUME PeriodFitsPool, Saturated
  PROVE  Spec => []CounterMeansResources
<1>1. ServedInv => CounterMeansResources
  BY DEF ServedInv, Lasts, CounterMeansResources
<1> QED BY <1>1, ServedInvariant, PTL

-----------------------------------------------------------------------------
(* Nothing stops the program.                                               *)

(* Without a free id every process holds a TB, each of another destination  *)
(* with retransmissions ahead; d, about to start a TB, is one more.         *)
LEMMA AProcessIsFree ==
  ASSUME FilledInv, EnoughProcesses, NEW d \in Dsts,
         NEW a \in grantInfo[d].slotAllocations, IsNext(a, grantInfo[d]), a.tx = 0
  PROVE  harq.ids # <<>>
<1> SUFFICES ASSUME harq.ids = <<>> PROVE FALSE
  OBVIOUS
<1> DEFINE others == Dsts \ {d}
           f == [e \in others |-> IF grantInfo[e].nrSlHarqId \in HarqIds
                                  THEN grantInfo[e].nrSlHarqId ELSE 0]
<1>1. ASSUME NEW id \in HarqIds
      PROVE  \E e \in others : f[e] = id
  <2>1. ~IsHarqIdAvailable(harq, id)
    BY DEF IsHarqIdAvailable
  <2>2. harq.pkt[id].full
    BY <2>1 DEF FilledInv, NoHarqIdLeak
  <2>3. PICK e \in Dsts : Retransmits(e, id)
    BY <2>2 DEF FilledInv, ServiceInv
  <2>4. e # d /\ grantInfo[e].nrSlHarqId = id
    BY <2>3 DEF Retransmits
  <2> QED BY <2>4
<1>2. /\ NumSidelinkProcess \in Nat /\ NumSidelinkProcess >= 1
      /\ IsFiniteSet(HarqIds) /\ Cardinality(HarqIds) = NumSidelinkProcess
      /\ 0 \in HarqIds
  <2>1. NumSidelinkProcess \in Nat /\ NumSidelinkProcess >= 1
    BY HarqAssumption
  <2> QED BY <2>1, FS_Interval DEF HarqIds
<1>3. f \in [others -> HarqIds]
  BY <1>2
<1>4. /\ IsFiniteSet(others) /\ Cardinality(others) = Cardinality(Dsts) - 1
      /\ Cardinality(Dsts) \in Nat
  BY FS_RemoveElement, FS_CardinalityType DEF EnoughProcesses
<1> HIDE DEF f, others
<1>5. Cardinality(HarqIds) <= Cardinality(others)
  BY <1>1, <1>3, <1>4, ImageLemma
<1> QED BY <1>2, <1>4, <1>5 DEF EnoughProcesses

LEMMA NeverStopsNext ==
  ASSUME Saturated, EnoughProcesses, ServedInv, NeverStops, [Next]_vars
  PROVE  NeverStops'
<1>0. IInv /\ FilledInv
  BY DEF ServedInv, TimelyInv, ServiceInv
<1>1. CASE SlotIndication \/ EndOfSched \/ EndOfTx \/ Stopped \/ UNCHANGED vars
  BY <1>1 DEF SlotIndication, EndOfSched, EndOfTx, Stopped, vars, NeverStops
<1>2. ASSUME NEW d \in Dsts, SchedDst(d)
      PROVE  NeverStops'
  <2>1. CASE SkipDst(d)
    BY <2>1 DEF SkipDst, NeverStops
  <2>2. CASE Reselect(d)
    BY <2>2 DEF Reselect, SchedUeNrSlConfigInd, EnoughProcesses, NeverStops
  <2> QED BY <1>2, <2>1, <2>2, NothingIsKept DEF SchedDst
<1>3. ASSUME NEW d \in Dsts, NEW a \in grantInfo[d].slotAllocations, NEW id \in HarqIds,
             Sends(d, a, id) \/ Skips(d, a, id)
      PROVE  NeverStops'
  BY <1>3, Zenon DEF Sends, Skips, Turn, NeverStops
<1>4. ASSUME NEW d \in Dsts, TxGrant(d)
      PROVE  NeverStops'
  <2>1. CASE NoTxNow(d)
    BY <2>1 DEF NoTxNow, NeverStops
  <2>2. CASE ReadEmptyGrant(d)
    BY <2>2 DEF ReadEmptyGrant, ServedInv, Lasts
  <2>3. CASE NoHarqProcess(d)
    <3>1. PICK a \in grantInfo[d].slotAllocations : TxNow(d, a) /\ a.tx = 0
      BY <2>3 DEF NoHarqProcess
    <3>2. IsNext(a, grantInfo[d]) /\ harq.ids = <<>>
      BY <2>3, <3>1 DEF NoHarqProcess, TxNow, IsNext
    <3> QED BY <1>0, <3>1, <3>2, AProcessIsFree
  <2>4. CASE NewTx(d)
    BY <1>0, <1>3, <2>4, NewTxSends
  <2>5. CASE NewTxWasted(d)
    BY <1>0, <1>3, <2>5, NewTxWastedSkips
  <2>6. CASE ReTx(d)
    BY <1>0, <1>3, <2>6, ReTxSendsOrSkips
  <2> QED BY <1>4, <2>1, <2>2, <2>3, <2>4, <2>5, <2>6 DEF TxGrant
<1>5. ASSUME NEW d \in Dsts, UpperLayer(d)
      PROVE  NeverStops'
  BY <1>5 DEF UpperLayer, TransmitNrSlPdcpPdu, ExpireNrSlRbsTimer, NeverStops
<1> QED BY <1>1, <1>2, <1>4, <1>5 DEF Next, Slot

(* With a HARQ process for each destination nothing stops the program, for  *)
(* any number of destinations: the one test for a free process before the   *)
(* loops is enough for every new TB sent in the slot.                       *)
THEOREM NeverStopsHolds ==
  ASSUME PeriodFitsPool, Saturated, EnoughProcesses
  PROVE  Spec => []NeverStops
<1>1. Init => NeverStops
  BY DEF Init, NeverStops
<1>2. ServedInv /\ NeverStops /\ [Next]_vars => NeverStops'
  BY NeverStopsNext
<1> QED BY <1>1, <1>2, ServedInvariant, PTL DEF Spec

-----------------------------------------------------------------------------
(* The service with its times.                                              *)

LEMMA LessWellFounded == IsWellFoundedOn({ss \in Nat \X Nat : ss[1] < ss[2]}, Nat)
BY NatLessThanWellFounded DEF OpToRel

(* Induction on numbers: a set of them that is not empty has a least one.   *)
LEMMA LeastNumber ==
  ASSUME NEW S \in SUBSET Nat, S # {}
  PROVE  \E x \in S : \A y \in S : x <= y
<1> DEFINE R == {ss \in Nat \X Nat : ss[1] < ss[2]}
<1>1. PICK x \in S : \A y \in S : ~(<<y, x>> \in R)
  <2>1. IsWellFoundedOn(R, Nat)
    BY LessWellFounded
  <2> HIDE DEF R
  <2> QED BY <2>1, WFMin
<1>2. \A y \in S : ~(y < x)
  BY <1>1
<1> QED BY <1>2

(* Numbered from 1 to the last, in the order of their slots.                *)
Numbered(left, n) ==
  /\ \A b \in left : b.sfn \in Int /\ b.sfn > 0 /\ b.tx \in Nat /\ b.tx > 0 /\ b.tx < n
  /\ \A b, c \in left : b.sfn < c.sfn => b.tx < c.tx
  /\ \A j \in Nat : 0 < j /\ j < n => \E b \in left : b.tx = j

(* When a TB starts, the transmissions ahead of it are so.                  *)
LEMMA AheadNumbered ==
  ASSUME NEW allocs \in SUBSET Alloc, NEW n \in Nat, Ordered(allocs, n), Followed(allocs, n),
         NEW a \in allocs, IsFirst(a, allocs), a.sfn = 0, a.tx = 0,
         NEW left, left = BeforeNextTb(allocs \ {a})
  PROVE  Numbered(left, n)
<1>1. \A b \in allocs : b.sfn \in Int /\ b.tx \in Nat /\ b.tx < n
  BY DEF Alloc, Ordered, TxInRange
<1>2. \A b \in allocs \ {a} : b.sfn > 0
  BY EraseLemma
<1>3. /\ left \subseteq allocs \ {a}
      /\ \A b \in left, c \in allocs \ {a} : c.tx = 0 => b.sfn < c.sfn
  BY DEF BeforeNextTb
<1>4. ASSUME NEW b \in left
      PROVE  /\ b \in allocs /\ b \in allocs \ {a}
             /\ b.sfn \in Int /\ b.sfn > 0
             /\ b.tx \in Nat /\ b.tx > 0 /\ b.tx < n
  <2>1. b \in allocs \ {a} /\ b \in allocs
    BY <1>3
  <2>2. b.sfn \in Int /\ b.tx \in Nat /\ b.tx < n /\ b.sfn > 0
    BY <1>1, <1>2, <2>1
  <2>3. b.tx # 0
    <3>1. ~(b.sfn < b.sfn)
      BY <2>2
    <3> QED BY <1>3, <2>1, <3>1
  <2> QED BY <2>1, <2>2, <2>3
<1>5. ASSUME NEW b, b \in left \/ b = a, b.tx + 1 < n
      PROVE  \E c \in left : c.tx = b.tx + 1
  <2>1. b \in allocs /\ b.sfn \in Int /\ 0 <= b.sfn
    <3>1. CASE b = a
      <4>1. a.sfn \in Int /\ 0 <= a.sfn
        OBVIOUS
      <4> QED BY <3>1, <4>1
    <3>2. CASE b \in left
      BY <1>4, <3>2
    <3> QED BY <1>5, <3>1, <3>2
  <2>2. PICK c \in allocs :
          /\ c.tx = b.tx + 1 /\ b.sfn < c.sfn
          /\ ~\E e \in allocs : b.sfn < e.sfn /\ e.sfn < c.sfn
    BY <1>5, <2>1 DEF Followed
  <2>3. c \in allocs \ {a} /\ c.tx # 0
    BY <1>1, <2>1, <2>2
  <2>4. ASSUME NEW e \in allocs \ {a}, e.tx = 0
        PROVE  c.sfn < e.sfn
    <3>1. b.sfn < e.sfn
      BY <1>2, <1>3, <1>5, <2>4
    <3>2. c.sfn # e.sfn
      <4>1. e.sfn >= 0 /\ e.sfn \in Int /\ e # c
        BY <1>1, <1>2, <2>3, <2>4
      <4> QED BY <4>1, <2>3, <2>4 DEF Ordered, SlotsDistinct
    <3> QED BY <1>1, <2>2, <3>1, <3>2
  <2>5. c \in left
    BY <2>3, <2>4 DEF BeforeNextTb
  <2> QED BY <2>2, <2>5
<1>6. \A j \in Nat : 0 < j /\ j < n => \E b \in left : b.tx = j
  <2> DEFINE S == {j \in Nat : 0 < j /\ j < n /\ ~\E b \in left : b.tx = j}
  <2>1. \A j : j \in S <=> j \in Nat /\ 0 < j /\ j < n /\ ~\E b \in left : b.tx = j
    OBVIOUS
  <2> HIDE DEF S
  <2> SUFFICES ASSUME S # {} PROVE FALSE
    BY <2>1
  <2>2. PICK j \in S : \A k \in S : j <= k
    <3>1. S \in SUBSET Nat
      BY <2>1
    <3> QED BY <3>1, LeastNumber
  <2>3. j \in Nat /\ 0 < j /\ j < n /\ ~\E b \in left : b.tx = j
    BY <2>1
  <2>4. PICK b : (b \in left \/ b = a) /\ b.tx = j - 1
    <3>1. CASE j = 1
      BY <3>1
    <3>2. CASE j # 1
      <4>1. j - 1 \in Nat /\ 0 < j - 1 /\ j - 1 < n /\ ~(j <= j - 1)
        BY <2>3, <3>2
      <4>2. j - 1 \notin S
        BY <2>2, <4>1
      <4>3. \E b \in left : b.tx = j - 1
        BY <2>1, <4>1, <4>2
      <4> QED BY <4>3
    <3> QED BY <3>1, <3>2
  <2>5. b.tx + 1 = j /\ b.tx + 1 < n
    BY <2>3, <2>4
  <2>6. \E c \in left : c.tx = b.tx + 1
    BY <1>5, <2>4, <2>5
  <2> QED BY <2>3, <2>5, <2>6
<1>7. ASSUME NEW b \in left, NEW c \in left, b.sfn < c.sfn, ~(b.tx < c.tx)
      PROVE  FALSE
  <2>0. b.sfn \in Int /\ b.sfn > 0 /\ c.sfn \in Int /\ c.sfn > 0 /\ b.tx \in Nat
    BY <1>4
  <2> DEFINE Bad(e) == b.sfn < e.sfn /\ ~(b.tx < e.tx)
             S == {s \in Nat : \E e \in left : e.sfn = s /\ Bad(e)}
  <2>1. \A s : s \in S <=> s \in Nat /\ \E e \in left : e.sfn = s /\ Bad(e)
    OBVIOUS
  <2> HIDE DEF S
  <2>2. PICK s \in S : \A t \in S : s <= t
    <3>1. c.sfn \in Nat /\ Bad(c)
      BY <1>7, <2>0
    <3>2. c.sfn \in S
      BY <2>1, <3>1
    <3>3. S \in SUBSET Nat
      BY <2>1
    <3> QED BY <3>2, <3>3, LeastNumber
  <2>3. PICK e \in left : e.sfn = s /\ b.sfn < e.sfn /\ ~(b.tx < e.tx)
    BY <2>1
  <2>4. e.sfn \in Int /\ e.tx \in Nat /\ e.sfn > 0
    BY <1>4
  <2>5. \A p \in left : b.sfn < p.sfn /\ p.sfn < e.sfn => b.tx < p.tx
    <3> SUFFICES ASSUME NEW p \in left, b.sfn < p.sfn, p.sfn < e.sfn, ~(b.tx < p.tx)
                 PROVE  FALSE
      OBVIOUS
    <3>1. p.sfn \in Nat /\ p.sfn \in Int
      BY <1>4, SMTT(60)
    <3>2. p.sfn \in S
      BY <2>1, <3>1
    <3> QED BY <2>2, <2>3, <2>4, <3>1, <3>2
  <2> DEFINE Between(p) == b.sfn <= p.sfn /\ p.sfn < e.sfn
             G == {k \in Nat : \E p \in left : k = e.sfn - p.sfn /\ Between(p)}
  <2>6. \A k : k \in G <=> k \in Nat /\ \E p \in left : k = e.sfn - p.sfn /\ Between(p)
    OBVIOUS
  <2> HIDE DEF G
  <2>7. PICK k \in G : \A m \in G : k <= m
    <3>1. e.sfn - b.sfn \in Nat /\ Between(b)
      BY <2>0, <2>3, <2>4
    <3>2. e.sfn - b.sfn \in G
      BY <2>6, <3>1
    <3>3. G \in SUBSET Nat
      BY <2>6
    <3> QED BY <3>2, <3>3, LeastNumber
  <2>8. PICK p \in left : k = e.sfn - p.sfn /\ b.sfn <= p.sfn /\ p.sfn < e.sfn
    BY <2>6
  <2>9. p.sfn \in Int /\ p.tx \in Nat /\ p \in allocs /\ 0 <= p.sfn
    BY <1>4
  <2>10. ASSUME NEW q \in allocs, p.sfn < q.sfn, q.sfn < e.sfn
         PROVE  FALSE
    <3>1. q \in allocs \ {a} /\ q.sfn \in Int
      BY <1>1, <2>9, <2>10
    <3>2. ASSUME NEW f \in allocs \ {a}, f.tx = 0
          PROVE  q.sfn < f.sfn
      <4>1. e.sfn < f.sfn /\ f.sfn \in Int
        BY <1>1, <1>3, <3>2
      <4> QED BY <2>4, <2>10, <3>1, <4>1
    <3>3. q \in left
      BY <3>1, <3>2 DEF BeforeNextTb
    <3>4. e.sfn - q.sfn \in Nat /\ Between(q) /\ ~(k <= e.sfn - q.sfn)
      BY <2>0, <2>4, <2>8, <2>9, <2>10, <3>1
    <3>5. e.sfn - q.sfn \in G
      BY <2>6, <3>3, <3>4
    <3> QED BY <2>7, <3>4, <3>5
  <2>11. e.tx = p.tx + 1
    <3>1. e \in allocs /\ e.tx # 0
      BY <1>4
    <3> QED BY <2>8, <2>9, <2>10, <3>1 DEF Ordered, InSequence
  <2>12. CASE p.sfn = b.sfn
    <3>1. p = b
      BY <1>4, <2>9, <2>12 DEF Ordered, SlotsDistinct
    <3> QED BY <2>0, <2>3, <2>4, <2>11, <3>1
  <2>13. CASE p.sfn # b.sfn
    <3>1. b.sfn < p.sfn
      BY <2>0, <2>8, <2>9, <2>13
    <3>2. b.tx < p.tx
      BY <2>5, <2>8, <3>1
    <3> QED BY <2>0, <2>3, <2>4, <2>9, <2>11, <3>2
  <2> QED BY <2>12, <2>13
<1> QED BY <1>4, <1>6, <1>7 DEF Numbered

(* So the slots ahead are as many as there are transmissions but the first. *)
LEMMA AheadCount ==
  ASSUME NEW allocs \in SUBSET Alloc, NEW n \in Nat, Ordered(allocs, n), Followed(allocs, n),
         NEW a \in allocs, IsFirst(a, allocs), a.sfn = 0, a.tx = 0,
         NEW left, left = BeforeNextTb(allocs \ {a})
  PROVE  Cardinality({b.sfn : b \in left}) = n - 1
<1>1. /\ \A b \in left : b.sfn \in Int /\ b.sfn > 0 /\ b.tx \in Nat /\ b.tx > 0 /\ b.tx < n
      /\ \A b, c \in left : b.sfn < c.sfn => b.tx < c.tx
      /\ \A j \in Nat : 0 < j /\ j < n => \E b \in left : b.tx = j
  <2>1. Numbered(left, n)
    BY AheadNumbered
  <2> QED BY <2>1 DEF Numbered
<1>2. \A b, c \in left : b.sfn = c.sfn => b = c
  <2>1. \A b \in left : b \in allocs /\ b.sfn >= 0
    BY <1>1 DEF BeforeNextTb
  <2> QED BY <2>1 DEF Ordered, SlotsDistinct
<1>3. \A b, c \in left : b.tx = c.tx => b.sfn = c.sfn
  BY <1>1, SMTT(60)
<1>4. a.tx < n
  BY DEF Ordered, TxInRange
<1> DEFINE S == {b.sfn : b \in left}
           T == 1 .. n - 1
           f == [j \in T |-> CHOOSE s \in S : \E b \in left : b.sfn = s /\ b.tx = j]
<1>5. IsFiniteSet(T) /\ Cardinality(T) = n - 1
  <2>1. a.tx \in Nat
    BY DEF Alloc
  <2>2. 1 \in Int /\ n - 1 \in Int /\ 1 <= n
    BY ONLY n \in Nat, <1>4, <2>1
  <2>3. IsFiniteSet(T) /\ Cardinality(T) = IF 1 > n - 1 THEN 0 ELSE (n - 1) - 1 + 1
    BY ONLY <2>2, FS_Interval, Zenon
  <2> HIDE DEF T
  <2> QED BY ONLY n \in Nat, <2>2, <2>3
<1>6. \A j \in T : j \in Nat /\ 0 < j /\ j < n
  BY <1>4
<1>7. ASSUME NEW b \in left
      PROVE  b.tx \in T /\ b.sfn \in S
  <2>1. b.tx \in Nat /\ b.tx > 0 /\ b.tx < n
    BY <1>1
  <2>2. b.tx \in T
    BY <2>1
  <2> QED BY <2>2
<1>8. \A s \in S : \E b \in left : b.sfn = s
  OBVIOUS
<1> HIDE DEF S, T
<1>9. ASSUME NEW j \in T
      PROVE  f[j] \in S /\ \E b \in left : b.sfn = f[j] /\ b.tx = j
  <2>1. \E s \in S : \E b \in left : b.sfn = s /\ b.tx = j
    BY <1>1, <1>6, <1>7
  <2> QED BY <2>1
<1>10. f \in [T -> S]
  BY <1>9
<1> HIDE DEF f
<1>11. ASSUME NEW s \in S
       PROVE  \E j \in T : f[j] = s
  <2>1. PICK b \in left : b.sfn = s
    BY <1>8
  <2>2. f[b.tx] = s /\ b.tx \in T
    BY <1>3, <1>7, <1>9, <2>1, ZenonT(60)
  <2> QED BY <2>2
<1>12. ASSUME NEW j \in T, NEW k \in T, f[j] = f[k]
       PROVE  j = k
  <2>1. PICK b \in left : b.sfn = f[j] /\ b.tx = j
    BY <1>9
  <2>2. PICK c \in left : c.sfn = f[k] /\ c.tx = k
    BY <1>9
  <2>3. b = c
    BY ONLY <1>2, <1>12, <2>1, <2>2, Zenon
  <2> QED BY ONLY <2>1, <2>2, <2>3, Zenon
<1>13. ExistsBijection(T, S)
  <2>1. f \in Bijection(T, S)
    BY <1>10, <1>11, <1>12 DEF Bijection, Injection, IsInjective, Surjection
  <2> QED BY <2>1 DEF ExistsBijection
<1>14. Cardinality(S) = Cardinality(T)
  BY <1>5, <1>13, FS_Bijection
<1> QED BY <1>5, <1>14 DEF S

(* Using an allocation of a retransmission takes its slot off those ahead,  *)
(* and the last one leaves none.                                            *)
LEMMA AheadErase ==
  ASSUME NEW allocs \in SUBSET Alloc, NEW n \in Nat, Ordered(allocs, n),
         NEW a \in allocs, IsFirst(a, allocs), a.sfn = 0, a.tx # 0
  PROVE  /\ a \in BeforeNextTb(allocs)
         /\ BeforeNextTb(allocs \ {a}) = BeforeNextTb(allocs) \ {a}
         /\ a.tx + 1 = n => BeforeNextTb(allocs) = {a}
<1>1. \A b \in allocs : b.sfn \in Int /\ b.tx \in Nat
  BY DEF Alloc
<1>2. /\ \A b \in allocs \ {a} : b.sfn > 0
      /\ \A b \in allocs \ {a} :
           (IsFirst(b, allocs \ {a}) /\ b.tx # 0) => b.tx = a.tx + 1 /\ b.tx < n
  BY EraseLemma
<1>3. a \in BeforeNextTb(allocs)
  <2>1. \A b \in allocs : b.tx = 0 => a.sfn < b.sfn
    BY <1>2
  <2> QED BY <2>1 DEF BeforeNextTb
<1>4. BeforeNextTb(allocs \ {a}) = BeforeNextTb(allocs) \ {a}
  BY DEF BeforeNextTb
<1>5. ASSUME a.tx + 1 = n, NEW b \in BeforeNextTb(allocs) \ {a}
      PROVE  FALSE
  <2> DEFINE S == {c.sfn : c \in allocs \ {a}}
  <2>1. b \in allocs \ {a} /\ \A c \in allocs : c.tx = 0 => b.sfn < c.sfn
    BY <1>5 DEF BeforeNextTb
  <2>2. S \in SUBSET Nat /\ S # {}
    BY <1>1, <1>2, <2>1
  <2>3. PICK s \in S : \A t \in S : s <= t
    <3> HIDE DEF S
    <3> QED BY <2>2, LeastNumber
  <2>4. PICK m \in allocs \ {a} : m.sfn = s
    BY <2>3
  <2>5. \A c \in allocs \ {a} : m.sfn <= c.sfn
    BY <2>3, <2>4
  <2>6. IsFirst(m, allocs \ {a})
    BY <2>4, <2>5 DEF IsFirst
  <2>7. m.tx # 0
    <3>1. ~(b.sfn < m.sfn)
      BY <1>1, <2>1, <2>4, <2>5
    <3> QED BY <2>1, <2>4, <3>1
  <2>8. m.tx = a.tx + 1 /\ m.tx < n
    BY <1>2, <2>4, <2>6, <2>7
  <2> QED BY <1>5, <2>8
<1> QED BY <1>3, <1>4, <1>5

(* A slot that passes brings what is ahead one slot closer.                 *)
LEMMA AheadAdvance ==
  ASSUME NEW allocs \in SUBSET Alloc, \A a \in allocs : a.sfn > 0
  PROVE  {b.sfn : b \in BeforeNextTb(Advance(allocs))}
           = {s - 1 : s \in {a.sfn : a \in BeforeNextTb(allocs)}}
<1> DEFINE later(a) == [sfn |-> a.sfn - 1, tx |-> a.tx]
<1>1. \A a \in allocs : a.sfn \in Int /\ Passed(a.sfn) = a.sfn - 1
  BY DEF Alloc, Passed
<1>2. /\ \A a \in allocs : later(a) \in Advance(allocs)
      /\ \A b \in Advance(allocs) : \E a \in allocs : b = later(a)
  BY <1>1 DEF Advance
<1>3. ASSUME NEW a \in allocs
      PROVE  later(a) \in BeforeNextTb(Advance(allocs)) <=> a \in BeforeNextTb(allocs)
  <2>1. ASSUME a \in BeforeNextTb(allocs), NEW b \in Advance(allocs), b.tx = 0
        PROVE  later(a).sfn < b.sfn
    <3>1. PICK c \in allocs : b = later(c)
      BY <1>2
    <3>2. a.sfn < c.sfn
      BY <2>1, <3>1 DEF BeforeNextTb
    <3> QED BY <1>1, <3>1, <3>2
  <2>2. ASSUME later(a) \in BeforeNextTb(Advance(allocs)), NEW c \in allocs, c.tx = 0
        PROVE  a.sfn < c.sfn
    <3>1. later(a).sfn < later(c).sfn
      <4>1. later(c) \in Advance(allocs) /\ later(c).tx = 0
        BY <1>2, <2>2
      <4> HIDE DEF later
      <4> QED BY <2>2, <4>1 DEF BeforeNextTb
    <3> QED BY <1>1, <3>1
  <2>3. later(a) \in Advance(allocs)
    BY <1>2
  <2> HIDE DEF later
  <2> QED BY <2>1, <2>2, <2>3 DEF BeforeNextTb
<1>4. ASSUME NEW s \in {b.sfn : b \in BeforeNextTb(Advance(allocs))}
      PROVE  \E a \in BeforeNextTb(allocs) : s = a.sfn - 1
  <2>1. PICK b \in BeforeNextTb(Advance(allocs)) : b.sfn = s
    OBVIOUS
  <2>2. b \in Advance(allocs)
    BY DEF BeforeNextTb
  <2>3. PICK a \in allocs : b = later(a)
    BY <1>2, <2>2
  <2>4. a \in BeforeNextTb(allocs)
    BY <1>3, <2>3
  <2> QED BY <2>1, <2>3, <2>4
<1>5. ASSUME NEW a \in BeforeNextTb(allocs)
      PROVE  \E b \in BeforeNextTb(Advance(allocs)) : b.sfn = a.sfn - 1
  <2>1. a \in allocs
    BY DEF BeforeNextTb
  <2>2. later(a) \in BeforeNextTb(Advance(allocs)) /\ later(a).sfn = a.sfn - 1
    BY <1>3, <2>1
  <2> HIDE DEF later
  <2> QED BY <2>2
<1> QED BY <1>4, <1>5

(* Whether a TB is on the air can be told from what is mapped.              *)
LEMMA OnAirIsMapped ==
  /\ \A d \in Dsts : OnAir(d) <=> TbOnAir[d].id # NoHarqId
  /\ \A d \in Dsts : OnAir(d)' <=> TbOnAir'[d].id # NoHarqId
BY DEF TbOnAir, OnAir

LEMMA SameAhead ==
  ASSUME TbOnAir' = TbOnAir, \A d \in Dsts : grantInfo'[d] = grantInfo[d] \/ ~OnAir(d)
  PROVE  SlotsAhead' = SlotsAhead
<1>1. \A d \in Dsts : OnAir(d)' <=> OnAir(d)
  BY OnAirIsMapped
<1> QED BY <1>1 DEF SlotsAhead

LEMMA InitAhead == Init => TimedService!AnnouncedInit
<1> SUFFICES ASSUME Init PROVE TimedService!AnnouncedInit
  OBVIOUS
<1>1. TimedService!Init
  BY InitRefines DEF Service!Init, TimedService!Init, Service!NoTb, TimedService!NoTb
<1>2. \A d \in Dsts : ~OnAir(d)
  BY DEF Init, OnAir, DefaultGrant
<1> QED BY <1>1, <1>2 DEF SlotsAhead, TimedService!AnnouncedInit

LEMMA SlotIndicationAhead ==
  ASSUME TimelyInv, SlotIndication
  PROVE  TimedService!SlotPasses
<1>1. TypeOK /\ ServiceInv
  BY DEF TimelyInv, ServiceInv, IInv
<1>2. TimedService!NewSlot /\ TbOnAir' = TbOnAir
  <2>1. Service!NewSlot
    BY <1>1, SlotIndicationRefines
  <2> QED BY <2>1 DEF Service!NewSlot, TimedService!NewSlot
<1>3. \A d \in Dsts : OnAir(d)' <=> OnAir(d)
  BY <1>2, OnAirIsMapped
<1>4. ASSUME NEW d \in Dsts
      PROVE  /\ grantInfo[d].slotAllocations \in SUBSET Alloc
             /\ \A a \in grantInfo[d].slotAllocations : a.sfn > 0
             /\ grantInfo'[d].slotAllocations = Advance(grantInfo[d].slotAllocations)
  <2>1. grantInfo'[d] = [grantInfo[d] EXCEPT !.slotAllocations = Advance(@)]
    BY DEF SlotIndication
  <2>2. grantInfo'[d].slotAllocations = Advance(grantInfo[d].slotAllocations)
    BY <1>1, <2>1, GrantTypes DEF NrSlGrantInfo
  <2>3. \A a \in grantInfo[d].slotAllocations : a.sfn > 0
    BY DEF SlotIndication, Idle, TimelyInv, OnTime
  <2> QED BY <1>1, <2>2, <2>3, GrantTypes
<1>5. ASSUME NEW d \in Dsts
      PROVE  0 \notin SlotsAhead[d]
  BY <1>4 DEF SlotsAhead, BeforeNextTb
<1>6. ASSUME NEW d \in Dsts
      PROVE  SlotsAhead'[d] = {s - 1 : s \in SlotsAhead[d]}
  <2>1. CASE OnAir(d)
    <3> DEFINE allocs == grantInfo[d].slotAllocations
               next == grantInfo'[d].slotAllocations
    <3>1. /\ SlotsAhead[d] = {a.sfn : a \in BeforeNextTb(allocs)}
          /\ SlotsAhead'[d] = {b.sfn : b \in BeforeNextTb(next)}
      BY <1>3, <2>1 DEF SlotsAhead
    <3>2. /\ allocs \in SUBSET Alloc /\ \A a \in allocs : a.sfn > 0
          /\ next = Advance(allocs)
      BY <1>4
    <3> HIDE DEF allocs, next
    <3> QED BY <3>1, <3>2, AheadAdvance
  <2>2. CASE ~OnAir(d)
    BY <1>3, <2>2 DEF SlotsAhead
  <2> QED BY <2>1, <2>2
<1>7. SlotsAhead' = [d \in Dsts |-> {s - 1 : s \in SlotsAhead[d]}]
  <2>1. SlotsAhead' = [d \in Dsts |-> SlotsAhead'[d]]
    BY DEF SlotsAhead
  <2> QED BY <1>6, <2>1
<1> QED BY <1>2, <1>5, <1>7 DEF TimedService!SlotPasses

LEMMA SchedDstAhead ==
  ASSUME ServiceInv, NEW d \in Dsts, Keep(d) \/ Reselect(d)
  PROVE  UNCHANGED <<txInSlot, TbOnAir, SlotsAhead>>
<1>1. UNCHANGED <<txInSlot, TbOnAir>>
  BY SchedDstRefines
<1>2. ~OnAir(d)
  BY OffAirLemma DEF Keep, Reselect
<1>3. grantInfo \in [Dsts -> NrSlGrantInfo]
  BY DEF ServiceInv, IInv, TypeOK
<1>4. \E g : grantInfo' = [grantInfo EXCEPT ![d] = g]
  BY DEF Keep, Reselect, SchedUeNrSlConfigInd
<1>5. \A e \in Dsts \ {d} : grantInfo'[e] = grantInfo[e]
  BY <1>3, <1>4
<1>6. SlotsAhead' = SlotsAhead
  BY <1>1, <1>2, <1>5, SameAhead
<1> QED BY <1>1, <1>6

LEMMA MovesAhead ==
  ASSUME Moves \/ \E d \in Dsts : UpperLayer(d)
  PROVE  UNCHANGED <<txInSlot, TbOnAir, SlotsAhead>>
<1>1. UNCHANGED <<grantInfo, txInSlot, TbOnAir>>
  BY MovesRefines DEF Moves, EndOfSched, EndOfTx, SkipDst, NoTxNow, ReadEmptyGrant, NoHarqProcess,
         SchedTurn, TxTurn, TxNow, macVars, rlcVars, vars,
         UpperLayer, TransmitNrSlPdcpPdu, ExpireNrSlRbsTimer
<1>2. SlotsAhead' = SlotsAhead
  BY <1>1, SameAhead
<1> QED BY <1>1, <1>2

LEMMA SkipsAhead ==
  ASSUME ServiceInv, NEW d \in Dsts, NEW a \in grantInfo[d].slotAllocations,
         NEW id \in HarqIds, Skips(d, a, id)
  PROVE  UNCHANGED <<txInSlot, TbOnAir, SlotsAhead>>
<1> DEFINE g == Wasted(grantInfo[d], a, a.tx + 1, id)
           pkt == [dst |-> d, full |-> FALSE]
<1>1. UNCHANGED <<txInSlot, TbOnAir>>
  BY SkipsRefines
<1>2. Turn(d, a, g, id, pkt) /\ pkt # [dst |-> d, full |-> TRUE]
  BY DEF Skips
<1> HIDE DEF g, pkt
<1>3. ~OnAir(d)'
  BY <1>2, TurnOnAir
<1>4. ~OnAir(d)
  BY <1>1, <1>3, OnAirIsMapped
<1>5. \A e \in Dsts \ {d} : grantInfo'[e] = grantInfo[e]
  BY <1>2 DEF Turn, ServiceInv, IInv, TypeOK
<1>6. SlotsAhead' = SlotsAhead
  BY <1>1, <1>4, <1>5, SameAhead
<1> QED BY <1>1, <1>6

(* What a transmission changes for its destination, and for no other.       *)
LEMMA SendsChanges ==
  ASSUME ServiceInv, NEW d \in Dsts, NEW a \in grantInfo[d].slotAllocations,
         NEW id \in HarqIds, Sends(d, a, id)
  PROVE  /\ OnAir(d)' <=> a.tx + 1 # grantInfo[d].nSelected
         /\ grantInfo'[d].slotAllocations = grantInfo[d].slotAllocations \ {a}
         /\ grantInfo'[d].nSelected = grantInfo[d].nSelected
         /\ a.tx + 1 # grantInfo[d].nSelected => grantInfo'[d].tbTxCounter = a.tx + 1
         /\ IsFirst(a, grantInfo[d].slotAllocations) /\ a.sfn = 0
         /\ SlotsAhead' = [SlotsAhead EXCEPT ![d] = SlotsAhead'[d]]
<1> DEFINE n == grantInfo[d].nSelected
           g == Used(grantInfo[d], a, a.tx + 1, id)
           pkt == IF a.tx + 1 = n THEN EmptyPkt ELSE [dst |-> d, full |-> TRUE]
<1>1. Turn(d, a, g, id, pkt)
  BY DEF Sends
<1>2. pkt = [dst |-> d, full |-> TRUE] <=> a.tx + 1 # n
  BY DEF EmptyPkt
<1> HIDE DEF g, pkt
<1>3. /\ TbOnAir' = [TbOnAir EXCEPT ![d] = TbOnAir'[d]]
      /\ OnAir(d)' <=> pkt = [dst |-> d, full |-> TRUE]
      /\ grantInfo'[d] = g
  BY <1>1, TurnOnAir
<1>4. /\ AfterTx(grantInfo[d], g, a, a.tx + 1, id)
      /\ IsFirst(a, grantInfo[d].slotAllocations) /\ a.sfn = 0
      /\ grantInfo' = [grantInfo EXCEPT ![d] = g]
  BY <1>1 DEF Turn
<1>5. \A e \in Dsts \ {d} : grantInfo'[e] = grantInfo[e] /\ TbOnAir'[e] = TbOnAir[e]
  <2>1. grantInfo \in [Dsts -> NrSlGrantInfo]
    BY DEF ServiceInv, IInv, TypeOK
  <2>2. TbOnAir = [e \in Dsts |-> TbOnAir[e]]
    BY DEF TbOnAir
  <2> QED BY <1>3, <1>4, <2>1, <2>2
<1>6. \A e \in Dsts \ {d} : OnAir(e)' <=> OnAir(e)
  BY <1>5, OnAirIsMapped
<1>7. \A e \in Dsts \ {d} : SlotsAhead'[e] = SlotsAhead[e]
  BY <1>5, <1>6 DEF SlotsAhead
<1>8. SlotsAhead' = [e \in Dsts |-> SlotsAhead'[e]] /\ SlotsAhead = [e \in Dsts |-> SlotsAhead[e]]
  BY DEF SlotsAhead
<1>9. SlotsAhead' = [SlotsAhead EXCEPT ![d] = SlotsAhead'[d]]
  BY <1>7, <1>8
<1> QED BY <1>2, <1>3, <1>4, <1>9 DEF AfterTx

(* The first transmission of a TB announces the others.                     *)
LEMMA FirstAnnounces ==
  ASSUME TimelyInv, NEW d \in Dsts, NEW a \in grantInfo[d].slotAllocations,
         NEW id \in HarqIds, Sends(d, a, id), a.tx = 0
  PROVE  TimedService!Announce(d)
<1> DEFINE allocs == grantInfo[d].slotAllocations
           n == grantInfo[d].nSelected
           left == BeforeNextTb(allocs \ {a})
<1>0. ServiceInv /\ TypeOK
  BY DEF TimelyInv, ServiceInv, IInv
<1>1. /\ OnAir(d)' <=> a.tx + 1 # n
      /\ grantInfo'[d].slotAllocations = allocs \ {a}
      /\ grantInfo'[d].nSelected = n
      /\ a.tx + 1 # n => grantInfo'[d].tbTxCounter = a.tx + 1
      /\ IsFirst(a, allocs) /\ a.sfn = 0
      /\ SlotsAhead' = [SlotsAhead EXCEPT ![d] = SlotsAhead'[d]]
  BY <1>0, SendsChanges
<1>2. /\ allocs \in SUBSET Alloc /\ n \in Nat /\ Ordered(allocs, n) /\ Followed(allocs, n)
      /\ a \in allocs
  BY <1>0, GrantTypes DEF ServiceInv, IInv, Sound
<1>3. TimedService!First(d)
  <2>1. IsNext(a, grantInfo[d])
    BY <1>1 DEF IsNext
  <2>2. ~OnAir(d)
    BY <1>0, <2>1, OffAirLemma
  <2>3. TbOnAir[d] = Service!NoTb
    BY <2>2 DEF TbOnAir, Service!NoTb
  <2>4. Service!First(d) \/ Service!Repeat(d)
    BY <1>0, SendsRefines
  <2>5. Service!First(d)
    BY <2>3, <2>4 DEF Service!Repeat
  <2> QED BY <2>5 DEF Service!First, TimedService!First, Service!Send, TimedService!Send,
                      Service!NoTb, TimedService!NoTb
<1>4. SlotsAhead'[d] = IF a.tx + 1 # n THEN {b.sfn : b \in left} ELSE {}
  BY <1>1 DEF SlotsAhead
<1>5. \A b \in left : b \in allocs /\ b.sfn > 0
  <2>1. \A b \in allocs \ {a} : b.sfn > 0
    BY <1>1, <1>2, EraseLemma
  <2> QED BY <2>1 DEF BeforeNextTb
<1>6. \A s \in SlotsAhead'[d] : s > 0 /\ \E b \in allocs : b.sfn = s
  BY <1>4, <1>5, SMTT(60)
<1>7. ASSUME NEW e \in Dsts \ {d}
      PROVE  0 \notin SlotsAhead[e] /\ SlotsAhead[e] \cap SlotsAhead'[d] = {}
  <2>1. NoSharedSlot(d, e)
    BY <1>0 DEF ServiceInv, IInv
  <2>2. \A s \in SlotsAhead[e] : \E b \in grantInfo[e].slotAllocations : b.sfn = s
    BY DEF SlotsAhead, BeforeNextTb
  <2>3. 0 \notin SlotsAhead[e]
    <3>1. ASSUME NEW b \in grantInfo[e].slotAllocations, b.sfn = 0
          PROVE  FALSE
      BY <1>1, <2>1, <3>1 DEF NoSharedSlot
    <3> QED BY <2>2, <3>1
  <2>4. ASSUME NEW s \in SlotsAhead[e], s \in SlotsAhead'[d]
        PROVE  FALSE
    <3>1. PICK b \in allocs : b.sfn = s
      BY <1>6, <2>4
    <3>2. PICK c \in grantInfo[e].slotAllocations : c.sfn = s
      BY <2>2
    <3>3. s > 0 /\ s \in Int
      BY <1>2, <1>6, <2>4, <3>1 DEF Alloc
    <3>4. b.sfn < 0
      BY <2>1, <3>1, <3>2 DEF NoSharedSlot
    <3> QED BY <3>1, <3>3, <3>4
  <2> QED BY <2>3, <2>4
<1>8. Cardinality(SlotsAhead'[d]) = TbOnAir'[d].total - TbOnAir'[d].sent
  <2>1. CASE a.tx + 1 = n
    <3>1. TbOnAir'[d].total = 0 /\ TbOnAir'[d].sent = 0
      BY <1>1, <2>1 DEF TbOnAir
    <3>2. SlotsAhead'[d] = {}
      BY <1>4, <2>1
    <3> QED BY <3>1, <3>2, FS_EmptySet
  <2>2. CASE a.tx + 1 # n
    <3>1. TbOnAir'[d].total = n /\ TbOnAir'[d].sent = 1
      BY <1>1, <2>2 DEF TbOnAir
    <3>2. Cardinality({b.sfn : b \in left}) = n - 1
      <4> HIDE DEF allocs, n
      <4> QED BY <1>1, <1>2, AheadCount
    <3> HIDE DEF allocs, n, left
    <3> QED BY <1>4, <2>2, <3>1, <3>2
  <2> QED BY <2>1, <2>2
<1>9. SlotsAhead' = [SlotsAhead EXCEPT ![d] = SlotsAhead'[d]]
  BY <1>1
<1>10. \A s \in SlotsAhead'[d] : s > 0
  BY <1>6
<1>11. \A e \in Dsts \ {d} : 0 \notin SlotsAhead[e] /\ SlotsAhead[e] \cap SlotsAhead'[d] = {}
  BY <1>7
(* The instance has a FiniteSets of its own.                               *)
<1>12. TimedService!Cardinality(SlotsAhead'[d]) = Cardinality(SlotsAhead'[d])
  BY DEF Cardinality, TimedService!Cardinality
<1> QED BY ONLY <1>3, <1>8, <1>9, <1>10, <1>11, <1>12 DEF TimedService!Announce

(* A retransmission is one that was announced for this slot.                *)
LEMMA RetransmissionIsAnnounced ==
  ASSUME TimelyInv, NEW d \in Dsts, NEW a \in grantInfo[d].slotAllocations,
         NEW id \in HarqIds, Sends(d, a, id), a.tx # 0
  PROVE  TimedService!SendAnnounced(d)
<1> DEFINE allocs == grantInfo[d].slotAllocations
           n == grantInfo[d].nSelected
<1>0. ServiceInv /\ TypeOK
  BY DEF TimelyInv, ServiceInv, IInv
<1>1. /\ OnAir(d)' <=> a.tx + 1 # n
      /\ grantInfo'[d].slotAllocations = allocs \ {a}
      /\ IsFirst(a, allocs) /\ a.sfn = 0
      /\ SlotsAhead' = [SlotsAhead EXCEPT ![d] = SlotsAhead'[d]]
  BY <1>0, SendsChanges
<1>2. allocs \in SUBSET Alloc /\ n \in Nat /\ Ordered(allocs, n) /\ a \in allocs
  BY <1>0, GrantTypes DEF ServiceInv, IInv
<1>3. OnAir(d)
  BY HarqIdsFacts DEF Sends, Turn, OnAir
<1>4. TimedService!Repeat(d)
  <2>1. TbOnAir[d] # Service!NoTb
    BY <1>3 DEF TbOnAir, OnAir, Service!NoTb
  <2>2. Service!First(d) \/ Service!Repeat(d)
    BY <1>0, SendsRefines
  <2>3. Service!Repeat(d)
    BY <2>1, <2>2 DEF Service!First
  <2> QED BY <2>3 DEF Service!Repeat, TimedService!Repeat, Service!Send, TimedService!Send,
                      Service!NoTb, TimedService!NoTb
<1>5. /\ SlotsAhead[d] = {b.sfn : b \in BeforeNextTb(allocs)}
      /\ SlotsAhead'[d] = IF a.tx + 1 # n THEN {b.sfn : b \in BeforeNextTb(allocs \ {a})} ELSE {}
  BY <1>1, <1>3 DEF SlotsAhead
<1>6. /\ a \in BeforeNextTb(allocs)
      /\ BeforeNextTb(allocs \ {a}) = BeforeNextTb(allocs) \ {a}
      /\ a.tx + 1 = n => BeforeNextTb(allocs) = {a}
      /\ \A b \in BeforeNextTb(allocs) \ {a} : b.sfn # 0
  <2> HIDE DEF allocs, n
  <2>1. \A b \in allocs \ {a} : b.sfn > 0
    BY <1>1, <1>2, EraseLemma
  <2>2. \A b \in BeforeNextTb(allocs) \ {a} : b \in allocs \ {a}
    BY DEF BeforeNextTb
  <2>3. /\ a \in BeforeNextTb(allocs)
        /\ BeforeNextTb(allocs \ {a}) = BeforeNextTb(allocs) \ {a}
        /\ a.tx + 1 = n => BeforeNextTb(allocs) = {a}
    BY <1>1, <1>2, AheadErase
  <2>4. \A b \in BeforeNextTb(allocs) \ {a} : b.sfn # 0
    BY <2>1, <2>2
  <2> QED BY <2>3, <2>4
<1> HIDE DEF allocs, n
<1>7. 0 \in SlotsAhead[d]
  BY <1>1, <1>5, <1>6
<1>8. SlotsAhead'[d] = SlotsAhead[d] \ {0}
  <2>1. {b.sfn : b \in BeforeNextTb(allocs) \ {a}} = {b.sfn : b \in BeforeNextTb(allocs)} \ {0}
    BY <1>1, <1>6
  <2>2. CASE a.tx + 1 = n
    BY <1>1, <1>5, <1>6, <2>2
  <2>3. CASE a.tx + 1 # n
    BY <1>5, <1>6, <2>1, <2>3
  <2> QED BY <2>2, <2>3
<1>9. SlotsAhead' = [SlotsAhead EXCEPT ![d] = @ \ {0}]
  BY <1>1, <1>8
<1> QED BY <1>4, <1>7, <1>9 DEF TimedService!SendAnnounced

LEMMA NextAhead ==
  TimelyInv /\ [Next]_vars => [TimedService!AnnouncedNext]_<<txInSlot, TbOnAir, SlotsAhead>>
<1> SUFFICES ASSUME TimelyInv, [Next]_vars
             PROVE  TimedService!AnnouncedNext \/ UNCHANGED <<txInSlot, TbOnAir, SlotsAhead>>
  OBVIOUS
<1>0. ServiceInv /\ IInv
  BY DEF TimelyInv, ServiceInv
<1>1. CASE SlotIndication
  BY <1>1, SlotIndicationAhead DEF TimedService!AnnouncedNext
<1>2. CASE EndOfSched \/ EndOfTx \/ Stopped \/ UNCHANGED vars
  BY <1>2, MovesAhead DEF Moves, Stopped
<1>3. CASE \E d \in Dsts : SchedDst(d)
  BY <1>0, <1>3, MovesAhead, SchedDstAhead DEF SchedDst, Moves
<1>4. ASSUME NEW d \in Dsts, TxGrant(d)
      PROVE  TimedService!AnnouncedNext \/ UNCHANGED <<txInSlot, TbOnAir, SlotsAhead>>
  <2>1. CASE Moves
    BY <2>1, MovesAhead
  <2>2. CASE \E a \in grantInfo[d].slotAllocations, id \in HarqIds :
               Sends(d, a, id) \/ Skips(d, a, id)
    <3>1. PICK a \in grantInfo[d].slotAllocations, id \in HarqIds :
            Sends(d, a, id) \/ Skips(d, a, id)
      BY <2>2
    <3>2. CASE Sends(d, a, id)
      BY <3>2, FirstAnnounces, RetransmissionIsAnnounced DEF TimedService!AnnouncedNext
    <3>3. CASE Skips(d, a, id)
      BY <1>0, <3>3, SkipsAhead
    <3> QED BY <3>1, <3>2, <3>3
  <2> QED BY <1>0, <1>4, <2>1, <2>2, TxGrantCases
<1>5. CASE \E d \in Dsts : UpperLayer(d)
  BY <1>5, MovesAhead
<1> QED BY <1>1, <1>2, <1>3, <1>4, <1>5 DEF Next, Slot

(* What the receivers rely on when they act slots later on what an SCI has  *)
(* announced: a TB is sent in every slot that was announced for it and in   *)
(* no other, whatever happens to the other grants in between.               *)
THEOREM ImplementsTimedService ==
  ASSUME PeriodFitsPool
  PROVE  Spec => AnnouncedTransmission
<1>1. Init => TimedService!AnnouncedInit
  BY InitAhead
<1>2. TimelyInv /\ [Next]_vars
        => [TimedService!AnnouncedNext]_<<txInSlot, TbOnAir, SlotsAhead>>
  BY NextAhead
<1>3. Spec => []TimelyInv
  BY TimelyInvariant
<1> QED BY <1>1, <1>2, <1>3, PTL DEF Spec, AnnouncedTransmission, TimedService!AnnouncedSpec
=============================================================================
