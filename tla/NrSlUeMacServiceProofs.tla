----------------------- MODULE NrSlUeMacServiceProofs -----------------------
(***************************************************************************)
(* NrSlUeMac implements SlBlindRetransmission: what the grants, counters   *)
(* and HARQ ids do inside is, to a receiver, blind retransmission.  On the *)
(* way: data is not forgotten, the unsigned counter does not wrap around,  *)
(* and no buffered TB is stranded.                                         *)
(***************************************************************************)
EXTENDS NrSlUeMacProofs

(* A set that is the image of another is no larger.                         *)
LEMMA ImageLemma ==
  ASSUME NEW S, NEW T, IsFiniteSet(S), NEW f \in [S -> T],
         \A t \in T : \E s \in S : f[s] = t
  PROVE  IsFiniteSet(T) /\ Cardinality(T) <= Cardinality(S)
<1>1. f \in Surjection(S, T)
  BY DEF Surjection
<1> QED BY <1>1, FS_Surjection

-----------------------------------------------------------------------------
(* A slot passes.                                                           *)
LEMMA AdvanceSound ==
  ASSUME NEW g \in NrSlGrantInfo, Ordered(g.slotAllocations, g.nSelected), Sound(g),
         NEW h \in NrSlGrantInfo, h.slotAllocations = Advance(g.slotAllocations),
         h.nSelected = g.nSelected, h.cReselCounter = g.cReselCounter
  PROVE  /\ Sound(h)
         /\ \A b \in h.slotAllocations : IsNext(b, h) =>
              \E a \in g.slotAllocations : IsNext(a, g) /\ a.tx = b.tx
<1> DEFINE allocs == g.slotAllocations
           later == h.slotAllocations
           n == g.nSelected
           covered == g.cReselCounter * n
<1>1. /\ allocs \in SUBSET Alloc /\ later \in SUBSET Alloc
      /\ n \in Nat /\ g.cReselCounter \in Nat /\ covered \in Nat
  <2>1. /\ allocs \in SUBSET Alloc /\ later \in SUBSET Alloc
        /\ n \in Nat /\ g.cReselCounter \in Nat
    BY MaxUint16Type DEF NrSlGrantInfo
  <2> QED BY <2>1
<1>2. /\ \A b \in later : b.sfn >= 0 =>
           \E a \in allocs : a.sfn = b.sfn + 1 /\ a.tx = b.tx
      /\ \A b \in later : (IsFirst(b, later) /\ b.sfn >= 0) =>
           \E a \in allocs : IsFirst(a, allocs) /\ a.sfn = b.sfn + 1 /\ a.tx = b.tx
  BY <1>1, AdvanceLemma
<1>3. ASSUME NEW b \in later, IsNext(b, h)
      PROVE  \E a \in allocs : IsNext(a, g) /\ a.tx = b.tx
  <2>1. b.sfn \in Int /\ b.sfn >= 0 /\ IsFirst(b, later)
    BY <1>1, <1>3 DEF IsNext, Alloc
  <2>2. PICK a \in allocs : IsFirst(a, allocs) /\ a.sfn = b.sfn + 1 /\ a.tx = b.tx
    BY <1>2, <2>1
  <2> QED BY <2>1, <2>2 DEF IsNext
<1>4. IsFiniteSet(later) /\ Cardinality(later) <= Cardinality(allocs)
  <2> DEFINE f == [a \in allocs |-> [sfn |-> Passed(a.sfn), tx |-> a.tx]]
  <2>1. IsFiniteSet(allocs)
    BY DEF Sound, Counted
  <2>2. f \in [allocs -> later] /\ \A b \in later : \E a \in allocs : f[a] = b
    BY DEF Advance
  <2> HIDE DEF f
  <2> QED BY <2>1, <2>2, ImageLemma
<1>5. Cardinality(later) \in Nat /\ Cardinality(allocs) \in Nat
  BY <1>4, FS_CardinalityType DEF Sound, Counted
<1>6. Counted(h)
  <2>1. Cardinality(later) <= covered
    BY <1>1, <1>4, <1>5 DEF Sound, Counted
  <2>2. ASSUME NEW b \in later, IsNext(b, h)
        PROVE  Cardinality(later) + b.tx <= covered
    <3>1. PICK a \in allocs : IsNext(a, g) /\ a.tx = b.tx
      BY <1>3, <2>2
    <3>2. Cardinality(allocs) + a.tx <= covered /\ a.tx \in Nat
      BY <1>1, <3>1 DEF Sound, Counted, Alloc
    <3> QED BY <1>1, <1>4, <1>5, <3>1, <3>2
  <2> QED BY <1>4, <2>1, <2>2 DEF Counted
<1>7. Followed(later, n)
  <2> SUFFICES ASSUME NEW b \in later, 0 <= b.sfn, b.tx + 1 < n
               PROVE  \E c \in later :
                        /\ c.tx = b.tx + 1 /\ b.sfn < c.sfn
                        /\ ~\E e \in later : b.sfn < e.sfn /\ e.sfn < c.sfn
    BY DEF Followed
  <2>1. b.sfn \in Int
    BY <1>1 DEF Alloc
  <2>2. PICK a \in allocs : a.sfn = b.sfn + 1 /\ a.tx = b.tx
    BY <1>2, <2>1
  <2>3. PICK next \in allocs :
          /\ next.tx = a.tx + 1 /\ a.sfn < next.sfn
          /\ ~\E e \in allocs : a.sfn < e.sfn /\ e.sfn < next.sfn
    BY <2>1, <2>2 DEF Sound, Followed
  <2> DEFINE c == [sfn |-> Passed(next.sfn), tx |-> next.tx]
  <2>4. next.sfn \in Int /\ next.tx \in Nat /\ Passed(next.sfn) = next.sfn - 1
    BY <1>1, <2>1, <2>2, <2>3 DEF Alloc, Passed
  <2>5. c \in later /\ c.sfn = next.sfn - 1 /\ c.tx = next.tx
    BY <2>4 DEF Advance
  <2>6. ASSUME NEW e \in later, b.sfn < e.sfn, e.sfn < c.sfn
        PROVE  FALSE
    <3>1. e.sfn \in Int
      BY <1>1 DEF Alloc
    <3>2. PICK old \in allocs : old.sfn = e.sfn + 1
      BY <1>2, <2>1, <2>6, <3>1
    <3> QED BY <2>1, <2>2, <2>3, <2>4, <2>5, <2>6, <3>1, <3>2
  <2> HIDE DEF c
  <2> QED BY <2>1, <2>2, <2>3, <2>4, <2>5, <2>6
<1>8. later # {} => n \in Totals
  BY DEF Sound, Advance
<1> QED BY <1>3, <1>6, <1>7, <1>8 DEF Sound

(* A new grant.                                                             *)
LEMMA CreateSound ==
  ASSUME NEW slots \in SUBSET (T1 .. T2), slots # {},
         NEW list \in SlotAllocLists(slots), NEW reselCounter \in ReselCounters
  PROVE  Sound(CreateGrantInfo(list, reselCounter))
<1> DEFINE n == Len(list)
           cResel == reselCounter * CReselFactor
           allocs == SlotAllocations(list, cResel)
           g == CreateGrantInfo(list, reselCounter)
           At(k, i) == [sfn |-> list[k] + i * ResvPeriod, tx |-> k - 1]
<1>1. /\ n \in Nat \ {0} /\ n \in Totals
      /\ DOMAIN list = 1 .. n
      /\ \A k \in 1 .. n : list[k] \in Nat
      /\ \A j, k \in 1 .. n : j < k => list[j] < list[k]
  <2>1. T1 .. T2 \subseteq Nat
    BY MacAssumption
  <2> QED BY <2>1, SlotListLemma
<1>2. cResel \in Nat \ {0}
  <2>1. reselCounter \in Nat /\ reselCounter >= 1 /\ CReselFactor \in Nat /\ CReselFactor >= 1
    BY MacAssumption
  <2> QED BY <2>1
<1>3. g.slotAllocations = allocs /\ g.nSelected = n /\ g.cReselCounter = cResel
  BY DEF CreateGrantInfo
<1>4. /\ g \in NrSlGrantInfo
      /\ \A a \in allocs : IsFirst(a, allocs) => a.tx = 0
  BY CreateLemma, <1>3
<1>5. /\ \A a \in allocs : \E k \in 1 .. n, i \in 0 .. cResel - 1 : a = At(k, i)
      /\ \A k \in 1 .. n, i \in 0 .. cResel - 1 : At(k, i) \in allocs
  BY <1>1, SlotAllocationsLemma, SMTT(60)
<1> HIDE DEF n, cResel, allocs, g
<1>6. IsFiniteSet(allocs) /\ Cardinality(allocs) <= n * cResel
  <2> DEFINE places == (1 .. n) \X (0 .. cResel - 1)
             f == [p \in places |-> At(p[1], p[2])]
  <2>1. IsFiniteSet(places) /\ Cardinality(places) = n * cResel
    <3>1. IsFiniteSet(1 .. n) /\ Cardinality(1 .. n) = n
      BY <1>1, FS_Interval
    <3>2. IsFiniteSet(0 .. cResel - 1) /\ Cardinality(0 .. cResel - 1) = cResel
      BY <1>2, FS_Interval
    <3>3. /\ IsFiniteSet(places)
          /\ Cardinality(places) = Cardinality(1 .. n) * Cardinality(0 .. cResel - 1)
      BY ONLY <3>1, <3>2, FS_Product, Zenon
    <3> QED BY ONLY <3>1, <3>2, <3>3, Zenon
  <2>2. \A p \in places : At(p[1], p[2]) \in allocs
    BY <1>5
  <2>3. ASSUME NEW a \in allocs
        PROVE  \E p \in places : f[p] = a
    <3>1. PICK k \in 1 .. n, i \in 0 .. cResel - 1 : a = At(k, i)
      BY <1>5
    <3>2. <<k, i>> \in places /\ f[<<k, i>>] = At(k, i)
      OBVIOUS
    <3> QED BY <3>1, <3>2
  <2>4. f \in [places -> allocs]
    BY <2>2
  <2> HIDE DEF places, f
  <2> QED BY <2>1, <2>3, <2>4, ImageLemma
<1>7. Counted(g)
  <2>1. Cardinality(allocs) \in Nat
    BY <1>6, FS_CardinalityType
  <2>2. n * cResel = cResel * n /\ n * cResel \in Nat
    BY <1>1, <1>2
  <2> QED BY <1>3, <1>4, <1>6, <2>1, <2>2 DEF Counted, IsNext
<1>8. Followed(allocs, n)
  <2> SUFFICES ASSUME NEW a \in allocs, a.tx + 1 < n
               PROVE  \E b \in allocs :
                        /\ b.tx = a.tx + 1 /\ a.sfn < b.sfn
                        /\ ~\E c \in allocs : a.sfn < c.sfn /\ c.sfn < b.sfn
    BY DEF Followed
  <2>1. PICK k \in 1 .. n, i \in 0 .. cResel - 1 : a = At(k, i)
    BY <1>5
  <2>2. /\ k \in Nat /\ k + 1 \in 1 .. n /\ i \in Nat /\ i * ResvPeriod \in Nat
        /\ list[k] \in Nat /\ list[k + 1] \in Nat /\ list[k] < list[k + 1]
    <3>1. k \in Nat /\ k + 1 \in 1 .. n /\ i \in Nat
      BY <1>1, <1>2, <2>1
    <3>2. i * ResvPeriod \in Nat
      BY <3>1, PeriodsGrow
    <3>3. list[k] \in Nat /\ list[k + 1] \in Nat /\ list[k] < list[k + 1]
      BY <1>1, <3>1
    <3> QED BY <3>1, <3>2, <3>3
  <2>3. At(k + 1, i) \in allocs /\ At(k + 1, i).tx = a.tx + 1 /\ a.sfn < At(k + 1, i).sfn
    BY <1>5, <2>1, <2>2
  <2>4. ASSUME NEW c \in allocs, a.sfn < c.sfn, c.sfn < At(k + 1, i).sfn
        PROVE  FALSE
    <3>1. PICK j \in 1 .. n, h \in 0 .. cResel - 1 : c = At(j, h)
      BY <1>5
    <3>2. j \in Nat /\ h \in Nat /\ h * ResvPeriod \in Nat /\ list[j] \in Nat
      <4>1. j \in Nat /\ h \in Nat
        BY <1>1, <1>2, <3>1
      <4> QED BY <1>1, <4>1, PeriodsGrow
    <3>3. /\ list[k] + i * ResvPeriod <= list[j] + h * ResvPeriod
          /\ list[j] + h * ResvPeriod <= list[k + 1] + i * ResvPeriod
      BY <2>1, <2>2, <2>4, <3>1, <3>2
    <3>4. (i < h \/ (i = h /\ k <= j)) /\ (h < i \/ (h = i /\ j <= k + 1))
      BY <2>2, <3>2, <3>3, PeriodsOrdered DEF n
    <3>5. h = i /\ (j = k \/ j = k + 1)
      BY <2>2, <3>2, <3>4
    <3> QED BY <2>1, <2>2, <2>4, <3>1, <3>5
  <2> HIDE DEF At
  <2> QED BY <2>3, <2>4
<1> QED BY <1>1, <1>3, <1>7, <1>8 DEF Sound, g

(* The first allocation, for the current slot, is used.  A transmission of  *)
(* the TB follows if one is left; otherwise the next is one of new data.    *)
LEMMA EraseSound ==
  ASSUME NEW g \in NrSlGrantInfo, Ordered(g.slotAllocations, g.nSelected), Sound(g),
         NEW a \in g.slotAllocations, IsFirst(a, g.slotAllocations), a.sfn = 0,
         NEW h \in NrSlGrantInfo, h.slotAllocations = g.slotAllocations \ {a},
         h.nSelected = g.nSelected,
         \/ h.cReselCounter = g.cReselCounter
         \/ /\ a.tx + 1 = g.nSelected
            /\ h.cReselCounter = (g.cReselCounter - 1) % (MaxUint16 + 1)
  PROVE  /\ Sound(h)
         /\ a.tx \in Nat /\ a.tx + 1 <= g.nSelected
         /\ a.tx + 1 < g.nSelected =>
              /\ \E b \in h.slotAllocations : b.tx # 0
              /\ \A b \in h.slotAllocations : IsNext(b, h) => b.tx # 0
         /\ a.tx + 1 = g.nSelected =>
              \A b \in h.slotAllocations : IsNext(b, h) => b.tx = 0
<1> DEFINE allocs == g.slotAllocations
           rest == h.slotAllocations
           n == g.nSelected
           c == g.cReselCounter
<1>1. /\ allocs \in SUBSET Alloc /\ n \in Nat /\ c \in 0 .. MaxUint16 /\ c \in Nat
      /\ \A b \in allocs : b.sfn \in Int /\ b.tx \in Nat
      /\ rest = allocs \ {a}
  BY MaxUint16Type DEF NrSlGrantInfo, Alloc
<1>2. /\ \A b \in rest : b.sfn > 0
      /\ \A b \in rest : (IsFirst(b, rest) /\ b.tx # 0) => b.tx = a.tx + 1 /\ b.tx < n
  <2> DEFINE left == allocs \ {a}
  <2>1. /\ \A b \in left : b.sfn > 0
        /\ \A b \in left : (IsFirst(b, left) /\ b.tx # 0) => b.tx = a.tx + 1 /\ b.tx < n
    BY <1>1, EraseLemma
  <2>2. rest = left
    BY <1>1
  <2> HIDE DEF left
  <2> QED BY <2>1, <2>2
<1>3. a.tx \in Nat /\ a.tx + 1 <= n
  BY <1>1 DEF Ordered, TxInRange
<1>4. /\ IsFiniteSet(rest)
      /\ Cardinality(rest) = Cardinality(allocs) - 1
      /\ Cardinality(allocs) \in Nat
  BY <1>1, FS_RemoveElement, FS_CardinalityType DEF Sound, Counted
<1>5. Cardinality(allocs) + a.tx <= c * n
  BY DEF Sound, Counted, IsNext
<1>6. ASSUME NEW b \in rest, IsNext(b, h)
      PROVE  IF a.tx + 1 < n THEN b.tx = 0 \/ b.tx = a.tx + 1 ELSE b.tx = 0
  BY <1>2, <1>3, <1>6 DEF IsNext
<1> DEFINE covered == h.cReselCounter * h.nSelected
<1>7. /\ Cardinality(rest) <= covered
      /\ \A b \in rest : IsNext(b, h) => Cardinality(rest) + b.tx <= covered
  <2>1. CASE h.cReselCounter = c
    <3>1. \A b \in rest : IsNext(b, h) => b.tx <= a.tx + 1 /\ b.tx \in Nat
      BY <1>1, <1>3, <1>6
    <3>2. c * n \in Nat
      BY <1>1
    <3>3. covered = c * n
      BY <2>1
    <3> HIDE DEF covered
    <3> QED BY <1>3, <1>4, <1>5, <3>1, <3>2, <3>3
  <2>2. CASE a.tx + 1 = n /\ h.cReselCounter = (c - 1) % (MaxUint16 + 1)
    <3>1. c # 0
      <4> SUFFICES ASSUME c = 0 PROVE FALSE
        OBVIOUS
      <4>1. c * n = 0
        BY <1>1
      <4>2. Cardinality(allocs) # 0
        BY FS_EmptySet DEF Sound, Counted
      <4> QED BY <1>3, <1>4, <1>5, <4>1, <4>2
    <3>2. h.cReselCounter = c - 1 /\ c - 1 \in Nat
      BY <1>1, <2>2, <3>1, MaxUint16Type
    <3>3. (c - 1) * n = c * n - n /\ c * n \in Nat
      BY <1>1
    <3>4. covered = c * n - n
      BY <3>2, <3>3
    <3>5. \A b \in rest : IsNext(b, h) => b.tx = 0
      BY <1>1, <1>3, <1>6, <2>2
    <3>6. n \in Nat /\ a.tx = n - 1
      BY <1>1, <1>3, <2>2
    <3> DEFINE size == c * n
    <3>7. size \in Nat /\ Cardinality(allocs) + a.tx <= size /\ covered = size - n
      BY <1>5, <3>3, <3>4
    <3> HIDE DEF covered, size, n
    <3>8. Cardinality(rest) <= covered /\ Cardinality(rest) \in Nat
      BY <1>4, <3>6, <3>7, FS_CardinalityType
    <3>9. covered \in Int
      BY <3>6, <3>7
    <3> HIDE DEF rest
    <3> QED BY <3>5, <3>8, <3>9
  <2> QED BY <2>1, <2>2
<1>8. Followed(rest, n)
  <2> SUFFICES ASSUME NEW b \in rest, 0 <= b.sfn, b.tx + 1 < n
               PROVE  \E e \in rest :
                        /\ e.tx = b.tx + 1 /\ b.sfn < e.sfn
                        /\ ~\E f \in rest : b.sfn < f.sfn /\ f.sfn < e.sfn
    BY DEF Followed
  <2>1. PICK e \in allocs :
          /\ e.tx = b.tx + 1 /\ b.sfn < e.sfn
          /\ ~\E f \in allocs : b.sfn < f.sfn /\ f.sfn < e.sfn
    BY <1>1 DEF Sound, Followed
  <2>2. e # a
    BY <1>1, <1>2, <2>1
  <2> QED BY <1>1, <2>1, <2>2
<1>9. ASSUME a.tx + 1 < n
      PROVE  \E b \in rest : /\ b.tx # 0
                            /\ \A e \in rest : IsFirst(e, rest) => e = b
  <2>1. PICK b \in allocs :
          /\ b.tx = a.tx + 1 /\ a.sfn < b.sfn
          /\ ~\E e \in allocs : a.sfn < e.sfn /\ e.sfn < b.sfn
    BY <1>9 DEF Sound, Followed
  <2>2. b \in rest
    BY <1>1, <2>1
  <2>3. ASSUME NEW e \in rest, IsFirst(e, rest)
        PROVE  e = b
    <3>1. e.sfn <= b.sfn /\ e.sfn > a.sfn /\ e \in allocs
      BY <1>1, <1>2, <2>2, <2>3 DEF IsFirst
    <3>2. e.sfn = b.sfn /\ e.sfn >= 0
      BY <1>1, <1>2, <2>1, <3>1
    <3> QED BY <2>1, <3>1, <3>2 DEF Ordered, SlotsDistinct
  <2>4. b.tx # 0
    BY <1>3, <2>1
  <2> QED BY <2>2, <2>3, <2>4
<1>10. rest # {} => n \in Totals
  BY <1>1 DEF Sound
<1>11. ASSUME a.tx + 1 < n
       PROVE  /\ \E b \in rest : b.tx # 0
              /\ \A b \in rest : IsNext(b, h) => b.tx # 0
  BY <1>9, <1>11 DEF IsNext
<1>12. a.tx + 1 = n => \A b \in rest : IsNext(b, h) => b.tx = 0
  BY <1>3, <1>6
<1>13. Counted(h)
  BY <1>4, <1>7 DEF Counted
<1> QED BY <1>3, <1>8, <1>10, <1>11, <1>12, <1>13 DEF Sound

-----------------------------------------------------------------------------
(* What the steps that use an allocation have in common: the turn of d      *)
(* turns its grant into g and the entry of its id in the HARQ buffer into   *)
(* pkt.                                                                     *)
Turn(d, a, g, id, pkt) ==
  /\ pc = "tx" /\ pc' = pc /\ d \in todo /\ todo' = todo \ {d}
  /\ halted' = "no" /\ poolIndex' = poolIndex
  /\ HasGrant(d) /\ granted' = granted /\ txQueueSize' = txQueueSize
  /\ IsFirst(a, grantInfo[d].slotAllocations) /\ a.sfn = 0
  /\ grantInfo' = [grantInfo EXCEPT ![d] = g]
  /\ AfterTx(grantInfo[d], g, a, a.tx + 1, id)
  /\ id \in HarqIds /\ harq'.pkt = [harq.pkt EXCEPT ![id] = pkt]
  /\ \A other \in HarqIds \ {id} :
       IsHarqIdAvailable(harq', other) <=> IsHarqIdAvailable(harq, other)
  /\ a.tx # 0 => grantInfo[d].nrSlHarqId = id
  /\ harq.pkt[id].dst \notin Dsts \ {d} /\ pkt.dst \notin Dsts \ {d}
  /\ pkt.full => pkt.dst = d /\ a.tx + 1 # grantInfo[d].nSelected
  /\ \A e \in Dsts \ {d} : txBuffer'[e] = txBuffer[e] /\ rbsTimer'[e] = rbsTimer[e]
  /\ IF a.tx = 0 THEN txBuffer'[d] > 0 => rbsTimer'[d] ELSE UNCHANGED rlcVars

Sends(d, a, id) ==
  /\ Turn(d, a, Used(grantInfo[d], a, a.tx + 1, id), id,
          IF a.tx + 1 = grantInfo[d].nSelected THEN EmptyPkt ELSE [dst |-> d, full |-> TRUE])
  /\ txInSlot' = txInSlot \union {d}
  /\ a.tx + 1 = grantInfo[d].nSelected => IsHarqIdAvailable(harq', id)
  /\ IF a.tx = 0 THEN harq.pkt[id] = EmptyPkt
     ELSE harq.pkt[id] = [dst |-> d, full |-> TRUE] /\ grantInfo[d].tbTxCounter = a.tx

Skips(d, a, id) ==
  /\ Turn(d, a, Wasted(grantInfo[d], a, a.tx + 1, id), id, [dst |-> d, full |-> FALSE])
  /\ txInSlot' = txInSlot
  /\ ~harq.pkt[id].full
  /\ IF a.tx = 0 THEN txBuffer[d] = 0 ELSE ~IsHarqIdAvailable(harq, id)

LEMMA NewTxSends ==
  ASSUME IInv, NEW d \in Dsts, NewTx(d)
  PROVE  \E a \in grantInfo[d].slotAllocations, id \in HarqIds : Sends(d, a, id)
<1> DEFINE id == NextHarqId(harq)
           assigned == AssignNrSlHarqProcessId(harq, d)
           loaded == AddPacket(assigned, id)
           last == grantInfo[d].nSelected = 1
<1>1. PICK a \in grantInfo[d].slotAllocations :
        /\ TxNow(d, a) /\ a.tx = 0
        /\ harq.ids # <<>>
        /\ harq' = Feedback(loaded, d, id, last)
        /\ grantInfo' = [grantInfo EXCEPT ![d] = Used(grantInfo[d], a, 1, id)]
        /\ \E left \in 0 .. txBuffer[d] :
             /\ txBuffer' = [txBuffer EXCEPT ![d] = left]
             /\ rbsTimer' = [rbsTimer EXCEPT ![d] = @ \/ left > 0]
        /\ halted' = IF AddPacketAborts(assigned, d, id) THEN "harqMismatch"
                     ELSE FeedbackOutcome(loaded, d, id, last)
        /\ txInSlot' = txInSlot \union {d}
  BY DEF NewTx, NotifyNrSlTxOpportunity
<1>2. harq \in HarqState /\ FreeIdsAreClean(harq) /\ TypeOK
  BY DEF IInv, TypeOK
<1>3. /\ id \in HarqIds /\ harq.pkt[id] = EmptyPkt
      /\ assigned \in HarqState /\ FreeIdsAreClean(assigned)
      /\ assigned.pkt = [harq.pkt EXCEPT ![id] = [dst |-> d, full |-> FALSE]]
      /\ ~IsHarqIdAvailable(assigned, id)
      /\ \A other \in HarqIds \ {id} :
           IsHarqIdAvailable(assigned, other) <=> IsHarqIdAvailable(harq, other)
  BY <1>1, <1>2, AssignLemma
<1>4. harq.pkt \in [HarqIds -> PktInfo]
  BY <1>2 DEF HarqState
<1> HIDE DEF id, assigned
<1>5. /\ loaded \in HarqState /\ FreeIdsAreClean(loaded)
      /\ loaded.ids = assigned.ids
      /\ loaded.pkt = [assigned.pkt EXCEPT ![id] = [dst |-> assigned.pkt[id].dst, full |-> TRUE]]
  BY <1>3, AddPacketLemma
<1>6. /\ ~IsHarqIdAvailable(loaded, id)
      /\ \A other \in HarqIds \ {id} :
           IsHarqIdAvailable(loaded, other) <=> IsHarqIdAvailable(harq, other)
  BY <1>3, <1>5 DEF IsHarqIdAvailable
<1> HIDE DEF loaded
<1>7. loaded.pkt = [harq.pkt EXCEPT ![id] = [dst |-> d, full |-> TRUE]]
  BY <1>3, <1>4, <1>5
<1> DEFINE pkt == IF a.tx + 1 = grantInfo[d].nSelected THEN EmptyPkt
                  ELSE [dst |-> d, full |-> TRUE]
           g == Used(grantInfo[d], a, a.tx + 1, id)
<1>8. /\ harq'.pkt = [harq.pkt EXCEPT ![id] = pkt]
      /\ \A other \in HarqIds \ {id} :
           IsHarqIdAvailable(harq', other) <=> IsHarqIdAvailable(harq, other)
      /\ a.tx + 1 = grantInfo[d].nSelected => IsHarqIdAvailable(harq', id)
  <2>1. CASE last
    <3>1. harq' = RecvNrSlHarqFeedback(loaded, id) /\ pkt = EmptyPkt
      BY <1>1, <2>1 DEF Feedback
    <3>2. /\ harq'.pkt = [loaded.pkt EXCEPT ![id] = EmptyPkt]
          /\ IsHarqIdAvailable(harq', id)
          /\ \A other \in HarqIds \ {id} :
               IsHarqIdAvailable(harq', other) <=> IsHarqIdAvailable(loaded, other)
      BY <1>3, <1>5, <1>6, <3>1, FeedbackLemma
    <3> HIDE DEF pkt
    <3> QED BY <1>4, <1>6, <1>7, <3>1, <3>2
  <2>2. CASE ~last
    <3>1. harq' = loaded /\ pkt = [dst |-> d, full |-> TRUE]
      BY <1>1, <2>2 DEF Feedback
    <3>2. a.tx + 1 # grantInfo[d].nSelected
      BY <1>1, <2>2
    <3> QED BY <1>6, <1>7, <3>1, <3>2
  <2> QED BY <2>1, <2>2
<1>8a. halted' = "no"
  <2>1. ~AddPacketAborts(assigned, d, id) /\ ~FeedbackAborts(loaded, d, id)
    BY <1>3, <1>4, <1>7 DEF AddPacketAborts, FeedbackAborts
  <2> QED BY <1>1, <1>6, <2>1 DEF FeedbackOutcome
<1>9. /\ pc = "tx" /\ pc' = pc /\ d \in todo /\ todo' = todo \ {d}
      /\ poolIndex' = poolIndex
      /\ HasGrant(d) /\ granted' = granted /\ txQueueSize' = txQueueSize
      /\ IsFirst(a, grantInfo[d].slotAllocations) /\ a.sfn = 0
      /\ grantInfo' = [grantInfo EXCEPT ![d] = g]
  BY <1>1 DEF TxNow, TxTurn
<1>10. /\ \A e \in Dsts \ {d} : txBuffer'[e] = txBuffer[e] /\ rbsTimer'[e] = rbsTimer[e]
       /\ txBuffer'[d] > 0 => rbsTimer'[d]
  BY <1>1, <1>2 DEF TypeOK
<1>11. /\ pkt.full => pkt.dst = d /\ a.tx + 1 # grantInfo[d].nSelected
       /\ pkt.dst \notin Dsts \ {d} /\ harq.pkt[id].dst \notin Dsts \ {d}
  BY <1>3, HarqIdsFacts DEF EmptyPkt
<1>12. a.tx + 1 \in Nat /\ a.tx + 1 <= grantInfo[d].nSelected /\ grantInfo[d].nSelected \in Nat
  BY <1>1, <1>2, GrantTypes DEF IInv, Ordered, TxInRange
<1>13. AfterTx(grantInfo[d], g, a, a.tx + 1, id)
  <2>1. grantInfo[d] \in NrSlGrantInfo
    BY <1>2, GrantTypes
  <2> QED BY <1>3, <1>12, <2>1, UsedLemma
<1> HIDE DEF pkt, g
<1>14. Turn(d, a, g, id, pkt)
  BY <1>1, <1>3, <1>8, <1>8a, <1>9, <1>10, <1>11, <1>12, <1>13 DEF Turn
<1>15. Sends(d, a, id)
  BY <1>1, <1>3, <1>8, <1>14 DEF Sends, pkt, g
<1> QED BY <1>3, <1>15

LEMMA NewTxWastedSkips ==
  ASSUME IInv, NEW d \in Dsts, NewTxWasted(d)
  PROVE  \E a \in grantInfo[d].slotAllocations, id \in HarqIds : Skips(d, a, id)
<1> DEFINE id == NextHarqId(harq)
           pkt == [dst |-> d, full |-> FALSE]
<1>1. PICK a \in grantInfo[d].slotAllocations :
        /\ TxNow(d, a) /\ a.tx = 0
        /\ harq.ids # <<>> /\ txBuffer[d] = 0
        /\ harq' = AssignNrSlHarqProcessId(harq, d)
        /\ grantInfo' = [grantInfo EXCEPT ![d] = Wasted(grantInfo[d], a, 1, id)]
        /\ UNCHANGED <<rlcVars, txInSlot, halted>>
  BY DEF NewTxWasted
<1>2. harq \in HarqState /\ FreeIdsAreClean(harq) /\ TypeOK
  BY DEF IInv, TypeOK
<1>3. /\ id \in HarqIds /\ harq.pkt[id] = EmptyPkt
      /\ harq'.pkt = [harq.pkt EXCEPT ![id] = pkt]
      /\ \A other \in HarqIds \ {id} :
           IsHarqIdAvailable(harq', other) <=> IsHarqIdAvailable(harq, other)
  BY <1>1, <1>2, AssignLemma
<1> HIDE DEF id
<1> DEFINE g == Wasted(grantInfo[d], a, a.tx + 1, id)
<1>4. /\ pc = "tx" /\ pc' = pc /\ d \in todo /\ todo' = todo \ {d}
      /\ halted' = "no" /\ poolIndex' = poolIndex
      /\ HasGrant(d) /\ granted' = granted /\ txQueueSize' = txQueueSize
      /\ IsFirst(a, grantInfo[d].slotAllocations) /\ a.sfn = 0
      /\ grantInfo' = [grantInfo EXCEPT ![d] = g]
  BY <1>1 DEF TxNow, TxTurn
<1>5. AfterTx(grantInfo[d], g, a, a.tx + 1, id)
  <2>1. grantInfo[d] \in NrSlGrantInfo /\ a.tx + 1 \in Nat
    BY <1>1, <1>2, GrantTypes
  <2> QED BY <1>3, <2>1, WastedLemma
<1>6. pkt.dst \notin Dsts \ {d} /\ harq.pkt[id].dst \notin Dsts \ {d} /\ ~harq.pkt[id].full
      /\ ~pkt.full
  BY <1>3, HarqIdsFacts DEF EmptyPkt
<1>7. /\ txBuffer' = txBuffer /\ rbsTimer' = rbsTimer /\ txInSlot' = txInSlot
      /\ ~(txBuffer'[d] > 0)
  BY <1>1 DEF rlcVars
<1> HIDE DEF g, pkt
<1>8. Turn(d, a, g, id, pkt)
  BY <1>1, <1>3, <1>4, <1>5, <1>6, <1>7 DEF Turn
<1>9. Skips(d, a, id)
  BY <1>1, <1>6, <1>7, <1>8 DEF Skips, g, pkt
<1> QED BY <1>3, <1>9

LEMMA ReTxSendsOrSkips ==
  ASSUME IInv, NEW d \in Dsts, ReTx(d)
  PROVE  \E a \in grantInfo[d].slotAllocations, id \in HarqIds : Sends(d, a, id) \/ Skips(d, a, id)
<1> DEFINE id == grantInfo[d].nrSlHarqId
           n == grantInfo[d].tbTxCounter + 1
           last == n = grantInfo[d].nSelected
           Sent(a) ==
             /\ harq' = Feedback(harq, d, id, last)
             /\ grantInfo' = [grantInfo EXCEPT ![d] = Used(grantInfo[d], a, n, id)]
             /\ halted' = FeedbackOutcome(harq, d, id, last)
             /\ txInSlot' = txInSlot \union {d}
           Skipped(a) ==
             /\ grantInfo' = [grantInfo EXCEPT ![d] = Wasted(grantInfo[d], a, n, id)]
             /\ UNCHANGED <<harq, txInSlot, halted>>
<1>1. PICK a \in grantInfo[d].slotAllocations :
        /\ TxNow(d, a) /\ a.tx # 0
        /\ (id # NoHarqId /\ harq.pkt[id].dst = d) =>
             IF harq.pkt[id].full THEN Sent(a) ELSE Skipped(a)
        /\ UNCHANGED rlcVars
  BY DEF ReTx
<1>2. harq \in HarqState /\ FreeIdsAreClean(harq) /\ TypeOK
  BY DEF IInv, TypeOK
<1>3. /\ pc = "tx" /\ pc' = pc /\ d \in todo /\ todo' = todo \ {d}
      /\ halted = "no" /\ poolIndex' = poolIndex
      /\ HasGrant(d) /\ granted' = granted /\ txQueueSize' = txQueueSize
      /\ IsFirst(a, grantInfo[d].slotAllocations) /\ a.sfn = 0
  BY <1>1 DEF TxNow, TxTurn
<1>4. grantInfo[d].tbTxCounter = a.tx /\ HoldsHarqId(d)
  BY <1>1, <1>3 DEF IInv, MidTb
<1>5. /\ id \in HarqIds /\ harq.pkt[id].dst = d /\ ~IsHarqIdAvailable(harq, id)
      /\ IF harq.pkt[id].full THEN Sent(a) ELSE Skipped(a)
  BY <1>1, <1>2, <1>4, GrantTypes DEF HoldsHarqId
<1>6. /\ harq.pkt \in [HarqIds -> PktInfo] /\ harq.pkt[id] = [dst |-> d, full |-> harq.pkt[id].full]
      /\ harq.pkt[id].full \in BOOLEAN
  <2>1. harq.pkt \in [HarqIds -> PktInfo]
    BY <1>2 DEF HarqState
  <2> QED BY <1>5, <2>1 DEF PktInfo
<1>7. /\ grantInfo[d] \in NrSlGrantInfo /\ n = a.tx + 1 /\ n \in Nat
      /\ n <= grantInfo[d].nSelected /\ grantInfo[d].nSelected \in Nat
  BY <1>2, <1>4, GrantTypes DEF IInv, Ordered, TxInRange, Alloc
<1> HIDE DEF id, n
<1>8. CASE harq.pkt[id].full
  <2> DEFINE pkt == IF a.tx + 1 = grantInfo[d].nSelected THEN EmptyPkt
                    ELSE [dst |-> d, full |-> TRUE]
             g == Used(grantInfo[d], a, a.tx + 1, id)
  <2>1. harq.pkt[id] = [dst |-> d, full |-> TRUE] /\ Sent(a)
    BY <1>5, <1>6, <1>8
  <2>2. /\ harq'.pkt = [harq.pkt EXCEPT ![id] = pkt]
        /\ \A other \in HarqIds \ {id} :
             IsHarqIdAvailable(harq', other) <=> IsHarqIdAvailable(harq, other)
        /\ a.tx + 1 = grantInfo[d].nSelected => IsHarqIdAvailable(harq', id)
    <3>1. CASE last
      <4>1. harq' = RecvNrSlHarqFeedback(harq, id) /\ pkt = EmptyPkt
        BY <1>7, <2>1, <3>1 DEF Feedback
      <4> HIDE DEF pkt
      <4> QED BY <1>2, <1>5, <4>1, FeedbackLemma
    <3>2. CASE ~last
      <4>1. harq' = harq /\ pkt = [dst |-> d, full |-> TRUE]
        BY <1>7, <2>1, <3>2 DEF Feedback
      <4> HIDE DEF pkt
      <4> QED BY <1>6, <1>7, <2>1, <3>2, <4>1
    <3> QED BY <3>1, <3>2
  <2>2a. halted' = "no"
    BY <1>5, <2>1 DEF FeedbackOutcome, FeedbackAborts
  <2>3. /\ pkt.full => pkt.dst = d /\ a.tx + 1 # grantInfo[d].nSelected
        /\ pkt.dst \notin Dsts \ {d} /\ harq.pkt[id].dst \notin Dsts \ {d}
    BY <2>1, HarqIdsFacts DEF EmptyPkt
  <2>4. AfterTx(grantInfo[d], g, a, a.tx + 1, id)
    BY <1>5, <1>7, UsedLemma
  <2>5. grantInfo' = [grantInfo EXCEPT ![d] = g] /\ txInSlot' = txInSlot \union {d}
    BY <1>7, <2>1
  <2> HIDE DEF pkt, g
  <2>6. Turn(d, a, g, id, pkt)
    BY <1>1, <1>3, <1>5, <1>7, <2>2, <2>2a, <2>3, <2>4, <2>5 DEF Turn, rlcVars, id
  <2>7. Sends(d, a, id)
    BY <1>1, <1>4, <2>1, <2>2, <2>5, <2>6 DEF Sends, pkt, g
  <2> QED BY <1>5, <2>7
<1>9. CASE ~harq.pkt[id].full
  <2> DEFINE pkt == [dst |-> d, full |-> FALSE]
             g == Wasted(grantInfo[d], a, a.tx + 1, id)
  <2>1. harq.pkt[id] = pkt /\ Skipped(a)
    BY <1>5, <1>6, <1>9
  <2>2. /\ harq'.pkt = [harq.pkt EXCEPT ![id] = pkt] /\ ~pkt.full /\ pkt.dst = d
        /\ harq' = harq /\ halted' = halted
    BY <1>6, <2>1
  <2>3. AfterTx(grantInfo[d], g, a, a.tx + 1, id)
    BY <1>5, <1>7, WastedLemma
  <2>4. grantInfo' = [grantInfo EXCEPT ![d] = g] /\ txInSlot' = txInSlot
    BY <1>7, <2>1
  <2> HIDE DEF pkt, g
  <2>5. Turn(d, a, g, id, pkt)
    BY <1>1, <1>3, <1>5, <1>7, <2>2, <2>3, <2>4 DEF Turn, rlcVars, id
  <2>6. Skips(d, a, id)
    BY <1>1, <1>5, <1>9, <2>4, <2>5 DEF Skips, pkt, g
  <2> QED BY <1>5, <2>6
<1> QED BY <1>8, <1>9

-----------------------------------------------------------------------------
(* How the invariant is kept.                                               *)
LEMMA ServiceInitLemma == Init => ServiceInv
<1> SUFFICES ASSUME Init PROVE ServiceInv
  OBVIOUS
<1>1. IInv
  BY InitLemma
<1>2. \A d \in Dsts : Woken(d)
  BY DEF Init, Woken
<1>3. Sound(DefaultGrant)
  <2>1. DefaultGrant.slotAllocations = {} /\ DefaultGrant.cReselCounter * DefaultGrant.nSelected = 0
    BY DEF DefaultGrant
  <2> QED BY <2>1, FS_EmptySet DEF Sound, Counted, Followed
<1>4. \A d \in Dsts : Sound(grantInfo[d])
  BY <1>3 DEF Init
<1>5. \A id \in HarqIds : ~harq.pkt[id].full
  BY DEF Init, InitHarqBuffer, EmptyPkt
<1>6. OncePerSlot
  BY DEF Init, OncePerSlot
<1> QED BY <1>1, <1>2, <1>4, <1>5, <1>6 DEF ServiceInv

(* The steps that leave grants and HARQ buffer alone.                       *)
LEMMA ServiceFrameLemma ==
  ASSUME ServiceInv, IInv', UNCHANGED <<granted, grantInfo, harq>>,
         \A d \in Dsts : Woken(d)', OncePerSlot'
  PROVE  ServiceInv'
<1>1. \A d \in Dsts : Sound(grantInfo[d])'
  BY DEF ServiceInv
<1>2. \A d \in Dsts, id \in HarqIds : Retransmits(d, id) => Retransmits(d, id)'
  BY DEF Retransmits, HasGrant
<1>3. \A id \in HarqIds : harq'.pkt[id].full => \E d \in Dsts : Retransmits(d, id)'
  BY <1>2 DEF ServiceInv
<1> QED BY <1>1, <1>3 DEF ServiceInv

LEMMA ServiceUpperLayerLemma ==
  ASSUME ServiceInv, IInv', NEW d \in Dsts, UpperLayer(d)
  PROVE  ServiceInv'
<1>1. TypeOK /\ \A e \in Dsts : Woken(e)
  BY DEF ServiceInv, IInv
<1>2. CASE TransmitNrSlPdcpPdu(d)
  <2>1. \A e \in Dsts : Woken(e)'
    BY <1>1, <1>2 DEF TransmitNrSlPdcpPdu, macVars, TypeOK, Woken, HasGrant
  <2>2. OncePerSlot'
    BY <1>2 DEF TransmitNrSlPdcpPdu, Idle, OncePerSlot
  <2> QED BY <1>2, <2>1, <2>2, ServiceFrameLemma DEF TransmitNrSlPdcpPdu, macVars
<1>3. CASE ExpireNrSlRbsTimer(d)
  <2>1. \A e \in Dsts : Woken(e)'
    BY <1>1, <1>3 DEF ExpireNrSlRbsTimer, macVars, TypeOK, Woken, HasGrant
  <2>2. OncePerSlot'
    BY <1>3 DEF ExpireNrSlRbsTimer, Idle, OncePerSlot
  <2> QED BY <1>3, <2>1, <2>2, ServiceFrameLemma DEF ExpireNrSlRbsTimer, macVars
<1> QED BY <1>2, <1>3 DEF UpperLayer

(* The steps that only move the place in the slot, or stop the program.     *)
Moves ==
  \/ EndOfSched \/ EndOfTx \/ UNCHANGED vars
  \/ \E d \in Dsts : SkipDst(d) \/ NoTxNow(d) \/ ReadEmptyGrant(d) \/ NoHarqProcess(d)

LEMMA ServiceMovesLemma ==
  ASSUME ServiceInv, IInv', Moves
  PROVE  ServiceInv'
<1>1. /\ UNCHANGED <<granted, grantInfo, harq, txInSlot>>
      /\ UNCHANGED <<txBuffer, rbsTimer, txQueueSize>>
      /\ \/ pc = "sched" /\ pc' \in {"sched", "tx"}
         \/ pc' = "tx" /\ pc = "tx" /\ todo' \subseteq todo
         \/ pc' = "idle"
         \/ pc' = pc /\ todo' = todo
  BY DEF Moves, EndOfSched, EndOfTx, SkipDst, NoTxNow, ReadEmptyGrant, NoHarqProcess,
         SchedTurn, TxTurn, TxNow, macVars, rlcVars, vars
<1>2. \A e \in Dsts : Woken(e)'
  BY <1>1 DEF ServiceInv, Woken, HasGrant
<1>3. OncePerSlot'
  BY <1>1 DEF ServiceInv, OncePerSlot
<1> QED BY <1>1, <1>2, <1>3, ServiceFrameLemma

LEMMA ServiceSlotIndicationLemma ==
  ASSUME ServiceInv, IInv', SlotIndication
  PROVE  ServiceInv'
<1>1. TypeOK /\ TypeOK'
  BY DEF ServiceInv, IInv
<1>2. ASSUME NEW d \in Dsts
      PROVE  /\ grantInfo'[d] \in NrSlGrantInfo
             /\ grantInfo'[d].slotAllocations = Advance(grantInfo[d].slotAllocations)
             /\ grantInfo'[d].nSelected = grantInfo[d].nSelected
             /\ grantInfo'[d].cReselCounter = grantInfo[d].cReselCounter
             /\ grantInfo'[d].nrSlHarqId = grantInfo[d].nrSlHarqId
             /\ grantInfo'[d].slResoReselCounter = grantInfo[d].slResoReselCounter
  <2>1. grantInfo'[d] = [grantInfo[d] EXCEPT !.slotAllocations = Advance(@)]
    BY DEF SlotIndication
  <2>2. grantInfo'[d] \in NrSlGrantInfo
    BY <1>1 DEF TypeOK
  <2> QED BY <1>1, <2>1, <2>2, GrantTypes DEF NrSlGrantInfo
<1>3. ASSUME NEW d \in Dsts
      PROVE  /\ Sound(grantInfo'[d])
             /\ \A b \in grantInfo'[d].slotAllocations : IsNext(b, grantInfo'[d]) =>
                  \E a \in grantInfo[d].slotAllocations : IsNext(a, grantInfo[d]) /\ a.tx = b.tx
  <2>1. /\ grantInfo[d] \in NrSlGrantInfo /\ Sound(grantInfo[d])
        /\ Ordered(grantInfo[d].slotAllocations, grantInfo[d].nSelected)
    BY <1>1, GrantTypes DEF ServiceInv, IInv
  <2> QED BY <1>2, <2>1, AdvanceSound
<1>4. /\ harq' = harq /\ granted' = granted /\ txInSlot' = {}
      /\ UNCHANGED <<txBuffer, rbsTimer, txQueueSize>>
  BY DEF SlotIndication, rlcVars
<1>5. ASSUME NEW d \in Dsts
      PROVE  Woken(d)'
  <2>1. Woken(d) /\ (HasGrant(d)' <=> HasGrant(d))
    BY <1>2, <1>4 DEF ServiceInv, HasGrant
  <2>2. ReTxNext(grantInfo[d])' => ReTxNext(grantInfo[d])
    BY <1>3 DEF ReTxNext
  <2> QED BY <1>4, <2>1, <2>2 DEF Woken
<1>6. ASSUME NEW d \in Dsts, NEW id \in HarqIds, Retransmits(d, id)
      PROVE  Retransmits(d, id)'
  <2>1. \E b \in grantInfo'[d].slotAllocations : b.tx # 0
    <3>1. PICK a \in grantInfo[d].slotAllocations : a.tx # 0
      BY <1>6 DEF Retransmits
    <3>2. [sfn |-> Passed(a.sfn), tx |-> a.tx] \in grantInfo'[d].slotAllocations
      BY <1>2 DEF Advance
    <3> QED BY <3>1, <3>2
  <2>2. \A b \in grantInfo'[d].slotAllocations : IsNext(b, grantInfo'[d]) => b.tx # 0
    BY <1>3, <1>6 DEF Retransmits
  <2> QED BY <1>2, <1>4, <1>6, <2>1, <2>2 DEF Retransmits, HasGrant
<1>7. \A id \in HarqIds : harq'.pkt[id].full => \E d \in Dsts : Retransmits(d, id)'
  BY <1>4, <1>6 DEF ServiceInv
<1>8. OncePerSlot'
  BY <1>4 DEF OncePerSlot
<1> QED BY <1>3, <1>5, <1>7, <1>8 DEF ServiceInv

(* The grant of d, which is not active, is replaced or kept.                *)
LEMMA ServiceReplaceLemma ==
  ASSUME ServiceInv, IInv', NEW d \in Dsts, SchedTurn(d), ~HasGrant(d), granted \subseteq granted',
         NEW g, grantInfo' = [grantInfo EXCEPT ![d] = g], Sound(g),
         \/ txQueueSize' = txQueueSize
         \/ /\ HasGrant(d)' /\ ~ReTxNext(g)
            /\ \A e \in Dsts \ {d} : txQueueSize'[e] = txQueueSize[e],
         granted' \subseteq granted \union {d}
  PROVE  ServiceInv'
<1>1. /\ grantInfo'[d] = g
      /\ \A e \in Dsts \ {d} : grantInfo'[e] = grantInfo[e]
  BY DEF ServiceInv, IInv, TypeOK
<1>2. /\ harq' = harq /\ txInSlot' = txInSlot /\ pc' = pc /\ pc = "sched"
      /\ txBuffer' = txBuffer /\ rbsTimer' = rbsTimer
  BY DEF SchedTurn, rlcVars
<1>3. \A e \in Dsts : Sound(grantInfo'[e])
  BY <1>1 DEF ServiceInv
<1>4. ASSUME NEW e \in Dsts
      PROVE  Woken(e)'
  <2>1. CASE e = d
    <3>1. txBuffer[d] > 0 => txQueueSize[d] > 0 \/ rbsTimer[d]
      BY DEF ServiceInv, Woken
    <3> QED BY <1>1, <1>2, <2>1, <3>1 DEF Woken
  <2>2. CASE e # d
    BY <1>1, <1>2, <2>2 DEF ServiceInv, Woken, HasGrant
  <2> QED BY <2>1, <2>2
<1>5. ASSUME NEW id \in HarqIds, harq'.pkt[id].full
      PROVE  \E e \in Dsts : Retransmits(e, id)'
  <2>1. PICK e \in Dsts : Retransmits(e, id)
    BY <1>2, <1>5 DEF ServiceInv
  <2>2. e # d
    BY <2>1 DEF Retransmits
  <2> QED BY <1>1, <1>2, <2>1, <2>2 DEF Retransmits, HasGrant
<1>6. OncePerSlot'
  BY <1>2 DEF ServiceInv, OncePerSlot
<1> QED BY <1>3, <1>4, <1>5, <1>6 DEF ServiceInv

LEMMA ServiceKeepLemma ==
  ASSUME ServiceInv, IInv', NEW d \in Dsts, Keep(d)
  PROVE  ServiceInv'
<1> DEFINE g == [grantInfo[d] EXCEPT !.slResoReselCounter = grantInfo[d].prevSlResoReselCounter]
<1>1. /\ SchedTurn(d) /\ ~HasGrant(d)
      /\ grantInfo' = [grantInfo EXCEPT ![d] = g]
      /\ txQueueSize' = txQueueSize /\ granted' = granted
  BY DEF Keep
<1>2. Sound(grantInfo[d]) /\ grantInfo[d] \in NrSlGrantInfo
  BY GrantTypes DEF ServiceInv, IInv
<1>3. /\ g.slotAllocations = grantInfo[d].slotAllocations
      /\ g.nSelected = grantInfo[d].nSelected /\ g.cReselCounter = grantInfo[d].cReselCounter
  BY <1>2 DEF NrSlGrantInfo
<1> HIDE DEF g
<1>4. Sound(g)
  BY <1>2, <1>3 DEF Sound, Counted, IsNext
<1> QED BY <1>1, <1>4, ServiceReplaceLemma

LEMMA ServiceReselectLemma ==
  ASSUME ServiceInv, IInv', NEW d \in Dsts, Reselect(d)
  PROVE  ServiceInv'
<1>1. SchedTurn(d) /\ ~HasGrant(d) /\ TypeOK
  BY DEF Reselect, ServiceInv, IInv
<1>2. PICK opps \in TxOpportunities :
        LET filtered == FilterTxOpportunities(opps, d)
        IN \/ /\ grantInfo' = [grantInfo EXCEPT ![d].slotAllocations = {}]
              /\ UNCHANGED <<txQueueSize, granted, halted>>
           \/ /\ filtered # {}
              /\ \E reselCounter \in ReselCounters, list \in SlotAllocLists(filtered) :
                   grantInfo' = [grantInfo EXCEPT ![d] = CreateGrantInfo(list, reselCounter)]
              /\ \E left \in 0 .. txQueueSize[d] :
                   txQueueSize' = [txQueueSize EXCEPT ![d] = left]
              /\ granted' = granted \union {d}
  BY DEF Reselect, SchedUeNrSlConfigInd, AssignedData
<1> DEFINE filtered == FilterTxOpportunities(opps, d)
           Cleared ==
             /\ grantInfo' = [grantInfo EXCEPT ![d].slotAllocations = {}]
             /\ UNCHANGED <<txQueueSize, granted, halted>>
           Created ==
             /\ filtered # {}
             /\ \E reselCounter \in ReselCounters, list \in SlotAllocLists(filtered) :
                  grantInfo' = [grantInfo EXCEPT ![d] = CreateGrantInfo(list, reselCounter)]
             /\ \E left \in 0 .. txQueueSize[d] :
                  txQueueSize' = [txQueueSize EXCEPT ![d] = left]
             /\ granted' = granted \union {d}
<1>3. Cleared \/ Created
  BY <1>2, Zenon
<1>4. filtered \in SUBSET (T1 .. T2)
  BY DEF FilterTxOpportunities, TxOpportunities, SelectionWindow
<1> HIDE DEF filtered
<1>5. CASE Cleared
  <2> DEFINE g == [grantInfo[d] EXCEPT !.slotAllocations = {}]
  <2>1. g.slotAllocations = {} /\ g.cReselCounter * g.nSelected \in Nat
    <3>1. /\ grantInfo[d].cReselCounter \in Nat /\ grantInfo[d].nSelected \in Nat
          /\ grantInfo[d] \in NrSlGrantInfo
      BY <1>1, GrantTypes, MaxUint16Type
    <3>2. /\ g.slotAllocations = {} /\ g.cReselCounter = grantInfo[d].cReselCounter
          /\ g.nSelected = grantInfo[d].nSelected
      BY <3>1 DEF NrSlGrantInfo
    <3> QED BY <3>1, <3>2
  <2>2. grantInfo' = [grantInfo EXCEPT ![d] = g]
    BY <1>5
  <2> HIDE DEF g
  <2>3. Sound(g)
    BY <2>1, FS_EmptySet DEF Sound, Counted, Followed
  <2> QED BY <1>1, <1>5, <2>2, <2>3, ServiceReplaceLemma
<1>6. CASE Created
  <2>1. PICK reselCounter \in ReselCounters, list \in SlotAllocLists(filtered) :
          grantInfo' = [grantInfo EXCEPT ![d] = CreateGrantInfo(list, reselCounter)]
    BY <1>6
  <2> DEFINE g == CreateGrantInfo(list, reselCounter)
  <2>2. Sound(g)
    BY <1>4, <1>6, CreateSound
  <2>3. \A a \in g.slotAllocations : IsFirst(a, g.slotAllocations) => a.tx = 0
    BY <1>4, <1>6, CreateLemma
  <2>4. g.slResoReselCounter = reselCounter /\ reselCounter \in Nat
    BY MacAssumption DEF CreateGrantInfo
  <2>5. grantInfo' = [grantInfo EXCEPT ![d] = g]
    BY <2>1
  <2> HIDE DEF g
  <2>6. HasGrant(d)' /\ ~ReTxNext(g)
    BY <1>1, <1>6, <2>3, <2>4, <2>5 DEF HasGrant, ReTxNext, IsNext, TypeOK
  <2>7. \A e \in Dsts \ {d} : txQueueSize'[e] = txQueueSize[e]
    BY <1>1, <1>6 DEF TypeOK
  <2>8. granted \subseteq granted' /\ granted' \subseteq granted \union {d}
    BY <1>6
  <2> QED BY <1>1, <2>2, <2>5, <2>6, <2>7, <2>8, ServiceReplaceLemma
<1> HIDE DEF Cleared, Created
<1> QED BY <1>3, <1>5, <1>6

LEMMA ServiceTurnLemma ==
  ASSUME ServiceInv, IInv', NEW d \in Dsts, NEW a \in grantInfo[d].slotAllocations,
         NEW g, NEW id, NEW pkt, Turn(d, a, g, id, pkt),
         txInSlot' \subseteq txInSlot \union {d}
  PROVE  ServiceInv'
<1>1. TypeOK /\ harq.pkt \in [HarqIds -> PktInfo]
  BY DEF ServiceInv, IInv, TypeOK, HarqState
<1>2. /\ grantInfo'[d] = g /\ granted' = granted
      /\ \A e \in Dsts \ {d} : grantInfo'[e] = grantInfo[e]
  BY <1>1 DEF Turn, TypeOK
<1>3. /\ harq'.pkt[id] = pkt
      /\ \A other \in HarqIds \ {id} : harq'.pkt[other] = harq.pkt[other]
  BY <1>1 DEF Turn
<1>4. IsNext(a, grantInfo[d]) /\ AfterTx(grantInfo[d], g, a, a.tx + 1, id)
  BY DEF Turn, IsNext
<1>5. /\ Sound(g)
      /\ a.tx \in Nat /\ a.tx + 1 <= grantInfo[d].nSelected
      /\ a.tx + 1 < grantInfo[d].nSelected =>
           /\ \E b \in g.slotAllocations : b.tx # 0
           /\ \A b \in g.slotAllocations : IsNext(b, g) => b.tx # 0
  <2> DEFINE old == grantInfo[d]
  <2>1. /\ old \in NrSlGrantInfo /\ Sound(old) /\ Ordered(old.slotAllocations, old.nSelected)
        /\ a \in old.slotAllocations /\ IsFirst(a, old.slotAllocations) /\ a.sfn = 0
        /\ AfterTx(old, g, a, a.tx + 1, id)
    BY <1>1, GrantTypes DEF ServiceInv, IInv, Turn
  <2> HIDE DEF old
  <2>2. /\ g \in NrSlGrantInfo /\ g.slotAllocations = old.slotAllocations \ {a}
        /\ g.nSelected = old.nSelected
        /\ \/ g.cReselCounter = old.cReselCounter
           \/ /\ a.tx + 1 = old.nSelected
              /\ g.cReselCounter = (old.cReselCounter - 1) % (MaxUint16 + 1)
    BY <2>1 DEF AfterTx
  <2>3. /\ Sound(g)
        /\ a.tx \in Nat /\ a.tx + 1 <= old.nSelected
        /\ a.tx + 1 < old.nSelected =>
             /\ \E b \in g.slotAllocations : b.tx # 0
             /\ \A b \in g.slotAllocations : IsNext(b, g) => b.tx # 0
    BY <2>1, <2>2, EraseSound
  <2> QED BY <2>3 DEF old
<1>6. \A e \in Dsts : Sound(grantInfo'[e])
  BY <1>2, <1>5 DEF ServiceInv
<1>7. ASSUME NEW e \in Dsts
      PROVE  Woken(e)'
  <2>1. CASE e # d
    BY <1>2, <2>1 DEF ServiceInv, Woken, HasGrant, Turn
  <2>2. CASE e = d /\ a.tx = 0
    BY <2>2 DEF Woken, Turn
  <2>3. CASE e = d /\ a.tx # 0
    <3>1. ReTxNext(grantInfo[d])
      BY <1>4, <2>3 DEF ReTxNext
    <3>2. txBuffer[d] > 0 => txQueueSize[d] > 0 \/ rbsTimer[d]
      BY <3>1 DEF ServiceInv, Woken
    <3> QED BY <2>3, <3>2 DEF Woken, Turn, rlcVars
  <2> QED BY <2>1, <2>2, <2>3
<1>8. ASSUME NEW x \in HarqIds, harq'.pkt[x].full
      PROVE  \E e \in Dsts : Retransmits(e, x)'
  <2>1. CASE x = id
    <3>1. pkt.dst = d /\ a.tx + 1 # grantInfo[d].nSelected
      BY <1>3, <1>8, <2>1 DEF Turn
    <3>2. /\ g.slResoReselCounter = grantInfo[d].slResoReselCounter /\ g.nrSlHarqId = id
      BY <1>4, <3>1 DEF AfterTx
    <3>3. a.tx + 1 < grantInfo[d].nSelected
      <4>1. grantInfo[d].nSelected \in Nat
        BY <1>1, GrantTypes
      <4> QED BY <1>5, <3>1, <4>1
    <3>4. HasGrant(d)'
      BY <1>2, <3>2 DEF Turn, HasGrant
    <3>5. Retransmits(d, x)'
      BY <1>2, <1>3, <1>5, <2>1, <3>1, <3>2, <3>3, <3>4 DEF Retransmits
    <3> QED BY <3>5
  <2>2. CASE x # id
    <3>1. PICK e \in Dsts : Retransmits(e, x)
      BY <1>3, <1>8, <2>2 DEF ServiceInv
    <3>2. e # d
      BY <1>4, <2>2, <3>1 DEF Retransmits, Turn
    <3>3. Retransmits(e, x)'
      BY <1>2, <1>3, <2>2, <3>1, <3>2 DEF Retransmits, HasGrant
    <3> QED BY <3>3
  <2> QED BY <2>1, <2>2
<1>9. OncePerSlot'
  BY DEF ServiceInv, OncePerSlot, Turn
<1> QED BY <1>6, <1>7, <1>8, <1>9 DEF ServiceInv

(* A step of a grant that is none of Moves sends or skips a transmission.   *)
LEMMA TxGrantCases ==
  ASSUME IInv, NEW d \in Dsts, TxGrant(d)
  PROVE  \/ Moves
         \/ \E a \in grantInfo[d].slotAllocations, id \in HarqIds :
              Sends(d, a, id) \/ Skips(d, a, id)
BY NewTxSends, NewTxWastedSkips, ReTxSendsOrSkips DEF TxGrant, Moves

LEMMA ServiceNextLemma == ServiceInv /\ [Next]_vars => ServiceInv'
<1> SUFFICES ASSUME ServiceInv, [Next]_vars PROVE ServiceInv'
  OBVIOUS
<1>0. IInv /\ IInv'
  BY NextLemma DEF ServiceInv
<1>1. CASE SlotIndication
  BY <1>0, <1>1, ServiceSlotIndicationLemma
<1>2. CASE EndOfSched \/ EndOfTx \/ Stopped \/ UNCHANGED vars
  BY <1>0, <1>2, ServiceMovesLemma DEF Moves, Stopped
<1>3. ASSUME NEW d \in Dsts, SchedDst(d)
      PROVE  ServiceInv'
  BY <1>0, <1>3, ServiceMovesLemma, ServiceKeepLemma, ServiceReselectLemma DEF SchedDst, Moves
<1>4. ASSUME NEW d \in Dsts, TxGrant(d)
      PROVE  ServiceInv'
  <2>1. CASE Moves
    BY <1>0, <2>1, ServiceMovesLemma
  <2>2. CASE \E a \in grantInfo[d].slotAllocations, id \in HarqIds :
               Sends(d, a, id) \/ Skips(d, a, id)
    <3>1. PICK a \in grantInfo[d].slotAllocations, id \in HarqIds :
            Sends(d, a, id) \/ Skips(d, a, id)
      BY <2>2
    <3>2. CASE Sends(d, a, id)
      BY <1>0, <3>2, ServiceTurnLemma DEF Sends
    <3>3. CASE Skips(d, a, id)
      BY <1>0, <3>3, ServiceTurnLemma DEF Skips
    <3> QED BY <3>1, <3>2, <3>3
  <2> QED BY <1>0, <1>4, <2>1, <2>2, TxGrantCases
<1>5. ASSUME NEW d \in Dsts, UpperLayer(d)
      PROVE  ServiceInv'
  BY <1>0, <1>5, ServiceUpperLayerLemma
<1> QED BY <1>1, <1>2, <1>3, <1>4, <1>5 DEF Next, Slot

(* Every reachable state satisfies the further invariant: data, counters    *)
(* and buffered TBs agree with the grants.                                  *)
THEOREM ServiceInvariant == Spec => []ServiceInv
<1>1. Init => ServiceInv
  BY ServiceInitLemma
<1>2. ServiceInv /\ [Next]_vars => ServiceInv'
  BY ServiceNextLemma
<1> QED BY <1>1, <1>2, PTL DEF Spec

(* Data in an RLC queue is never forgotten: its destination has a grant,    *)
(* the scheduler knows of it, or the timer that tells it is running.        *)
THEOREM NoLostWakeupHolds == Spec => []NoLostWakeup
<1>1. ServiceInv => NoLostWakeup
  BY DEF ServiceInv, Woken, NoLostWakeup
<1> QED BY <1>1, ServiceInvariant, PTL

(* cReselCounter, unsigned and never tested for zero, covers the            *)
(* allocations that are left: it does not wrap around.                      *)
THEOREM CReselCoversAllocationsHolds == Spec => []CReselCoversAllocations
<1>1. ServiceInv => CReselCoversAllocations
  BY DEF ServiceInv, IInv, TypeOK, Sound, Counted, CReselCoversAllocations
<1> QED BY <1>1, ServiceInvariant, PTL

(* A burst in the HARQ buffer belongs to an active grant with               *)
(* retransmissions ahead: none is stranded.                                 *)
THEOREM BufferedTbHasGrantHolds == Spec => []BufferedTbHasGrant
<1>1. ServiceInv => BufferedTbHasGrant
  BY DEF ServiceInv, Retransmits, HasGrant, BufferedTbHasGrant
<1> QED BY <1>1, ServiceInvariant, PTL

-----------------------------------------------------------------------------
(* The refinement.                                                          *)

(* A destination without an active grant, or whose next transmission is one *)
(* of new data, has nothing on the air.                                     *)
LEMMA OffAirLemma ==
  ASSUME ServiceInv, NEW d \in Dsts,
         \/ ~HasGrant(d)
         \/ \E a \in grantInfo[d].slotAllocations : IsNext(a, grantInfo[d]) /\ a.tx = 0
  PROVE  ~OnAir(d)
<1> SUFFICES ASSUME OnAir(d) PROVE FALSE
  OBVIOUS
<1> DEFINE id == grantInfo[d].nrSlHarqId
<1>1. id \in HarqIds /\ harq.pkt[id].full /\ harq.pkt[id].dst = d
  BY GrantTypes DEF OnAir, ServiceInv, IInv
<1>2. PICK e \in Dsts : Retransmits(e, id)
  BY <1>1 DEF ServiceInv
<1>3. e = d
  BY <1>1, <1>2 DEF Retransmits
<1> QED BY <1>2, <1>3 DEF Retransmits

(* What is on the air depends on three fields of the grant and the HARQ     *)
(* buffer.                                                                  *)
LEMMA SameOnAirLemma ==
  ASSUME harq' = harq,
         \A d \in Dsts :
           \/ /\ grantInfo'[d].nrSlHarqId = grantInfo[d].nrSlHarqId
              /\ grantInfo'[d].tbTxCounter = grantInfo[d].tbTxCounter
              /\ grantInfo'[d].nSelected = grantInfo[d].nSelected
           \/ ~OnAir(d) /\ ~OnAir(d)'
  PROVE  TbOnAir' = TbOnAir
BY DEF TbOnAir, OnAir

LEMMA SlotIndicationRefines ==
  ASSUME ServiceInv, SlotIndication
  PROVE  Service!NewSlot
<1>1. \A d \in Dsts : grantInfo'[d] = [grantInfo[d] EXCEPT !.slotAllocations = Advance(@)]
  BY DEF SlotIndication
<1>2. \A d \in Dsts : grantInfo[d] \in NrSlGrantInfo
  BY GrantTypes DEF ServiceInv, IInv
<1>3. \A d \in Dsts : /\ grantInfo'[d].nrSlHarqId = grantInfo[d].nrSlHarqId
                      /\ grantInfo'[d].tbTxCounter = grantInfo[d].tbTxCounter
                      /\ grantInfo'[d].nSelected = grantInfo[d].nSelected
  BY <1>1, <1>2 DEF NrSlGrantInfo
<1>4. harq' = harq /\ txInSlot' = {}
  BY DEF SlotIndication
<1> QED BY <1>3, <1>4, SameOnAirLemma DEF Service!NewSlot

LEMMA SchedDstRefines ==
  ASSUME ServiceInv, NEW d \in Dsts, Keep(d) \/ Reselect(d)
  PROVE  UNCHANGED <<txInSlot, TbOnAir>>
<1>1. harq' = harq /\ txInSlot' = txInSlot /\ ~HasGrant(d)
  BY DEF Keep, Reselect, SchedTurn
<1>2. \A e \in Dsts : grantInfo[e] \in NrSlGrantInfo
  BY GrantTypes DEF ServiceInv, IInv
<1>3. grantInfo \in [Dsts -> NrSlGrantInfo]
  BY DEF ServiceInv, IInv, TypeOK
<1>4. ~OnAir(d)
  BY <1>1, OffAirLemma
<1>5. PICK g :
        /\ grantInfo' = [grantInfo EXCEPT ![d] = g]
        /\ g.nrSlHarqId = grantInfo[d].nrSlHarqId \/ g.nrSlHarqId = NoHarqId
  <2>1. CASE Keep(d)
    <3> DEFINE g == [grantInfo[d] EXCEPT !.slResoReselCounter = grantInfo[d].prevSlResoReselCounter]
    <3>1. grantInfo' = [grantInfo EXCEPT ![d] = g]
      BY <2>1 DEF Keep
    <3>2. g.nrSlHarqId = grantInfo[d].nrSlHarqId
      BY <1>2 DEF NrSlGrantInfo
    <3> QED BY <3>1, <3>2
  <2>2. CASE Reselect(d)
    <3> DEFINE g == [grantInfo[d] EXCEPT !.slotAllocations = {}]
    <3>1. \/ grantInfo' = [grantInfo EXCEPT ![d] = g]
          \/ \E reselCounter, list : grantInfo' = [grantInfo EXCEPT ![d] = CreateGrantInfo(list, reselCounter)]
      BY <2>2 DEF Reselect, SchedUeNrSlConfigInd
    <3>2. g.nrSlHarqId = grantInfo[d].nrSlHarqId
      BY <1>2 DEF NrSlGrantInfo
    <3>3. \A reselCounter, list : CreateGrantInfo(list, reselCounter).nrSlHarqId = NoHarqId
      BY DEF CreateGrantInfo
    <3> QED BY <3>1, <3>2, <3>3
  <2> QED BY <2>1, <2>2
<1>6. ~OnAir(d)'
  BY <1>1, <1>3, <1>4, <1>5 DEF OnAir
<1>7. \A e \in Dsts \ {d} : grantInfo'[e] = grantInfo[e]
  BY <1>3, <1>5
<1> QED BY <1>1, <1>4, <1>6, <1>7, SameOnAirLemma

LEMMA MovesRefines ==
  ASSUME Moves \/ \E d \in Dsts : UpperLayer(d)
  PROVE  UNCHANGED <<txInSlot, TbOnAir>>
<1>1. UNCHANGED <<grantInfo, harq, txInSlot>>
  BY DEF Moves, EndOfSched, EndOfTx, SkipDst, NoTxNow, ReadEmptyGrant, NoHarqProcess,
         SchedTurn, TxTurn, TxNow, macVars, rlcVars, vars,
         UpperLayer, TransmitNrSlPdcpPdu, ExpireNrSlRbsTimer
<1> QED BY <1>1 DEF TbOnAir, OnAir

(* The turn of d changes what is on the air for d only.                     *)
LEMMA TurnOnAir ==
  ASSUME ServiceInv, NEW d \in Dsts, NEW a, NEW g, NEW id, NEW pkt, Turn(d, a, g, id, pkt)
  PROVE  /\ TbOnAir' = [TbOnAir EXCEPT ![d] = TbOnAir'[d]]
         /\ OnAir(d)' <=> pkt = [dst |-> d, full |-> TRUE]
         /\ grantInfo'[d] = g
<1>1. TypeOK /\ harq.pkt \in [HarqIds -> PktInfo]
  BY DEF ServiceInv, IInv, TypeOK, HarqState
<1>2. /\ grantInfo'[d] = g
      /\ \A e \in Dsts \ {d} : grantInfo'[e] = grantInfo[e]
  BY <1>1 DEF Turn, TypeOK
<1>3. /\ harq'.pkt[id] = pkt /\ id \in HarqIds
      /\ \A other \in HarqIds \ {id} : harq'.pkt[other] = harq.pkt[other]
  BY <1>1 DEF Turn
<1>4. OnAir(d)' <=> pkt = [dst |-> d, full |-> TRUE]
  <2>1. g.nrSlHarqId = id /\ id # NoHarqId
    BY <1>3, HarqIdsFacts DEF Turn, AfterTx
  <2> QED BY <1>2, <1>3, <2>1 DEF OnAir
<1>5. ASSUME NEW e \in Dsts \ {d}
      PROVE  OnAir(e)' <=> OnAir(e)
  <2> DEFINE own == grantInfo[e].nrSlHarqId
  <2>1. grantInfo'[e].nrSlHarqId = own /\ own \in HarqIds \union {NoHarqId}
    BY <1>1, <1>2, GrantTypes
  <2>2. CASE own = id
    <3>1. pkt.dst # e /\ harq.pkt[id].dst # e
      BY DEF Turn
    <3> QED BY <1>3, <2>1, <2>2, <3>1 DEF OnAir
  <2>3. CASE own \in HarqIds \ {id}
    BY <1>3, <2>1, <2>3 DEF OnAir
  <2>4. CASE own = NoHarqId
    BY <2>1, <2>4 DEF OnAir
  <2> QED BY <2>1, <2>2, <2>3, <2>4
<1>6. \A e \in Dsts \ {d} : TbOnAir'[e] = TbOnAir[e]
  BY <1>2, <1>5 DEF TbOnAir
<1>7. TbOnAir' = [e \in Dsts |-> TbOnAir'[e]] /\ TbOnAir = [e \in Dsts |-> TbOnAir[e]]
  BY DEF TbOnAir
<1>8. TbOnAir' = [TbOnAir EXCEPT ![d] = TbOnAir'[d]]
  BY <1>6, <1>7
<1> QED BY <1>2, <1>4, <1>8

LEMMA SkipsRefines ==
  ASSUME ServiceInv, NEW d \in Dsts, NEW a \in grantInfo[d].slotAllocations,
         NEW id \in HarqIds, Skips(d, a, id)
  PROVE  UNCHANGED <<txInSlot, TbOnAir>>
<1> DEFINE g == Wasted(grantInfo[d], a, a.tx + 1, id)
           pkt == [dst |-> d, full |-> FALSE]
<1>1. Turn(d, a, g, id, pkt) /\ txInSlot' = txInSlot /\ ~harq.pkt[id].full
  BY DEF Skips
<1>2. TbOnAir' = [TbOnAir EXCEPT ![d] = TbOnAir'[d]] /\ ~OnAir(d)'
  <2>1. pkt # [dst |-> d, full |-> TRUE]
    OBVIOUS
  <2> HIDE DEF g, pkt
  <2> QED BY <1>1, <2>1, TurnOnAir
<1>3. ~OnAir(d)
  <2>1. CASE a.tx = 0
    <3>1. IsNext(a, grantInfo[d])
      BY <1>1 DEF Turn, IsNext
    <3> QED BY <2>1, <3>1, OffAirLemma
  <2>2. CASE a.tx # 0
    <3>1. grantInfo[d].nrSlHarqId = id
      BY <1>1, <2>2 DEF Turn
    <3> QED BY <1>1, <3>1 DEF OnAir
  <2> QED BY <2>1, <2>2
<1>4. TbOnAir'[d] = TbOnAir[d]
  BY <1>2, <1>3 DEF TbOnAir
<1>5. TbOnAir = [e \in Dsts |-> TbOnAir[e]]
  BY DEF TbOnAir
<1> QED BY <1>1, <1>2, <1>4, <1>5

LEMMA SendsRefines ==
  ASSUME ServiceInv, NEW d \in Dsts, NEW a \in grantInfo[d].slotAllocations,
         NEW id \in HarqIds, Sends(d, a, id)
  PROVE  Service!First(d) \/ Service!Repeat(d)
<1> DEFINE g == Used(grantInfo[d], a, a.tx + 1, id)
           total == grantInfo[d].nSelected
           pkt == IF a.tx + 1 = total THEN EmptyPkt ELSE [dst |-> d, full |-> TRUE]
<1>1. Turn(d, a, g, id, pkt) /\ txInSlot' = txInSlot \union {d}
  BY DEF Sends
<1>2. TypeOK /\ a.tx \in Nat
  BY GrantTypes DEF ServiceInv, IInv, Alloc
<1>3. /\ TbOnAir' = [TbOnAir EXCEPT ![d] = TbOnAir'[d]]
      /\ OnAir(d)' <=> pkt = [dst |-> d, full |-> TRUE]
      /\ grantInfo'[d] = g
  <2> HIDE DEF g, pkt
  <2> QED BY <1>1, TurnOnAir
<1>4. AfterTx(grantInfo[d], g, a, a.tx + 1, id)
  BY <1>1 DEF Turn
<1>5. txInSlot = {}
  <2> SUFFICES ASSUME NEW e \in txInSlot PROVE FALSE
    OBVIOUS
  <2>1. e # d
    BY <1>1 DEF ServiceInv, OncePerSlot, Turn
  <2>2. SlotTaken(e) /\ e \in Dsts
    BY <1>2 DEF ServiceInv, IInv, TypeOK
  <2>3. a.sfn = 0
    BY <1>1 DEF Turn
  <2> QED BY <2>1, <2>2, <2>3 DEF SlotTaken
<1>6. TbOnAir'[d] = IF a.tx + 1 = total THEN Service!NoTb
                    ELSE [id |-> id, sent |-> a.tx + 1, total |-> total]
  <2>1. CASE a.tx + 1 = total
    <3>1. ~OnAir(d)'
      BY <1>3, <2>1 DEF EmptyPkt
    <3> QED BY <2>1, <3>1 DEF TbOnAir, Service!NoTb
  <2>2. CASE a.tx + 1 # total
    <3>1. g.nrSlHarqId = id /\ g.tbTxCounter = a.tx + 1 /\ g.nSelected = total
      BY <1>4, <2>2 DEF AfterTx
    <3>2. OnAir(d)'
      BY <1>3, <2>2
    <3> HIDE DEF g, total
    <3> QED BY <1>3, <2>2, <3>1, <3>2 DEF TbOnAir
  <2> QED BY <2>1, <2>2
<1>7. Service!Send(d, id, a.tx + 1, total)
  BY <1>1, <1>3, <1>5, <1>6 DEF Service!Send
<1>8. CASE a.tx = 0
  <2>1. IsNext(a, grantInfo[d])
    BY <1>1 DEF Turn, IsNext
  <2>2. TbOnAir[d] = Service!NoTb
    BY <1>8, <2>1, OffAirLemma DEF TbOnAir, Service!NoTb
  <2>3. ASSUME NEW e \in Dsts
        PROVE  TbOnAir[e].id # id
    <3>1. harq.pkt[id] = EmptyPkt /\ id # NoHarqId
      BY <1>8, HarqIdsFacts DEF Sends
    <3>2. CASE OnAir(e)
      <4>1. TbOnAir[e].id = grantInfo[e].nrSlHarqId
        BY <3>2 DEF TbOnAir
      <4> QED BY <3>1, <3>2, <4>1 DEF OnAir, EmptyPkt
    <3>3. CASE ~OnAir(e)
      BY <3>1, <3>3 DEF TbOnAir
    <3> QED BY <3>2, <3>3
  <2>4. total \in Totals
    BY DEF ServiceInv, Sound
  <2>5. Service!Send(d, id, 1, total)
    BY <1>7, <1>8
  <2> HIDE DEF total
  <2> QED BY <2>2, <2>3, <2>4, <2>5 DEF Service!First, Totals
<1>9. CASE a.tx # 0
  <2>1. /\ harq.pkt[id] = [dst |-> d, full |-> TRUE] /\ grantInfo[d].tbTxCounter = a.tx
        /\ grantInfo[d].nrSlHarqId = id /\ id # NoHarqId
    BY <1>1, <1>9, HarqIdsFacts DEF Sends, Turn
  <2>2. TbOnAir[d] = [id |-> id, sent |-> a.tx, total |-> total]
    BY <2>1 DEF TbOnAir, OnAir
  <2>3. TbOnAir[d] # Service!NoTb
    BY <2>1, <2>2 DEF Service!NoTb
  <2>4. /\ TbOnAir[d].id = id /\ TbOnAir[d].sent + 1 = a.tx + 1 /\ TbOnAir[d].total = total
    BY <2>2
  <2> QED BY <1>7, <2>3, <2>4 DEF Service!Repeat
<1> QED BY <1>8, <1>9

LEMMA InitRefines == Init => Service!Init
<1> SUFFICES ASSUME Init PROVE Service!Init
  OBVIOUS
<1>1. \A d \in Dsts : ~OnAir(d)
  BY DEF Init, OnAir, DefaultGrant
<1> QED BY <1>1 DEF Init, Service!Init, TbOnAir, Service!NoTb

LEMMA NextRefines == ServiceInv /\ [Next]_vars => [Service!Next]_<<txInSlot, TbOnAir>>
<1> SUFFICES ASSUME ServiceInv, [Next]_vars
             PROVE  Service!Next \/ UNCHANGED <<txInSlot, TbOnAir>>
  OBVIOUS
<1>0. IInv
  BY DEF ServiceInv
<1>1. CASE SlotIndication
  BY <1>1, SlotIndicationRefines DEF Service!Next
<1>2. CASE EndOfSched \/ EndOfTx \/ Stopped \/ UNCHANGED vars
  BY <1>2, MovesRefines DEF Moves, Stopped
<1>3. CASE \E d \in Dsts : SchedDst(d)
  BY <1>3, MovesRefines, SchedDstRefines DEF SchedDst, Moves
<1>4. ASSUME NEW d \in Dsts, TxGrant(d)
      PROVE  Service!Next \/ UNCHANGED <<txInSlot, TbOnAir>>
  <2>1. CASE Moves
    BY <2>1, MovesRefines
  <2>2. CASE \E a \in grantInfo[d].slotAllocations, id \in HarqIds :
               Sends(d, a, id) \/ Skips(d, a, id)
    BY <2>2, SendsRefines, SkipsRefines DEF Service!Next
  <2> QED BY <1>0, <1>4, <2>1, <2>2, TxGrantCases
<1>5. CASE \E d \in Dsts : UpperLayer(d)
  BY <1>5, MovesRefines
<1> QED BY <1>1, <1>2, <1>3, <1>4, <1>5 DEF Next, Slot

(* What the receivers see is the blind retransmission service, for any      *)
(* number of destinations and HARQ processes, any pool, window, period and  *)
(* counters, whatever the scheduler answers and the grants are kept.        *)
THEOREM ImplementsService == Spec => BlindRetransmission
<1>1. Init => Service!Init
  BY InitRefines
<1>2. ServiceInv /\ [Next]_vars => [Service!Next]_<<txInSlot, TbOnAir>>
  BY NextRefines
<1> QED BY <1>1, <1>2, ServiceInvariant, PTL DEF Spec, BlindRetransmission, Service!Spec
=============================================================================
