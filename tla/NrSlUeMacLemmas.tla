-------------------------- MODULE NrSlUeMacLemmas --------------------------
(***************************************************************************)
(* What the operations of the HARQ entity do to its FIFO and its entries,  *)
(* and what creating, ageing and using a grant does to the order of its    *)
(* allocations.                                                            *)
(***************************************************************************)
EXTENDS NrSlUeMacInv, SequenceTheorems, FiniteSetTheorems, TLAPS

LEMMA HarqIdsFacts ==
  /\ NoHarqId \notin HarqIds
  /\ EmptyPkt \in PktInfo
  /\ EmptyPkt.dst \notin Dsts
BY HarqAssumption DEF NoHarqId, HarqIds, EmptyPkt, PktInfo

(* The initial FIFO holds every id once.                                    *)
LEMMA InitHarqLemma ==
  /\ InitHarqBuffer \in HarqState
  /\ FreeIdsAreClean(InitHarqBuffer)
<1> DEFINE s == [i \in 1 .. NumSidelinkProcess |-> i - 1]
<1>1. NumSidelinkProcess \in Nat
  BY HarqAssumption
<1>2. s \in Seq(HarqIds)
  <2>1. s \in [1 .. NumSidelinkProcess -> HarqIds]
    BY <1>1 DEF HarqIds
  <2> QED BY <1>1, <2>1
<1>3. DOMAIN s = 1 .. NumSidelinkProcess
  OBVIOUS
<1>4. InitHarqBuffer = [ids |-> s, pkt |-> [id \in HarqIds |-> EmptyPkt]]
  BY DEF InitHarqBuffer
<1>5. InitHarqBuffer \in HarqState
  BY <1>2, <1>4, HarqIdsFacts DEF HarqState
<1>6. FreeIdsAreClean(InitHarqBuffer)
  <2>1. \A i \in DOMAIN s : s[i] \in HarqIds
    BY <1>1, <1>3 DEF HarqIds
  <2>2. \A i, j \in DOMAIN s : s[i] = s[j] => i = j
    BY <1>1, <1>3
  <2> HIDE DEF s
  <2> QED BY <1>4, <2>1, <2>2 DEF FreeIdsAreClean
<1> QED BY <1>5, <1>6

(* The id assigned was free, is not any more, and no other id changes hands. *)
LEMMA AssignLemma ==
  ASSUME NEW h \in HarqState, FreeIdsAreClean(h), h.ids # <<>>, NEW d \in Dsts
  PROVE  /\ NextHarqId(h) \in HarqIds
         /\ h.pkt[NextHarqId(h)] = EmptyPkt
         /\ IsHarqIdAvailable(h, NextHarqId(h))
         /\ AssignNrSlHarqProcessId(h, d) \in HarqState
         /\ FreeIdsAreClean(AssignNrSlHarqProcessId(h, d))
         /\ AssignNrSlHarqProcessId(h, d).pkt
              = [h.pkt EXCEPT ![NextHarqId(h)] = [dst |-> d, full |-> FALSE]]
         /\ ~IsHarqIdAvailable(AssignNrSlHarqProcessId(h, d), NextHarqId(h))
         /\ \A id \in HarqIds \ {NextHarqId(h)} :
              IsHarqIdAvailable(AssignNrSlHarqProcessId(h, d), id) <=> IsHarqIdAvailable(h, id)
<1> DEFINE id == NextHarqId(h)
           g == AssignNrSlHarqProcessId(h, d)
<1>1. h.ids \in Seq(HarqIds) /\ h.pkt \in [HarqIds -> PktInfo]
  BY DEF HarqState
<1>2. /\ id = h.ids[1] /\ id \in HarqIds
      /\ g.ids = Tail(h.ids) /\ g.ids \in Seq(HarqIds)
      /\ Len(g.ids) = Len(h.ids) - 1
      /\ \A i \in 1 .. Len(g.ids) : g.ids[i] = h.ids[i + 1]
  BY <1>1, HeadTailProperties DEF NextHarqId, AssignNrSlHarqProcessId
<1>3. /\ DOMAIN h.ids = 1 .. Len(h.ids) /\ DOMAIN g.ids = 1 .. Len(g.ids)
      /\ Len(h.ids) \in Nat /\ Len(g.ids) \in Nat /\ Len(h.ids) >= 1
  BY <1>1, <1>2, LenProperties
<1>4. h.pkt[id] = EmptyPkt /\ IsHarqIdAvailable(h, id)
  BY <1>2, <1>3 DEF FreeIdsAreClean, IsHarqIdAvailable
<1>5. g.pkt = [h.pkt EXCEPT ![id] = [dst |-> d, full |-> FALSE]]
  BY <1>4 DEF AssignNrSlHarqProcessId, EmptyPkt
<1>6. g \in HarqState
  <2>1. [dst |-> d, full |-> FALSE] \in PktInfo
    BY DEF PktInfo
  <2>2. g.pkt \in [HarqIds -> PktInfo]
    BY <1>1, <1>5, <2>1
  <2>3. g = [ids |-> g.ids, pkt |-> g.pkt]
    BY DEF AssignNrSlHarqProcessId
  <2> HIDE DEF g
  <2> QED BY <1>2, <2>2, <2>3 DEF HarqState
<1>7. ~IsHarqIdAvailable(g, id)
  <2> SUFFICES ASSUME NEW i \in DOMAIN g.ids, g.ids[i] = id
               PROVE  FALSE
    BY DEF IsHarqIdAvailable
  <2>1. h.ids[i + 1] = h.ids[1] /\ i + 1 \in DOMAIN h.ids /\ 1 \in DOMAIN h.ids /\ i \in Nat \ {0}
    BY <1>2, <1>3
  <2> QED BY <2>1 DEF FreeIdsAreClean
<1>8. \A other \in HarqIds \ {id} : IsHarqIdAvailable(g, other) <=> IsHarqIdAvailable(h, other)
  <2> SUFFICES ASSUME NEW other \in HarqIds \ {id}
               PROVE  IsHarqIdAvailable(g, other) <=> IsHarqIdAvailable(h, other)
    OBVIOUS
  <2>1. ASSUME NEW i \in DOMAIN g.ids, g.ids[i] = other
        PROVE  i + 1 \in DOMAIN h.ids /\ h.ids[i + 1] = other
    BY <1>2, <1>3, <2>1
  <2>2. ASSUME NEW i \in DOMAIN h.ids, h.ids[i] = other
        PROVE  i - 1 \in DOMAIN g.ids /\ g.ids[i - 1] = other
    <3>1. i # 1 /\ i \in 1 .. Len(h.ids)
      BY <1>2, <1>3, <2>2
    <3>2. i - 1 \in 1 .. Len(g.ids) /\ (i - 1) + 1 = i
      BY <1>2, <1>3, <3>1
    <3>3. g.ids[i - 1] = h.ids[(i - 1) + 1]
      BY <1>2, <3>2
    <3> QED BY <1>3, <2>2, <3>2, <3>3
  <2> HIDE DEF g
  <2> QED BY <2>1, <2>2 DEF IsHarqIdAvailable
<1>9. FreeIdsAreClean(g)
  <2>1. ASSUME NEW i \in DOMAIN g.ids
        PROVE  /\ i \in Nat /\ i + 1 \in DOMAIN h.ids
               /\ g.ids[i] = h.ids[i + 1] /\ g.ids[i] \in HarqIds
    BY <1>2, <1>3, <1>1, ElementOfSeq
  <2>2. ASSUME NEW i \in DOMAIN g.ids, NEW j \in DOMAIN g.ids, g.ids[i] = g.ids[j]
        PROVE  i = j
    <3>1. i + 1 = j + 1
      BY <2>1, <2>2 DEF FreeIdsAreClean
    <3> QED BY <2>1, <3>1
  <2>3. ASSUME NEW i \in DOMAIN g.ids
        PROVE  g.pkt[g.ids[i]] = EmptyPkt
    <3>1. g.ids[i] # id
      BY <1>7 DEF IsHarqIdAvailable
    <3>2. h.pkt[g.ids[i]] = EmptyPkt
      BY <2>1 DEF FreeIdsAreClean
    <3> QED BY <1>1, <1>5, <2>1, <3>1, <3>2
  <2> HIDE DEF g
  <2> QED BY <2>2, <2>3 DEF FreeIdsAreClean
<1> HIDE DEF id, g
<1>10. id \in HarqIds
  BY <1>2
<1> QED BY <1>10, <1>4, <1>5, <1>6, <1>7, <1>8, <1>9 DEF id, g

(* Loading an assigned id leaves the FIFO and the other entries alone.      *)
LEMMA AddPacketLemma ==
  ASSUME NEW h \in HarqState, FreeIdsAreClean(h), NEW id \in HarqIds,
         ~IsHarqIdAvailable(h, id)
  PROVE  /\ AddPacket(h, id) \in HarqState
         /\ FreeIdsAreClean(AddPacket(h, id))
         /\ AddPacket(h, id).ids = h.ids
         /\ AddPacket(h, id).pkt = [h.pkt EXCEPT ![id] = [dst |-> h.pkt[id].dst, full |-> TRUE]]
<1>1. h.ids \in Seq(HarqIds) /\ h.pkt \in [HarqIds -> PktInfo]
  BY DEF HarqState
<1>2. [dst |-> h.pkt[id].dst, full |-> TRUE] \in PktInfo
  BY <1>1 DEF PktInfo
<1>3. /\ AddPacket(h, id).ids = h.ids
      /\ AddPacket(h, id).pkt = [h.pkt EXCEPT ![id] = [dst |-> h.pkt[id].dst, full |-> TRUE]]
  BY DEF AddPacket
<1>4. AddPacket(h, id) \in HarqState
  BY <1>1, <1>2 DEF HarqState, AddPacket
<1>5. \A i \in DOMAIN h.ids : h.ids[i] # id
  BY DEF IsHarqIdAvailable
<1>6. \A i \in DOMAIN h.ids : h.ids[i] \in HarqIds
  BY <1>1
<1>7. FreeIdsAreClean(AddPacket(h, id))
  BY <1>1, <1>3, <1>5, <1>6 DEF FreeIdsAreClean
<1> QED BY <1>3, <1>4, <1>7

(* Feedback puts the id back, once, with its entry reset.                   *)
LEMMA FeedbackLemma ==
  ASSUME NEW h \in HarqState, FreeIdsAreClean(h), NEW id \in HarqIds,
         ~IsHarqIdAvailable(h, id)
  PROVE  /\ RecvNrSlHarqFeedback(h, id) \in HarqState
         /\ FreeIdsAreClean(RecvNrSlHarqFeedback(h, id))
         /\ RecvNrSlHarqFeedback(h, id).pkt = [h.pkt EXCEPT ![id] = EmptyPkt]
         /\ IsHarqIdAvailable(RecvNrSlHarqFeedback(h, id), id)
         /\ \A other \in HarqIds \ {id} :
              IsHarqIdAvailable(RecvNrSlHarqFeedback(h, id), other) <=> IsHarqIdAvailable(h, other)
<1> DEFINE g == RecvNrSlHarqFeedback(h, id)
           n == Len(h.ids)
<1>1. h.ids \in Seq(HarqIds) /\ h.pkt \in [HarqIds -> PktInfo]
  BY DEF HarqState
<1>2. /\ g.ids \in Seq(HarqIds)
      /\ Len(g.ids) = n + 1
      /\ \A i \in 1 .. n : g.ids[i] = h.ids[i]
      /\ g.ids[n + 1] = id
  BY <1>1, AppendProperties DEF RecvNrSlHarqFeedback
<1>3. DOMAIN h.ids = 1 .. n /\ DOMAIN g.ids = 1 .. n + 1 /\ n \in Nat
  BY <1>1, <1>2, LenProperties
<1>4. g.pkt = [h.pkt EXCEPT ![id] = EmptyPkt]
  BY DEF RecvNrSlHarqFeedback
<1>5. g \in HarqState
  <2>1. g.pkt \in [HarqIds -> PktInfo]
    BY <1>1, <1>4, HarqIdsFacts
  <2>2. g = [ids |-> g.ids, pkt |-> g.pkt]
    BY DEF RecvNrSlHarqFeedback
  <2> HIDE DEF g
  <2> QED BY <1>2, <2>1, <2>2 DEF HarqState
<1> HIDE DEF g, n
<1>6. \A i \in 1 .. n : h.ids[i] # id /\ h.ids[i] \in HarqIds
  BY <1>1, <1>3 DEF IsHarqIdAvailable
<1>7. \A i \in DOMAIN g.ids : i \in 1 .. n \/ i = n + 1
  BY <1>3
<1>8. FreeIdsAreClean(g)
  <2>1. ASSUME NEW i \in DOMAIN g.ids, NEW j \in DOMAIN g.ids, g.ids[i] = g.ids[j]
        PROVE  i = j
    BY <1>2, <1>3, <1>6, <1>7, <2>1 DEF FreeIdsAreClean
  <2>2. ASSUME NEW i \in DOMAIN g.ids
        PROVE  g.pkt[g.ids[i]] = EmptyPkt
    BY <1>1, <1>2, <1>3, <1>4, <1>6, <1>7 DEF FreeIdsAreClean
  <2> QED BY <2>1, <2>2 DEF FreeIdsAreClean
<1>9. IsHarqIdAvailable(g, id)
  BY <1>2, <1>3 DEF IsHarqIdAvailable
<1>10. \A other \in HarqIds \ {id} : IsHarqIdAvailable(g, other) <=> IsHarqIdAvailable(h, other)
  BY <1>2, <1>3, <1>7, SMTT(60) DEF IsHarqIdAvailable
<1> QED BY <1>4, <1>5, <1>8, <1>9, <1>10 DEF g

-----------------------------------------------------------------------------
LEMMA MaxUint16Type == MaxUint16 \in Nat
BY DEF MaxUint16

(* A whole number of periods is at least that many slots.                   *)
LEMMA PeriodsGrow ==
  ASSUME NEW i \in Nat
  PROVE  /\ i * ResvPeriod \in Nat
         /\ i <= i * ResvPeriod
         /\ i >= 1 => i * ResvPeriod >= ResvPeriod
BY MacAssumption

(* Two numbers of periods differ by a whole number of periods.              *)
LEMMA PeriodsDiffer ==
  ASSUME NEW i \in Nat, NEW j \in Nat, i < j
  PROVE  i * ResvPeriod + ResvPeriod <= j * ResvPeriod
<1>1. j - i \in Nat /\ j - i >= 1 /\ j = i + (j - i)
  OBVIOUS
<1>2. ResvPeriod \in Nat
  BY MacAssumption
<1>3. (j - i) * ResvPeriod >= ResvPeriod
  BY <1>1, PeriodsGrow
<1>4. j * ResvPeriod = i * ResvPeriod + (j - i) * ResvPeriod
  BY <1>1, <1>2
<1> QED BY <1>1, <1>2, <1>3, <1>4, PeriodsGrow

(* The slots the scheduler answers with are some of those it was given, in  *)
(* increasing order, and at least one.                                      *)
LEMMA SlotListLemma ==
  ASSUME NEW slots \in SUBSET (T1 .. T2), slots # {}, NEW list \in SlotAllocLists(slots)
  PROVE  /\ list \in Seq(T1 .. T2)
         /\ Len(list) \in Nat \ {0}
         /\ Len(list) \in Totals
         /\ DOMAIN list = 1 .. Len(list)
         /\ \A k \in 1 .. Len(list) : list[k] \in slots
         /\ \A j, k \in 1 .. Len(list) : j < k => list[j] < list[k]
<1>1. IsFiniteSet(slots)
  <2>1. IsFiniteSet(T1 .. T2)
    BY MacAssumption, FS_Interval
  <2> QED BY <2>1, FS_Subset
<1>2. Cardinality(slots) \in Nat \ {0}
  BY <1>1, FS_CardinalityType, FS_EmptySet
<1>3. PICK n \in {IF Cardinality(slots) > t THEN t ELSE Cardinality(slots) : t \in TotalTx} :
        list \in {f \in [1 .. n -> slots] : \A i, j \in 1 .. n : i < j => f[i] < f[j]}
  BY DEF SlotAllocLists
<1>4. n \in Nat \ {0}
  BY <1>2, <1>3, MacAssumption
<1>5. list \in [1 .. n -> slots] /\ \A i, j \in 1 .. n : i < j => list[i] < list[j]
  BY <1>3
<1>6. list \in Seq(slots) /\ Len(list) = n
  BY <1>4, <1>5
<1>7. list \in Seq(T1 .. T2)
  BY <1>6, SeqMonotonic
<1>8. n \in Totals
  <2>1. PICK t \in TotalTx : n = IF Cardinality(slots) > t THEN t ELSE Cardinality(slots)
    BY <1>3
  <2>2. t \in Nat /\ n <= t
    BY <1>2, <2>1, MacAssumption
  <2> QED BY <1>4, <2>2 DEF Totals
<1> QED BY <1>4, <1>5, <1>6, <1>7, <1>8

(* The slots of the periods of a list come in the order of the periods, and *)
(* within a period in the order of the list.                                *)
LEMMA PeriodsOrdered ==
  ASSUME NEW slots \in SUBSET (T1 .. T2), slots # {}, NEW list \in SlotAllocLists(slots),
         NEW j \in 1 .. Len(list), NEW k \in 1 .. Len(list), NEW h \in Nat, NEW i \in Nat,
         list[j] + h * ResvPeriod <= list[k] + i * ResvPeriod
  PROVE  h < i \/ (h = i /\ j <= k)
<1>1. /\ list[j] \in Nat /\ 1 <= list[j] /\ list[j] <= ResvPeriod
      /\ list[k] \in Nat /\ 1 <= list[k] /\ list[k] <= ResvPeriod
      /\ k < j => list[k] < list[j]
      /\ j \in Nat /\ k \in Nat
  <2>1. /\ Len(list) \in Nat
        /\ \A i1, j1 \in 1 .. Len(list) : i1 < j1 => list[i1] < list[j1]
        /\ \A i1 \in 1 .. Len(list) : list[i1] \in slots
    BY SlotListLemma
  <2>2. \A s \in slots : s \in Nat /\ 1 <= s /\ s <= ResvPeriod
    BY MacAssumption
  <2>3. j \in Nat /\ k \in Nat
    BY <2>1
  <2>4. k < j => list[k] < list[j]
    BY <2>1
  <2>5. list[j] \in slots /\ list[k] \in slots
    BY <2>1
  <2> QED BY <2>2, <2>3, <2>4, <2>5
<1>2. h * ResvPeriod \in Nat /\ i * ResvPeriod \in Nat /\ ResvPeriod \in Nat
  BY PeriodsGrow, MacAssumption
<1>3. CASE i < h
  <2>1. i * ResvPeriod + ResvPeriod <= h * ResvPeriod
    BY <1>3, PeriodsDiffer
  <2> QED BY <1>1, <1>2, <2>1, SMTT(60)
<1>4. CASE h = i /\ k < j
  BY <1>1, <1>2, <1>4
<1> QED BY <1>1, <1>3, <1>4

(* One slot later the order is the same.                                    *)
LEMMA AdvanceLemma ==
  ASSUME NEW allocs \in SUBSET Alloc, NEW n \in Nat, Ordered(allocs, n)
  PROVE  /\ Advance(allocs) \in SUBSET Alloc
         /\ Ordered(Advance(allocs), n)
         /\ \A b \in Advance(allocs) : b.sfn >= 0 =>
              \E a \in allocs : a.sfn = b.sfn + 1 /\ a.tx = b.tx
         /\ \A b \in Advance(allocs) : (IsFirst(b, Advance(allocs)) /\ b.sfn >= 0) =>
              \E a \in allocs : IsFirst(a, allocs) /\ a.sfn = b.sfn + 1 /\ a.tx = b.tx
<1> DEFINE later == Advance(allocs)
<1>1. \A a \in allocs : a.sfn \in Int /\ a.tx \in Nat /\ Passed(a.sfn) \in Int
                        /\ a = [sfn |-> a.sfn, tx |-> a.tx]
  BY DEF Alloc, Passed
<1>2. later \in SUBSET Alloc
  BY <1>1 DEF Advance, Alloc
<1>3. ASSUME NEW b \in later
      PROVE  \E a \in allocs : b.sfn = Passed(a.sfn) /\ a.tx = b.tx
  BY DEF Advance
<1>4. ASSUME NEW a \in allocs
      PROVE  [sfn |-> Passed(a.sfn), tx |-> a.tx] \in later
  BY DEF Advance
<1> HIDE DEF later
<1>5. ASSUME NEW b \in later, b.sfn >= 0
      PROVE  \E a \in allocs : a.sfn = b.sfn + 1 /\ a.tx = b.tx /\ a.sfn > 0
  BY <1>1, <1>3, <1>5 DEF Passed
<1>6. SlotsDistinct(later)
  <2> SUFFICES ASSUME NEW b \in later, NEW c \in later, b.sfn = c.sfn, b.sfn >= 0
               PROVE  b = c
    BY DEF SlotsDistinct
  <2>1. PICK a \in allocs : a.sfn = b.sfn + 1 /\ a.tx = b.tx
    BY <1>5
  <2>2. PICK e \in allocs : e.sfn = c.sfn + 1 /\ e.tx = c.tx
    BY <1>5
  <2>3. a = e
    <3>1. b.sfn \in Int
      BY <1>2 DEF Alloc
    <3>2. a.sfn = e.sfn /\ a.sfn >= 0
      BY <2>1, <2>2, <3>1
    <3> QED BY <3>2 DEF SlotsDistinct, Ordered
  <2> QED BY <1>2, <2>1, <2>2, <2>3 DEF Alloc
<1>7. TxInRange(later, n)
  BY <1>3 DEF TxInRange, Ordered
<1>8. InSequence(later)
  <2> SUFFICES ASSUME NEW b \in later, NEW c \in later,
                      0 <= b.sfn, b.sfn < c.sfn,
                      ~\E e \in later : b.sfn < e.sfn /\ e.sfn < c.sfn,
                      c.tx # 0
               PROVE  c.tx = b.tx + 1
    BY DEF InSequence
  <2>0. b.sfn \in Int /\ c.sfn \in Int
    BY <1>2 DEF Alloc
  <2>1. PICK a1 \in allocs : a1.sfn = b.sfn + 1 /\ a1.tx = b.tx
    BY <1>5
  <2>2. PICK a2 \in allocs : a2.sfn = c.sfn + 1 /\ a2.tx = c.tx
    BY <1>5, <2>0
  <2>3. ASSUME NEW e \in allocs, a1.sfn < e.sfn, e.sfn < a2.sfn
        PROVE  FALSE
    <3>1. Passed(e.sfn) = e.sfn - 1
      BY <1>1, <2>0, <2>1, <2>3 DEF Passed
    <3>2. [sfn |-> e.sfn - 1, tx |-> e.tx] \in later
      BY <1>4, <3>1
    <3>3. b.sfn < e.sfn - 1 /\ e.sfn - 1 < c.sfn
      BY <1>1, <2>0, <2>1, <2>2, <2>3
    <3> QED BY <3>2, <3>3
  <2> QED BY <2>0, <2>1, <2>2, <2>3 DEF InSequence, Ordered
<1>9. Periodic(later)
  <2> SUFFICES ASSUME NEW b \in later, NEW k \in 0 .. b.sfn, b.sfn - k * ResvPeriod >= 1
               PROVE  \E c \in later : c.sfn = b.sfn - k * ResvPeriod
    BY DEF Periodic
  <2>1. b.sfn \in Int /\ b.sfn >= 0 /\ k * ResvPeriod \in Nat /\ k \in Nat
    BY <1>2, PeriodsGrow DEF Alloc
  <2>2. PICK a \in allocs : a.sfn = b.sfn + 1
    BY <1>5, <2>1
  <2>3. k \in 0 .. a.sfn /\ a.sfn - k * ResvPeriod >= 1
    BY <2>1, <2>2
  <2>4. PICK e \in allocs : e.sfn = a.sfn - k * ResvPeriod
    BY <2>3 DEF Periodic, Ordered
  <2>5. e.sfn > 1 /\ Passed(e.sfn) = b.sfn - k * ResvPeriod
    BY <2>1, <2>2, <2>4 DEF Passed
  <2> QED BY <1>4, <2>5
<1>10. ASSUME NEW b \in later, IsFirst(b, later), b.sfn >= 0
       PROVE  \E a \in allocs : IsFirst(a, allocs) /\ a.sfn = b.sfn + 1 /\ a.tx = b.tx
  <2>0. b.sfn \in Int
    BY <1>2 DEF Alloc
  <2>1. PICK a \in allocs : a.sfn = b.sfn + 1 /\ a.tx = b.tx
    BY <1>5, <1>10
  <2>2. ASSUME NEW e \in allocs
        PROVE  a.sfn <= e.sfn
    <3>1. b.sfn <= Passed(e.sfn)
      BY <1>4, <1>10 DEF IsFirst
    <3> QED BY <1>1, <1>10, <2>0, <2>1, <3>1 DEF Passed
  <2> QED BY <2>1, <2>2 DEF IsFirst
<1> QED BY <1>2, <1>5, <1>6, <1>7, <1>8, <1>9, <1>10 DEF later, Ordered

(* Without its first allocation, for the current slot, a grant is still in  *)
(* order, and the next allocation continues the TB or starts a new one.     *)
LEMMA EraseLemma ==
  ASSUME NEW allocs \in SUBSET Alloc, NEW n \in Nat, Ordered(allocs, n),
         NEW a \in allocs, IsFirst(a, allocs), a.sfn = 0
  PROVE  /\ Ordered(allocs \ {a}, n)
         /\ \A b \in allocs \ {a} : b.sfn > 0
         /\ \A b \in allocs \ {a} :
              (IsFirst(b, allocs \ {a}) /\ b.tx # 0) => b.tx = a.tx + 1 /\ b.tx < n
<1> DEFINE rest == allocs \ {a}
<1>1. \A b \in allocs : b.sfn \in Int /\ b.tx \in Nat
  BY DEF Alloc
<1>2. ASSUME NEW b \in rest
      PROVE  b.sfn > 0 /\ b \in allocs
  BY <1>1 DEF IsFirst, Ordered, SlotsDistinct
<1> HIDE DEF rest
<1>3. rest \subseteq allocs /\ \A b \in allocs : b \in rest \/ b = a
  BY DEF rest
<1>4. SlotsDistinct(rest) /\ TxInRange(rest, n)
  BY <1>3 DEF Ordered, SlotsDistinct, TxInRange
<1>5. InSequence(rest)
  <2> SUFFICES ASSUME NEW b \in rest, NEW c \in rest,
                      0 <= b.sfn, b.sfn < c.sfn,
                      ~\E e \in rest : b.sfn < e.sfn /\ e.sfn < c.sfn,
                      c.tx # 0
               PROVE  c.tx = b.tx + 1
    BY DEF InSequence
  <2>1. ~\E e \in allocs : b.sfn < e.sfn /\ e.sfn < c.sfn
    BY <1>1, <1>2, <1>3
  <2> QED BY <1>3, <2>1 DEF Ordered, InSequence
<1>6. Periodic(rest)
  <2> SUFFICES ASSUME NEW b \in rest, NEW k \in 0 .. b.sfn, b.sfn - k * ResvPeriod >= 1
               PROVE  \E c \in rest : c.sfn = b.sfn - k * ResvPeriod
    BY DEF Periodic
  <2>1. PICK c \in allocs : c.sfn = b.sfn - k * ResvPeriod
    BY <1>3 DEF Ordered, Periodic
  <2> QED BY <1>1, <1>3, <2>1
<1>7. ASSUME NEW b \in rest, IsFirst(b, rest), b.tx # 0
      PROVE  b.tx = a.tx + 1 /\ b.tx < n
  <2>1. b \in allocs /\ a.sfn < b.sfn /\ 0 <= a.sfn
    BY <1>1, <1>2
  <2>2. ~\E e \in allocs : a.sfn < e.sfn /\ e.sfn < b.sfn
    <3> SUFFICES ASSUME NEW e \in allocs, a.sfn < e.sfn, e.sfn < b.sfn
                 PROVE  FALSE
      OBVIOUS
    <3>1. e \in rest
      BY <1>1, <1>3
    <3> QED BY <1>1, <2>1, <3>1, <1>7 DEF IsFirst
  <2>3. InSequence(allocs) /\ TxInRange(allocs, n)
    BY DEF Ordered
  <2>4. b.tx = a.tx + 1
    BY <1>7, <2>1, <2>2, <2>3 DEF InSequence
  <2> QED BY <2>1, <2>3, <2>4 DEF TxInRange
<1> QED BY <1>2, <1>4, <1>5, <1>6, <1>7 DEF Ordered, rest

(* The allocations of SlotAllocations, one by one.                          *)
LEMMA SlotAllocationsLemma ==
  ASSUME NEW list, NEW c
  PROVE  /\ \A a \in SlotAllocations(list, c) :
              \E k \in DOMAIN list, i \in 0 .. c - 1 :
                a = [sfn |-> list[k] + i * ResvPeriod, tx |-> k - 1]
         /\ \A k \in DOMAIN list, i \in 0 .. c - 1 :
              [sfn |-> list[k] + i * ResvPeriod, tx |-> k - 1] \in SlotAllocations(list, c)
<1>1. ASSUME NEW a \in SlotAllocations(list, c)
      PROVE  \E k \in DOMAIN list, i \in 0 .. c - 1 :
               a = [sfn |-> list[k] + i * ResvPeriod, tx |-> k - 1]
  BY <1>1 DEF SlotAllocations
<1>2. ASSUME NEW k \in DOMAIN list, NEW i \in 0 .. c - 1
      PROVE  [sfn |-> list[k] + i * ResvPeriod, tx |-> k - 1] \in SlotAllocations(list, c)
  BY DEF SlotAllocations
<1> QED BY <1>1, <1>2, Zenon

(* A fresh grant: the selected slots repeated with the period are in order, *)
(* lie after the current slot, and start with a new TB.                     *)
LEMMA CreateLemma ==
  ASSUME NEW slots \in SUBSET (T1 .. T2), slots # {},
         NEW list \in SlotAllocLists(slots), NEW reselCounter \in ReselCounters
  PROVE  LET g == CreateGrantInfo(list, reselCounter)
         IN /\ g \in NrSlGrantInfo
            /\ Ordered(g.slotAllocations, g.nSelected)
            /\ \A a \in g.slotAllocations :
                 /\ a.sfn >= 1
                 /\ IsFirst(a, g.slotAllocations) => a.tx = 0
                 /\ \E s \in slots, i \in Nat : a.sfn = s + i * ResvPeriod
<1> DEFINE P == ResvPeriod
           n == Len(list)
           cResel == reselCounter * CReselFactor
           allocs == SlotAllocations(list, cResel)
           g == CreateGrantInfo(list, reselCounter)
<1>1. /\ list \in Seq(T1 .. T2)
      /\ n \in Nat \ {0}
      /\ DOMAIN list = 1 .. n
      /\ \A k \in 1 .. n : list[k] \in slots
      /\ \A j, k \in 1 .. n : j < k => list[j] < list[k]
  BY SlotListLemma
<1>2. /\ T1 \in Nat /\ T2 \in Nat /\ P \in Nat /\ T1 >= 1 /\ T2 <= P
      /\ \A s \in slots : s \in Nat /\ 1 <= s /\ s <= P
  BY MacAssumption
<1>3. reselCounter \in Nat \ {0} /\ cResel \in Nat \ {0} /\ cResel \in 0 .. MaxUint16
  <2>1. /\ reselCounter \in Nat /\ reselCounter >= 1
        /\ CReselFactor \in Nat /\ CReselFactor >= 1
        /\ cResel <= MaxUint16
    BY MacAssumption
  <2>2. cResel \in Nat /\ cResel >= 1
    BY <2>1
  <2> QED BY <2>1, <2>2, MaxUint16Type
<1>4. /\ g.slotAllocations = allocs /\ g.nSelected = n
      /\ g = [cReselCounter |-> cResel, slResoReselCounter |-> reselCounter,
              prevSlResoReselCounter |-> reselCounter, slotAllocations |-> allocs,
              nSelected |-> n, tbTxCounter |-> 0, nrSlHarqId |-> NoHarqId]
  BY DEF CreateGrantInfo
<1>0. /\ \A a \in allocs : \E k \in DOMAIN list, i \in 0 .. cResel - 1 :
           a = [sfn |-> list[k] + i * P, tx |-> k - 1]
      /\ \A k \in DOMAIN list, i \in 0 .. cResel - 1 :
           [sfn |-> list[k] + i * P, tx |-> k - 1] \in allocs
  BY SlotAllocationsLemma
<1> HIDE DEF allocs, cResel, g, n, P
<1>5. ASSUME NEW a \in allocs
      PROVE  \E k \in 1 .. n, i \in 0 .. cResel - 1 :
               a = [sfn |-> list[k] + i * P, tx |-> k - 1]
  BY <1>0, <1>1
<1>6. ASSUME NEW k \in 1 .. n, NEW i \in 0 .. cResel - 1
      PROVE  [sfn |-> list[k] + i * P, tx |-> k - 1] \in allocs
  BY <1>0, <1>1
<1>7. ASSUME NEW k \in 1 .. n, NEW i \in 0 .. cResel - 1
      PROVE  /\ k \in Nat /\ i \in Nat /\ i * P \in Nat
             /\ list[k] \in slots /\ list[k] \in Nat /\ 1 <= list[k] /\ list[k] <= P
  <2>1. i \in Nat /\ k \in Nat
    BY <1>1, <1>3
  <2>2. i * P \in Nat
    BY <2>1, PeriodsGrow DEF P
  <2> QED BY <1>1, <1>2, <2>1, <2>2
<1>8. allocs \in SUBSET Alloc
  <2> SUFFICES ASSUME NEW a \in allocs PROVE a \in Alloc
    OBVIOUS
  <2>1. PICK k \in 1 .. n, i \in 0 .. cResel - 1 : a = [sfn |-> list[k] + i * P, tx |-> k - 1]
    BY <1>5
  <2>2. list[k] + i * P \in Int /\ k - 1 \in Nat
    BY <1>1, <1>7
  <2> QED BY <2>1, <2>2 DEF Alloc
<1>9. g \in NrSlGrantInfo
  <2>1. reselCounter \in Int /\ reselCounter \in Nat /\ n \in Nat /\ 0 \in Nat
    BY <1>1, <1>3
  <2>2. NoHarqId \in HarqIds \union {NoHarqId}
    OBVIOUS
  <2> QED BY <1>3, <1>4, <1>8, <2>1, <2>2 DEF NrSlGrantInfo
<1>10. ASSUME NEW j \in 1 .. n, NEW k \in 1 .. n, NEW h \in 0 .. cResel - 1, NEW i \in 0 .. cResel - 1,
              list[j] + h * P <= list[k] + i * P
       PROVE  h < i \/ (h = i /\ j <= k)
  BY <1>7, <1>10, PeriodsOrdered DEF n, P
<1>11. SlotsDistinct(allocs)
  <2> SUFFICES ASSUME NEW a \in allocs, NEW b \in allocs, a.sfn = b.sfn
               PROVE  a = b
    BY DEF SlotsDistinct
  <2>1. PICK j \in 1 .. n, h \in 0 .. cResel - 1 : a = [sfn |-> list[j] + h * P, tx |-> j - 1]
    BY <1>5
  <2>2. PICK k \in 1 .. n, i \in 0 .. cResel - 1 : b = [sfn |-> list[k] + i * P, tx |-> k - 1]
    BY <1>5
  <2>3. list[j] + h * P = list[k] + i * P
    BY <2>1, <2>2
  <2>4. list[j] + h * P <= list[k] + i * P /\ list[k] + i * P <= list[j] + h * P
    BY <1>7, <2>3
  <2>5. h = i /\ j = k
    BY <1>7, <1>10, <2>4
  <2> QED BY <2>1, <2>2, <2>5
<1>12. TxInRange(allocs, n)
  BY <1>1, <1>5 DEF TxInRange
<1>13. InSequence(allocs)
  <2> SUFFICES ASSUME NEW a \in allocs, NEW b \in allocs, a.sfn < b.sfn,
                      ~\E c \in allocs : a.sfn < c.sfn /\ c.sfn < b.sfn,
                      b.tx # 0
               PROVE  b.tx = a.tx + 1
    BY DEF InSequence
  <2>1. PICK j \in 1 .. n, h \in 0 .. cResel - 1 : a = [sfn |-> list[j] + h * P, tx |-> j - 1]
    BY <1>5
  <2>2. PICK k \in 1 .. n, i \in 0 .. cResel - 1 : b = [sfn |-> list[k] + i * P, tx |-> k - 1]
    BY <1>5
  <2>3. k - 1 \in 1 .. n /\ k - 1 < k
    BY <1>1, <1>7, <2>2
  <2> DEFINE c == [sfn |-> list[k - 1] + i * P, tx |-> (k - 1) - 1]
  <2>4. c \in allocs /\ c.sfn < b.sfn
    <3>1. list[k - 1] < list[k]
      BY <1>1, <2>3
    <3> QED BY <1>6, <1>7, <2>2, <2>3, <3>1
  <2>5. c.sfn <= a.sfn
    BY <1>8, <2>4 DEF Alloc
  <2>6. i < h \/ (i = h /\ k - 1 <= j)
    BY <1>10, <2>1, <2>3, <2>5
  <2>7. h < i \/ (h = i /\ j <= k)
    BY <1>10, <1>7, <2>1, <2>2
  <2>8. j # k \/ h # i
    BY <1>7, <2>1, <2>2
  <2>9. j = k - 1
    BY <1>7, <2>3, <2>6, <2>7, <2>8
  <2> QED BY <1>7, <2>1, <2>2, <2>9
<1>14. Periodic(allocs)
  <2> SUFFICES ASSUME NEW a \in allocs, NEW m \in 0 .. a.sfn, a.sfn - m * P >= 1
               PROVE  \E b \in allocs : b.sfn = a.sfn - m * P
    BY DEF Periodic, P
  <2>1. PICK k \in 1 .. n, i \in 0 .. cResel - 1 : a = [sfn |-> list[k] + i * P, tx |-> k - 1]
    BY <1>5
  <2>2. m \in Nat /\ m * P \in Nat
    BY <1>8, PeriodsGrow DEF Alloc, P
  <2>3. m <= i
    <3> SUFFICES ASSUME i < m PROVE FALSE
      BY <1>7, <2>2
    <3>1. i * P + P <= m * P
      BY <1>7, <2>2, PeriodsDiffer DEF P
    <3> QED BY <1>2, <1>7, <2>1, <2>2, <3>1
  <2>4. i - m \in 0 .. cResel - 1 /\ (i - m) * P = i * P - m * P
    BY <1>2, <1>3, <1>7, <2>2, <2>3
  <2>5. [sfn |-> list[k] + (i - m) * P, tx |-> k - 1] \in allocs
    BY <1>6, <2>4
  <2> QED BY <1>7, <2>1, <2>2, <2>4, <2>5
<1>15. ASSUME NEW a \in allocs
       PROVE  /\ a.sfn >= 1
              /\ IsFirst(a, allocs) => a.tx = 0
              /\ \E s \in slots, i \in Nat : a.sfn = s + i * P
  <2>1. PICK k \in 1 .. n, i \in 0 .. cResel - 1 : a = [sfn |-> list[k] + i * P, tx |-> k - 1]
    BY <1>5
  <2>2. ASSUME IsFirst(a, allocs)
        PROVE  k = 1
    <3>1. 1 \in 1 .. n /\ i \in 0 .. cResel - 1
      BY <1>1
    <3>2. [sfn |-> list[1] + i * P, tx |-> 1 - 1] \in allocs
      BY <1>6, <3>1
    <3>3. list[k] + i * P <= list[1] + i * P
      BY <2>1, <2>2, <3>2 DEF IsFirst
    <3> QED BY <1>7, <1>10, <3>1, <3>3
  <2> QED BY <1>7, <2>1, <2>2
<1> QED BY <1>4, <1>9, <1>11, <1>12, <1>13, <1>14, <1>15 DEF Ordered, g, P
=============================================================================
