-------------------------- MODULE NrSlRxPhyProofs --------------------------
(***************************************************************************)
(* The PHY never aborts and expects what is in turn, for any number of     *)
(* streams and UEs: RxInv is an invariant.                                 *)
(***************************************************************************)
EXTENDS NrSlRxPhyInv, TLAPS, SequenceTheorems

Grant == [rnti : Rntis, sfn : -1 .. Window]

LEMMA Constants ==
  /\ Window \in Nat /\ Window >= 1
  /\ \A s \in Streams : RntiOf[s] \in Rntis
  /\ NoTb \in Tb
<1>1. (CHOOSE id \in HarqIds : TRUE) \in HarqIds
  BY RxAssumption
<1> QED BY <1>1, RxAssumption DEF NoTb, Tb

(* Nothing is sent, announced or expected at first.                         *)
LEMMA InitLemma == Init => RxInv
<1> SUFFICES ASSUME Init PROVE RxInv
  OBVIOUS
<1>1. tb \in [Streams -> Tb] /\ \A s \in Streams : tb[s] = NoTb /\ tb[s].allocs = {}
  BY Constants DEF Init, NoTb
<1>2. RxTypeOK
  <2>1. slRxGrants \in Seq(Grant)
    BY EmptySeq DEF Init
  <2> QED BY <1>1, <2>1 DEF Init, RxTypeOK, Grant
<1> QED BY <1>1, <1>2 DEF Init, RxInv, InOrder, SlotsApart, OtherStreams

(* What an SCI announces are transmissions to come without an SCI.          *)
LEMMA GapsLemma ==
  ASSUME RxInv, NEW s \in Streams, NEW a \in tb[s].allocs, TxSci1A(a)
  PROVE  /\ ComputeGaps(s, a) \in Seq(1 .. Window)
         /\ \A i \in DOMAIN ComputeGaps(s, a) :
              \E b \in tb[s].allocs :
                /\ b.sfn = a.sfn + ComputeGaps(s, a)[i] /\ ~TxSci1A(b)
                /\ b.tx = a.tx + i /\ i \in 1 .. MaxNumPerReserve - 1
<1> DEFINE m == SlotNumInd(s, a) - 1
           B(i) == CHOOSE b \in tb[s].allocs : b.tx = a.tx + i
<1>1. /\ tb[s] \in Tb /\ InOrder(tb[s])
      /\ a.tx \in Nat /\ a.sfn \in Nat /\ tb[s].n \in Nat /\ a.tx < tb[s].n
      /\ \A b \in tb[s].allocs : b.tx \in Nat /\ b.sfn \in Nat /\ b.sfn <= Window
  <2>1. tb[s] \in Tb /\ InOrder(tb[s])
    BY DEF RxInv, RxTypeOK
  <2>2. tb[s].n \in Nat /\ \A b \in tb[s].allocs : b.tx \in Nat /\ b.sfn \in Nat
    BY <2>1 DEF Tb, Alloc
  <2> QED BY <2>1, <2>2 DEF InOrder
<1>2. /\ MaxNumPerReserve \in 1 .. 3
      /\ m \in Nat /\ m < MaxNumPerReserve /\ m <= tb[s].n - 1 - a.tx
  BY <1>1, RxAssumption DEF SlotNumInd
<1>3. ASSUME NEW i \in 1 .. m
      PROVE  /\ B(i) \in tb[s].allocs
             /\ B(i).sfn - a.sfn \in 1 .. Window
             /\ B(i).tx = a.tx + i
             /\ ~TxSci1A(B(i))
  <2>1. a.tx + i \in a.tx .. tb[s].n - 1
    BY <1>1, <1>2
  <2>2. PICK b \in tb[s].allocs : b.tx = a.tx + i
    BY <1>1, <2>1 DEF InOrder
  <2>3. B(i) \in tb[s].allocs /\ B(i).tx = a.tx + i
    BY <2>2
  <2> HIDE DEF B
  <2>4. a.sfn < B(i).sfn
    BY <1>1, <1>2, <2>3 DEF InOrder
  <2>5. (a.tx + i) % MaxNumPerReserve # 0
    <3>1. i \in 1 .. 2 /\ i < MaxNumPerReserve
      BY <1>2
    <3>2. a.tx % MaxNumPerReserve = 0
      BY DEF TxSci1A
    <3>3. CASE MaxNumPerReserve = 2
      BY <1>1, <3>1, <3>2, <3>3
    <3>4. CASE MaxNumPerReserve = 3
      BY <1>1, <3>1, <3>2, <3>4
    <3> QED BY <1>2, <3>1, <3>3, <3>4
  <2> QED BY <1>1, <2>3, <2>4, <2>5, Constants DEF TxSci1A
<1>4. ComputeGaps(s, a) = [i \in 1 .. m |-> B(i).sfn - a.sfn]
  BY DEF ComputeGaps
<1> HIDE DEF m, B
<1>5. /\ DOMAIN ComputeGaps(s, a) = 1 .. m
      /\ \A i \in 1 .. m : ComputeGaps(s, a)[i] = B(i).sfn - a.sfn
  BY <1>4
<1>6. ComputeGaps(s, a) \in [1 .. m -> 1 .. Window]
  BY <1>3, <1>4
<1>7. ComputeGaps(s, a) \in Seq(1 .. Window)
  <2>1. ComputeGaps(s, a) \in UNION {[1 .. n -> 1 .. Window] : n \in Nat}
    BY <1>2, <1>6
  <2> QED BY <2>1, SeqDef
<1>8. ASSUME NEW i \in DOMAIN ComputeGaps(s, a)
      PROVE  \E b \in tb[s].allocs :
               /\ b.sfn = a.sfn + ComputeGaps(s, a)[i] /\ ~TxSci1A(b)
               /\ b.tx = a.tx + i /\ i \in 1 .. MaxNumPerReserve - 1
  <2>1. i \in 1 .. m /\ i \in 1 .. MaxNumPerReserve - 1
    BY <1>2, <1>5
  <2>2. B(i) \in tb[s].allocs /\ ~TxSci1A(B(i)) /\ B(i).sfn \in Nat /\ B(i).tx = a.tx + i
    BY <1>1, <1>3, <2>1
  <2>3. B(i).sfn = a.sfn + ComputeGaps(s, a)[i]
    BY <1>1, <1>5, <2>1, <2>2
  <2> QED BY <2>1, <2>2, <2>3
<1> QED BY <1>7, <1>8

(* The parts of RxInv about the blocks and about the queue.                 *)
BlocksOK ==
  /\ \A s \in Streams : InOrder(tb[s]) /\ \A a \in tb[s].allocs : Ahead(a.sfn)
  /\ \A s \in Streams : \A t \in OtherStreams(s) : SlotsApart(s, t)

QueueOK == \A i \in DOMAIN slRxGrants : Ahead(slRxGrants[i].sfn) => Backed(slRxGrants[i])

PlaceOK ==
  /\ pc = "pscch" => /\ \A r \in expected : SendersOf(r) # {}
                     /\ \A s \in todo : SciPending(s)
  /\ pc = "pssch" => todo \subseteq Rntis

LEMMA RxInvParts ==
  RxInv <=> RxTypeOK /\ halted = "no" /\ BlocksOK /\ QueueOK /\ PlaceOK
BY Zenon DEF RxInv, BlocksOK, QueueOK, PlaceOK

(* The types the steps below use.                                           *)
LEMMA Types ==
  ASSUME RxInv
  PROVE  /\ \A s \in Streams : /\ tb[s] \in Tb /\ tb[s].n \in Nat
                               /\ \A a \in tb[s].allocs :
                                    /\ a \in Alloc /\ a.tx \in Nat /\ a.sfn \in Nat
                                    /\ a = [sfn |-> a.sfn, tx |-> a.tx]
         /\ slRxGrants \in Seq(Grant)
         /\ \A i \in DOMAIN slRxGrants : /\ slRxGrants[i] \in Grant
                                         /\ slRxGrants[i].rnti \in Rntis
                                         /\ slRxGrants[i].sfn \in -1 .. Window
<1>1. \A s \in Streams : tb[s] \in Tb
  BY DEF RxInv, RxTypeOK
<1>2. slRxGrants \in Seq(Grant)
  BY DEF RxInv, RxTypeOK, Grant
<1>3. \A i \in DOMAIN slRxGrants : slRxGrants[i] \in Grant
  BY <1>2, ElementOfSeq, LenProperties
<1> QED BY <1>1, <1>2, <1>3 DEF Tb, Alloc, Grant

(* Of a UE's blocks at most one transmission falls into a slot.             *)
LEMMA OneAtATime ==
  ASSUME RxInv, NEW s \in Streams, NEW t \in Streams, RntiOf[s] = RntiOf[t],
         NEW a \in tb[s].allocs, NEW b \in tb[t].allocs, a.sfn = b.sfn
  PROVE  s = t /\ a = b
<1>1. s = t
  BY DEF RxInv, OtherStreams, SlotsApart
<1>2. a.tx \in Nat /\ b.tx \in Nat /\ a.sfn \in Nat /\ b.sfn \in Nat
  BY Types
<1> QED BY <1>1, <1>2 DEF RxInv, InOrder

(* A new block: its allocations are those of a list of slots in order.      *)
LEMMA NewBlock ==
  ASSUME NEW n \in Nat, NEW slots \in SlotLists(n)
  PROVE  /\ Allocs(slots) \in SUBSET Alloc
         /\ \A id : InOrder([allocs |-> Allocs(slots), n |-> n, id |-> id])
         /\ \A a \in Allocs(slots) : a.sfn >= 1 /\ a.sfn <= Window
<1>1. /\ DOMAIN slots = 1 .. n
      /\ \A i \in 1 .. n : slots[i] \in 1 .. Window
      /\ \A i, j \in 1 .. n : i < j => slots[i] < slots[j]
  BY DEF SlotLists
<1>2. \A a \in Allocs(slots) :
        \E i \in 1 .. n : a = [sfn |-> slots[i], tx |-> i - 1]
  BY <1>1 DEF Allocs
<1>3. \A i \in 1 .. n : [sfn |-> slots[i], tx |-> i - 1] \in Allocs(slots)
  BY <1>1 DEF Allocs
<1>4. /\ Allocs(slots) \in SUBSET Alloc
      /\ \A a \in Allocs(slots) : a.sfn >= 1 /\ a.sfn <= Window /\ a.tx < n /\ a.tx \in Nat
  BY <1>1, <1>2, Constants DEF Alloc
<1>5. /\ \A x, y \in Allocs(slots) : x.tx < y.tx => x.sfn < y.sfn
      /\ \A x, y \in Allocs(slots) : x.tx = y.tx => x = y
  BY <1>1, <1>2, SMTT(60)
<1>6. ASSUME NEW x \in Allocs(slots), NEW k \in x.tx .. n - 1
      PROVE  \E y \in Allocs(slots) : y.tx = k
  <2>1. k + 1 \in 1 .. n
    BY <1>4
  <2>2. [sfn |-> slots[k + 1], tx |-> (k + 1) - 1] \in Allocs(slots)
    BY <1>3, <2>1
  <2>3. (k + 1) - 1 = k
    BY <1>4
  <2> QED BY <2>2, <2>3
<1>7. ASSUME NEW id
      PROVE  InOrder([allocs |-> Allocs(slots), n |-> n, id |-> id])
  <2> DEFINE b == [allocs |-> Allocs(slots), n |-> n, id |-> id]
  <2>1. b.allocs = Allocs(slots) /\ b.n = n
    OBVIOUS
  <2> HIDE DEF b
  <2>2. InOrder(b)
    BY <1>4, <1>5, <1>6, <2>1 DEF InOrder
  <2> QED BY <2>2 DEF b
<1> QED BY <1>4, <1>7, Zenon

LEMMA NewTbLemma ==
  ASSUME RxInv, NEW s \in Streams, NewTb(s)
  PROVE  RxInv'
<1> USE DEF NewTb, Idle
<1>1. PICK n \in TotalTx, id \in HarqIds : \E slots \in SlotLists(n) :
        /\ \A t \in OtherStreams(s) :
             \A a \in Allocs(slots), b \in tb[t].allocs : a.sfn # b.sfn
        /\ tb' = [tb EXCEPT ![s] = [allocs |-> Allocs(slots), n |-> n, id |-> id]]
        /\ history' = [history EXCEPT ![RntiOf[s]][id] = IF @ = {} THEN {} ELSE {"earlier"}]
  BY Zenon
<1>2. PICK slots \in SlotLists(n) :
        /\ \A t \in OtherStreams(s) :
             \A a \in Allocs(slots), b \in tb[t].allocs : a.sfn # b.sfn
        /\ tb' = [tb EXCEPT ![s] = [allocs |-> Allocs(slots), n |-> n, id |-> id]]
        /\ history' = [history EXCEPT ![RntiOf[s]][id] = IF @ = {} THEN {} ELSE {"earlier"}]
  BY <1>1, Zenon
<1>3. n \in Nat
  BY RxAssumption
<1> DEFINE new == [allocs |-> Allocs(slots), n |-> n, id |-> id]
<1>4. /\ new \in Tb /\ InOrder(new) /\ new.allocs = Allocs(slots)
      /\ \A a \in new.allocs : a.sfn >= 1
  BY <1>3, NewBlock DEF Tb
<1> HIDE DEF new
<1>5. tb' = [tb EXCEPT ![s] = new] /\ tb \in [Streams -> Tb] /\ tb[s].allocs = {}
  BY <1>2 DEF RxInv, RxTypeOK, new
<1>6. /\ tb' \in [Streams -> Tb] /\ tb'[s] = new
      /\ \A t \in Streams \ {s} : tb'[t] = tb[t]
  BY <1>4, <1>5
<1>7. RxTypeOK'
  <2>1. history' \in [Rntis -> [HarqIds -> SUBSET {"this", "earlier"}]]
    BY <1>2 DEF RxInv, RxTypeOK
  <2> QED BY <1>6, <2>1 DEF RxInv, RxTypeOK
<1>8. BlocksOK'
  <2>1. \A t \in Streams : InOrder(tb'[t]) /\ \A a \in tb'[t].allocs : Ahead(a.sfn)
    BY <1>4, <1>6 DEF RxInv, Ahead
  <2>2. ASSUME NEW t \in Streams, NEW u \in OtherStreams(t)
        PROVE  \A a \in tb'[t].allocs, b \in tb'[u].allocs : a.sfn # b.sfn
    <3>1. CASE t = s
      BY <3>1, <1>2, <1>4, <1>6 DEF OtherStreams
    <3>2. CASE u = s
      BY <3>2, <1>2, <1>4, <1>6 DEF OtherStreams
    <3>3. CASE t # s /\ u # s
      BY <3>3, <1>6 DEF OtherStreams, RxInv, SlotsApart
    <3> QED BY <3>1, <3>2, <3>3
  <2> QED BY <2>1, <2>2 DEF BlocksOK, SlotsApart, Ahead, OtherStreams
<1>9. QueueOK'
  <2>1. ASSUME NEW i \in DOMAIN slRxGrants, Ahead(slRxGrants[i].sfn)
        PROVE  Backed(slRxGrants[i])'
    <3>1. Backed(slRxGrants[i])
      BY <2>1 DEF RxInv
    <3>2. PICK t \in Streams : \E a \in tb[t].allocs :
            RntiOf[t] = slRxGrants[i].rnti /\ a.sfn = slRxGrants[i].sfn /\ ~TxSci1A(a)
      BY <3>1 DEF Backed
    <3>3. tb'[t] = tb[t]
      BY <1>5, <1>6, <3>2
    <3> QED BY <3>2, <3>3 DEF Backed, TxSci1A
  <2> QED BY <2>1 DEF QueueOK, Ahead
<1>10. PlaceOK' /\ (halted = "no")'
  BY DEF RxInv, PlaceOK
<1> QED BY <1>7, <1>8, <1>9, <1>10, Zenon DEF RxInv, BlocksOK, QueueOK, PlaceOK

(* A slot passes for every announcement in the queue.                       *)
LEMMA SlotPassedLemma ==
  ASSUME RxInv, NEW i \in DOMAIN slRxGrants
  PROVE  /\ DOMAIN SlotPassed = DOMAIN slRxGrants
         /\ SlotPassed \in Seq(Grant)
         /\ SlotPassed[i].rnti = slRxGrants[i].rnti
         /\ SlotPassed[i].sfn = Passed(slRxGrants[i].sfn)
<1>1. \A j \in DOMAIN slRxGrants :
        [rnti |-> slRxGrants[j].rnti, sfn |-> Passed(slRxGrants[j].sfn)] \in Grant
  BY Types, Constants, SMTT(60) DEF Grant, Passed
<1>2. DOMAIN slRxGrants = 1 .. Len(slRxGrants) /\ Len(slRxGrants) \in Nat
  BY Types, LenProperties
<1>3. SlotPassed \in UNION {[1 .. n -> Grant] : n \in Nat}
  <2>1. SlotPassed \in [1 .. Len(slRxGrants) -> Grant]
    BY <1>1, <1>2 DEF SlotPassed
  <2> QED BY <1>2, <2>1
<1>4. SlotPassed \in Seq(Grant)
  BY <1>3, SeqDef
<1> QED BY <1>4 DEF SlotPassed

(* The blocks after StartSlot: everything is one slot nearer.               *)
LEMMA BlocksShifted ==
  ASSUME RxInv, StartSlot
  PROVE  /\ BlocksOK' /\ tb' \in [Streams -> Tb]
         /\ \A s \in Streams : \A a \in tb[s].allocs :
              [sfn |-> a.sfn - 1, tx |-> a.tx] \in tb'[s].allocs
<1> DEFINE earlier(a) == [sfn |-> a.sfn - 1, tx |-> a.tx]
           S(s) == {earlier(a) : a \in tb[s].allocs}
<1>1. \A s \in Streams : tb'[s] = [tb[s] EXCEPT !.allocs = S(s)]
  BY DEF StartSlot
<1>2. \A s \in Streams : \A a \in tb[s].allocs :
        a.sfn \in Nat /\ a.sfn >= 1 /\ a.sfn <= Window /\ a.tx \in Nat
  BY Types DEF RxInv, Ahead, InOrder, StartSlot, Idle
<1>3. \A s \in Streams : S(s) \in SUBSET Alloc
  <2>1. \A s \in Streams : \A a \in tb[s].allocs : earlier(a) \in Alloc
    BY <1>2 DEF Alloc
  <2> HIDE DEF earlier
  <2> QED BY <2>1
<1>4. \A s \in Streams : tb'[s] \in Tb /\ tb'[s].allocs = S(s) /\ tb'[s].n = tb[s].n
  <2> HIDE DEF S
  <2> SUFFICES ASSUME NEW s \in Streams
               PROVE  tb'[s] \in Tb /\ tb'[s].allocs = S(s) /\ tb'[s].n = tb[s].n
    OBVIOUS
  <2>1. /\ tb[s] \in [allocs : SUBSET Alloc, n : Nat, id : HarqIds]
        /\ tb'[s] = [tb[s] EXCEPT !.allocs = S(s)]
        /\ S(s) \in SUBSET Alloc
    BY <1>1, <1>3 DEF RxInv, RxTypeOK, Tb
  <2>2. tb'[s] = [allocs |-> S(s), n |-> tb[s].n, id |-> tb[s].id]
    BY <2>1
  <2>3. tb[s].n \in Nat /\ tb[s].id \in HarqIds
    BY <2>1
  <2> QED BY <2>1, <2>2, <2>3 DEF Tb
<1>5. \A s \in Streams : InOrder(tb'[s])
  <2> SUFFICES ASSUME NEW s \in Streams PROVE InOrder(tb'[s])
    OBVIOUS
  <2>1. \A x \in S(s) : \E a \in tb[s].allocs : x.sfn = a.sfn - 1 /\ x.tx = a.tx /\ x = earlier(a)
    OBVIOUS
  <2>2. ASSUME NEW a \in tb[s].allocs
        PROVE  \E x \in S(s) : x.sfn = a.sfn - 1 /\ x.tx = a.tx
    <3>1. earlier(a) \in S(s)
      OBVIOUS
    <3>2. earlier(a).sfn = a.sfn - 1 /\ earlier(a).tx = a.tx
      OBVIOUS
    <3> QED BY <3>1, <3>2, Zenon
  <2> HIDE DEF S, earlier
  <2>3. /\ \A x, y \in S(s) : x.tx < y.tx => x.sfn < y.sfn
        /\ \A x, y \in S(s) : x.tx = y.tx => x = y
        /\ \A x \in S(s) : x.tx < tb[s].n /\ x.sfn <= Window
    BY <1>2, <2>1, Constants DEF RxInv, InOrder
  <2>4. \A x \in S(s) : \A k \in x.tx .. tb[s].n - 1 : \E y \in S(s) : y.tx = k
    BY <2>1, <2>2 DEF RxInv, InOrder
  <2> QED BY <1>4, <2>3, <2>4 DEF InOrder
<1>6. \A s \in Streams : \A t \in OtherStreams(s) :
        \A a \in S(s), b \in S(t) : a.sfn # b.sfn
  BY <1>2 DEF RxInv, SlotsApart, OtherStreams
<1>7. \A s \in Streams : \A a \in S(s) : a.sfn >= 0
  BY <1>2
<1>8. pc' = "pscch" /\ tb' = [s \in Streams |-> tb'[s]]
  BY DEF StartSlot
<1> HIDE DEF S
<1>9. BlocksOK'
  BY <1>4, <1>5, <1>6, <1>7, <1>8 DEF BlocksOK, SlotsApart, Ahead, OtherStreams
<1>10. \A s \in Streams : \A a \in tb[s].allocs : earlier(a) \in tb'[s].allocs
  BY <1>4 DEF S
<1> QED BY <1>4, <1>8, <1>9, <1>10

LEMMA StartSlotLemma ==
  ASSUME RxInv, StartSlot
  PROVE  RxInv'
<1>1. /\ pc = "idle" /\ pc' = "pscch" /\ halted' = "no"
      /\ slRxGrants' = IF FrontIsNow(SlotPassed) THEN Tail(SlotPassed) ELSE SlotPassed
      /\ expected' = SendSlExpectedTbInfo(SlotPassed)
      /\ history' = history /\ hears' \in {"all", "pscch", "none"}
      /\ todo' \subseteq {s \in Streams : \E a \in tb[s].allocs : a.sfn = 1 /\ TxSci1A(a)}
  BY DEF StartSlot, Idle
<1>2. \A s \in Streams : \A a \in tb[s].allocs : a.sfn \in Nat /\ a.sfn >= 1
  BY <1>1, Types DEF RxInv, Ahead
(* What was announced for the next slot, or a later one, comes true.        *)
<1>3. ASSUME NEW i \in DOMAIN SlotPassed, SlotPassed[i].sfn >= 0
      PROVE  \E s \in Streams : \E a \in tb[s].allocs :
               /\ RntiOf[s] = SlotPassed[i].rnti /\ ~TxSci1A(a)
               /\ a.sfn = SlotPassed[i].sfn + 1
  <2>1. /\ i \in DOMAIN slRxGrants
        /\ SlotPassed[i].rnti = slRxGrants[i].rnti
        /\ SlotPassed[i].sfn = Passed(slRxGrants[i].sfn)
    BY SlotPassedLemma DEF SlotPassed
  <2>2. slRxGrants[i].sfn \in -1 .. Window
    BY <2>1, Types
  <2>3. slRxGrants[i].sfn >= 1 /\ slRxGrants[i].sfn = SlotPassed[i].sfn + 1
    BY <1>3, <2>1, <2>2, Constants DEF Passed
  <2>4. Backed(slRxGrants[i])
    BY <1>1, <2>1, <2>3 DEF RxInv, Ahead
  <2> QED BY <2>1, <2>3, <2>4 DEF Backed
<1>4. SlotPassed \in Seq(Grant)
  BY SlotPassedLemma DEF SlotPassed, Types
<1>5. /\ slRxGrants' \in Seq(Grant)
      /\ \A i \in DOMAIN slRxGrants' :
           \E j \in DOMAIN SlotPassed : slRxGrants'[i] = SlotPassed[j]
  <2>1. CASE FrontIsNow(SlotPassed)
    BY <1>1, <1>4, <2>1 DEF FrontIsNow
  <2>2. CASE ~FrontIsNow(SlotPassed)
    BY <1>1, <1>4, <2>2
  <2> QED BY <2>1, <2>2
<1>6. QueueOK'
  <2>1. ASSUME NEW i \in DOMAIN slRxGrants', slRxGrants'[i].sfn >= 0
        PROVE  \E s \in Streams : \E a \in tb'[s].allocs :
                 RntiOf[s] = slRxGrants'[i].rnti /\ a.sfn = slRxGrants'[i].sfn
                 /\ a.tx % MaxNumPerReserve # 0
    <3>1. PICK j \in DOMAIN SlotPassed : slRxGrants'[i] = SlotPassed[j]
      BY <1>5
    <3>2. PICK s \in Streams : \E a \in tb[s].allocs :
               /\ RntiOf[s] = SlotPassed[j].rnti /\ ~TxSci1A(a)
               /\ a.sfn = SlotPassed[j].sfn + 1
      BY <1>3, <2>1, <3>1
    <3>3. PICK a \in tb[s].allocs :
               /\ RntiOf[s] = SlotPassed[j].rnti /\ ~TxSci1A(a)
               /\ a.sfn = SlotPassed[j].sfn + 1
      BY <3>2
    <3>4. SlotPassed[j].sfn \in Int
      <4>1. j \in 1 .. Len(SlotPassed)
        BY <1>4, LenProperties
      <4>2. SlotPassed[j] \in Grant
        BY <1>4, <4>1, ElementOfSeq
      <4> QED BY <4>2, Constants DEF Grant
    <3>5. [sfn |-> a.sfn - 1, tx |-> a.tx] \in tb'[s].allocs
      BY BlocksShifted
    <3>6. a.sfn - 1 = slRxGrants'[i].sfn
      BY <3>1, <3>3, <3>4
    <3> QED BY <3>1, <3>3, <3>5, <3>6 DEF TxSci1A
  <2> QED BY <1>1, <2>1 DEF QueueOK, Ahead, Backed, TxSci1A
(* An expected block is sent in this slot without an SCI, so that no other  *)
(* block of its UE is sent with one.                                        *)
<1>7. ASSUME NEW r \in expected'
      PROVE  \E s \in Streams : \E a \in tb[s].allocs :
               RntiOf[s] = r /\ a.sfn = 1 /\ ~TxSci1A(a)
  <2>1. /\ SlotPassed # <<>> /\ Head(SlotPassed).sfn = 0 /\ r = Head(SlotPassed).rnti
    BY <1>1 DEF SendSlExpectedTbInfo, FrontIsNow
  <2>2. 1 \in DOMAIN SlotPassed /\ SlotPassed[1].sfn = 0 /\ SlotPassed[1].rnti = r
    BY <1>4, <2>1
  <2> QED BY <1>3, <2>2
<1>8. \A r \in expected' : \E s \in Streams : RntiOf[s] = r /\ \E a \in tb'[s].allocs : a.sfn = 0
  <2> SUFFICES ASSUME NEW r \in expected'
      PROVE \E s \in Streams : RntiOf[s] = r /\ \E a \in tb'[s].allocs : a.sfn = 0
    OBVIOUS
  <2>1. PICK s \in Streams : \E a \in tb[s].allocs : RntiOf[s] = r /\ a.sfn = 1
    BY <1>7
  <2>2. PICK a \in tb[s].allocs : RntiOf[s] = r /\ a.sfn = 1
    BY <2>1
  <2>3. [sfn |-> a.sfn - 1, tx |-> a.tx] \in tb'[s].allocs
    BY BlocksShifted
  <2> QED BY <2>2, <2>3
<1>9. ASSUME NEW s \in todo'
      PROVE  /\ s \in Streams /\ RntiOf[s] \notin expected'
             /\ \E a \in tb'[s].allocs : a.sfn = 0 /\ a.tx % MaxNumPerReserve = 0
  <2>1. PICK a \in tb[s].allocs : a.sfn = 1 /\ TxSci1A(a)
    BY <1>1
  <2>2. s \in Streams
    BY <1>1
  <2>3. RntiOf[s] \notin expected'
    <3> SUFFICES ASSUME RntiOf[s] \in expected' PROVE FALSE
      OBVIOUS
    <3>1. PICK t \in Streams : \E b \in tb[t].allocs :
            RntiOf[t] = RntiOf[s] /\ b.sfn = 1 /\ ~TxSci1A(b)
      BY <1>7
    <3>2. PICK b \in tb[t].allocs :
            RntiOf[t] = RntiOf[s] /\ b.sfn = 1 /\ ~TxSci1A(b)
      BY <3>1
    <3>3. a = b
      BY <2>1, <2>2, <3>2, OneAtATime
    <3> QED BY <2>1, <3>2, <3>3
  <2>4. [sfn |-> a.sfn - 1, tx |-> a.tx] \in tb'[s].allocs
    BY <2>2, BlocksShifted
  <2> QED BY <2>1, <2>2, <2>3, <2>4 DEF TxSci1A
<1>10. PlaceOK'
  BY <1>1, <1>8, <1>9 DEF PlaceOK, SendersOf, SciPending, Now, TxSci1A
<1>11. RxTypeOK'
  <2>1. expected' \subseteq Rntis
    BY <1>7, Constants
  <2> QED BY <1>1, <1>5, <2>1, BlocksShifted DEF RxInv, RxTypeOK, Grant
<1>12. BlocksOK' /\ (halted = "no")'
  BY <1>1, BlocksShifted
<1> QED BY <1>6, <1>10, <1>11, <1>12, Zenon DEF RxInv, BlocksOK, QueueOK, PlaceOK

LEMMA SciLostLemma ==
  ASSUME RxInv, NEW s \in Streams, SciLost(s)
  PROVE  RxInv'
<1>1. /\ tb' = tb /\ slRxGrants' = slRxGrants /\ expected' = expected /\ history' = history
      /\ hears' = hears /\ pc' = pc /\ pc = "pscch" /\ halted' = halted
      /\ todo' \subseteq todo
  BY DEF SciLost, SciTurn
<1>2. RxTypeOK'
  BY <1>1 DEF RxInv, RxTypeOK
<1>3. BlocksOK' /\ QueueOK'
  BY <1>1 DEF RxInv, BlocksOK, QueueOK, SlotsApart, OtherStreams, Ahead, Backed, TxSci1A
<1>4. PlaceOK'
  BY <1>1 DEF RxInv, PlaceOK, SendersOf, SciPending, Now, TxSci1A
<1> QED BY <1>1, <1>2, <1>3, <1>4, Zenon DEF RxInv, BlocksOK, QueueOK, PlaceOK

LEMMA PhyPscchPduReceivedLemma ==
  ASSUME RxInv, NEW s \in Streams, PhyPscchPduReceived(s)
  PROVE  RxInv'
<1>1. /\ tb' = tb /\ history' = history /\ hears' = hears /\ pc' = pc /\ pc = "pscch"
      /\ expected' = expected \union {RntiOf[s]}
      /\ todo' = todo \ {s} /\ s \in todo
      /\ halted' = IF RntiOf[s] \in expected THEN "twoTbs" ELSE "no"
  BY DEF PhyPscchPduReceived, SciTurn
<1>2. \A t \in todo : SciPending(t)
  BY <1>1 DEF RxInv
<1>3. PICK b \in tb[s].allocs : b.sfn = 0 /\ TxSci1A(b)
  BY <1>1, <1>2 DEF SciPending, Now
(* The UE has no other transmission in this slot.                           *)
<1>4. PICK a \in Now(s) : slRxGrants' = SaveFutureSlRxGrants(s, ComputeGaps(s, a))
  BY DEF PhyPscchPduReceived
<1>5. a \in tb[s].allocs /\ a.sfn = 0 /\ TxSci1A(a)
  <2>1. a \in tb[s].allocs /\ a.sfn = 0
    BY <1>4 DEF Now
  <2> QED BY <1>3, <2>1, OneAtATime
<1>6. halted' = "no" /\ RntiOf[s] \in Rntis
  BY <1>1, <1>2, Constants DEF SciPending
<1> DEFINE gaps == ComputeGaps(s, a)
           new == [i \in DOMAIN gaps |-> [rnti |-> RntiOf[s], sfn |-> gaps[i]]]
<1>7. /\ gaps \in Seq(1 .. Window)
      /\ \A i \in DOMAIN gaps : \E c \in tb[s].allocs : c.sfn = gaps[i] /\ ~TxSci1A(c)
  <2>1. /\ gaps \in Seq(1 .. Window)
        /\ \A i \in DOMAIN gaps :
             \E c \in tb[s].allocs : c.sfn = a.sfn + gaps[i] /\ ~TxSci1A(c)
    BY <1>5, GapsLemma
  <2> HIDE DEF gaps
  <2>2. \A i \in DOMAIN gaps : gaps[i] \in Int
    BY <2>1, Constants
  <2> QED BY <1>5, <2>1, <2>2
<1>8. slRxGrants' = slRxGrants \o new
  BY <1>4 DEF SaveFutureSlRxGrants
<1> HIDE DEF gaps
<1>9. new \in Seq(Grant)
  <2>1. DOMAIN gaps = 1 .. Len(gaps) /\ Len(gaps) \in Nat
    BY <1>7, LenProperties
  <2>2. \A i \in DOMAIN gaps : [rnti |-> RntiOf[s], sfn |-> gaps[i]] \in Grant
    BY <1>6, <1>7, Constants, SMTT(60) DEF Grant
  <2>3. new \in [1 .. Len(gaps) -> Grant]
    BY <2>1, <2>2
  <2>4. new \in UNION {[1 .. n -> Grant] : n \in Nat}
    BY <2>1, <2>3
  <2> QED BY <2>4, SeqDef
<1>10. \A i \in DOMAIN new : Backed(new[i])
  BY <1>7 DEF Backed
<1> HIDE DEF new
<1>11. /\ slRxGrants' \in Seq(Grant)
       /\ \A i \in DOMAIN slRxGrants' :
            \/ \E j \in DOMAIN slRxGrants : slRxGrants'[i] = slRxGrants[j]
            \/ \E j \in DOMAIN new : slRxGrants'[i] = new[j]
  <2>1. slRxGrants \in Seq(Grant)
    BY Types
  <2>2. /\ slRxGrants' \in Seq(Grant)
        /\ Len(slRxGrants') = Len(slRxGrants) + Len(new)
        /\ \A i \in 1 .. Len(slRxGrants) + Len(new) :
             slRxGrants'[i] = IF i <= Len(slRxGrants) THEN slRxGrants[i]
                              ELSE new[i - Len(slRxGrants)]
    BY <1>8, <1>9, <2>1, ConcatProperties
  <2>3. /\ Len(slRxGrants) \in Nat /\ DOMAIN slRxGrants = 1 .. Len(slRxGrants)
        /\ Len(new) \in Nat /\ DOMAIN new = 1 .. Len(new)
        /\ DOMAIN slRxGrants' = 1 .. Len(slRxGrants')
    BY <1>9, <2>1, <2>2, LenProperties
  <2> QED BY <2>2, <2>3
<1>12. QueueOK'
  <2>1. ASSUME NEW i \in DOMAIN slRxGrants', Ahead(slRxGrants'[i].sfn)
        PROVE  Backed(slRxGrants'[i])
    <3>1. CASE \E j \in DOMAIN slRxGrants : slRxGrants'[i] = slRxGrants[j]
      BY <2>1, <3>1 DEF RxInv
    <3>2. CASE \E j \in DOMAIN new : slRxGrants'[i] = new[j]
      BY <1>10, <3>2
    <3> QED BY <1>11, <3>1, <3>2
  <2> QED BY <1>1, <2>1 DEF QueueOK, Ahead, Backed, TxSci1A
<1>13. RxTypeOK'
  BY <1>1, <1>6, <1>11 DEF RxInv, RxTypeOK, Grant
<1>14. BlocksOK'
  BY <1>1 DEF RxInv, BlocksOK, SlotsApart, OtherStreams, Ahead
<1>15. PlaceOK'
  <2>1. \A r \in expected' : SendersOf(r) # {}
    BY <1>1, <1>5 DEF RxInv, SendersOf, Now
  <2>2. ASSUME NEW t \in todo'
        PROVE  /\ t \in Streams /\ RntiOf[t] \notin expected'
               /\ \E c \in Now(t) : TxSci1A(c)
    <3>1. SciPending(t) /\ t # s
      BY <1>1, <1>2
    <3>2. PICK c \in tb[t].allocs : c.sfn = 0 /\ TxSci1A(c)
      BY <3>1 DEF SciPending, Now
    <3>3. RntiOf[t] # RntiOf[s]
      BY <1>5, <3>1, <3>2, OneAtATime DEF SciPending
    <3> QED BY <1>1, <3>1, <3>3 DEF SciPending
  <2> QED BY <1>1, <2>1, <2>2 DEF PlaceOK, SendersOf, SciPending, Now, TxSci1A
<1> QED BY <1>6, <1>12, <1>13, <1>14, <1>15, Zenon DEF RxInv, BlocksOK, QueueOK, PlaceOK

LEMMA StartRxSlPsschLemma ==
  ASSUME RxInv, StartRxSlPssch
  PROVE  RxInv'
<1>1. /\ tb' = tb /\ slRxGrants' = slRxGrants /\ expected' = expected /\ history' = history
      /\ hears' = hears /\ pc' = "pssch" /\ pc = "pscch"
      /\ todo' \subseteq expected
      /\ halted' = IF \E r \in todo' : SendersOf(r) = {} THEN "sinrNotUpdated" ELSE "no"
  BY DEF StartRxSlPssch
<1>2. halted' = "no"
  BY <1>1 DEF RxInv
<1>3. RxTypeOK' /\ PlaceOK'
  BY <1>1, <1>2 DEF RxInv, RxTypeOK, PlaceOK
<1>4. BlocksOK' /\ QueueOK'
  BY <1>1 DEF RxInv, BlocksOK, QueueOK, SlotsApart, OtherStreams, Ahead, Backed, TxSci1A
<1> QED BY <1>2, <1>3, <1>4, Zenon DEF RxInv, BlocksOK, QueueOK, PlaceOK

LEMMA RxSlPsschLemma ==
  ASSUME RxInv, NEW s \in Streams, RxSlPssch(s)
  PROVE  RxInv'
<1>1. /\ tb' = tb /\ slRxGrants' = slRxGrants /\ expected' = expected
      /\ hears' = hears /\ pc' = pc /\ pc = "pssch" /\ halted' = halted
      /\ todo' \subseteq todo
  BY DEF RxSlPssch
<1>2. history' \in [Rntis -> [HarqIds -> SUBSET {"this", "earlier"}]]
  <2>1. SoftBits(s) \subseteq {"this", "earlier"}
    BY Types, Constants DEF SoftBits, RxInv, RxTypeOK, Tb
  <2>2. PICK bits \in {SoftBits(s), {}, SoftBits(s) \union {"this"}} :
          history' = [history EXCEPT ![RntiOf[s]][tb[s].id] = bits]
    BY DEF RxSlPssch
  <2>3. bits \in SUBSET {"this", "earlier"}
    BY <2>1
  <2> QED BY <2>2, <2>3 DEF RxInv, RxTypeOK
<1>3. RxTypeOK' /\ PlaceOK'
  BY <1>1, <1>2 DEF RxInv, RxTypeOK, PlaceOK
<1>4. BlocksOK' /\ QueueOK'
  BY <1>1 DEF RxInv, BlocksOK, QueueOK, SlotsApart, OtherStreams, Ahead, Backed, TxSci1A
<1> QED BY <1>1, <1>3, <1>4, Zenon DEF RxInv, BlocksOK, QueueOK, PlaceOK

LEMMA EndRxSlFrameLemma ==
  ASSUME RxInv, EndRxSlFrame
  PROVE  RxInv'
<1>1. /\ slRxGrants' = slRxGrants /\ history' = history /\ hears' = hears
      /\ pc' = "idle" /\ pc = "pssch" /\ halted' = halted /\ todo' = {} /\ todo = {}
      /\ expected' \subseteq expected
  BY DEF EndRxSlFrame
<1>2. ASSUME NEW s \in Streams
      PROVE  \/ tb'[s] = NoTb /\ \A a \in tb[s].allocs : a.sfn = 0
             \/ tb'[s] = [tb[s] EXCEPT !.allocs = @ \ Now(s)]
  BY DEF EndRxSlFrame, Now
<1>3. ASSUME NEW s \in Streams
      PROVE  /\ tb'[s] \in Tb /\ InOrder(tb'[s])
             /\ tb'[s].allocs = {a \in tb[s].allocs : a.sfn >= 1}
  <2>1. CASE tb'[s] = NoTb /\ \A a \in tb[s].allocs : a.sfn = 0
    BY <2>1, Constants DEF NoTb, InOrder
  <2>2. CASE tb'[s] = [tb[s] EXCEPT !.allocs = @ \ Now(s)]
    <3>1. tb[s] \in Tb /\ InOrder(tb[s])
      BY DEF RxInv, RxTypeOK
    <3>2. \A a \in tb[s].allocs : a.sfn \in Nat /\ a.tx \in Nat
      BY Types
    <3>3. /\ tb'[s] \in Tb /\ tb'[s].n = tb[s].n
          /\ tb'[s].allocs = {a \in tb[s].allocs : a.sfn >= 1}
      BY <2>2, <3>1, <3>2 DEF Tb, Now
    <3>4. InOrder(tb'[s])
      BY <3>1, <3>2, <3>3 DEF InOrder, Tb
    <3> QED BY <3>3, <3>4
  <2> QED BY <1>2, <2>1, <2>2
<1>4. RxTypeOK'
  <2>1. tb' \in [Streams -> Tb]
    BY <1>3 DEF EndRxSlFrame
  <2> QED BY <1>1, <2>1 DEF RxInv, RxTypeOK
<1>5. BlocksOK'
  BY <1>1, <1>3 DEF RxInv, BlocksOK, SlotsApart, OtherStreams, Ahead
<1>6. QueueOK'
  <2>1. ASSUME NEW i \in DOMAIN slRxGrants, slRxGrants[i].sfn >= 1
        PROVE  \E s \in Streams : \E a \in tb'[s].allocs :
                 /\ RntiOf[s] = slRxGrants[i].rnti /\ a.sfn = slRxGrants[i].sfn
                 /\ ~TxSci1A(a)
    <3>1. slRxGrants[i].sfn \in -1 .. Window
      BY Types
    <3>2. Backed(slRxGrants[i])
      BY <1>1, <2>1, <3>1, Constants DEF RxInv, Ahead
    <3>3. PICK s \in Streams : \E a \in tb[s].allocs :
            RntiOf[s] = slRxGrants[i].rnti /\ a.sfn = slRxGrants[i].sfn /\ ~TxSci1A(a)
      BY <3>2 DEF Backed
    <3> QED BY <1>3, <2>1, <3>3
  <2> QED BY <1>1, <2>1 DEF QueueOK, Ahead, Backed, TxSci1A
<1>7. PlaceOK' /\ (halted = "no")'
  BY <1>1 DEF RxInv, PlaceOK
<1> QED BY <1>4, <1>5, <1>6, <1>7, Zenon DEF RxInv, BlocksOK, QueueOK, PlaceOK

(* RxInv holds in every state of every behaviour, whatever the streams, the *)
(* UEs that send them, the slots, the HARQ ids and the SCIs that are lost.  *)
THEOREM RxInvariant == Spec => []RxInv
<1>1. RxInv /\ [Next]_vars => RxInv'
  <2> SUFFICES ASSUME RxInv, [Next]_vars PROVE RxInv'
    OBVIOUS
  <2>1. CASE StartSlot
    BY <2>1, StartSlotLemma
  <2>2. CASE StartRxSlPssch
    BY <2>2, StartRxSlPsschLemma
  <2>3. CASE EndRxSlFrame
    BY <2>3, EndRxSlFrameLemma
  <2>4. ASSUME NEW s \in Streams, NewTb(s) PROVE RxInv'
    BY <2>4, NewTbLemma
  <2>5. ASSUME NEW s \in Streams, SciLost(s) PROVE RxInv'
    BY <2>5, SciLostLemma
  <2>6. ASSUME NEW s \in Streams, PhyPscchPduReceived(s) PROVE RxInv'
    BY <2>6, PhyPscchPduReceivedLemma
  <2>7. ASSUME NEW s \in Streams, RxSlPssch(s) PROVE RxInv'
    BY <2>7, RxSlPsschLemma
  <2>8. CASE UNCHANGED vars
    BY <2>8 DEF vars, RxInv, RxTypeOK, SlotsApart, OtherStreams, Ahead, Backed,
                SendersOf, SciPending, Now, TxSci1A
  <2> QED BY <2>1, <2>2, <2>3, <2>4, <2>5, <2>6, <2>7, <2>8 DEF Next
<1> QED BY InitLemma, <1>1, PTL DEF Spec

(* The PHY never stops: no second block of one RNTI is expected in a slot,  *)
(* and each expected block has a signal.                                    *)
THEOREM NeverAbortsHolds == Spec => []NeverAborts
<1>1. RxInv => NeverAborts
  BY DEF RxInv, NeverAborts
<1> QED BY <1>1, RxInvariant, PTL

(* The variables of the receiver keep their types.                          *)
THEOREM RxTypeCorrect == Spec => []RxTypeOK
<1>1. RxInv => RxTypeOK
  BY DEF RxInv
<1> QED BY <1>1, RxInvariant, PTL

-----------------------------------------------------------------------------
(* Blocks in turn, for any number of UEs.                                   *)

(* Those in turn are not overtaken: what is announced later stands behind.  *)
LEMMA InTurnStays ==
  ASSUME RxInv, NEW i \in DOMAIN slRxGrants, InTurn(i),
         DOMAIN slRxGrants \subseteq DOMAIN slRxGrants',
         \A j \in DOMAIN slRxGrants : slRxGrants'[j] = slRxGrants[j]
  PROVE  slRxGrants'[i] = slRxGrants[i] /\ InTurn(i)'
<1>1. 1 .. i \subseteq DOMAIN slRxGrants
  <2>1. DOMAIN slRxGrants = 1 .. Len(slRxGrants) /\ Len(slRxGrants) \in Nat
    BY Types, LenProperties
  <2> QED BY <2>1
<1>2. \A j \in 1 .. i : slRxGrants'[j] = slRxGrants[j]
  BY <1>1
<1> QED BY <1>2 DEF InTurn

(* An SCI appends what it announces.                                        *)
LEMMA SciAppends ==
  ASSUME RxInv, NEW s \in Streams, PhyPscchPduReceived(s)
  PROVE  /\ DOMAIN slRxGrants \subseteq DOMAIN slRxGrants'
         /\ \A j \in DOMAIN slRxGrants : slRxGrants'[j] = slRxGrants[j]
<1>1. pc = "pscch" /\ s \in todo
  BY DEF PhyPscchPduReceived, SciTurn
<1>2. PICK a \in Now(s) : slRxGrants' = SaveFutureSlRxGrants(s, ComputeGaps(s, a))
  BY DEF PhyPscchPduReceived
<1>3. a \in tb[s].allocs /\ TxSci1A(a)
  <2>1. PICK b \in tb[s].allocs : b.sfn = 0 /\ TxSci1A(b)
    BY <1>1 DEF RxInv, SciPending, Now
  <2>2. a \in tb[s].allocs /\ a.sfn = 0
    BY <1>2 DEF Now
  <2> QED BY <2>1, <2>2, OneAtATime
<1> DEFINE gaps == ComputeGaps(s, a)
           new == [i \in DOMAIN gaps |-> [rnti |-> RntiOf[s], sfn |-> gaps[i]]]
<1>4. gaps \in Seq(1 .. Window)
  BY <1>3, GapsLemma, Zenon
<1> HIDE DEF gaps
<1>5. new \in Seq(Grant)
  <2>1. DOMAIN gaps = 1 .. Len(gaps) /\ Len(gaps) \in Nat
    BY <1>4, LenProperties
  <2>2. \A i \in DOMAIN gaps : gaps[i] \in 1 .. Window
    BY <1>4, <2>1, ElementOfSeq
  <2>3. \A i \in DOMAIN gaps : [rnti |-> RntiOf[s], sfn |-> gaps[i]] \in Grant
    BY <2>2, Constants DEF Grant
  <2>4. new \in [1 .. Len(gaps) -> Grant]
    BY <2>1, <2>3
  <2>5. new \in UNION {[1 .. n -> Grant] : n \in Nat}
    BY <2>1, <2>4
  <2> QED BY <2>5, SeqDef
<1>6. slRxGrants' = slRxGrants \o new
  BY <1>2 DEF SaveFutureSlRxGrants, gaps
<1> HIDE DEF new
<1>7. slRxGrants \in Seq(Grant)
  BY Types
<1>8. /\ Len(slRxGrants') = Len(slRxGrants) + Len(new)
      /\ \A j \in 1 .. Len(slRxGrants) : slRxGrants'[j] = slRxGrants[j]
      /\ slRxGrants' \in Seq(Grant)
      /\ Len(new) \in Nat /\ Len(slRxGrants) \in Nat
  BY <1>5, <1>6, <1>7, ConcatProperties, LenProperties
<1>9. /\ DOMAIN slRxGrants = 1 .. Len(slRxGrants)
      /\ DOMAIN slRxGrants' = 1 .. Len(slRxGrants')
  BY <1>7, <1>8, LenProperties
<1> QED BY <1>8, <1>9

(* A new slot takes the front when it is due; what is in turn behind it     *)
(* comes one slot and, if the front was taken, one place closer.            *)
LEMMA InTurnMoves ==
  ASSUME RxInv, StartSlot, NEW i \in DOMAIN slRxGrants, InTurn(i)
  PROVE  IF slRxGrants[i].sfn = 1 THEN slRxGrants[i].rnti \in expected'
         ELSE \E j \in DOMAIN slRxGrants' :
                /\ slRxGrants'[j].rnti = slRxGrants[i].rnti
                /\ slRxGrants'[j].sfn = slRxGrants[i].sfn - 1
                /\ InTurn(j)'
<1>1. /\ slRxGrants' = IF FrontIsNow(SlotPassed) THEN Tail(SlotPassed) ELSE SlotPassed
      /\ expected' = SendSlExpectedTbInfo(SlotPassed)
  BY DEF StartSlot
<1>2. /\ SlotPassed \in Seq(Grant) /\ Len(SlotPassed) = Len(slRxGrants)
      /\ DOMAIN slRxGrants = 1 .. Len(slRxGrants) /\ Len(slRxGrants) \in Nat
  <2>1. DOMAIN slRxGrants = 1 .. Len(slRxGrants) /\ Len(slRxGrants) \in Nat
    BY Types, LenProperties
  <2>2. SlotPassed \in Seq(Grant) /\ DOMAIN SlotPassed = DOMAIN slRxGrants
    BY SlotPassedLemma
  <2>3. DOMAIN SlotPassed = 1 .. Len(SlotPassed) /\ Len(SlotPassed) \in Nat
    BY <2>2, LenProperties
  <2> QED BY <2>1, <2>2, <2>3
<1>3. /\ i \in Nat /\ i >= 1 /\ i <= Len(slRxGrants)
      /\ \A j \in 1 .. i : slRxGrants[j].sfn \in Int /\ slRxGrants[j].sfn >= 1
      /\ \A j, k \in 1 .. i : j < k => slRxGrants[j].sfn < slRxGrants[k].sfn
  <2>1. \A j \in DOMAIN slRxGrants : slRxGrants[j].sfn \in Int
    BY Types, Constants
  <2> QED BY <1>2, <2>1 DEF InTurn
<1>4. \A j \in 1 .. i :
        /\ SlotPassed[j].sfn = slRxGrants[j].sfn - 1
        /\ SlotPassed[j].rnti = slRxGrants[j].rnti
  BY <1>2, <1>3, SlotPassedLemma DEF Passed
<1>5. SlotPassed # <<>> /\ Head(SlotPassed) = SlotPassed[1] /\ 1 \in 1 .. i
  BY <1>2, <1>3
<1>6. CASE slRxGrants[i].sfn = 1
  <2>1. i = 1
    <3>1. ~(1 < i)
      BY <1>3, <1>5, <1>6
    <3> QED BY <1>3, <3>1
  <2>2. Head(SlotPassed).sfn = 0 /\ Head(SlotPassed).rnti = slRxGrants[i].rnti
    BY <1>4, <1>5, <1>6, <2>1
  <2> QED BY <1>1, <1>5, <1>6, <2>2 DEF FrontIsNow, SendSlExpectedTbInfo
<1>7. CASE slRxGrants[i].sfn # 1 /\ FrontIsNow(SlotPassed)
  <2>1. slRxGrants[1].sfn = 1 /\ slRxGrants' = Tail(SlotPassed)
    BY <1>1, <1>3, <1>4, <1>5, <1>7 DEF FrontIsNow
  <2>2. /\ DOMAIN slRxGrants' = 1 .. Len(slRxGrants) - 1
        /\ \A k \in 1 .. Len(slRxGrants) - 1 : slRxGrants'[k] = SlotPassed[k + 1]
    BY <1>2, <1>5, <2>1
  <2>3. i >= 2 /\ i - 1 \in DOMAIN slRxGrants'
    BY <1>3, <1>7, <2>1, <2>2
  <2>4. \A k \in 1 .. i - 1 :
          /\ k + 1 \in 1 .. i
          /\ slRxGrants'[k].sfn = slRxGrants[k + 1].sfn - 1
          /\ slRxGrants'[k].rnti = slRxGrants[k + 1].rnti
    <3>1. SUFFICES ASSUME NEW k \in 1 .. i - 1
                   PROVE  /\ k + 1 \in 1 .. i
                          /\ slRxGrants'[k] = SlotPassed[k + 1]
      BY <1>4
    <3>2. k + 1 \in 1 .. i /\ k \in 1 .. Len(slRxGrants) - 1
      BY <1>2, <1>3
    <3> QED BY <2>2, <3>2
  <2>5. \A k \in 1 .. i - 1 : slRxGrants'[k].sfn >= 1
    <3>1. SUFFICES ASSUME NEW k \in 1 .. i - 1 PROVE slRxGrants[k + 1].sfn >= 2
      BY <1>3, <2>4, SMTT(60)
    <3>2. k + 1 \in 1 .. i /\ 1 < k + 1
      BY <1>3
    <3>3. slRxGrants[1].sfn < slRxGrants[k + 1].sfn
      BY <1>3, <1>5, <3>2
    <3> QED BY <1>3, <2>1, <3>2, <3>3
  <2>6. \A j, k \in 1 .. i - 1 : j < k => slRxGrants'[j].sfn < slRxGrants'[k].sfn
    <3>1. SUFFICES ASSUME NEW j \in 1 .. i - 1, NEW k \in 1 .. i - 1, j < k
                   PROVE  slRxGrants[j + 1].sfn - 1 < slRxGrants[k + 1].sfn - 1
      BY <2>4
    <3>2. j + 1 \in 1 .. i /\ k + 1 \in 1 .. i /\ j + 1 < k + 1
      BY <1>3, <3>1
    <3> QED BY <1>3, <3>2, SMTT(60)
  <2>7. slRxGrants'[i - 1].rnti = slRxGrants[i].rnti /\ slRxGrants'[i - 1].sfn = slRxGrants[i].sfn - 1
    <3>1. i - 1 \in 1 .. i - 1 /\ (i - 1) + 1 = i
      BY <1>3, <2>3
    <3> QED BY <2>4, <3>1
  <2>8. InTurn(i - 1)'
    BY <2>3, <2>5, <2>6 DEF InTurn
  <2> QED BY <1>7, <2>3, <2>7, <2>8
<1>8. CASE slRxGrants[i].sfn # 1 /\ ~FrontIsNow(SlotPassed)
  <2>1. slRxGrants' = SlotPassed /\ slRxGrants[1].sfn # 1
    BY <1>1, <1>3, <1>4, <1>5, <1>8 DEF FrontIsNow
  <2>2. \A k \in 1 .. i : slRxGrants[k].sfn >= 2
    <3>1. SUFFICES ASSUME NEW k \in 1 .. i PROVE slRxGrants[k].sfn >= 2
      OBVIOUS
    <3>2. slRxGrants[1].sfn >= 2
      BY <1>3, <1>5, <2>1
    <3>3. k = 1 \/ 1 < k
      BY <1>3
    <3>4. 1 < k => slRxGrants[1].sfn < slRxGrants[k].sfn
      BY <1>3, <1>5
    <3> QED BY <1>3, <1>5, <3>2, <3>3, <3>4
  <2>3. i \in DOMAIN slRxGrants'
    <3>1. DOMAIN SlotPassed = DOMAIN slRxGrants
      BY SlotPassedLemma
    <3> QED BY <2>1, <3>1
  <2>4. /\ \A k \in 1 .. i : slRxGrants'[k].sfn >= 1
        /\ \A j, k \in 1 .. i : j < k => slRxGrants'[j].sfn < slRxGrants'[k].sfn
        /\ slRxGrants'[i].rnti = slRxGrants[i].rnti /\ slRxGrants'[i].sfn = slRxGrants[i].sfn - 1
    <3>1. i \in 1 .. i
      BY <1>3
    <3>2. \A k \in 1 .. i : slRxGrants'[k].sfn = slRxGrants[k].sfn - 1
      BY <1>4, <2>1
    <3>3. \A k \in 1 .. i : slRxGrants'[k].sfn >= 1
      BY <1>3, <2>2, <3>2, SMTT(60)
    <3>4. \A j, k \in 1 .. i : j < k => slRxGrants'[j].sfn < slRxGrants'[k].sfn
      <4>1. SUFFICES ASSUME NEW j \in 1 .. i, NEW k \in 1 .. i, j < k
                     PROVE  slRxGrants[j].sfn - 1 < slRxGrants[k].sfn - 1
        BY <3>2
      <4> QED BY <1>3, <4>1
    <3> QED BY <1>4, <2>1, <3>1, <3>3, <3>4
  <2>5. InTurn(i)'
    BY <2>3, <2>4 DEF InTurn
  <2> QED BY <1>8, <2>3, <2>4, <2>5
<1> QED BY <1>6, <1>7, <1>8

(* NrUePhy::SendSlExpectedTbInfo looks at the front only: yet a block that  *)
(* is in turn when its SCI comes is expected in its slot, whatever any      *)
(* number of UEs announce after it and whichever SCIs are lost.             *)
THEOREM InTurnIsExpectedHolds == Spec => InTurnIsExpected
<1>1. RxInv /\ [Next]_vars =>
        [\A i \in DOMAIN slRxGrants : InTurn(i) =>
           IF ~StartSlot THEN slRxGrants'[i] = slRxGrants[i] /\ InTurn(i)'
           ELSE IF slRxGrants[i].sfn = 1 THEN slRxGrants[i].rnti \in expected'
           ELSE \E j \in DOMAIN slRxGrants' :
                  /\ slRxGrants'[j].rnti = slRxGrants[i].rnti
                  /\ slRxGrants'[j].sfn = slRxGrants[i].sfn - 1
                  /\ InTurn(j)']_vars
  <2> SUFFICES ASSUME RxInv, Next, NEW i \in DOMAIN slRxGrants, InTurn(i)
               PROVE  IF ~StartSlot THEN slRxGrants'[i] = slRxGrants[i] /\ InTurn(i)'
                      ELSE IF slRxGrants[i].sfn = 1 THEN slRxGrants[i].rnti \in expected'
                      ELSE \E j \in DOMAIN slRxGrants' :
                             /\ slRxGrants'[j].rnti = slRxGrants[i].rnti
                             /\ slRxGrants'[j].sfn = slRxGrants[i].sfn - 1
                             /\ InTurn(j)'
    OBVIOUS
  <2>1. CASE StartSlot
    BY <2>1, InTurnMoves
  <2>2. CASE ~StartSlot
    <3>1. /\ DOMAIN slRxGrants \subseteq DOMAIN slRxGrants'
          /\ \A j \in DOMAIN slRxGrants : slRxGrants'[j] = slRxGrants[j]
      <4>1. ASSUME NEW s \in Streams, PhyPscchPduReceived(s)
            PROVE  /\ DOMAIN slRxGrants \subseteq DOMAIN slRxGrants'
                   /\ \A j \in DOMAIN slRxGrants : slRxGrants'[j] = slRxGrants[j]
        BY <4>1, SciAppends
      <4>2. CASE slRxGrants' = slRxGrants
        BY <4>2
      <4>3. \/ \E s \in Streams : PhyPscchPduReceived(s)
            \/ slRxGrants' = slRxGrants
        BY <2>2 DEF Next, StartRxSlPssch, EndRxSlFrame, NewTb, SciLost, SciTurn, RxSlPssch
      <4> QED BY <4>1, <4>2, <4>3
    <3>2. slRxGrants'[i] = slRxGrants[i] /\ InTurn(i)'
      BY <3>1, InTurnStays
    <3> QED BY <2>2, <3>2
  <2> QED BY <2>1, <2>2
<1> QED BY <1>1, RxInvariant, PTL DEF Spec, InTurnIsExpected
=============================================================================
