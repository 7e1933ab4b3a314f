-------------------------- MODULE NrSlSensingProofs --------------------------
(* Facts about NrSlSensing that hold for any windows, periods and SCIs.     *)
EXTENDS NrSlSensingInv, FiniteSetTheorems, SequenceTheorems, TLAPS

LEMMA QType ==
  ASSUME NEW rsvp \in Nat \ {0}
  PROVE  Q(rsvp) \in Nat
<1>1. T1 \in Nat /\ T2 \in Nat /\ T1 <= T2
  BY SensingAssumption
<1> QED BY <1>1, SMT DEF Q

(* Times a period, a smaller number of periods is not longer.               *)
LEMMA Periods ==
  ASSUME NEW q \in Nat, NEW i \in 0 .. q, NEW p \in Nat
  PROVE  i * p <= p * q
<1>1. (q - i) * p \in Nat
  BY SMT
<1>2. (q - i) * p = p * q - i * p
  BY SMT
<1> QED BY <1>1, <1>2, SMT

(* An SCI older than the sensing window announces no resource of the        *)
(* selection window or of the period after it: what UpdateSensingWindow     *)
(* passes over takes no candidate away (nr-ue-mac.cc:1534-1586, 1623-1651). *)
THEOREM OutdatedAnnouncesNothing ==
  ASSUME NEW datum \in SensingData, datum.age > SensWindow,
         NEW slot \in Int, slot >= T1, NEW sc \in SubCh
  PROVE  ~Announces(datum, slot, sc)
<1> DEFINE p == datum.sci.rsvp
<1>1. /\ SensWindow \in Nat /\ T1 \in Nat /\ datum.age \in Nat /\ datum.sci \in Scis
  BY SensingAssumption DEF SensingData
<1>2. /\ p \in Nat \ {0} /\ p * Q(p) < SensWindow + 1 + T1
      /\ \A r \in datum.sci.reTx : r.gap \in Nat /\ r.gap + p * Q(p) < SensWindow + 1 + T1
  <2>1. datum.sci \in Sci
    BY <1>1, SensingAssumption
  <2>2. \A r \in datum.sci.reTx : r.gap \in Nat
    BY <2>1 DEF Sci
  <2>3. p \in Nat \ {0}
    BY <2>1 DEF Sci
  <2> QED BY <1>1, <2>2, <2>3, SensingAssumption
<1>3. Q(p) \in Nat
  BY <1>2, QType
<1>4. ASSUME NEW i \in 0 .. Q(p)
      PROVE  i * p \in Nat /\ i * p <= p * Q(p)
  BY <1>2, <1>3, Periods
<1>5. p * Q(p) \in Nat
  BY <1>2, <1>3
<1> HIDE DEF p
<1>6. ASSUME NEW i \in 0 .. Q(p)
      PROVE  slot # i * p - datum.age
  BY <1>1, <1>2, <1>4, <1>5
<1>7. ASSUME NEW i \in 0 .. Q(p), NEW r \in datum.sci.reTx
      PROVE  slot # i * p - datum.age + r.gap
  BY <1>1, <1>2, <1>4, <1>5
<1> QED BY <1>6, <1>7 DEF Announces, p

-----------------------------------------------------------------------------
(* A buffer: data in the order of its age.                                  *)
Ordered(data) ==
  /\ data \in Seq(SensingData)
  /\ \A k, l \in 1 .. Len(data) : k < l => data[k].age >= data[l].age

LEMMA OrderedType ==
  ASSUME NEW data, Ordered(data)
  PROVE  /\ data \in Seq(SensingData) /\ Len(data) \in Nat /\ DOMAIN data = 1 .. Len(data)
         /\ \A k \in 1 .. Len(data) : data[k] \in SensingData /\ data[k].age \in Nat
<1>1. data \in Seq(SensingData)
  BY DEF Ordered
<1>2. Len(data) \in Nat /\ DOMAIN data = 1 .. Len(data)
  BY <1>1, LenProperties
<1>3. \A k \in 1 .. Len(data) : data[k] \in SensingData
  BY <1>1, ElementOfSeq
<1> QED BY <1>1, <1>2, <1>3 DEF SensingData

LEMMA OrderedInType ==
  SensingTypeOK <=>
    /\ sfn \in 0 .. SensWindow /\ pc \in {"idle", "update", "ask", "loop", "pass"}
    /\ Ordered(sensingData) /\ Ordered(sensed) /\ Ordered(sensedData)
    /\ it \in 1 .. Len(sensingData) + 1
    /\ rsrpThrehold \in 0 .. MaxThres + 1
    /\ occupied \subseteq Window \X SubCh /\ slots \in {{}, Window}
    /\ halted \in {"no", "undefined"}
<1>1. ASSUME NEW data, data \in Seq(SensingData)
      PROVE  DOMAIN data = 1 .. Len(data)
  BY <1>1, LenProperties
<1>2. (\A data \in {sensingData, sensed, sensedData} :
          /\ data \in Seq(SensingData)
          /\ \A k, l \in DOMAIN data : k < l => data[k].age >= data[l].age)
       <=> Ordered(sensingData) /\ Ordered(sensed) /\ Ordered(sensedData)
  BY <1>1 DEF Ordered
<1> QED BY <1>2 DEF SensingTypeOK

(* What the operations of the buffer do, place by place.                    *)
LEMMA AppendData ==
  ASSUME NEW data, Ordered(data), NEW datum \in SensingData, datum.age = 0
  PROVE  /\ Ordered(Append(data, datum)) /\ Len(Append(data, datum)) = Len(data) + 1
         /\ \A k \in 1 .. Len(data) : Append(data, datum)[k] = data[k]
         /\ Append(data, datum)[Len(data) + 1] = datum
<1>1. /\ data \in Seq(SensingData) /\ Len(data) \in Nat
      /\ \A k \in 1 .. Len(data) : data[k].age \in Nat
  BY OrderedType
<1>2. /\ Append(data, datum) \in Seq(SensingData) /\ Len(Append(data, datum)) = Len(data) + 1
      /\ \A k \in 1 .. Len(data) : Append(data, datum)[k] = data[k]
      /\ Append(data, datum)[Len(data) + 1] = datum
  BY <1>1, SMT
<1> DEFINE app == Append(data, datum)
<1> HIDE DEF app
<1>3. \A k, l \in 1 .. Len(app) : k < l => app[k].age >= app[l].age
  BY <1>1, <1>2 DEF Ordered, app
<1> QED BY <1>2, <1>3 DEF Ordered, app

LEMMA RemoveData ==
  ASSUME NEW data, Ordered(data), NEW i \in 1 .. Len(data)
  PROVE  /\ Ordered(RemoveAt(data, i)) /\ Len(RemoveAt(data, i)) = Len(data) - 1
         /\ \A k \in 1 .. Len(data) - 1 :
              RemoveAt(data, i)[k] = IF k < i THEN data[k] ELSE data[k + 1]
<1> DEFINE left == SubSeq(data, 1, i - 1)
           right == SubSeq(data, i + 1, Len(data))
           rest == RemoveAt(data, i)
<1>1. /\ data \in Seq(SensingData) /\ Len(data) \in Nat
      /\ \A k \in 1 .. Len(data) : data[k] \in SensingData
  BY OrderedType
<1>2. /\ left \in Seq(SensingData) /\ Len(left) = i - 1
      /\ \A k \in 1 .. i - 1 : left[k] = data[k]
  <2>1. \A k \in 1 .. i - 1 : data[k] \in SensingData
    BY <1>1
  <2> QED BY <1>1, <2>1, SubSeqProperties
<1>3. /\ right \in Seq(SensingData) /\ Len(right) = Len(data) - i
      /\ \A k \in 1 .. Len(data) - i : right[k] = data[k + i]
  <2>1. \A k \in i + 1 .. Len(data) : data[k] \in SensingData
    BY <1>1
  <2>2. /\ right \in Seq(SensingData)
        /\ Len(right) = IF i + 1 <= Len(data) THEN Len(data) - (i + 1) + 1 ELSE 0
        /\ \A k \in 1 .. Len(data) - (i + 1) + 1 : right[k] = data[(i + 1) + k - 1]
    BY <1>1, <2>1, SubSeqProperties
  <2> HIDE DEF right
  <2> QED BY <1>1, <2>2
<1>4. rest = left \o right
  BY DEF RemoveAt
<1> HIDE DEF left, right, rest
<1>5. /\ rest \in Seq(SensingData) /\ Len(rest) = Len(data) - 1
      /\ \A k \in 1 .. Len(data) - 1 :
           rest[k] = IF k <= i - 1 THEN left[k] ELSE right[k - (i - 1)]
  <2>1. /\ rest \in Seq(SensingData) /\ Len(rest) = Len(left) + Len(right)
        /\ \A k \in 1 .. Len(left) + Len(right) :
             rest[k] = IF k <= Len(left) THEN left[k] ELSE right[k - Len(left)]
    BY <1>2, <1>3, <1>4, ConcatProperties
  <2>2. Len(left) + Len(right) = Len(data) - 1
    BY <1>1, <1>2, <1>3
  <2> QED BY <1>2, <2>1, <2>2
<1>6. ASSUME NEW k \in 1 .. Len(data) - 1
      PROVE  rest[k] = IF k < i THEN data[k] ELSE data[k + 1]
  <2>1. CASE k < i
    BY <1>1, <1>2, <1>5, <2>1
  <2>2. CASE k >= i
    <3>1. k - (i - 1) \in 1 .. Len(data) - i /\ k - (i - 1) + i = k + 1
      BY <1>1, <2>2
    <3> QED BY <1>1, <1>3, <1>5, <2>2, <3>1
  <2> QED BY <1>1, <2>1, <2>2
<1>7. \A k, l \in 1 .. Len(rest) : k < l => rest[k].age >= rest[l].age
  <2> SUFFICES ASSUME NEW k \in 1 .. Len(rest), NEW l \in 1 .. Len(rest), k < l
               PROVE  rest[k].age >= rest[l].age
    OBVIOUS
  <2> DEFINE from(j) == IF j < i THEN j ELSE j + 1
  <2>1. /\ from(k) \in 1 .. Len(data) /\ from(l) \in 1 .. Len(data) /\ from(k) < from(l)
    BY <1>1, <1>5
  <2>2. rest[k] = data[from(k)] /\ rest[l] = data[from(l)]
    BY <1>5, <1>6
  <2> HIDE DEF from
  <2> QED BY <2>1, <2>2 DEF Ordered
<1>8. Ordered(rest)
  BY <1>5, <1>7 DEF Ordered
<1> QED BY <1>5, <1>6, <1>8 DEF rest

LEMMA AgedData ==
  ASSUME NEW data, Ordered(data)
  PROVE  /\ Ordered(Aged(data)) /\ Len(Aged(data)) = Len(data)
         /\ \A k \in 1 .. Len(data) :
              /\ Aged(data)[k] = [data[k] EXCEPT !.age = @ + 1]
              /\ Aged(data)[k].age = data[k].age + 1
              /\ Aged(data)[k].late = data[k].late
<1>1. /\ data \in Seq(SensingData) /\ Len(data) \in Nat /\ DOMAIN data = 1 .. Len(data)
      /\ \A k \in 1 .. Len(data) : data[k] \in SensingData /\ data[k].age \in Nat
  BY OrderedType
<1>2. \A k \in 1 .. Len(data) :
        /\ [data[k] EXCEPT !.age = @ + 1] \in SensingData
        /\ [data[k] EXCEPT !.age = @ + 1].age = data[k].age + 1
        /\ [data[k] EXCEPT !.age = @ + 1].late = data[k].late
  BY <1>1, SMTT(60) DEF SensingData
<1> DEFINE aged == Aged(data)
<1>3. aged = [k \in 1 .. Len(data) |-> [data[k] EXCEPT !.age = @ + 1]]
  BY <1>1 DEF Aged
<1> HIDE DEF aged
<1>4. aged \in [1 .. Len(data) -> SensingData] /\ DOMAIN aged = 1 .. Len(data)
  BY <1>2, <1>3
<1>5. aged \in Seq(SensingData) /\ Len(aged) = Len(data)
  BY <1>1, <1>4
<1>6. \A k \in 1 .. Len(data) :
        /\ aged[k] = [data[k] EXCEPT !.age = @ + 1]
        /\ aged[k].age = data[k].age + 1
        /\ aged[k].late = data[k].late
  BY <1>2, <1>3
<1>7. \A k, l \in 1 .. Len(aged) : k < l => aged[k].age >= aged[l].age
  <2> SUFFICES ASSUME NEW k \in 1 .. Len(aged), NEW l \in 1 .. Len(aged), k < l
               PROVE  aged[k].age >= aged[l].age
    OBVIOUS
  <2>1. data[k].age \in Nat /\ data[l].age \in Nat /\ data[k].age >= data[l].age
    BY <1>1, <1>5 DEF Ordered
  <2>2. aged[k].age = data[k].age + 1 /\ aged[l].age = data[l].age + 1
    BY <1>5, <1>6
  <2> QED BY <2>1, <2>2
<1>8. Ordered(aged)
  BY <1>5, <1>7 DEF Ordered
<1> QED BY <1>5, <1>6, <1>8 DEF aged

LEMMA PartOfData ==
  ASSUME NEW data, Ordered(data), NEW m \in 1 .. Len(data) + 1, NEW n \in m - 1 .. Len(data)
  PROVE  /\ Ordered(SubSeq(data, m, n)) /\ Len(SubSeq(data, m, n)) = n - m + 1
         /\ \A k \in 1 .. n - m + 1 : SubSeq(data, m, n)[k] = data[m + k - 1]
<1> DEFINE part == SubSeq(data, m, n)
<1>1. /\ data \in Seq(SensingData) /\ Len(data) \in Nat
      /\ \A k \in 1 .. Len(data) : data[k] \in SensingData
  BY OrderedType
<1>2. \A k \in m .. n : data[k] \in SensingData
  BY <1>1
<1>3. /\ part \in Seq(SensingData) /\ Len(part) = IF m <= n THEN n - m + 1 ELSE 0
      /\ \A k \in 1 .. n - m + 1 : part[k] = data[m + k - 1]
  BY <1>1, <1>2, SubSeqProperties
<1> HIDE DEF part
<1>4. Len(part) = n - m + 1
  BY <1>1, <1>3, SMTT(60)
<1>5. \A k, l \in 1 .. Len(part) : k < l => part[k].age >= part[l].age
  <2> SUFFICES ASSUME NEW k \in 1 .. Len(part), NEW l \in 1 .. Len(part), k < l
               PROVE  part[k].age >= part[l].age
    OBVIOUS
  <2>1. /\ m + k - 1 \in 1 .. Len(data) /\ m + l - 1 \in 1 .. Len(data)
        /\ m + k - 1 < m + l - 1
    BY <1>1, <1>4
  <2> QED BY <1>1, <1>3, <1>4, <2>1 DEF Ordered
<1> QED BY <1>3, <1>4, <1>5 DEF Ordered, part
-----------------------------------------------------------------------------
(* How many elements there are of some ages, after each operation.          *)
LEMMA HeardType ==
  ASSUME NEW data, Ordered(data), NEW ages
  PROVE  /\ Heard(data, ages) \subseteq 1 .. Len(data)
         /\ IsFiniteSet(Heard(data, ages)) /\ NumHeard(data, ages) \in Nat
<1>1. Len(data) \in Nat /\ Heard(data, ages) \subseteq 1 .. Len(data)
  BY OrderedType DEF Heard
<1>2. IsFiniteSet(1 .. Len(data))
  BY <1>1, FS_Interval
<1> QED BY <1>1, <1>2, FS_Subset, FS_CardinalityType DEF NumHeard

LEMMA HeardAppend ==
  ASSUME NEW data, Ordered(data), NEW datum \in SensingData, datum.age = 0, NEW ages
  PROVE  NumHeard(Append(data, datum), ages) =
           IF 0 \in ages THEN NumHeard(data, ages) + 1 ELSE NumHeard(data, ages)
<1> DEFINE app == Append(data, datum)
           n == Len(data) + 1
<1>1. /\ Ordered(app) /\ Len(app) = n /\ app[n] = datum
      /\ \A k \in 1 .. Len(data) : app[k] = data[k]
  BY AppendData
<1>2. Len(data) \in Nat /\ DOMAIN data = 1 .. Len(data) /\ DOMAIN app = 1 .. n
  BY <1>1, OrderedType
<1> HIDE DEF app
<1>3. Heard(app, ages) = IF 0 \in ages THEN Heard(data, ages) \cup {n} ELSE Heard(data, ages)
  BY <1>1, <1>2 DEF Heard
<1>4. n \notin Heard(data, ages)
  BY <1>2 DEF Heard
<1>5. IsFiniteSet(Heard(data, ages))
  BY HeardType
<1> HIDE DEF n
<1> QED BY <1>3, <1>4, <1>5, FS_AddElement, SMTT(60) DEF NumHeard, app

LEMMA HeardRemove ==
  ASSUME NEW data, Ordered(data), NEW i \in 1 .. Len(data), NEW ages
  PROVE  /\ NumHeard(RemoveAt(data, i), ages) <= NumHeard(data, ages)
         /\ data[i].age \in ages => NumHeard(RemoveAt(data, i), ages) <= NumHeard(data, ages) - 1
<1> DEFINE rest == RemoveAt(data, i)
           S == Heard(rest, ages)
           T == Heard(data, ages) \ {i}
           from(k) == IF k < i THEN k ELSE k + 1
           f == [k \in S |-> from(k)]
<1>1. /\ Ordered(rest) /\ Len(rest) = Len(data) - 1
      /\ \A k \in 1 .. Len(data) - 1 : rest[k] = data[from(k)]
  <2>1. \A k \in 1 .. Len(data) - 1 : rest[k] = IF k < i THEN data[k] ELSE data[k + 1]
    BY RemoveData
  <2>2. Ordered(rest) /\ Len(rest) = Len(data) - 1
    BY RemoveData
  <2> HIDE DEF rest
  <2> QED BY <2>1, <2>2
<1>2. /\ Len(data) \in Nat /\ DOMAIN data = 1 .. Len(data)
      /\ DOMAIN rest = 1 .. Len(data) - 1
  BY <1>1, OrderedType
<1>3. /\ IsFiniteSet(T) /\ Cardinality(T) \in Nat
      /\ Cardinality(T) = IF i \in Heard(data, ages) THEN NumHeard(data, ages) - 1
                                                     ELSE NumHeard(data, ages)
  BY HeardType, FS_RemoveElement, FS_CardinalityType DEF NumHeard
<1>4. f \in Injection(S, T)
  <2>1. \A k \in S : from(k) \in T
    BY <1>1, <1>2 DEF Heard
  <2>2. S \subseteq Int
    BY <1>2 DEF Heard
  <2> HIDE DEF S, T
  <2>3. f \in [S -> T]
    BY <2>1
  <2>4. \A k, l \in S : f[k] = f[l] => k = l
    BY <2>2
  <2> QED BY <2>3, <2>4 DEF Injection, IsInjective
<1> HIDE DEF f, S, T
<1>5. Cardinality(S) <= Cardinality(T)
  BY <1>3, <1>4, FS_Injection
<1>6. data[i].age \in ages => i \in Heard(data, ages)
  BY <1>2 DEF Heard
<1>7. NumHeard(data, ages) \in Nat /\ Cardinality(S) \in Nat
  BY <1>1, HeardType DEF NumHeard, S
<1> QED BY <1>3, <1>5, <1>6, <1>7 DEF NumHeard, S

LEMMA HeardAged ==
  ASSUME NEW data, Ordered(data)
  PROVE  /\ NumHeard(Aged(data), {0}) = 0
         /\ \A age \in Nat \ {0} : NumHeard(Aged(data), {age}) = NumHeard(data, {age - 1})
         /\ NumHeard(Aged(data), TooOld) <= NumHeard(data, TooOld) + NumHeard(data, {SensWindow})
<1> DEFINE aged == Aged(data)
<1>1. /\ Ordered(aged) /\ Len(aged) = Len(data)
      /\ \A k \in 1 .. Len(data) : aged[k].age = data[k].age + 1
  BY AgedData
<1>2. /\ Len(data) \in Nat /\ DOMAIN data = 1 .. Len(data) /\ DOMAIN aged = 1 .. Len(data)
      /\ \A k \in 1 .. Len(data) : data[k].age \in Nat
  BY <1>1, OrderedType
<1> HIDE DEF aged
<1>3. Heard(aged, {0}) = {}
  BY <1>1, <1>2 DEF Heard
<1>4. ASSUME NEW age \in Nat \ {0} PROVE Heard(aged, {age}) = Heard(data, {age - 1})
  BY <1>1, <1>2, SMTT(60) DEF Heard
<1>5. Heard(aged, TooOld) \subseteq Heard(data, TooOld) \cup Heard(data, {SensWindow})
  <2>1. SensWindow \in Nat
    BY SensingAssumption
  <2> QED BY <1>1, <1>2, <2>1 DEF Heard, TooOld
<1>6. NumHeard(aged, TooOld) <= NumHeard(data, TooOld) + NumHeard(data, {SensWindow})
  <2> DEFINE S == Heard(data, TooOld)
             T == Heard(data, {SensWindow})
  <2>1. /\ IsFiniteSet(S) /\ IsFiniteSet(T)
        /\ Cardinality(S) \in Nat /\ Cardinality(T) \in Nat
    BY HeardType DEF NumHeard
  <2>2. NumHeard(aged, TooOld) \in Nat
    BY <1>1, HeardType
  <2>3. Heard(aged, TooOld) \in SUBSET (S \cup T)
    BY <1>5
  <2> HIDE DEF S, T
  <2>4. /\ IsFiniteSet(S \cup T) /\ IsFiniteSet(S \cap T)
        /\ Cardinality(S \cup T) = Cardinality(S) + Cardinality(T) - Cardinality(S \cap T)
    BY <2>1, FS_Union, FS_Intersection
  <2>5. Cardinality(S \cap T) \in Nat
    BY <2>4, FS_CardinalityType
  <2>6. Cardinality(Heard(aged, TooOld)) <= Cardinality(S \cup T)
    BY <2>3, <2>4, FS_Subset
  <2> QED BY <2>1, <2>2, <2>4, <2>5, <2>6 DEF NumHeard, S, T
<1> QED BY <1>3, <1>4, <1>6, FS_EmptySet DEF NumHeard, aged

(* All that is outdated lies before a place that is not.                    *)
LEMMA OutdatedInFront ==
  ASSUME NEW data, Ordered(data), NEW i \in 1 .. Len(data) + 1,
         i <= Len(data) => data[i].age <= SensWindow
  PROVE  NumHeard(data, TooOld) <= i - 1
<1>1. /\ Len(data) \in Nat /\ DOMAIN data = 1 .. Len(data)
      /\ \A k \in 1 .. Len(data) : data[k].age \in Nat
  BY OrderedType
<1>2. SensWindow \in Nat
  BY SensingAssumption
<1>3. Heard(data, TooOld) \in SUBSET (1 .. i - 1)
  <2> SUFFICES ASSUME NEW k \in 1 .. Len(data), data[k].age > SensWindow, k >= i
               PROVE  FALSE
    BY <1>1 DEF Heard, TooOld
  <2>1. i \in 1 .. Len(data) /\ data[i].age <= SensWindow
    BY <1>1
  <2>2. data[i].age >= data[k].age
    BY <1>1, <2>1 DEF Ordered
  <2> QED BY <1>1, <1>2, <2>1, <2>2
<1>4. IsFiniteSet(1 .. i - 1) /\ Cardinality(1 .. i - 1) = i - 1
  <2> DEFINE a == 1
             b == i - 1
  <2>1. a \in Int /\ b \in Int /\ (IF a > b THEN 0 ELSE b - a + 1) = b
    BY <1>1
  <2> HIDE DEF a, b
  <2>2. IsFiniteSet(a .. b) /\ Cardinality(a .. b) = IF a > b THEN 0 ELSE b - a + 1
    BY <2>1, FS_Interval
  <2> QED BY <2>1, <2>2 DEF a, b
<1> QED BY <1>3, <1>4, FS_Subset DEF NumHeard
-----------------------------------------------------------------------------
(* The late elements stay at the end of the data.                           *)
LEMMA LateAppend ==
  ASSUME NEW data, Ordered(data), NEW history, Ordered(history), LateAtEnd(data, history),
         NEW datum \in SensingData, datum.age = 0
  PROVE  LateAtEnd(Append(data, datum), Append(history, datum))
<1> DEFINE app == Append(data, datum)
           all == Append(history, datum)
<1>1. /\ Len(data) \in Nat /\ DOMAIN data = 1 .. Len(data)
      /\ Len(history) \in Nat /\ DOMAIN history = 1 .. Len(history)
  BY OrderedType
<1>2. /\ Ordered(app) /\ Len(app) = Len(data) + 1 /\ app[Len(data) + 1] = datum
      /\ \A k \in 1 .. Len(data) : app[k] = data[k]
  BY AppendData
<1>3. /\ Ordered(all) /\ Len(all) = Len(history) + 1 /\ all[Len(history) + 1] = datum
      /\ \A k \in 1 .. Len(history) : all[k] = history[k]
  BY AppendData
<1> HIDE DEF app, all
<1>4. DOMAIN app = 1 .. Len(data) + 1 /\ DOMAIN all = 1 .. Len(history) + 1
  BY <1>2, <1>3, OrderedType
<1> SUFFICES ASSUME NEW k \in 1 .. Len(history) + 1, all[k].late
             PROVE  LET j == Len(app) - (Len(all) - k)
                    IN j \in 1 .. Len(data) + 1 /\ app[j] = all[k]
  BY <1>4 DEF LateAtEnd, app, all
<1> DEFINE i == Len(data) - (Len(history) - k)
<1>5. Len(app) - (Len(all) - k) = i
  BY <1>1, <1>2, <1>3
<1>6. CASE k \in 1 .. Len(history)
  <2>1. i \in 1 .. Len(data) /\ data[i] = history[k]
    BY <1>1, <1>3, <1>6 DEF LateAtEnd
  <2> HIDE DEF i
  <2> QED BY <1>1, <1>2, <1>3, <1>5, <1>6, <2>1
<1>7. CASE k = Len(history) + 1
  BY <1>1, <1>2, <1>3, <1>7
<1> QED BY <1>1, <1>6, <1>7

LEMMA LateRemove ==
  ASSUME NEW data, Ordered(data), NEW history, Ordered(history), LateAtEnd(data, history),
         NEW i \in 1 .. Len(data),
         \A k \in 1 .. Len(history) : history[k].late => history[k].age < data[i].age
  PROVE  LateAtEnd(RemoveAt(data, i), history)
<1> DEFINE rest == RemoveAt(data, i)
<1>1. /\ Len(data) \in Nat /\ DOMAIN data = 1 .. Len(data)
      /\ \A k \in 1 .. Len(data) : data[k].age \in Nat
      /\ Len(history) \in Nat /\ DOMAIN history = 1 .. Len(history)
  BY OrderedType
<1>2. /\ Ordered(rest) /\ Len(rest) = Len(data) - 1
      /\ \A k \in 1 .. Len(data) - 1 : rest[k] = IF k < i THEN data[k] ELSE data[k + 1]
  BY RemoveData
<1> HIDE DEF rest
<1>3. DOMAIN rest = 1 .. Len(data) - 1
  BY <1>2, OrderedType
<1> SUFFICES ASSUME NEW k \in 1 .. Len(history), history[k].late
             PROVE  LET j == Len(rest) - (Len(history) - k)
                    IN j \in 1 .. Len(data) - 1 /\ rest[j] = history[k]
  BY <1>1, <1>3 DEF LateAtEnd, rest
<1> DEFINE j == Len(data) - (Len(history) - k)
<1>4. j \in 1 .. Len(data) /\ data[j] = history[k]
  BY <1>1 DEF LateAtEnd
<1>5. Len(rest) - (Len(history) - k) = j - 1
  BY <1>1, <1>2
<1> HIDE DEF j
<1>6. ~ j <= i
  BY <1>1, <1>4 DEF Ordered
<1>7. j - 1 \in 1 .. Len(data) - 1 /\ rest[j - 1] = history[k]
  BY <1>1, <1>2, <1>4, <1>6
<1> QED BY <1>5, <1>7

LEMMA LateAged ==
  ASSUME NEW data, Ordered(data), NEW history, Ordered(history), LateAtEnd(data, history),
         NEW n \in 0 .. Len(history)
  PROVE  LateAtEnd(Aged(data), SubSeq(Aged(history), n + 1, Len(history)))
<1> DEFINE old == Aged(history)
           part == SubSeq(old, n + 1, Len(history))
           aged == Aged(data)
<1>1. /\ Len(data) \in Nat /\ DOMAIN data = 1 .. Len(data)
      /\ Len(history) \in Nat /\ DOMAIN history = 1 .. Len(history)
  BY OrderedType
<1>2. /\ Ordered(old) /\ Len(old) = Len(history)
      /\ \A k \in 1 .. Len(history) :
           old[k] = [history[k] EXCEPT !.age = @ + 1] /\ old[k].late = history[k].late
  BY AgedData
<1>3. /\ Ordered(aged) /\ Len(aged) = Len(data)
      /\ \A k \in 1 .. Len(data) : aged[k] = [data[k] EXCEPT !.age = @ + 1]
  BY AgedData
<1> HIDE DEF old, aged
<1>4. /\ Ordered(part) /\ Len(part) = Len(history) - n
      /\ \A k \in 1 .. Len(history) - n : part[k] = old[n + k]
  <2>1. n + 1 \in 1 .. Len(old) + 1 /\ Len(old) \in (n + 1) - 1 .. Len(old)
    BY <1>1, <1>2
  <2>2. /\ Ordered(SubSeq(old, n + 1, Len(old)))
        /\ Len(SubSeq(old, n + 1, Len(old))) = Len(old) - (n + 1) + 1
        /\ \A k \in 1 .. Len(old) - (n + 1) + 1 : SubSeq(old, n + 1, Len(old))[k] = old[(n + 1) + k - 1]
    BY <1>2, <2>1, PartOfData
  <2>3. part = SubSeq(old, n + 1, Len(old))
    BY <1>2
  <2> HIDE DEF part
  <2>4. \A k \in Int : (n + 1) + k - 1 = n + k
    OBVIOUS
  <2>5. Len(old) - (n + 1) + 1 = Len(history) - n
    BY <1>1, <1>2
  <2> QED BY <2>2, <2>3, <2>4, <2>5
<1> HIDE DEF part
<1>5. DOMAIN aged = 1 .. Len(data) /\ DOMAIN part = 1 .. Len(history) - n
  BY <1>3, <1>4, OrderedType
<1> SUFFICES LateAtEnd(aged, part)
  BY DEF aged, part, old
<1> SUFFICES ASSUME NEW k \in 1 .. Len(history) - n, part[k].late
             PROVE  LET j == Len(aged) - (Len(part) - k)
                    IN j \in 1 .. Len(data) /\ aged[j] = part[k]
  BY <1>5 DEF LateAtEnd
<1> DEFINE j == Len(data) - (Len(history) - (n + k))
<1>6. n + k \in 1 .. Len(history) /\ history[n + k].late
  <2>1. n + k \in 1 .. Len(history) /\ part[k] = old[n + k]
    BY <1>1, <1>4
  <2>2. old[n + k].late = history[n + k].late
    BY <1>2, <2>1, Zenon
  <2> QED BY <2>1, <2>2, Zenon
<1>7. j \in 1 .. Len(data) /\ data[j] = history[n + k]
  BY <1>1, <1>6 DEF LateAtEnd
<1>8. Len(aged) - (Len(part) - k) = j
  BY <1>1, <1>3, <1>4
<1> HIDE DEF j
<1>9. aged[j] = part[k]
  <2>1. aged[j] = [data[j] EXCEPT !.age = @ + 1]
    BY <1>3, <1>7
  <2>2. part[k] = old[n + k]
    BY <1>4
  <2>3. old[n + k] = [history[n + k] EXCEPT !.age = @ + 1]
    BY <1>2, <1>6
  <2> QED BY ONLY <1>7, <2>1, <2>2, <2>3, Zenon
<1> QED BY <1>7, <1>8, <1>9, Zenon

-----------------------------------------------------------------------------
(* The actions keep SensingInv.                                             *)
LEMMA InitSensing ==
  ASSUME Init
  PROVE  SensingInv
<1>1. SensWindow \in Nat /\ MaxPerSlot \in Nat /\ MaxThres \in Nat
  BY SensingAssumption
<1>2. Ordered(<<>>) /\ Len(<<>>) = 0
  BY EmptySeq DEF Ordered
<1>3. \A ages : Heard(<<>>, ages) = {}
  BY <1>2, OrderedType DEF Heard
<1>4. \A ages : NumHeard(<<>>, ages) = 0
  BY <1>3, FS_EmptySet DEF NumHeard
<1>5. SensingTypeOK
  BY <1>1, <1>2, OrderedInType DEF Init
<1>6. FewPerSlot /\ HalfIsLeft
  BY <1>1, <1>4 DEF Init, FewPerSlot, HalfIsLeft
<1>8. FirstSlots
  BY <1>2, OrderedType DEF Init, FirstSlots
<1>7. HistoryInWindow /\ LateAreKept
  BY <1>2, OrderedType DEF Init, HistoryInWindow, LateAreKept, LateAtEnd
<1> QED BY <1>1, <1>5, <1>6, <1>7, <1>8 DEF SensingInv, Init

LEMMA ReceiveSenses ==
  ASSUME SensingInv, NEW sci \in Scis, DoReceiveSensingData(sci)
  PROVE  SensingInv'
<1> DEFINE datum == [sci |-> sci, age |-> 0, late |-> sfn = SensWindow]
<1>1. /\ Ordered(sensingData) /\ Ordered(sensed)
      /\ sfn \in 0 .. SensWindow /\ it \in 1 .. Len(sensingData) + 1
      /\ SensWindow \in Nat /\ MaxPerSlot \in Nat
  BY OrderedInType, SensingAssumption DEF SensingInv
<1>2. /\ datum \in SensingData /\ datum.age = 0 /\ (datum.late => sfn = SensWindow)
  BY DEF SensingData
<1>3. /\ sensingData' = Append(sensingData, datum) /\ sensed' = Append(sensed, datum)
      /\ UNCHANGED <<sfn, pc, it, loopVars, halted>>
      /\ pc = "idle"
      /\ Cardinality({k \in DOMAIN sensed : sensed[k].age = 0}) < MaxPerSlot
  BY DEF DoReceiveSensingData, Running
<1> HIDE DEF datum
<1>4. /\ Ordered(sensingData') /\ Len(sensingData') = Len(sensingData) + 1
      /\ \A k \in 1 .. Len(sensingData) : sensingData'[k] = sensingData[k]
      /\ sensingData'[Len(sensingData) + 1] = datum
  BY <1>1, <1>2, <1>3, AppendData
<1>5. /\ Ordered(sensed') /\ Len(sensed') = Len(sensed) + 1
      /\ \A k \in 1 .. Len(sensed) : sensed'[k] = sensed[k]
      /\ sensed'[Len(sensed) + 1] = datum
  BY <1>1, <1>2, <1>3, AppendData
<1>6. /\ Len(sensingData) \in Nat /\ DOMAIN sensingData = 1 .. Len(sensingData)
      /\ Len(sensed) \in Nat /\ DOMAIN sensed = 1 .. Len(sensed)
      /\ DOMAIN sensingData' = 1 .. Len(sensingData) + 1
      /\ DOMAIN sensed' = 1 .. Len(sensed) + 1
  BY <1>1, <1>4, <1>5, OrderedType
<1>7. SensingTypeOK'
  BY <1>1, <1>3, <1>4, <1>5, <1>6, OrderedInType, SMTT(60) DEF SensingInv, SensingTypeOK, Ordered, loopVars
<1>8. FewPerSlot'
  <2>1. /\ NumHeard(sensingData', {0}) = NumHeard(sensingData, {0}) + 1
        /\ NumHeard(sensed', {0}) = NumHeard(sensed, {0}) + 1
        /\ \A age \in 0 .. SensWindow : age # 0 =>
             NumHeard(sensingData', {age}) = NumHeard(sensingData, {age})
    BY <1>1, <1>2, <1>3, HeardAppend
  <2>2. NumHeard(sensed, {0}) < MaxPerSlot
    <3>1. Heard(sensed, {0}) = {k \in DOMAIN sensed : sensed[k].age = 0}
      BY DEF Heard
    <3> QED BY <1>3, <3>1 DEF NumHeard
  <2>3. NumHeard(sensed, {0}) \in Nat /\ NumHeard(sensingData, {0}) \in Nat
    BY <1>1, HeardType
  <2>4. NumHeard(sensingData, {0}) <= NumHeard(sensed, {0})
    BY DEF SensingInv, FewPerSlot
  <2>5. \A age \in 0 .. SensWindow : NumHeard(sensingData, {age}) <= MaxPerSlot
    BY DEF SensingInv, FewPerSlot
  <2>6. NumHeard(sensingData', {0}) <= NumHeard(sensed', {0})
    BY <2>1, <2>3, <2>4
  <2>7. ASSUME NEW age \in 0 .. SensWindow PROVE NumHeard(sensingData', {age}) <= MaxPerSlot
    <3>1. CASE age = 0
      BY <1>1, <2>1, <2>2, <2>3, <2>4, <3>1
    <3>2. CASE age # 0
      BY <2>1, <2>5, <3>2
    <3> QED BY <3>1, <3>2
  <2> QED BY <2>6, <2>7 DEF FewPerSlot
<1>9. HalfIsLeft'
  <2>1. 0 \notin TooOld
    BY <1>1 DEF TooOld
  <2>2. NumHeard(sensingData', TooOld) = NumHeard(sensingData, TooOld)
    BY <1>1, <1>2, <1>3, <2>1, HeardAppend
  <2> QED BY <1>3, <2>2 DEF SensingInv, HalfIsLeft, TooOld
<1>10. HistoryInWindow'
  <2> SUFFICES ASSUME NEW k \in 1 .. Len(sensed) + 1
               PROVE  sensed'[k].age <= SensWindow /\ (sensed'[k].late => sfn = SensWindow)
    BY <1>3, <1>6 DEF HistoryInWindow
  <2>1. CASE k \in 1 .. Len(sensed)
    BY <1>5, <1>6, <2>1 DEF SensingInv, HistoryInWindow
  <2>2. CASE k = Len(sensed) + 1
    BY <1>1, <1>2, <1>5, <2>2
  <2> QED BY <1>6, <2>1, <2>2
<1>11. LateAreKept'
  BY <1>1, <1>2, <1>3, LateAppend DEF SensingInv, LateAreKept
<1>12. FirstSlots'
  BY <1>1, <1>2, <1>3, <1>4, <1>6 DEF SensingInv, FirstSlots
<1> QED BY <1>3, <1>7, <1>8, <1>9, <1>10, <1>11, <1>12 DEF SensingInv

LEMMA SlotSenses ==
  ASSUME SensingInv, SlotIndication
  PROVE  SensingInv'
<1>1. /\ Ordered(sensingData) /\ Ordered(sensed)
      /\ sfn \in 0 .. SensWindow /\ it \in 1 .. Len(sensingData) + 1
      /\ SensWindow \in Nat /\ MaxPerSlot \in Nat
  BY OrderedInType, SensingAssumption DEF SensingInv
<1>2. /\ Len(sensed) \in Nat /\ DOMAIN sensed = 1 .. Len(sensed)
      /\ \A k \in 1 .. Len(sensed) : sensed[k].age \in Nat
  BY <1>1, OrderedType
<1>3. /\ sfn' = (IF sfn < SensWindow THEN sfn + 1 ELSE sfn)
      /\ sensingData' = Aged(sensingData)
      /\ pc' = "update" /\ UNCHANGED <<it, loopVars, halted>>
      /\ pc = "idle" /\ it = 1
  BY DEF SlotIndication, Running, SensingInv, HalfIsLeft
<1>4. PICK n \in 0 .. Len(sensed) :
        /\ \A k \in DOMAIN sensed : k <= n <=> Aged(sensed)[k].age > SensWindow
        /\ sensed' = SubSeq(Aged(sensed), n + 1, Len(sensed))
  BY DEF SlotIndication
<1>5. /\ Ordered(sensingData') /\ Len(sensingData') = Len(sensingData)
  BY <1>1, <1>3, AgedData
<1>6. /\ Ordered(sensed') /\ Len(sensed') = Len(sensed) - n
      /\ \A k \in 1 .. Len(sensed) - n : sensed'[k] = Aged(sensed)[n + k]
  <2> DEFINE old == Aged(sensed)
  <2>1. Ordered(old) /\ Len(old) = Len(sensed)
    BY <1>1, AgedData
  <2>2. sensed' = SubSeq(old, n + 1, Len(old))
    BY <1>4, <2>1
  <2> HIDE DEF old
  <2>3. n + 1 \in 1 .. Len(old) + 1 /\ Len(old) \in (n + 1) - 1 .. Len(old)
    BY <1>2, <2>1
  <2>4. /\ Ordered(SubSeq(old, n + 1, Len(old)))
        /\ Len(SubSeq(old, n + 1, Len(old))) = Len(old) - (n + 1) + 1
        /\ \A k \in 1 .. Len(old) - (n + 1) + 1 : SubSeq(old, n + 1, Len(old))[k] = old[(n + 1) + k - 1]
    BY <2>1, <2>3, PartOfData
  <2>5. \A k \in Int : (n + 1) + k - 1 = n + k
    OBVIOUS
  <2>6. Len(old) - (n + 1) + 1 = Len(sensed) - n
    BY <1>2, <2>1
  <2>7. /\ Ordered(sensed') /\ Len(sensed') = Len(sensed) - n
        /\ \A k \in 1 .. Len(sensed) - n : sensed'[k] = old[n + k]
    BY <2>2, <2>4, <2>5, <2>6
  <2> QED BY <2>7 DEF old
<1>7. DOMAIN sensed' = 1 .. Len(sensed) - n
  BY <1>6, OrderedType
<1>8. SensingTypeOK'
  <2>1. sfn' \in 0 .. SensWindow
    BY <1>1, <1>3
  <2>2. it' \in 1 .. Len(sensingData') + 1
    BY <1>1, <1>3, <1>5
  <2>3. DOMAIN sensingData' = 1 .. Len(sensingData')
    BY <1>5, OrderedType
  <2>4. UNCHANGED sensedData /\ DOMAIN sensedData = 1 .. Len(sensedData)
    BY <1>3, OrderedInType, OrderedType DEF SensingInv, loopVars
  <2>5. \A data \in {sensingData', sensed', sensedData'} :
          /\ data \in Seq(SensingData)
          /\ \A k, l \in DOMAIN data : k < l => data[k].age >= data[l].age
    BY <1>5, <1>6, <1>7, <2>3, <2>4, OrderedInType DEF Ordered, SensingInv
  <2> QED BY <1>3, <2>1, <2>2, <2>5 DEF SensingInv, SensingTypeOK, loopVars
<1>9. FewPerSlot'
  <2>1. \A age \in 0 .. SensWindow : NumHeard(sensingData, {age}) <= MaxPerSlot
    BY DEF SensingInv, FewPerSlot
  <2>2. NumHeard(sensingData', {0}) = 0
    BY <1>1, <1>3, HeardAged
  <2>3. NumHeard(sensed', {0}) \in Nat
    BY <1>6, HeardType
  <2>4. ASSUME NEW age \in 0 .. SensWindow PROVE NumHeard(sensingData', {age}) <= MaxPerSlot
    <3>1. CASE age = 0
      BY <1>1, <2>2, <3>1
    <3>2. CASE age # 0
      <4>1. age \in Nat \ {0} /\ age - 1 \in 0 .. SensWindow
        BY <1>1, <3>2
      <4>2. NumHeard(sensingData', {age}) = NumHeard(sensingData, {age - 1})
        BY <1>1, <1>3, <4>1, HeardAged
      <4> QED BY <2>1, <4>1, <4>2
    <3> QED BY <3>1, <3>2
  <2> QED BY <2>2, <2>3, <2>4 DEF FewPerSlot
<1>10. HalfIsLeft'
  <2>1. NumHeard(sensingData', TooOld) <= NumHeard(sensingData, TooOld) + NumHeard(sensingData, {SensWindow})
    BY <1>1, <1>3, HeardAged
  <2>2. NumHeard(sensingData, TooOld) <= MaxPerSlot
    BY <1>3 DEF SensingInv, HalfIsLeft
  <2>3. NumHeard(sensingData, {SensWindow}) <= MaxPerSlot
    BY <1>1 DEF SensingInv, FewPerSlot
  <2>4. /\ NumHeard(sensingData', TooOld) \in Nat /\ NumHeard(sensingData, TooOld) \in Nat
        /\ NumHeard(sensingData, {SensWindow}) \in Nat
    BY <1>1, <1>5, HeardType
  <2>5. NumHeard(sensingData', TooOld) + (it' - 1) <= 2 * MaxPerSlot
    BY <1>1, <1>3, <2>1, <2>2, <2>3, <2>4
  <2> QED BY <1>3, <2>5 DEF HalfIsLeft, TooOld
<1>11. HistoryInWindow'
  <2> SUFFICES ASSUME NEW k \in 1 .. Len(sensed) - n
               PROVE  sensed'[k].age <= SensWindow /\ (sensed'[k].late => sfn' = SensWindow)
    BY <1>7 DEF HistoryInWindow
  <2> DEFINE i == n + k
  <2>1. i \in 1 .. Len(sensed) /\ ~ i <= n /\ sensed'[k] = Aged(sensed)[i]
    BY <1>2, <1>6
  <2> HIDE DEF i
  <2>2. Aged(sensed)[i].age = sensed[i].age + 1 /\ Aged(sensed)[i].late = sensed[i].late
    BY <1>1, <2>1, AgedData, ZenonT(60)
  <2>3. sensed'[k].age <= SensWindow
    <3>1. i \in DOMAIN sensed /\ sensed[i].age \in Nat
      BY <1>2, <2>1
    <3>2. ~ Aged(sensed)[i].age > SensWindow
      BY <1>4, <2>1, <3>1
    <3> QED BY <1>1, <2>1, <2>2, <3>1, <3>2, SMTT(60)
  <2>4. sensed'[k].late => sfn' = SensWindow
    BY <1>1, <1>2, <1>3, <2>1, <2>2, SMTT(60) DEF SensingInv, HistoryInWindow
  <2> QED BY <2>3, <2>4
<1>12. LateAreKept'
  BY <1>1, <1>3, <1>4, LateAged DEF SensingInv, LateAreKept
<1>13. FirstSlots'
  <2> SUFFICES ASSUME sfn' < SensWindow, NEW k \in 1 .. Len(sensingData)
               PROVE  sensingData'[k].age <= sfn'
    BY <1>5, OrderedType DEF FirstSlots
  <2>1. sfn' = sfn + 1 /\ sfn < SensWindow
    BY <1>1, <1>3
  <2>2. sensingData[k].age \in Nat /\ sensingData[k].age <= sfn
    BY <1>1, <2>1, OrderedType DEF SensingInv, FirstSlots
  <2>3. sensingData'[k].age = sensingData[k].age + 1
    BY <1>1, <1>3, AgedData
  <2> QED BY <1>1, <2>1, <2>2, <2>3, SMTT(60)
<1> QED BY <1>3, <1>8, <1>9, <1>10, <1>11, <1>12, <1>13 DEF SensingInv

LEMMA EraseSenses ==
  ASSUME SensingInv, EraseOutdated
  PROVE  SensingInv'
<1>1. /\ Ordered(sensingData) /\ Ordered(sensed)
      /\ sfn \in 0 .. SensWindow /\ it \in 1 .. Len(sensingData) + 1
      /\ SensWindow \in Nat /\ MaxPerSlot \in Nat
  BY OrderedInType, SensingAssumption DEF SensingInv
<1>2. /\ Len(sensingData) \in Nat
      /\ \A k \in 1 .. Len(sensingData) : sensingData[k].age \in Nat
      /\ Len(sensed) \in Nat /\ DOMAIN sensed = 1 .. Len(sensed)
      /\ \A k \in 1 .. Len(sensed) : sensed[k].age \in Nat
  BY <1>1, OrderedType
<1>3. /\ it \in 1 .. Len(sensingData)
      /\ sfn < SensWindow \/ sensingData[it].age > SensWindow
      /\ sensingData' = RemoveAt(sensingData, it)
      /\ it' = (IF it = Len(sensingData) THEN 1 ELSE it + 1)
      /\ pc = "update" /\ UNCHANGED <<sfn, pc, sensed, loopVars, halted>>
  BY <1>1, <1>2 DEF EraseOutdated, AtOutdated, Outdated, Running
<1>4. Ordered(sensingData') /\ Len(sensingData') = Len(sensingData) - 1
  BY <1>1, <1>3, RemoveData
<1>5. SensingTypeOK'
  <2>1. it' \in 1 .. Len(sensingData') + 1
    BY <1>2, <1>3, <1>4
  <2> QED BY <1>1, <1>3, <1>4, <2>1, OrderedInType, OrderedType, ZenonT(60)
          DEF SensingInv, SensingTypeOK, Ordered, loopVars
<1>6. FewPerSlot'
  <2>1. \A ages : NumHeard(sensingData', ages) <= NumHeard(sensingData, ages)
    BY <1>1, <1>3, HeardRemove
  <2>2. \A ages : NumHeard(sensingData', ages) \in Nat /\ NumHeard(sensingData, ages) \in Nat
    BY <1>1, <1>4, HeardType
  <2>3. NumHeard(sensed, {0}) \in Nat
    BY <1>1, HeardType
  <2>4. NumHeard(sensed', {0}) = NumHeard(sensed, {0})
    BY <1>3
  <2> QED BY <1>1, <2>1, <2>2, <2>3, <2>4 DEF SensingInv, FewPerSlot
<1>7. HalfIsLeft'
  <2> DEFINE before == NumHeard(sensingData, TooOld)
             after == NumHeard(sensingData', TooOld)
  <2>1. before \in Nat /\ after \in Nat
    BY <1>1, <1>4, HeardType
  <2>2. sfn = SensWindow => before + (it - 1) <= 2 * MaxPerSlot
    BY <1>3 DEF SensingInv, HalfIsLeft
  <2>3. after <= before
    BY <1>1, <1>3, HeardRemove
  <2>4. sensingData[it].age > SensWindow => after <= before - 1
    BY <1>1, <1>2, <1>3, HeardRemove DEF TooOld
  <2> HIDE DEF before, after
  <2>5. sfn = SensWindow => after + (it' - 1) <= 2 * MaxPerSlot
    BY <1>1, <1>2, <1>3, <2>1, <2>2, <2>4, SMTT(60)
  <2> QED BY <1>3, <2>5 DEF HalfIsLeft, TooOld, after
<1>8. HistoryInWindow'
  BY <1>3 DEF SensingInv, HistoryInWindow
<1>9. LateAreKept'
  <2>1. \A k \in 1 .. Len(sensed) : sensed[k].late => sensed[k].age < sensingData[it].age
    BY <1>1, <1>2, <1>3 DEF SensingInv, HistoryInWindow
  <2>2. LateAtEnd(RemoveAt(sensingData, it), sensed)
    BY <1>1, <1>3, <2>1, LateRemove DEF SensingInv, LateAreKept
  <2> QED BY <1>3, <2>2 DEF LateAreKept, LateAtEnd
<1>10. FirstSlots'
  <2> SUFFICES ASSUME sfn < SensWindow, NEW k \in 1 .. Len(sensingData) - 1
               PROVE  sensingData'[k].age <= sfn
    BY <1>3, <1>4, OrderedType DEF FirstSlots
  <2>1. sensingData'[k] = IF k < it THEN sensingData[k] ELSE sensingData[k + 1]
    BY <1>1, <1>3, RemoveData
  <2>2. \A l \in 1 .. Len(sensingData) : sensingData[l].age <= sfn
    BY <1>1, OrderedType DEF SensingInv, FirstSlots
  <2> QED BY <1>2, <2>1, <2>2
<1> QED BY <1>3, <1>5, <1>6, <1>7, <1>8, <1>9, <1>10 DEF SensingInv, loopVars

LEMMA UpdatedSenses ==
  ASSUME SensingInv, WindowUpdated
  PROVE  SensingInv'
<1>1. /\ Ordered(sensingData)
      /\ sfn \in 0 .. SensWindow /\ it \in 1 .. Len(sensingData) + 1
      /\ SensWindow \in Nat /\ MaxPerSlot \in Nat
  BY OrderedInType, SensingAssumption DEF SensingInv
<1>2. /\ Len(sensingData) \in Nat /\ DOMAIN sensingData = 1 .. Len(sensingData)
      /\ \A k \in 1 .. Len(sensingData) : sensingData[k].age \in Nat
  BY <1>1, OrderedType
<1>3. /\ it <= Len(sensingData) => ~Outdated(sensingData[it])
      /\ it' = 1 /\ pc = "update" /\ pc' \in {"idle", "ask"}
      /\ UNCHANGED <<sfn, sensingData, sensed, loopVars, halted>>
  BY DEF WindowUpdated, AtOutdated, Running
<1>4. SensingTypeOK'
  BY <1>1, <1>2, <1>3 DEF SensingInv, SensingTypeOK, loopVars
<1>5. HalfIsLeft'
  <2> DEFINE n == NumHeard(sensingData, TooOld)
  <2>1. n \in Nat
    BY <1>1, HeardType
  <2>2. n <= MaxPerSlot
    <3>1. CASE sfn < SensWindow
      <4>1. Heard(sensingData, TooOld) = {}
        BY <1>1, <1>2, <3>1 DEF Heard, TooOld, SensingInv, FirstSlots
      <4> QED BY <1>1, <4>1, FS_EmptySet DEF NumHeard
    <3>2. CASE sfn = SensWindow
      <4>1. it <= Len(sensingData) => sensingData[it].age <= SensWindow
        BY <1>1, <1>2, <1>3 DEF Outdated
      <4>2. n <= it - 1
        BY <1>1, <4>1, OutdatedInFront
      <4>3. n + (it - 1) <= 2 * MaxPerSlot
        BY <1>3, <3>2 DEF SensingInv, HalfIsLeft
      <4> HIDE DEF n
      <4> QED BY <1>1, <1>2, <2>1, <4>2, <4>3
    <3> QED BY <1>1, <3>1, <3>2
  <2> QED BY <1>3, <2>2 DEF HalfIsLeft, TooOld
<1>6. FewPerSlot' /\ FirstSlots' /\ HistoryInWindow' /\ LateAreKept'
  BY <1>3 DEF SensingInv, FewPerSlot, FirstSlots, HistoryInWindow, LateAreKept
<1> QED BY <1>3, <1>4, <1>5, <1>6 DEF SensingInv

(* A selection leaves the buffer alone.                                     *)
LEMMA SelectionSenses ==
  ASSUME SensingInv, GetNrSlTxOpportunities
  PROVE  SensingInv'
<1>1. UNCHANGED <<sfn, sensingData, it, sensed>> /\ pc # "update" /\ pc' # "update"
  BY DEF GetNrSlTxOpportunities, NoSensing, TrimSensedData, Eliminate, PassSensingData, Running
<1>2. FewPerSlot' /\ HalfIsLeft' /\ FirstSlots' /\ HistoryInWindow' /\ LateAreKept'
  BY <1>1 DEF SensingInv, FewPerSlot, HalfIsLeft, FirstSlots, HistoryInWindow, LateAreKept, TooOld
<1>3. /\ Ordered(sensingData) /\ Ordered(sensed) /\ Ordered(sensedData)
      /\ Len(sensingData) \in Nat /\ DOMAIN sensingData = 1 .. Len(sensingData)
      /\ MaxThres \in Nat
  BY OrderedInType, OrderedType, SensingAssumption DEF SensingInv
<1>4. CASE NoSensing
  BY <1>1, <1>2, <1>4 DEF NoSensing, Running, loopVars, SensingInv, SensingTypeOK
<1>5. CASE TrimSensedData
  <2>1. PICK n \in 0 .. Len(sensingData) : sensedData' = SubSeq(sensingData, 1, n)
    BY <1>5 DEF TrimSensedData
  <2>2. 1 \in 1 .. Len(sensingData) + 1 /\ n \in 1 - 1 .. Len(sensingData)
    BY <1>3
  <2>3. Ordered(sensedData')
    BY <1>3, <2>1, <2>2, PartOfData
  <2>4. /\ rsrpThrehold' = 0 /\ occupied' = {} /\ slots' = {} /\ pc' = "loop"
        /\ halted' \in {"no", "undefined"}
    BY <1>5 DEF TrimSensedData
  <2>5. DOMAIN sensedData' = 1 .. Len(sensedData')
    BY <2>3, OrderedType
  <2>6. \A data \in {sensingData', sensed', sensedData'} :
          /\ data \in Seq(SensingData)
          /\ \A k, l \in DOMAIN data : k < l => data[k].age >= data[l].age
    BY <1>1, <2>3, <2>5 DEF Ordered, SensingInv, SensingTypeOK
  <2>7. SensingTypeOK'
    BY <1>1, <1>3, <2>4, <2>6 DEF SensingInv, SensingTypeOK
  <2> QED BY <1>2, <1>3, <2>4, <2>7 DEF SensingInv
<1>6. CASE Eliminate
  <2>1. Occupied \subseteq Window \X SubCh
    BY DEF Occupied, Hits
  <2>2. /\ occupied' = Occupied /\ rsrpThrehold' = rsrpThrehold + 1
        /\ slots' \in {{}, Window} /\ pc' \in {"loop", "pass"}
        /\ (pc' = "loop" => rsrpThrehold # MaxThres) /\ pc = "loop"
        /\ UNCHANGED <<sensedData, halted>>
    BY <1>6 DEF Eliminate, Running
  <2>3. rsrpThrehold \in 0 .. MaxThres
    BY <1>3, <2>2 DEF SensingInv, SensingTypeOK
  <2>4. SensingTypeOK'
    <3>1. rsrpThrehold' \in 0 .. MaxThres + 1
      BY <1>3, <2>2, <2>3
    <3>2. occupied' \subseteq Window \X SubCh /\ slots' \in {{}, Window}
      BY <2>1, <2>2
    <3> HIDE DEF Window
    <3> QED BY <1>1, <2>2, <3>1, <3>2 DEF SensingInv, SensingTypeOK
  <2>5. rsrpThrehold' \in Int /\ (pc' = "loop" => rsrpThrehold' <= MaxThres)
    BY <1>3, <2>2, <2>3
  <2> QED BY <1>2, <2>4, <2>5 DEF SensingInv
<1>7. CASE PassSensingData
  <2>1. Ordered(<<>>) /\ Len(<<>>) = 0
    BY EmptySeq DEF Ordered
  <2>2. /\ sensedData' = <<>> /\ rsrpThrehold' = 0 /\ occupied' = {} /\ slots' = {}
        /\ pc' = "idle" /\ UNCHANGED halted
    BY <1>7 DEF PassSensingData
  <2>3. DOMAIN sensedData' = 1 .. Len(sensedData')
    BY <2>1, <2>2, OrderedType
  <2>4. \A data \in {sensingData', sensed', sensedData'} :
          /\ data \in Seq(SensingData)
          /\ \A k, l \in DOMAIN data : k < l => data[k].age >= data[l].age
    BY <1>1, <2>1, <2>2, <2>3 DEF Ordered, SensingInv, SensingTypeOK
  <2>5. SensingTypeOK'
    BY <1>1, <1>3, <2>2, <2>4 DEF SensingInv, SensingTypeOK
  <2> QED BY <1>2, <2>2, <2>5 DEF SensingInv
<1> QED BY <1>4, <1>5, <1>6, <1>7 DEF GetNrSlTxOpportunities

(* The invariant of the sensing, for any windows, periods and SCIs.         *)
THEOREM SensingInvariant == Spec => []SensingInv
<1>1. Init => SensingInv
  BY InitSensing
<1>2. SensingInv /\ [Next]_vars => SensingInv'
  <2> SUFFICES ASSUME SensingInv, [Next]_vars PROVE SensingInv'
    OBVIOUS
  <2>1. CASE UNCHANGED vars
    BY <2>1 DEF vars, loopVars, SensingInv, SensingTypeOK, FewPerSlot, FirstSlots, HalfIsLeft,
                TooOld, HistoryInWindow, LateAreKept
  <2>2. CASE UpdateSensingWindow
    BY <2>2, EraseSenses, UpdatedSenses DEF UpdateSensingWindow
  <2> QED BY <2>1, <2>2, SlotSenses, SelectionSenses, ReceiveSenses DEF Next, Stopped
<1> QED BY <1>1, <1>2, PTL DEF Spec

(* The variables keep their types; the data is in the order of its age.     *)
THEOREM SensingTypeCorrect == Spec => []SensingTypeOK
<1>1. SensingInv => SensingTypeOK
  BY DEF SensingInv
<1> QED BY <1>1, SensingInvariant, PTL

(* UpdateSensingWindow passes over every second outdated element            *)
(* (nr-ue-mac.cc:1637), but what stays never exceeds what is heard in one   *)
(* slot, for any number of it.                                              *)
THEOREM FewOutdatedHolds == Spec => []FewOutdated
<1>1. SensingInv => FewOutdated
  <2> SUFFICES ASSUME SensingInv, pc # "update" PROVE FewOutdated
    BY DEF FewOutdated
  <2>1. Ordered(sensingData) /\ SensWindow \in Nat
    BY OrderedInType, SensingAssumption DEF SensingInv
  <2>2. Heard(sensingData, TooOld) = {k \in DOMAIN sensingData : sensingData[k].age > SensWindow}
    BY <2>1, OrderedType DEF Heard, TooOld
  <2> QED BY <2>2 DEF SensingInv, HalfIsLeft, FewOutdated, NumHeard
<1> QED BY <1>1, SensingInvariant, PTL

(* What UpdateSensingWindow passes over takes no candidate away and is not  *)
(* reported (nr-ue-mac.cc:1534-1586).                                       *)
THEOREM OutdatedNeverCountsHolds == Spec => []OutdatedNeverCounts
<1>1. SensingInv => OutdatedNeverCounts
  <2> SUFFICES ASSUME SensingInv PROVE OutdatedNeverCounts
    OBVIOUS
  <2>1. Ordered(sensedData) /\ SensWindow \in Nat
    BY OrderedInType, SensingAssumption DEF SensingInv
  <2>2. \A h \in Hits : sensedData[h.k].age \in Nat
    BY <2>1, OrderedType DEF Hits
  <2> SUFFICES ASSUME NEW h \in Hits, sensedData[h.k].age > SensWindow PROVE FALSE
    BY <2>1, <2>2 DEF OutdatedNeverCounts
  <2>3. sensedData[h.k] \in SensingData
    BY <2>1, OrderedType DEF Hits
  <2>4. h.ahead \in Window /\ h.c \in {0, 1} /\ h.sc \in SubCh
    BY DEF Hits
  <2>5. /\ T1 \in Int /\ T2 \in Int /\ ResvPeriod \in Nat
    BY SensingAssumption
  <2> DEFINE slot == h.ahead + h.c * ResvPeriod
  <2>6. slot \in Int /\ slot >= T1
    BY <2>4, <2>5, SMT DEF Window
  <2>7. Announces(sensedData[h.k], slot, h.sc)
    BY DEF Hits
  <2> HIDE DEF slot
  <2> QED BY <2>3, <2>4, <2>6, <2>7, OutdatedAnnouncesNothing
<1> QED BY <1>1, SensingInvariant, PTL

(* What was heard since the window is complete stays at the end of the      *)
(* buffer as long as it is within the window, although UpdateSensingWindow  *)
(* increments its iterator once too often (nr-ue-mac.cc:1634-1647).         *)
THEOREM LateAreKeptHolds == Spec => []LateAreKept
<1>1. SensingInv => LateAreKept
  BY DEF SensingInv
<1> QED BY <1>1, SensingInvariant, PTL

-----------------------------------------------------------------------------
(* What is reported to the controller.                                      *)

LEMMA EmptyDecodedFirst == DecodedFirst(<<>>)
<1>1. DOMAIN <<>> = {}
  BY EmptySeq
<1> QED BY <1>1 DEF DecodedFirst

(* A part of the data, its elements in the same order, keeps the order of   *)
(* the slots; place says where an element of the part was.                  *)
LEMMA PartDecodedFirst ==
  ASSUME NEW data, Ordered(data), DecodedFirst(data), NEW part, Ordered(part),
         NEW place, \A k \in 1 .. Len(part) : place[k] \in 1 .. Len(data) /\ part[k] = data[place[k]],
         \A k, l \in 1 .. Len(part) : k < l => place[k] < place[l]
  PROVE  DecodedFirst(part)
<1>1. DOMAIN data = 1 .. Len(data) /\ DOMAIN part = 1 .. Len(part)
  BY OrderedType
<1> SUFFICES ASSUME NEW k \in 1 .. Len(part), NEW l \in 1 .. Len(part),
                    k < l, part[k].age = part[l].age, ~part[l].sci.corrupt
             PROVE  ~part[k].sci.corrupt /\ part[k].sci.sc # part[l].sci.sc
  BY <1>1 DEF DecodedFirst
<1>2. part[k] = data[place[k]] /\ part[l] = data[place[l]] /\ place[k] < place[l]
      /\ place[k] \in DOMAIN data /\ place[l] \in DOMAIN data
  BY <1>1
<1> QED BY <1>2 DEF DecodedFirst

LEMMA AgedDecodedFirst ==
  ASSUME NEW data, Ordered(data), DecodedFirst(data)
  PROVE  DecodedFirst(Aged(data)) /\ \A k \in DOMAIN Aged(data) : Aged(data)[k].age # 0
<1>1. /\ Ordered(Aged(data)) /\ Len(Aged(data)) = Len(data)
      /\ \A k \in 1 .. Len(data) :
           /\ Aged(data)[k] = [data[k] EXCEPT !.age = @ + 1]
           /\ Aged(data)[k].age = data[k].age + 1
  BY AgedData
<1>2. /\ DOMAIN data = 1 .. Len(data) /\ DOMAIN Aged(data) = 1 .. Len(data)
      /\ \A k \in 1 .. Len(data) : data[k] \in SensingData /\ data[k].age \in Nat
  BY <1>1, OrderedType
<1>3. \A k \in 1 .. Len(data) : Aged(data)[k].sci = data[k].sci
  BY <1>1, <1>2 DEF SensingData
<1>4. \A k \in 1 .. Len(data) : Aged(data)[k].age # 0
  BY <1>1, <1>2
<1> SUFFICES ASSUME NEW k \in 1 .. Len(data), NEW l \in 1 .. Len(data), k < l,
                    Aged(data)[k].age = Aged(data)[l].age, ~Aged(data)[l].sci.corrupt
             PROVE  ~Aged(data)[k].sci.corrupt /\ Aged(data)[k].sci.sc # Aged(data)[l].sci.sc
  BY <1>2, <1>4 DEF DecodedFirst
<1>5. data[k].age = data[l].age
  BY <1>1, <1>2
<1> QED BY <1>2, <1>3, <1>5 DEF DecodedFirst

LEMMA ReceiveReports ==
  ASSUME ReportInv, NEW sci \in Scis, DoReceiveSensingData(sci)
  PROVE  DecodedFirst(sensingData') /\ DecodedFirst(sensedData') /\ NowInHistory' /\ ReportKept'
<1> DEFINE datum == [sci |-> sci, age |-> 0, late |-> sfn = SensWindow]
           n == Len(sensingData)
<1>1. /\ Ordered(sensingData) /\ Ordered(sensed)
  BY OrderedInType DEF ReportInv, SensingInv
<1>2. datum \in SensingData /\ datum.age = 0 /\ datum.sci = sci
  BY DEF SensingData
<1>3. /\ sensingData' = Append(sensingData, datum) /\ sensed' = Append(sensed, datum)
      /\ UNCHANGED <<pc, loopVars>> /\ pc = "idle"
      /\ ~sci.corrupt => \A k \in DOMAIN sensed : sensed[k].age = 0 =>
           ~sensed[k].sci.corrupt /\ sensed[k].sci.sc # sci.sc
  BY DEF DoReceiveSensingData, Running
<1> HIDE DEF datum
<1>4. /\ Ordered(sensingData') /\ Len(sensingData') = n + 1
      /\ \A k \in 1 .. n : sensingData'[k] = sensingData[k]
      /\ sensingData'[n + 1] = datum
  BY <1>1, <1>2, <1>3, AppendData
<1>5. /\ Ordered(sensed') /\ Len(sensed') = Len(sensed) + 1
      /\ \A k \in 1 .. Len(sensed) : sensed'[k] = sensed[k]
      /\ sensed'[Len(sensed) + 1] = datum
  BY <1>1, <1>2, <1>3, AppendData
<1>6. /\ n \in Nat /\ DOMAIN sensingData = 1 .. n /\ DOMAIN sensingData' = 1 .. n + 1
      /\ Len(sensed) \in Nat /\ DOMAIN sensed = 1 .. Len(sensed)
      /\ DOMAIN sensed' = 1 .. Len(sensed) + 1
      /\ \A k \in 1 .. n : sensingData[k].age \in Nat
  BY <1>1, <1>4, <1>5, OrderedType
<1> HIDE DEF n
<1>7. DecodedFirst(sensingData')
  <2> SUFFICES ASSUME NEW k \in 1 .. n + 1, NEW l \in 1 .. n + 1, k < l,
                      sensingData'[k].age = sensingData'[l].age, ~sensingData'[l].sci.corrupt
               PROVE  ~sensingData'[k].sci.corrupt /\ sensingData'[k].sci.sc # sensingData'[l].sci.sc
    BY <1>6 DEF DecodedFirst
  <2>1. k \in 1 .. n /\ sensingData'[k] = sensingData[k]
    BY <1>4, <1>6
  <2>2. CASE l \in 1 .. n
    <3>1. DecodedFirst(sensingData) /\ k \in DOMAIN sensingData /\ l \in DOMAIN sensingData
      BY <1>6, <2>1, <2>2 DEF ReportInv
    <3>2. sensingData'[l] = sensingData[l]
      BY <1>4, <2>2
    <3> QED BY ONLY k < l, sensingData'[k].age = sensingData'[l].age, ~sensingData'[l].sci.corrupt,
                    <2>1, <3>1, <3>2, Zenon DEF DecodedFirst
  <2>3. CASE l = n + 1
    <3>1. ~sci.corrupt /\ sensingData[k].age = 0
      BY <1>2, <1>4, <2>1, <2>3
    <3>2. PICK j \in DOMAIN sensed : sensed[j] = sensingData[k]
      BY <1>6, <2>1, <3>1 DEF ReportInv, NowInHistory
    <3>3. ~sensed[j].sci.corrupt /\ sensed[j].sci.sc # sci.sc
      BY <1>3, <3>1, <3>2
    <3> QED BY <1>2, <1>4, <2>1, <2>3, <3>2, <3>3
  <2> QED BY <1>6, <2>2, <2>3
<1>8. NowInHistory'
  <2> SUFFICES ASSUME NEW k \in 1 .. n + 1, sensingData'[k].age = 0
               PROVE  \E l \in DOMAIN sensed' : sensed'[l] = sensingData'[k]
    BY <1>3, <1>6 DEF NowInHistory
  <2>1. CASE k \in 1 .. n
    <3>1. sensingData'[k] = sensingData[k]
      BY <1>4, <2>1
    <3>2. PICK l \in DOMAIN sensed : sensed[l] = sensingData[k]
      BY <1>6, <2>1, <3>1 DEF ReportInv, NowInHistory
    <3>3. l \in DOMAIN sensed' /\ sensed'[l] = sensed[l]
      BY <1>5, <1>6, <3>2
    <3> QED BY <3>1, <3>2, <3>3
  <2>2. CASE k = n + 1
    <3>1. Len(sensed) + 1 \in DOMAIN sensed'
      BY <1>6
    <3> QED BY <1>4, <1>5, <2>2, <3>1
  <2> QED BY <1>6, <2>1, <2>2
<1>9. DecodedFirst(sensedData') /\ ReportKept'
  BY <1>3 DEF loopVars, ReportInv, ReportKept
<1> QED BY <1>7, <1>8, <1>9

LEMMA SlotReports ==
  ASSUME ReportInv, SlotIndication
  PROVE  DecodedFirst(sensingData') /\ DecodedFirst(sensedData') /\ NowInHistory' /\ ReportKept'
<1>1. Ordered(sensingData) /\ DecodedFirst(sensingData)
  BY OrderedInType DEF ReportInv, SensingInv
<1>2. /\ sensingData' = Aged(sensingData) /\ pc' = "update" /\ UNCHANGED loopVars
  BY DEF SlotIndication
<1>3. DecodedFirst(Aged(sensingData)) /\ \A k \in DOMAIN Aged(sensingData) : Aged(sensingData)[k].age # 0
  BY <1>1, AgedDecodedFirst
<1>4. DecodedFirst(sensingData') /\ NowInHistory'
  BY <1>2, <1>3 DEF NowInHistory
<1>5. DecodedFirst(sensedData') /\ ReportKept'
  BY <1>2 DEF loopVars, ReportInv, ReportKept
<1> QED BY <1>4, <1>5

LEMMA UpdateReports ==
  ASSUME ReportInv, UpdateSensingWindow
  PROVE  DecodedFirst(sensingData') /\ DecodedFirst(sensedData') /\ NowInHistory' /\ ReportKept'
<1>1. /\ pc = "update" /\ UNCHANGED <<sensed, loopVars>> /\ pc' \in {"update", "idle", "ask"}
  BY DEF UpdateSensingWindow, EraseOutdated, WindowUpdated, Running
<1>2. DecodedFirst(sensedData') /\ ReportKept'
  BY <1>1 DEF loopVars, ReportInv, ReportKept
<1>3. CASE WindowUpdated
  BY <1>1, <1>2, <1>3 DEF WindowUpdated, ReportInv, NowInHistory
<1>4. CASE EraseOutdated
  <2> DEFINE n == Len(sensingData)
             place == [k \in 1 .. n - 1 |-> IF k < it THEN k ELSE k + 1]
  <2>1. /\ Ordered(sensingData) /\ DecodedFirst(sensingData)
        /\ n \in Nat /\ DOMAIN sensingData = 1 .. n /\ it \in 1 .. n + 1
    BY OrderedInType, OrderedType DEF ReportInv, SensingInv
  <2>2. it \in 1 .. n /\ sensingData' = RemoveAt(sensingData, it)
    <3>1. it <= n /\ sensingData' = RemoveAt(sensingData, it)
      BY <1>4, SMTT(60) DEF EraseOutdated, AtOutdated
    <3> HIDE DEF n
    <3> QED BY <2>1, <3>1
  <2>3. /\ Ordered(sensingData') /\ Len(sensingData') = n - 1
        /\ \A k \in 1 .. n - 1 :
             sensingData'[k] = IF k < it THEN sensingData[k] ELSE sensingData[k + 1]
    BY <2>1, <2>2, RemoveData
  <2> HIDE DEF n
  <2>4. /\ \A k \in 1 .. n - 1 : place[k] \in 1 .. n /\ sensingData'[k] = sensingData[place[k]]
        /\ \A k, l \in 1 .. n - 1 : k < l => place[k] < place[l]
    BY <2>1, <2>2, <2>3
  <2> HIDE DEF place
  <2>5. DecodedFirst(sensingData')
    <3>1. \A k \in 1 .. Len(sensingData') :
            place[k] \in 1 .. Len(sensingData) /\ sensingData'[k] = sensingData[place[k]]
      BY <2>3, <2>4 DEF n
    <3>2. \A k, l \in 1 .. Len(sensingData') : k < l => place[k] < place[l]
      BY <2>3, <2>4
    <3>3. Ordered(sensingData) /\ DecodedFirst(sensingData)
      BY <2>1
    <3>4. Ordered(sensingData')
      BY <2>3
    <3> QED BY ONLY <3>1, <3>2, <3>3, <3>4, PartDecodedFirst, Zenon
  <2>6. \A k \in 1 .. n : sensingData[k].age # 0
    BY <1>1, <2>1 DEF ReportInv, NowInHistory
  <2>7. DOMAIN sensingData' = 1 .. n - 1
    BY <2>3, OrderedType
  <2>8. NowInHistory'
    BY <2>4, <2>6, <2>7 DEF NowInHistory
  <2> QED BY <1>2, <2>5, <2>8
<1> QED BY <1>3, <1>4 DEF UpdateSensingWindow

LEMMA SelectionReports ==
  ASSUME ReportInv, GetNrSlTxOpportunities
  PROVE  DecodedFirst(sensingData') /\ DecodedFirst(sensedData') /\ NowInHistory' /\ ReportKept'
<1>1. UNCHANGED <<sensingData, sensed>> /\ pc # "update" /\ pc' # "update"
  BY DEF GetNrSlTxOpportunities, NoSensing, TrimSensedData, Eliminate, PassSensingData, Running
<1>2. DecodedFirst(sensingData') /\ NowInHistory'
  BY <1>1 DEF ReportInv, NowInHistory
<1>3. CASE NoSensing
  BY <1>2, <1>3 DEF NoSensing, Running, loopVars, ReportInv, ReportKept
<1>4. CASE TrimSensedData
  <2>1. Ordered(sensingData) /\ DecodedFirst(sensingData) /\ Len(sensingData) \in Nat
    BY OrderedInType, OrderedType DEF ReportInv, SensingInv
  <2>2. PICK n \in 0 .. Len(sensingData) : sensedData' = SubSeq(sensingData, 1, n)
    BY <1>4 DEF TrimSensedData
  <2> DEFINE place == [k \in 1 .. n |-> k]
  <2>3. 1 \in 1 .. Len(sensingData) + 1 /\ n \in 1 - 1 .. Len(sensingData)
    BY <2>1
  <2>4. /\ Ordered(sensedData') /\ Len(sensedData') = n - 1 + 1
        /\ \A k \in 1 .. n - 1 + 1 : sensedData'[k] = sensingData[1 + k - 1]
    BY <2>1, <2>2, <2>3, PartOfData
  <2>5. n - 1 + 1 = n /\ \A k \in 1 .. n : 1 + k - 1 = k
    OBVIOUS
  <2>6. /\ \A k \in 1 .. n : place[k] \in 1 .. Len(sensingData) /\ sensedData'[k] = sensingData[place[k]]
        /\ \A k, l \in 1 .. n : k < l => place[k] < place[l]
    BY <2>1, <2>4, <2>5
  <2> HIDE DEF place
  <2>7. DecodedFirst(sensedData')
    BY <2>1, <2>4, <2>5, <2>6, PartDecodedFirst
  <2>8. ReportKept'
    BY <1>4 DEF TrimSensedData, ReportKept
  <2> QED BY <1>2, <2>7, <2>8
<1>5. CASE Eliminate
  <2>1. /\ pc = "loop" /\ packets' = Reported /\ rsrpThrehold' = rsrpThrehold + 1
        /\ UNCHANGED sensedData
    BY <1>5 DEF Eliminate, Running
  <2>2. rsrpThrehold \in Nat
    BY DEF ReportInv, SensingInv, SensingTypeOK
  <2>3. Hits' = Hits
    BY <2>1 DEF Hits
  <2>4. FirstReport' = FirstReport
    BY <2>1, <2>3 DEF FirstReport
  <2>5. ASSUME rsrpThrehold > 0 PROVE ReportKept'
    <3>1. packets = FirstReport
      BY <2>1, <2>5 DEF ReportInv, ReportKept
    <3>2. packets' = packets
      BY <2>1, <2>5 DEF Reported
    <3>3. rsrpThrehold' > 0
      BY <2>1, <2>2
    <3> QED BY <2>4, <3>1, <3>2, <3>3 DEF ReportKept
  <2>6. ASSUME rsrpThrehold = 0 PROVE ReportKept'
    <3>1. ASSUME NEW g \in Hits
          PROVE  ~Strong(g) <=> sensedData[g.k].sci.rsrp = 0
      <4>1. Ordered(sensedData) /\ g.k \in DOMAIN sensedData
        BY OrderedInType DEF ReportInv, SensingInv, Hits
      <4>2. sensedData[g.k] \in SensingData
        BY <4>1, OrderedType
      <4>3. sensedData[g.k].sci \in Sci
        BY <4>2, SensingAssumption DEF SensingData
      <4>4. sensedData[g.k].sci.rsrp \in Nat
        BY <4>3 DEF Sci
      <4> QED BY <2>6, <4>4 DEF Strong
    <3>2. Reported = FirstReport
      BY <2>6, <3>1 DEF Reported, FirstReport
    <3>3. packets' = FirstReport /\ rsrpThrehold' > 0
      BY <2>1, <2>6, <3>2
    <3> QED BY <2>4, <3>3 DEF ReportKept
  <2>7. ReportKept'
    BY <2>2, <2>5, <2>6
  <2> QED BY <1>2, <2>1, <2>7 DEF ReportInv
<1>6. CASE PassSensingData
  <2>1. sensedData' = <<>> /\ pc' = "idle"
    BY <1>6 DEF PassSensingData
  <2> QED BY <1>2, <2>1, EmptyDecodedFirst DEF ReportKept
<1> QED BY <1>3, <1>4, <1>5, <1>6 DEF GetNrSlTxOpportunities

(* The order of the SCIs of a slot, and the report of the first turn, are   *)
(* kept, for any windows, periods and SCIs.                                 *)
THEOREM ReportInvariant == Spec => []ReportInv
<1> DEFINE Rest == /\ DecodedFirst(sensingData) /\ DecodedFirst(sensedData)
                   /\ NowInHistory /\ ReportKept
<1>1. Init => Rest
  <2> SUFFICES ASSUME Init PROVE Rest
    OBVIOUS
  <2>1. sensingData = <<>> /\ sensedData = <<>> /\ pc = "idle" /\ DOMAIN <<>> = {}
    BY EmptySeq DEF Init
  <2> QED BY <2>1, EmptyDecodedFirst DEF NowInHistory, ReportKept
<1>2. SensingInv /\ Rest /\ [Next]_vars => Rest'
  <2> SUFFICES ASSUME SensingInv, Rest, [Next]_vars PROVE Rest'
    OBVIOUS
  <2>1. ReportInv
    BY DEF ReportInv
  <2>2. CASE UNCHANGED vars
    <3>1. UNCHANGED <<sensingData, sensedData, sensed, pc, rsrpThrehold, packets>>
      BY <2>2 DEF vars, loopVars
    <3>2. Hits' = Hits
      BY <3>1 DEF Hits
    <3>3. FirstReport' = FirstReport
      BY <3>1, <3>2 DEF FirstReport
    <3> QED BY <3>1, <3>3 DEF NowInHistory, ReportKept
  <2> QED BY <2>1, <2>2, ReceiveReports, SlotReports, UpdateReports, SelectionReports DEF Next, Stopped
<1>3. SensingInv /\ Rest => ReportInv
  BY DEF ReportInv
<1> QED BY <1>1, <1>2, <1>3, SensingInvariant, PTL DEF Spec

(* With one period an SCI without retransmissions announces one slot from   *)
(* T1 on.                                                                   *)
LEMMA OnePeriodAnnounces ==
  ASSUME OnePeriod, NEW datum \in SensingData, datum.sci.reTx = {},
         NEW slot \in Int, slot >= T1, NEW sc \in SubCh
  PROVE  Announces(datum, slot, sc) <=> slot = ResvPeriod - datum.age /\ sc = datum.sci.sc
<1>1. /\ datum.age \in Nat /\ datum.sci \in Scis
      /\ T1 \in Nat \ {0} /\ T2 \in Nat /\ T2 <= ResvPeriod /\ ResvPeriod \in Nat \ {0}
  BY SensingAssumption DEF SensingData
<1>2. datum.sci.rsvp = ResvPeriod
  BY <1>1 DEF OnePeriod
<1>3. Q(ResvPeriod) = 1
  BY <1>1, SMT DEF Q
<1> DEFINE At(i) == slot = i * ResvPeriod - datum.age /\ sc = datum.sci.sc
<1>4. Announces(datum, slot, sc) <=> \E i \in 0 .. 1 : At(i)
  BY <1>2, <1>3 DEF Announces
<1>5. 0 * ResvPeriod - datum.age = 0 - datum.age /\ 1 * ResvPeriod - datum.age = ResvPeriod - datum.age
  BY <1>1
<1>6. ~At(0)
  BY <1>1, <1>5
<1>7. At(1) <=> slot = ResvPeriod - datum.age /\ sc = datum.sci.sc
  BY <1>5
<1> HIDE DEF At
<1>8. (\E i \in 0 .. 1 : At(i)) <=> At(0) \/ At(1)
  <2>1. \A i : i \in 0 .. 1 <=> i = 0 \/ i = 1
    OBVIOUS
  <2> QED BY <2>1, Zenon
<1> QED BY <1>4, <1>6, <1>7, <1>8

(* So it is met once in the comparison with the candidates, for their first *)
(* period.                                                                  *)
LEMMA OnePeriodHits ==
  ASSUME OnePeriod, ReportInv, \A k \in DOMAIN sensedData : sensedData[k].sci.reTx = {}
  PROVE  /\ \A h \in Hits :
              /\ h.k \in DOMAIN sensedData /\ h.c = 0
              /\ h.ahead = ResvPeriod - sensedData[h.k].age /\ h.ahead \in Window
              /\ h.sc = sensedData[h.k].sci.sc
         /\ \A k \in DOMAIN sensedData :
              ResvPeriod - sensedData[k].age \in Window =>
                [k |-> k, c |-> 0, ahead |-> ResvPeriod - sensedData[k].age,
                 sc |-> sensedData[k].sci.sc] \in Hits
<1>1. \A k \in DOMAIN sensedData : sensedData[k] \in SensingData /\ sensedData[k].age \in Nat
  BY OrderedInType, OrderedType DEF ReportInv, SensingInv
<1>2. T1 \in Nat \ {0} /\ T2 \in Nat /\ ResvPeriod \in Nat \ {0}
  BY SensingAssumption
<1>3. ASSUME NEW h \in Hits
      PROVE  /\ h.k \in DOMAIN sensedData /\ h.c = 0
             /\ h.ahead = ResvPeriod - sensedData[h.k].age /\ h.ahead \in Window
             /\ h.sc = sensedData[h.k].sci.sc
  <2> DEFINE slot == h.ahead + h.c * ResvPeriod
  <2>1. /\ h.k \in DOMAIN sensedData /\ h.c \in {0, 1} /\ h.ahead \in Window /\ h.sc \in SubCh
        /\ Announces(sensedData[h.k], slot, h.sc)
    BY DEF Hits
  <2>2. h.ahead \in Int /\ h.ahead >= T1
    BY <1>2, <2>1 DEF Window
  <2>3. slot = IF h.c = 0 THEN h.ahead ELSE h.ahead + ResvPeriod
    BY <1>2, <2>1, <2>2
  <2>4. slot \in Int /\ slot >= T1
    BY <1>2, <2>2, <2>3
  <2> HIDE DEF slot
  <2>5. slot = ResvPeriod - sensedData[h.k].age /\ h.sc = sensedData[h.k].sci.sc
    BY <1>1, <2>1, <2>4, OnePeriodAnnounces
  <2>6. h.c = 0
    BY <1>1, <1>2, <2>1, <2>2, <2>3, <2>5
  <2> QED BY <2>1, <2>3, <2>5, <2>6
<1>4. ASSUME NEW k \in DOMAIN sensedData, ResvPeriod - sensedData[k].age \in Window
      PROVE  [k |-> k, c |-> 0, ahead |-> ResvPeriod - sensedData[k].age,
              sc |-> sensedData[k].sci.sc] \in Hits
  <2> DEFINE slot == ResvPeriod - sensedData[k].age
             sc == sensedData[k].sci.sc
             h == [k |-> k, c |-> 0, ahead |-> slot, sc |-> sc]
  <2>1. slot \in Int /\ slot >= T1 /\ slot \in Window
    BY <1>1, <1>2, <1>4 DEF Window
  <2>2. sc \in SubCh
    <3>1. sensedData[k].sci \in Sci
      BY <1>1, SensingAssumption DEF SensingData
    <3> QED BY <3>1 DEF Sci
  <2>3. Announces(sensedData[k], slot, sc)
    BY <1>1, <2>1, <2>2, OnePeriodAnnounces
  <2> HIDE DEF slot, sc
  <2>4. h \in [k : DOMAIN sensedData, c : {0, 1}, ahead : Window, sc : SubCh]
    BY <2>1, <2>2
  <2>5. slot + 0 * ResvPeriod = slot
    BY <1>2, <2>1
  <2>6. Announces(sensedData[h.k], h.ahead + h.c * ResvPeriod, h.sc)
    BY <2>3, <2>5
  <2> HIDE DEF h
  <2>7. h \in Hits
    BY <2>4, <2>6 DEF Hits
  <2> QED BY <2>7 DEF h, slot, sc
<1> QED BY <1>3, <1>4

(* So nothing that was decoded is hidden by an earlier SCI.                 *)
LEMMA DecodedAreReported ==
  ASSUME OnePeriod, ReportInv, \A k \in DOMAIN sensedData : sensedData[k].sci.reTx = {}
  PROVE  /\ FirstReport = {h \in Hits : ~sensedData[h.k].sci.corrupt}
         /\ \A g, h \in FirstReport : g.ahead = h.ahead /\ g.sc = h.sc => g = h
<1>1. \A h \in Hits : /\ h.k \in DOMAIN sensedData /\ h.c = 0
                      /\ h.ahead = ResvPeriod - sensedData[h.k].age
                      /\ h.sc = sensedData[h.k].sci.sc
  BY OnePeriodHits
<1>2. /\ \A k \in DOMAIN sensedData : sensedData[k].age \in Nat
      /\ DOMAIN sensedData = 1 .. Len(sensedData) /\ Len(sensedData) \in Nat
  BY OrderedInType, OrderedType DEF ReportInv, SensingInv
<1>3. ResvPeriod \in Nat
  BY SensingAssumption
<1>4. ASSUME NEW g \in Hits, NEW h \in Hits, g.ahead = h.ahead, g.sc = h.sc,
             ~sensedData[h.k].sci.corrupt
      PROVE  ~(g.k < h.k)
  <2>1. sensedData[g.k].age = sensedData[h.k].age
    BY <1>1, <1>2, <1>3, <1>4, SMTT(60)
  <2>2. sensedData[g.k].sci.sc = sensedData[h.k].sci.sc
    BY <1>1, <1>4
  <2> QED BY <1>1, <1>4, <2>1, <2>2 DEF ReportInv, DecodedFirst
<1>5. FirstReport = {h \in Hits : ~sensedData[h.k].sci.corrupt}
  <2>1. \A g, h \in Hits : ~(g.k = h.k /\ g.c < h.c)
    BY <1>1
  <2> QED BY <1>4, <2>1 DEF FirstReport
<1>6. ASSUME NEW g \in FirstReport, NEW h \in FirstReport, g.ahead = h.ahead, g.sc = h.sc
      PROVE  g = h
  <2>1. g \in Hits /\ h \in Hits /\ ~sensedData[g.k].sci.corrupt /\ ~sensedData[h.k].sci.corrupt
    BY <1>5
  <2>2. g.k \in Int /\ h.k \in Int
    BY <1>1, <1>2, <2>1
  <2>3. g.k = h.k
    BY <1>4, <1>6, <2>1, <2>2
  <2>4. g.c = h.c
    BY <1>1, <2>1
  <2>5. /\ g \in [k : DOMAIN sensedData, c : {0, 1}, ahead : Window, sc : SubCh]
        /\ h \in [k : DOMAIN sensedData, c : {0, 1}, ahead : Window, sc : SubCh]
    BY <2>1 DEF Hits
  <2> QED BY <1>6, <2>3, <2>4, <2>5
<1> QED BY <1>5, <1>6

(* When all UEs announce one period, as in the experiments, the controller  *)
(* hears of a packet once for the resource that it announces, and of one    *)
(* packet for a resource, for any number of UEs and any powers, although    *)
(* the list of packets is made while the threshold loop is turning and next *)
(* to the powers of collided SCIs (nr-ue-mac.cc:1387-1421).                 *)
THEOREM EachReportedOnceHolds ==
  ASSUME OnePeriod
  PROVE  Spec => []EachReportedOnce
<1>1. ReportInv => EachReportedOnce
  <2> SUFFICES ASSUME ReportInv, pc = "pass",
                      \A k \in DOMAIN sensedData : sensedData[k].sci.reTx = {}
               PROVE  /\ \A k \in DOMAIN sensedData : ~sensedData[k].sci.corrupt =>
                           Cardinality({h \in packets : h.k = k}) =
                             Cardinality({s \in Window : Announces(sensedData[k], s, sensedData[k].sci.sc)})
                      /\ \A g, h \in packets : g.ahead = h.ahead /\ g.sc = h.sc => g = h
    BY DEF EachReportedOnce
  <2>1. packets = FirstReport
    BY DEF ReportInv, ReportKept
  <2>2. \A g, h \in packets : g.ahead = h.ahead /\ g.sc = h.sc => g = h
    BY <2>1, DecodedAreReported
  <2>3. ASSUME NEW k \in DOMAIN sensedData, ~sensedData[k].sci.corrupt
        PROVE  Cardinality({h \in packets : h.k = k}) =
                 Cardinality({s \in Window : Announces(sensedData[k], s, sensedData[k].sci.sc)})
    <3> DEFINE slot == ResvPeriod - sensedData[k].age
               sc == sensedData[k].sci.sc
               rec == [k |-> k, c |-> 0, ahead |-> slot, sc |-> sc]
               P == {h \in packets : h.k = k}
               S == {s \in Window : Announces(sensedData[k], s, sc)}
    <3>1. packets = {h \in Hits : ~sensedData[h.k].sci.corrupt}
      BY <2>1, DecodedAreReported
    <3>2. sensedData[k] \in SensingData /\ sc \in SubCh
      <4>1. sensedData[k] \in SensingData
        BY OrderedInType, OrderedType DEF ReportInv, SensingInv
      <4>2. sensedData[k].sci \in Sci
        BY <4>1, SensingAssumption DEF SensingData
      <4> QED BY <4>1, <4>2 DEF Sci
    <3>3. \A s \in Window : s \in Int /\ s >= T1
      BY SensingAssumption DEF Window
    <3>4. \A s \in Window : Announces(sensedData[k], s, sc) <=> s = slot
      BY <3>2, <3>3, OnePeriodAnnounces
    <3>5. \A h \in P : slot \in Window /\ h = rec
      <4> TAKE h \in P
      <4>1. h \in Hits /\ h.k = k
        BY <3>1
      <4>2. h.c = 0 /\ h.ahead = slot /\ slot \in Window /\ h.sc = sc
        BY <4>1, OnePeriodHits
      <4>3. h \in [k : DOMAIN sensedData, c : {0, 1}, ahead : Window, sc : SubCh]
        BY <4>1 DEF Hits
      <4> HIDE DEF slot, sc, P
      <4> QED BY <4>1, <4>2, <4>3
    <3>6. slot \in Window => rec \in P
      <4> SUFFICES ASSUME slot \in Window PROVE rec \in P
        OBVIOUS
      <4>1. rec \in Hits
        BY OnePeriodHits
      <4>2. rec.k = k
        OBVIOUS
      <4> HIDE DEF rec
      <4> QED BY <2>3, <3>1, <4>1, <4>2
    <3> HIDE DEF rec, slot, sc
    <3>7. CASE slot \in Window
      <4>1. P = {rec}
        BY <3>5, <3>6, <3>7
      <4>2. S = {slot}
        BY <3>4, <3>7
      <4>3. Cardinality({rec}) = 1 /\ Cardinality({slot}) = 1
        BY FS_Singleton
      <4>4. Cardinality(P) = Cardinality(S)
        BY <4>1, <4>2, <4>3
      <4> QED BY <4>4 DEF sc
    <3>8. CASE slot \notin Window
      <4>1. P = {} /\ S = {}
        BY <3>4, <3>5, <3>8
      <4>2. Cardinality(P) = Cardinality(S)
        BY <4>1
      <4> QED BY <4>2 DEF sc
    <3> QED BY <3>7, <3>8
  <2> QED BY <2>2, <2>3
<1> QED BY <1>1, ReportInvariant, PTL

-----------------------------------------------------------------------------
(* Both calls come nearer to their end with each step.                      *)

LEMMA StepsLeftType ==
  ASSUME SensingInv
  PROVE  StepsLeft \in Nat /\ Len(sensingData) \in Nat /\ MaxThres \in Nat
<1>1. Len(sensingData) \in Nat /\ MaxThres \in Nat
  BY OrderedInType, OrderedType, SensingAssumption DEF SensingInv
<1>2. pc = "loop" => MaxThres - rsrpThrehold \in Nat
  BY <1>1 DEF SensingInv, SensingTypeOK
<1>3. pc \in {"idle", "update", "ask", "loop", "pass"}
  BY DEF SensingInv, SensingTypeOK
<1> QED BY <1>1, <1>2, <1>3 DEF StepsLeft

LEMMA EraseShortens ==
  ASSUME SensingInv, EraseOutdated
  PROVE  StepsLeft' < StepsLeft
<1>1. Ordered(sensingData) /\ Len(sensingData) \in Nat /\ MaxThres \in Nat
  BY StepsLeftType, OrderedInType DEF SensingInv
<1>2. it \in 1 .. Len(sensingData) /\ sensingData' = RemoveAt(sensingData, it)
  BY <1>1 DEF EraseOutdated, AtOutdated, SensingInv, SensingTypeOK
<1>3. Len(sensingData') = Len(sensingData) - 1
  BY <1>1, <1>2, RemoveData
<1>4. pc = "update" /\ pc' = "update"
  BY DEF EraseOutdated, Running
<1> QED BY <1>1, <1>3, <1>4 DEF StepsLeft

LEMMA SelectionShortens ==
  ASSUME SensingInv, WindowUpdated \/ GetNrSlTxOpportunities
  PROVE  StepsLeft' < StepsLeft
<1>1. Len(sensingData) \in Nat /\ MaxThres \in Nat /\ rsrpThrehold \in Nat
  BY StepsLeftType DEF SensingInv, SensingTypeOK
<1>2. pc = "loop" => rsrpThrehold <= MaxThres
  BY DEF SensingInv
<1>3. CASE WindowUpdated
  <2>1. pc = "update" /\ pc' \in {"idle", "ask"}
    BY <1>3 DEF WindowUpdated, Running
  <2> QED BY <1>1, <2>1 DEF StepsLeft
<1>4. CASE NoSensing
  BY <1>1, <1>4 DEF NoSensing, Running, StepsLeft
<1>5. CASE TrimSensedData
  <2>1. pc = "ask" /\ pc' = "loop" /\ rsrpThrehold' = 0
    BY <1>5 DEF TrimSensedData, Running
  <2> QED BY <1>1, <2>1 DEF StepsLeft
<1>6. CASE Eliminate
  <2>1. /\ pc = "loop" /\ pc' \in {"loop", "pass"} /\ rsrpThrehold' = rsrpThrehold + 1
    BY <1>6 DEF Eliminate, Running
  <2> QED BY <1>1, <1>2, <2>1 DEF StepsLeft
<1>7. CASE PassSensingData
  <2>1. pc = "pass" /\ pc' = "idle"
    BY <1>7 DEF PassSensingData, Running
  <2> QED BY <2>1 DEF StepsLeft
<1> QED BY <1>3, <1>4, <1>5, <1>6, <1>7 DEF GetNrSlTxOpportunities

(* UpdateSensingWindow and GetNrSlTxOpportunities end, whatever was heard:  *)
(* an iterator that comes round has erased an element in between, and the   *)
(* threshold reaches the one at which the loop is left.                     *)
THEOREM CallsShortenHolds == Spec => [](StepsLeft \in Nat) /\ CallsShorten
<1>1. SensingInv => StepsLeft \in Nat
  BY StepsLeftType
<1>2. SensingInv => [UpdateSensingWindow \/ GetNrSlTxOpportunities => StepsLeft' < StepsLeft]_vars
  BY EraseShortens, SelectionShortens DEF UpdateSensingWindow
<1> QED BY <1>1, <1>2, SensingInvariant, PTL DEF CallsShorten
=============================================================================
