------------------------ MODULE OReSelectionProofs ------------------------
(* Facts about OReSelection that hold for any window, table and packets.    *)
EXTENDS OReSelectionInv, FiniteSetTheorems, SequenceTheorems, TLAPS

LEMMA IntervalSize ==
  ASSUME NEW n \in Nat, NEW a \in Int
  PROVE  IsFiniteSet(a .. a + n - 1) /\ Cardinality(a .. a + n - 1) = n
<1> DEFINE b == a + n - 1
<1>1. b \in Int /\ (IF a > b THEN 0 ELSE b - a + 1) = n
  OBVIOUS
<1> HIDE DEF b
<1>2. IsFiniteSet(a .. b) /\ Cardinality(a .. b) = IF a > b THEN 0 ELSE b - a + 1
  BY <1>1, FS_Interval
<1> QED BY <1>1, <1>2 DEF b

(* In a finite set with a strict total order lt, elements have the ranks    *)
(* 0, 1, 2, ..., each of them.                                              *)
IsOrder(lt, S) ==
  /\ \A x \in S : <<x, x>> \notin lt
  /\ \A x, y \in S : x # y => <<x, y>> \in lt \/ <<y, x>> \in lt
  /\ \A x, y, z \in S : <<x, y>> \in lt /\ <<y, z>> \in lt => <<x, z>> \in lt

Below(lt, S, x) == {y \in S : <<y, x>> \in lt}

Rank(lt, S, x) == Cardinality(Below(lt, S, x))

LEMMA RankType ==
  ASSUME NEW S, IsFiniteSet(S), NEW lt, IsOrder(lt, S), NEW x \in S
  PROVE  /\ IsFiniteSet(Below(lt, S, x))
         /\ Cardinality(Below(lt, S, x)) \in 0 .. Cardinality(S) - 1
<1> DEFINE B == Below(lt, S, x)
<1>1. B \in SUBSET S /\ x \in S \ B
  BY DEF Below, IsOrder
<1>2. IsFiniteSet(B) /\ Cardinality(B) <= Cardinality(S) /\ Cardinality(B) # Cardinality(S)
  BY <1>1, FS_Subset
<1>3. Cardinality(B) \in Nat /\ Cardinality(S) \in Nat
  BY <1>2, FS_CardinalityType
<1> QED BY <1>2, <1>3

LEMMA RankGrows ==
  ASSUME NEW S, IsFiniteSet(S), NEW lt, IsOrder(lt, S),
         NEW x \in S, NEW y \in S, <<x, y>> \in lt
  PROVE  Cardinality(Below(lt, S, x)) < Cardinality(Below(lt, S, y))
<1> DEFINE Bx == Below(lt, S, x)
           By == Below(lt, S, y)
<1>1. Bx \in SUBSET By /\ x \in By \ Bx
  BY DEF Below, IsOrder
<1>2. /\ IsFiniteSet(By)
      /\ Cardinality(Bx) \in 0 .. Cardinality(S) - 1 /\ Cardinality(By) \in 0 .. Cardinality(S) - 1
  BY RankType
<1>3. Cardinality(Bx) <= Cardinality(By) /\ Cardinality(Bx) # Cardinality(By)
  BY <1>1, <1>2, FS_Subset
<1>4. Cardinality(S) \in Nat
  BY FS_CardinalityType
<1> HIDE DEF Bx, By
<1>5. Cardinality(Bx) < Cardinality(By)
  BY <1>2, <1>3, <1>4
<1> QED BY <1>5 DEF Bx, By

LEMMA RankTaken ==
  ASSUME NEW S, IsFiniteSet(S), NEW lt, IsOrder(lt, S), NEW k \in 0 .. Cardinality(S) - 1
  PROVE  \E x \in S : Cardinality(Below(lt, S, x)) = k
<1> DEFINE n == Cardinality(S)
           T == 0 .. n - 1
           rank == [x \in S |-> Cardinality(Below(lt, S, x))]
<1>1. n \in Nat
  BY FS_CardinalityType
<1>2. rank \in [S -> T]
  BY RankType
<1>3. \A x, y \in S : rank[x] = rank[y] => x = y
  <2>1. SUFFICES ASSUME NEW x \in S, NEW y \in S, rank[x] = rank[y], x # y PROVE FALSE
    OBVIOUS
  <2>2. rank[x] < rank[y] \/ rank[y] < rank[x]
    BY <2>1, RankGrows DEF IsOrder
  <2>3. rank[x] \in Int /\ rank[y] \in Int
    BY <1>1, <1>2
  <2> QED BY <2>1, <2>2, <2>3
<1>4. rank \in Injection(S, T)
  <2> HIDE DEF rank, T
  <2> QED BY <1>2, <1>3 DEF Injection, IsInjective
<1>5. IsFiniteSet(T) /\ Cardinality(T) = n
  <2> DEFINE z == 0
             m == n
  <2>1. z \in Int /\ m \in Nat
    BY <1>1
  <2> HIDE DEF z, m
  <2>2. IsFiniteSet(z .. z + m - 1) /\ Cardinality(z .. z + m - 1) = m
    BY <2>1, IntervalSize
  <2>3. z + m - 1 = m - 1 /\ z = 0
    BY <2>1 DEF z
  <2>4. IsFiniteSet(0 .. m - 1) /\ Cardinality(0 .. m - 1) = m
    BY <2>2, <2>3
  <2> QED BY <2>4 DEF m
<1>6. rank \in Surjection(S, T)
  <2> HIDE DEF rank, T
  <2> QED BY <1>4, <1>5, FS_Injection
<1>7. PICK x \in S : rank[x] = k
  <2> HIDE DEF rank
  <2> QED BY <1>6 DEF Surjection
<1> QED BY <1>7

LEMMA RankLaws ==
  ASSUME NEW S, IsFiniteSet(S), NEW lt, IsOrder(lt, S)
  PROVE  /\ Cardinality(S) \in Nat
         /\ \A x \in S : Rank(lt, S, x) \in 0 .. Cardinality(S) - 1
         /\ \A x, y \in S : <<x, y>> \in lt <=> Rank(lt, S, x) < Rank(lt, S, y)
         /\ \A x, y \in S : Rank(lt, S, x) = Rank(lt, S, y) => x = y
         /\ \A k \in 0 .. Cardinality(S) - 1 : \E x \in S : Rank(lt, S, x) = k
<1>1. Cardinality(S) \in Nat
  BY FS_CardinalityType
<1>2. \A x \in S : Rank(lt, S, x) \in 0 .. Cardinality(S) - 1
  BY RankType DEF Rank
<1>3. \A x, y \in S : <<x, y>> \in lt => Rank(lt, S, x) < Rank(lt, S, y)
  BY RankGrows DEF Rank
<1>4. \A k \in 0 .. Cardinality(S) - 1 : \E x \in S : Rank(lt, S, x) = k
  BY RankTaken DEF Rank
<1>5. ASSUME NEW x \in S, NEW y \in S
      PROVE  /\ Rank(lt, S, x) < Rank(lt, S, y) => <<x, y>> \in lt
             /\ Rank(lt, S, x) = Rank(lt, S, y) => x = y
  <2>1. x = y \/ <<x, y>> \in lt \/ <<y, x>> \in lt
    BY DEF IsOrder
  <2>2. Rank(lt, S, x) \in Int /\ Rank(lt, S, y) \in Int
    BY <1>1, <1>2
  <2>3. <<x, y>> \in lt => Rank(lt, S, x) < Rank(lt, S, y)
    BY <1>3
  <2>4. <<y, x>> \in lt => Rank(lt, S, y) < Rank(lt, S, x)
    BY <1>3
  <2> QED BY <2>1, <2>2, <2>3, <2>4
<1> QED BY <1>1, <1>2, <1>3, <1>4, <1>5

(* As many as there are ranks.                                              *)
LEMMA RunOfRanks ==
  ASSUME NEW S, IsFiniteSet(S), NEW lt, IsOrder(lt, S),
         NEW lo \in 0 .. Cardinality(S) - 1, NEW m \in Nat \ {0}
  PROVE  Cardinality({x \in S : lo <= Rank(lt, S, x) /\ Rank(lt, S, x) < lo + m}) =
           IF m <= Cardinality(S) - lo THEN m ELSE Cardinality(S) - lo
<1> DEFINE n == Cardinality(S)
           rank(x) == Rank(lt, S, x)
           len == IF m <= n - lo THEN m ELSE n - lo
           G == {x \in S : lo <= rank(x) /\ rank(x) < lo + m}
           T == lo .. lo + len - 1
           f == [x \in G |-> rank(x)]
<1>1. /\ n \in Nat /\ \A x \in S : rank(x) \in 0 .. n - 1
      /\ \A x, y \in S : rank(x) = rank(y) => x = y
      /\ \A k \in 0 .. n - 1 : \E x \in S : rank(x) = k
  BY RankLaws
<1> HIDE DEF n, rank
<1>2. len \in Nat /\ lo \in Int /\ lo + len <= n /\ len <= m /\ (len = m \/ lo + len = n)
  BY <1>1 DEF n
<1> HIDE DEF len
<1>3. \A x \in G : f[x] = rank(x) /\ rank(x) \in T /\ x \in S
  <2>1. \A x \in G : rank(x) \in T
    BY <1>1, <1>2
  <2> QED BY <2>1
<1>4. \A k \in T : \E x \in G : rank(x) = k
  <2>1. ASSUME NEW k \in T PROVE \E x \in G : rank(x) = k
    <3>1. k \in 0 .. n - 1 /\ lo <= k /\ k < lo + m
      BY <1>1, <1>2
    <3>2. PICK x \in S : rank(x) = k
      BY <1>1, <3>1
    <3> QED BY <3>1, <3>2
  <2> QED BY <2>1
<1>5. IsFiniteSet(T) /\ Cardinality(T) = len
  BY <1>2, IntervalSize
<1>6. f \in [G -> T]
  <2>1. \A x \in G : rank(x) \in T
    BY <1>3
  <2> HIDE DEF G, T
  <2> QED BY <2>1
<1> HIDE DEF G, T, f
<1>7. \A x, y \in G : f[x] = f[y] => x = y
  BY <1>1, <1>3
<1>8. f \in Injection(G, T) /\ f \in Surjection(G, T)
  <2>1. f \in Injection(G, T)
    BY <1>6, <1>7 DEF Injection, IsInjective
  <2>2. \A k \in T : \E x \in G : f[x] = k
    BY <1>3, <1>4
  <2> QED BY <1>6, <2>1, <2>2 DEF Surjection
<1>9. Cardinality(G) = Cardinality(T)
  BY <1>5, <1>8, FS_Injection
<1>10. Cardinality(G) = len
  BY <1>5, <1>9
<1> QED BY <1>10 DEF G, len, n, rank

(* Every m-th number.                                                       *)
LEMMA Multiples ==
  ASSUME NEW m \in Nat \ {0}, NEW a \in Nat, a % m = 0
  PROVE  /\ (a + m) % m = 0
         /\ \A c \in Nat : c % m = 0 /\ a < c => a + m <= c
<1>1. ASSUME NEW x \in Int, NEW y \in Int, x < y
      PROVE  m * x + m <= m * y
  <2>1. y - x >= 1 /\ y - x \in Nat
    BY <1>1
  <2>2. m * (y - x) >= m /\ m * (y - x) = m * y - m * x
    BY <2>1
  <2>3. m * x \in Int /\ m * y \in Int
    OBVIOUS
  <2> QED BY <2>2, <2>3
<1>2. ASSUME NEW x \in Nat
      PROVE  x \div m \in Int /\ x % m \in 0 .. m - 1 /\ x = m * (x \div m) + (x % m)
  OBVIOUS
<1>3. PICK q \in Int : a = m * q
  BY <1>2
<1>4. (a + m) % m = 0
  <2> DEFINE p == (a + m) \div m
             r == (a + m) % m
  <2>1. p \in Int /\ r \in 0 .. m - 1 /\ a + m = m * p + r
    BY <1>2, SMTT(60)
  <2> HIDE DEF p, r
  <2>2. m * p \in Int /\ m * q \in Int /\ m * (q + 1) = m * q + m /\ q + 1 \in Int
    BY <1>3, <2>1
  <2>3. ~(p < q + 1)
    BY <1>1, <1>3, <2>1, <2>2
  <2>4. ~(q + 1 < p)
    BY <1>1, <1>3, <2>1, <2>2
  <2>5. p = q + 1
    BY <2>1, <2>3, <2>4
  <2>6. r = 0
    BY <1>3, <2>1, <2>2, <2>5
  <2> QED BY <2>6 DEF r
<1>5. ASSUME NEW c \in Nat, c % m = 0, a < c PROVE a + m <= c
  <2>1. PICK d \in Int : c = m * d
    <3>1. c \div m \in Int /\ c = m * (c \div m) + (c % m)
      BY <1>2
    <3>2. m * (c \div m) \in Int
      BY <3>1
    <3>3. c = m * (c \div m)
      BY <1>5, <3>1, <3>2
    <3> QED BY <3>1, <3>3
  <2>2. ~(d < q) /\ d # q
    <3>1. d < q => m * d + m <= m * q
      BY <1>1
    <3>2. d < q => c + m <= a
      BY <1>3, <2>1, <3>1
    <3> QED BY <1>3, <1>5, <2>1, <3>2
  <2>3. m * q + m <= m * d
    BY <1>1, <2>2
  <2> QED BY <1>3, <2>1, <2>3
<1> QED BY <1>4, <1>5

(* Every m-th is a leader; those from a leader to the next.                 *)
Followers(lt, S, m, a) ==
  {b \in S : /\ b = a \/ <<a, b>> \in lt
             /\ \A c \in S : Rank(lt, S, c) % m = 0 /\ <<a, c>> \in lt => <<b, c>> \in lt}

LEMMA UpToNextLeader ==
  ASSUME NEW S, IsFiniteSet(S), NEW lt, IsOrder(lt, S), NEW m \in Nat \ {0},
         NEW a \in S, Rank(lt, S, a) % m = 0
  PROVE  Followers(lt, S, m, a) =
         {b \in S : Rank(lt, S, a) <= Rank(lt, S, b) /\ Rank(lt, S, b) < Rank(lt, S, a) + m}
<1> DEFINE n == Cardinality(S)
           rank(x) == Rank(lt, S, x)
<1>1. /\ n \in Nat /\ \A x \in S : rank(x) \in 0 .. n - 1
      /\ \A x, y \in S : <<x, y>> \in lt <=> rank(x) < rank(y)
      /\ \A x, y \in S : rank(x) = rank(y) => x = y
      /\ \A k \in 0 .. n - 1 : \E x \in S : rank(x) = k
  BY RankLaws
<1>2. rank(a) % m = 0
  OBVIOUS
<1> HIDE DEF n, rank
<1>3. /\ rank(a) \in Nat /\ (rank(a) + m) % m = 0
      /\ \A k \in Nat : k % m = 0 /\ rank(a) < k => rank(a) + m <= k
  <2>1. rank(a) \in Nat
    BY <1>1
  <2> QED BY <1>2, <2>1, Multiples
<1>4. ASSUME NEW b \in S, rank(a) <= rank(b), rank(b) < rank(a) + m
      PROVE  /\ b = a \/ <<a, b>> \in lt
             /\ \A c \in S : rank(c) % m = 0 /\ <<a, c>> \in lt => <<b, c>> \in lt
  <2>1. rank(b) \in Nat
    BY <1>1
  <2>2. b = a \/ <<a, b>> \in lt
    BY <1>1, <1>3, <1>4, <2>1
  <2>3. ASSUME NEW c \in S, rank(c) % m = 0, <<a, c>> \in lt PROVE <<b, c>> \in lt
    <3>1. rank(c) \in Nat /\ rank(a) < rank(c)
      BY <1>1, <2>3
    <3>2. rank(a) + m <= rank(c)
      BY <1>3, <2>3, <3>1
    <3>3. rank(b) < rank(c)
      BY <1>3, <1>4, <2>1, <3>1, <3>2
    <3> QED BY <1>1, <3>3
  <2> QED BY <2>2, <2>3
<1>5. ASSUME NEW b \in S, b = a \/ <<a, b>> \in lt,
             \A c \in S : rank(c) % m = 0 /\ <<a, c>> \in lt => <<b, c>> \in lt
      PROVE  rank(a) <= rank(b) /\ rank(b) < rank(a) + m
  <2>1. rank(b) \in 0 .. n - 1 /\ rank(b) \in Nat
    BY <1>1
  <2>2. rank(a) <= rank(b)
    BY <1>1, <1>3, <1>5, <2>1
  <2>3. ASSUME rank(a) + m <= rank(b) PROVE FALSE
    <3>1. rank(a) + m \in 0 .. n - 1
      BY <1>1, <1>3, <2>1, <2>3
    <3>2. PICK c \in S : rank(c) = rank(a) + m
      BY <1>1, <3>1
    <3>3. rank(c) % m = 0 /\ rank(a) < rank(c)
      BY <1>3, <3>2
    <3>4. <<b, c>> \in lt
      BY <1>1, <1>5, <3>3
    <3>5. rank(b) < rank(c)
      BY <1>1, <3>4
    <3> QED BY <1>3, <2>1, <2>3, <3>2, <3>5
  <2> QED BY <1>3, <2>1, <2>2, <2>3
<1>6. \A b \in S :
        (/\ b = a \/ <<a, b>> \in lt
         /\ \A c \in S : rank(c) % m = 0 /\ <<a, c>> \in lt => <<b, c>> \in lt)
        <=> (rank(a) <= rank(b) /\ rank(b) < rank(a) + m)
  BY <1>4, <1>5
<1> QED BY <1>6 DEF rank, Followers

(* The numbers of a finite set are ordered.                                 *)
Less(S) == {w \in S \X S : w[1] < w[2]}

LEMMA LessIsOrder ==
  ASSUME NEW S, S \subseteq Int
  PROVE  /\ IsOrder(Less(S), S)
         /\ \A x \in S : Below(Less(S), S, x) = {y \in S : y < x}
BY DEF IsOrder, Less, Below

LEMMA LessRanks ==
  ASSUME NEW S, IsFiniteSet(S), S \subseteq Int
  PROVE  \A k \in 0 .. Cardinality(S) - 1 :
           \E x \in S : Cardinality({y \in S : y < x}) = k
<1> SUFFICES ASSUME NEW k \in 0 .. Cardinality(S) - 1
             PROVE  \E x \in S : Cardinality({y \in S : y < x}) = k
  OBVIOUS
<1>1. IsOrder(Less(S), S)
  BY LessIsOrder
<1>2. \E x \in S : Cardinality(Below(Less(S), S, x)) = k
  BY <1>1, RankTaken
<1> QED BY <1>2, LessIsOrder

(* The least and the greatest number of a finite set.                       *)
LEMMA MinOfSet ==
  ASSUME NEW S, IsFiniteSet(S), S \subseteq Int, S # {}
  PROVE  Min(S) \in S /\ \A y \in S : Min(S) <= y
<1>1. Cardinality(S) \in Nat \ {0}
  BY FS_CardinalityType, FS_EmptySet
<1>2. PICK x \in S : Cardinality({y \in S : y < x}) = 0
  <2>1. 0 \in 0 .. Cardinality(S) - 1
    BY <1>1
  <2> QED BY <2>1, LessRanks
<1>3. IsFiniteSet({y \in S : y < x})
  BY FS_Subset
<1>4. {y \in S : y < x} = {}
  BY <1>2, <1>3, FS_EmptySet
<1>5. \A y \in S : x <= y
  BY <1>4
<1> QED BY <1>5 DEF Min

LEMMA MaxOfSet ==
  ASSUME NEW S, IsFiniteSet(S), S \subseteq Int, S # {}
  PROVE  Max(S) \in S /\ \A y \in S : Max(S) >= y
<1> DEFINE n == Cardinality(S)
           under(x) == {y \in S : y < x}
<1>1. n \in Nat \ {0}
  BY FS_CardinalityType, FS_EmptySet
<1>2. PICK x \in S : Cardinality(under(x)) = n - 1
  <2>1. n - 1 \in 0 .. Cardinality(S) - 1
    BY <1>1
  <2> QED BY <2>1, LessRanks
<1>3. ASSUME NEW y \in S, x < y PROVE FALSE
  <2>1. /\ IsFiniteSet(under(x)) /\ x \notin under(x)
        /\ IsFiniteSet(under(x) \cup {x})
        /\ Cardinality(under(x) \cup {x}) = n
    <3>1. IsFiniteSet(under(x)) /\ x \notin under(x)
      BY FS_Subset
    <3> HIDE DEF under
    <3>2. IsFiniteSet(under(x) \cup {x}) /\ Cardinality(under(x) \cup {x}) = n - 1 + 1
      BY <1>2, <3>1, FS_AddElement
    <3> QED BY <1>1, <3>1, <3>2
  <2>2. under(x) \cup {x} = S
    BY <2>1, FS_Subset
  <2> QED BY <1>3, <2>2
<1>4. \A y \in S : x >= y
  BY <1>3
<1> QED BY <1>4 DEF Max

LEMMA MinOfTwo ==
  ASSUME NEW a \in Int, NEW b \in Int
  PROVE  Min({a, b}) = IF a <= b THEN a ELSE b
BY DEF Min

(* The elements of the list of slots by their places.                       *)
LEMMA AtPlace ==
  ASSUME NEW slots, IsFiniteSet(slots), slots \subseteq Int,
         NEW k \in 0 .. Cardinality(slots) - 1
  PROVE  At(slots, k) \in slots /\ Cardinality({o \in slots : o < At(slots, k)}) = k
<1>1. \E s \in slots : Cardinality({o \in slots : o < s}) = k
  BY LessRanks
<1> QED BY <1>1 DEF At

LEMMA WindowSize ==
  /\ T1 \in Nat /\ T2 \in Nat /\ Window \subseteq Nat
  /\ IsFiniteSet(Window) /\ Cardinality(Window) = T2 - T1 + 1
<1>1. T1 \in Nat /\ T2 \in Nat /\ T1 <= T2
  BY SelAssumption
<1> QED BY <1>1, FS_Interval DEF Window

LEMMA PlaceInWindow ==
  ASSUME NEW k \in 0 .. T2 - T1
  PROVE  At(Window, k) = T1 + k
<1> DEFINE a == At(Window, k)
<1>1. k \in 0 .. Cardinality(Window) - 1 /\ Window \subseteq Int
  BY WindowSize
<1>2. a \in Window /\ Cardinality({o \in Window : o < a}) = k
  BY <1>1, WindowSize, AtPlace
<1>3. a \in Int /\ T1 <= a
  BY <1>2, WindowSize DEF Window
<1>4. {o \in Window : o < a} = T1 .. a - 1
  BY <1>2, <1>3, WindowSize DEF Window
<1>5. PICK m \in Nat : m = a - T1
  BY <1>3, WindowSize
<1>6. Cardinality(T1 .. T1 + m - 1) = m /\ T1 + m - 1 = a - 1
  <2>1. T1 \in Int /\ T1 + m - 1 = a - 1
    BY <1>3, <1>5, WindowSize
  <2>2. Cardinality(T1 .. T1 + m - 1) = m
    BY <2>1, IntervalSize
  <2> QED BY <2>1, <2>2
<1>7. m = k
  BY <1>2, <1>4, <1>6
<1>8. a = T1 + m
  BY <1>3, <1>5, WindowSize
<1> QED BY <1>7, <1>8

-----------------------------------------------------------------------------
(* A slot of the window survives the way to the controller and back: it is  *)
(* heard of as a slot number modulo 100, which becomes its place in the     *)
(* list (O-Re/run.py:560-585).                                              *)
THEOREM SlotRoundTrip ==
  ASSUME now \in 0 .. 99, NEW k \in Window
  PROVE  ChosenSlot((now + k) % 100) = k - T1
<1>1. k \in 1 .. 100 /\ T1 \in Nat
  BY SelAssumption DEF Window
<1>2. CASE now + k < 100
  <2>1. (now + k) % 100 = now + k
    BY <1>1, <1>2, SMT
  <2> QED BY <1>1, <2>1, SMT DEF ChosenSlot
<1>3. CASE now + k >= 100
  <2>1. (now + k) % 100 = now + k - 100
    BY <1>1, <1>3, SMT
  <2> QED BY <1>1, <2>1, SMT DEF ChosenSlot
<1> QED BY <1>1, <1>2, <1>3, SMT

(* The place is written with two digits and read back (run.py:570-573,      *)
(* nr-sl-ue-mac-scheduler-simple.cc:108-115).                               *)
THEOREM DigitsRoundTrip ==
  ASSUME NEW place \in 0 .. 99
  PROVE  /\ Len(TwoDigits(place)) = 2
         /\ TwoDigits(place)[1] \in 0 .. 9 /\ TwoDigits(place)[2] \in 0 .. 9
         /\ 10 * TwoDigits(place)[1] + TwoDigits(place)[2] = place
BY SMT DEF TwoDigits

-----------------------------------------------------------------------------
(* The choices of the controller, and what the scheduler reads of them.     *)

LEMMA PacketFields ==
  ASSUME NEW p \in Packet
  PROVE  /\ p.ahead \in Window /\ p.ahead \in Int /\ p.ahead - T1 \in 0 .. T2 - T1
         /\ p.ahead - T1 \in 0 .. 99
         /\ p.sc \in SubCh /\ p.sc \in Int /\ p.sc \in 0 .. 9 /\ p.rc \in Nat
<1>1. p.ahead \in Window /\ p.sc \in SubCh /\ p.rc \in Nat
  BY DEF Packet
<1>2. T1 \in Int /\ T2 \in Int /\ T1 >= 1 /\ T2 <= 100 /\ TotalSubCh \in Int /\ TotalSubCh <= 10
  BY SelAssumption
<1>3. p.ahead \in Int /\ p.ahead >= T1 /\ p.ahead <= T2
  BY <1>1, <1>2 DEF Window
<1>4. p.sc \in Int /\ p.sc >= 0 /\ p.sc <= TotalSubCh - 1
  BY <1>1, <1>2 DEF SubCh
<1> QED BY <1>1, <1>2, <1>3, <1>4

LEMMA NthChoice ==
  ASSUME NEW choices, choices \subseteq Packet, IsFiniteSet(choices),
         OnePerResource(choices), NEW k \in 0 .. Cardinality(choices) - 1
  PROVE  Nth(choices, k) \in choices
<1> DEFINE before == {w \in choices \X choices : Before(w[1], w[2])}
<1>1. \A p \in choices : p.ahead \in Int /\ p.sc \in Int
  BY PacketFields
<1>2. \A p, q \in choices : <<p, q>> \in before <=> Before(p, q)
  OBVIOUS
<1>3. IsOrder(before, choices)
  <2> HIDE DEF before
  <2>1. \A p \in choices : ~Before(p, p)
    BY <1>1 DEF Before
  <2>2. \A p, q \in choices : p # q => Before(p, q) \/ Before(q, p)
    BY <1>1 DEF Before, OnePerResource
  <2>3. \A p, q, r \in choices : Before(p, q) /\ Before(q, r) => Before(p, r)
    BY <1>1 DEF Before
  <2> QED BY <1>2, <2>1, <2>2, <2>3 DEF IsOrder
<1>4. \A p \in choices : Below(before, choices, p) = {q \in choices : Before(q, p)}
  <2> HIDE DEF before
  <2> QED BY <1>2 DEF Below
<1> HIDE DEF before
<1>5. PICK p \in choices : Cardinality(Below(before, choices, p)) = k
  BY <1>3, RankTaken
<1>6. Cardinality({q \in choices : Before(q, p)}) = k
  BY <1>4, <1>5
<1> QED BY <1>6 DEF Nth

Even(n) == n - (n % 2)

LEMMA ChosenIsFar ==
  ASSUME HeardOK, OnePerResource(packets), NEW row \in Row, Fits(row),
         NEW i \in 0 .. Even(row.n) - 1
  PROVE  Chosen(row, i) \in L \cup R /\ Chosen(row, i).rc <= row.rc
<1>1. row.n \in Nat
  BY DEF Row
<1>2. i \div 2 \in Nat /\ i \div 2 < row.n \div 2
  BY <1>1, SMT DEF Even
<1>3. ASSUME NEW side, side \subseteq packets,
             Cardinality(Overwritable(side, row)) >= row.n \div 2
      PROVE  Nth(Overwritable(side, row), i \div 2) \in Overwritable(side, row)
  <2> DEFINE choices == Overwritable(side, row)
  <2>1. choices \subseteq packets
    BY <1>3 DEF Overwritable
  <2>2. choices \subseteq Packet /\ IsFiniteSet(choices) /\ OnePerResource(choices)
    BY <2>1, FS_Subset DEF HeardOK, OnePerResource
  <2>3. Cardinality(choices) \in Nat
    BY <2>2, FS_CardinalityType
  <2>4. Cardinality(choices) >= row.n \div 2
    BY <1>3
  <2> HIDE DEF choices
  <2>5. i \div 2 \in 0 .. Cardinality(choices) - 1
    BY <1>1, <1>2, <2>3, <2>4
  <2>6. Nth(choices, i \div 2) \in choices
    BY <2>2, <2>5, NthChoice
  <2> QED BY <2>6 DEF choices
<1>4. Nth(Overwritable(L, row), i \div 2) \in Overwritable(L, row)
  BY <1>3 DEF Fits, L
<1>5. Nth(Overwritable(R, row), i \div 2) \in Overwritable(R, row)
  BY <1>3 DEF Fits, R
<1>6. \A p \in Overwritable(L, row) : p \in L /\ p.rc <= row.rc
  BY DEF Overwritable
<1>7. \A p \in Overwritable(R, row) : p \in R /\ p.rc <= row.rc
  BY DEF Overwritable
<1> QED BY <1>4, <1>5, <1>6, <1>7 DEF Chosen

IsJoin(c, S, s, m, t, n) ==
  /\ s \in Seq(S) /\ t \in Seq(S) /\ m \in Nat /\ n \in Nat
  /\ Len(s) = m /\ Len(t) = n /\ c = s \o t

LEMMA Joined ==
  ASSUME NEW S, NEW s, NEW t, NEW m, NEW n, NEW c, IsJoin(c, S, s, m, t, n)
  PROVE  /\ c \in Seq(S) /\ Len(c) = m + n
         /\ \A i \in 1 .. m : c[i] = s[i]
         /\ \A i \in 1 .. n : c[i + m] = t[i]
<1> USE DEF IsJoin
<1>1. c \in Seq(S) /\ Len(c) = m + n
  OBVIOUS
<1>2. ASSUME NEW i \in 1 .. m PROVE c[i] = s[i]
  OBVIOUS
<1>3. ASSUME NEW i \in 1 .. n PROVE c[i + m] = t[i]
  OBVIOUS
<1> QED BY <1>1, <1>2, <1>3

LEMMA DigitsOfPacket ==
  ASSUME now \in 0 .. 99, NEW p \in Packet
  PROVE  /\ Digits(p)[1] \in 0 .. 9 /\ Digits(p)[2] \in 0 .. 9 /\ Digits(p)[3] \in 0 .. 9
         /\ 10 * Digits(p)[1] + Digits(p)[2] = p.ahead - T1
         /\ Digits(p)[3] = p.sc
<1> DEFINE place == p.ahead - T1
<1>1. p.ahead \in Window /\ p.sc \in SubCh
  BY DEF Packet
<1>2. place \in 0 .. 99
  BY PacketFields
<1>3. ChosenSlot((now + p.ahead) % 100) = place
  BY <1>1, SlotRoundTrip
<1>4. Digits(p) = TwoDigits(place) \o <<p.sc>>
  BY <1>3 DEF Digits
<1> HIDE DEF place
<1>5. /\ TwoDigits(place)[1] \in 0 .. 9 /\ TwoDigits(place)[2] \in 0 .. 9
      /\ 10 * TwoDigits(place)[1] + TwoDigits(place)[2] = place
  BY <1>2, DigitsRoundTrip
<1>6. TwoDigits(place) \in Seq(Int) /\ Len(TwoDigits(place)) = 2
  <2>1. place \div 10 \in Int /\ place % 10 \in Int /\ place \in Int
    BY <1>2
  <2> QED BY <2>1 DEF TwoDigits
<1>7. <<p.sc>> \in Seq(Int) /\ p.sc \in 0 .. 9
  BY PacketFields
<1>8. /\ Digits(p)[1] = TwoDigits(place)[1] /\ Digits(p)[2] = TwoDigits(place)[2]
      /\ Digits(p)[3] = p.sc
  <2> DEFINE two == TwoDigits(place)
             one == <<p.sc>>
  <2>1. two \in Seq(Int) /\ Len(two) = 2 /\ one \in Seq(Int) /\ Len(one) = 1 /\ one[1] = p.sc
    BY <1>6, <1>7
  <2>0. Digits(p) = two \o one
    BY <1>4
  <2> HIDE DEF two, one
  <2>2. /\ \A i \in 1 .. 2 : Digits(p)[i] = two[i]
        /\ \A i \in 1 .. 1 : Digits(p)[i + 2] = one[i]
    <3>1. IsJoin(Digits(p), Int, two, 2, one, 1)
      BY <2>0, <2>1 DEF IsJoin
    <3> QED BY <3>1, Joined
  <2>3. Digits(p)[1] = two[1] /\ Digits(p)[2] = two[2] /\ Digits(p)[3] = p.sc
    <3>1. 1 \in 1 .. 2 /\ 2 \in 1 .. 2 /\ 1 \in 1 .. 1 /\ 1 + 2 = 3
      OBVIOUS
    <3> QED BY <2>1, <2>2, <3>1
  <2> QED BY <2>3 DEF two
<1>9. place = p.ahead - T1
  BY DEF place
<1> QED BY <1>5, <1>7, <1>8, <1>9

LEMMA OverwriteAnswer ==
  ASSUME HeardOK, OnePerResource(packets), now \in 0 .. 99,
         NEW row \in Row, Fits(row), row.n \in 1 .. 9
  PROVE  /\ Overwrite(row) \in Seq(0 .. 9)
         /\ Len(Overwrite(row)) = 2 + 3 * Even(row.n)
         /\ Overwrite(row)[1] = 1 /\ Overwrite(row)[2] = row.n
         /\ \A i \in 1 .. Even(row.n) :
              /\ 10 * Overwrite(row)[3 * i] + Overwrite(row)[3 * i + 1] = Chosen(row, i - 1).ahead - T1
              /\ Overwrite(row)[3 * i + 2] = Chosen(row, i - 1).sc
<1> DEFINE e == Even(row.n)
           head == <<1, row.n>>
           rest == [j \in 1 .. 3 * e |-> Digits(Chosen(row, (j - 1) \div 3))[1 + ((j - 1) % 3)]]
           answer == Overwrite(row)
<1>1. e \in Nat /\ answer = head \o rest
  BY SMT DEF Overwrite, Even
<1>2. \A k \in 0 .. e - 1 : Chosen(row, k) \in Packet
  <2>1. \A k \in 0 .. Even(row.n) - 1 : Chosen(row, k) \in L \cup R
    BY ChosenIsFar
  <2> QED BY <2>1 DEF L, R, HeardOK
<1>3. ASSUME NEW j \in 1 .. 3 * e
      PROVE  rest[j] \in 0 .. 9
  <2> DEFINE k == (j - 1) \div 3
             d == 1 + ((j - 1) % 3)
  <2>1. k \in 0 .. e - 1 /\ d \in {1, 2, 3}
    <3> HIDE DEF e
    <3> QED BY <1>1, SMT
  <2>2. Chosen(row, k) \in Packet
    BY <1>2, <2>1
  <2>3. rest[j] = Digits(Chosen(row, k))[d]
    OBVIOUS
  <2> HIDE DEF k, d, rest
  <2> QED BY <2>1, <2>2, <2>3, DigitsOfPacket
<1>4. head \in Seq(0 .. 9) /\ Len(head) = 2 /\ head[1] = 1 /\ head[2] = row.n
  BY DEF Row
<1>5. rest \in Seq(0 .. 9) /\ Len(rest) = 3 * e
  <2>1. rest \in [1 .. 3 * e -> 0 .. 9]
    <3> HIDE DEF e
    <3> QED BY <1>3
  <2>2. 3 * e \in Nat
    BY <1>1
  <2> HIDE DEF e, rest
  <2> QED BY <2>1, <2>2
<1>6. ASSUME NEW i \in 1 .. e
      PROVE  /\ rest[3 * i - 2] = Digits(Chosen(row, i - 1))[1]
             /\ rest[3 * i - 1] = Digits(Chosen(row, i - 1))[2]
             /\ rest[3 * i] = Digits(Chosen(row, i - 1))[3]
  <2>1. /\ 3 * i - 2 \in 1 .. 3 * e /\ (3 * i - 2 - 1) \div 3 = i - 1 /\ (3 * i - 2 - 1) % 3 = 0
        /\ 3 * i - 1 \in 1 .. 3 * e /\ (3 * i - 1 - 1) \div 3 = i - 1 /\ (3 * i - 1 - 1) % 3 = 1
        /\ 3 * i \in 1 .. 3 * e /\ (3 * i - 1) \div 3 = i - 1 /\ (3 * i - 1) % 3 = 2
    <3> HIDE DEF e
    <3> QED BY <1>1, SMT
  <2> HIDE DEF e
  <2>2. rest[3 * i - 2] = Digits(Chosen(row, i - 1))[1]
    BY <2>1
  <2>3. rest[3 * i - 1] = Digits(Chosen(row, i - 1))[2]
    BY <2>1
  <2>4. rest[3 * i] = Digits(Chosen(row, i - 1))[3]
    BY <2>1
  <2> QED BY <2>2, <2>3, <2>4
<1> HIDE DEF e, rest, head, answer
<1>7. /\ answer \in Seq(0 .. 9) /\ Len(answer) = 2 + 3 * e
      /\ answer[1] = 1 /\ answer[2] = row.n
      /\ \A j \in 1 .. 3 * e : answer[j + 2] = rest[j]
  <2>1. /\ answer \in Seq(0 .. 9) /\ Len(answer) = 2 + 3 * e
        /\ \A i \in 1 .. 2 : answer[i] = head[i]
        /\ \A j \in 1 .. 3 * e : answer[j + 2] = rest[j]
    <3>1. IsJoin(answer, 0 .. 9, head, 2, rest, 3 * e)
      <4>1. 3 * e \in Nat
        BY <1>1
      <4> QED BY <1>1, <1>4, <1>5, <4>1 DEF IsJoin
    <3> QED BY <3>1, Joined
  <2> QED BY <1>4, <2>1
<1>8. ASSUME NEW i \in 1 .. e
      PROVE  /\ 10 * answer[3 * i] + answer[3 * i + 1] = Chosen(row, i - 1).ahead - T1
             /\ answer[3 * i + 2] = Chosen(row, i - 1).sc
  <2> DEFINE p == Chosen(row, i - 1)
  <2>1. p \in Packet /\ i \in Nat
    BY <1>1, <1>2
  <2> HIDE DEF p
  <2>2. /\ rest[3 * i - 2] = Digits(p)[1] /\ rest[3 * i - 1] = Digits(p)[2]
        /\ rest[3 * i] = Digits(p)[3]
    BY <1>6 DEF p
  <2>3. /\ 3 * i - 2 \in 1 .. 3 * e /\ 3 * i - 2 + 2 = 3 * i
        /\ 3 * i - 1 \in 1 .. 3 * e /\ 3 * i - 1 + 2 = 3 * i + 1
        /\ 3 * i \in 1 .. 3 * e
    BY <1>1
  <2>4. answer[3 * i] = Digits(p)[1] /\ answer[3 * i + 1] = Digits(p)[2] /\ answer[3 * i + 2] = Digits(p)[3]
    BY <1>7, <2>2, <2>3
  <2>5. 10 * Digits(p)[1] + Digits(p)[2] = p.ahead - T1 /\ Digits(p)[3] = p.sc
    BY <2>1, DigitsOfPacket
  <2> QED BY <2>4, <2>5 DEF p
<1> QED BY <1>7, <1>8 DEF e, answer

(* What the scheduler reads is what the controller chose.                   *)
LEMMA AnswerIsRead ==
  ASSUME HeardOK, OnePerResource(packets), now \in 0 .. 99,
         NEW row \in Row, Fits(row), row.n \in 1 .. 9, NEW i \in 1 .. Even(row.n)
  PROVE  \E p \in L \cup R :
           /\ p.rc <= row.rc /\ Overwrite(row)[3 * i + 2] = p.sc
           /\ At(Window, 10 * Overwrite(row)[3 * i] + Overwrite(row)[3 * i + 1]) = p.ahead
<1> DEFINE p == Chosen(row, i - 1)
<1>1. i - 1 \in 0 .. Even(row.n) - 1
  BY SMT DEF Even
<1>2. p \in L \cup R /\ p.rc <= row.rc
  BY <1>1, ChosenIsFar
<1>3. p \in Packet
  BY <1>2 DEF L, R, HeardOK
<1>4. /\ 10 * Overwrite(row)[3 * i] + Overwrite(row)[3 * i + 1] = p.ahead - T1
      /\ Overwrite(row)[3 * i + 2] = p.sc
  BY OverwriteAnswer
<1> HIDE DEF p
<1>5. p.ahead - T1 \in 0 .. T2 - T1 /\ p.ahead \in Int /\ T1 \in Int
  BY <1>3, PacketFields, WindowSize
<1>6. At(Window, p.ahead - T1) = T1 + (p.ahead - T1) /\ T1 + (p.ahead - T1) = p.ahead
  BY <1>5, PlaceInWindow
<1> QED BY <1>2, <1>4, <1>6

-----------------------------------------------------------------------------
LEMMA CountOfPackets ==
  ASSUME HeardOK, NEW z \in Nat
  PROVE  AtLeast(z) \in Nat /\ Cardinality(packets) \in Nat
<1>1. IsFiniteSet({p \in packets : p.zone >= z})
  BY FS_Subset DEF HeardOK
<1> QED BY <1>1, FS_CardinalityType DEF HeardOK, AtLeast

LEMMA AllAtLeastZero ==
  ASSUME NEW ps, ps \subseteq Packet, IsFiniteSet(ps), ps # {}
  PROVE  10 * Cardinality({p \in ps : p.zone >= 0}) > Gamma10 * Cardinality(ps)
<1>1. {p \in ps : p.zone >= 0} = ps
  BY DEF Packet
<1>2. Cardinality(ps) \in Nat \ {0}
  BY FS_CardinalityType, FS_EmptySet
<1>3. Gamma10 \in 0 .. 9
  BY SelAssumption
<1>4. \A c \in Nat \ {0} : 10 * c > Gamma10 * c
  BY <1>3, SMT
<1> QED BY <1>1, <1>2, <1>4

LEMMA AskKeeps ==
  ASSUME SelInv, Ask
  PROVE  SelInv'
<1> USE DEF SelInv, schedVars, ctlVars
<1>1. HeardOK'
  <2>1. CASE load'.ore
    <3>1. packets' \in Heard /\ tempEdge' = 1 /\ table' \in Tables /\ load' \in Loads
      BY <2>1 DEF Ask
    <3> QED BY <3>1, SelAssumption DEF HeardOK
  <2>2. CASE ~load'.ore
    BY <2>2 DEF Ask, HeardOK
  <2> QED BY <2>1, <2>2
<1>2. EdgeAhead'
  <2>1. SUFFICES ASSUME pc' = "edge" PROVE EdgeAhead'
    BY DEF EdgeAhead
  <2>2. packets' # {} /\ tempEdge' = 1
    BY <2>1 DEF Ask
  <2>3. 10 * Cardinality({p \in packets' : p.zone >= 0}) > Gamma10 * Cardinality(packets')
    BY <1>1, <2>2, AllAtLeastZero DEF HeardOK
  <2> QED BY <2>2, <2>3 DEF EdgeAhead, AtLeast
<1>3. EdgeSplits'
  BY DEF Ask, EdgeSplits
<1>4. AnswerReadable'
  BY DEF Ask, AnswerReadable
<1>5. DrawOK' /\ EnoughLeft'
  BY DEF Ask, DrawOK, EnoughLeft
<1> QED BY <1>1, <1>2, <1>3, <1>4, <1>5

LEMMA WidenEdgeKeeps ==
  ASSUME SelInv, WidenEdge
  PROVE  SelInv'
<1> USE DEF SelInv, schedVars
<1> DEFINE share == 10 * AtLeast(tempEdge)
           gamma == Gamma10 * Cardinality(packets)
<1>0. /\ packets' = packets /\ pc = "edge"
      /\ tempEdge' = IF share >= gamma THEN tempEdge + 1 ELSE tempEdge
      /\ pc' = IF share > gamma THEN "edge" ELSE "mode"
  BY DEF WidenEdge
<1>1. share \in Nat /\ gamma \in Nat /\ tempEdge \in Nat \ {0}
  <2>1. tempEdge \in Nat \ {0}
    BY DEF HeardOK
  <2>2. AtLeast(tempEdge) \in Nat /\ Cardinality(packets) \in Nat
    BY <2>1, CountOfPackets
  <2>3. \A c \in Nat : Gamma10 * c \in Nat
    BY SelAssumption, SMT
  <2> QED BY <2>1, <2>2, <2>3
<1>2. packets # {} /\ 10 * AtLeast(tempEdge - 1) > gamma
  BY <1>0 DEF EdgeAhead
<1>3. HeardOK'
  BY <1>0, <1>1 DEF WidenEdge, HeardOK
<1>4. EdgeAhead'
  <2>1. SUFFICES ASSUME pc' = "edge" PROVE EdgeAhead'
    BY DEF EdgeAhead
  <2>2. share > gamma /\ tempEdge' = tempEdge + 1
    BY <2>1, <1>0, <1>1
  <2>3. tempEdge' - 1 = tempEdge
    BY <1>1, <2>2
  <2> QED BY <1>0, <1>2, <2>2, <2>3 DEF EdgeAhead, AtLeast
<1>5. EdgeSplits'
  <2>1. SUFFICES ASSUME pc' = "mode" PROVE EdgeSplits'
    BY DEF EdgeSplits
  <2>2. ~(share > gamma)
    BY <2>1, <1>0
  <2>3. CASE share = gamma
    <3>1. tempEdge' = tempEdge + 1 /\ tempEdge' - 1 = tempEdge
      BY <1>0, <1>1, <2>3
    <3> QED BY <1>0, <2>3, <3>1 DEF EdgeSplits, AtLeast
  <2>4. CASE share < gamma
    <3>1. tempEdge' = tempEdge
      BY <1>0, <1>1, <2>4
    <3> QED BY <1>0, <1>2, <2>4, <3>1 DEF EdgeSplits, AtLeast
  <2> QED BY <1>1, <2>2, <2>3, <2>4
<1>6. AnswerReadable'
  BY <1>0 DEF AnswerReadable
<1>7. DrawOK' /\ EnoughLeft'
  BY <1>0 DEF DrawOK, EnoughLeft
<1> QED BY <1>3, <1>4, <1>5, <1>6, <1>7

LEMMA SelectKeeps ==
  ASSUME SelInv, SelectMode \/ SelectBlindly
  PROVE  SelInv'
<1> USE DEF SelInv, schedVars, ctlVars
<1>1. pc' = "trigger" /\ UNCHANGED <<load, packets, tempEdge, table>>
  BY DEF SelectMode, SelectBlindly
<1>2. instructions'[1] = 1 \/ instructions'[2] \in Nat \ {0}
  <2>1. CASE instructions' = Draw
    <3>1. table \in Seq(Row) /\ Len(table) >= 2 /\ table[Len(table)].nSe > 0
      BY SelAssumption DEF HeardOK
    <3>2. Len(table) \in DOMAIN table
      BY <3>1
    <3>3. table[Len(table)] \in Row
      BY <3>1, <3>2, ElementOfSeq
    <3>4. table[Len(table)].nSe \in Nat \ {0}
      BY <3>1, <3>3 DEF Row
    <3> QED BY <2>1, <3>4 DEF Draw
  <2>2. CASE \E row \in Row : instructions' = Overwrite(row)
    <3>1. PICK row \in Row : instructions' = Overwrite(row)
      BY <2>2
    <3> DEFINE rest == [i \in 1 .. 3 * (row.n - (row.n % 2)) |->
                          Digits(Chosen(row, (i - 1) \div 3))[1 + ((i - 1) % 3)]]
    <3>2. <<1, row.n>> \in Seq(Nat) /\ Len(<<1, row.n>>) = 2 /\ <<1, row.n>>[1] = 1
      BY DEF Row
    <3>3. 3 * (row.n - (row.n % 2)) \in Nat
      BY SMT DEF Row
    <3> QED BY <3>1, <3>2, <3>3, SMT DEF Overwrite
  <2>3. CASE SelectMode
    <3>1. \A r \in Tried : table[r] \in Row
      <4>1. table \in Seq(Row) /\ Len(table) \in Nat
        BY SelAssumption DEF HeardOK
      <4> QED BY <4>1, ElementOfSeq DEF Tried
    <3> QED BY <2>1, <2>2, <2>3, <3>1 DEF SelectMode
  <2>4. CASE SelectBlindly
    BY <2>4 DEF SelectBlindly
  <2> QED BY <2>3, <2>4
<1>3. HeardOK'
  BY <1>1 DEF HeardOK
<1>4. AnswerReadable'
  BY <1>2 DEF AnswerReadable
<1>5. EdgeAhead' /\ EdgeSplits' /\ DrawOK' /\ EnoughLeft'
  BY <1>1 DEF EdgeAhead, EdgeSplits, DrawOK, EnoughLeft
<1> QED BY <1>3, <1>4, <1>5

LEMMA AllocationKeeps ==
  ASSUME SelInv, DoNrSlAllocation
  PROVE  SelInv'
<1> USE DEF SelInv
<1>1. HeardOK'
  <2>1. (packets' = packets \/ packets' = {}) /\ (tempEdge' = tempEdge \/ tempEdge' = 1)
        /\ UNCHANGED <<load, table>>
    BY DEF DoNrSlAllocation
  <2>2. IsFiniteSet(packets')
    BY <2>1, FS_EmptySet DEF HeardOK
  <2> QED BY <2>1, <2>2 DEF HeardOK
<1>2. pc' \in {"assign", "odd", "draw"}
  BY DEF DoNrSlAllocation
<1>3. DrawOK' /\ EnoughLeft'
  <2>1. SUFFICES ASSUME pc' = "draw" PROVE DrawOK' /\ EnoughLeft'
    BY DEF DrawOK, EnoughLeft
  <2>2. /\ newTxOpps' = <<>> /\ Cardinality(txOpps') > totalTx'
        /\ totalTx' = IF load.ore THEN instructions[2] ELSE MaxTx
        /\ ~(load.ore /\ instructions[1] = 1)
    BY <2>1 DEF DoNrSlAllocation
  <2>3. totalTx' \in Nat \ {0}
    BY <2>2, SelAssumption DEF DoNrSlAllocation, AnswerReadable
  <2>4. txOpps' \subseteq Window
    BY DEF DoNrSlAllocation, FindOpportunities
  <2>5. IsFiniteSet(txOpps') /\ Cardinality(txOpps') \in Nat
    <3>1. T1 \in Int /\ T2 \in Int
      BY SelAssumption
    <3>2. IsFiniteSet(Window)
      BY <3>1, FS_Interval DEF Window
    <3> QED BY <2>4, <3>2, FS_Subset, FS_CardinalityType
  <2> QED BY <2>2, <2>3, <2>4, <2>5 DEF DrawOK, EnoughLeft
<1>4. EdgeAhead' /\ EdgeSplits' /\ AnswerReadable'
  BY <1>2 DEF EdgeAhead, EdgeSplits, AnswerReadable
<1> QED BY <1>1, <1>3, <1>4

LEMMA DrawKeeps ==
  ASSUME SelInv, DrawSlot
  PROVE  SelInv'
<1> USE DEF SelInv, ctlVars
<1>1. PICK s \in txOpps :
        /\ newTxOpps' = IF ~Full(s) \/ Cardinality(txOpps) <= totalTx
                        THEN Append(newTxOpps, <<s, NotDrawn>>) ELSE newTxOpps
        /\ txOpps' = txOpps \ {s}
  BY DEF DrawSlot
<1>2. HeardOK'
  BY DEF DrawSlot, HeardOK
<1>3. pc' \in {"assign", "draw"} /\ totalTx' = totalTx /\ pc = "draw"
  BY DEF DrawSlot
<1>4. /\ totalTx \in Nat /\ IsFiniteSet(txOpps) /\ txOpps \subseteq Window
      /\ newTxOpps \in Seq(Window \X {NotDrawn})
      /\ Len(newTxOpps) < totalTx /\ Len(newTxOpps) + Cardinality(txOpps) >= totalTx
  BY <1>3 DEF DrawOK, EnoughLeft
<1>5. /\ IsFiniteSet(txOpps') /\ Cardinality(txOpps) \in Nat
      /\ Cardinality(txOpps') = Cardinality(txOpps) - 1
  BY <1>1, <1>4, FS_RemoveElement, FS_CardinalityType
<1>6. /\ newTxOpps' \in Seq(Window \X {NotDrawn}) /\ Len(newTxOpps) \in Nat
      /\ Len(newTxOpps') = IF ~Full(s) \/ Cardinality(txOpps) <= totalTx
                           THEN Len(newTxOpps) + 1 ELSE Len(newTxOpps)
  BY <1>1, <1>4
<1>7. DrawOK'
  BY <1>1, <1>3, <1>4, <1>5, <1>6 DEF DrawOK
<1>8. EnoughLeft'
  <2>1. SUFFICES ASSUME pc' = "draw" PROVE EnoughLeft'
    BY DEF EnoughLeft
  <2>2. Len(newTxOpps') # totalTx
    BY <2>1 DEF DrawSlot
  <2> QED BY <1>3, <1>4, <1>5, <1>6, <2>2 DEF EnoughLeft
<1>9. EdgeAhead' /\ EdgeSplits' /\ AnswerReadable'
  BY <1>3 DEF EdgeAhead, EdgeSplits, AnswerReadable
<1> QED BY <1>2, <1>7, <1>8, <1>9

LEMMA RestKeeps ==
  ASSUME SelInv, DrawOddSlot \/ AssignSubChannels \/ Allocate \/ Finish
  PROVE  SelInv'
<1> USE DEF SelInv, ctlVars
<1>1. pc' \in {"odd", "assign", "allocate", "done", "idle"}
  BY DEF DrawOddSlot, AssignSubChannels, Allocate, Finish
<1>2. HeardOK'
  BY FS_EmptySet DEF DrawOddSlot, AssignSubChannels, Allocate, Finish, HeardOK
<1> QED BY <1>1, <1>2 DEF EdgeAhead, EdgeSplits, AnswerReadable, DrawOK, EnoughLeft

LEMMA SelStutterKeeps ==
  ASSUME SelInv, UNCHANGED vars
  PROVE  SelInv'
<1> USE DEF SelInv, vars, ctlVars, schedVars
<1>1. HeardOK' /\ AnswerReadable' /\ DrawOK' /\ EnoughLeft'
  BY DEF HeardOK, AnswerReadable, DrawOK, EnoughLeft
<1>2. EdgeAhead' /\ EdgeSplits'
  BY DEF EdgeAhead, EdgeSplits, AtLeast
<1> QED BY <1>1, <1>2

(* While the edge is sought, a share of more than gamma has come as far as  *)
(* the distance tried before; and while slots are drawn, enough are left to *)
(* reach the number of transmissions.                                       *)
THEOREM SelInvariant == Spec => []SelInv
<1>1. Init => SelInv
  BY FS_EmptySet DEF Init, SelInv, HeardOK, EdgeAhead, EdgeSplits, AnswerReadable, DrawOK, EnoughLeft
<1>2. SelInv /\ [Next]_vars => SelInv'
  BY AskKeeps, WidenEdgeKeeps, SelectKeeps, AllocationKeeps, DrawKeeps, RestKeeps,
     SelStutterKeeps DEF Next, Select
<1> QED BY <1>1, <1>2, PTL DEF Spec

(* Whatever was heard, the loop of O-Re/run.py:364-371 ends with the        *)
(* distance that a share of gamma of the packets has travelled.             *)
THEOREM EdgeAlwaysSplits == Spec => []EdgeSplits
<1>1. SelInv => EdgeSplits
  BY DEF SelInv
<1> QED BY <1>1, SelInvariant, PTL

(* However many slots are full, RandomlySelectSlots does not draw from an   *)
(* empty list (nr-sl-ue-mac-scheduler-simple.cc:456-521).                   *)
THEOREM AlwaysEnoughLeft == Spec => []EnoughLeft
<1>1. SelInv => EnoughLeft
  BY DEF SelInv
<1> QED BY <1>1, SelInvariant, PTL

-----------------------------------------------------------------------------
(* What was chosen, step by step.                                           *)

LEMMA TableRows ==
  ASSUME table \in Tables
  PROVE  /\ table[Len(table)].nSe \in 1 .. 9
         /\ \A r \in Tried : table[r] \in Row /\ table[r].n \in 1 .. 9
<1>1. table \in Seq(Row) /\ Len(table) \in Nat /\ Len(table) >= 2
  BY SelAssumption
<1>2. \A r \in 1 .. Len(table) : table[r] \in Row /\ r \in DOMAIN table
  BY <1>1, ElementOfSeq
<1>3. Len(table) \in 1 .. Len(table)
  BY <1>1
<1>4. table[Len(table)].nSe \in 1 .. 9
  <2>1. table[Len(table)].nSe \in Nat
    BY <1>2, <1>3 DEF Row
  <2>2. table[Len(table)].nSe > 0 /\ table[Len(table)].nSe < 10
    BY <1>2, <1>3, SelAssumption
  <2> QED BY <2>1, <2>2
<1>5. ASSUME NEW r \in Tried PROVE table[r] \in Row /\ table[r].n \in 1 .. 9
  <2>1. r \in 1 .. Len(table)
    BY <1>1, <1>5 DEF Tried
  <2>2. table[r] \in Row /\ table[r].n \in Nat
    BY <1>2, <2>1 DEF Row
  <2>3. table[r].n > 0 /\ table[r].n < 10
    BY <1>2, <1>5, <2>1, SelAssumption DEF Tried
  <2> QED BY <2>2, <2>3
<1> QED BY <1>4, <1>5

LEMMA AskChooses ==
  ASSUME ChoiceInv, Ask
  PROVE  ChoiceInv'
<1> USE DEF ctlVars, schedVars
<1>1. pc' \in {"mode", "edge", "trigger"} /\ (pc' = "trigger" => ~load'.ore)
  BY DEF Ask
<1>2. OnePerResource(packets')
  BY SelAssumption DEF Ask, ChoiceInv, OnePerResource
<1>3. SelTypeOK'
  <2>1. /\ load' \in Loads /\ now' \in Nows /\ table' \in Tables /\ dEdge' \in Edges
        /\ packets' \subseteq Packet /\ tempEdge' \in Nat \ {0}
    BY SelAssumption DEF Ask, ChoiceInv, SelTypeOK
  <2>2. UNCHANGED <<instructions, occupied, txOpps, totalTx, newTxOpps, assignedSbCh, slotAllocList>>
    BY DEF Ask
  <2> QED BY <1>1, <2>1, <2>2 DEF ChoiceInv, SelTypeOK
<1>4. AnswerOK'
  BY <1>1 DEF AnswerOK
<1> QED BY <1>1, <1>2, <1>3, <1>4 DEF ChoiceInv, OverwriteOK, DrawnOK, SomeChosen,
            OverwritesFar, DrawnAreFree, AnnouncesRest

LEMMA WidenEdgeChooses ==
  ASSUME ChoiceInv, WidenEdge
  PROVE  ChoiceInv'
<1> USE DEF schedVars
<1>1. pc' \in {"mode", "edge"} /\ packets' = packets
  BY DEF WidenEdge
<1>2. SelTypeOK'
  <2>1. tempEdge' \in Nat \ {0}
    BY DEF WidenEdge, ChoiceInv, SelTypeOK
  <2>2. UNCHANGED <<load, now, packets, table, dEdge, instructions, schedVars>>
    BY DEF WidenEdge
  <2> QED BY <1>1, <2>1, <2>2 DEF ChoiceInv, SelTypeOK
<1>3. OnePerResource(packets')
  BY <1>1 DEF ChoiceInv
<1> QED BY <1>1, <1>2, <1>3 DEF ChoiceInv, AnswerOK, OverwriteOK, DrawnOK, SomeChosen,
            OverwritesFar, DrawnAreFree, AnnouncesRest

LEMMA SelectChooses ==
  ASSUME SelInv, ChoiceInv, SelectMode \/ SelectBlindly
  PROVE  ChoiceInv'
<1> USE DEF schedVars, ctlVars
<1>1. pc' = "trigger" /\ UNCHANGED <<load, ctlVars, schedVars>>
  BY DEF SelectMode, SelectBlindly
<1>2. \/ \E n \in 1 .. 9 : instructions' = <<2, n>>
      \/ \E r \in Tried : Fits(table[r]) /\ instructions' = Overwrite(table[r])
  <2>1. table[Len(table)].nSe \in 1 .. 9
    BY TableRows DEF ChoiceInv, SelTypeOK
  <2>2. CASE SelectMode
    BY <2>1, <2>2 DEF SelectMode, Draw
  <2>3. CASE SelectBlindly
    BY <2>3 DEF SelectBlindly
  <2> QED BY <2>2, <2>3
<1>3. instructions' \in Seq(0 .. 9) /\ AnswerOK'
  <2>1. ASSUME NEW n \in 1 .. 9, instructions' = <<2, n>>
        PROVE  instructions' \in Seq(0 .. 9) /\ AnswerOK'
    BY <2>1 DEF AnswerOK
  <2>2. ASSUME NEW r \in Tried, Fits(table[r]), instructions' = Overwrite(table[r])
        PROVE  instructions' \in Seq(0 .. 9) /\ AnswerOK'
    <3> DEFINE row == table[r]
               n == row.n
    <3>1. row \in Row /\ n \in 1 .. 9 /\ now \in 0 .. 99
      BY TableRows, SelAssumption DEF ChoiceInv, SelTypeOK
    <3>2. HeardOK /\ OnePerResource(packets)
      BY DEF SelInv, ChoiceInv
    <3>3. Fits(row) /\ instructions' = Overwrite(row)
      BY <2>2
    <3> HIDE DEF row
    <3>4. /\ instructions' \in Seq(0 .. 9) /\ Len(instructions') = 2 + 3 * Even(n)
          /\ instructions'[1] = 1 /\ instructions'[2] = n
      BY <3>1, <3>2, <3>3, OverwriteAnswer
    <3>5. Even(n) \in Nat /\ Even(n) = n - (n % 2)
      BY <3>1, SMT DEF Even
    <3>6. NumPairs' = Even(n)
      <4>1. \A m \in Nat : (2 + 3 * m - 2) \div 3 = m
        BY SMT
      <4> QED BY <3>4, <3>5, <4>1 DEF NumPairs
    <3>7. L' = L /\ R' = R /\ Tried' = Tried /\ table' = table
      BY <1>1 DEF L, R, IsFar, Tried
    <3>8. ASSUME NEW i \in 1 .. Even(n)
          PROVE  \E slot \in Window, sc \in SubCh :
                   Pair(Window, i)' = <<slot, sc>> /\ FarResource(slot, sc, instructions[2])'
      <4>1. PICK p \in L \cup R :
              /\ p.rc <= row.rc /\ instructions'[3 * i + 2] = p.sc
              /\ At(Window, 10 * instructions'[3 * i] + instructions'[3 * i + 1]) = p.ahead
        BY <3>1, <3>2, <3>3, AnswerIsRead
      <4>2. p \in Packet
        BY <3>2 DEF L, R, HeardOK
      <4>3. p.ahead \in Window /\ p.sc \in SubCh
        BY <4>2, PacketFields
      <4>4. Pair(Window, i)' = <<p.ahead, p.sc>>
        BY <4>1 DEF Pair
      <4>5. FarResource(p.ahead, p.sc, instructions[2])'
        BY <3>4, <3>7, <4>1 DEF FarResource, row
      <4> QED BY <4>3, <4>4, <4>5
    <3>9. load'.ore => Overwrites'
      BY <3>4, <3>5 DEF Overwrites
    <3>10. AnswerOK'
      <4>1. SUFFICES ASSUME load'.ore PROVE AnswerOK'
        BY DEF AnswerOK
      <4>2. instructions'[2] = n /\ Overwrites' /\ NumPairs' = n - (n % 2)
        BY <3>4, <3>5, <3>6, <3>9, <4>1
      <4> HIDE DEF n
      <4>3. instructions'[2] \in 1 .. 9 /\ NumPairs' = instructions'[2] - (instructions'[2] % 2)
        BY <3>1, <4>2
      <4>4. \A i \in 1 .. NumPairs' : \E slot \in Window, sc \in SubCh :
              Pair(Window, i)' = <<slot, sc>> /\ FarResource(slot, sc, instructions[2])'
        BY <3>6, <3>8
      <4> QED BY <4>2, <4>3, <4>4 DEF AnswerOK
    <3> QED BY <3>4, <3>10
  <2> QED BY <1>2, <2>1, <2>2
<1>4. SelTypeOK'
  BY <1>1, <1>3 DEF ChoiceInv, SelTypeOK
<1>5. OnePerResource(packets')
  BY <1>1 DEF ChoiceInv
<1> QED BY <1>1, <1>3, <1>4, <1>5 DEF ChoiceInv, OverwriteOK, DrawnOK, SomeChosen,
            OverwritesFar, DrawnAreFree, AnnouncesRest
LEMMA Opportunities ==
  ASSUME load \in Loads, FindOpportunities
  PROVE  /\ txOpps' = DOMAIN occupied' /\ txOpps' \subseteq Window /\ txOpps' \subseteq Int
         /\ IsFiniteSet(txOpps') /\ Cardinality(txOpps') \in Nat \ {0}
         /\ \A s \in DOMAIN occupied' : occupied'[s] \subseteq SubCh
         /\ load.ore => txOpps' = Window
<1>1. PICK slots \in (IF load.mayFilter THEN (SUBSET Window) \ {{}} ELSE {Window}), taken \in Occupancies :
        /\ taken \subseteq slots \X SubCh
        /\ occupied' = [s \in slots |-> {sc \in SubCh : <<s, sc>> \in taken}]
        /\ txOpps' = slots
  BY DEF FindOpportunities
<1>2. IsFiniteSet(Window) /\ Cardinality(Window) # 0 /\ Window \subseteq Int /\ Window # {}
  <2>1. T2 - T1 + 1 # 0
    BY SelAssumption
  <2>2. T1 \in Window
    BY SelAssumption DEF Window
  <2> QED BY <2>1, <2>2, WindowSize
<1>3. slots \subseteq Window /\ slots # {} /\ (load.ore => slots = Window)
  <2>1. load.ore => ~load.mayFilter
    BY SelAssumption
  <2>2. CASE load.mayFilter
    <3>1. slots \in (SUBSET Window) \ {{}}
      BY <1>1, <2>2
    <3>2. ~load.ore
      BY <2>1, <2>2
    <3>3. slots \subseteq Window /\ slots # {}
      BY <3>1
    <3> QED BY <3>2, <3>3, Zenon
  <2>3. CASE ~load.mayFilter
    BY <1>1, <1>2, <2>3
  <2> QED BY <2>2, <2>3
<1>4. IsFiniteSet(slots) /\ Cardinality(slots) \in Nat \ {0}
  <2>1. IsFiniteSet(slots)
    BY <1>2, <1>3, FS_Subset
  <2> QED BY <1>3, <2>1, FS_CardinalityType, FS_EmptySet
<1> QED BY <1>1, <1>2, <1>3, <1>4

(* The list, when all of it is taken.                                       *)
IsWhole(list, slots) ==
  list = [i \in 1 .. Cardinality(slots) |-> <<At(slots, i - 1), NotDrawn>>]

LEMMA WholeList ==
  ASSUME NEW slots, IsFiniteSet(slots), slots \subseteq Int, NEW list, IsWhole(list, slots)
  PROVE  /\ list \in Seq(slots \X {NotDrawn}) /\ Len(list) = Cardinality(slots)
         /\ \A i, j \in DOMAIN list : list[i][1] = list[j][1] => i = j
<1> DEFINE n == Cardinality(slots)
<1>1. n \in Nat
  BY FS_CardinalityType
<1>2. ASSUME NEW i \in 1 .. n
      PROVE  At(slots, i - 1) \in slots /\ Cardinality({o \in slots : o < At(slots, i - 1)}) = i - 1
  <2>1. i - 1 \in 0 .. Cardinality(slots) - 1
    BY <1>1
  <2> QED BY <2>1, AtPlace
<1> HIDE DEF n
<1>3. list = [i \in 1 .. n |-> <<At(slots, i - 1), NotDrawn>>]
  BY DEF n, IsWhole
<1>4. list \in Seq(slots \X {NotDrawn}) /\ Len(list) = n /\ DOMAIN list = 1 .. n
  <2>1. list \in [1 .. n -> slots \X {NotDrawn}]
    BY <1>2, <1>3
  <2> QED BY <1>1, <2>1
<1>5. ASSUME NEW i \in 1 .. n, NEW j \in 1 .. n, list[i][1] = list[j][1] PROVE i = j
  <2> DEFINE place(k) == At(slots, k - 1)
  <2>1. list[i] = <<place(i), NotDrawn>> /\ list[j] = <<place(j), NotDrawn>>
    BY <1>3, <1>5
  <2>2. \A a, b : <<a, b>>[1] = a
    OBVIOUS
  <2>3. place(i) = place(j)
    BY <1>5, <2>1, <2>2
  <2>4. i - 1 = j - 1
    BY <1>2, <1>5, <2>3
  <2> QED BY <1>1, <2>4
<1> QED BY <1>4, <1>5 DEF n

LEMMA OverwritingChooses ==
  ASSUME SelInv, ChoiceInv, DoNrSlAllocation, load.ore, instructions[1] = 1
  PROVE  ChoiceInv'
<1> USE DEF ctlVars
<1>1. /\ pc = "trigger" /\ FindOpportunities
      /\ totalTx' = instructions[2]
      /\ newTxOpps' = [i \in 1 .. NumPairs |-> Pair(txOpps', i)]
      /\ pc' = IF NumPairs = totalTx' THEN "assign" ELSE "odd"
      /\ UNCHANGED <<load, now, packets, tempEdge, table, dEdge, instructions, assignedSbCh,
                     slotAllocList>>
  BY DEF DoNrSlAllocation
<1>2. /\ load \in Loads
      /\ txOpps' = Window /\ DOMAIN occupied' = Window
      /\ \A s \in DOMAIN occupied' : occupied'[s] \subseteq SubCh
  <2>1. load \in Loads
    BY DEF ChoiceInv, SelTypeOK
  <2> QED BY <1>1, <2>1, Opportunities
<1>3. /\ Overwrites /\ totalTx' \in 1 .. 9 /\ NumPairs = totalTx' - (totalTx' % 2)
      /\ \A i \in 1 .. NumPairs : \E slot \in Window, sc \in SubCh :
           Pair(Window, i) = <<slot, sc>> /\ FarResource(slot, sc, instructions[2])
  <2>1. AnswerOK
    BY DEF ChoiceInv
  <2>2. ~ \E n \in 1 .. 9 : instructions = <<2, n>>
    <3>1. \A n \in 1 .. 9 : <<2, n>>[1] # 1
      OBVIOUS
    <3> QED BY <3>1
  <2> QED BY <1>1, <2>1, <2>2 DEF AnswerOK
<1>4. NumPairs \in Nat /\ (NumPairs # totalTx' => totalTx' % 2 = 1)
  <2>1. \A n \in 1 .. 9 : n - (n % 2) \in Nat /\ (n - (n % 2) # n => n % 2 = 1)
    BY SMT
  <2> QED BY <1>3, <2>1
<1>5. /\ newTxOpps' \in Seq(Window \X (SubCh \cup {NotDrawn})) /\ Len(newTxOpps') = NumPairs
      /\ DOMAIN newTxOpps' = 1 .. NumPairs
  BY <1>1, <1>2, <1>3, <1>4
<1>6. L' = L /\ R' = R /\ Tried' = Tried /\ table' = table
  BY <1>1 DEF L, R, IsFar, Tried
<1>7. ASSUME NEW i \in DOMAIN newTxOpps'
      PROVE  /\ newTxOpps'[i][2] # NotDrawn
             /\ FarResource(newTxOpps[i][1], newTxOpps[i][2], totalTx)'
  <2>1. PICK slot \in Window, sc \in SubCh :
          newTxOpps'[i] = <<slot, sc>> /\ FarResource(slot, sc, instructions[2])
    BY <1>1, <1>2, <1>3, <1>5
  <2>2. FarResource(newTxOpps[i][1], newTxOpps[i][2], totalTx)'
    BY <1>1, <1>6, <2>1 DEF FarResource
  <2>3. sc # NotDrawn
    BY DEF SubCh, NotDrawn
  <2> QED BY <2>1, <2>2, <2>3
<1>8. Overwrites'
  BY <1>1, <1>3 DEF Overwrites
<1>9. OverwriteOK'
  BY <1>1, <1>4, <1>7, <1>8 DEF OverwriteOK
<1>10. SelTypeOK'
  <2>1. totalTx' \in 0 .. 9
    BY <1>3
  <2> QED BY <1>1, <1>2, <1>5, <2>1 DEF ChoiceInv, SelTypeOK
<1>11. SomeChosen'
  <2>1. SUFFICES ASSUME pc' = "assign" PROVE newTxOpps' # <<>>
    BY <1>1 DEF SomeChosen
  <2>2. Len(newTxOpps') # 0
    <3>1. NumPairs = totalTx' \/ pc' = "odd"
      BY <1>1
    <3>2. \A n \in 1 .. 9 : n # 0
      OBVIOUS
    <3>3. Len(newTxOpps') = totalTx'
      BY <1>5, <2>1, <3>1
    <3> QED BY <1>3, <3>2, <3>3
  <2> QED BY <2>2
<1>12. OnePerResource(packets') /\ AnswerOK'
  BY <1>1 DEF ChoiceInv, AnswerOK
<1> QED BY <1>1, <1>8, <1>9, <1>10, <1>11, <1>12 DEF ChoiceInv, DrawnOK,
            OverwritesFar, DrawnAreFree, AnnouncesRest

LEMMA DrawingChooses ==
  ASSUME SelInv, ChoiceInv, DoNrSlAllocation, ~(load.ore /\ instructions[1] = 1)
  PROVE  ChoiceInv'
<1> DEFINE size == Cardinality(txOpps')
<1>1. /\ pc = "trigger" /\ FindOpportunities
      /\ totalTx' = IF load.ore THEN instructions[2] ELSE MaxTx
      /\ packets' = {} /\ tempEdge' = 1
      /\ UNCHANGED <<load, now, table, dEdge, instructions, assignedSbCh, slotAllocList>>
      /\ \/ size > totalTx' /\ newTxOpps' = <<>> /\ pc' = "draw"
         \/ /\ ~(size > totalTx') /\ pc' = "assign"
            /\ newTxOpps' = [i \in 1 .. size |-> <<At(txOpps', i - 1), NotDrawn>>]
  BY DEF DoNrSlAllocation
<1>2. /\ txOpps' = DOMAIN occupied' /\ txOpps' \subseteq Window /\ txOpps' \subseteq Int
      /\ IsFiniteSet(txOpps') /\ size \in Nat \ {0}
      /\ \A s \in DOMAIN occupied' : occupied'[s] \subseteq SubCh
  <2>1. load \in Loads
    BY DEF ChoiceInv, SelTypeOK
  <2> QED BY <1>1, <2>1, Opportunities
<1>3. totalTx' \in Nat \ {0} /\ (totalTx' \in 0 .. 9 \/ totalTx' = MaxTx)
  <2>1. CASE load.ore
    <3>1. AnswerOK /\ instructions[1] # 1
      BY <2>1 DEF ChoiceInv
    <3>2. PICK n \in 1 .. 9 : instructions = <<2, n>>
      BY <1>1, <2>1, <3>1 DEF AnswerOK, Overwrites
    <3>3. instructions[2] = n
      BY <3>2
    <3> QED BY <1>1, <2>1, <3>3
  <2>2. CASE ~load.ore
    BY <1>1, <2>2, SelAssumption
  <2> QED BY <2>1, <2>2
<1>4. ~Overwrites'
  BY <1>1 DEF Overwrites
<1>5. /\ newTxOpps' \in Seq(txOpps' \X {NotDrawn})
      /\ pc' = "draw" => newTxOpps' = <<>> /\ size > totalTx'
      /\ pc' = "assign" =>
           /\ Len(newTxOpps') = size /\ size <= totalTx'
           /\ \A i, j \in DOMAIN newTxOpps' : newTxOpps'[i][1] = newTxOpps'[j][1] => i = j
  <2>1. CASE pc' = "draw"
    BY <1>1, <2>1
  <2>2. CASE pc' = "assign"
    <3>1. /\ newTxOpps' \in Seq(txOpps' \X {NotDrawn}) /\ Len(newTxOpps') = size
          /\ \A i, j \in DOMAIN newTxOpps' : newTxOpps'[i][1] = newTxOpps'[j][1] => i = j
      <4>1. IsWhole(newTxOpps', txOpps')
        BY <1>1, <2>2 DEF IsWhole
      <4> QED BY <1>2, <4>1, WholeList
    <3> QED BY <1>1, <1>2, <1>3, <2>2, <3>1
  <2> QED BY <1>1, <2>1, <2>2
<1>6. DrawnOK'
  <2>1. \A i \in DOMAIN newTxOpps' : newTxOpps'[i][2] = NotDrawn
    <3>1. ASSUME NEW i \in DOMAIN newTxOpps' PROVE newTxOpps'[i][2] = NotDrawn
      <4>1. i \in 1 .. Len(newTxOpps')
        BY <1>5
      <4>2. newTxOpps'[i] \in txOpps' \X {NotDrawn}
        BY <1>5, <4>1, ElementOfSeq
      <4> QED BY <4>2
    <3> QED BY <3>1
  <2>2. CASE pc' = "draw"
    BY <1>2, <1>5, <2>2 DEF DrawnOK
  <2>3. CASE pc' = "assign"
    <3>1. Len(newTxOpps') = Min({totalTx', Cardinality(DOMAIN occupied')})
      <4>1. size \in Int /\ totalTx' \in Int /\ size <= totalTx' /\ size = Cardinality(DOMAIN occupied')
        BY <1>2, <1>3, <1>5, <2>3
      <4> HIDE DEF size
      <4>2. Min({totalTx', size}) = size
        BY <4>1, MinOfTwo
      <4> QED BY <1>5, <2>3, <4>1, <4>2 DEF size
    <3> QED BY <1>5, <2>1, <2>3, <3>1 DEF DrawnOK
  <2> QED BY <1>1, <2>2, <2>3
<1>7. SelTypeOK'
  <2>1. newTxOpps' \in Seq((DOMAIN occupied') \X (SubCh \cup {NotDrawn}))
    BY <1>2, <1>5
  <2>2. tempEdge' \in Nat \ {0} /\ packets' \subseteq Packet /\ pc' \in {"draw", "assign"}
    BY <1>1
  <2> QED BY <1>1, <1>2, <1>3, <2>1, <2>2 DEF ChoiceInv, SelTypeOK
<1>8. OverwriteOK'
  BY <1>1, <1>4 DEF OverwriteOK
<1>9. SomeChosen'
  <2>1. SUFFICES ASSUME pc' = "assign" PROVE newTxOpps' # <<>>
    BY <1>1 DEF SomeChosen
  <2>2. Len(newTxOpps') # 0
    BY <1>2, <1>5, <2>1
  <2> QED BY <2>2
<1>10. OnePerResource(packets') /\ AnswerOK'
  BY <1>1 DEF OnePerResource, AnswerOK
<1> QED BY <1>1, <1>6, <1>7, <1>8, <1>9, <1>10 DEF ChoiceInv, OverwritesFar, DrawnAreFree,
            AnnouncesRest
LEMMA Appended ==
  ASSUME NEW S, NEW s \in Seq(S), NEW e \in S, NEW c, c = Append(s, e)
  PROVE  /\ c \in Seq(S) /\ Len(c) = Len(s) + 1 /\ c # <<>>
         /\ \A i \in DOMAIN c : \/ i \in DOMAIN s /\ i # Len(s) + 1 /\ c[i] = s[i]
                                \/ i = Len(s) + 1 /\ c[i] = e
BY AppendProperties

LEMMA DrawSlotChooses ==
  ASSUME SelInv, ChoiceInv, DrawSlot
  PROVE  ChoiceInv'
<1> USE DEF ctlVars
<1> DEFINE Places == (DOMAIN occupied) \X (SubCh \cup {NotDrawn})
<1>1. PICK s \in txOpps :
        /\ newTxOpps' = IF ~Full(s) \/ Cardinality(txOpps) <= totalTx
                        THEN Append(newTxOpps, <<s, NotDrawn>>) ELSE newTxOpps
        /\ txOpps' = txOpps \ {s}
  BY DEF DrawSlot
<1>2. /\ pc = "draw" /\ pc' = IF Len(newTxOpps') = totalTx THEN "assign" ELSE "draw"
      /\ UNCHANGED <<load, ctlVars, instructions, occupied, totalTx, assignedSbCh, slotAllocList>>
  BY DEF DrawSlot
<1>3. /\ SelTypeOK /\ newTxOpps \in Seq(Places) /\ txOpps \subseteq DOMAIN occupied
      /\ totalTx \in Nat /\ Len(newTxOpps) \in Nat /\ Len(newTxOpps) < totalTx
  BY <1>2 DEF ChoiceInv, SelTypeOK, SelInv, DrawOK, EnoughLeft
<1>4. ~Overwrites /\ ~Overwrites'
  BY <1>2 DEF ChoiceInv, OverwriteOK, Overwrites
<1>5. /\ \A i \in DOMAIN newTxOpps : newTxOpps[i][2] = NotDrawn /\ newTxOpps[i][1] \notin txOpps
      /\ \A i, j \in DOMAIN newTxOpps : newTxOpps[i][1] = newTxOpps[j][1] => i = j
      /\ Cardinality(DOMAIN occupied) > totalTx
  BY <1>2, <1>4 DEF ChoiceInv, DrawnOK
<1>6. <<s, NotDrawn>> \in Places
  BY <1>1, <1>3
<1> HIDE DEF Places
<1>7. /\ newTxOpps' \in Seq(Places)
      /\ \A i \in DOMAIN newTxOpps' : newTxOpps'[i][2] = NotDrawn /\ newTxOpps'[i][1] \notin txOpps'
      /\ \A i, j \in DOMAIN newTxOpps' : newTxOpps'[i][1] = newTxOpps'[j][1] => i = j
      /\ newTxOpps' = <<>> => pc' = "draw"
  <2>1. CASE newTxOpps' = newTxOpps
    BY <1>1, <1>2, <1>3, <1>5, <2>1
  <2>2. CASE newTxOpps' = Append(newTxOpps, <<s, NotDrawn>>)
    <3>1. /\ newTxOpps' \in Seq(Places) /\ newTxOpps' # <<>>
          /\ \A i \in DOMAIN newTxOpps' :
               \/ i \in DOMAIN newTxOpps /\ i # Len(newTxOpps) + 1 /\ newTxOpps'[i] = newTxOpps[i]
               \/ i = Len(newTxOpps) + 1 /\ newTxOpps'[i] = <<s, NotDrawn>>
      BY <1>3, <1>6, <2>2, Appended
    <3>2. ASSUME NEW i \in DOMAIN newTxOpps'
          PROVE  newTxOpps'[i][2] = NotDrawn /\ newTxOpps'[i][1] \notin txOpps'
      BY <1>1, <1>5, <3>1
    <3>3. ASSUME NEW i \in DOMAIN newTxOpps', NEW j \in DOMAIN newTxOpps',
                 newTxOpps'[i][1] = newTxOpps'[j][1]
          PROVE  i = j
      BY <1>1, <1>5, <3>1, <3>3
    <3> QED BY <3>1, <3>2, <3>3
  <2> QED BY <1>1, <2>1, <2>2
<1>8. DrawnOK'
  <2>1. CASE pc' = "draw"
    BY <1>2, <1>5, <1>7, <2>1 DEF DrawnOK
  <2>2. CASE pc' = "assign"
    <3>1. Cardinality(DOMAIN occupied) \in Int
      <4>1. IsFiniteSet(DOMAIN occupied)
        BY <1>3, WindowSize, FS_Subset DEF SelTypeOK
      <4> QED BY <4>1, FS_CardinalityType
    <3>2. Min({totalTx, Cardinality(DOMAIN occupied)}) = totalTx
      <4> DEFINE size == Cardinality(DOMAIN occupied)
      <4>1. size \in Int /\ totalTx \in Int /\ totalTx <= size
        BY <1>3, <1>5, <3>1
      <4> HIDE DEF size
      <4>2. Min({totalTx, size}) = totalTx
        BY <4>1, MinOfTwo
      <4> QED BY <4>2 DEF size
    <3>3. Len(newTxOpps') = Min({totalTx, Cardinality(DOMAIN occupied)})'
      BY <1>2, <2>2, <3>2
    <3> QED BY <1>7, <2>2, <3>3 DEF DrawnOK
  <2> QED BY <1>2, <2>1, <2>2
<1>9. SelTypeOK'
  <2>1. txOpps' \subseteq DOMAIN occupied'
    BY <1>1, <1>2, <1>3
  <2> QED BY <1>2, <1>3, <1>7, <2>1 DEF SelTypeOK, Places
<1>10. OverwriteOK'
  BY <1>2, <1>4 DEF OverwriteOK
<1>11. SomeChosen' /\ OnePerResource(packets') /\ AnswerOK'
  BY <1>2, <1>7 DEF SomeChosen, ChoiceInv, AnswerOK
<1> QED BY <1>2, <1>8, <1>9, <1>10, <1>11 DEF ChoiceInv, OverwritesFar, DrawnAreFree,
            AnnouncesRest

LEMMA DrawOddSlotChooses ==
  ASSUME ChoiceInv, DrawOddSlot
  PROVE  ChoiceInv'
<1> USE DEF ctlVars
<1> DEFINE Places == (DOMAIN occupied) \X (SubCh \cup {NotDrawn})
<1>1. PICK s \in txOpps, sc \in SubCh : sc \notin occupied[s] /\ newTxOpps' = Append(newTxOpps, <<s, sc>>)
  BY DEF DrawOddSlot
<1>2. /\ pc = "odd" /\ pc' = IF Len(newTxOpps') = totalTx THEN "assign" ELSE "odd"
      /\ UNCHANGED <<load, ctlVars, instructions, occupied, txOpps, totalTx, assignedSbCh,
                     slotAllocList>>
  BY DEF DrawOddSlot
<1>3. SelTypeOK /\ newTxOpps \in Seq(Places) /\ txOpps \subseteq DOMAIN occupied
  BY DEF ChoiceInv, SelTypeOK
<1>4. /\ Overwrites /\ totalTx % 2 = 1
      /\ \A i \in DOMAIN newTxOpps :
           /\ newTxOpps[i][2] # NotDrawn
           /\ \/ FarResource(newTxOpps[i][1], newTxOpps[i][2], totalTx)
              \/ totalTx % 2 = 1 /\ newTxOpps[i][2] \notin occupied[newTxOpps[i][1]]
  BY <1>2 DEF ChoiceInv, OverwriteOK
<1>5. <<s, sc>> \in Places
  BY <1>1, <1>3
<1> HIDE DEF Places
<1>6. /\ newTxOpps' \in Seq(Places) /\ newTxOpps' # <<>>
      /\ \A i \in DOMAIN newTxOpps' :
           \/ i \in DOMAIN newTxOpps /\ i # Len(newTxOpps) + 1 /\ newTxOpps'[i] = newTxOpps[i]
           \/ i = Len(newTxOpps) + 1 /\ newTxOpps'[i] = <<s, sc>>
  BY <1>1, <1>3, <1>5, Appended
<1>7. L' = L /\ R' = R /\ Tried' = Tried /\ table' = table
  BY <1>2 DEF L, R, IsFar, Tried
<1>8. ASSUME NEW i \in DOMAIN newTxOpps'
      PROVE  /\ newTxOpps'[i][2] # NotDrawn
             /\ \/ FarResource(newTxOpps[i][1], newTxOpps[i][2], totalTx)'
                \/ totalTx' % 2 = 1 /\ newTxOpps'[i][2] \notin occupied'[newTxOpps'[i][1]]
  <2>1. CASE i \in DOMAIN newTxOpps /\ newTxOpps'[i] = newTxOpps[i]
    BY <1>2, <1>4, <1>7, <2>1 DEF FarResource
  <2>2. CASE newTxOpps'[i] = <<s, sc>>
    <3>1. sc # NotDrawn
      BY DEF SubCh, NotDrawn
    <3> QED BY <1>1, <1>2, <1>4, <2>2, <3>1
  <2> QED BY <1>6, <2>1, <2>2
<1>9. Overwrites'
  BY <1>2, <1>4 DEF Overwrites
<1>10. OverwriteOK'
  BY <1>2, <1>4, <1>8, <1>9 DEF OverwriteOK
<1>11. SelTypeOK'
  BY <1>2, <1>3, <1>6 DEF SelTypeOK, Places
<1>12. SomeChosen' /\ OnePerResource(packets') /\ AnswerOK'
  BY <1>2, <1>6 DEF SomeChosen, ChoiceInv, AnswerOK
<1> QED BY <1>2, <1>9, <1>10, <1>11, <1>12 DEF ChoiceInv, DrawnOK, OverwritesFar, DrawnAreFree,
            AnnouncesRest

(* GetAvailSbChInfo: there is a run of one free subchannel at least.        *)
LEMMA LongestRunType ==
  ASSUME NEW slot, occupied[slot] \subseteq SubCh
  PROVE  /\ LongestRun(slot) \in 1 .. TotalSubCh
         /\ LongestRun(slot) = TotalSubCh => Available(slot) = SubCh
<1> DEFINE runs == {n \in 1 .. TotalSubCh : \E sc \in SubCh : sc .. sc + n - 1 \subseteq Available(slot)}
<1>1. TotalSubCh \in Nat \ {0} /\ SubCh \subseteq Int /\ 0 \in SubCh
  BY SelAssumption DEF SubCh
<1>2. Available(slot) \subseteq SubCh /\ Available(slot) # {}
  BY <1>1 DEF Available, Full
<1>3. IsFiniteSet(runs) /\ runs \subseteq Int
  <2>1. IsFiniteSet(1 .. TotalSubCh)
    BY <1>1, FS_Interval
  <2>2. runs \subseteq 1 .. TotalSubCh
    OBVIOUS
  <2> HIDE DEF runs
  <2>3. IsFiniteSet(runs)
    BY <2>1, <2>2, FS_Subset
  <2> QED BY <2>2, <2>3
<1>4. 1 \in runs
  <2>1. PICK sc \in Available(slot) : sc \in SubCh /\ sc \in Int
    BY <1>1, <1>2
  <2>2. sc .. sc + 1 - 1 = {sc}
    BY <2>1
  <2> QED BY <1>1, <2>1, <2>2
<1>5. LongestRun(slot) = Max(runs)
  BY DEF LongestRun
<1>6. Max(runs) \in runs
  <2> HIDE DEF runs
  <2> QED BY <1>3, <1>4, MaxOfSet
<1>7. ASSUME TotalSubCh \in runs PROVE Available(slot) = SubCh
  <2>1. PICK sc \in SubCh : sc .. sc + TotalSubCh - 1 \subseteq Available(slot)
    BY <1>7
  <2>2. sc + TotalSubCh - 1 \in SubCh /\ sc \in Int
    <3>1. sc \in Int /\ sc + TotalSubCh - 1 \in sc .. sc + TotalSubCh - 1
      BY <1>1
    <3> QED BY <1>2, <2>1, <3>1
  <2>3. sc = 0
    BY <1>1, <2>2 DEF SubCh
  <2>4. SubCh \subseteq Available(slot)
    BY <1>1, <2>1, <2>3 DEF SubCh
  <2> QED BY <1>2, <2>4
<1> QED BY <1>5, <1>6, <1>7

LEMMA NumSubChType ==
  ASSUME SelTypeOK, newTxOpps # <<>>
  PROVE  /\ NumSubCh \in 1 .. TotalSubCh
         /\ \A i \in DOMAIN newTxOpps :
              NumSubCh = TotalSubCh => Available(newTxOpps[i][1]) = SubCh
<1> DEFINE D == DOMAIN newTxOpps
           run(i) == LongestRun(newTxOpps[i][1])
           runs == {run(i) : i \in D}
<1>1. \A i \in D : newTxOpps[i][1] \in DOMAIN occupied /\ occupied[newTxOpps[i][1]] \subseteq SubCh
  <2>1. newTxOpps \in Seq((DOMAIN occupied) \X (SubCh \cup {NotDrawn}))
    BY DEF SelTypeOK
  <2>2. \A i \in D : newTxOpps[i] \in (DOMAIN occupied) \X (SubCh \cup {NotDrawn})
    BY <2>1, ElementOfSeq
  <2> QED BY <2>2 DEF SelTypeOK
<1>2. \A i \in D : run(i) \in 1 .. TotalSubCh /\ (run(i) = TotalSubCh => Available(newTxOpps[i][1]) = SubCh)
  BY <1>1, LongestRunType
<1>3. TotalSubCh \in Nat
  BY SelAssumption
<1>4. runs \subseteq 1 .. TotalSubCh /\ runs \subseteq Int /\ IsFiniteSet(runs) /\ runs # {}
  <2>1. runs \subseteq 1 .. TotalSubCh
    <3> HIDE DEF run
    <3> QED BY <1>2
  <2>2. IsFiniteSet(1 .. TotalSubCh)
    BY <1>3, FS_Interval
  <2>3. 1 \in D
    <3>1. PICK S : newTxOpps \in Seq(S)
      BY DEF SelTypeOK
    <3>2. Len(newTxOpps) \in Nat /\ Len(newTxOpps) # 0 /\ D = 1 .. Len(newTxOpps)
      BY <3>1
    <3> QED BY <3>2
  <2> HIDE DEF D, run
  <2>4. runs # {}
    BY <2>3
  <2> HIDE DEF runs
  <2>5. IsFiniteSet(runs)
    BY <2>1, <2>2, FS_Subset
  <2> QED BY <2>1, <2>4, <2>5
<1>5. NumSubCh = Min(runs)
  BY DEF NumSubCh
<1>6. Min(runs) \in runs /\ \A y \in runs : Min(runs) <= y
  <2> HIDE DEF runs
  <2> QED BY <1>4, MinOfSet
<1>7. NumSubCh \in 1 .. TotalSubCh
  <2> HIDE DEF runs
  <2> QED BY <1>4, <1>5, <1>6
<1>8. ASSUME NEW i \in D, NumSubCh = TotalSubCh PROVE run(i) = TotalSubCh
  <2>1. run(i) \in runs
    OBVIOUS
  <2>2. NumSubCh <= run(i)
    <3> HIDE DEF run, runs
    <3> QED BY <1>5, <1>6, <2>1
  <2> HIDE DEF run
  <2> QED BY <1>2, <1>3, <1>8, <2>2
<1> QED BY <1>2, <1>7, <1>8

LEMMA AssignChooses ==
  ASSUME ChoiceInv, AssignSubChannels
  PROVE  ChoiceInv'
<1> USE DEF ctlVars
<1>1. /\ pc = "assign" /\ pc' = "allocate"
      /\ assignedSbCh' = Min({load.need, NumSubCh})
      /\ UNCHANGED <<load, ctlVars, instructions, occupied, txOpps, totalTx, newTxOpps, slotAllocList>>
  BY DEF AssignSubChannels
<1>2. SelTypeOK /\ newTxOpps # <<>>
  BY <1>1 DEF ChoiceInv, SomeChosen
<1>3. assignedSbCh' \in 0 .. TotalSubCh
  <2>1. NumSubCh \in 1 .. TotalSubCh /\ TotalSubCh \in Nat
    BY <1>2, NumSubChType, SelAssumption
  <2>2. load.need \in Nat
    BY <1>2, SelAssumption DEF SelTypeOK, Load
  <2> QED BY <1>1, <2>1, <2>2, MinOfTwo
<1>4. SelTypeOK'
  BY <1>1, <1>2, <1>3 DEF SelTypeOK
<1>5. L' = L /\ R' = R /\ Tried' = Tried /\ table' = table /\ Overwrites' = Overwrites
  BY <1>1 DEF L, R, IsFar, Tried, Overwrites
<1>6. OverwriteOK'
  BY <1>1, <1>5 DEF ChoiceInv, OverwriteOK, FarResource
<1>7. DrawnOK' /\ SomeChosen'
  BY <1>1, <1>2, <1>5 DEF ChoiceInv, DrawnOK, SomeChosen
<1>8. OnePerResource(packets') /\ AnswerOK'
  BY <1>1 DEF ChoiceInv, AnswerOK
<1> QED BY <1>1, <1>4, <1>6, <1>7, <1>8 DEF ChoiceInv, OverwritesFar, DrawnAreFree, AnnouncesRest
LEMMA SameSize ==
  ASSUME NEW A, NEW S, IsFiniteSet(S), NEW f \in [A -> S],
         \A a, b \in A : f[a] = f[b] => a = b,
         \A s \in S : \E a \in A : f[a] = s
  PROVE  IsFiniteSet(A) /\ Cardinality(A) = Cardinality(S)
<1>1. f \in Injection(A, S) /\ f \in Surjection(A, S)
  BY DEF Injection, IsInjective, Surjection
<1> QED BY <1>1, FS_Injection

(* The chosen slots, and how many of them come before a slot.               *)
SlotsOf == {newTxOpps[i][1] : i \in DOMAIN newTxOpps}

Earlier(s) == Cardinality({t \in SlotsOf : t < s})

LEMMA ChosenSlots ==
  ASSUME SelTypeOK
  PROVE  /\ DOMAIN newTxOpps = 1 .. Len(newTxOpps) /\ Len(newTxOpps) \in Nat
         /\ \A i \in DOMAIN newTxOpps :
              /\ newTxOpps[i][1] \in SlotsOf /\ newTxOpps[i][1] \in DOMAIN occupied
              /\ newTxOpps[i][2] \in SubCh \cup {NotDrawn}
         /\ \A s \in SlotsOf : \E i \in DOMAIN newTxOpps : newTxOpps[i][1] = s
         /\ SlotsOf \subseteq Window /\ SlotsOf \subseteq Int /\ IsFiniteSet(SlotsOf)
         /\ SlotsOf \subseteq DOMAIN occupied
<1>1. newTxOpps \in Seq((DOMAIN occupied) \X (SubCh \cup {NotDrawn})) /\ DOMAIN occupied \subseteq Window
  BY DEF SelTypeOK
<1>2. DOMAIN newTxOpps = 1 .. Len(newTxOpps) /\ Len(newTxOpps) \in Nat
  BY <1>1
<1>3. \A i \in DOMAIN newTxOpps : newTxOpps[i] \in (DOMAIN occupied) \X (SubCh \cup {NotDrawn})
  BY <1>1, ElementOfSeq
<1>4. \A i \in DOMAIN newTxOpps :
        newTxOpps[i][1] \in DOMAIN occupied /\ newTxOpps[i][2] \in SubCh \cup {NotDrawn}
  BY <1>3
<1>5. SlotsOf \subseteq DOMAIN occupied
  BY <1>4 DEF SlotsOf
<1>6. SlotsOf \subseteq Window
  BY <1>1, <1>5
<1>7. SlotsOf \subseteq Int /\ IsFiniteSet(SlotsOf)
  <2>1. SlotsOf \subseteq Int
    BY <1>6, WindowSize
  <2>2. IsFiniteSet(SlotsOf)
    BY <1>6, WindowSize, FS_Subset
  <2> QED BY <2>1, <2>2
<1>8. /\ \A i \in DOMAIN newTxOpps : newTxOpps[i][1] \in SlotsOf
      /\ \A s \in SlotsOf : \E i \in DOMAIN newTxOpps : newTxOpps[i][1] = s
  BY DEF SlotsOf
<1> QED BY <1>2, <1>4, <1>5, <1>6, <1>7, <1>8

LEMMA AllocationsShape ==
  ASSUME SelTypeOK, NEW start \in [DOMAIN newTxOpps -> SubCh]
  PROVE  /\ \A a \in Allocations(start) : \E i \in DOMAIN newTxOpps :
              /\ a.slot = newTxOpps[i][1] /\ a.start = start[i] /\ a.length = assignedSbCh
              /\ a.txSci1A = (Earlier(a.slot) % load.maxNumPerReserve = 0)
              /\ a.slotNumInd = SlotNumInd(Earlier(a.slot))
         /\ \A i \in DOMAIN newTxOpps : \E a \in Allocations(start) : a.slot = newTxOpps[i][1]
         /\ \A a, b \in Allocations(start) : a.slot = b.slot => a = b
<1> DEFINE D == DOMAIN newTxOpps
           slot(i) == newTxOpps[i][1]
           size(i) == Cardinality({slot(j) : j \in {k \in D : slot(k) < slot(i)}})
           first(i) == \A j \in D : slot(j) = slot(i) => start[i] <= start[j]
           entry(i, n) == [slot |-> slot(i), start |-> start[i], length |-> assignedSbCh,
                           ndi |-> IF n = 0 THEN 1 ELSE 0, rv |-> n,
                           txSci1A |-> n % load.maxNumPerReserve = 0, slotNumInd |-> SlotNumInd(n)]
<1>1. Allocations(start) = {entry(i, size(i)) : i \in {j \in D : first(j)}}
  BY DEF Allocations
<1>2. \A i \in D : size(i) = Earlier(slot(i))
  <2>1. ASSUME NEW i \in D
        PROVE  {slot(j) : j \in {k \in D : slot(k) < slot(i)}} = {t \in SlotsOf : t < slot(i)}
    BY DEF SlotsOf
  <2> QED BY <2>1 DEF Earlier
<1> HIDE DEF size, D
<1>3. \A i \in D : slot(i) \in SlotsOf /\ start[i] \in SubCh /\ start[i] \in Int
  <2>1. \A i \in D : slot(i) \in SlotsOf
    BY DEF SlotsOf, D
  <2> QED BY <2>1 DEF D, SubCh
<1> HIDE DEF slot, first
<1>4. \A i \in D : \A n :
        /\ entry(i, n).slot = slot(i) /\ entry(i, n).start = start[i]
        /\ entry(i, n).length = assignedSbCh
        /\ entry(i, n).txSci1A = (n % load.maxNumPerReserve = 0)
        /\ entry(i, n).slotNumInd = SlotNumInd(n)
  OBVIOUS
<1> HIDE DEF entry
<1>5. ASSUME NEW a \in Allocations(start)
      PROVE  \E i \in D : /\ first(i) /\ a = entry(i, Earlier(slot(i))) /\ a.slot = slot(i)
                          /\ a.start = start[i] /\ a.length = assignedSbCh
                          /\ a.txSci1A = (Earlier(a.slot) % load.maxNumPerReserve = 0)
                          /\ a.slotNumInd = SlotNumInd(Earlier(a.slot))
  <2>1. PICK i \in D : first(i) /\ a = entry(i, size(i))
    BY <1>1
  <2>2. a = entry(i, Earlier(slot(i)))
    BY <1>2, <2>1
  <2>3. a.slot = slot(i)
    BY <1>4, <2>2
  <2> QED BY <1>4, <2>1, <2>2, <2>3
<1>6. ASSUME NEW i \in D
      PROVE  \E a \in Allocations(start) : a.slot = slot(i)
  <2> DEFINE starts == {start[j] : j \in {k \in D : slot(k) = slot(i)}}
  <2>1. starts \subseteq SubCh /\ starts \subseteq Int /\ starts # {}
    BY <1>3
  <2>2. IsFiniteSet(SubCh)
    <3>1. TotalSubCh - 1 \in Int
      BY SelAssumption
    <3> QED BY <3>1, FS_Interval DEF SubCh
  <2>3. Min(starts) \in starts /\ \A y \in starts : Min(starts) <= y
    <3> HIDE DEF starts
    <3>1. IsFiniteSet(starts)
      BY <2>1, <2>2, FS_Subset
    <3> QED BY <2>1, <3>1, MinOfSet
  <2>4. PICK j \in D : slot(j) = slot(i) /\ start[j] = Min(starts)
    BY <2>3
  <2>5. first(j)
    <3>1. \A k \in D : slot(k) = slot(j) => start[k] \in starts
      BY <2>4
    <3> HIDE DEF starts
    <3> QED BY <2>3, <2>4, <3>1 DEF first
  <2>6. entry(j, size(j)) \in Allocations(start)
    BY <1>1, <2>5
  <2> QED BY <1>4, <2>4, <2>6
<1>7. ASSUME NEW a \in Allocations(start), NEW b \in Allocations(start), a.slot = b.slot
      PROVE  a = b
  <2>1. PICK i \in D : first(i) /\ a = entry(i, Earlier(slot(i))) /\ a.slot = slot(i)
    BY <1>5
  <2>2. PICK j \in D : first(j) /\ b = entry(j, Earlier(slot(j))) /\ b.slot = slot(j)
    BY <1>5
  <2>3. slot(i) = slot(j)
    BY <1>7, <2>1, <2>2
  <2>4. start[i] = start[j]
    <3>1. start[i] <= start[j] /\ start[j] <= start[i]
      BY <2>1, <2>2, <2>3 DEF first
    <3> QED BY <1>3, <3>1
  <2>5. \A n : entry(i, n) = entry(j, n)
    BY <2>3, <2>4 DEF entry
  <2> QED BY <2>1, <2>2, <2>3, <2>5
<1> QED BY <1>5, <1>6, <1>7 DEF D, slot

(* The order of the allocations by their slots.                             *)
BySlot(A) == {w \in A \X A : w[1].slot < w[2].slot}

LEMMA AllocationsOrdered ==
  ASSUME SelTypeOK, NEW A,
         \A a \in A : a.slot \in SlotsOf,
         \A s \in SlotsOf : \E a \in A : a.slot = s,
         \A a, b \in A : a.slot = b.slot => a = b
  PROVE  /\ IsFiniteSet(A) /\ Cardinality(A) = Cardinality(SlotsOf)
         /\ IsOrder(BySlot(A), A)
         /\ \A a \in A : Rank(BySlot(A), A, a) = Earlier(a.slot)
<1>1. SlotsOf \subseteq Int /\ IsFiniteSet(SlotsOf)
  BY ChosenSlots
<1>2. \A a, b \in A : <<a, b>> \in BySlot(A) <=> a.slot < b.slot
  BY DEF BySlot
<1>3. IsOrder(BySlot(A), A)
  <2>1. \A a \in A : a.slot \in Int
    BY <1>1
  <2> QED BY <1>2, <2>1 DEF IsOrder
<1>4. IsFiniteSet(A) /\ Cardinality(A) = Cardinality(SlotsOf)
  <2> DEFINE f == [a \in A |-> a.slot]
  <2>1. f \in [A -> SlotsOf] /\ \A a \in A : f[a] = a.slot
    OBVIOUS
  <2> HIDE DEF f
  <2>2. (\A a, b \in A : f[a] = f[b] => a = b) /\ (\A s \in SlotsOf : \E a \in A : f[a] = s)
    BY <2>1
  <2> QED BY <1>1, <2>1, <2>2, SameSize
<1>5. ASSUME NEW a \in A
      PROVE  Rank(BySlot(A), A, a) = Earlier(a.slot)
  <2> DEFINE B == Below(BySlot(A), A, a)
             T == {t \in SlotsOf : t < a.slot}
             f == [b \in B |-> b.slot]
  <2>1. \A b \in B : b \in A /\ b.slot \in T
    BY <1>2 DEF Below
  <2>2. \A s \in T : \E b \in B : b.slot = s
    BY <1>2 DEF Below
  <2>3. IsFiniteSet(T)
    BY <1>1, FS_Subset
  <2> HIDE DEF B, T
  <2>4. f \in [B -> T] /\ \A b \in B : f[b] = b.slot
    BY <2>1
  <2> HIDE DEF f
  <2>5. (\A b, c \in B : f[b] = f[c] => b = c) /\ (\A s \in T : \E b \in B : f[b] = s)
    BY <2>1, <2>2, <2>4
  <2>6. Cardinality(B) = Cardinality(T)
    BY <2>3, <2>4, <2>5, SameSize
  <2> QED BY <2>6 DEF Rank, Earlier, B, T
<1> QED BY <1>3, <1>4, <1>5
(* Distinct slots give as many allocations as were chosen; in any case no   *)
(* more.                                                                    *)
LEMMA NumberOfSlots ==
  ASSUME SelTypeOK
  PROVE  /\ Cardinality(SlotsOf) \in Nat /\ Cardinality(SlotsOf) <= Len(newTxOpps)
         /\ (\A i, j \in DOMAIN newTxOpps : newTxOpps[i][1] = newTxOpps[j][1] => i = j) =>
              Cardinality(SlotsOf) = Len(newTxOpps)
<1> DEFINE D == DOMAIN newTxOpps
           f == [i \in D |-> newTxOpps[i][1]]
           n == Len(newTxOpps)
<1>1. /\ D = 1 .. n /\ n \in Nat /\ IsFiniteSet(SlotsOf)
      /\ \A i \in D : newTxOpps[i][1] \in SlotsOf
      /\ \A s \in SlotsOf : \E i \in D : newTxOpps[i][1] = s
  BY ChosenSlots
<1>2. IsFiniteSet(D) /\ Cardinality(D) = n
  <2> HIDE DEF D, n
  <2> QED BY <1>1, FS_Interval
<1>3. f \in [D -> SlotsOf] /\ \A i \in D : f[i] = newTxOpps[i][1]
  BY <1>1
<1> HIDE DEF f, D, n
<1>4. f \in Surjection(D, SlotsOf)
  BY <1>1, <1>3 DEF Surjection
<1>5. /\ Cardinality(SlotsOf) <= Cardinality(D)
      /\ Cardinality(SlotsOf) = Cardinality(D) <=> f \in Injection(D, SlotsOf)
  BY <1>2, <1>4, FS_Surjection
<1>6. (\A i, j \in D : newTxOpps[i][1] = newTxOpps[j][1] => i = j) => f \in Injection(D, SlotsOf)
  BY <1>3 DEF Injection, IsInjective
<1>7. Cardinality(SlotsOf) \in Nat
  BY <1>1, FS_CardinalityType
<1>8. Cardinality(SlotsOf) <= n /\ (f \in Injection(D, SlotsOf) => Cardinality(SlotsOf) = n)
  BY <1>2, <1>5
<1> QED BY <1>6, <1>7, <1>8 DEF n, D

(* Each SCI announces the allocations up to the next SCI.                   *)
LEMMA SciAnnounces ==
  ASSUME SelTypeOK, NEW A,
         \A a \in A : a.slot \in SlotsOf,
         \A s \in SlotsOf : \E a \in A : a.slot = s,
         \A a, b \in A : a.slot = b.slot => a = b,
         NEW m, m \in Nat \ {0}, m = load.maxNumPerReserve,
         \A a \in A : /\ a.txSci1A = (Earlier(a.slot) % m = 0)
                      /\ a.slotNumInd = SlotNumInd(Earlier(a.slot)),
         m = 1 \/ Cardinality(SlotsOf) = Len(newTxOpps),
         NEW a \in A, a.txSci1A
  PROVE  a.slotNumInd = Cardinality({b \in A : b.slot >= a.slot /\
           \A c \in A : c.txSci1A /\ a.slot < c.slot => b.slot < c.slot})
<1> DEFINE lt == BySlot(A)
           rank(b) == Rank(lt, A, b)
           n == Cardinality(SlotsOf)
           G == {b \in A : rank(a) <= rank(b) /\ rank(b) < rank(a) + m}
<1>1. /\ IsFiniteSet(A) /\ Cardinality(A) = n /\ IsOrder(lt, A)
      /\ \A b \in A : rank(b) = Earlier(b.slot)
  BY AllocationsOrdered
<1>2. /\ n \in Nat /\ n <= Len(newTxOpps) /\ Len(newTxOpps) \in Nat
  BY NumberOfSlots, ChosenSlots
<1>3. \A b \in A : b.slot \in Int
  BY ChosenSlots
<1>4. \A b, c \in A : <<b, c>> \in lt <=> b.slot < c.slot
  BY DEF BySlot
<1>5. \A b \in A : b.txSci1A <=> rank(b) % m = 0
  BY <1>1, ZenonT(60)
<1>6. rank(a) \in 0 .. Cardinality(A) - 1
  <2> HIDE DEF lt
  <2> QED BY <1>1, RankLaws
<1>7. rank(a) % m = 0
  BY <1>5
<1> HIDE DEF lt, n
<1>8. Followers(lt, A, m, a) = G
  BY <1>1, <1>7, UpToNextLeader
<1>9. {b \in A : b.slot >= a.slot /\ \A c \in A : c.txSci1A /\ a.slot < c.slot => b.slot < c.slot} = G
  <2>1. ASSUME NEW b \in A
        PROVE  (b.slot >= a.slot /\ \A c \in A : c.txSci1A /\ a.slot < c.slot => b.slot < c.slot)
               <=> (/\ b = a \/ <<a, b>> \in lt
                    /\ \A c \in A : Rank(lt, A, c) % m = 0 /\ <<a, c>> \in lt => <<b, c>> \in lt)
    <3>1. b.slot >= a.slot <=> (b = a \/ <<a, b>> \in lt)
      BY <1>3, <1>4
    <3>2. \A c \in A : (c.txSci1A /\ a.slot < c.slot => b.slot < c.slot) <=>
                       (Rank(lt, A, c) % m = 0 /\ <<a, c>> \in lt => <<b, c>> \in lt)
      BY <1>4, <1>5
    <3> QED BY <3>1, <3>2
  <2> HIDE DEF G, rank
  <2> QED BY <1>8, <2>1 DEF Followers
<1>10. Cardinality(G) = IF m <= Cardinality(A) - rank(a) THEN m ELSE Cardinality(A) - rank(a)
  BY <1>1, <1>6, RunOfRanks
<1>11. a.slotNumInd = Min({m, Len(newTxOpps) - rank(a)})
  BY <1>1, <1>7 DEF SlotNumInd
<1> HIDE DEF G, rank
<1>12. a.slotNumInd = Cardinality(G)
  <2> DEFINE len == Len(newTxOpps)
             ra == rank(a)
  <2>1. len \in Nat /\ ra \in 0 .. n - 1 /\ n <= len /\ n \in Nat /\ (m = 1 \/ n = len)
        /\ Cardinality(G) = (IF m <= n - ra THEN m ELSE n - ra) /\ m \in Nat \ {0}
    BY <1>1, <1>2, <1>6, <1>10 DEF n
  <2>2. a.slotNumInd = Min({m, len - ra})
    BY <1>11
  <2> HIDE DEF len, ra
  <2>3. len - ra \in Int /\ m \in Int
    BY <2>1
  <2>4. Min({m, len - ra}) = IF m <= len - ra THEN m ELSE len - ra
    BY <2>3, MinOfTwo
  <2>5. (IF m <= len - ra THEN m ELSE len - ra) = (IF m <= n - ra THEN m ELSE n - ra)
    BY <2>1
  <2> QED BY <2>1, <2>2, <2>4, <2>5
<1> QED BY <1>9, <1>12
LEMMA FreeBand ==
  ASSUME SelTypeOK, newTxOpps # <<>>, NEW i \in DOMAIN newTxOpps, NEW sc \in SubCh,
         newTxOpps[i][2] = NotDrawn, MayStart(i, sc)
  PROVE  LET slot == newTxOpps[i][1]
             band == sc .. sc + assignedSbCh - 1
         IN band \subseteq SubCh /\ (Full(slot) \/ band \cap occupied[slot] = {})
<1> DEFINE slot == newTxOpps[i][1]
           band == sc .. sc + assignedSbCh - 1
<1>1. slot \in DOMAIN occupied /\ occupied[slot] \subseteq SubCh
  BY ChosenSlots DEF SelTypeOK
<1>2. band \subseteq Available(slot)
  <2>1. CASE NumSubCh = TotalSubCh /\ assignedSbCh = 1
    <3>1. Available(slot) = SubCh
      BY <2>1, NumSubChType
    <3>2. band \subseteq {sc}
      BY <2>1 DEF SubCh
    <3> QED BY <3>1, <3>2
  <2>2. CASE band \subseteq Available(slot)
    BY <2>2
  <2> QED BY <2>1, <2>2 DEF MayStart
<1> HIDE DEF slot, band
<1>3. Available(slot) \subseteq SubCh /\ (Full(slot) \/ Available(slot) \cap occupied[slot] = {})
  BY <1>1 DEF Available
<1>4. band \subseteq SubCh /\ (Full(slot) \/ band \cap occupied[slot] = {})
  BY <1>2, <1>3
<1> QED BY <1>4 DEF slot, band

LEMMA AllocateChooses ==
  ASSUME ChoiceInv, Allocate
  PROVE  ChoiceInv'
<1> USE DEF ctlVars
<1>1. /\ pc = "allocate" /\ pc' = "done"
      /\ UNCHANGED <<load, ctlVars, instructions, occupied, txOpps, totalTx, newTxOpps, assignedSbCh>>
  BY DEF Allocate
<1>2. PICK start \in [DOMAIN newTxOpps -> SubCh] :
        /\ \A i \in DOMAIN newTxOpps : MayStart(i, start[i])
        /\ slotAllocList' = Allocations(start)
  BY DEF Allocate
<1> DEFINE A == Allocations(start)
<1>3. SelTypeOK /\ OnePerResource(packets) /\ newTxOpps # <<>>
  BY <1>1 DEF ChoiceInv, SomeChosen
<1>4. \A a \in A : \E i \in DOMAIN newTxOpps :
        a.slot = newTxOpps[i][1] /\ a.start = start[i] /\ a.length = assignedSbCh
  BY <1>3, AllocationsShape
<1>5. /\ \A a \in A : a.slot \in SlotsOf
      /\ \A s \in SlotsOf : \E a \in A : a.slot = s
      /\ \A a, b \in A : a.slot = b.slot => a = b
  <2>1. /\ \A i \in DOMAIN newTxOpps : \E a \in A : a.slot = newTxOpps[i][1]
        /\ \A a, b \in A : a.slot = b.slot => a = b
    BY <1>3, AllocationsShape
  <2>2. /\ \A i \in DOMAIN newTxOpps : newTxOpps[i][1] \in SlotsOf
        /\ \A s \in SlotsOf : \E i \in DOMAIN newTxOpps : newTxOpps[i][1] = s
    BY <1>3, ChosenSlots
  <2> HIDE DEF A
  <2> QED BY <1>4, <2>1, <2>2
<1>6. \A a \in A : /\ a.txSci1A = (Earlier(a.slot) % load.maxNumPerReserve = 0)
                   /\ a.slotNumInd = SlotNumInd(Earlier(a.slot))
  BY <1>3, AllocationsShape
<1>7. slotAllocList' = A
  BY <1>2
<1> HIDE DEF A
<1>8. SelTypeOK'
  <2>1. \A a \in A : a.slot \in Window /\ a.start \in SubCh
    BY <1>2, <1>3, <1>4, <1>5, ChosenSlots
  <2> QED BY <1>1, <1>3, <1>7, <2>1 DEF SelTypeOK
<1>9. L' = L /\ R' = R /\ Tried' = Tried /\ table' = table /\ Overwrites' = Overwrites
  BY <1>1 DEF L, R, IsFar, Tried, Overwrites
<1>10. OverwritesFar'
  <2>1. SUFFICES ASSUME Overwrites, NEW a \in A
        PROVE  \/ \E p \in L \cup R : \E r \in Tried :
                    /\ p.ahead = a.slot /\ p.sc = a.start
                    /\ table[r].n = totalTx /\ p.rc <= table[r].rc
               \/ totalTx % 2 = 1 /\ a.start \notin occupied[a.slot]
    BY <1>1, <1>7, <1>9 DEF OverwritesFar
  <2>2. PICK i \in DOMAIN newTxOpps : a.slot = newTxOpps[i][1] /\ a.start = start[i]
    BY <1>4
  <2>3. /\ newTxOpps[i][2] # NotDrawn
        /\ \/ FarResource(newTxOpps[i][1], newTxOpps[i][2], totalTx)
           \/ totalTx % 2 = 1 /\ newTxOpps[i][2] \notin occupied[newTxOpps[i][1]]
    BY <1>1, <2>1 DEF ChoiceInv, OverwriteOK
  <2>4. start[i] = newTxOpps[i][2]
    BY <1>2, <2>3 DEF MayStart
  <2> QED BY <2>2, <2>3, <2>4 DEF FarResource
<1>11. ASSUME ~Overwrites
       PROVE  /\ \A i \in DOMAIN newTxOpps : newTxOpps[i][2] = NotDrawn
              /\ Cardinality(SlotsOf) = Len(newTxOpps)
              /\ Len(newTxOpps) = Min({totalTx, Cardinality(DOMAIN occupied)})
  <2>1. /\ \A i \in DOMAIN newTxOpps : newTxOpps[i][2] = NotDrawn
        /\ \A i, j \in DOMAIN newTxOpps : newTxOpps[i][1] = newTxOpps[j][1] => i = j
        /\ Len(newTxOpps) = Min({totalTx, Cardinality(DOMAIN occupied)})
    BY <1>1, <1>11 DEF ChoiceInv, DrawnOK
  <2>2. Cardinality(SlotsOf) = Len(newTxOpps)
    BY <1>3, <2>1, NumberOfSlots
  <2> QED BY <2>1, <2>2
<1>12. DrawnAreFree'
  <2>1. SUFFICES ASSUME ~Overwrites
        PROVE  /\ Cardinality(A) = Min({totalTx, Cardinality(DOMAIN occupied)})
               /\ \A a \in A : LET band == a.start .. a.start + a.length - 1
                    IN band \subseteq SubCh /\ (Full(a.slot) \/ band \cap occupied[a.slot] = {})
    BY <1>1, <1>7, <1>9 DEF DrawnAreFree, Full
  <2>2. Cardinality(A) = Cardinality(SlotsOf)
    BY <1>3, <1>5, AllocationsOrdered
  <2>3. ASSUME NEW a \in A
        PROVE  LET band == a.start .. a.start + a.length - 1
               IN band \subseteq SubCh /\ (Full(a.slot) \/ band \cap occupied[a.slot] = {})
    <3>1. PICK i \in DOMAIN newTxOpps :
            a.slot = newTxOpps[i][1] /\ a.start = start[i] /\ a.length = assignedSbCh
      BY <1>4
    <3>2. newTxOpps[i][2] = NotDrawn /\ MayStart(i, start[i]) /\ start[i] \in SubCh
      BY <1>2, <1>11, <2>1
    <3> QED BY <1>3, <3>1, <3>2, FreeBand
  <2> QED BY <1>11, <2>1, <2>2, <2>3
<1>13. ASSUME OnePerReserve PROVE AnnouncesRest'
  <2>1. SUFFICES ASSUME NEW a \in A, a.txSci1A
        PROVE  a.slotNumInd = Cardinality({b \in A : b.slot >= a.slot /\
                 \A c \in A : c.txSci1A /\ a.slot < c.slot => b.slot < c.slot})
    BY <1>7 DEF AnnouncesRest
  <2>2. load.maxNumPerReserve \in Nat \ {0}
    BY <1>3, SelAssumption DEF SelTypeOK, Load
  <2>3. load.maxNumPerReserve = 1 \/ Cardinality(SlotsOf) = Len(newTxOpps)
    <3>1. CASE Overwrites
      BY <1>3, <1>13, <3>1 DEF OnePerReserve, Overwrites, SelTypeOK
    <3>2. CASE ~Overwrites
      BY <1>11, <3>2
    <3> QED BY <3>1, <3>2
  <2> QED BY <1>3, <1>5, <1>6, <2>1, <2>2, <2>3, SciAnnounces, SMTT(60)
<1>14. OnePerResource(packets')
  BY <1>1, <1>3
<1> QED BY <1>1, <1>8, <1>10, <1>12, <1>13, <1>14 DEF ChoiceInv, AnswerOK, OverwriteOK, DrawnOK,
            SomeChosen

LEMMA FinishChooses ==
  ASSUME ChoiceInv, Finish
  PROVE  ChoiceInv'
<1>1. /\ pc' = "idle" /\ packets' = {} /\ tempEdge' = 1 /\ instructions' = <<>>
      /\ occupied' = <<>> /\ txOpps' = {} /\ totalTx' = 0 /\ newTxOpps' = <<>>
      /\ assignedSbCh' = 0 /\ slotAllocList' = {}
      /\ UNCHANGED <<load, now, table, dEdge>>
  BY DEF Finish
<1>2. DOMAIN occupied' = {} /\ TotalSubCh \in Nat
  BY <1>1, SelAssumption
<1>3. SelTypeOK'
  BY <1>1, <1>2 DEF ChoiceInv, SelTypeOK
<1> QED BY <1>1, <1>3 DEF ChoiceInv, OnePerResource, AnswerOK, OverwriteOK, DrawnOK, SomeChosen,
            OverwritesFar, DrawnAreFree, AnnouncesRest

LEMMA StutterChooses ==
  ASSUME ChoiceInv, UNCHANGED vars
  PROVE  ChoiceInv'
<1> USE DEF vars, ctlVars, schedVars
<1>1. /\ SelTypeOK' /\ OnePerResource(packets') /\ SomeChosen'
  BY DEF ChoiceInv, SelTypeOK, SomeChosen
<1>2. L' = L /\ R' = R /\ Tried' = Tried /\ table' = table /\ Overwrites' = Overwrites
  BY DEF L, R, IsFar, Tried, Overwrites
<1>3. AnswerOK'
  BY <1>2, SMTT(60) DEF ChoiceInv, AnswerOK, NumPairs, Pair, FarResource
<1>4. OverwriteOK'
  BY <1>2 DEF ChoiceInv, OverwriteOK, FarResource
<1>5. DrawnOK'
  BY <1>2 DEF ChoiceInv, DrawnOK
<1>6. OverwritesFar'
  BY <1>2 DEF ChoiceInv, OverwritesFar
<1>7. DrawnAreFree'
  BY <1>2 DEF ChoiceInv, DrawnAreFree, Full
<1>8. OnePerReserve => AnnouncesRest'
  BY DEF ChoiceInv, AnnouncesRest
<1> QED BY <1>1, <1>3, <1>4, <1>5, <1>6, <1>7, <1>8 DEF ChoiceInv

(* What is allocated was chosen for it all the way from the packets that    *)
(* the controller heard, by its digits and the places in the scheduler's    *)
(* list.                                                                    *)
THEOREM ChoiceInvariant == Spec => []ChoiceInv
<1>1. Init => ChoiceInv
  <2>1. SUFFICES ASSUME Init PROVE ChoiceInv
    OBVIOUS
  <2>2. SelTypeOK
    <3>1. DOMAIN occupied = {} /\ TotalSubCh \in Nat
      BY <2>1, SelAssumption DEF Init
    <3> QED BY <2>1, <3>1 DEF Init, SelTypeOK
  <2> QED BY <2>1, <2>2 DEF Init, ChoiceInv, OnePerResource, AnswerOK, OverwriteOK, DrawnOK,
              SomeChosen, OverwritesFar, DrawnAreFree, AnnouncesRest
<1>2. SelInv /\ ChoiceInv /\ [Next]_vars => ChoiceInv'
  BY AskChooses, WidenEdgeChooses, SelectChooses, OverwritingChooses, DrawingChooses,
     DrawSlotChooses, DrawOddSlotChooses, AssignChooses, AllocateChooses, FinishChooses,
     StutterChooses DEF Next, Select
<1> QED BY <1>1, <1>2, SelInvariant, PTL DEF Spec

(* The variables keep their types: a slot that was read from the answer of  *)
(* the controller lies in the window, and its subchannel in the channel.    *)
THEOREM SelTypeCorrect == Spec => []SelTypeOK
<1>1. ChoiceInv => SelTypeOK
  BY DEF ChoiceInv
<1> QED BY <1>1, ChoiceInvariant, PTL

(* A UE overwrites only what UEs far away on either side have announced,    *)
(* with a counter that the row of the table allows (run.py:349-643,         *)
(* nr-sl-ue-mac-scheduler-simple.cc:83-220).                                *)
THEOREM OverwritesFarHolds == Spec => []OverwritesFar
<1>1. ChoiceInv => OverwritesFar
  BY DEF ChoiceInv
<1> QED BY <1>1, ChoiceInvariant, PTL

(* Drawn resources are free ones of the channel, and as many as were asked  *)
(* for (nr-sl-ue-mac-scheduler-simple.cc:221-455).                          *)
THEOREM DrawnAreFreeHolds == Spec => []DrawnAreFree
<1>1. ChoiceInv => DrawnAreFree
  BY DEF ChoiceInv
<1> QED BY <1>1, ChoiceInvariant, PTL

(* Each SCI announces the transmissions up to the next SCI, when those that *)
(* overwrite are announced one by one (scheduler-simple.cc:343-363).        *)
THEOREM AnnouncesRestHolds ==
  ASSUME OnePerReserve
  PROVE  Spec => []AnnouncesRest
<1>1. ChoiceInv => AnnouncesRest
  BY DEF ChoiceInv
<1> QED BY <1>1, ChoiceInvariant, PTL

-----------------------------------------------------------------------------
(* A selection comes nearer to its end with each step.                      *)

(* While the edge is sought, some packet has come as far.                   *)
LEMMA FarthestIsAhead ==
  ASSUME SelInv, pc = "edge"
  PROVE  Farthest \in Nat /\ tempEdge \in Nat \ {0} /\ Farthest + 2 - tempEdge > 0
<1> DEFINE Zones == {p.zone : p \in packets}
<1>1. /\ packets \subseteq Packet /\ IsFiniteSet(packets) /\ tempEdge \in Nat \ {0}
      /\ 10 * AtLeast(tempEdge - 1) > Gamma10 * Cardinality(packets)
  BY DEF SelInv, HeardOK, EdgeAhead
<1>2. \A p \in packets : p.zone \in Nat
  BY <1>1 DEF Packet
<1>3. IsFiniteSet({0} \cup Zones) /\ {0} \cup Zones \subseteq Nat
  <2>1. [p \in packets |-> p.zone] \in Surjection(packets, Zones)
    BY DEF Surjection
  <2>2. IsFiniteSet(Zones)
    BY <1>1, <2>1, FS_Surjection
  <2>3. IsFiniteSet(Zones \cup {0})
    BY <2>2, FS_AddElement
  <2>4. Zones \cup {0} = {0} \cup Zones
    OBVIOUS
  <2> QED BY <1>2, <2>3, <2>4
<1>4. /\ Farthest \in {0} \cup Zones
      /\ \A z \in {0} \cup Zones : Farthest >= z
  <2>1. {0} \cup Zones \subseteq Int /\ {0} \cup Zones # {}
    BY <1>3
  <2> QED BY <1>3, <2>1, MaxOfSet DEF Farthest
<1>5. \E p \in packets : p.zone >= tempEdge - 1
  <2>1. SUFFICES ASSUME ~ \E p \in packets : p.zone >= tempEdge - 1 PROVE FALSE
    OBVIOUS
  <2>2. {p \in packets : p.zone >= tempEdge - 1} = {}
    BY <2>1
  <2>3. AtLeast(tempEdge - 1) = 0
    BY <2>2, FS_EmptySet DEF AtLeast
  <2>4. Cardinality(packets) \in Nat
    BY <1>1, FS_CardinalityType
  <2>5. \A c \in Nat : ~(10 * 0 > Gamma10 * c)
    BY SelAssumption, SMT
  <2> QED BY <1>1, <2>3, <2>4, <2>5
<1>6. PICK p \in packets : p.zone >= tempEdge - 1
  BY <1>5
<1>7. Farthest \in Nat /\ Farthest >= p.zone /\ p.zone \in Nat
  BY <1>2, <1>3, <1>4
<1> QED BY <1>1, <1>6, <1>7

LEMMA StepsLeftType ==
  ASSUME SelInv, SelTypeOK, OneMissing
  PROVE  StepsLeft \in Nat
<1>1. Cardinality(Window) \in Nat
  BY WindowSize, FS_CardinalityType
<1>2. pc = "edge" => Farthest + 2 - tempEdge \in Nat
  BY FarthestIsAhead
<1>3. pc = "odd" => totalTx - Len(newTxOpps) \in Nat
  BY DEF OneMissing, SelTypeOK
<1>4. pc = "draw" => Cardinality(txOpps) \in Nat
  BY FS_CardinalityType DEF SelInv, DrawOK
<1>5. pc \in {"idle", "edge", "mode", "trigger", "draw", "odd", "assign", "allocate", "done"}
  BY DEF SelTypeOK
<1> HIDE DEF Farthest, Window
<1> QED BY <1>1, <1>2, <1>3, <1>4, <1>5 DEF StepsLeft

LEMMA OneMissingKept ==
  ASSUME SelInv, ChoiceInv, OneMissing, [Next]_vars
  PROVE  OneMissing'
<1> SUFFICES ASSUME pc' = "odd" PROVE Len(newTxOpps') + 1 = totalTx'
  BY DEF OneMissing
<1>1. CASE DoNrSlAllocation
  <2>1. load.ore /\ instructions[1] = 1
    BY <1>1 DEF DoNrSlAllocation
  <2>2. /\ pc = "trigger" /\ totalTx' = instructions[2] /\ NumPairs # totalTx'
        /\ newTxOpps' = [i \in 1 .. NumPairs |-> Pair(txOpps', i)]
    BY <1>1, <2>1 DEF DoNrSlAllocation
  <2>3. totalTx' \in 1 .. 9 /\ NumPairs = totalTx' - (totalTx' % 2)
    <3>1. ~ \E n \in 1 .. 9 : instructions = <<2, n>>
      <4>1. \A n \in 1 .. 9 : <<2, n>>[1] # 1
        OBVIOUS
      <4> QED BY <2>1, <4>1
    <3> QED BY <2>1, <2>2, <3>1 DEF ChoiceInv, AnswerOK
  <2>4. NumPairs \in Nat /\ NumPairs + 1 = totalTx'
    <3>1. \A n \in 1 .. 9 : n - (n % 2) \in Nat /\ (n - (n % 2) # n => n - (n % 2) + 1 = n)
      BY SMT
    <3> QED BY <2>2, <2>3, <3>1
  <2>5. Len(newTxOpps') = NumPairs
    BY <2>2, <2>4
  <2> QED BY <2>4, <2>5
<1>2. CASE DrawOddSlot
  <2>1. PICK e : newTxOpps' = Append(newTxOpps, e)
    BY <1>2 DEF DrawOddSlot
  <2>2. pc = "odd" /\ totalTx' = totalTx /\ Len(newTxOpps') # totalTx
    BY <1>2 DEF DrawOddSlot
  <2>3. newTxOpps \in Seq((DOMAIN occupied) \X (SubCh \cup {NotDrawn}))
    BY DEF ChoiceInv, SelTypeOK
  <2>4. Len(newTxOpps') = Len(newTxOpps) + 1
    BY <2>1, <2>3
  <2> QED BY <2>2, <2>4 DEF OneMissing
<1>3. CASE UNCHANGED vars
  BY <1>3 DEF vars, schedVars, OneMissing
<1>4. CASE Ask \/ WidenEdge \/ SelectMode \/ SelectBlindly \/ DrawSlot \/ AssignSubChannels
           \/ Allocate \/ Finish
  BY <1>4 DEF Ask, WidenEdge, SelectMode, SelectBlindly, DrawSlot, AssignSubChannels,
              Allocate, Finish
<1> QED BY <1>1, <1>2, <1>3, <1>4 DEF Next, Select

LEMMA WidenEdgeShortens ==
  ASSUME SelInv, WidenEdge
  PROVE  StepsLeft' < StepsLeft
<1>1. /\ pc = "edge" /\ packets' = packets /\ pc' \in {"edge", "mode"}
      /\ pc' = "edge" => tempEdge' = tempEdge + 1
  <2>1. AtLeast(tempEdge) \in Nat /\ Cardinality(packets) \in Nat
    BY CountOfPackets DEF SelInv, HeardOK
  <2>2. \A c \in Nat : Gamma10 * c \in Nat
    BY SelAssumption, SMT
  <2> QED BY <2>1, <2>2 DEF WidenEdge
<1>2. Farthest \in Nat /\ tempEdge \in Nat /\ Farthest + 2 - tempEdge > 0
  BY <1>1, FarthestIsAhead
<1>3. Farthest' = Farthest
  BY <1>1 DEF Farthest
<1>4. Cardinality(Window) \in Nat
  BY WindowSize, FS_CardinalityType
<1>5. StepsLeft = 5 + Cardinality(Window) + (Farthest + 2 - tempEdge)
  BY <1>1 DEF StepsLeft
<1>6. CASE pc' = "edge"
  <2>1. StepsLeft' = 5 + Cardinality(Window) + (Farthest + 2 - (tempEdge + 1))
    BY <1>1, <1>3, <1>6 DEF StepsLeft, Window
  <2> HIDE DEF Farthest, Window
  <2> QED BY <1>2, <1>4, <1>5, <2>1
<1>7. CASE pc' = "mode"
  <2>1. StepsLeft' = 5 + Cardinality(Window)
    BY <1>7 DEF StepsLeft, Window
  <2> HIDE DEF Farthest, Window
  <2> QED BY <1>2, <1>4, <1>5, <2>1
<1> QED BY <1>1, <1>6, <1>7

LEMMA AllocationShortens ==
  ASSUME SelInv, ChoiceInv, OneMissing', DoNrSlAllocation
  PROVE  StepsLeft' < StepsLeft
<1>1. /\ pc = "trigger" /\ FindOpportunities
      /\ pc' \in {"assign", "odd", "draw"}
  BY DEF DoNrSlAllocation
<1>2. /\ txOpps' \subseteq Window /\ IsFiniteSet(Window) /\ Cardinality(Window) \in Nat
      /\ IsFiniteSet(txOpps') /\ Cardinality(txOpps') <= Cardinality(Window)
      /\ Cardinality(txOpps') \in Nat
  <2>1. txOpps' \subseteq Window
    BY <1>1, Opportunities DEF ChoiceInv, SelTypeOK
  <2> QED BY <2>1, WindowSize, FS_Subset, FS_CardinalityType
<1>3. StepsLeft = 4 + Cardinality(Window)
  BY <1>1 DEF StepsLeft
<1> HIDE DEF Window
<1>4. CASE pc' = "assign"
  <2>1. StepsLeft' = 3
    BY <1>4 DEF StepsLeft
  <2> QED BY <1>2, <1>3, <2>1
<1>5. CASE pc' = "draw"
  <2>1. StepsLeft' = 3 + Cardinality(txOpps')
    BY <1>5 DEF StepsLeft
  <2> QED BY <1>2, <1>3, <2>1
<1>6. CASE pc' = "odd"
  <2>1. StepsLeft' = 3 + (totalTx' - Len(newTxOpps'))
    BY <1>6 DEF StepsLeft
  <2>2. Len(newTxOpps') + 1 = totalTx'
    BY <1>6 DEF OneMissing
  <2>3. Len(newTxOpps') \in Nat /\ Cardinality(Window) # 0
    <3>1. load.ore /\ instructions[1] = 1
      BY <1>6 DEF DoNrSlAllocation
    <3>2. ChoiceInv'
      BY <3>1, OverwritingChooses
    <3>3. T2 - T1 + 1 # 0
      BY SelAssumption
    <3> QED BY <3>2, <3>3, WindowSize DEF ChoiceInv, SelTypeOK
  <2> QED BY <1>2, <1>3, <2>1, <2>2, <2>3
<1> QED BY <1>1, <1>4, <1>5, <1>6

LEMMA DrawSlotShortens ==
  ASSUME SelInv, DrawSlot
  PROVE  StepsLeft' < StepsLeft
<1>1. pc = "draw" /\ pc' \in {"draw", "assign"} /\ \E s \in txOpps : txOpps' = txOpps \ {s}
  BY DEF DrawSlot
<1>2. IsFiniteSet(txOpps)
  BY <1>1 DEF SelInv, DrawOK
<1>3. /\ Cardinality(txOpps) \in Nat \ {0}
      /\ Cardinality(txOpps') = Cardinality(txOpps) - 1
  BY <1>1, <1>2, FS_RemoveElement, FS_CardinalityType, FS_EmptySet
<1>4. StepsLeft = 3 + Cardinality(txOpps)
  BY <1>1 DEF StepsLeft
<1>5. StepsLeft' = IF pc' = "draw" THEN 3 + Cardinality(txOpps') ELSE 3
  BY <1>1 DEF StepsLeft
<1> QED BY <1>3, <1>4, <1>5

LEMMA DrawOddSlotShortens ==
  ASSUME ChoiceInv, OneMissing, DrawOddSlot
  PROVE  StepsLeft' < StepsLeft
<1>1. /\ pc = "odd" /\ totalTx' = totalTx
      /\ pc' = IF Len(newTxOpps') = totalTx THEN "assign" ELSE "odd"
  BY DEF DrawOddSlot
<1>2. PICK e : newTxOpps' = Append(newTxOpps, e)
  BY DEF DrawOddSlot
<1>3. newTxOpps \in Seq((DOMAIN occupied) \X (SubCh \cup {NotDrawn}))
  BY DEF ChoiceInv, SelTypeOK
<1>4. Len(newTxOpps) \in Nat /\ Len(newTxOpps') = Len(newTxOpps) + 1
  BY <1>2, <1>3
<1>5. Len(newTxOpps) + 1 = totalTx
  BY <1>1 DEF OneMissing
<1>6. StepsLeft = 3 + (totalTx - Len(newTxOpps))
  BY <1>1 DEF StepsLeft
<1>7. StepsLeft' = 3
  BY <1>1, <1>4, <1>5 DEF StepsLeft
<1> QED BY <1>4, <1>5, <1>6, <1>7

LEMMA RestShortens ==
  ASSUME SelectMode \/ SelectBlindly \/ AssignSubChannels \/ Allocate \/ Finish
  PROVE  StepsLeft' < StepsLeft
<1>1. Cardinality(Window) \in Nat
  BY WindowSize, FS_CardinalityType
<1> HIDE DEF Window
<1>2. CASE SelectMode \/ SelectBlindly
  <2>1. pc = "mode" /\ pc' = "trigger"
    BY <1>2 DEF SelectMode, SelectBlindly
  <2>2. StepsLeft = 5 + Cardinality(Window) /\ StepsLeft' = 4 + Cardinality(Window)
    BY <2>1 DEF StepsLeft, Window
  <2> QED BY <1>1, <2>2
<1>3. CASE AssignSubChannels
  BY <1>3 DEF AssignSubChannels, StepsLeft
<1>4. CASE Allocate
  BY <1>4 DEF Allocate, StepsLeft
<1>5. CASE Finish
  BY <1>5 DEF Finish, StepsLeft
<1> QED BY <1>2, <1>3, <1>4, <1>5

(* The loops of a selection end, for any packets, tables, windows and       *)
(* occupied resources: the one for the edge because some packet is farther  *)
(* away, that for drawing because each slot is taken from the list.         *)
THEOREM SelectionShortensHolds == Spec => [](StepsLeft \in Nat) /\ SelectionShortens
<1>1. Init => OneMissing
  BY DEF Init, OneMissing
<1>2. SelInv /\ ChoiceInv /\ OneMissing /\ [Next]_vars => OneMissing'
  BY OneMissingKept
<1>3. SelInv /\ ChoiceInv /\ OneMissing => StepsLeft \in Nat
  BY StepsLeftType DEF ChoiceInv
<1>4. SelInv /\ ChoiceInv /\ OneMissing /\ OneMissing' /\ [Next]_vars
        => [Select \/ Finish => StepsLeft' < StepsLeft]_vars
  BY WidenEdgeShortens, AllocationShortens, DrawSlotShortens, DrawOddSlotShortens, RestShortens
     DEF Select
<1> QED BY <1>1, <1>2, <1>3, <1>4, SelInvariant, ChoiceInvariant, PTL DEF Spec, SelectionShortens
=============================================================================
