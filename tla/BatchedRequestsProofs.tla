------------------------ MODULE BatchedRequestsProofs ------------------------
(***************************************************************************)
(* Proofs about BatchedRequests.                                           *)
(***************************************************************************)
EXTENDS BatchedRequests, SequenceTheorems, FiniteSetTheorems, WellFoundedInduction, TLAPS

(* What holds of 0, and of k + 1 where it holds of k, holds up to n. *)
LEMMA UpTo ==
  ASSUME NEW n \in Nat, NEW T, 0 \in T, \A k \in 0..(n - 1) : k \in T => k + 1 \in T
  PROVE  \A k \in 0..n : k \in T
<1> DEFINE R == {ss \in Nat \X Nat : ss[1] < ss[2]}
           U == (0..n) \ T
<1>1. IsWellFoundedOn(R, Nat)
  BY NatLessThanWellFounded DEF OpToRel
<1> HIDE DEF R
<1> SUFFICES ASSUME U # {} PROVE FALSE
  OBVIOUS
<1>2. U \subseteq Nat
  OBVIOUS
<1> HIDE DEF U
<1>3. PICK x \in U : \A y \in U : ~(<<y, x>> \in R)
  BY <1>1, <1>2, WFMin
<1>4. \A y \in U : x =< y
  <2>1. \A y, z \in U : ~(<<y, z>> \in R) => z =< y
    BY <1>2 DEF R
  <2> QED  BY <1>3, <2>1
<1>5. x - 1 \in 0..(n - 1) /\ x - 1 \notin U
  BY <1>4 DEF U
<1> QED  BY <1>3, <1>5 DEF U

(* The fold of a row, from the left, has a value: MapThenFoldSet goes by     *)
(* recursion over the sets of its places.                                   *)
LEMMA MaxOfPlaces ==
  ASSUME NEW n \in Nat, NEW T \in SUBSET (1..n), T # {}
  PROVE  Max(T) \in T /\ \A y \in T : y =< Max(T)
<1> DEFINE P(k) == T \cap (1..k) # {} => \E x \in T : x =< k /\ \A y \in T \cap (1..k) : y =< x
           D == {k \in 0..n : P(k)}
<1>1. 0 \in D
  OBVIOUS
<1>2. ASSUME NEW k \in 0..(n - 1), k \in D
      PROVE  k + 1 \in D
  <2>1. CASE k + 1 \in T
    <3>1. \A y \in T \cap (1..(k + 1)) : y =< k + 1
      OBVIOUS
    <3> QED  BY <2>1, <3>1
  <2>2. CASE k + 1 \notin T
    <3>1. T \cap (1..(k + 1)) = T \cap (1..k)
      BY <2>2
    <3> QED  BY <1>2, <3>1
  <2> QED  BY <2>1, <2>2
<1> HIDE DEF D
<1>3. n \in D
  BY <1>1, <1>2, UpTo
<1>4. T \cap (1..n) = T
  OBVIOUS
<1>5. \E x \in T : \A y \in T : x >= y
  BY <1>3, <1>4 DEF D
<1> QED  BY <1>5 DEF Max

Folds(g, n, base, F) ==
  \A T \in SUBSET (1..n) : g[T] = IF T = {} THEN base ELSE F[<<g[T \ {Max(T)}], Max(T)>>]

LEMMA FoldExists ==
  ASSUME NEW n \in Nat, NEW V, NEW base \in V, NEW F \in [V \X (1..n) -> V]
  PROVE  \E g \in [SUBSET (1..n) -> V] : Folds(g, n, base, F)
<1> DEFINE Good(k, g) == Folds(g, k, base, F)
           D == {k \in 0..n : \E g \in [SUBSET (1..k) -> V] : Good(k, g)}
<1>1. 0 \in D
  <2> DEFINE g == [T \in SUBSET (1..0) |-> base]
  <2>1. g \in [SUBSET (1..0) -> V]
    OBVIOUS
  <2>2. \A T \in SUBSET (1..0) : T = {}
    OBVIOUS
  <2>3. Good(0, g)
    BY <2>2 DEF Folds
  <2> HIDE DEF g, Good
  <2>4. \E x \in [SUBSET (1..0) -> V] : Good(0, x)
    BY <2>1, <2>3
  <2>5. 0 \in 0..n
    OBVIOUS
  <2> QED  BY <2>4, <2>5
<1>2. ASSUME NEW k \in 0..(n - 1), k \in D
      PROVE  k + 1 \in D
  <2>1. PICK g \in [SUBSET (1..k) -> V] : Good(k, g)
    BY <1>2
  <2> DEFINE h == [T \in SUBSET (1..(k + 1)) |->
                     IF k + 1 \in T THEN F[<<g[T \ {k + 1}], k + 1>>] ELSE g[T]]
  <2>2. \A T \in SUBSET (1..(k + 1)) : T \ {k + 1} \in SUBSET (1..k)
    OBVIOUS
  <2>3. k + 1 \in 1..n
    OBVIOUS
  <2>4. ASSUME NEW T \in SUBSET (1..(k + 1))
        PROVE  h[T] \in V
    <3>1. g[T \ {k + 1}] \in V
      BY <2>2
    <3>2. CASE k + 1 \in T
      BY <2>3, <3>1, <3>2
    <3>3. CASE k + 1 \notin T
      <4>1. T \ {k + 1} = T
        BY <3>3
      <4> QED  BY <3>1, <3>3, <4>1
    <3> QED  BY <3>2, <3>3
  <2>5. h \in [SUBSET (1..(k + 1)) -> V]
    BY <2>4
  <2>6. ASSUME NEW T \in SUBSET (1..(k + 1))
        PROVE  h[T] = IF T = {} THEN base ELSE F[<<h[T \ {Max(T)}], Max(T)>>]
    <3>1. CASE k + 1 \in T
      <4>1. Max(T) = k + 1
        <5>1. k + 1 \in Nat /\ T # {}
          BY <3>1
        <5>2. Max(T) \in T /\ \A y \in T : y =< Max(T)
          BY <5>1, MaxOfPlaces
        <5>3. Max(T) \in 1..(k + 1) /\ k + 1 =< Max(T)
          BY <3>1, <5>2
        <5> QED  BY <5>3
      <4>2. T \ {k + 1} \in SUBSET (1..(k + 1)) /\ k + 1 \notin T \ {k + 1}
        OBVIOUS
      <4>3. h[T \ {k + 1}] = g[T \ {k + 1}]
        BY <4>2
      <4> QED  BY <3>1, <4>1, <4>3
    <3>2. CASE k + 1 \notin T
      <4>1. T \in SUBSET (1..k)
        BY <3>2
      <4>2. CASE T = {}
        BY <2>1, <3>2, <4>1, <4>2 DEF Folds
      <4>3. CASE T # {}
        <5>1. Max(T) \in T
          <6>1. k \in Nat
            OBVIOUS
          <6> QED  BY <4>1, <4>3, <6>1, MaxOfPlaces
        <5>2. T \ {Max(T)} \in SUBSET (1..(k + 1)) /\ k + 1 \notin T \ {Max(T)}
          BY <3>2
        <5>3. h[T \ {Max(T)}] = g[T \ {Max(T)}]
          BY <5>2
        <5> QED  BY <2>1, <3>2, <4>1, <4>3, <5>3 DEF Folds
      <4> QED  BY <4>2, <4>3
    <3> QED  BY <3>1, <3>2
  <2>7. Good(k + 1, h)
    BY <2>6 DEF Folds
  <2> HIDE DEF h, Good
  <2> QED  BY <2>3, <2>5, <2>7
<1> HIDE DEF D
<1>3. n \in D
  BY <1>1, <1>2, UpTo
<1> QED  BY <1>3 DEF D

(* The places up to k, one after the other.                                 *)
LEMMA LastPlace ==
  ASSUME NEW n \in Nat, NEW k \in 1..n
  PROVE  /\ 1..k \in SUBSET (1..n) /\ 1..(k - 1) \in SUBSET (1..n) /\ 1..k # {}
         /\ Max(1..k) = k /\ (1..k) \ {Max(1..k)} = 1..(k - 1)
<1>1. 1..k \in SUBSET (1..n) /\ 1..(k - 1) \in SUBSET (1..n) /\ 1..k # {} /\ k \in 1..k
  OBVIOUS
<1>2. Max(1..k) = k
  <2>1. Max(1..k) \in 1..k /\ \A y \in 1..k : y =< Max(1..k)
    BY <1>1, MaxOfPlaces
  <2>2. k =< Max(1..k)
    BY <1>1, <2>1
  <2> QED  BY <2>1, <2>2
<1> QED  BY <1>1, <1>2

(* Keys takes the elements of a row one after the other.                    *)
LEMMA KeysByStep ==
  ASSUME NEW S, NEW s \in Seq(S)
  PROVE  \E h \in [0..Len(s) -> Seq(S)] :
           /\ h[0] = <<>> /\ Keys(s) = h[Len(s)]
           /\ \A k \in 1..Len(s) :
                h[k] = IF Contains(h[k - 1], s[k]) THEN h[k - 1] ELSE Append(h[k - 1], s[k])
<1> DEFINE n == Len(s)
           F == [p \in Seq(S) \X (1..n) |->
                   IF Contains(p[1], s[p[2]]) THEN p[1] ELSE Append(p[1], s[p[2]])]
           Eq(g) == g = [T \in SUBSET (1..n) |->
                           IF T = {} THEN <<>>
                           ELSE IF Contains(g[T \ {Max(T)}], s[Max(T)]) THEN g[T \ {Max(T)}]
                                ELSE Append(g[T \ {Max(T)}], s[Max(T)])]
<1>1. n \in Nat /\ DOMAIN s = 1..n /\ <<>> \in Seq(S) /\ \A k \in 1..n : s[k] \in S
  OBVIOUS
<1>2. F \in [Seq(S) \X (1..n) -> Seq(S)]
  BY <1>1
<1>3. Keys(s) = (CHOOSE g : Eq(g))[1..n]
  BY <1>1 DEF Keys, FoldLeft, MapThenFoldSet
<1> HIDE DEF n
<1>4. \E x : Eq(x)
  <2>1. PICK g \in [SUBSET (1..n) -> Seq(S)] : Folds(g, n, <<>>, F)
    <3> HIDE DEF F
    <3> QED  BY <1>1, <1>2, FoldExists
  <2>2. ASSUME NEW T \in SUBSET (1..n), T # {}
        PROVE  F[<<g[T \ {Max(T)}], Max(T)>>] =
                 IF Contains(g[T \ {Max(T)}], s[Max(T)]) THEN g[T \ {Max(T)}]
                 ELSE Append(g[T \ {Max(T)}], s[Max(T)])
    <3>1. Max(T) \in 1..n
      BY <1>1, <2>2, MaxOfPlaces
    <3>2. g[T \ {Max(T)}] \in Seq(S)
      OBVIOUS
    <3> QED  BY <3>1, <3>2
  <2>3. Eq(g)
    BY <2>1, <2>2 DEF Folds
  <2> QED  BY <2>3
<1> DEFINE it == CHOOSE x : Eq(x)
<1>7. Eq(it)
  BY <1>4
<1> HIDE DEF it
<1> DEFINE h == [k \in 0..n |-> it[1..k]]
<1>8. h[0] = <<>> /\ Keys(s) = h[n]
  <2>1. it[1..0] = <<>>
    <3>1. 1..0 = {} /\ {} \in SUBSET (1..n)
      OBVIOUS
    <3>2. it[{}] = <<>>
      BY <1>7, <3>1
    <3> QED  BY <3>1, <3>2, Zenon
  <2>2. Keys(s) = it[1..n]
    BY <1>3 DEF it
  <2>3. 0 \in 0..n /\ n \in 0..n
    BY <1>1
  <2> QED  BY <2>1, <2>2, <2>3, Zenon
<1>9. ASSUME NEW k \in 1..n
      PROVE  h[k] = IF Contains(h[k - 1], s[k]) THEN h[k - 1] ELSE Append(h[k - 1], s[k])
  <2>1. /\ 1..k \in SUBSET (1..n) /\ 1..k # {}
        /\ Max(1..k) = k /\ (1..k) \ {Max(1..k)} = 1..(k - 1)
    BY <1>1, LastPlace
  <2>2. k \in 0..n /\ k - 1 \in 0..n
    BY <1>1
  <2> QED  BY <1>7, <2>1, <2>2
<1>10. DOMAIN h = 0..n /\ h = [k \in 0..n |-> h[k]]
  OBVIOUS
<1> HIDE DEF Eq, F, h
<1> DEFINE V == Seq(S)
           D == {k \in 0..n : h[k] \in V}
<1>11. 0 \in D
  <2>1. h[0] \in V
    BY <1>8
  <2> HIDE DEF V
  <2> QED  BY <1>1, <2>1
<1>12. ASSUME NEW k \in 0..(n - 1), k \in D
       PROVE  k + 1 \in D
  <2>1. k + 1 \in 1..n /\ (k + 1) - 1 = k /\ k + 1 \in 0..n
    BY <1>1
  <2>2. h[k] \in V
    <3> HIDE DEF V
    <3> QED  BY <1>12
  <2>3. h[k + 1] = h[k] \/ h[k + 1] = Append(h[k], s[k + 1])
    BY <1>9, <2>1
  <2>4. h[k + 1] \in V
    <3>1. s[k + 1] \in S /\ h[k] \in Seq(S)
      BY <1>1, <2>1, <2>2
    <3>2. Append(h[k], s[k + 1]) \in Seq(S)
      BY <3>1
    <3> QED  BY <2>3, <3>1, <3>2
  <2> HIDE DEF V
  <2> QED  BY <2>1, <2>4
<1> HIDE DEF D
<1>13. \A k \in 0..n : k \in D
  BY <1>1, <1>11, <1>12, UpTo
<1> HIDE DEF V
<1>14. h \in [0..n -> V]
  BY <1>10, <1>13 DEF D
<1> QED  BY <1>8, <1>9, <1>14 DEF n, V

(* FlattenSeq puts the rows of a row one after the other.                   *)
Flattens(f, k, ss) == \A i \in 1..k : f[i] = IF i = 1 THEN ss[i] ELSE f[i - 1] \o ss[i]

LEMMA FlattenExists ==
  ASSUME NEW S, NEW ss \in Seq(Seq(S))
  PROVE  \E f \in [1..Len(ss) -> Seq(S)] : Flattens(f, Len(ss), ss)
<1> DEFINE n == Len(ss)
           V == Seq(S)
           E(k) == \E f \in [1..k -> V] : Flattens(f, k, ss)
           D == {k \in 0..n : E(k)}
<1>1. n \in Nat /\ \A k \in 1..n : ss[k] \in V
  OBVIOUS
<1>2. \A a, b \in V : a \o b \in V
  OBVIOUS
<1> HIDE DEF n, V
<1>3. 0 \in D
  <2>1. [k \in 1..0 |-> {}] \in [1..0 -> V]
    OBVIOUS
  <2>2. Flattens([k \in 1..0 |-> {}], 0, ss)
    BY DEF Flattens
  <2>3. E(0)
    BY <2>1, <2>2
  <2> HIDE DEF E
  <2> QED  BY <1>1, <2>3
<1>4. ASSUME NEW k \in 0..(n - 1), k \in D
      PROVE  k + 1 \in D
  <2>1. PICK f \in [1..k -> V] : Flattens(f, k, ss)
    BY <1>4
  <2> DEFINE new == IF k = 0 THEN ss[1] ELSE f[k] \o ss[k + 1]
             g == [i \in 1..(k + 1) |-> IF i = k + 1 THEN new ELSE f[i]]
  <2>2. new \in V
    <3>1. CASE k = 0
      BY <1>1, <3>1
    <3>2. CASE k # 0
      <4>1. k \in 1..k /\ k + 1 \in 1..n
        BY <1>1, <3>2
      <4>2. f[k] \in V /\ ss[k + 1] \in V
        BY <1>1, <4>1
      <4> QED  BY <1>2, <3>2, <4>2
    <3> QED  BY <3>1, <3>2
  <2> HIDE DEF new
  <2>3. g \in [1..(k + 1) -> V]
    BY <2>2
  <2>4. ASSUME NEW i \in 1..(k + 1)
        PROVE  g[i] = IF i = 1 THEN ss[i] ELSE g[i - 1] \o ss[i]
    <3>1. CASE i = k + 1
      <4>1. CASE k = 0
        BY <3>1, <4>1 DEF new
      <4>2. CASE k # 0
        <5>1. g[i] = new /\ g[i - 1] = f[k]
          BY <3>1, <4>2
        <5>2. new = f[k] \o ss[k + 1]
          BY <4>2 DEF new
        <5>3. i # 1
          BY <3>1, <4>2
        <5> HIDE DEF g
        <5> QED  BY <3>1, <5>1, <5>2, <5>3
      <4> QED  BY <4>1, <4>2
    <3>2. CASE i # k + 1
      <4>1. i \in 1..k /\ g[i] = f[i]
        BY <3>2
      <4>2. f[i] = IF i = 1 THEN ss[i] ELSE f[i - 1] \o ss[i]
        BY <2>1, <4>1 DEF Flattens
      <4>3. i # 1 => g[i - 1] = f[i - 1]
        BY <4>1
      <4> QED  BY <4>1, <4>2, <4>3
    <3> QED  BY <3>1, <3>2
  <2>5. Flattens(g, k + 1, ss)
    BY <2>4 DEF Flattens
  <2> HIDE DEF g
  <2>6. E(k + 1)
    BY <2>3, <2>5
  <2> HIDE DEF E
  <2> QED  BY <1>1, <2>6
<1> HIDE DEF D
<1>5. \A k \in 0..n : k \in D
  BY <1>1, <1>3, <1>4, UpTo
<1>6. n \in D
  BY <1>1, <1>5
<1> QED  BY <1>6 DEF D, n, V

LEMMA FlattenByStep ==
  ASSUME NEW S, NEW ss \in Seq(Seq(S))
  PROVE  \E h \in [0..Len(ss) -> Seq(S)] :
           /\ h[0] = <<>> /\ FlattenSeq(ss) = h[Len(ss)]
           /\ \A k \in 1..Len(ss) : h[k] = h[k - 1] \o ss[k]
<1> DEFINE n == Len(ss)
           V == Seq(S)
           Eq(f) == f = [i \in 1..n |-> IF i = 1 THEN ss[i] ELSE f[i - 1] \o ss[i]]
           it == CHOOSE f : Eq(f)
<1>1. n \in Nat /\ <<>> \in V /\ \A k \in 1..n : ss[k] \in V
  OBVIOUS
<1>2. PICK f \in [1..n -> V] : Flattens(f, n, ss)
  BY FlattenExists
<1>3. FlattenSeq(ss) = IF n = 0 THEN ss ELSE it[n]
  BY DEF FlattenSeq
<1>4. n = 0 => ss = <<>>
  OBVIOUS
<1>5. \A a, b \in V : a \o b \in V
  OBVIOUS
<1>6. \A a \in V : <<>> \o a = a
  OBVIOUS
<1> HIDE DEF n, V
<1>7. Eq(it)
  BY <1>2 DEF Flattens
<1> HIDE DEF it
<1> DEFINE h == [k \in 0..n |-> IF k = 0 THEN <<>> ELSE it[k]]
<1>8. h[0] = <<>> /\ h = [k \in 0..n |-> h[k]]
  BY <1>1
<1>9. FlattenSeq(ss) = h[n]
  BY <1>1, <1>3, <1>4
<1>10. ASSUME NEW k \in 1..n
       PROVE  k - 1 \in 0..n /\ h[k] = IF k = 1 THEN ss[k] ELSE h[k - 1] \o ss[k]
  <2>1. it[k] = IF k = 1 THEN ss[k] ELSE it[k - 1] \o ss[k]
    BY <1>7
  <2>2. k - 1 \in 0..n /\ h[k] = it[k] /\ (k # 1 => h[k - 1] = it[k - 1])
    BY <1>1
  <2> HIDE DEF h, Eq
  <2>3. CASE k = 1
    BY <2>1, <2>2, <2>3
  <2>4. CASE k # 1
    BY <2>1, <2>2, <2>4
  <2> QED  BY <2>2, <2>3, <2>4
<1> HIDE DEF h, Eq
<1>11. ASSUME NEW k \in 1..n
       PROVE  h[k] = h[k - 1] \o ss[k]
  <2>1. CASE k = 1
    <3>1. h[k] = ss[k] /\ ss[k] \in V
      BY <1>1, <1>10, <2>1
    <3>2. <<>> \o ss[k] = ss[k]
      BY <1>6, <3>1
    <3>3. k - 1 = 0
      BY <2>1
    <3>4. h[k - 1] = <<>>
      BY <1>8, <3>3
    <3> QED  BY <3>1, <3>2, <3>4
  <2>2. CASE k # 1
    BY <1>10, <2>2
  <2> QED  BY <2>1, <2>2
<1> DEFINE D == {k \in 0..n : h[k] \in V}
<1>12. 0 \in D
  BY <1>1, <1>8
<1>13. ASSUME NEW k \in 0..(n - 1), k \in D
       PROVE  k + 1 \in D
  <2>1. k + 1 \in 1..n /\ (k + 1) - 1 = k /\ k + 1 \in 0..n
    BY <1>1
  <2> QED  BY <1>1, <1>5, <1>11, <1>13, <2>1
<1> HIDE DEF D
<1>14. \A k \in 0..n : k \in D
  BY <1>1, <1>12, <1>13, UpTo
<1>15. h \in [0..n -> V]
  BY <1>8, <1>14 DEF D
<1> QED  BY <1>8, <1>9, <1>11, <1>15 DEF n, V

(* Two rows, one after the other.                   *)
LEMMA RangeOfBoth ==
  ASSUME NEW S, NEW a \in Seq(S), NEW b \in Seq(S)
  PROVE  Range(a \o b) = Range(a) \cup Range(b)
<1> DEFINE row == a \o b
<1>1. /\ Len(a) \in Nat /\ Len(b) \in Nat /\ Len(row) = Len(a) + Len(b)
      /\ \A i \in 1..Len(a) : row[i] = a[i]
  OBVIOUS
<1>2. \A i \in 1..Len(b) : row[Len(a) + i] = b[i]
  OBVIOUS
<1>3. \A i \in 1..Len(row) : i \in 1..Len(a) \/ \E j \in 1..Len(b) : i = Len(a) + j
  <2> HIDE DEF row
  <2> SUFFICES ASSUME NEW i \in 1..Len(row), i \notin 1..Len(a)
               PROVE  \E j \in 1..Len(b) : i = Len(a) + j
    OBVIOUS
  <2>1. i - Len(a) \in 1..Len(b) /\ i = Len(a) + (i - Len(a))
    BY <1>1
  <2> QED  BY <2>1
<1>4. /\ \A i \in 1..Len(a) : i \in 1..Len(row)
      /\ \A i \in 1..Len(b) : Len(a) + i \in 1..Len(row)
  <2> HIDE DEF row
  <2> QED  BY <1>1
<1> HIDE DEF row
<1>5. Range(row) = Range(a) \cup Range(b)
  <2>1. DOMAIN row = 1..Len(row) /\ DOMAIN a = 1..Len(a) /\ DOMAIN b = 1..Len(b)
    BY DEF row
  <2>2. ASSUME NEW i \in 1..Len(row)
        PROVE  row[i] \in Range(a) \cup Range(b)
    BY <1>1, <1>2, <1>3, <2>1 DEF Range
  <2>3. \A x : x \in Range(a) \cup Range(b) => x \in Range(row)
    BY <1>1, <1>2, <1>4, <2>1 DEF Range
  <2> QED  BY <2>1, <2>2, <2>3 DEF Range
<1> QED  BY <1>5 DEF row

(* A row of keys has what the row has, and nothing else.                    *)
LEMMA KeysRange ==
  ASSUME NEW S, NEW s \in Seq(S)
  PROVE  Keys(s) \in Seq(S) /\ Range(Keys(s)) = Range(s)
<1> DEFINE n == Len(s)
           Until(k) == {s[j] : j \in 1..k}
<1>1. PICK h \in [0..n -> Seq(S)] :
        /\ h[0] = <<>> /\ Keys(s) = h[n]
        /\ \A k \in 1..n : h[k] = IF Contains(h[k - 1], s[k]) THEN h[k - 1] ELSE Append(h[k - 1], s[k])
  BY KeysByStep
<1>2. n \in Nat /\ DOMAIN s = 1..n /\ \A k \in 1..n : s[k] \in S
  OBVIOUS
<1> HIDE DEF n
<1> DEFINE D == {k \in 0..n : Range(h[k]) = Until(k)}
<1>3. \A k \in 0..n : h[k] \in Seq(S)
  OBVIOUS
<1>4. 0 \in D
  <2>1. Range(h[0]) = {}
    BY <1>1 DEF Range
  <2>2. Until(0) = {} /\ 0 \in 0..n
    BY <1>2
  <2> QED  BY <2>1, <2>2
<1>5. ASSUME NEW k \in 0..(n - 1), k \in D
      PROVE  k + 1 \in D
  <2> DEFINE a == h[k]
             x == s[k + 1]
  <2>1. k + 1 \in 1..n /\ (k + 1) - 1 = k /\ k + 1 \in 0..n /\ k \in 0..n
    BY <1>2
  <2>2. a \in Seq(S) /\ x \in S
    BY <1>2, <1>3, <2>1
  <2>3. h[k + 1] = IF Contains(a, x) THEN a ELSE Append(a, x)
    BY <1>1, <2>1
  <2>4. Until(k + 1) = Until(k) \cup {x} /\ Range(a) = Until(k)
    <3>1. 1..(k + 1) = (1..k) \cup {k + 1}
      BY <1>2
    <3> QED  BY <1>5, <3>1
  <2> HIDE DEF a, x, Until
  <2>5. Contains(a, x) <=> x \in Range(a)
    BY <2>2 DEF Contains, Range
  <2>6. Range(Append(a, x)) = Range(a) \cup {x}
    <3>1. /\ DOMAIN Append(a, x) = 1..(Len(a) + 1) /\ DOMAIN a = 1..Len(a) /\ Len(a) \in Nat
          /\ \A i \in 1..(Len(a) + 1) : Append(a, x)[i] = IF i = Len(a) + 1 THEN x ELSE a[i]
      BY <2>2
    <3> QED  BY <3>1 DEF Range
  <2>7. Range(h[k + 1]) = Until(k + 1)
    <3>1. CASE Contains(a, x)
      BY <2>3, <2>4, <2>5, <3>1
    <3>2. CASE ~Contains(a, x)
      BY <2>3, <2>4, <2>6, <3>2
    <3> QED  BY <3>1, <3>2
  <2> QED  BY <2>1, <2>7
<1> HIDE DEF D
<1>6. n \in D
  <2>1. \A k \in 0..n : k \in D
    BY <1>2, <1>4, <1>5, UpTo
  <2> QED  BY <1>2, <2>1
<1>7. Until(n) = Range(s)
  BY <1>2 DEF Range
<1> HIDE DEF Until
<1>8. Range(h[n]) = Until(n) /\ h[n] \in Seq(S)
  BY <1>2, <1>3, <1>6 DEF D
<1> QED  BY <1>1, <1>7, <1>8

(* Nothing comes after the keys once a row repeats itself.                  *)
LEMMA KeysOfStart ==
  ASSUME NEW S, NEW s \in Seq(S), NEW p \in 0..Len(s),
         \A i, j \in 1..p : s[i] = s[j] => i = j,
         \A i \in (p + 1)..Len(s) : \E j \in 1..p : s[i] = s[j]
  PROVE  Keys(s) = SubSeq(s, 1, p)
<1> DEFINE n == Len(s)
           first(k) == IF k =< p THEN k ELSE p
<1>1. PICK h \in [0..n -> Seq(S)] :
        /\ h[0] = <<>> /\ Keys(s) = h[n]
        /\ \A k \in 1..n : h[k] = IF Contains(h[k - 1], s[k]) THEN h[k - 1] ELSE Append(h[k - 1], s[k])
  BY KeysByStep
<1>2. n \in Nat /\ p \in 0..n /\ \A k \in 1..n : s[k] \in S
  OBVIOUS
<1>3. \A k \in 0..n : h[k] \in Seq(S)
  OBVIOUS
<1> DEFINE Same(a, k) == Len(a) = first(k) /\ \A i \in 1..first(k) : a[i] = s[i]
           D == {k \in 0..n : Same(h[k], k)}
<1>4. 0 \in D
  BY <1>1, <1>2
<1>5. ASSUME NEW k \in 0..(n - 1), k \in D
      PROVE  k + 1 \in D
  <2> DEFINE a == h[k]
             x == s[k + 1]
  <2>1. k + 1 \in 1..n /\ (k + 1) - 1 = k /\ k + 1 \in 0..n /\ k \in 0..n
    BY <1>2
  <2>2. a \in Seq(S) /\ x \in S
    BY <1>2, <1>3, <2>1
  <2>3. h[k + 1] = IF Contains(a, x) THEN a ELSE Append(a, x)
    BY <1>1, <2>1
  <2>4. Same(a, k)
    BY <1>5
  <2> HIDE DEF a
  <2>5. Same(h[k + 1], k + 1)
    <3>1. CASE k < p
      <4>1. Len(a) = k /\ \A i \in 1..k : a[i] = s[i]
        BY <1>2, <2>4, <3>1
      <4>2. \A i \in 1..k : s[i] # x
        BY <1>2, <3>1
      <4>3. ~Contains(a, x)
        BY <4>1, <4>2 DEF Contains
      <4>4. h[k + 1] = Append(a, x)
        BY <2>3, <4>3
      <4>5. Len(Append(a, x)) = k + 1 /\ \A i \in 1..(k + 1) : Append(a, x)[i] = s[i]
        <5> HIDE DEF x
        <5>1. /\ Len(Append(a, x)) = Len(a) + 1
              /\ \A i \in 1..(Len(a) + 1) : Append(a, x)[i] = IF i = Len(a) + 1 THEN x ELSE a[i]
          BY <2>2
        <5> QED  BY <4>1, <5>1 DEF x
      <4>6. first(k + 1) = k + 1
        BY <1>2, <3>1
      <4> QED  BY <4>4, <4>5, <4>6
    <3>2. CASE ~(k < p)
      <4>1. Len(a) = p /\ \A i \in 1..p : a[i] = s[i]
        BY <1>2, <2>4, <3>2
      <4>2. \E j \in 1..p : x = s[j]
        BY <1>2, <2>1, <3>2
      <4>3. Contains(a, x)
        BY <4>1, <4>2 DEF Contains
      <4>4. first(k + 1) = p
        BY <1>2, <3>2
      <4> QED  BY <2>3, <4>1, <4>3, <4>4
    <3> QED  BY <3>1, <3>2
  <2> HIDE DEF Same
  <2> QED  BY <2>1, <2>5
<1> HIDE DEF D
<1>6. n \in D
  <2>1. \A k \in 0..n : k \in D
    BY <1>2, <1>4, <1>5, UpTo
  <2> QED  BY <1>2, <2>1
<1>7. h[n] \in Seq(S) /\ Same(h[n], n)
  BY <1>2, <1>3, <1>6 DEF D
<1>8. first(n) = p
  BY <1>2
<1>9. SubSeq(s, 1, p) \in Seq(S) /\ Len(SubSeq(s, 1, p)) = p /\ \A i \in 1..p : SubSeq(s, 1, p)[i] = s[i]
  BY <1>2
<1> DEFINE b == SubSeq(s, 1, p)
<1> HIDE DEF b
<1>10. /\ h[n] \in Seq(S) /\ b \in Seq(S)
       /\ Len(h[n]) = p /\ Len(b) = p /\ \A i \in 1..p : h[n][i] = b[i]
  BY <1>7, <1>8, <1>9 DEF b
<1>11. h[n] = b
  BY <1>10, SeqEqual
<1> QED  BY <1>1, <1>11 DEF b

(* What a flattened row of rows has.                                        *)
LEMMA FlattenRange ==
  ASSUME NEW S, NEW ss \in Seq(Seq(S))
  PROVE  /\ FlattenSeq(ss) \in Seq(S)
         /\ Range(FlattenSeq(ss)) = UNION {Range(ss[k]) : k \in 1..Len(ss)}
<1> DEFINE n == Len(ss)
           Until(k) == UNION {Range(ss[j]) : j \in 1..k}
<1>1. PICK h \in [0..n -> Seq(S)] :
        h[0] = <<>> /\ FlattenSeq(ss) = h[n] /\ \A k \in 1..n : h[k] = h[k - 1] \o ss[k]
  BY FlattenByStep
<1>2. n \in Nat /\ \A k \in 1..n : ss[k] \in Seq(S)
  OBVIOUS
<1>3. \A k \in 0..n : h[k] \in Seq(S)
  OBVIOUS
<1> HIDE DEF n
<1> DEFINE D == {k \in 0..n : Range(h[k]) = Until(k)}
<1>4. 0 \in D
  <2>1. Range(h[0]) = {}
    BY <1>1 DEF Range
  <2>2. Until(0) = {} /\ 0 \in 0..n
    BY <1>2
  <2> QED  BY <2>1, <2>2
<1>5. ASSUME NEW k \in 0..(n - 1), k \in D
      PROVE  k + 1 \in D
  <2>1. k + 1 \in 1..n /\ (k + 1) - 1 = k /\ k + 1 \in 0..n /\ k \in 0..n
    BY <1>2
  <2>2. h[k] \in Seq(S) /\ ss[k + 1] \in Seq(S) /\ h[k + 1] = h[k] \o ss[k + 1]
    BY <1>1, <1>2, <1>3, <2>1
  <2>3. Range(h[k + 1]) = Range(h[k]) \cup Range(ss[k + 1])
    BY <2>2, RangeOfBoth
  <2>4. Until(k + 1) = Until(k) \cup Range(ss[k + 1])
    <3>1. 1..(k + 1) = (1..k) \cup {k + 1}
      BY <1>2
    <3> QED  BY <3>1
  <2>5. Range(h[k]) = Until(k)
    BY <1>5
  <2> HIDE DEF Until
  <2> QED  BY <2>1, <2>3, <2>4, <2>5
<1> HIDE DEF D
<1>6. n \in D
  <2>1. \A k \in 0..n : k \in D
    BY <1>2, <1>4, <1>5, UpTo
  <2> QED  BY <1>2, <2>1
<1> HIDE DEF Until
<1>7. Range(h[n]) = Until(n) /\ h[n] \in Seq(S)
  BY <1>2, <1>3, <1>6 DEF D
<1> QED  BY <1>1, <1>7 DEF n, Until

(* A flattened row of rows begins with the first.                           *)
LEMMA FlattenStart ==
  ASSUME NEW S, NEW ss \in Seq(Seq(S)), Len(ss) > 0
  PROVE  /\ Len(ss[1]) =< Len(FlattenSeq(ss))
         /\ \A i \in 1..Len(ss[1]) : FlattenSeq(ss)[i] = ss[1][i]
<1> DEFINE n == Len(ss)
           a == ss[1]
           Starts(b) == Len(a) =< Len(b) /\ \A i \in 1..Len(a) : b[i] = a[i]
<1>1. PICK h \in [0..n -> Seq(S)] :
        h[0] = <<>> /\ FlattenSeq(ss) = h[n] /\ \A k \in 1..n : h[k] = h[k - 1] \o ss[k]
  BY FlattenByStep
<1>2. n \in Nat \ {0} /\ \A k \in 1..n : ss[k] \in Seq(S)
  OBVIOUS
<1>3. \A k \in 0..n : h[k] \in Seq(S)
  OBVIOUS
<1> HIDE DEF n
<1> DEFINE D == {k \in 0..n : k = 0 \/ Starts(h[k])}
<1>4. 0 \in D
  BY <1>2
<1>5. ASSUME NEW k \in 0..(n - 1), k \in D
      PROVE  k + 1 \in D
  <2>1. k + 1 \in 1..n /\ (k + 1) - 1 = k /\ k + 1 \in 0..n /\ k \in 0..n /\ 1 \in 1..n
    BY <1>2
  <2>2. h[k] \in Seq(S) /\ ss[k + 1] \in Seq(S) /\ a \in Seq(S) /\ h[k + 1] = h[k] \o ss[k + 1]
    BY <1>1, <1>2, <1>3, <2>1
  <2>3. CASE k = 0
    <3>1. h[k + 1] = <<>> \o a
      <4>1. h[k] = <<>>
        BY <1>1, <2>3
      <4>2. ss[k + 1] = a
        BY <2>3
      <4> QED  BY <2>2, <4>1, <4>2
    <3>2. <<>> \o a = a
      BY <2>2
    <3> QED  BY <2>1, <2>2, <3>1, <3>2
  <2>4. CASE k # 0
    <3> DEFINE b == h[k]
               c == ss[k + 1]
    <3>1. Starts(b)
      BY <1>5, <2>4
    <3> HIDE DEF a, b, c
    <3>2. Starts(b \o c)
      <4>1. /\ b \in Seq(S) /\ c \in Seq(S) /\ a \in Seq(S)
        BY <2>2 DEF b, c
      <4>2. /\ Len(b \o c) = Len(b) + Len(c)
            /\ \A i \in 1..Len(b) : (b \o c)[i] = b[i]
        BY <4>1
      <4>3. Len(a) \in Nat /\ Len(b) \in Nat /\ Len(c) \in Nat
        BY <4>1
      <4> QED  BY <3>1, <4>2, <4>3
    <3>3. Starts(h[k + 1])
      BY <2>2, <3>2 DEF b, c
    <3> HIDE DEF Starts
    <3> QED  BY <2>1, <3>3
  <2> QED  BY <2>3, <2>4
<1> HIDE DEF D
<1>6. n \in D
  <2>1. \A k \in 0..n : k \in D
    BY <1>2, <1>4, <1>5, UpTo
  <2> QED  BY <1>2, <2>1
<1> HIDE DEF Starts
<1>7. Starts(h[n])
  BY <1>2, <1>6 DEF D
<1> QED  BY <1>1, <1>7 DEF n, Starts

(* A flattened row of rows of one element each.                             *)
LEMMA FlattenSingles ==
  ASSUME NEW S, NEW s \in Seq(S)
  PROVE  FlattenSeq([k \in 1..Len(s) |-> <<s[k]>>]) = s
<1> DEFINE n == Len(s)
           ss == [k \in 1..n |-> <<s[k]>>]
<1>1. n \in Nat /\ \A k \in 1..n : s[k] \in S
  OBVIOUS
<1>2. ss \in Seq(Seq(S)) /\ Len(ss) = n /\ \A k \in 1..n : ss[k] = <<s[k]>>
  <2>1. \A k \in 1..n : <<s[k]>> \in Seq(S)
    BY <1>1
  <2> DEFINE V == Seq(S)
  <2>2. ss \in [1..n -> V]
    BY <2>1
  <2> HIDE DEF V
  <2>3. ss \in Seq(V) /\ Len(ss) = n
    BY <1>1, <2>2, SeqDef, LenProperties
  <2> QED  BY <2>3 DEF V
<1> HIDE DEF ss
<1>3. PICK h \in [0..n -> Seq(S)] :
        h[0] = <<>> /\ FlattenSeq(ss) = h[n] /\ \A k \in 1..n : h[k] = h[k - 1] \o ss[k]
  <2> HIDE DEF n
  <2>1. \E h \in [0..Len(ss) -> Seq(S)] :
          h[0] = <<>> /\ FlattenSeq(ss) = h[Len(ss)] /\ \A k \in 1..Len(ss) : h[k] = h[k - 1] \o ss[k]
    BY <1>2, FlattenByStep, Zenon
  <2>2. Len(ss) = n
    BY <1>2
  <2> QED  BY <2>1, <2>2, Zenon
<1>4. \A k \in 0..n : h[k] \in Seq(S)
  OBVIOUS
<1> HIDE DEF n
<1> DEFINE Same(a, k) == Len(a) = k /\ \A i \in 1..k : a[i] = s[i]
           D == {k \in 0..n : Same(h[k], k)}
<1>5. 0 \in D
  BY <1>1, <1>3
<1>6. ASSUME NEW k \in 0..(n - 1), k \in D
      PROVE  k + 1 \in D
  <2> DEFINE a == h[k]
             x == s[k + 1]
  <2>1. k + 1 \in 1..n /\ (k + 1) - 1 = k /\ k + 1 \in 0..n /\ k \in 0..n
    BY <1>1
  <2>2. a \in Seq(S) /\ x \in S /\ h[k + 1] = a \o <<x>>
    BY <1>1, <1>2, <1>3, <1>4, <2>1
  <2>3. Same(a, k)
    BY <1>6
  <2> HIDE DEF a
  <2>4. Same(a \o <<x>>, k + 1)
    <3> HIDE DEF x
    <3>1. /\ Len(a \o <<x>>) = Len(a) + 1
          /\ \A i \in 1..(Len(a) + 1) : (a \o <<x>>)[i] = IF i = Len(a) + 1 THEN x ELSE a[i]
      BY <2>2
    <3> QED  BY <2>3, <3>1 DEF x
  <2> HIDE DEF Same
  <2> QED  BY <2>1, <2>2, <2>4
<1> HIDE DEF D
<1>7. n \in D
  <2>1. \A k \in 0..n : k \in D
    BY <1>1, <1>5, <1>6, UpTo
  <2> QED  BY <1>1, <2>1
<1>8. h[n] \in Seq(S) /\ Same(h[n], n)
  BY <1>1, <1>4, <1>7 DEF D
<1>9. h[n] = s
  BY <1>8, SeqEqual DEF n
<1> QED  BY <1>3, <1>9 DEF ss, n

(* Total adds up the numbers of a row.                                      *)
LEMMA TotalByStep ==
  ASSUME NEW s \in Seq(Nat)
  PROVE  \E h \in [0..Len(s) -> Nat] :
           h[0] = 0 /\ Total(s) = h[Len(s)] /\ \A k \in 1..Len(s) : h[k] = h[k - 1] + s[k]
<1> DEFINE n == Len(s)
           F == [p \in Nat \X (1..n) |-> p[1] + s[p[2]]]
           Eq(g) == g = [T \in SUBSET (1..n) |->
                           IF T = {} THEN 0 ELSE g[T \ {Max(T)}] + s[Max(T)]]
<1>1. n \in Nat /\ DOMAIN s = 1..n /\ \A k \in 1..n : s[k] \in Nat
  OBVIOUS
<1>2. F \in [Nat \X (1..n) -> Nat]
  BY <1>1
<1>3. Total(s) = (CHOOSE g : Eq(g))[1..n]
  BY <1>1 DEF Total, FoldLeft, MapThenFoldSet
<1> HIDE DEF n
<1>4. \E x : Eq(x)
  <2>1. PICK g \in [SUBSET (1..n) -> Nat] : Folds(g, n, 0, F)
    <3> HIDE DEF F
    <3> QED  BY <1>1, <1>2, FoldExists
  <2>2. ASSUME NEW T \in SUBSET (1..n), T # {}
        PROVE  F[<<g[T \ {Max(T)}], Max(T)>>] = g[T \ {Max(T)}] + s[Max(T)]
    <3>1. Max(T) \in 1..n
      BY <1>1, <2>2, MaxOfPlaces
    <3>2. g[T \ {Max(T)}] \in Nat
      OBVIOUS
    <3> QED  BY <3>1, <3>2
  <2>3. Eq(g)
    BY <2>1, <2>2 DEF Folds
  <2> QED  BY <2>3
<1> DEFINE it == CHOOSE x : Eq(x)
<1>5. Eq(it)
  BY <1>4
<1> HIDE DEF it
<1> DEFINE h == [k \in 0..n |-> it[1..k]]
<1>6. h[0] = 0 /\ Total(s) = h[n]
  <2>1. it[1..0] = 0
    <3>1. 1..0 = {} /\ {} \in SUBSET (1..n)
      OBVIOUS
    <3>2. it[{}] = 0
      BY <1>5, <3>1
    <3> QED  BY <3>1, <3>2, Zenon
  <2>2. Total(s) = it[1..n]
    BY <1>3 DEF it
  <2>3. 0 \in 0..n /\ n \in 0..n
    BY <1>1
  <2> QED  BY <2>1, <2>2, <2>3, Zenon
<1>7. ASSUME NEW k \in 1..n
      PROVE  h[k] = h[k - 1] + s[k]
  <2>1. /\ 1..k \in SUBSET (1..n) /\ 1..k # {}
        /\ Max(1..k) = k /\ (1..k) \ {Max(1..k)} = 1..(k - 1)
    BY <1>1, LastPlace
  <2>2. k \in 0..n /\ k - 1 \in 0..n
    BY <1>1
  <2> QED  BY <1>5, <2>1, <2>2
<1>8. DOMAIN h = 0..n /\ h = [k \in 0..n |-> h[k]]
  OBVIOUS
<1> HIDE DEF Eq, F, h
<1> DEFINE D == {k \in 0..n : h[k] \in Nat}
<1>9. 0 \in D
  BY <1>1, <1>6
<1>10. ASSUME NEW k \in 0..(n - 1), k \in D
       PROVE  k + 1 \in D
  <2>1. k + 1 \in 1..n /\ (k + 1) - 1 = k /\ k + 1 \in 0..n
    BY <1>1
  <2> QED  BY <1>1, <1>7, <1>10, <2>1
<1> HIDE DEF D
<1>11. \A k \in 0..n : k \in D
  BY <1>1, <1>9, <1>10, UpTo
<1>12. h \in [0..n -> Nat]
  BY <1>8, <1>11 DEF D
<1> QED  BY <1>6, <1>7, <1>12 DEF n

(* A total of ones is how many there are.                                   *)
LEMMA TotalOfOnes ==
  ASSUME NEW n \in Nat, NEW s \in Seq(Nat), Len(s) = n, \A k \in 1..n : s[k] = 1
  PROVE  Total(s) = n
<1>1. PICK h \in [0..n -> Nat] :
        h[0] = 0 /\ Total(s) = h[n] /\ \A k \in 1..n : h[k] = h[k - 1] + s[k]
  BY TotalByStep
<1> DEFINE D == {k \in 0..n : h[k] = k}
<1>2. 0 \in D
  BY <1>1
<1>3. ASSUME NEW k \in 0..(n - 1), k \in D
      PROVE  k + 1 \in D
  <2>1. k + 1 \in 1..n /\ (k + 1) - 1 = k /\ k + 1 \in 0..n
    OBVIOUS
  <2> QED  BY <1>1, <1>3, <2>1
<1> HIDE DEF D
<1>4. n \in D
  <2>1. \A k \in 0..n : k \in D
    BY <1>2, <1>3, UpTo
  <2> QED  BY <2>1
<1> QED  BY <1>1, <1>4 DEF D

(* Those that have a head, by their places (inputs_index).                  *)
LEMMA OwnersOf ==
  ASSUME NEW rs, Len(rs) \in Nat, NEW name
  PROVE  /\ Owners(rs, name) \in Seq(1..Len(rs))
         /\ Range(Owners(rs, name)) = {i \in 1..Len(rs) : name \in Names(rs[i].inputs)}
         /\ (\A i \in 1..Len(rs) : name \in Names(rs[i].inputs))
              => Owners(rs, name) = [i \in 1..Len(rs) |-> i]
<1> DEFINE n == Len(rs)
           Has(i) == name \in Names(rs[i].inputs)
           ss == [i \in 1..n |-> IF Has(i) THEN <<i>> ELSE <<>>]
<1>1. Owners(rs, name) = FlattenSeq(ss)
  BY DEF Owners
<1> HIDE DEF n, Has
<1>2. n \in Nat
  BY DEF n
<1>3. ss \in Seq(Seq(1..n)) /\ Len(ss) = n /\ \A i \in 1..n : Range(ss[i]) = IF Has(i) THEN {i} ELSE {}
  <2> DEFINE V == Seq(1..n)
  <2>1. \A i \in 1..n : <<i>> \in V /\ <<>> \in V /\ Range(<<i>>) = {i} /\ Range(<<>>) = {}
    BY DEF Range
  <2> HIDE DEF V
  <2>2. ss \in [1..n -> V]
    BY <2>1
  <2>3. ss \in Seq(V) /\ Len(ss) = n
    <3> HIDE DEF ss
    <3> QED  BY <1>2, <2>2, SeqDef, LenProperties
  <2>4. \A i \in 1..n : Range(ss[i]) = IF Has(i) THEN {i} ELSE {}
    BY <2>1
  <2> QED  BY <2>3, <2>4 DEF V
<1>4. /\ FlattenSeq(ss) \in Seq(1..n)
      /\ Range(FlattenSeq(ss)) = UNION {Range(ss[k]) : k \in 1..Len(ss)}
  <2> HIDE DEF ss
  <2> QED  BY <1>3, FlattenRange
<1>5. Range(FlattenSeq(ss)) = {i \in 1..n : Has(i)}
  <2> HIDE DEF ss
  <2>1. ASSUME NEW x \in Range(FlattenSeq(ss))
        PROVE  x \in {i \in 1..n : Has(i)}
    <3>1. PICK k \in 1..n : x \in Range(ss[k])
      BY <1>3, <1>4
    <3>2. Has(k) /\ x = k
      BY <1>3, <3>1
    <3> QED  BY <3>2
  <2>2. ASSUME NEW x \in 1..n, Has(x)
        PROVE  x \in Range(FlattenSeq(ss))
    BY <1>3, <1>4, <2>2
  <2> QED  BY <2>1, <2>2
<1>6. ASSUME \A i \in 1..n : Has(i)
      PROVE  FlattenSeq(ss) = [i \in 1..n |-> i]
  <2> DEFINE s == [i \in 1..n |-> i]
  <2>1. s \in Seq(1..n) /\ Len(s) = n /\ \A i \in 1..n : s[i] = i
    BY <1>2
  <2>2. ss = [k \in 1..n |-> <<s[k]>>]
    BY <1>6
  <2> HIDE DEF s, ss
  <2>3. FlattenSeq([k \in 1..Len(s) |-> <<s[k]>>]) = s
    BY <2>1, FlattenSingles
  <2> QED  BY <2>1, <2>2, <2>3 DEF s
<1> QED  BY <1>1, <1>4, <1>5, <1>6 DEF n, Has

-----------------------------------------------------------------------------
(* A tensor, and what it keeps of another on its way.                       *)
IsTensor(t) ==
  t = [name |-> t.name, datatype |-> t.datatype, shape |-> t.shape, data |-> t.data,
       contentType |-> t.contentType, parameter |-> t.parameter]
Alike(t, u) ==
  /\ t.name = u.name /\ t.datatype = u.datatype /\ t.shape = u.shape
  /\ t.contentType = u.contentType /\ t.parameter = u.parameter

(* Over the wire a tensor keeps its place and all but its data, which may    *)
(* come out of the raw contents (InferInputTensorConverter, inject_raw).    *)
LEMMA Wired ==
  ASSUME NEW n \in Nat, NEW ts, ts = [k \in 1..n |-> ts[k]], \A k \in 1..n : IsTensor(ts[k]),
         NEW id, NEW raw
  PROVE  LET got == OfWire(ToWire(id, ts, raw))
         IN  /\ got = [k \in 1..n |-> got[k]] /\ Len(got) = n
             /\ \A k \in 1..n : IsTensor(got[k]) /\ Alike(got[k], ts[k])
<1> DEFINE msg == ToWire(id, ts, raw)
           rest == WithoutData(ts, raw)
           us == [k \in 1..n |-> TensorOfWire(TensorToWire(rest[k]))]
<1>1. Len(ts) = n
  OBVIOUS
<1>2. msg.tensors = [k \in 1..n |-> TensorToWire(rest[k])]
  BY <1>1 DEF ToWire
<1>3. \A k \in 1..n : rest[k] = IF ts[k].name \in raw THEN [ts[k] EXCEPT !.data = <<>>] ELSE ts[k]
  BY <1>1 DEF WithoutData
<1> HIDE DEF rest, msg
<1>4. ASSUME NEW k \in 1..n
      PROVE  Alike(rest[k], ts[k])
  <2>1. IsTensor(ts[k])
    OBVIOUS
  <2>2. CASE ts[k].name \in raw
    <3>1. rest[k] = [ts[k] EXCEPT !.data = <<>>]
      BY <1>3, <2>2
    <3> QED  BY <2>1, <3>1 DEF Alike, IsTensor
  <2>3. CASE ts[k].name \notin raw
    BY <1>3, <2>3 DEF Alike
  <2> QED  BY <2>2, <2>3
<1>5. Len(msg.tensors) = n /\ \A k \in 1..n : msg.tensors[k] = TensorToWire(rest[k])
  BY <1>2
<1>6. [i \in 1..Len(msg.tensors) |-> TensorOfWire(msg.tensors[i])] = us
  BY <1>5
<1>7. OfWire(msg) = IF msg.raw = <<>> THEN us ELSE InjectRaw(us, msg.raw)
  BY <1>6 DEF OfWire
<1>8. ASSUME NEW k \in 1..n
      PROVE  IsTensor(us[k]) /\ Alike(us[k], ts[k])
  <2>1. IsTensor(us[k])
    BY DEF IsTensor, TensorOfWire
  <2>2. Alike(us[k], rest[k])
    BY DEF Alike, TensorOfWire, TensorToWire
  <2> HIDE DEF us
  <2> QED  BY <1>4, <2>1, <2>2 DEF Alike
<1>9. Len(us) = n /\ us = [k \in 1..n |-> us[k]]
  OBVIOUS
<1> HIDE DEF us
<1>10. CASE msg.raw = <<>>
  BY <1>7, <1>8, <1>9, <1>10 DEF msg
<1>11. CASE msg.raw # <<>>
  <2> DEFINE got == InjectRaw(us, msg.raw)
             raws(k) == msg.raw[Cardinality({j \in 1..k : us[j].data = <<>>})]
             new(k) == IF us[k].data # <<>> THEN us[k]
                       ELSE [us[k] EXCEPT !.data = Unpack(us[k], raws(k))]
  <2>1. /\ got = [k \in 1..n |-> got[k]] /\ Len(got) = n
        /\ \A k \in 1..n : \/ got[k] = us[k]
                           \/ \E d : got[k] = [us[k] EXCEPT !.data = d]
    <3>1. got = [k \in 1..n |-> new(k)]
      BY <1>9 DEF InjectRaw
    <3> HIDE DEF got
    <3>2. got = [k \in 1..n |-> got[k]] /\ Len(got) = n
      BY <3>1
    <3>3. \A k \in 1..n : got[k] = new(k)
      BY <3>1
    <3> QED  BY <3>2, <3>3
  <2> HIDE DEF got
  <2>2. ASSUME NEW k \in 1..n
        PROVE  IsTensor(got[k]) /\ Alike(got[k], ts[k])
    <3>1. CASE got[k] = us[k]
      BY <1>8, <3>1
    <3>2. CASE got[k] # us[k]
      <4>1. PICK d : got[k] = [us[k] EXCEPT !.data = d]
        BY <2>1, <3>2
      <4>2. IsTensor(us[k]) /\ Alike(us[k], ts[k])
        BY <1>8
      <4> QED  BY <4>1, <4>2 DEF IsTensor, Alike
    <3> QED  BY <3>1, <3>2
  <2>3. OfWire(msg) = got
    BY <1>7, <1>11 DEF got
  <2> QED  BY <2>1, <2>2, <2>3 DEF msg
<1> QED  BY <1>10, <1>11

(* What a client puts under a head becomes a tensor with its name and its    *)
(* parameter, and a shape of one dimension at least (encode_input).         *)
LEMMA InputTensor ==
  ASSUME NEW h \in ClientInputs
  PROVE  LET t == EncodeInput(h)
         IN  /\ IsTensor(t) /\ t.name = h.name /\ t.parameter = h.parameter
             /\ t.shape \in Seq(Nat) /\ Len(t.shape) > 0
<1> DEFINE e == Encode(h.name, h.payload)
<1>1. h.payload \in Payloads
  BY DEF ClientInputs
<1>2. e = [name |-> h.name, datatype |-> e.datatype, shape |-> e.shape, data |-> e.data,
           contentType |-> e.contentType, parameter |-> "None"]
  BY DEF Encode, EncodeArray, EncodeStrings, Tensor
<1>3. e.shape \in Seq(Nat) /\ Len(e.shape) > 0
  <2>1. CASE h.payload.kind = "array"
    <3>1. e.shape = InjectBatchDimension(h.payload.shape)
      BY <2>1 DEF Encode, EncodeArray, Tensor
    <3>2. h.payload.shape \in Seq(Nat)
      BY <1>1, <2>1 DEF Payloads
    <3> HIDE DEF e
    <3> QED  BY <3>1, <3>2 DEF InjectBatchDimension
  <2>2. CASE h.payload.kind # "array"
    <3>1. e.shape = <<Len(h.payload.data), 1>>
      BY <2>2 DEF Encode, EncodeStrings, Tensor
    <3>2. Len(h.payload.data) \in Nat
      BY <1>1, <2>2 DEF Payloads
    <3> HIDE DEF e
    <3> QED  BY <3>1, <3>2
  <2> QED  BY <2>1, <2>2
<1>4. EncodeInput(h) = [e EXCEPT !.contentType = IF h.tagged THEN @ ELSE "None", !.parameter = h.parameter]
  BY DEF EncodeInput
<1> HIDE DEF e
<1>5. EncodeInput(h) = [name |-> h.name, datatype |-> e.datatype, shape |-> e.shape, data |-> e.data,
                        contentType |-> IF h.tagged THEN e.contentType ELSE "None",
                        parameter |-> h.parameter]
  <2> DEFINE c == IF h.tagged THEN e.contentType ELSE "None"
             f == [e EXCEPT !.contentType = c]
  <2>1. EncodeInput(h) = [f EXCEPT !.parameter = h.parameter]
    BY <1>4
  <2> HIDE DEF c
  <2>2. f = [name |-> h.name, datatype |-> e.datatype, shape |-> e.shape, data |-> e.data,
             contentType |-> c, parameter |-> "None"]
    BY <1>2
  <2> HIDE DEF f
  <2>3. EncodeInput(h) = [name |-> h.name, datatype |-> e.datatype, shape |-> e.shape,
                          data |-> e.data, contentType |-> c, parameter |-> h.parameter]
    BY <2>1, <2>2
  <2> QED  BY <2>3 DEF c
<1> QED  BY <1>3, <1>5 DEF IsTensor

-----------------------------------------------------------------------------
(* The batch at each stage, from the batch before.                          *)
InputsOf(r) == [k \in 1..Len(r.inputs) |-> EncodeInput(r.inputs[k])]
MessagesOf(s) == [i \in 1..Len(s) |-> ToWire(s[i].id, InputsOf(s[i]), s[i].raw)]
RequestsOf(ms) ==
  [i \in 1..Len(ms) |-> [id |-> ms[i].id, inputs |-> OfWire(ms[i]), returnRaw |-> ms[i].raw # <<>>]]
MergedOf(rs) == [k \in 1..Len(HeadNames(rs)) |-> MergeHead(rs, HeadNames(rs)[k])]

(* What the batcher gets of a request r of the clients.                     *)
Received(q, r) ==
  /\ q.id = IF r.id = "None" THEN "" ELSE r.id
  /\ q.inputs = [k \in 1..Len(r.inputs) |-> q.inputs[k]] /\ Len(q.inputs) = Len(r.inputs)
  /\ \A k \in 1..Len(r.inputs) :
       /\ q.inputs[k].name = r.inputs[k].name /\ q.inputs[k].name \in DOMAIN Metadata
       /\ q.inputs[k].parameter = r.inputs[k].parameter
       /\ q.inputs[k].shape = InputsOf(r)[k].shape
       /\ q.inputs[k].shape \in Seq(Nat) /\ Len(q.inputs[k].shape) > 0

LEMMA BatchTyping ==
  ASSUME NEW s \in Batches
  PROVE  /\ Len(s) \in Nat
         /\ \A i \in 1..Len(s) : /\ Len(s[i].inputs) \in Nat
                                 /\ \A k \in 1..Len(s[i].inputs) : s[i].inputs[k] \in ClientInputs
                                 /\ s[i].inputs \in Seq(ClientInputs)
<1> DEFINE R == [id : STRING, inputs : Seq(ClientInputs), raw : SUBSET DOMAIN Metadata]
<1>1. s \in Seq(R)
  BY BatchesAssumption
<1> HIDE DEF R
<1>2. Len(s) \in Nat /\ \A i \in 1..Len(s) : s[i] \in R
  BY <1>1
<1>3. \A i \in 1..Len(s) : s[i].inputs \in Seq(ClientInputs)
  BY <1>2 DEF R
<1>4. ASSUME NEW q \in Seq(ClientInputs)
      PROVE  Len(q) \in Nat /\ \A k \in 1..Len(q) : q[k] \in ClientInputs
  OBVIOUS
<1> QED  BY <1>2, <1>3, <1>4

LEMMA Requested ==
  ASSUME NEW s \in Batches
  PROVE  LET rs == RequestsOf(MessagesOf(s))
         IN  Len(rs) = Len(s) /\ \A i \in 1..Len(s) : Received(rs[i], s[i])
<1> DEFINE ms == MessagesOf(s)
           rs == RequestsOf(ms)
           n == Len(s)
<1>1. n \in Nat /\ \A i \in 1..n : Len(s[i].inputs) \in Nat
                                   /\ \A k \in 1..Len(s[i].inputs) : s[i].inputs[k] \in ClientInputs
  BY BatchTyping
<1> HIDE DEF n
<1>2. Len(ms) = n /\ \A i \in 1..n : ms[i] = ToWire(s[i].id, InputsOf(s[i]), s[i].raw)
  BY <1>1 DEF MessagesOf, n
<1> HIDE DEF ms
<1>3. Len(rs) = n /\ \A i \in 1..n : rs[i].id = ms[i].id /\ rs[i].inputs = OfWire(ms[i])
  BY <1>1, <1>2 DEF RequestsOf
<1> HIDE DEF rs
<1>4. ASSUME NEW i \in 1..n
      PROVE  Received(rs[i], s[i])
  <2> DEFINE r == s[i]
             m == Len(r.inputs)
             ts == InputsOf(r)
             got == OfWire(ToWire(r.id, ts, r.raw))
  <2>1. m \in Nat /\ \A k \in 1..m : r.inputs[k] \in ClientInputs
    BY <1>1
  <2>2. rs[i].inputs = got /\ rs[i].id = IF r.id = "None" THEN "" ELSE r.id
    <3>1. ToWire(r.id, ts, r.raw).id = IF r.id = "None" THEN "" ELSE r.id
      BY DEF ToWire
    <3>2. rs[i].inputs = OfWire(ms[i]) /\ rs[i].id = ms[i].id /\ ms[i] = ToWire(r.id, ts, r.raw)
      BY <1>2, <1>3
    <3> HIDE DEF r, ts
    <3> QED  BY <3>1, <3>2
  <2>3. ts = [k \in 1..m |-> ts[k]] /\ \A k \in 1..m : ts[k] = EncodeInput(r.inputs[k])
    BY DEF InputsOf
  <2> HIDE DEF r, m, ts
  <2>4. \A k \in 1..m : /\ IsTensor(ts[k]) /\ ts[k].name = r.inputs[k].name
                        /\ ts[k].parameter = r.inputs[k].parameter
                        /\ ts[k].shape \in Seq(Nat) /\ Len(ts[k].shape) > 0
    BY <2>1, <2>3, InputTensor
  <2>5. /\ got = [k \in 1..m |-> got[k]] /\ Len(got) = m
        /\ \A k \in 1..m : IsTensor(got[k]) /\ Alike(got[k], ts[k])
    BY <2>1, <2>3, <2>4, Wired
  <2> HIDE DEF got
  <2>6. \A k \in 1..m : r.inputs[k].name \in DOMAIN Metadata
    BY <2>1 DEF ClientInputs
  <2>7. \A k \in 1..m : /\ got[k].name = r.inputs[k].name /\ got[k].name \in DOMAIN Metadata
                        /\ got[k].parameter = r.inputs[k].parameter
                        /\ got[k].shape = ts[k].shape
                        /\ got[k].shape \in Seq(Nat) /\ Len(got[k].shape) > 0
    BY <2>4, <2>5, <2>6 DEF Alike
  <2> QED  BY <2>2, <2>5, <2>7 DEF Received, r, m, ts
<1> QED  BY <1>3, <1>4 DEF n, rs, ms

(* A head is under its name, at the same place as the client had it.        *)
LEMMA HeadPlace ==
  ASSUME NEW ts, Len(ts) \in Nat, NEW name \in Names(ts)
  PROVE  \E k \in 1..Len(ts) : HeadOf(ts, name) = ts[k] /\ ts[k].name = name
<1> DEFINE T == {i \in 1..Len(ts) : ts[i].name = name}
<1>1. T \in SUBSET (1..Len(ts)) /\ T # {}
  BY DEF Names
<1>2. HeadOf(ts, name) = ts[Max(T)]
  BY DEF HeadOf
<1> HIDE DEF T
<1>3. Max(T) \in T
  BY <1>1, MaxOfPlaces
<1> QED  BY <1>2, <1>3 DEF T

LEMMA SamePlace ==
  ASSUME NEW ts, Len(ts) \in Nat, NEW us, Len(us) = Len(ts),
         \A k \in 1..Len(ts) : us[k].name = ts[k].name, NEW name \in Names(ts)
  PROVE  /\ Names(us) = Names(ts)
         /\ \E k \in 1..Len(ts) : HeadOf(us, name) = us[k] /\ HeadOf(ts, name) = ts[k] /\ ts[k].name = name
<1> DEFINE T == {i \in 1..Len(ts) : ts[i].name = name}
<1>1. T \in SUBSET (1..Len(ts)) /\ T # {}
  BY DEF Names
<1>2. {i \in 1..Len(us) : us[i].name = name} = T
  OBVIOUS
<1>3. HeadOf(ts, name) = ts[Max(T)] /\ HeadOf(us, name) = us[Max(T)]
  BY <1>2 DEF HeadOf
<1> HIDE DEF T
<1>4. Max(T) \in T
  BY <1>1, MaxOfPlaces
<1>5. Names(us) = Names(ts)
  BY DEF Names
<1> QED  BY <1>3, <1>4, <1>5 DEF T

(* The merged request has the heads that any request has (inputs_index).    *)
LEMMA MergedHeads ==
  ASSUME NEW rs, Len(rs) \in Nat,
         \A i \in 1..Len(rs) :
           /\ Len(rs[i].inputs) \in Nat
           /\ \A k \in 1..Len(rs[i].inputs) : rs[i].inputs[k].name \in DOMAIN Metadata
  PROVE  LET ms == MergedOf(rs)
         IN  /\ Len(ms) \in Nat /\ Len(ms) = Len(HeadNames(rs)) /\ HeadNames(rs) \in Seq(DOMAIN Metadata)
             /\ \A k \in 1..Len(ms) : ms[k] = MergeHead(rs, HeadNames(rs)[k]) /\ ms[k].name = HeadNames(rs)[k]
             /\ Range(HeadNames(rs)) = UNION {Names(rs[i].inputs) : i \in 1..Len(rs)}
<1> DEFINE M == DOMAIN Metadata
           n == Len(rs)
           row(i) == [j \in 1..Len(rs[i].inputs) |-> rs[i].inputs[j].name]
           ss == [i \in 1..n |-> row(i)]
           names == HeadNames(rs)
<1>1. ASSUME NEW i \in 1..n
      PROVE  row(i) \in Seq(M) /\ Range(row(i)) = Names(rs[i].inputs)
  <2> DEFINE r == rs[i].inputs
             m == Len(r)
             s == row(i)
  <2>1. m \in Nat /\ \A k \in 1..m : r[k].name \in M
    OBVIOUS
  <2> HIDE DEF r, M
  <2>2. s = [j \in 1..m |-> r[j].name]
    BY DEF r
  <2> HIDE DEF m, s
  <2>3. s \in [1..m -> M]
    BY <2>1, <2>2
  <2>4. s \in Seq(M)
    BY <2>1, <2>3, SeqDef
  <2>5. Range(s) = Names(r)
    BY <2>2 DEF Range, Names, m
  <2> QED  BY <2>4, <2>5 DEF s, r, M
<1> HIDE DEF M, row, n
<1>2. n \in Nat
  BY DEF n
<1>3. ss \in Seq(Seq(M)) /\ Len(ss) = n /\ \A i \in 1..n : ss[i] = row(i)
  <2> DEFINE V == Seq(M)
  <2>1. ss \in [1..n -> V] /\ \A i \in 1..n : ss[i] = row(i)
    BY <1>1
  <2> HIDE DEF V, ss
  <2> QED  BY <1>2, <2>1, SeqDef, LenProperties DEF V
<1>4. names = Keys(FlattenSeq(ss))
  BY DEF HeadNames, n, row
<1> HIDE DEF ss
<1>5. FlattenSeq(ss) \in Seq(M) /\ Range(FlattenSeq(ss)) = UNION {Range(ss[k]) : k \in 1..Len(ss)}
  BY <1>3, FlattenRange
<1>6. Keys(FlattenSeq(ss)) \in Seq(M) /\ Range(Keys(FlattenSeq(ss))) = Range(FlattenSeq(ss))
  BY <1>5, KeysRange
<1>7. Range(names) = UNION {Names(rs[i].inputs) : i \in 1..n}
  <2>1. Range(names) = UNION {Range(ss[k]) : k \in 1..n}
    BY <1>3, <1>4, <1>5, <1>6
  <2>2. {Range(ss[k]) : k \in 1..n} = {Names(rs[i].inputs) : i \in 1..n}
    BY <1>1, <1>3
  <2> QED  BY <2>1, <2>2
<1>8. names \in Seq(M) /\ Len(names) \in Nat
  BY <1>4, <1>6
<1> HIDE DEF names
<1>9. MergedOf(rs) = [k \in 1..Len(names) |-> MergeHead(rs, names[k])]
  BY DEF MergedOf, names
<1>10. \A k \in 1..Len(names) : MergeHead(rs, names[k]).name = names[k]
  BY DEF MergeHead
<1>11. /\ Len(MergedOf(rs)) = Len(names)
       /\ \A k \in 1..Len(names) : MergedOf(rs)[k] = MergeHead(rs, names[k])
  BY <1>8, <1>9
<1> QED  BY <1>7, <1>8, <1>10, <1>11 DEF names, n, M

(* Requests as the batcher gets them: inputs under the names of heads.      *)
Named(rs) ==
  /\ Len(rs) \in Nat
  /\ \A i \in 1..Len(rs) :
       /\ Len(rs[i].inputs) \in Nat
       /\ \A k \in 1..Len(rs[i].inputs) : rs[i].inputs[k].name \in DOMAIN Metadata

(* Who has a place in the response (_minibatch_sizes).                      *)
BatchedOf(rs, ms) == Keys(FlattenSeq([k \in 1..Len(ms) |-> Owners(rs, ms[k].name)]))

(* Every request that has an input has its place, and no other has.         *)
LEMMA EveryoneBatched ==
  ASSUME NEW rs, Named(rs)
  PROVE  LET ms == MergedOf(rs)
             with == {i \in 1..Len(rs) : Len(rs[i].inputs) # 0}
         IN  /\ BatchedOf(rs, ms) \in Seq(1..Len(rs))
             /\ Range(BatchedOf(rs, ms)) = with
             /\ Len(ms) = 0 => with = {}
<1> DEFINE ms == MergedOf(rs)
           with == {i \in 1..Len(rs) : Len(rs[i].inputs) # 0}
           n == Len(rs)
           m == Len(ms)
           names == HeadNames(rs)
           ss == [k \in 1..m |-> Owners(rs, ms[k].name)]
<1>1. /\ n \in Nat /\ m \in Nat /\ m = Len(names) /\ names \in Seq(DOMAIN Metadata)
      /\ \A k \in 1..m : ms[k].name = names[k]
      /\ Range(names) = UNION {Names(rs[i].inputs) : i \in 1..n}
  BY MergedHeads DEF Named
<1>2. ASSUME NEW i \in 1..n
      PROVE  i \in with <=> Names(rs[i].inputs) # {}
  <2> DEFINE r == rs[i].inputs
  <2>1. Len(r) \in Nat /\ (i \in with <=> Len(r) # 0)
    BY DEF Named
  <2> HIDE DEF r, with
  <2>2. Len(r) # 0 => r[1].name \in Names(r)
    BY <2>1 DEF Names
  <2>3. Len(r) = 0 => Names(r) = {}
    BY DEF Names
  <2> QED  BY <2>1, <2>2, <2>3 DEF r
<1> HIDE DEF with, n, m, names, ms
<1>3. \A k \in 1..m : /\ Owners(rs, names[k]) \in Seq(1..n)
                      /\ Range(Owners(rs, names[k])) = {i \in 1..n : names[k] \in Names(rs[i].inputs)}
  BY <1>1, OwnersOf DEF n
<1>4. /\ ss \in Seq(Seq(1..n)) /\ Len(ss) = m
      /\ \A k \in 1..m : Range(ss[k]) = {i \in 1..n : names[k] \in Names(rs[i].inputs)}
  <2> DEFINE V == Seq(1..n)
  <2>1. ss \in [1..m -> V]
    BY <1>1, <1>3
  <2>2. \A k \in 1..m : Range(ss[k]) = {i \in 1..n : names[k] \in Names(rs[i].inputs)}
    BY <1>1, <1>3
  <2> HIDE DEF V, ss
  <2>3. ss \in Seq(V) /\ Len(ss) = m
    BY <1>1, <2>1, SeqDef, LenProperties
  <2> QED  BY <2>2, <2>3 DEF V
<1>5. BatchedOf(rs, ms) = Keys(FlattenSeq(ss))
  BY DEF BatchedOf, m
<1> HIDE DEF ss
<1>6. FlattenSeq(ss) \in Seq(1..n) /\ Range(FlattenSeq(ss)) = UNION {Range(ss[k]) : k \in 1..Len(ss)}
  BY <1>4, FlattenRange
<1>7. Keys(FlattenSeq(ss)) \in Seq(1..n) /\ Range(Keys(FlattenSeq(ss))) = Range(FlattenSeq(ss))
  BY <1>6, KeysRange
<1>8. Range(names) = {names[k] : k \in 1..m}
  BY <1>1 DEF Range
<1>9. ASSUME NEW i \in 1..n
      PROVE  i \in with <=> \E k \in 1..m : names[k] \in Names(rs[i].inputs)
  <2>1. \A x \in Names(rs[i].inputs) : x \in Range(names)
    BY <1>1
  <2>2. \A x \in Names(rs[i].inputs) : \E k \in 1..m : x = names[k]
    BY <1>8, <2>1
  <2> QED  BY <1>2, <2>2
<1>10. with \subseteq 1..n
  BY DEF with, n
<1>11. Range(FlattenSeq(ss)) = with
  <2>1. ASSUME NEW x \in Range(FlattenSeq(ss))
        PROVE  x \in with
    <3>1. PICK k \in 1..m : x \in Range(ss[k])
      BY <1>4, <1>6
    <3>2. x \in 1..n /\ names[k] \in Names(rs[x].inputs)
      BY <1>4, <3>1
    <3> QED  BY <1>9, <3>2
  <2>2. ASSUME NEW x \in with
        PROVE  x \in Range(FlattenSeq(ss))
    <3>1. PICK k \in 1..m : names[k] \in Names(rs[x].inputs)
      BY <1>9, <1>10
    <3>2. x \in Range(ss[k])
      BY <1>4, <1>10, <3>1
    <3> QED  BY <1>4, <1>6, <3>2
  <2> QED  BY <2>1, <2>2
<1>12. m = 0 => with = {}
  BY <1>9, <1>10
<1> QED  BY <1>5, <1>7, <1>11, <1>12 DEF n, m, with, ms

SameHeads(rs) == \A i, j \in 1..Len(rs) : Names(rs[i].inputs) = Names(rs[j].inputs)
InPlace(rs, ms) ==
  /\ Len(rs) # 0
  /\ \A i \in 1..Len(rs), k \in 1..Len(ms) : ms[k].name \in Names(rs[i].inputs)
  /\ \A k \in 1..Len(ms) : Owners(rs, ms[k].name) = [i \in 1..Len(rs) |-> i]
  /\ BatchedOf(rs, ms) = [i \in 1..Len(rs) |-> i]

(* When all have the same heads, everyone is in the place of its request.   *)
LEMMA AllInPlace ==
  ASSUME NEW rs, Named(rs), Len(MergedOf(rs)) # 0, SameHeads(rs)
  PROVE  InPlace(rs, MergedOf(rs))
<1> DEFINE ms == MergedOf(rs)
           n == Len(rs)
           m == Len(ms)
           names == HeadNames(rs)
           row == [i \in 1..n |-> i]
           ss == [k \in 1..m |-> Owners(rs, ms[k].name)]
<1>1. /\ n \in Nat /\ m \in Nat \ {0} /\ m = Len(names) /\ names \in Seq(DOMAIN Metadata)
      /\ \A k \in 1..m : ms[k].name = names[k]
      /\ Range(names) = UNION {Names(rs[i].inputs) : i \in 1..n}
  BY MergedHeads DEF Named
<1> HIDE DEF n, m, names, ms
<1>2. Range(names) = {names[k] : k \in 1..m}
  BY <1>1 DEF Range
<1>3. \A i \in 1..n, k \in 1..m : ms[k].name \in Names(rs[i].inputs)
  BY <1>1, <1>2 DEF n, SameHeads
<1>4. n # 0
  <2>1. names[1] \in Range(names)
    <3>1. 1 \in 1..m
      BY <1>1
    <3> QED  BY <1>2, <3>1
  <2>2. PICK i \in 1..n : names[1] \in Names(rs[i].inputs)
    BY <1>1, <2>1
  <2> QED  BY <1>1, <2>2
<1>5. \A k \in 1..m : Owners(rs, ms[k].name) = row
  BY <1>1, <1>3, OwnersOf DEF n
<1>6. row \in Seq(1..n) /\ Len(row) = n /\ \A i \in 1..n : row[i] = i
  BY <1>1
<1> HIDE DEF row
<1>7. ss \in Seq(Seq(1..n)) /\ Len(ss) = m /\ \A k \in 1..m : ss[k] = row
  <2> DEFINE V == Seq(1..n)
  <2>1. row \in V
    BY <1>6
  <2> HIDE DEF V
  <2>2. ss \in [1..m -> V] /\ \A k \in 1..m : ss[k] = row
    BY <1>5, <2>1
  <2> HIDE DEF ss
  <2>3. ss \in Seq(V) /\ Len(ss) = m
    BY <1>1, <2>2, SeqDef, LenProperties
  <2> QED  BY <2>2, <2>3 DEF V
<1>8. BatchedOf(rs, ms) = Keys(FlattenSeq(ss))
  BY DEF BatchedOf, m
<1> HIDE DEF ss
<1> DEFINE all == FlattenSeq(ss)
<1>9. all \in Seq(1..n)
  BY <1>7, FlattenRange
<1>10. n =< Len(all) /\ \A i \in 1..n : all[i] = i
  <2>1. ss[1] = row
    BY <1>1, <1>7
  <2>2. Len(ss[1]) =< Len(all) /\ \A i \in 1..Len(ss[1]) : all[i] = ss[1][i]
    BY <1>1, <1>7, FlattenStart
  <2> QED  BY <1>6, <2>1, <2>2
<1> HIDE DEF all
<1>11. \A i \in 1..Len(all) : all[i] \in 1..n
  <2> DEFINE V == 1..n
  <2> HIDE DEF V
  <2>1. all \in Seq(V)
    BY <1>9 DEF V
  <2>2. \A i \in 1..Len(all) : all[i] \in V
    BY <2>1
  <2> QED  BY <2>2 DEF V
<1>12. Keys(all) = SubSeq(all, 1, n)
  <2>1. n \in 0..Len(all)
    BY <1>1, <1>9, <1>10
  <2>2. \A i, j \in 1..n : all[i] = all[j] => i = j
    BY <1>10
  <2>3. \A i \in (n + 1)..Len(all) : i \in 1..Len(all)
    BY <1>1, <1>9
  <2>4. \A i \in (n + 1)..Len(all) : \E j \in 1..n : all[i] = all[j]
    BY <1>10, <1>11, <2>3
  <2> QED  BY <1>9, <2>1, <2>2, <2>4, KeysOfStart
<1>13. SubSeq(all, 1, n) = row
  <2> DEFINE b == SubSeq(all, 1, n)
  <2>1. b \in Seq(1..n) /\ Len(b) = n /\ \A i \in 1..n : b[i] = all[i]
    BY <1>1, <1>9, <1>10
  <2> HIDE DEF b
  <2>2. b = row
    BY <1>6, <1>10, <2>1, SeqEqual
  <2> QED  BY <2>2 DEF b
<1> QED  BY <1>3, <1>4, <1>5, <1>8, <1>12, <1>13 DEF n, m, ms, row, all, InPlace

(* A head of one row, with a parameter.                                     *)
SingleRow(h) ==
  h.parameter # "None" /\ h.shape \in Seq(Nat) /\ Len(h.shape) > 0 /\ BatchSize(h.shape) = 1

SingleRows(rs, name) ==
  /\ Len(rs) \in Nat /\ Len(rs) # 0
  /\ Owners(rs, name) = [i \in 1..Len(rs) |-> i]
  /\ \A i \in 1..Len(rs) : SingleRow(HeadOf(rs[i].inputs, name))
InOrder(t, rs, name) ==
  /\ BatchSize(t.shape) = Len(rs) /\ t.parameter # <<>>
  /\ Tail(t.parameter) = [i \in 1..Len(rs) |-> HeadOf(rs[i].inputs, name).parameter]

(* Of rows with a parameter each the merged head has them all, in order, and *)
(* as many rows as there are (_merge_input_parameters).                     *)
LEMMA ParametersInOrder ==
  ASSUME NEW rs, NEW name, SingleRows(rs, name)
  PROVE  InOrder(MergeHead(rs, name), rs, name)
<1> DEFINE n == Len(rs)
           H(i) == HeadOf(rs[i].inputs, name)
           heads == Heads(rs, name)
           p == [i \in 1..n |-> H(i).parameter]
           P == {H(i).parameter : i \in 1..n}
           t == MergeHead(rs, name)
           given == FlattenSeq([k \in 1..Len(heads) |->
                      IF heads[k].parameter = "None" THEN <<>> ELSE <<heads[k].parameter>>])
           sizes == [k \in 1..Len(heads) |-> BatchSize(heads[k].shape)]
<1>1. \A i \in 1..n : /\ H(i).parameter # "None" /\ H(i).shape \in Seq(Nat) /\ Len(H(i).shape) > 0
                      /\ BatchSize(H(i).shape) = 1
  BY DEF SingleRow, SingleRows
<1>2. n \in Nat \ {0}
  BY DEF SingleRows
<1>3. heads = [k \in 1..Len(Owners(rs, name)) |-> H(Owners(rs, name)[k])]
  BY DEF Heads
<1> HIDE DEF H, n, heads
<1>4. Owners(rs, name) = [i \in 1..n |-> i]
  BY DEF n, SingleRows
<1>5. Len(heads) = n /\ \A k \in 1..n : heads[k] = H(k)
  BY <1>2, <1>3, <1>4
<1>6. p \in Seq(P) /\ Len(p) = n /\ \A i \in 1..n : p[i] = H(i).parameter
  <2>1. p \in [1..n -> P] /\ \A i \in 1..n : p[i] = H(i).parameter
    OBVIOUS
  <2> HIDE DEF p, P
  <2> QED  BY <1>2, <2>1, SeqDef, LenProperties
<1>7. given = p
  <2>1. [k \in 1..Len(heads) |-> IF heads[k].parameter = "None" THEN <<>> ELSE <<heads[k].parameter>>] =
          [k \in 1..Len(p) |-> <<p[k]>>]
    <3> HIDE DEF p
    <3> QED  BY <1>1, <1>5, <1>6
  <2> HIDE DEF p, P
  <2>2. FlattenSeq([k \in 1..Len(p) |-> <<p[k]>>]) = p
    BY <1>6, FlattenSingles
  <2> QED  BY <2>1, <2>2
<1> HIDE DEF p, P
<1>8. Total(sizes) = n
  <2>1. sizes = [k \in 1..n |-> 1]
    BY <1>1, <1>5
  <2> DEFINE ones == [k \in 1..n |-> 1]
  <2>2. ones \in Seq(Nat) /\ Len(ones) = n /\ \A k \in 1..n : ones[k] = 1
    BY <1>2
  <2> HIDE DEF ones
  <2>3. Total(ones) = n
    BY <1>2, <2>2, TotalOfOnes
  <2> QED  BY <2>1, <2>3 DEF ones
<1>9. t.shape = WithBatchSize(heads[1].shape, Total(sizes))
  BY DEF MergeHead, heads
<1>10. t.parameter = MergeParameters(heads)
  BY DEF MergeHead, heads
<1>11. MergeParameters(heads) =
         IF given = <<>> THEN <<>> ELSE <<IF Len(given) = 1 THEN "value" ELSE "list">> \o given
  BY DEF MergeParameters
<1> HIDE DEF given, sizes, t
<1>12. BatchSize(t.shape) = n
  <2>1. heads[1].shape \in Seq(Nat) /\ Len(heads[1].shape) > 0
    BY <1>1, <1>2, <1>5
  <2> DEFINE tail == Tail(heads[1].shape)
  <2>2. tail \in Seq(Nat)
    BY <2>1
  <2> HIDE DEF tail
  <2>3. t.shape = <<n>> \o tail
    BY <1>8, <1>9 DEF WithBatchSize, tail
  <2>4. Head(<<n>> \o tail) = n
    BY <1>2, <2>2
  <2> QED  BY <2>3, <2>4 DEF BatchSize
<1>13. t.parameter # <<>> /\ Tail(t.parameter) = p
  <2> DEFINE tag == IF Len(given) = 1 THEN "value" ELSE "list"
             u == <<tag>> \o p
  <2>1. given # <<>>
    BY <1>2, <1>6, <1>7
  <2>2. t.parameter = u
    BY <1>7, <1>10, <1>11, <2>1
  <2> DEFINE S == P \cup {tag}
  <2>3. tag \in S /\ p \in Seq(S)
    <3>1. p \in [1..n -> S]
      <4>1. p \in [1..n -> P]
        BY <1>6
      <4> QED  BY <4>1
    <3> HIDE DEF tag, S
    <3>2. p \in Seq(S)
      BY <1>2, <3>1, SeqDef
    <3> QED  BY <3>2 DEF S
  <2> HIDE DEF tag, S
  <2>4. <<tag>> \in Seq(S) /\ Len(<<tag>>) = 1
    BY <2>3
  <2>5. /\ u \in Seq(S) /\ Len(u) = n + 1
        /\ \A i \in 1..n : u[i + 1] = p[i]
    BY <1>2, <1>6, <2>3, <2>4
  <2> HIDE DEF u
  <2>6. u # <<>>
    BY <1>2, <2>5
  <2>7. Tail(u) \in Seq(S) /\ Len(Tail(u)) = n /\ \A i \in 1..n : Tail(u)[i] = u[i + 1]
    BY <1>2, <2>5
  <2>8. Tail(u) = p
    BY <1>6, <2>3, <2>5, <2>7, SeqEqual
  <2> QED  BY <2>2, <2>6, <2>8
<1> QED  BY <1>12, <1>13 DEF n, p, H, t, InOrder

-----------------------------------------------------------------------------
(* When every request has one row and a parameter (OwnParameters).          *)
OneRowEach(s) ==
  /\ \A i, j \in 1..Len(s) : Names(InputsOf(s[i])) = Names(InputsOf(s[j]))
  /\ \A i \in 1..Len(s) : \A h \in Range(InputsOf(s[i])) :
       h.parameter # "None" /\ BatchSize(h.shape) = 1

(* What predict() makes of the parameters of a head.                        *)
AnswerParameter(t) ==
  LET values == IF t.parameter = <<>> THEN <<>> ELSE Tail(t.parameter)
  IN  IF Len(values) = BatchSize(t.shape) THEN values ELSE <<>>

(* The tensors of an answer to request i have its parameters.               *)
HasOwn(s, i, ts) ==
  \A k \in 1..Len(ts) : ts[k].parameter = HeadOf(s[i].inputs, ts[k].name).parameter

(* The requests of a batch, as the batcher gets them, have their names.     *)
LEMMA BatchNamed ==
  ASSUME NEW s \in Batches
  PROVE  LET rs == RequestsOf(MessagesOf(s))
         IN  /\ Named(rs) /\ Len(rs) = Len(s) /\ Len(s) \in Nat
             /\ \A i \in 1..Len(s) : /\ Received(rs[i], s[i]) /\ Len(s[i].inputs) \in Nat
                                     /\ Names(rs[i].inputs) = Names(InputsOf(s[i]))
<1> DEFINE rs == RequestsOf(MessagesOf(s))
<1>1. Len(rs) = Len(s) /\ \A i \in 1..Len(s) : Received(rs[i], s[i])
  BY Requested
<1>2. Len(s) \in Nat /\ \A i \in 1..Len(s) : Len(s[i].inputs) \in Nat
                                              /\ \A k \in 1..Len(s[i].inputs) : s[i].inputs[k] \in ClientInputs
  BY BatchTyping
<1> HIDE DEF rs
<1>3. Named(rs)
  BY <1>1, <1>2 DEF Named, Received
<1>4. ASSUME NEW i \in 1..Len(s)
      PROVE  Names(rs[i].inputs) = Names(InputsOf(s[i]))
  <2> DEFINE q == rs[i].inputs
             r == s[i].inputs
             m == Len(r)
             ts == InputsOf(s[i])
  <2>1. m \in Nat /\ \A k \in 1..m : r[k] \in ClientInputs
    BY <1>2
  <2>2. Len(q) = m /\ \A k \in 1..m : q[k].name = r[k].name
    BY <1>1 DEF Received
  <2>3. ts = [k \in 1..m |-> EncodeInput(r[k])]
    BY DEF InputsOf
  <2>4. \A k \in 1..m : EncodeInput(r[k]).name = r[k].name
    BY <2>1, InputTensor
  <2> HIDE DEF q, r, m, ts
  <2>5. Len(ts) = m /\ \A k \in 1..m : ts[k].name = q[k].name
    BY <2>1, <2>2, <2>3, <2>4
  <2>6. Names(q) = Names(ts)
    BY <2>2, <2>5 DEF Names
  <2> QED  BY <2>6 DEF q, ts
<1> QED  BY <1>1, <1>2, <1>3, <1>4 DEF rs

(* The head of request i under a name is the client's.                      *)
LEMMA OwnHead ==
  ASSUME NEW s \in Batches, NEW i \in 1..Len(s), NEW name \in Names(InputsOf(s[i]))
  PROVE  LET h == HeadOf(RequestsOf(MessagesOf(s))[i].inputs, name)
         IN  /\ h.parameter = HeadOf(s[i].inputs, name).parameter
             /\ h.shape \in Seq(Nat) /\ Len(h.shape) > 0
             /\ OneRowEach(s) => h.parameter # "None" /\ BatchSize(h.shape) = 1
<1> DEFINE q == RequestsOf(MessagesOf(s))[i].inputs
           r == s[i].inputs
           m == Len(r)
           ts == InputsOf(s[i])
<1>1. /\ m \in Nat /\ Len(q) = m /\ Names(q) = Names(ts)
      /\ \A k \in 1..m : /\ q[k].name = r[k].name /\ q[k].parameter = r[k].parameter
                         /\ q[k].shape = ts[k].shape /\ q[k].shape \in Seq(Nat) /\ Len(q[k].shape) > 0
  BY BatchNamed DEF Received
<1>2. \A k \in 1..m : r[k] \in ClientInputs
  BY BatchTyping
<1>3. ts = [k \in 1..m |-> EncodeInput(r[k])]
  BY DEF InputsOf
<1>4. \A k \in 1..m : EncodeInput(r[k]).parameter = r[k].parameter
  BY <1>2, InputTensor
<1>5. Len(ts) = m /\ \A k \in 1..m : ts[k].parameter = r[k].parameter /\ ts[k] \in Range(ts)
  <2> HIDE DEF m, r
  <2> QED  BY <1>1, <1>3, <1>4 DEF Range
<1>6. OneRowEach(s) => \A h \in Range(ts) : h.parameter # "None" /\ BatchSize(h.shape) = 1
  BY DEF OneRowEach
<1> HIDE DEF q, r, m, ts
<1>7. name \in Names(r)
  <2>1. Names(r) = Names(q)
    BY <1>1 DEF Names, m
  <2> QED  BY <1>1, <2>1 DEF ts
<1>8. PICK k \in 1..m : HeadOf(q, name) = q[k] /\ HeadOf(r, name) = r[k]
  BY <1>1, <1>7, SamePlace DEF m
<1>9. /\ q[k].parameter = r[k].parameter /\ q[k].shape \in Seq(Nat) /\ Len(q[k].shape) > 0
      /\ q[k].shape = ts[k].shape /\ ts[k].parameter = r[k].parameter /\ ts[k] \in Range(ts)
  BY <1>1, <1>5
<1> QED  BY <1>6, <1>8, <1>9 DEF q, r

(* RowsBefore, of the rows of those that come before.                       *)
LEMMA RowBeforeRow ==
  ASSUME sent \in Batches, requests = RequestsOf(MessagesOf(sent)), merged = MergedOf(requests),
         Len(merged) # 0, OneRowEach(sent), NEW i \in 1..Len(sent)
  PROVE  RowsBefore(i) = i - 1
<1> DEFINE n == Len(sent)
<1>1. /\ Named(requests) /\ Len(requests) = n /\ n \in Nat
      /\ \A j \in 1..n : Names(requests[j].inputs) = Names(InputsOf(sent[j]))
  BY BatchNamed
<1>2. SameHeads(requests)
  BY <1>1 DEF OneRowEach, SameHeads
<1>3. /\ \A j \in 1..n, k \in 1..Len(merged) : merged[k].name \in Names(requests[j].inputs)
      /\ BatchedOf(requests, merged) = [j \in 1..n |-> j]
  <2>1. InPlace(requests, merged)
    BY <1>1, <1>2, AllInPlace
  <2> QED  BY <1>1, <2>1 DEF InPlace
<1>4. Len(merged) \in Nat \ {0}
  <2>1. Len(MergedOf(requests)) \in Nat
    BY <1>1, MergedHeads DEF Named
  <2> QED  BY <2>1
<1>5. Batched = [j \in 1..n |-> j]
  BY <1>3 DEF Batched, BatchedOf
<1> HIDE DEF n
<1>6. ASSUME NEW j \in 1..n
      PROVE  MinibatchSize(j) = 1
  <2> DEFINE IsLastHead(k) == /\ merged[k].name \in Names(requests[j].inputs)
                              /\ \A l \in (k + 1)..Len(merged) : merged[l].name \notin Names(requests[j].inputs)
             at == CHOOSE k \in 1..Len(merged) : IsLastHead(k)
  <2>1. IsLastHead(Len(merged)) /\ Len(merged) \in 1..Len(merged)
    BY <1>3, <1>4
  <2>2. at \in 1..Len(merged)
    BY <2>1
  <2>3. LastHead(j) = merged[at].name
    BY DEF LastHead
  <2> HIDE DEF at
  <2>4. LastHead(j) \in Names(InputsOf(sent[j]))
    BY <1>1, <1>3, <2>2, <2>3
  <2>5. BatchSize(HeadOf(requests[j].inputs, LastHead(j)).shape) = 1
    BY <2>4, OwnHead DEF n
  <2> QED  BY <2>5 DEF MinibatchSize
<1> DEFINE place == CHOOSE k \in 1..Len(Batched) : Batched[k] = i
           row == [k \in 1..(i - 1) |-> MinibatchSize(Batched[k])]
<1>7. i \in 1..n
  BY DEF n
<1>8. Len(Batched) = n /\ \A k \in 1..n : Batched[k] = k
  BY <1>1, <1>5
<1>9. place = i
  BY <1>7, <1>8
<1>10. RowsBefore(i) = Total([k \in 1..(place - 1) |-> MinibatchSize(Batched[k])])
  BY DEF RowsBefore
<1> HIDE DEF place
<1>11. RowsBefore(i) = Total(row)
  BY <1>9, <1>10
<1>12. row \in Seq(Nat) /\ Len(row) = i - 1 /\ \A k \in 1..(i - 1) : row[k] = 1
  <2>1. i - 1 \in Nat /\ \A k \in 1..(i - 1) : k \in 1..n
    BY <1>1, <1>7
  <2>2. row = [k \in 1..(i - 1) |-> 1]
    BY <1>6, <1>8, <2>1
  <2> HIDE DEF row
  <2> QED  BY <2>1, <2>2
<1>13. i - 1 \in Nat
  BY <1>1, <1>7
<1> HIDE DEF row
<1>14. Total(row) = i - 1
  BY <1>12, <1>13, TotalOfOnes
<1> QED  BY <1>11, <1>14

(* The parameter of request i in the answer under a name.                   *)
LEMMA SplitOwnParameter ==
  ASSUME sent \in Batches, requests = RequestsOf(MessagesOf(sent)), merged = MergedOf(requests),
         OneRowEach(sent), NEW i \in 1..Len(sent), NEW k \in 1..Len(merged),
         NEW t, t.parameter = AnswerParameter(merged[k])
  PROVE  SplitParameters(t, i) = HeadOf(sent[i].inputs, merged[k].name).parameter
<1> DEFINE n == Len(sent)
           name == merged[k].name
           p == [j \in 1..n |-> HeadOf(requests[j].inputs, name).parameter]
<1>1. /\ Named(requests) /\ Len(requests) = n /\ n \in Nat
      /\ \A j \in 1..n : Names(requests[j].inputs) = Names(InputsOf(sent[j]))
  BY BatchNamed
<1>2. SameHeads(requests)
  BY <1>1 DEF OneRowEach, SameHeads
<1>3. Len(merged) # 0
  <2>1. Len(MergedOf(requests)) \in Nat
    BY <1>1, MergedHeads DEF Named
  <2> QED  BY <2>1
<1>4. /\ n # 0 /\ \A j \in 1..n : name \in Names(requests[j].inputs)
      /\ Owners(requests, name) = [j \in 1..n |-> j]
  <2>1. InPlace(requests, merged)
    BY <1>1, <1>2, <1>3, AllInPlace
  <2> QED  BY <1>1, <2>1 DEF InPlace
<1>5. merged[k] = MergeHead(requests, name)
  BY <1>1, MergedHeads DEF Named
<1> HIDE DEF n, name
<1>6. ASSUME NEW j \in 1..n
      PROVE  /\ HeadOf(requests[j].inputs, name).parameter = HeadOf(sent[j].inputs, name).parameter
             /\ SingleRow(HeadOf(requests[j].inputs, name))
  <2>1. name \in Names(InputsOf(sent[j]))
    BY <1>1, <1>4
  <2> QED  BY <2>1, OwnHead DEF n, SingleRow
<1>7. /\ BatchSize(merged[k].shape) = n /\ merged[k].parameter # <<>>
      /\ Tail(merged[k].parameter) = p
  <2>1. SingleRows(requests, name)
    BY <1>1, <1>4, <1>6 DEF SingleRows
  <2>2. InOrder(merged[k], requests, name)
    BY <1>5, <2>1, ParametersInOrder
  <2> QED  BY <1>1, <2>2 DEF InOrder
<1>8. Len(p) = n /\ \A j \in 1..n : p[j] = HeadOf(sent[j].inputs, name).parameter
  BY <1>1, <1>6
<1> HIDE DEF p
<1>9. t.parameter = p
  BY <1>7, <1>8 DEF AnswerParameter
<1>10. RowsBefore(i) + 1 = i /\ i \in 1..n
  <2>1. RowsBefore(i) = i - 1 /\ i \in 1..n
    BY <1>3, RowBeforeRow DEF n
  <2> QED  BY <1>1, <2>1
<1>11. SplitParameters(t, i) = IF i =< Len(p) THEN p[i] ELSE "None"
  BY <1>9, <1>10 DEF SplitParameters
<1> QED  BY <1>1, <1>8, <1>10, <1>11 DEF name

(* The share of a request is its rows of the output, with one parameter.    *)
LEMMA ShareTensor ==
  ASSUME NEW t, IsTensor(t), NEW i
  PROVE  SplitOutput(t, i) =
           [name |-> t.name, datatype |-> t.datatype, shape |-> WithBatchSize(t.shape, MinibatchSize(i)),
            data |-> Slice(t.data, RowsBefore(i) * ElemSize(t.shape), MinibatchSize(i) * ElemSize(t.shape)),
            contentType |-> t.contentType, parameter |-> SplitParameters(t, i)]
<1> DEFINE elem == ElemSize(t.shape)
           data == Slice(t.data, RowsBefore(i) * elem, MinibatchSize(i) * elem)
           shape == WithBatchSize(t.shape, MinibatchSize(i))
           p == SplitParameters(t, i)
           u == [t EXCEPT !.data = data]
           v == [u EXCEPT !.shape = shape]
<1>1. SplitOutput(t, i) = [v EXCEPT !.parameter = p]
  BY DEF SplitOutput, IsTensor
<1> HIDE DEF data, shape, p
<1>2. u = [name |-> t.name, datatype |-> t.datatype, shape |-> t.shape, data |-> data,
           contentType |-> t.contentType, parameter |-> t.parameter]
  BY DEF IsTensor
<1> HIDE DEF u
<1>3. v = [name |-> t.name, datatype |-> t.datatype, shape |-> shape, data |-> data,
           contentType |-> t.contentType, parameter |-> t.parameter]
  BY <1>2
<1> HIDE DEF v
<1>4. SplitOutput(t, i) = [name |-> t.name, datatype |-> t.datatype, shape |-> shape, data |-> data,
                           contentType |-> t.contentType, parameter |-> p]
  BY <1>1, <1>3
<1> QED  BY <1>4 DEF data, shape, p

LEMMA Share ==
  ASSUME NEW t, IsTensor(t), NEW i
  PROVE  /\ IsTensor(SplitOutput(t, i)) /\ SplitOutput(t, i).name = t.name
         /\ SplitOutput(t, i).parameter = SplitParameters(t, i)
<1> DEFINE data == Slice(t.data, RowsBefore(i) * ElemSize(t.shape), MinibatchSize(i) * ElemSize(t.shape))
           shape == WithBatchSize(t.shape, MinibatchSize(i))
           p == SplitParameters(t, i)
<1>1. SplitOutput(t, i) = [name |-> t.name, datatype |-> t.datatype, shape |-> shape, data |-> data,
                           contentType |-> t.contentType, parameter |-> p]
  BY ShareTensor
<1> HIDE DEF data, shape, p
<1> QED  BY <1>1 DEF IsTensor, p

(* An output of the model keeps the name of its head, and has a parameter    *)
(* for each row if every row came with one.                                 *)
LEMMA OutputTensor ==
  ASSUME NEW t
  PROVE  /\ IsTensor(Answer(t)) /\ Answer(t).name = t.name
         /\ Answer(t).parameter = AnswerParameter(t)
<1> DEFINE e == Encode(t.name, Compute(Decode(t)))
           p == AnswerParameter(t)
<1>1. e = [name |-> t.name, datatype |-> e.datatype, shape |-> e.shape, data |-> e.data,
           contentType |-> e.contentType, parameter |-> "None"]
  BY DEF Encode, EncodeArray, EncodeStrings, Tensor
<1>2. Answer(t) = [e EXCEPT !.parameter = p]
  BY DEF Answer, AnswerParameter
<1> HIDE DEF e, p
<1>3. Answer(t) = [name |-> t.name, datatype |-> e.datatype, shape |-> e.shape, data |-> e.data,
                   contentType |-> e.contentType, parameter |-> p]
  BY <1>1, <1>2
<1> QED  BY <1>3 DEF IsTensor, p

(* What goes step by step from a base has a value at each step.             *)
Steps(h, n, base, F) == h[0] = base /\ \A k \in 1..n : h[k] = F[<<h[k - 1], k>>]

LEMMA StepsExist ==
  ASSUME NEW n \in Nat, NEW V, NEW base \in V, NEW F \in [V \X (1..n) -> V]
  PROVE  \E h \in [0..n -> V] : Steps(h, n, base, F)
<1>1. PICK g \in [SUBSET (1..n) -> V] : Folds(g, n, base, F)
  BY FoldExists
<1> DEFINE h == [k \in 0..n |-> g[1..k]]
<1>2. \A k \in 0..n : 1..k \in SUBSET (1..n)
  OBVIOUS
<1>3. h \in [0..n -> V]
  BY <1>2
<1>4. h[0] = base
  <2>1. 1..0 = {} /\ {} \in SUBSET (1..n) /\ 0 \in 0..n
    OBVIOUS
  <2>2. g[{}] = base
    BY <1>1, <2>1 DEF Folds
  <2>3. h[0] = g[1..0]
    BY <2>1
  <2> QED  BY <2>1, <2>2, <2>3, Zenon
<1>5. ASSUME NEW k \in 1..n
      PROVE  h[k] = F[<<h[k - 1], k>>]
  <2>1. /\ 1..k \in SUBSET (1..n) /\ 1..k # {}
        /\ Max(1..k) = k /\ (1..k) \ {Max(1..k)} = 1..(k - 1)
    BY LastPlace
  <2>2. k \in 0..n /\ k - 1 \in 0..n
    OBVIOUS
  <2>3. g[1..k] = F[<<g[(1..k) \ {Max(1..k)}], Max(1..k)>>]
    BY <1>1, <2>1 DEF Folds
  <2> QED  BY <2>1, <2>2, <2>3
<1> HIDE DEF h
<1>6. Steps(h, n, base, F)
  BY <1>4, <1>5 DEF Steps
<1> QED  BY <1>3, <1>6

-----------------------------------------------------------------------------
(* Numbers in bytes (struct).                                               *)

(* What is left of a number after each of its bytes. *)
LEMMA LeftSteps ==
  ASSUME NEW n \in Nat, NEW w \in Nat
  PROVE  LET left == Left(n, w)
         IN  /\ left \in [0..w -> Nat] /\ left[0] = n
             /\ \A i \in 1..w : left[i] = left[i - 1] \div Base
<1> DEFINE Eq(f) == f = [i \in 0..w |-> IF i = 0 THEN n ELSE f[i - 1] \div Base]
           F == [p \in Nat \X (1..w) |-> p[1] \div Base]
           left == Left(n, w)
<1>1. Base \in Nat \ {0} /\ \A m \in Nat : m \div Base \in Nat
  BY BaseAssumption
<1>2. F \in [Nat \X (1..w) -> Nat]
  BY <1>1
<1>3. PICK h \in [0..w -> Nat] : Steps(h, w, n, F)
  <2> DEFINE V == Nat
  <2>1. n \in V /\ F \in [V \X (1..w) -> V]
    BY <1>2
  <2> HIDE DEF F, V
  <2>2. w \in Nat
    OBVIOUS
  <2>3. \E h \in [0..w -> V] : Steps(h, w, n, F)
    BY <2>1, <2>2, StepsExist
  <2> QED  BY <2>3 DEF V
<1>4. ASSUME NEW k \in 1..w
      PROVE  h[k] = h[k - 1] \div Base
  <2>1. k - 1 \in 0..w
    OBVIOUS
  <2>2. h[k - 1] \in Nat
    BY <2>1
  <2>3. F[<<h[k - 1], k>>] = h[k - 1] \div Base
    BY <2>2
  <2> QED  BY <1>3, <2>3 DEF Steps
<1> HIDE DEF F
<1>5. Eq(h)
  <2>1. h = [i \in 0..w |-> h[i]]
    OBVIOUS
  <2>2. ASSUME NEW i \in 0..w
        PROVE  h[i] = IF i = 0 THEN n ELSE h[i - 1] \div Base
    <3>1. CASE i = 0
      BY <1>3, <3>1 DEF Steps
    <3>2. CASE i # 0
      <4>1. i \in 1..w
        BY <3>2
      <4> QED  BY <1>4, <3>2, <4>1
    <3> QED  BY <3>1, <3>2
  <2> QED  BY <2>1, <2>2
<1>6. left = CHOOSE f : Eq(f)
  BY DEF Left
<1>7. Eq(left)
  <2> HIDE DEF Eq, left
  <2> QED  BY <1>5, <1>6
<1> HIDE DEF left
<1>8. left[0] = n /\ \A i \in 1..w : left[i] = left[i - 1] \div Base
  BY <1>7
<1> DEFINE D == {k \in 0..w : left[k] \in Nat}
<1>9. 0 \in D
  BY <1>8
<1>10. ASSUME NEW k \in 0..(w - 1), k \in D
       PROVE  k + 1 \in D
  <2>1. k + 1 \in 1..w /\ k + 1 \in 0..w /\ (k + 1) - 1 = k
    OBVIOUS
  <2>2. left[k + 1] = left[k] \div Base
    BY <1>8, <2>1
  <2> QED  BY <1>1, <1>10, <2>1, <2>2
<1> HIDE DEF D
<1>11. \A k \in 0..w : k \in D
  BY <1>9, <1>10, UpTo
<1>12. left \in [0..w -> Nat]
  BY <1>7, <1>11 DEF D
<1> QED  BY <1>8, <1>12 DEF left

(* A byte and what is left make up the number. *)
LEMMA DivBase ==
  ASSUME NEW m \in Nat
  PROVE  m \div Base \in Nat /\ m % Base \in 0..(Base - 1) /\ (m % Base) + Base * (m \div Base) = m
  BY BaseAssumption

(* A number that fits in its bytes comes out of them again.                  *)
LEMMA NumberOfBytes ==
  ASSUME NEW n \in Nat, NEW w \in Nat, InBytes(n, w)
  PROVE  /\ Bytes(n, w) \in Seq(0..(Base - 1)) /\ Len(Bytes(n, w)) = w
         /\ Number(Bytes(n, w)) = n
<1> DEFINE left == Left(n, w)
           b == Bytes(n, w)
           Eq(f) == f = [i \in 0..w |-> IF i = 0 THEN 0 ELSE b[w + 1 - i] + Base * f[i - 1]]
           h == [i \in 0..w |-> left[w - i]]
<1>1. /\ left \in [0..w -> Nat] /\ left[0] = n /\ left[w] = 0
      /\ \A i \in 1..w : left[i] = left[i - 1] \div Base
  BY LeftSteps DEF InBytes
<1>2. b = [i \in 1..w |-> left[i - 1] % Base]
  BY DEF Bytes
<1> HIDE DEF left
<1>3. ASSUME NEW i \in 1..w
      PROVE  left[i - 1] % Base \in 0..(Base - 1)
  <2>1. i - 1 \in 0..w
    OBVIOUS
  <2>2. left[i - 1] \in Nat
    BY <1>1, <2>1
  <2> QED  BY <2>2, DivBase
<1>4. b \in Seq(0..(Base - 1)) /\ Len(b) = w /\ \A i \in 1..w : b[i] = left[i - 1] % Base
  <2> DEFINE V == 0..(Base - 1)
  <2>1. b \in [1..w -> V] /\ \A i \in 1..w : b[i] = left[i - 1] % Base
    BY <1>2, <1>3
  <2> HIDE DEF V, b
  <2>2. b \in Seq(V) /\ Len(b) = w
    BY <2>1, SeqDef, LenProperties
  <2> QED  BY <2>1, <2>2 DEF V
<1>5. Number(b) = (CHOOSE f : Eq(f))[w]
  BY <1>4 DEF Number
<1> HIDE DEF b
<1>6. Eq(h)
  <2>1. ASSUME NEW i \in 1..w
        PROVE  h[i] = b[w + 1 - i] + Base * h[i - 1]
    <3>1. /\ w + 1 - i \in 1..w /\ (w + 1 - i) - 1 = w - i /\ w - i \in 0..w
          /\ w - (i - 1) = w + 1 - i /\ i \in 0..w /\ i - 1 \in 0..w
      OBVIOUS
    <3>2. h[i] = left[w - i] /\ h[i - 1] = left[w + 1 - i]
      BY <3>1
    <3>3. b[w + 1 - i] = left[w - i] % Base /\ left[w + 1 - i] = left[w - i] \div Base
      BY <1>1, <1>4, <3>1
    <3>4. PICK m \in Nat : m = left[w - i]
      BY <1>1, <3>1
    <3>5. (m % Base) + Base * (m \div Base) = m
      BY DivBase
    <3>6. h[i] = m /\ b[w + 1 - i] = m % Base /\ h[i - 1] = m \div Base
      BY <3>2, <3>3, <3>4
    <3> HIDE DEF h
    <3> QED  BY <3>5, <3>6
  <2>2. h[0] = 0
    BY <1>1
  <2>3. h = [i \in 0..w |-> h[i]]
    OBVIOUS
  <2> HIDE DEF h
  <2>4. ASSUME NEW i \in 0..w
        PROVE  h[i] = IF i = 0 THEN 0 ELSE b[w + 1 - i] + Base * h[i - 1]
    <3>1. CASE i = 0
      BY <2>2, <3>1
    <3>2. CASE i # 0
      <4>1. i \in 1..w
        BY <3>2
      <4> QED  BY <2>1, <3>2, <4>1
    <3> QED  BY <3>1, <3>2
  <2> QED  BY <2>3, <2>4
<1> DEFINE it == CHOOSE f : Eq(f)
<1>7. Eq(it)
  <2> HIDE DEF Eq
  <2> QED  BY <1>6
<1>8. h[w] = n
  BY <1>1
<1> HIDE DEF it
<1> DEFINE D == {k \in 0..w : it[k] = h[k]}
<1>9. 0 \in D
  <2>1. 0 \in 0..w
    OBVIOUS
  <2>2. it[0] = 0
    BY <1>7, <2>1
  <2>3. h[0] = 0
    BY <1>1
  <2> HIDE DEF h
  <2> QED  BY <2>1, <2>2, <2>3
<1>10. ASSUME NEW k \in 0..(w - 1), k \in D
       PROVE  k + 1 \in D
  <2>1. k + 1 \in 0..w /\ k + 1 # 0 /\ (k + 1) - 1 = k
    OBVIOUS
  <2> HIDE DEF h
  <2>2. it[k + 1] = b[w + 1 - (k + 1)] + Base * it[k]
    BY <1>7, <2>1
  <2>3. h[k + 1] = b[w + 1 - (k + 1)] + Base * h[k]
    BY <1>6, <2>1
  <2> QED  BY <1>10, <2>1, <2>2, <2>3
<1> HIDE DEF D
<1>11. w \in D
  BY <1>9, <1>10, UpTo
<1>12. it[w] = n
  <2> HIDE DEF h
  <2> QED  BY <1>8, <1>11 DEF D
<1> QED  BY <1>4, <1>5, <1>12 DEF b, it

-----------------------------------------------------------------------------
(* Where rows come once they are put one after the other.                   *)
Offsets(off, ss) == off[0] = 0 /\ \A k \in 1..Len(ss) : off[k] = off[k - 1] + Len(ss[k])
At(row, o, a) == o + Len(a) =< Len(row) /\ \A j \in 1..Len(a) : row[o + j] = a[j]
LaidOut(row, off, ss, n) ==
  Len(row) = off[n] /\ \A k \in 1..n : At(row, off[k - 1], ss[k])

LEMMA OffsetsExist ==
  ASSUME NEW S, NEW ss \in Seq(Seq(S))
  PROVE  \E off \in [0..Len(ss) -> Nat] : Offsets(off, ss)
<1> DEFINE n == Len(ss)
           F == [p \in Nat \X (1..n) |-> p[1] + Len(ss[p[2]])]
           V == Nat
<1>1. n \in Nat /\ \A k \in 1..n : ss[k] \in Seq(S)
  OBVIOUS
<1>2. \A k \in 1..n : Len(ss[k]) \in Nat
  BY <1>1
<1> HIDE DEF n
<1>3. 0 \in V /\ F \in [V \X (1..n) -> V]
  BY <1>2
<1> HIDE DEF F, V
<1>4. PICK off \in [0..n -> V] : Steps(off, n, 0, F)
  BY <1>1, <1>3, StepsExist
<1>5. ASSUME NEW k \in 1..n
      PROVE  off[k] = off[k - 1] + Len(ss[k])
  <2>1. k - 1 \in 0..n
    BY <1>1
  <2>2. off[k - 1] \in Nat
    BY <2>1 DEF V
  <2>3. F[<<off[k - 1], k>>] = off[k - 1] + Len(ss[k])
    BY <2>2 DEF F
  <2> QED  BY <1>4, <2>3 DEF Steps
<1> QED  BY <1>4, <1>5 DEF Steps, Offsets, V, n

(* A row stays where it is when others come after it. *)
LEMMA AtLonger ==
  ASSUME NEW S, NEW a \in Seq(S), NEW b \in Seq(S), NEW o \in Nat, NEW d, Len(d) \in Nat, At(a, o, d)
  PROVE  At(a \o b, o, d)
<1> DEFINE c == a \o b
<1>1. /\ Len(c) = Len(a) + Len(b) /\ Len(a) \in Nat /\ Len(b) \in Nat
      /\ \A j \in 1..Len(a) : c[j] = a[j]
  OBVIOUS
<1> HIDE DEF c
<1>2. o + Len(d) =< Len(a) /\ \A j \in 1..Len(d) : a[o + j] = d[j]
  BY DEF At
<1>3. \A j \in 1..Len(d) : o + j \in 1..Len(a)
  BY <1>1, <1>2
<1>4. o + Len(d) =< Len(c) /\ \A j \in 1..Len(d) : c[o + j] = d[j]
  BY <1>1, <1>2, <1>3
<1> QED  BY <1>4 DEF At, c

(* Rows that are put one after the other are each at their offset. *)
LEMMA FlattenLaidOut ==
  ASSUME NEW S, NEW ss \in Seq(Seq(S)), NEW off \in [0..Len(ss) -> Nat], Offsets(off, ss)
  PROVE  FlattenSeq(ss) \in Seq(S) /\ LaidOut(FlattenSeq(ss), off, ss, Len(ss))
<1> DEFINE n == Len(ss)
<1>1. PICK h \in [0..n -> Seq(S)] :
        h[0] = <<>> /\ FlattenSeq(ss) = h[n] /\ \A k \in 1..n : h[k] = h[k - 1] \o ss[k]
  BY FlattenByStep
<1>2. n \in Nat /\ \A k \in 1..n : ss[k] \in Seq(S)
  OBVIOUS
<1>3. \A k \in 0..n : h[k] \in Seq(S)
  OBVIOUS
<1>4. /\ off[0] = 0 /\ \A k \in 1..n : off[k] = off[k - 1] + Len(ss[k])
      /\ \A k \in 0..n : off[k] \in Nat
  BY DEF Offsets
<1> HIDE DEF n
<1> DEFINE D == {k \in 0..n : LaidOut(h[k], off, ss, k)}
<1>5. 0 \in D
  <2>1. LaidOut(h[0], off, ss, 0)
    BY <1>1, <1>4 DEF LaidOut
  <2> QED  BY <1>2, <2>1
<1>6. ASSUME NEW k \in 0..(n - 1), k \in D
      PROVE  k + 1 \in D
  <2> DEFINE a == h[k]
             b == ss[k + 1]
  <2>1. k + 1 \in 1..n /\ (k + 1) - 1 = k /\ k + 1 \in 0..n /\ k \in 0..n
    BY <1>2
  <2>2. a \in Seq(S) /\ b \in Seq(S) /\ h[k + 1] = a \o b
    BY <1>1, <1>2, <1>3, <2>1
  <2>3. LaidOut(a, off, ss, k) /\ off[k + 1] = off[k] + Len(b)
    BY <1>4, <1>6, <2>1
  <2> HIDE DEF a, b
  <2> DEFINE c == a \o b
  <2>4. /\ c \in Seq(S) /\ Len(c) = Len(a) + Len(b) /\ Len(a) \in Nat /\ Len(b) \in Nat
        /\ \A j \in 1..Len(a) : c[j] = a[j]
        /\ \A j \in 1..Len(b) : c[Len(a) + j] = b[j]
    BY <2>2
  <2> HIDE DEF c
  <2>5. Len(a) = off[k] /\ Len(c) = off[k + 1]
    BY <2>3, <2>4 DEF LaidOut
  <2>6. ASSUME NEW i \in 1..(k + 1)
        PROVE  At(c, off[i - 1], ss[i])
    <3>1. CASE i = k + 1
      <4>1. off[i - 1] = Len(a) /\ ss[i] = b
        BY <2>5, <3>1 DEF b
      <4> QED  BY <2>4, <4>1 DEF At
    <3>2. CASE i # k + 1
      <4>1. i \in 1..k /\ i \in 1..n /\ i - 1 \in 0..n
        BY <1>2, <2>1, <3>2
      <4>2. At(a, off[i - 1], ss[i])
        BY <2>3, <4>1 DEF LaidOut
      <4>3. off[i - 1] \in Nat
        BY <1>4, <4>1
      <4>4. ss[i] \in Seq(S)
        BY <1>2, <4>1
      <4>5. Len(ss[i]) \in Nat
        BY <4>4
      <4> QED  BY <2>2, <4>2, <4>3, <4>5, AtLonger DEF c
    <3> QED  BY <3>1, <3>2
  <2>7. LaidOut(c, off, ss, k + 1)
    BY <2>5, <2>6 DEF LaidOut
  <2> QED  BY <2>1, <2>2, <2>7 DEF c
<1> HIDE DEF D
<1>7. n \in D
  <2>1. \A k \in 0..n : k \in D
    BY <1>2, <1>5, <1>6, UpTo
  <2> QED  BY <1>2, <2>1
<1> QED  BY <1>1, <1>2, <1>3, <1>7 DEF D, n

(* What is at a place is cut out there. *)
LEMMA SliceAt ==
  ASSUME NEW S, NEW row \in Seq(S), NEW a \in Seq(S), NEW o \in Nat, At(row, o, a)
  PROVE  SubSeq(row, o + 1, o + Len(a)) = a
<1> DEFINE b == SubSeq(row, o + 1, o + Len(a))
<1>1. Len(a) \in Nat /\ Len(row) \in Nat /\ o + Len(a) =< Len(row)
  BY DEF At
<1>2. b \in Seq(S) /\ Len(b) = Len(a) /\ \A j \in 1..Len(a) : b[j] = row[o + j]
  <2>1. o + 1 \in 1..(Len(row) + 1) /\ o + Len(a) \in o..Len(row)
    BY <1>1
  <2>2. /\ b \in Seq(S)
        /\ Len(b) = IF o + 1 =< o + Len(a) THEN (o + Len(a)) - (o + 1) + 1 ELSE 0
        /\ \A j \in 1..((o + Len(a)) - (o + 1) + 1) : b[j] = row[(o + 1) + j - 1]
    BY <1>1, <2>1
  <2> HIDE DEF b
  <2>3. Len(b) = Len(a)
    BY <1>1, <2>2
  <2>4. \A j \in 1..Len(a) : (o + 1) + j - 1 = o + j /\ j \in 1..((o + Len(a)) - (o + 1) + 1)
    BY <1>1
  <2> QED  BY <2>2, <2>3, <2>4
<1> HIDE DEF b
<1>3. \A j \in 1..Len(a) : b[j] = a[j]
  BY <1>2 DEF At
<1>4. b = a
  BY <1>2, <1>3, SeqEqual
<1> QED  BY <1>4 DEF b

(* What is put together in two parts comes out in two.                      *)
LEMMA AtParts ==
  ASSUME NEW S, NEW row \in Seq(S), NEW a \in Seq(S), NEW b \in Seq(S), NEW o \in Nat,
         At(row, o, a \o b)
  PROVE  At(row, o, a) /\ At(row, o + Len(a), b)
<1> DEFINE c == a \o b
<1>1. /\ Len(c) = Len(a) + Len(b) /\ Len(a) \in Nat /\ Len(b) \in Nat /\ Len(row) \in Nat
      /\ \A j \in 1..Len(a) : c[j] = a[j]
      /\ \A j \in 1..Len(b) : c[Len(a) + j] = b[j]
  OBVIOUS
<1>2. At(row, o, c)
  OBVIOUS
<1> HIDE DEF c
<1>3. At(row, o, a)
  BY <1>1, <1>2 DEF At
<1>4. ASSUME NEW j \in 1..Len(b)
      PROVE  row[(o + Len(a)) + j] = b[j]
  <2>1. Len(a) + j \in 1..Len(c) /\ o + (Len(a) + j) = (o + Len(a)) + j
    BY <1>1
  <2>2. row[o + (Len(a) + j)] = c[Len(a) + j]
    BY <1>2, <2>1 DEF At
  <2> QED  BY <1>1, <2>1, <2>2
<1>5. (o + Len(a)) + Len(b) =< Len(row)
  BY <1>1, <1>2 DEF At
<1> QED  BY <1>3, <1>4, <1>5 DEF At

-----------------------------------------------------------------------------
(* Totals of rows, and how many elements a shape has.                       *)
Sums(p, s) == p[0] = 0 /\ \A k \in 1..Len(s) : p[k] = p[k - 1] + s[k]

LEMMA TotalIs ==
  ASSUME NEW s \in Seq(Nat), NEW p, Sums(p, s)
  PROVE  Total(s) = p[Len(s)]
<1> DEFINE n == Len(s)
<1>1. PICK h \in [0..n -> Nat] :
        h[0] = 0 /\ Total(s) = h[n] /\ \A k \in 1..n : h[k] = h[k - 1] + s[k]
  BY TotalByStep
<1>2. n \in Nat /\ p[0] = 0 /\ \A k \in 1..n : p[k] = p[k - 1] + s[k]
  BY DEF Sums
<1> HIDE DEF n
<1> DEFINE D == {k \in 0..n : h[k] = p[k]}
<1>3. 0 \in D
  BY <1>1, <1>2
<1>4. ASSUME NEW k \in 0..(n - 1), k \in D
      PROVE  k + 1 \in D
  <2>1. k + 1 \in 1..n /\ (k + 1) - 1 = k /\ k + 1 \in 0..n
    BY <1>2
  <2>2. h[k + 1] = h[k] + s[k + 1] /\ p[k + 1] = p[k] + s[k + 1]
    BY <1>1, <1>2, <2>1
  <2> QED  BY <1>4, <2>1, <2>2
<1> HIDE DEF D
<1>5. \A k \in 0..n : k \in D
  BY <1>2, <1>3, <1>4, UpTo
<1>6. n \in D
  BY <1>2, <1>5
<1> QED  BY <1>1, <1>6 DEF D, n

(* Partial sums, and products, have a value at each place. *)
LEMMA SumsExist ==
  ASSUME NEW s \in Seq(Nat)
  PROVE  \E p \in [0..Len(s) -> Nat] : Sums(p, s)
<1>1. PICK p \in [0..Len(s) -> Nat] : p[0] = 0 /\ \A k \in 1..Len(s) : p[k] = p[k - 1] + s[k]
  BY TotalByStep
<1>2. Sums(p, s)
  BY <1>1 DEF Sums
<1> QED  BY <1>2

LEMMA LengthByStep ==
  ASSUME NEW s \in Seq(Nat)
  PROVE  \E h \in [0..Len(s) -> Nat] :
           h[0] = 1 /\ Length(s) = h[Len(s)] /\ \A k \in 1..Len(s) : h[k] = h[k - 1] * s[k]
<1> DEFINE n == Len(s)
           F == [p \in Nat \X (1..n) |-> p[1] * s[p[2]]]
           Eq(g) == g = [T \in SUBSET (1..n) |->
                           IF T = {} THEN 1 ELSE g[T \ {Max(T)}] * s[Max(T)]]
<1>1. n \in Nat /\ DOMAIN s = 1..n /\ \A k \in 1..n : s[k] \in Nat
  OBVIOUS
<1>2. F \in [Nat \X (1..n) -> Nat]
  <2>1. \A a, b \in Nat : a * b \in Nat
    OBVIOUS
  <2> QED  BY <1>1, <2>1
<1>3. Length(s) = (CHOOSE g : Eq(g))[1..n]
  BY <1>1 DEF Length, FoldLeft, MapThenFoldSet
<1> HIDE DEF n
<1>4. \E x : Eq(x)
  <2>1. PICK g \in [SUBSET (1..n) -> Nat] : Folds(g, n, 1, F)
    <3> HIDE DEF F
    <3> QED  BY <1>1, <1>2, FoldExists
  <2>2. ASSUME NEW T \in SUBSET (1..n), T # {}
        PROVE  F[<<g[T \ {Max(T)}], Max(T)>>] = g[T \ {Max(T)}] * s[Max(T)]
    <3>1. Max(T) \in 1..n
      BY <1>1, <2>2, MaxOfPlaces
    <3>2. g[T \ {Max(T)}] \in Nat
      OBVIOUS
    <3> QED  BY <3>1, <3>2
  <2>3. Eq(g)
    BY <2>1, <2>2 DEF Folds
  <2> QED  BY <2>3
<1> DEFINE it == CHOOSE x : Eq(x)
<1>5. Eq(it)
  BY <1>4
<1> HIDE DEF it
<1> DEFINE h == [k \in 0..n |-> it[1..k]]
<1>6. h[0] = 1 /\ Length(s) = h[n]
  <2>1. it[1..0] = 1
    <3>1. 1..0 = {} /\ {} \in SUBSET (1..n)
      OBVIOUS
    <3>2. it[{}] = 1
      BY <1>5, <3>1
    <3> QED  BY <3>1, <3>2, Zenon
  <2>2. Length(s) = it[1..n]
    BY <1>3 DEF it
  <2>3. 0 \in 0..n /\ n \in 0..n
    BY <1>1
  <2> QED  BY <2>1, <2>2, <2>3, Zenon
<1>7. ASSUME NEW k \in 1..n
      PROVE  h[k] = h[k - 1] * s[k]
  <2>1. /\ 1..k \in SUBSET (1..n) /\ 1..k # {}
        /\ Max(1..k) = k /\ (1..k) \ {Max(1..k)} = 1..(k - 1)
    BY <1>1, LastPlace
  <2>2. k \in 0..n /\ k - 1 \in 0..n
    BY <1>1
  <2>3. it[1..k] = it[1..(k - 1)] * s[k]
    BY <1>5, <2>1
  <2> QED  BY <2>2, <2>3
<1>8. DOMAIN h = 0..n /\ h = [k \in 0..n |-> h[k]]
  OBVIOUS
<1> HIDE DEF Eq, F, h
<1> DEFINE D == {k \in 0..n : h[k] \in Nat}
<1>9. 0 \in D
  BY <1>1, <1>6
<1>10. ASSUME NEW k \in 0..(n - 1), k \in D
       PROVE  k + 1 \in D
  <2>1. k + 1 \in 1..n /\ (k + 1) - 1 = k /\ k + 1 \in 0..n
    BY <1>1
  <2>2. PICK a \in Nat, b \in Nat : a = h[k] /\ b = s[k + 1]
    BY <1>1, <1>10, <2>1
  <2>3. h[k + 1] = a * b /\ a * b \in Nat
    BY <1>7, <2>1, <2>2
  <2> QED  BY <2>1, <2>3
<1> HIDE DEF D
<1>11. \A k \in 0..n : k \in D
  BY <1>1, <1>9, <1>10, UpTo
<1>12. h \in [0..n -> Nat]
  BY <1>8, <1>11 DEF D
<1> QED  BY <1>6, <1>7, <1>12 DEF n

(* A shape has as many elements as it has rows, times those of a row.       *)
LEMMA LengthOfRows ==
  ASSUME NEW n \in Nat, NEW elem \in Seq(Nat)
  PROVE  Length(elem) \in Nat /\ Length(<<n>> \o elem) = n * Length(elem)
<1> DEFINE m == Len(elem)
           c == <<n>> \o elem
<1>1. /\ c \in Seq(Nat) /\ Len(c) = m + 1 /\ m \in Nat
      /\ c[1] = n /\ \A k \in 1..m : c[k + 1] = elem[k] /\ elem[k] \in Nat
  OBVIOUS
<1> HIDE DEF m, c
<1>2. PICK h \in [0..m -> Nat] :
        h[0] = 1 /\ Length(elem) = h[m] /\ \A k \in 1..m : h[k] = h[k - 1] * elem[k]
  BY LengthByStep DEF m
<1>3. PICK g \in [0..Len(c) -> Nat] :
        g[0] = 1 /\ Length(c) = g[Len(c)] /\ \A k \in 1..Len(c) : g[k] = g[k - 1] * c[k]
  BY <1>1, LengthByStep
<1> DEFINE D == {k \in 0..m : g[k + 1] = n * h[k]}
<1>4. 0 \in D
  <2>1. 1 \in 1..Len(c) /\ 1 - 1 = 0 /\ 0 \in 0..m
    BY <1>1
  <2>2. g[1] = g[0] * c[1]
    BY <1>3, <2>1
  <2>3. g[1] = n /\ h[0] = 1
    BY <1>1, <1>2, <1>3, <2>2
  <2> QED  BY <2>1, <2>3
<1>5. ASSUME NEW k \in 0..(m - 1), k \in D
      PROVE  k + 1 \in D
  <2>1. /\ k + 1 \in 1..m /\ (k + 1) - 1 = k /\ k + 1 \in 0..m /\ k \in 0..m
        /\ (k + 1) + 1 \in 1..Len(c) /\ ((k + 1) + 1) - 1 = k + 1
    BY <1>1
  <2>2. PICK a \in Nat, b \in Nat : a = h[k] /\ b = elem[k + 1]
    BY <1>1, <2>1
  <2>3. h[k + 1] = a * b
    BY <1>2, <2>1, <2>2
  <2>4. g[(k + 1) + 1] = g[k + 1] * c[(k + 1) + 1]
    BY <1>3, <2>1
  <2>5. c[(k + 1) + 1] = b /\ g[k + 1] = n * a
    BY <1>1, <1>5, <2>1, <2>2
  <2>6. (n * a) * b = n * (a * b)
    OBVIOUS
  <2> QED  BY <2>1, <2>3, <2>4, <2>5, <2>6
<1> HIDE DEF D
<1>6. \A k \in 0..m : k \in D
  BY <1>1, <1>4, <1>5, UpTo
<1>7. m \in D /\ m \in 0..m
  BY <1>1, <1>6
<1>8. g[m + 1] = n * h[m] /\ h[m] \in Nat
  BY <1>7 DEF D
<1> QED  BY <1>1, <1>2, <1>3, <1>8 DEF c

-----------------------------------------------------------------------------
(* What is packed comes out again (raw.py).                                 *)

(* Numbers: the i-th is in the i-th Width bytes.                            *)
LEMMA NumbersUnpacked ==
  ASSUME NEW t, NEW u, t.datatype \in DOMAIN Width, t.data \in Seq(ElementsOf(t.datatype)),
         Len(t.data) = Length(t.shape), u.datatype = t.datatype, u.shape = t.shape
  PROVE  UnpackNumbers(u, PackNumbers(t)) = t.data
<1> DEFINE n == Len(t.data)
           d == t.data
           w == Width[t.datatype]
           S == 0..(Base - 1)
           ss == [i \in 1..n |-> Bytes(d[i], w)]
           off == [k \in 0..n |-> k * w]
           raw == PackNumbers(t)
<1>1. w \in Nat \ {0} /\ t.datatype # "BYTES"
  BY DEF Width
<1>2. n \in Nat /\ \A i \in 1..n : d[i] \in ElementsOf(t.datatype)
  <2> DEFINE E == ElementsOf(t.datatype)
  <2> HIDE DEF E
  <2>1. d \in Seq(E)
    BY DEF E
  <2>2. n \in Nat /\ \A i \in 1..n : d[i] \in E
    BY <2>1
  <2> QED  BY <2>2 DEF E
<1>3. \A i \in 1..n : d[i] \in Nat /\ InBytes(d[i], w)
  BY <1>1, <1>2 DEF ElementsOf
<1>4. raw = FlattenSeq(ss)
  BY DEF PackNumbers
<1>5. UnpackNumbers(u, raw) = [i \in 1..n |-> Number(SubSeq(raw, (i - 1) * w + 1, i * w))]
  BY DEF UnpackNumbers
<1>6. d = [i \in 1..n |-> d[i]]
  <2> DEFINE E == ElementsOf(t.datatype)
  <2>1. d \in Seq(E)
    OBVIOUS
  <2> HIDE DEF E
  <2> QED  BY <2>1
<1> HIDE DEF n, w, d, raw
<1>7. \A i \in 1..n : /\ Bytes(d[i], w) \in Seq(S) /\ Len(Bytes(d[i], w)) = w
                      /\ Number(Bytes(d[i], w)) = d[i]
  BY <1>1, <1>3, NumberOfBytes
<1> HIDE DEF S
<1>8. ss \in Seq(Seq(S)) /\ Len(ss) = n /\ \A i \in 1..n : ss[i] = Bytes(d[i], w)
  <2> DEFINE V == Seq(S)
  <2>1. ss \in [1..n -> V] /\ \A i \in 1..n : ss[i] = Bytes(d[i], w)
    BY <1>7
  <2> HIDE DEF V, ss
  <2>2. ss \in Seq(V) /\ Len(ss) = n
    BY <1>2, <2>1, SeqDef, LenProperties
  <2> QED  BY <2>1, <2>2 DEF V
<1> HIDE DEF ss
<1>9. off \in [0..n -> Nat]
  BY <1>1, <1>2
<1>10. Offsets(off, ss)
  <2>1. off[0] = 0
    BY <1>1, <1>2
  <2>2. ASSUME NEW k \in 1..n
        PROVE  off[k] = off[k - 1] + Len(ss[k])
    <3>1. off[k] = k * w /\ off[k - 1] = (k - 1) * w
      BY <1>2
    <3>2. k * w = (k - 1) * w + w
      BY <1>1
    <3>3. Len(ss[k]) = w
      BY <1>7, <1>8
    <3> HIDE DEF off
    <3> QED  BY <3>1, <3>2, <3>3
  <2> HIDE DEF off
  <2> QED  BY <1>8, <2>1, <2>2 DEF Offsets
<1>11. raw \in Seq(S) /\ \A i \in 1..n : At(raw, off[i - 1], ss[i])
  <2> HIDE DEF off
  <2>1. off \in [0..Len(ss) -> Nat]
    BY <1>8, <1>9
  <2>2. FlattenSeq(ss) \in Seq(S) /\ LaidOut(FlattenSeq(ss), off, ss, Len(ss))
    BY <1>8, <1>10, <2>1, FlattenLaidOut
  <2> QED  BY <1>4, <1>8, <2>2 DEF LaidOut
<1>12. ASSUME NEW i \in 1..n
       PROVE  Number(SubSeq(raw, (i - 1) * w + 1, i * w)) = d[i]
  <2>1. off[i - 1] = (i - 1) * w /\ (i - 1) * w \in Nat /\ i * w = (i - 1) * w + w
    BY <1>1, <1>2
  <2>2. PICK o \in Nat : o = (i - 1) * w
    BY <2>1
  <2>3. At(raw, o, ss[i]) /\ ss[i] \in Seq(S) /\ Len(ss[i]) = w /\ ss[i] = Bytes(d[i], w)
    <3>1. off[i - 1] = o
      BY <2>1, <2>2
    <3> HIDE DEF off
    <3>2. At(raw, o, ss[i])
      BY <1>11, <3>1
    <3> QED  BY <1>7, <1>8, <3>2
  <2>4. SubSeq(raw, o + 1, o + Len(ss[i])) = ss[i]
    BY <1>11, <2>3, SliceAt
  <2>5. SubSeq(raw, (i - 1) * w + 1, i * w) = ss[i]
    BY <2>1, <2>2, <2>3, <2>4
  <2> QED  BY <1>7, <2>3, <2>5
<1>13. UnpackNumbers(u, raw) = d
  BY <1>5, <1>6, <1>12
<1> QED  BY <1>13 DEF raw, d

(* Strings: each after its length, so that where one ends the next begins.  *)
LEMMA StringsLaidOut ==
  ASSUME NEW d \in Seq(ElementsOf("BYTES"))
  PROVE  LET raw == PackStrings(d)
             n == Len(d)
         IN  /\ raw \in Seq(0..(Base - 1)) /\ n =< Len(raw)
             /\ \E off \in [0..n -> Nat] :
                  /\ off[0] = 0 /\ off[n] = Len(raw)
                  /\ \A k \in 1..n :
                       /\ off[k - 1] < Len(raw)
                       /\ Number(SubSeq(raw, off[k - 1] + 1, off[k - 1] + SizeWidth)) = Len(d[k])
                       /\ off[k] = off[k - 1] + SizeWidth + Len(d[k])
                       /\ SubSeq(raw, off[k - 1] + SizeWidth + 1, off[k]) = d[k]
<1> DEFINE n == Len(d)
           S == 0..(Base - 1)
           size(i) == Bytes(Len(d[i]), SizeWidth)
           ss == [i \in 1..n |-> size(i) \o d[i]]
           raw == PackStrings(d)
<1>1. SizeWidth \in Nat \ {0}
  BY BaseAssumption
<1>2. n \in Nat /\ \A i \in 1..n : d[i] \in ElementsOf("BYTES")
  <2> DEFINE E == ElementsOf("BYTES")
  <2> HIDE DEF E
  <2>1. d \in Seq(E)
    BY DEF E
  <2>2. n \in Nat /\ \A i \in 1..n : d[i] \in E
    BY <2>1
  <2> QED  BY <2>2 DEF E
<1>3. \A i \in 1..n : d[i] \in Seq(S) /\ InBytes(Len(d[i]), SizeWidth)
  BY <1>2 DEF ElementsOf
<1>4. raw = FlattenSeq(ss)
  BY DEF PackStrings
<1> HIDE DEF n, raw
<1>5. \A i \in 1..n : Len(d[i]) \in Nat
  BY <1>3
<1>6. \A i \in 1..n : /\ size(i) \in Seq(S) /\ Len(size(i)) = SizeWidth
                      /\ Number(size(i)) = Len(d[i])
  BY <1>1, <1>3, <1>5, NumberOfBytes
<1> HIDE DEF S, size
<1>7. \A i \in 1..n : size(i) \o d[i] \in Seq(S) /\ Len(size(i) \o d[i]) = SizeWidth + Len(d[i])
  <2> SUFFICES ASSUME NEW i \in 1..n
               PROVE  size(i) \o d[i] \in Seq(S) /\ Len(size(i) \o d[i]) = SizeWidth + Len(d[i])
    OBVIOUS
  <2>1. size(i) \in Seq(S) /\ d[i] \in Seq(S) /\ Len(size(i)) = SizeWidth
    BY <1>3, <1>6
  <2> QED  BY <2>1
<1>8. ss \in Seq(Seq(S)) /\ Len(ss) = n /\ \A i \in 1..n : ss[i] = size(i) \o d[i]
  <2> DEFINE V == Seq(S)
  <2>1. ss \in [1..n -> V] /\ \A i \in 1..n : ss[i] = size(i) \o d[i]
    BY <1>7
  <2> HIDE DEF V, ss
  <2>2. ss \in Seq(V) /\ Len(ss) = n
    BY <1>2, <2>1, SeqDef, LenProperties
  <2> QED  BY <2>1, <2>2 DEF V
<1> HIDE DEF ss
<1>9. PICK off \in [0..n -> Nat] : Offsets(off, ss)
  BY <1>8, OffsetsExist
<1>10. raw \in Seq(S) /\ LaidOut(raw, off, ss, n)
  <2>1. off \in [0..Len(ss) -> Nat]
    BY <1>8
  <2>2. FlattenSeq(ss) \in Seq(S) /\ LaidOut(FlattenSeq(ss), off, ss, Len(ss))
    BY <1>8, <1>9, <2>1, FlattenLaidOut
  <2> QED  BY <1>4, <1>8, <2>2
<1>11. Len(raw) \in Nat /\ off[n] = Len(raw) /\ off[0] = 0
  BY <1>9, <1>10 DEF LaidOut, Offsets
<1>12. ASSUME NEW k \in 1..n
       PROVE  /\ off[k - 1] \in Nat /\ off[k - 1] < Len(raw)
              /\ Number(SubSeq(raw, off[k - 1] + 1, off[k - 1] + SizeWidth)) = Len(d[k])
              /\ off[k] = off[k - 1] + SizeWidth + Len(d[k])
              /\ SubSeq(raw, off[k - 1] + SizeWidth + 1, off[k]) = d[k]
  <2>1. PICK o \in Nat : o = off[k - 1]
    BY <1>2
  <2>2. At(raw, o, size(k) \o d[k])
    BY <1>8, <1>10, <2>1 DEF LaidOut
  <2>3. /\ size(k) \in Seq(S) /\ Len(size(k)) = SizeWidth /\ d[k] \in Seq(S) /\ Len(d[k]) \in Nat
        /\ Number(size(k)) = Len(d[k])
    BY <1>3, <1>5, <1>6
  <2>4. At(raw, o, size(k)) /\ At(raw, o + SizeWidth, d[k])
    <3>1. At(raw, o, size(k)) /\ At(raw, o + Len(size(k)), d[k])
      BY <1>10, <2>2, <2>3, AtParts
    <3> QED  BY <2>3, <3>1
  <2>5. off[k] = o + SizeWidth + Len(d[k])
    <3>1. off[k] = off[k - 1] + Len(ss[k])
      BY <1>8, <1>9 DEF Offsets
    <3>2. Len(ss[k]) = SizeWidth + Len(d[k])
      BY <1>7, <1>8
    <3>3. off[k] = o + (SizeWidth + Len(d[k]))
      BY <2>1, <3>1, <3>2
    <3>4. o + (SizeWidth + Len(d[k])) = o + SizeWidth + Len(d[k])
      <4>1. PICK l \in Nat : l = Len(d[k])
        BY <2>3
      <4>2. o + (SizeWidth + l) = o + SizeWidth + l
        BY <1>1
      <4> QED  BY <4>1, <4>2, Zenon
    <3> QED  BY <3>3, <3>4
  <2>6. SubSeq(raw, o + 1, o + SizeWidth) = size(k)
    <3>1. SubSeq(raw, o + 1, o + Len(size(k))) = size(k)
      BY <1>10, <2>3, <2>4, SliceAt
    <3> QED  BY <2>3, <3>1
  <2>7. PICK q \in Nat : q = o + SizeWidth
    BY <1>1
  <2>8. SubSeq(raw, q + 1, q + Len(d[k])) = d[k]
    <3>1. At(raw, q, d[k])
      BY <2>4, <2>7
    <3> QED  BY <1>10, <2>3, <3>1, SliceAt
  <2>9. o < Len(raw)
    <3>1. o + SizeWidth =< Len(raw)
      BY <2>3, <2>4 DEF At
    <3> QED  BY <1>1, <1>11, <3>1
  <2>10. SubSeq(raw, o + SizeWidth + 1, off[k]) = d[k]
    BY <2>5, <2>7, <2>8
  <2> QED  BY <2>1, <2>3, <2>5, <2>6, <2>9, <2>10
<1>13. n =< Len(raw)
  <2> DEFINE D == {k \in 0..n : k =< off[k]}
  <2>1. 0 \in D
    BY <1>2, <1>11
  <2>2. ASSUME NEW k \in 0..(n - 1), k \in D
        PROVE  k + 1 \in D
    <3>1. k + 1 \in 1..n /\ (k + 1) - 1 = k /\ k + 1 \in 0..n /\ k \in 0..n /\ off[k] \in Nat
      BY <1>2
    <3>2. off[k + 1] = off[k] + SizeWidth + Len(d[k + 1]) /\ Len(d[k + 1]) \in Nat
      BY <1>5, <1>12, <3>1
    <3> QED  BY <1>1, <2>2, <3>1, <3>2
  <2> HIDE DEF D
  <2>3. \A k \in 0..n : k \in D
    BY <1>2, <2>1, <2>2, UpTo
  <2>4. n \in D
    BY <1>2, <2>3
  <2> QED  BY <1>11, <2>4 DEF D
<1> QED  BY <1>9, <1>10, <1>11, <1>12, <1>13 DEF n, raw, S

(* The rounds of the loop of _unpack_bytes, one string each.                *)
LEMMA StringsUnpacked ==
  ASSUME NEW d \in Seq(ElementsOf("BYTES"))
  PROVE  UnpackStrings(PackStrings(d)) = d
<1> DEFINE n == Len(d)
           raw == PackStrings(d)
           S == ElementsOf("BYTES")
           m == Len(raw)
           SizeAt(o) == Number(SubSeq(raw, o + 1, o + SizeWidth))
           After(r) == [offset |-> r.offset + SizeWidth + SizeAt(r.offset),
                        elems |-> Append(r.elems, SubSeq(raw, r.offset + SizeWidth + 1,
                                                         r.offset + SizeWidth + SizeAt(r.offset)))]
           Eq(f) == f = [k \in 0..m |->
                           IF k = 0 THEN [offset |-> 0, elems |-> <<>>]
                           ELSE IF f[k - 1].offset < m THEN After(f[k - 1]) ELSE f[k - 1]]
<1>1. n \in Nat /\ m \in Nat /\ n =< m
  <2>1. raw \in Seq(0..(Base - 1)) /\ n =< m
    BY StringsLaidOut
  <2> QED  BY <2>1
<1>2. PICK off \in [0..n -> Nat] :
        /\ off[0] = 0 /\ off[n] = m
        /\ \A k \in 1..n : /\ off[k - 1] < m /\ SizeAt(off[k - 1]) = Len(d[k])
                           /\ off[k] = off[k - 1] + SizeWidth + Len(d[k])
                           /\ SubSeq(raw, off[k - 1] + SizeWidth + 1, off[k]) = d[k]
  BY StringsLaidOut
<1>3. UnpackStrings(raw) = (CHOOSE f : Eq(f))[m].elems
  BY DEF UnpackStrings
<1> HIDE DEF n, raw, S, m
<1> DEFINE at(k) == IF k =< n THEN k ELSE n
           h == [k \in 0..m |-> [offset |-> off[at(k)], elems |-> SubSeq(d, 1, at(k))]]
<1>4. ASSUME NEW k \in 1..n
      PROVE  After([offset |-> off[k - 1], elems |-> SubSeq(d, 1, k - 1)]) =
               [offset |-> off[k], elems |-> SubSeq(d, 1, k)]
  <2> DEFINE r == [offset |-> off[k - 1], elems |-> SubSeq(d, 1, k - 1)]
  <2>1. r.offset = off[k - 1] /\ r.elems = SubSeq(d, 1, k - 1)
    OBVIOUS
  <2> HIDE DEF r
  <2>2. r.offset + SizeWidth + SizeAt(r.offset) = off[k]
    BY <1>2, <2>1
  <2>3. SubSeq(raw, r.offset + SizeWidth + 1, r.offset + SizeWidth + SizeAt(r.offset)) = d[k]
    BY <1>2, <2>1, <2>2
  <2>4. Append(SubSeq(d, 1, k - 1), d[k]) = SubSeq(d, 1, k)
    <3> DEFINE a == SubSeq(d, 1, k - 1)
               b == SubSeq(d, 1, k)
    <3>1. d \in Seq(S) /\ d[k] \in S
      <4>1. d \in Seq(S)
        BY DEF S
      <4> QED  BY <4>1 DEF n
    <3>2. a \in Seq(S) /\ Len(a) = k - 1 /\ \A i \in 1..(k - 1) : a[i] = d[i]
      BY <1>1, <3>1 DEF n
    <3>3. b \in Seq(S) /\ Len(b) = k /\ \A i \in 1..k : b[i] = d[i]
      BY <1>1, <3>1 DEF n
    <3> HIDE DEF a, b
    <3> DEFINE c == Append(a, d[k])
    <3>4. c \in Seq(S) /\ Len(c) = k /\ \A i \in 1..k : c[i] = IF i = k THEN d[k] ELSE a[i]
      BY <3>1, <3>2
    <3> HIDE DEF c
    <3>5. \A i \in 1..k : c[i] = b[i]
      BY <3>2, <3>3, <3>4
    <3>6. c = b
      BY <3>3, <3>4, <3>5, SeqEqual
    <3> QED  BY <3>6 DEF a, b, c
  <2>5. After(r) = [offset |-> off[k], elems |-> Append(r.elems, d[k])]
    BY <2>2, <2>3
  <2> HIDE DEF After
  <2> QED  BY <2>1, <2>4, <2>5 DEF r
<1> HIDE DEF After
<1>5. Eq(h)
  <2>1. ASSUME NEW k \in 0..m
        PROVE  h[k] = IF k = 0 THEN [offset |-> 0, elems |-> <<>>]
                      ELSE IF h[k - 1].offset < m THEN After(h[k - 1]) ELSE h[k - 1]
    <3>1. CASE k = 0
      <4>1. at(k) = 0 /\ SubSeq(d, 1, 0) = <<>>
        BY <1>1, <3>1
      <4> QED  BY <1>2, <3>1, <4>1
    <3>2. CASE k \in 1..n
      <4>1. at(k) = k /\ at(k - 1) = k - 1 /\ k - 1 \in 0..m /\ k # 0
        BY <1>1, <3>2
      <4>2. /\ h[k] = [offset |-> off[k], elems |-> SubSeq(d, 1, k)]
            /\ h[k - 1] = [offset |-> off[k - 1], elems |-> SubSeq(d, 1, k - 1)]
        BY <4>1
      <4>3. h[k - 1].offset < m
        BY <1>2, <3>2, <4>2
      <4>4. h[k] = After(h[k - 1])
        BY <1>4, <3>2, <4>2
      <4> HIDE DEF h
      <4> QED  BY <4>1, <4>3, <4>4
    <3>3. CASE k \notin 0..n
      <4>1. at(k) = n /\ at(k - 1) = n /\ k - 1 \in 0..m /\ k # 0
        BY <1>1, <3>3
      <4>2. h[k] = h[k - 1] /\ h[k - 1].offset = m
        BY <1>2, <4>1
      <4> HIDE DEF h
      <4> QED  BY <1>1, <4>1, <4>2
    <3>4. k = 0 \/ k \in 1..n \/ k \notin 0..n
      BY <1>1
    <3> QED  BY <3>1, <3>2, <3>3, <3>4
  <2>2. h = [k \in 0..m |-> h[k]]
    OBVIOUS
  <2> HIDE DEF h
  <2> QED  BY <2>1, <2>2
<1>6. h[m].elems = SubSeq(d, 1, n)
  BY <1>1
<1> HIDE DEF h
<1> DEFINE it == CHOOSE f : Eq(f)
<1>7. Eq(it)
  <2> HIDE DEF Eq
  <2> QED  BY <1>5
<1> HIDE DEF it
<1> DEFINE D == {k \in 0..m : it[k] = h[k]}
<1>8. 0 \in D
  BY <1>1, <1>5, <1>7
<1>9. ASSUME NEW k \in 0..(m - 1), k \in D
      PROVE  k + 1 \in D
  <2>1. k + 1 \in 0..m /\ k + 1 # 0 /\ (k + 1) - 1 = k
    BY <1>1
  <2>2. it[k + 1] = IF it[k].offset < m THEN After(it[k]) ELSE it[k]
    BY <1>7, <2>1
  <2>3. h[k + 1] = IF h[k].offset < m THEN After(h[k]) ELSE h[k]
    BY <1>5, <2>1
  <2>4. it[k] = h[k]
    BY <1>9
  <2> QED  BY <2>1, <2>2, <2>3, <2>4
<1> HIDE DEF D
<1>10. it[m] = h[m]
  <2>1. \A k \in 0..m : k \in D
    BY <1>1, <1>8, <1>9, UpTo
  <2>2. m \in D
    BY <1>1, <2>1
  <2> QED  BY <2>2 DEF D
<1>11. SubSeq(d, 1, n) = d
  <2>1. d \in Seq(S)
    BY DEF S
  <2> QED  BY <2>1 DEF n
<1>12. UnpackStrings(raw) = it[m].elems
  BY <1>3 DEF it
<1> QED  BY <1>6, <1>10, <1>11, <1>12 DEF raw

(* Those that are chosen from a row, each at the place that the number of   *)
(* those before it gives (inject_raw).                                      *)
Picks(row, v, T) ==
  /\ \A k \in T : row[Cardinality(T \cap (1..k))] = v[k]
  /\ row = <<>> <=> T = {}

LEMMA Chosen ==
  ASSUME NEW n \in Nat, NEW S, NEW v \in [1..n -> S], NEW T \in SUBSET (1..n)
  PROVE  Picks(FlattenSeq([i \in 1..n |-> IF i \in T THEN <<v[i]>> ELSE <<>>]), v, T)
<1> DEFINE ss == [i \in 1..n |-> IF i \in T THEN <<v[i]>> ELSE <<>>]
           row == FlattenSeq(ss)
           off == [k \in 0..n |-> Cardinality(T \cap (1..k))]
<1>1. ss \in Seq(Seq(S)) /\ Len(ss) = n /\ \A i \in 1..n : ss[i] = IF i \in T THEN <<v[i]>> ELSE <<>>
  <2> DEFINE V == Seq(S)
  <2>1. \A i \in 1..n : <<v[i]>> \in V /\ <<>> \in V
    OBVIOUS
  <2> HIDE DEF V
  <2>2. ss \in [1..n -> V] /\ \A i \in 1..n : ss[i] = IF i \in T THEN <<v[i]>> ELSE <<>>
    BY <2>1
  <2> HIDE DEF ss
  <2>3. ss \in Seq(V) /\ Len(ss) = n
    BY <2>2, SeqDef, LenProperties
  <2> QED  BY <2>2, <2>3 DEF V
<1> HIDE DEF ss
<1>2. \A k \in 0..n : IsFiniteSet(T \cap (1..k)) /\ Cardinality(T \cap (1..k)) \in Nat
  <2> SUFFICES ASSUME NEW k \in 0..n
               PROVE  IsFiniteSet(T \cap (1..k)) /\ Cardinality(T \cap (1..k)) \in Nat
    OBVIOUS
  <2>1. IsFiniteSet(1..k)
    <3>1. 1 \in Int /\ k \in Int
      OBVIOUS
    <3> QED  BY <3>1, FS_Interval
  <2>2. IsFiniteSet(T \cap (1..k))
    <3>1. T \cap (1..k) \subseteq 1..k
      OBVIOUS
    <3> QED  BY <2>1, <3>1, FS_Subset
  <2> QED  BY <2>2, FS_CardinalityType
<1>3. ASSUME NEW k \in 1..n
      PROVE  off[k] = off[k - 1] + Len(ss[k])
  <2> DEFINE U == T \cap (1..(k - 1))
             c == Cardinality(U)
  <2>1. k - 1 \in 0..n /\ off[k] = Cardinality(T \cap (1..k)) /\ off[k - 1] = c
    OBVIOUS
  <2> HIDE DEF off
  <2>2. IsFiniteSet(U) /\ c \in Nat
    BY <1>2, <2>1
  <2>3. k \notin U
    OBVIOUS
  <2>4. CASE k \in T
    <3>1. T \cap (1..k) = U \cup {k}
      BY <2>4
    <3> HIDE DEF U
    <3>2. Cardinality(U \cup {k}) = c + 1
      BY <2>2, <2>3, FS_AddElement
    <3>3. Len(ss[k]) = 1
      BY <1>1, <2>4
    <3> HIDE DEF c
    <3> QED  BY <2>1, <3>1, <3>2, <3>3
  <2>5. CASE k \notin T
    <3>1. T \cap (1..k) = U
      BY <2>5
    <3>2. Len(ss[k]) = 0
      BY <1>1, <2>5
    <3>3. off[k] = c
      BY <2>1, <3>1
    <3> HIDE DEF c
    <3> QED  BY <2>1, <2>2, <3>2, <3>3
  <2> QED  BY <2>4, <2>5
<1>4. off[0] = 0
  <2>1. T \cap (1..0) = {} /\ 0 \in 0..n
    OBVIOUS
  <2> QED  BY <2>1, FS_EmptySet
<1>5. off \in [0..n -> Nat]
  BY <1>2
<1>6. \A k \in 0..n : off[k] = Cardinality(T \cap (1..k))
  OBVIOUS
<1> HIDE DEF off, row
<1>7. row \in Seq(S) /\ Len(row) = off[n] /\ \A k \in 1..n : At(row, off[k - 1], ss[k])
  <2>1. Offsets(off, ss) /\ off \in [0..Len(ss) -> Nat]
    BY <1>1, <1>3, <1>4, <1>5 DEF Offsets
  <2>2. FlattenSeq(ss) \in Seq(S) /\ LaidOut(FlattenSeq(ss), off, ss, Len(ss))
    BY <1>1, <2>1, FlattenLaidOut
  <2> QED  BY <1>1, <2>2 DEF LaidOut, row
<1>8. ASSUME NEW k \in T
      PROVE  row[Cardinality(T \cap (1..k))] = v[k] /\ Len(row) # 0
  <2>1. k \in 1..n /\ k \in 0..n /\ ss[k] = <<v[k]>> /\ Len(<<v[k]>>) = 1 /\ <<v[k]>>[1] = v[k]
    BY <1>1
  <2>2. PICK o \in Nat : o = off[k - 1]
    BY <1>5, <2>1
  <2>3. At(row, o, <<v[k]>>)
    BY <1>7, <2>1, <2>2
  <2>4. row[o + 1] = v[k] /\ o + 1 =< Len(row)
    BY <2>1, <2>3 DEF At
  <2>5. off[k] = o + 1
    BY <1>3, <2>1, <2>2
  <2> QED  BY <1>6, <2>1, <2>2, <2>4, <2>5
<1>9. T = {} => row = <<>>
  <2>1. T = {} => Len(row) = 0
    <3>1. T = {} => T \cap (1..n) = {}
      OBVIOUS
    <3>2. n \in 0..n
      OBVIOUS
    <3> QED  BY <1>6, <1>7, <3>1, <3>2, FS_EmptySet
  <2> QED  BY <1>7, <2>1
<1>10. row = <<>> => T = {}
  <2>1. Len(<<>>) = 0
    OBVIOUS
  <2> QED  BY <1>8, <2>1
<1>11. Picks(row, v, T)
  BY <1>8, <1>9, <1>10 DEF Picks
<1> QED  BY <1>11 DEF row, ss

(* A tensor as it should be: as many elements as its shape has, each one     *)
(* that can be packed.                                                      *)
Solid(t) ==
  /\ IsTensor(t) /\ t.datatype \in DOMAIN FieldOf
  /\ t.shape \in Seq(Nat) /\ Len(t.shape) > 1 /\ Fits(t)
  /\ t.data \in Seq(ElementsOf(t.datatype))

(* A tensor without data can be told for one that was packed.               *)
TellsRaw(ts, raw) ==
  \A k \in 1..Len(ts) :
    ts[k].data = <<>> /\ (\E j \in 1..Len(ts) : ts[j].name \in raw) => ts[k].name \in raw

(* A tensor comes out of its raw entry. *)
LEMMA TensorUnpacked ==
  ASSUME NEW t, Solid(t), NEW u, u.datatype = t.datatype, u.shape = t.shape
  PROVE  Unpack(u, Pack(t)) = t.data
<1>1. CASE t.datatype = "BYTES"
  <2>1. UnpackStrings(PackStrings(t.data)) = t.data
    BY <1>1, StringsUnpacked DEF Solid
  <2> QED  BY <1>1, <2>1 DEF Pack, Unpack
<1>2. CASE t.datatype # "BYTES"
  <2>1. t.datatype \in DOMAIN Width
    BY <1>2 DEF Solid, FieldOf, Width
  <2>2. UnpackNumbers(u, PackNumbers(t)) = t.data
    BY <2>1, NumbersUnpacked DEF Solid, Fits
  <2> QED  BY <1>2, <2>2 DEF Pack, Unpack
<1> QED  BY <1>1, <1>2

(* The typed contents hold the data in one of their fields.                 *)
LEMMA ContentsKept ==
  ASSUME NEW t, IsTensor(t), t.datatype \in DOMAIN FieldOf
  PROVE  TensorOfWire(TensorToWire(t)) = t
<1> DEFINE c == ToContents(t)
           field == FieldOf[t.datatype]
<1>1. field \in Fields
  BY DEF FieldOf, Fields
<1>2. c = [f \in Fields |-> IF f = field THEN t.data ELSE <<>>]
  BY <1>1 DEF ToContents, NoContents
<1> HIDE DEF c, field
<1>3. OfContents(c) = t.data
  <2>1. CASE t.data = <<>>
    <3>1. c = NoContents
      BY <1>2, <2>1 DEF NoContents
    <3> QED  BY <2>1, <3>1 DEF OfContents
  <2>2. CASE t.data # <<>>
    <3>1. c[field] = t.data /\ NoContents[field] = <<>>
      BY <1>1, <1>2 DEF NoContents
    <3>2. c # NoContents
      BY <2>2, <3>1
    <3>3. \A f \in Fields : c[f] # <<>> <=> f = field
      BY <1>2, <2>2
    <3>4. (CHOOSE f \in Fields : c[f] # <<>>) = field
      BY <1>1, <3>3
    <3> QED  BY <3>1, <3>2, <3>4 DEF OfContents
  <2> QED  BY <2>1, <2>2
<1>4. TensorOfWire(TensorToWire(t)) =
        [name |-> t.name, datatype |-> t.datatype, shape |-> t.shape, data |-> OfContents(c),
         contentType |-> t.contentType, parameter |-> t.parameter]
  BY DEF TensorOfWire, TensorToWire, c
<1> QED  BY <1>3, <1>4 DEF IsTensor

(* What goes over the wire is the same at the other end, whichever of the    *)
(* tensors are raw.                                                         *)
THEOREM WireRoundTrip ==
  ASSUME NEW n \in Nat, NEW ts, ts = [k \in 1..n |-> ts[k]], \A k \in 1..n : Solid(ts[k]),
         NEW id, NEW raw, TellsRaw(ts, raw)
  PROVE  OfWire(ToWire(id, ts, raw)) = ts
<1> DEFINE msg == ToWire(id, ts, raw)
           rest == WithoutData(ts, raw)
           us == [k \in 1..n |-> TensorOfWire(TensorToWire(rest[k]))]
           T == {k \in 1..n : ts[k].name \in raw}
           v == [k \in 1..n |-> Pack(ts[k])]
           S == {Pack(ts[k]) : k \in 1..n}
<1>1. Len(ts) = n
  OBVIOUS
<1>2. msg.tensors = [k \in 1..n |-> TensorToWire(rest[k])]
  BY <1>1 DEF ToWire
<1>3. \A k \in 1..n : rest[k] = IF k \in T THEN [ts[k] EXCEPT !.data = <<>>] ELSE ts[k]
  BY <1>1 DEF WithoutData
<1>4. msg.raw = FlattenSeq([i \in 1..n |-> IF i \in T THEN <<v[i]>> ELSE <<>>])
  <2>1. msg.raw = Packed(ts, raw)
    BY DEF ToWire
  <2>2. Packed(ts, raw) = FlattenSeq([i \in 1..n |-> IF ts[i].name \in raw THEN <<Pack(ts[i])>> ELSE <<>>])
    BY <1>1 DEF Packed
  <2>3. [i \in 1..n |-> IF ts[i].name \in raw THEN <<Pack(ts[i])>> ELSE <<>>] =
          [i \in 1..n |-> IF i \in T THEN <<v[i]>> ELSE <<>>]
    OBVIOUS
  <2> QED  BY <2>1, <2>2, <2>3, Zenon
<1> HIDE DEF rest, msg
<1>5. v \in [1..n -> S] /\ T \in SUBSET (1..n) /\ \A k \in 1..n : v[k] = Pack(ts[k])
  OBVIOUS
<1>6. (\A k \in T : msg.raw[Cardinality(T \cap (1..k))] = v[k]) /\ (msg.raw = <<>> <=> T = {})
  <2> HIDE DEF v, S, T
  <2>1. Picks(FlattenSeq([i \in 1..n |-> IF i \in T THEN <<v[i]>> ELSE <<>>]), v, T)
    BY <1>5, Chosen
  <2>2. Picks(msg.raw, v, T)
    BY <1>4, <2>1, Zenon
  <2> QED  BY <2>2 DEF Picks
<1> HIDE DEF v, S
<1>7. ASSUME NEW k \in 1..n
      PROVE  us[k] = rest[k]
  <2>1. IsTensor(ts[k]) /\ ts[k].datatype \in DOMAIN FieldOf
    BY DEF Solid
  <2>2. IsTensor(rest[k]) /\ rest[k].datatype \in DOMAIN FieldOf
    <3>1. CASE k \in T
      <4>1. rest[k] = [ts[k] EXCEPT !.data = <<>>]
        BY <1>3, <3>1
      <4> QED  BY <2>1, <4>1 DEF IsTensor
    <3>2. CASE k \notin T
      BY <1>3, <2>1, <3>2
    <3> QED  BY <3>1, <3>2
  <2> QED  BY <2>2, ContentsKept
<1>8. OfWire(msg) = IF msg.raw = <<>> THEN us ELSE InjectRaw(us, msg.raw)
  <2>1. Len(msg.tensors) = n /\ \A k \in 1..n : msg.tensors[k] = TensorToWire(rest[k])
    BY <1>2
  <2>2. [i \in 1..Len(msg.tensors) |-> TensorOfWire(msg.tensors[i])] = us
    BY <2>1
  <2> QED  BY <2>2 DEF OfWire
<1>9. Len(us) = n /\ us = [k \in 1..n |-> us[k]]
  OBVIOUS
<1> HIDE DEF us
<1>10. CASE T = {}
  <2>1. \A k \in 1..n : us[k] = ts[k]
    BY <1>3, <1>7, <1>10
  <2>2. us = ts
    BY <1>9, <2>1
  <2> QED  BY <1>6, <1>8, <1>10, <2>2 DEF msg
<1>11. CASE T # {}
  <2> DEFINE got == InjectRaw(us, msg.raw)
             gone(k) == {j \in 1..k : us[j].data = <<>>}
             new(k) == IF us[k].data # <<>> THEN us[k]
                       ELSE [us[k] EXCEPT !.data = Unpack(us[k], msg.raw[Cardinality(gone(k))])]
  <2>1. got = [k \in 1..n |-> new(k)]
    BY <1>9 DEF InjectRaw
  <2> HIDE DEF got
  <2>2. ASSUME NEW k \in 1..n
        PROVE  us[k].data = <<>> <=> k \in T
    <3>1. k \in T => us[k].data = <<>>
      <4> SUFFICES ASSUME k \in T PROVE us[k].data = <<>>
        OBVIOUS
      <4>1. us[k] = [ts[k] EXCEPT !.data = <<>>] /\ IsTensor(ts[k])
        BY <1>3, <1>7 DEF Solid
      <4> QED  BY <4>1 DEF IsTensor
    <3>2. k \notin T => us[k].data # <<>>
      <4> SUFFICES ASSUME k \notin T PROVE us[k].data # <<>>
        OBVIOUS
      <4>1. us[k] = ts[k]
        BY <1>3, <1>7
      <4>2. ts[k].data # <<>>
        BY <1>1, <1>11 DEF TellsRaw
      <4> QED  BY <4>1, <4>2
    <3> QED  BY <3>1, <3>2
  <2>3. \A k \in 1..n : gone(k) = T \cap (1..k)
    BY <2>2
  <2>4. ASSUME NEW k \in 1..n
        PROVE  new(k) = ts[k]
    <3>1. CASE k \in T
      <4>1. us[k] = [ts[k] EXCEPT !.data = <<>>] /\ IsTensor(ts[k]) /\ Solid(ts[k])
        BY <1>3, <1>7, <3>1 DEF Solid
      <4>2. us[k].datatype = ts[k].datatype /\ us[k].shape = ts[k].shape
        BY <4>1 DEF IsTensor
      <4>3. msg.raw[Cardinality(gone(k))] = Pack(ts[k])
        BY <1>5, <1>6, <2>3, <3>1
      <4>4. Unpack(us[k], msg.raw[Cardinality(gone(k))]) = ts[k].data
        BY <4>1, <4>2, <4>3, TensorUnpacked
      <4>5. new(k) = [us[k] EXCEPT !.data = ts[k].data]
        BY <2>2, <3>1, <4>4
      <4> HIDE DEF new
      <4> QED  BY <4>1, <4>5 DEF IsTensor
    <3>2. CASE k \notin T
      BY <1>3, <1>7, <2>2, <3>2
    <3> QED  BY <3>1, <3>2
  <2> HIDE DEF new
  <2>5. got = ts
    BY <2>1, <2>4
  <2>6. msg.raw # <<>>
    BY <1>6, <1>11
  <2>7. OfWire(msg) = ts
    BY <1>8, <2>5, <2>6 DEF got
  <2> QED  BY <2>7 DEF msg
<1> QED  BY <1>10, <1>11

(* What a client sends: each input a solid tensor with rows of one element   *)
(* at least, under a name of its own.                                       *)
RowsOf(t) ==
  /\ ElemSize(t.shape) \in Nat \ {0}
  /\ t.datatype = "BYTES" => ContentType(t) = "str"
  /\ ContentType(t) = "str" => ElemSize(t.shape) = 1

(* The data of an input are a row (encode_input). *)
LEMMA InputData ==
  ASSUME NEW h \in ClientInputs
  PROVE  LET t == EncodeInput(h)
         IN  t.datatype \in DOMAIN FieldOf /\ \E S : t.data \in Seq(S)
<1> DEFINE e == Encode(h.name, h.payload)
           c == IF h.tagged THEN e.contentType ELSE "None"
           f == [e EXCEPT !.contentType = c]
<1>1. h.payload \in Payloads
  BY DEF ClientInputs
<1>2. e = [name |-> h.name, datatype |-> e.datatype, shape |-> e.shape, data |-> e.data,
           contentType |-> e.contentType, parameter |-> "None"]
  BY DEF Encode, EncodeArray, EncodeStrings, Tensor
<1>3. e.datatype \in DOMAIN FieldOf /\ e.data = h.payload.data
  <2>1. CASE h.payload.kind = "array"
    <3>1. e.datatype = h.payload.datatype /\ e.data = h.payload.data
      BY <2>1 DEF Encode, EncodeArray, Tensor
    <3>2. h.payload.datatype \in DOMAIN Width
      BY <1>1, <2>1 DEF Payloads
    <3> QED  BY <3>1, <3>2 DEF Width, FieldOf
  <2>2. CASE h.payload.kind # "array"
    BY <2>2 DEF Encode, EncodeStrings, Tensor, FieldOf
  <2> QED  BY <2>1, <2>2
<1>4. h.payload.data \in Seq(Nat) \/ h.payload.data \in Seq(Seq(Nat))
  BY <1>1 DEF Payloads
<1>5. EncodeInput(h) = [f EXCEPT !.parameter = h.parameter]
  BY DEF EncodeInput
<1> HIDE DEF e, c
<1>6. f.datatype = e.datatype /\ f.data = e.data /\ f = [name |-> h.name, datatype |-> e.datatype,
        shape |-> e.shape, data |-> e.data, contentType |-> c, parameter |-> "None"]
  BY <1>2
<1> HIDE DEF f
<1>7. EncodeInput(h).datatype = e.datatype /\ EncodeInput(h).data = e.data
  BY <1>5, <1>6
<1> QED  BY <1>3, <1>4, <1>7

LEMMA InputsSolid ==
  ASSUME NEW s \in Batches, NEW i \in 1..Len(s), Proper(s[i])
  PROVE  LET ts == InputsOf(s[i])
             n == Len(s[i].inputs)
         IN  /\ n \in Nat /\ ts = [k \in 1..n |-> ts[k]] /\ Len(ts) = n
             /\ \A k \in 1..n : Solid(ts[k]) /\ RowsOf(ts[k])
             /\ \A j, k \in 1..n : ts[j].name = ts[k].name => j = k
             /\ TellsRaw(ts, s[i].raw)
<1> DEFINE r == s[i]
           ts == InputsOf(r)
           n == Len(r.inputs)
<1>1. n \in Nat /\ \A k \in 1..n : r.inputs[k] \in ClientInputs
  BY BatchTyping
<1>2. Proper(r)
  OBVIOUS
<1>3. ts = [k \in 1..n |-> EncodeInput(r.inputs[k])]
  BY DEF InputsOf
<1> HIDE DEF r, n
<1>4. ts = [k \in 1..n |-> ts[k]] /\ Len(ts) = n /\ \A k \in 1..n : ts[k] = EncodeInput(r.inputs[k])
  BY <1>1, <1>3
<1>5. /\ \A j, k \in 1..n : ts[j].name = ts[k].name => j = k
      /\ \A k \in 1..n :
           /\ Len(ts[k].shape) > 1 /\ Fits(ts[k]) /\ Length(Tail(ts[k].shape)) > 0
           /\ Range(ts[k].data) \subseteq ElementsOf(ts[k].datatype)
           /\ ts[k].datatype = "BYTES" => ContentType(ts[k]) = "str"
           /\ ContentType(ts[k]) = "str" => Length(Tail(ts[k].shape)) = 1
           /\ r.raw # {} /\ ts[k].data = <<>> => ts[k].name \in r.raw
  BY <1>2, <1>4 DEF Proper, InputsOf
<1> HIDE DEF ts
<1>6. ASSUME NEW k \in 1..n
      PROVE  Solid(ts[k]) /\ RowsOf(ts[k])
  <2> DEFINE t == ts[k]
  <2>1. IsTensor(t) /\ t.shape \in Seq(Nat)
    BY <1>1, <1>4, InputTensor
  <2>2. t.datatype \in DOMAIN FieldOf /\ \E S : t.data \in Seq(S)
    BY <1>1, <1>4, InputData
  <2>3. /\ Len(t.shape) > 1 /\ Fits(t) /\ Length(Tail(t.shape)) > 0
        /\ Range(t.data) \subseteq ElementsOf(t.datatype)
        /\ t.datatype = "BYTES" => ContentType(t) = "str"
        /\ ContentType(t) = "str" => Length(Tail(t.shape)) = 1
    BY <1>5
  <2> HIDE DEF t
  <2>4. t.data \in Seq(ElementsOf(t.datatype))
    <3> DEFINE E == ElementsOf(t.datatype)
               d == t.data
               m == Len(d)
    <3>1. PICK S : d \in Seq(S)
      BY <2>2
    <3>2. Range(d) \subseteq E
      BY <2>3
    <3> HIDE DEF E, d
    <3>3. m \in Nat /\ DOMAIN d = 1..m /\ d = [j \in 1..m |-> d[j]]
      BY <3>1
    <3> HIDE DEF m
    <3>4. d \in [1..m -> E]
      BY <3>2, <3>3 DEF Range
    <3>5. d \in Seq(E)
      BY <3>3, <3>4, SeqDef
    <3> QED  BY <3>5 DEF E, d
  <2>5. Length(Tail(t.shape)) \in Nat
    <3>1. Tail(t.shape) \in Seq(Nat)
      BY <2>1, <2>3
    <3>2. 0 \in Nat
      OBVIOUS
    <3> QED  BY <3>1, <3>2, LengthOfRows
  <2>6. Solid(t)
    BY <2>1, <2>2, <2>3, <2>4 DEF Solid
  <2>7. RowsOf(t)
    BY <2>3, <2>5 DEF RowsOf, ElemSize
  <2> QED  BY <2>6, <2>7 DEF t
<1>7. TellsRaw(ts, r.raw)
  BY <1>4, <1>5 DEF TellsRaw
<1> QED  BY <1>1, <1>4, <1>5, <1>6, <1>7 DEF r, n, ts

(* The server has the inputs as the clients encoded them.                   *)
LEMMA OwnInputs ==
  ASSUME NEW s \in Batches, NEW i \in 1..Len(s), Proper(s[i])
  PROVE  RequestsOf(MessagesOf(s))[i].inputs = InputsOf(s[i])
<1> DEFINE ms == MessagesOf(s)
           rs == RequestsOf(ms)
           ts == InputsOf(s[i])
           n == Len(s[i].inputs)
<1>1. Len(s) \in Nat
  BY BatchTyping
<1>2. Len(ms) = Len(s) /\ ms[i] = ToWire(s[i].id, ts, s[i].raw)
  BY <1>1 DEF MessagesOf
<1> HIDE DEF ms
<1>3. rs[i].inputs = OfWire(ms[i])
  BY <1>1, <1>2 DEF RequestsOf
<1>4. /\ n \in Nat /\ ts = [k \in 1..n |-> ts[k]] /\ \A k \in 1..n : Solid(ts[k])
      /\ TellsRaw(ts, s[i].raw)
  BY InputsSolid
<1> HIDE DEF ts, n, rs
<1>5. OfWire(ToWire(s[i].id, ts, s[i].raw)) = ts
  BY <1>4, WireRoundTrip
<1> QED  BY <1>2, <1>3, <1>5 DEF ts, rs, ms

-----------------------------------------------------------------------------
(* Rows of tensors, one after the other (shape.py, _merge_data).            *)
Resized(shape, n) ==
  LET new == WithBatchSize(shape, n)
  IN  /\ new \in Seq(Nat) /\ Len(new) > 1
      /\ BatchSize(new) = n /\ Tail(new) = Tail(shape)

LEMMA ShapeParts ==
  ASSUME NEW shape \in Seq(Nat), Len(shape) > 1
  PROVE  /\ BatchSize(shape) \in Nat /\ ElemSize(shape) \in Nat
         /\ Length(shape) = BatchSize(shape) * ElemSize(shape)
         /\ WithBatchSize(shape, BatchSize(shape)) = shape
         /\ \A n \in Nat : Resized(shape, n)
<1> DEFINE tail == Tail(shape)
           m == Len(shape)
<1>1. /\ m \in Nat /\ m > 1 /\ shape[1] \in Nat /\ Head(shape) = shape[1]
      /\ tail \in Seq(Nat) /\ Len(tail) = m - 1 /\ \A k \in 1..(m - 1) : tail[k] = shape[k + 1]
  OBVIOUS
<1> HIDE DEF tail, m
<1>2. ASSUME NEW n \in Nat
      PROVE  /\ <<n>> \o tail \in Seq(Nat) /\ Len(<<n>> \o tail) = m
             /\ (<<n>> \o tail)[1] = n /\ \A k \in 1..(m - 1) : (<<n>> \o tail)[k + 1] = tail[k]
             /\ Head(<<n>> \o tail) = n /\ Tail(<<n>> \o tail) = tail
  <2> DEFINE c == <<n>> \o tail
             d == Tail(c)
  <2>1. /\ c \in Seq(Nat) /\ Len(c) = m
        /\ c[1] = n /\ \A k \in 1..(m - 1) : c[k + 1] = tail[k]
    BY <1>1
  <2> HIDE DEF c
  <2>2. Head(c) = n
    BY <1>1, <2>1
  <2>3. d \in Seq(Nat) /\ Len(d) = m - 1 /\ \A k \in 1..(m - 1) : d[k] = c[k + 1]
    BY <1>1, <2>1
  <2> HIDE DEF d
  <2>4. d = tail
    BY <1>1, <2>1, <2>3, SeqEqual
  <2> QED  BY <2>1, <2>2, <2>4 DEF c, d
<1>3. <<Head(shape)>> \o tail = shape
  <2> DEFINE c == <<Head(shape)>> \o tail
  <2>1. /\ c \in Seq(Nat) /\ Len(c) = m
        /\ c[1] = shape[1] /\ \A k \in 1..(m - 1) : c[k + 1] = shape[k + 1]
    BY <1>1, <1>2
  <2> HIDE DEF c
  <2>2. \A k \in 1..m : k = 1 \/ (k - 1 \in 1..(m - 1) /\ (k - 1) + 1 = k)
    BY <1>1
  <2>3. \A k \in 1..m : c[k] = shape[k]
    BY <2>1, <2>2
  <2>4. shape \in Seq(Nat) /\ Len(shape) = m
    BY DEF m
  <2>5. c = shape
    BY <2>1, <2>3, <2>4, SeqEqual
  <2> QED  BY <2>5 DEF c
<1>4. Head(shape) \in Nat
  BY <1>1
<1>5. Length(tail) \in Nat /\ Length(<<Head(shape)>> \o tail) = Head(shape) * Length(tail)
  BY <1>1, <1>4, LengthOfRows
<1>6. /\ BatchSize(shape) \in Nat /\ ElemSize(shape) \in Nat
      /\ Length(shape) = BatchSize(shape) * ElemSize(shape)
  BY <1>3, <1>4, <1>5 DEF BatchSize, ElemSize, tail
<1>7. \A n \in Nat : /\ WithBatchSize(shape, n) \in Seq(Nat) /\ Len(WithBatchSize(shape, n)) > 1
                     /\ BatchSize(WithBatchSize(shape, n)) = n
                     /\ Tail(WithBatchSize(shape, n)) = Tail(shape)
  BY <1>1, <1>2 DEF WithBatchSize, BatchSize, tail
<1>8. WithBatchSize(shape, BatchSize(shape)) = shape
  BY <1>3 DEF WithBatchSize, BatchSize, tail
<1>9. \A n \in Nat : Resized(shape, n)
  BY <1>7 DEF Resized
<1> QED  BY <1>6, <1>8, <1>9

(* Multiples of a row keep the order of what they are multiples of. *)
LEMMA Products ==
  ASSUME NEW a \in Nat, NEW b \in Nat, NEW e \in Nat \ {0}
  PROVE  a * e \in Nat /\ (a =< b <=> a * e =< b * e)
<1>1. a * e \in Nat /\ b * e \in Nat
  OBVIOUS
<1>2. a =< b => a * e =< b * e
  <2> SUFFICES ASSUME a =< b PROVE a * e =< b * e
    OBVIOUS
  <2>1. PICK d \in Nat : b = a + d
    <3>1. b - a \in Nat /\ b = a + (b - a)
      OBVIOUS
    <3> QED  BY <3>1
  <2>2. b * e = a * e + d * e /\ d * e \in Nat
    BY <2>1
  <2> QED  BY <1>1, <2>2
<1>3. a > b => a * e > b * e
  <2> SUFFICES ASSUME a > b PROVE a * e > b * e
    OBVIOUS
  <2>1. PICK d \in Nat : a = (b + 1) + d
    <3>1. a - (b + 1) \in Nat /\ a = (b + 1) + (a - (b + 1))
      OBVIOUS
    <3> QED  BY <3>1
  <2>2. a * e = b * e + e + d * e /\ d * e \in Nat
    BY <2>1
  <2> QED  BY <1>1, <2>2
<1> QED  BY <1>1, <1>2, <1>3

(* The content type of a merged head is the last that is given.             *)
LEMMA ContentTypeMerged ==
  ASSUME NEW n \in Nat, NEW heads, heads = [k \in 1..n |-> heads[k]]
  PROVE  LET c == MergeContentTypes(heads)
         IN  \/ c = "None" /\ \A k \in 1..n : heads[k].contentType = "None"
             \/ c # "None" /\ \E k \in 1..n : c = heads[k].contentType
<1> DEFINE S == {heads[k] : k \in 1..n}
           V == {heads[k].contentType : k \in 1..n} \cup {"None"}
           Next1(c, h) == IF h.contentType = "None" THEN c ELSE h.contentType
           F == [p \in V \X (1..n) |-> Next1(p[1], heads[p[2]])]
           Eq(g) == g = [T \in SUBSET (1..n) |->
                           IF T = {} THEN "None" ELSE Next1(g[T \ {Max(T)}], heads[Max(T)])]
<1>1. Len(heads) = n /\ DOMAIN heads = 1..n
  OBVIOUS
<1>2. "None" \in V /\ F \in [V \X (1..n) -> V]
  OBVIOUS
<1>3. MergeContentTypes(heads) = (CHOOSE g : Eq(g))[1..n]
  BY <1>1 DEF MergeContentTypes, FoldLeft, MapThenFoldSet
<1>4. PICK g \in [SUBSET (1..n) -> V] : Folds(g, n, "None", F)
  <2> HIDE DEF F, V
  <2> QED  BY <1>2, FoldExists
<1>5. ASSUME NEW T \in SUBSET (1..n), T # {}
      PROVE  F[<<g[T \ {Max(T)}], Max(T)>>] = Next1(g[T \ {Max(T)}], heads[Max(T)])
  <2>1. Max(T) \in 1..n
    BY <1>5, MaxOfPlaces
  <2>2. g[T \ {Max(T)}] \in V
    <3> HIDE DEF V
    <3> QED  OBVIOUS
  <2> HIDE DEF V, Next1
  <2> QED  BY <2>1, <2>2
<1> HIDE DEF F, V, Next1
<1>6. Eq(g)
  BY <1>4, <1>5 DEF Folds
<1> DEFINE it == CHOOSE x : Eq(x)
<1>7. Eq(it)
  <2> HIDE DEF Eq
  <2> QED  BY <1>6
<1> HIDE DEF it
<1> DEFINE Good(c, k) == \/ c = "None" /\ \A j \in 1..k : heads[j].contentType = "None"
                         \/ c # "None" /\ \E j \in 1..k : c = heads[j].contentType
           D == {k \in 0..n : Good(it[1..k], k)}
<1>8. 0 \in D
  <2>1. 1..0 = {} /\ {} \in SUBSET (1..n)
    OBVIOUS
  <2>2. it[{}] = "None"
    BY <1>7, <2>1
  <2> QED  BY <2>1, <2>2
<1>9. ASSUME NEW k \in 0..(n - 1), k \in D
      PROVE  k + 1 \in D
  <2>1. k + 1 \in 1..n /\ (k + 1) - 1 = k /\ k + 1 \in 0..n
    OBVIOUS
  <2>2. /\ 1..(k + 1) \in SUBSET (1..n) /\ 1..(k + 1) # {}
        /\ Max(1..(k + 1)) = k + 1 /\ (1..(k + 1)) \ {Max(1..(k + 1))} = 1..k
    BY <2>1, LastPlace
  <2>3. it[1..(k + 1)] = Next1(it[1..k], heads[k + 1])
    BY <1>7, <2>2
  <2>4. Good(it[1..k], k)
    BY <1>9
  <2> DEFINE c == it[1..k]
             d == it[1..(k + 1)]
  <2>5. Good(c, k) /\ d = IF heads[k + 1].contentType = "None" THEN c ELSE heads[k + 1].contentType
    BY <2>3, <2>4 DEF Next1
  <2> HIDE DEF c, d
  <2>6. \A j \in 1..(k + 1) : j = k + 1 \/ j \in 1..k
    OBVIOUS
  <2>7. Good(d, k + 1)
    <3>1. CASE heads[k + 1].contentType = "None"
      <4>1. d = c
        BY <2>5, <3>1
      <4>2. CASE c = "None"
        <5>1. \A j \in 1..k : heads[j].contentType = "None"
          BY <2>5, <4>2
        <5> QED  BY <2>6, <3>1, <4>1, <4>2, <5>1
      <4>3. CASE c # "None"
        <5>1. PICK j \in 1..k : c = heads[j].contentType
          BY <2>5, <4>3
        <5>2. j \in 1..(k + 1)
          OBVIOUS
        <5> QED  BY <4>1, <4>3, <5>1, <5>2
      <4> QED  BY <4>2, <4>3
    <3>2. CASE heads[k + 1].contentType # "None"
      BY <2>5, <3>2
    <3> QED  BY <3>1, <3>2
  <2> HIDE DEF Good
  <2> QED  BY <2>1, <2>7 DEF d
<1> HIDE DEF D
<1>10. n \in D
  <2>1. \A k \in 0..n : k \in D
    BY <1>8, <1>9, UpTo
  <2> QED  BY <2>1
<1>11. MergeContentTypes(heads) = it[1..n]
  BY <1>3 DEF it
<1>12. Good(it[1..n], n)
  BY <1>10 DEF D
<1> QED  BY <1>11, <1>12

(* Heads that can be put one after the other (what Uniform says of them).   *)
Stackable(heads, n, name) ==
  /\ heads = [j \in 1..n |-> heads[j]]
  /\ \A j \in 1..n :
       /\ Solid(heads[j]) /\ RowsOf(heads[j]) /\ heads[j].name = name
       /\ Tail(heads[j].shape) = Tail(heads[1].shape) /\ heads[j].datatype = heads[1].datatype
       /\ ContentType(heads[j]) = ContentType(heads[1])

Merges(m, heads, n, name) ==
  m = [name |-> name, datatype |-> heads[1].datatype,
       shape |-> WithBatchSize(heads[1].shape, Total([k \in 1..n |-> BatchSize(heads[k].shape)])),
       data |-> FlattenSeq([k \in 1..n |-> heads[k].data]),
       contentType |-> MergeContentTypes(heads), parameter |-> MergeParameters(heads)]

(* The rows of m that come after o others are those of h. *)
Block(m, h, o) ==
  /\ Solid(m) /\ RowsOf(m) /\ Solid(h) /\ RowsOf(h) /\ o \in Nat
  /\ m.name = h.name /\ m.datatype = h.datatype /\ Tail(m.shape) = Tail(h.shape)
  /\ ContentType(m) = ContentType(h)
  /\ At(m.data, o * ElemSize(h.shape), h.data)

(* A merged head has the rows of each request, after those of the requests   *)
(* before (_merge_request_inputs).                                          *)
LEMMA MergedBlocks ==
  ASSUME NEW n \in Nat \ {0}, NEW heads, NEW name, Stackable(heads, n, name),
         NEW p \in [0..n -> Nat], Sums(p, [k \in 1..n |-> BatchSize(heads[k].shape)]),
         NEW m, Merges(m, heads, n, name)
  PROVE  \A j \in 1..n : Block(m, heads[j], p[j - 1])
<1> DEFINE e == ElemSize(heads[1].shape)
           dt == heads[1].datatype
           E == ElementsOf(dt)
           size(j) == BatchSize(heads[j].shape)
           sizes == [k \in 1..n |-> size(k)]
           ss == [k \in 1..n |-> heads[k].data]
           off == [k \in 0..n |-> p[k] * e]
<1>1. \A j \in 1..n : /\ Solid(heads[j]) /\ RowsOf(heads[j]) /\ heads[j].name = name
                      /\ Tail(heads[j].shape) = Tail(heads[1].shape)
                      /\ heads[j].datatype = dt /\ ContentType(heads[j]) = ContentType(heads[1])
  BY DEF Stackable
<1>2. 1 \in 1..n /\ heads = [j \in 1..n |-> heads[j]]
  BY DEF Stackable
<1>3. ASSUME NEW j \in 1..n
      PROVE  /\ size(j) \in Nat /\ e \in Nat \ {0} /\ ElemSize(heads[j].shape) = e
             /\ heads[j].data \in Seq(E) /\ Len(heads[j].data) = size(j) * e
  <2> DEFINE h == heads[j]
  <2>1. Solid(h) /\ RowsOf(h) /\ Tail(h.shape) = Tail(heads[1].shape) /\ h.datatype = dt
    BY <1>1
  <2> HIDE DEF h
  <2>2. /\ h.shape \in Seq(Nat) /\ Len(h.shape) > 1 /\ Len(h.data) = Length(h.shape)
        /\ h.data \in Seq(ElementsOf(h.datatype)) /\ ElemSize(h.shape) \in Nat \ {0}
    BY <2>1 DEF Solid, Fits, RowsOf
  <2>3. ElemSize(h.shape) = e
    BY <2>1 DEF ElemSize
  <2>4. BatchSize(h.shape) \in Nat /\ Length(h.shape) = BatchSize(h.shape) * ElemSize(h.shape)
    BY <2>2, ShapeParts
  <2> HIDE DEF e, E
  <2>5. h.data \in Seq(E)
    BY <2>1, <2>2 DEF E
  <2> QED  BY <2>2, <2>3, <2>4, <2>5 DEF h
<1>4. /\ m.name = name /\ m.datatype = dt
      /\ m.shape = WithBatchSize(heads[1].shape, Total(sizes)) /\ m.data = FlattenSeq(ss)
      /\ m.contentType = MergeContentTypes(heads) /\ IsTensor(m)
  BY DEF Merges, IsTensor
<1>5. /\ heads[1].shape \in Seq(Nat) /\ Len(heads[1].shape) > 1 /\ dt \in DOMAIN FieldOf
  BY <1>1, <1>2 DEF Solid
<1>6. e \in Nat \ {0}
  BY <1>2, <1>3
<1> HIDE DEF e, E, dt, size
<1>7. sizes \in Seq(Nat) /\ Len(sizes) = n /\ \A k \in 1..n : sizes[k] = size(k)
  <2>1. sizes \in [1..n -> Nat] /\ \A k \in 1..n : sizes[k] = size(k)
    BY <1>3
  <2> HIDE DEF sizes
  <2> QED  BY <2>1, SeqDef, LenProperties
<1>8. ss \in Seq(Seq(E)) /\ Len(ss) = n /\ \A k \in 1..n : ss[k] = heads[k].data
  <2> DEFINE V == Seq(E)
  <2>1. ss \in [1..n -> V] /\ \A k \in 1..n : ss[k] = heads[k].data
    BY <1>3
  <2> HIDE DEF V, ss
  <2>2. ss \in Seq(V) /\ Len(ss) = n
    BY <2>1, SeqDef, LenProperties
  <2> QED  BY <2>1, <2>2 DEF V
<1>9. Sums(p, sizes)
  BY DEF size
<1> HIDE DEF sizes, ss
<1>10. p[0] = 0 /\ \A k \in 1..n : p[k] = p[k - 1] + size(k)
  BY <1>7, <1>9 DEF Sums
<1>11. Total(sizes) = p[n] /\ p[n] \in Nat
  BY <1>7, <1>9, TotalIs
<1>12. /\ off \in [0..n -> Nat] /\ \A k \in 0..n : off[k] = p[k] * e
  <2>1. \A k \in 0..n : p[k] * e \in Nat
    <3> SUFFICES ASSUME NEW k \in 0..n PROVE p[k] * e \in Nat
      OBVIOUS
    <3>1. PICK a \in Nat : a = p[k]
      OBVIOUS
    <3>2. a * e \in Nat
      BY <1>6
    <3> QED  BY <3>1, <3>2
  <2> QED  BY <2>1
<1> HIDE DEF off
<1>13. Offsets(off, ss)
  <2>1. off[0] = 0
    BY <1>6, <1>10, <1>12
  <2>2. ASSUME NEW k \in 1..n
        PROVE  off[k] = off[k - 1] + Len(ss[k])
    <3>1. k - 1 \in 0..n /\ k \in 0..n
      OBVIOUS
    <3>2. PICK a \in Nat, b \in Nat : a = p[k - 1] /\ b = size(k)
      BY <1>3, <3>1
    <3>3. off[k] = (a + b) * e /\ off[k - 1] = a * e
      BY <1>10, <1>12, <3>1, <3>2
    <3>4. Len(ss[k]) = b * e
      BY <1>3, <1>8, <3>2
    <3>5. (a + b) * e = a * e + b * e
      BY <1>6
    <3> QED  BY <3>3, <3>4, <3>5
  <2> QED  BY <1>8, <2>1, <2>2 DEF Offsets
<1>14. m.data \in Seq(E) /\ Len(m.data) = p[n] * e /\ \A k \in 1..n : At(m.data, off[k - 1], ss[k])
  <2>1. off \in [0..Len(ss) -> Nat]
    BY <1>8, <1>12
  <2>2. FlattenSeq(ss) \in Seq(E) /\ LaidOut(FlattenSeq(ss), off, ss, Len(ss))
    BY <1>8, <1>13, <2>1, FlattenLaidOut
  <2>3. LaidOut(FlattenSeq(ss), off, ss, n)
    BY <1>8, <2>2
  <2>4. off[n] = p[n] * e
    BY <1>12
  <2> QED  BY <1>4, <2>2, <2>3, <2>4 DEF LaidOut
<1>15. /\ m.shape \in Seq(Nat) /\ Len(m.shape) > 1 /\ BatchSize(m.shape) = p[n]
       /\ Tail(m.shape) = Tail(heads[1].shape)
  <2>1. \A q \in Nat : Resized(heads[1].shape, q)
    BY <1>5, ShapeParts
  <2>2. PICK q \in Nat : q = Total(sizes) /\ q = p[n]
    BY <1>11
  <2>3. Resized(heads[1].shape, q) /\ m.shape = WithBatchSize(heads[1].shape, q)
    BY <1>4, <2>1, <2>2
  <2> QED  BY <2>2, <2>3 DEF Resized
<1>16. ElemSize(m.shape) = e /\ Length(m.shape) = p[n] * e
  <2>1. ElemSize(m.shape) = e
    BY <1>15 DEF ElemSize, e
  <2>2. Length(m.shape) = BatchSize(m.shape) * ElemSize(m.shape)
    BY <1>15, ShapeParts
  <2> QED  BY <1>15, <2>1, <2>2
<1>17. Solid(m)
  BY <1>4, <1>5, <1>14, <1>15, <1>16 DEF Solid, Fits, E
<1>18. ContentType(m) = ContentType(heads[1])
  <2> DEFINE c == MergeContentTypes(heads)
  <2>1. \/ c = "None" /\ \A k \in 1..n : heads[k].contentType = "None"
        \/ c # "None" /\ \E k \in 1..n : c = heads[k].contentType
    BY <1>2, ContentTypeMerged
  <2>2. m.contentType = c
    BY <1>4
  <2> HIDE DEF c
  <2>3. CASE c = "None"
    <3>1. heads[1].contentType = "None" /\ heads[1].name = name
      BY <1>1, <1>2, <2>1, <2>3
    <3> QED  BY <1>4, <2>2, <2>3, <3>1 DEF ContentType
  <2>4. CASE c # "None"
    <3>1. PICK k \in 1..n : c = heads[k].contentType
      BY <2>1, <2>4
    <3>2. ContentType(heads[k]) = c /\ ContentType(m) = c
      BY <2>2, <2>4, <3>1 DEF ContentType
    <3> QED  BY <1>1, <3>2
  <2> QED  BY <2>3, <2>4
<1>19. RowsOf(m)
  <2>1. RowsOf(heads[1]) /\ ElemSize(heads[1].shape) = e /\ m.datatype = heads[1].datatype
    BY <1>1, <1>2, <1>3, <1>4
  <2> QED  BY <1>16, <1>18, <2>1 DEF RowsOf
<1>20. ASSUME NEW j \in 1..n
       PROVE  Block(m, heads[j], p[j - 1])
  <2>1. /\ Solid(heads[j]) /\ RowsOf(heads[j]) /\ heads[j].name = name
        /\ Tail(heads[j].shape) = Tail(heads[1].shape)
        /\ heads[j].datatype = dt /\ ContentType(heads[j]) = ContentType(heads[1])
    BY <1>1
  <2>2. j - 1 \in 0..n
    OBVIOUS
  <2>3. p[j - 1] \in Nat /\ off[j - 1] = p[j - 1] * e
    BY <1>12, <2>2
  <2>4. At(m.data, p[j - 1] * ElemSize(heads[j].shape), heads[j].data)
    <3>1. ElemSize(heads[j].shape) = e
      BY <1>3
    <3>2. At(m.data, off[j - 1], ss[j]) /\ ss[j] = heads[j].data
      BY <1>8, <1>14
    <3> QED  BY <2>3, <3>1, <3>2
  <2> QED  BY <1>4, <1>15, <1>17, <1>18, <1>19, <2>1, <2>3, <2>4 DEF Block
<1> QED  BY <1>20

-----------------------------------------------------------------------------
(* What the model makes of a tensor.                                        *)
ComputeBy(mo, p) ==
  IF p.kind = "strings" \/ mo = "rows" THEN p
  ELSE LET elem == ElemSize(p.shape)
           rows == BatchSize(p.shape)
       IN  Array(p.datatype, <<rows>>, [r \in 1..rows |-> p.data[(r - 1) * elem + 1]])
OutputBy(mo, t) == Encode(t.name, ComputeBy(mo, Decode(t)))

(* A string of no bytes can be packed, and a row may have one element. *)
LEMMA EmptyString == <<>> \in ElementsOf("BYTES")
<1> DEFINE left == Left(0, SizeWidth)
           T == {i \in 0..SizeWidth : left[i] = 0}
<1>1. SizeWidth \in Nat
  BY BaseAssumption
<1>2. /\ left \in [0..SizeWidth -> Nat] /\ left[0] = 0
      /\ \A i \in 1..SizeWidth : left[i] = left[i - 1] \div Base
  BY <1>1, LeftSteps
<1> HIDE DEF left
<1>3. 0 \in T
  BY <1>1, <1>2
<1>4. \A i \in 0..(SizeWidth - 1) : i \in T => i + 1 \in T
  <2> SUFFICES ASSUME NEW i \in 0..(SizeWidth - 1), left[i] = 0
               PROVE  left[i + 1] = 0 /\ i + 1 \in 0..SizeWidth
    OBVIOUS
  <2>1. i + 1 \in 1..SizeWidth /\ (i + 1) - 1 = i /\ i + 1 \in 0..SizeWidth
    BY <1>1
  <2>2. left[i + 1] = 0 \div Base
    BY <1>2, <2>1
  <2>3. 0 \div Base = 0
    BY BaseAssumption
  <2> QED  BY <2>1, <2>2, <2>3
<1> HIDE DEF T
<1>5. SizeWidth \in T
  BY <1>1, <1>3, <1>4, UpTo
<1>6. InBytes(0, SizeWidth)
  BY <1>5 DEF InBytes, T, left
<1>7. <<>> \in Seq(0..(Base - 1)) /\ Len(<<>>) = 0
  OBVIOUS
<1> QED  BY <1>6, <1>7 DEF ElementsOf

LEMMA SingleColumn ==
  ASSUME NEW n \in Nat
  PROVE  /\ <<n, 1>> \in Seq(Nat) /\ Len(<<n, 1>>) = 2 /\ Length(<<n, 1>>) = n
         /\ BatchSize(<<n, 1>>) = n /\ ElemSize(<<n, 1>>) = 1 /\ Tail(<<n, 1>>) = <<1>>
         /\ <<n>> \o <<1>> = <<n, 1>>
<1>1. <<>> \in Seq(Nat) /\ Len(<<>>) = 0
  OBVIOUS
<1>2. Length(<<>>) = 1
  BY <1>1, LengthByStep
<1>3. <<1>> \o <<>> = <<1>> /\ <<1>> \in Seq(Nat) /\ 1 \in Nat
  OBVIOUS
<1>4. Length(<<1>>) = 1
  <2>1. Length(<<1>> \o <<>>) = 1 * Length(<<>>)
    BY <1>1, <1>3, LengthOfRows
  <2> QED  BY <1>2, <1>3, <2>1
<1>5. /\ <<n, 1>> \in Seq(Nat) /\ Len(<<n, 1>>) = 2 /\ Tail(<<n, 1>>) = <<1>> /\ Head(<<n, 1>>) = n
      /\ <<n>> \o <<1>> = <<n, 1>>
  <2> DEFINE d == <<n, 1>>
             tail == Tail(d)
             one == <<1>>
             both == <<n>> \o one
  <2>1. d \in Seq(Nat) /\ Len(d) = 2 /\ d[1] = n /\ d[2] = 1
    OBVIOUS
  <2>2. one \in Seq(Nat) /\ Len(one) = 1 /\ one[1] = 1
    OBVIOUS
  <2> HIDE DEF d, one
  <2>3. Head(d) = n
    BY <2>1
  <2>4. tail \in Seq(Nat) /\ Len(tail) = 1 /\ tail[1] = d[2]
    BY <2>1
  <2>5. both \in Seq(Nat) /\ Len(both) = 2 /\ both[1] = n /\ both[2] = one[1]
    <3> DEFINE first == <<n>>
    <3>1. first \in Seq(Nat) /\ Len(first) = 1 /\ first[1] = n
      OBVIOUS
    <3> HIDE DEF first
    <3>2. first \o one \in Seq(Nat) /\ Len(first \o one) = 2
      <4>1. Len(first \o one) = Len(first) + Len(one) /\ first \o one \in Seq(Nat)
        BY <2>2, <3>1, ConcatProperties
      <4> QED  BY <2>2, <3>1, <4>1
    <3>3. (first \o one)[1] = first[1] /\ (first \o one)[2] = one[1]
      <4>1. \A i \in 1..(Len(first) + Len(one)) :
              (first \o one)[i] = IF i =< Len(first) THEN first[i] ELSE one[i - Len(first)]
        BY <2>2, <3>1, ConcatProperties
      <4>2. 1 \in 1..(Len(first) + Len(one)) /\ 2 \in 1..(Len(first) + Len(one))
            /\ 1 =< Len(first) /\ ~(2 =< Len(first)) /\ 2 - Len(first) = 1
        BY <2>2, <3>1
      <4> QED  BY <4>1, <4>2
    <3> QED  BY <3>1, <3>2, <3>3 DEF first
  <2> HIDE DEF tail, both
  <2>6. tail = one
    <3>1. \A k \in 1..1 : tail[k] = one[k]
      BY <2>1, <2>2, <2>4
    <3> QED  BY <2>2, <2>4, <3>1, SeqEqual
  <2>7. both = d
    <3>1. \A k \in 1..2 : both[k] = d[k]
      BY <2>1, <2>2, <2>5
    <3> QED  BY <2>1, <2>5, <3>1, SeqEqual
  <2>8. d \in Seq(Nat) /\ Len(d) = 2 /\ tail = one /\ Head(d) = n /\ both = d
    BY <2>1, <2>3, <2>6, <2>7
  <2> QED  BY <2>8 DEF d, one, tail, both
<1>6. Length(<<n>> \o <<1>>) = n * Length(<<1>>)
  BY <1>3, LengthOfRows
<1>7. Length(<<n, 1>>) = n
  <2>1. n * 1 = n
    OBVIOUS
  <2> QED  BY <1>4, <1>5, <1>6, <2>1
<1> QED  BY <1>4, <1>5, <1>7 DEF BatchSize, ElemSize

(* A slice that is there is not cut short. *)
LEMMA SliceWhole ==
  ASSUME NEW S, NEW row \in Seq(S), NEW a \in Seq(S), NEW o \in Nat, At(row, o, a)
  PROVE  Slice(row, o, Len(a)) = a
<1>1. SubSeq(row, o + 1, o + Len(a)) = a
  BY SliceAt
<1>2. o + Len(a) =< Len(row) /\ Len(a) \in Nat /\ Len(row) \in Nat
  BY DEF At
<1>3. ~(o + Len(a) > Len(row))
  BY <1>2
<1> QED  BY <1>1, <1>3 DEF Slice

(* Strings, rows and first elements: the outputs of a model. *)
StringsOut(R, t) ==
  /\ R.datatype = "BYTES" /\ R.contentType = "str" /\ R.shape = <<BatchSize(t.shape), 1>>
  /\ R.data = IF t.datatype = "BYTES" THEN t.data ELSE [i \in 1..BatchSize(t.shape) |-> <<>>]
RowsOut(R, t) ==
  R.datatype = t.datatype /\ R.contentType = "np" /\ R.shape = t.shape /\ R.data = t.data
FirstsOut(R, t) ==
  /\ R.datatype = t.datatype /\ R.contentType = "np" /\ R.shape = <<BatchSize(t.shape), 1>>
  /\ R.data = [r \in 1..BatchSize(t.shape) |-> t.data[(r - 1) * ElemSize(t.shape) + 1]]

LEMMA Outputs ==
  ASSUME NEW mo, NEW t, Solid(t), RowsOf(t)
  PROVE  LET R == OutputBy(mo, t)
         IN  /\ Decode(t) # Raised /\ IsTensor(R) /\ R.name = t.name
             /\ ContentType(t) = "str" => StringsOut(R, t)
             /\ ContentType(t) # "str" /\ mo = "rows" => RowsOut(R, t)
             /\ ContentType(t) # "str" /\ mo # "rows" => FirstsOut(R, t)
<1> DEFINE R == OutputBy(mo, t)
           rows == BatchSize(t.shape)
           e == ElemSize(t.shape)
<1>1. /\ t.shape \in Seq(Nat) /\ Len(t.shape) > 1 /\ Fits(t)
      /\ Len(t.data) = Length(t.shape) /\ e \in Nat \ {0} /\ (ContentType(t) = "str" => e = 1)
      /\ t.datatype = "BYTES" => ContentType(t) = "str"
  BY DEF Solid, RowsOf, Fits
<1>2. rows \in Nat /\ Length(t.shape) = rows * e
  BY <1>1, ShapeParts
<1>3. CASE ContentType(t) = "str"
  <2> DEFINE d == IF t.datatype = "BYTES" THEN t.data ELSE [i \in 1..Len(t.data) |-> <<>>]
             p == Strings(d)
  <2>1. Len(t.data) = rows
    BY <1>1, <1>2, <1>3
  <2>2. d = (IF t.datatype = "BYTES" THEN t.data ELSE [i \in 1..rows |-> <<>>]) /\ Len(d) = rows
    BY <1>2, <2>1
  <2>3. Decode(t) = p
    BY <1>3 DEF Decode, DecodeStrings
  <2> HIDE DEF d
  <2>4. p.kind = "strings" /\ p.data = d /\ p # Raised
    <3>1. Raised.kind = "raised" /\ p.kind = "strings" /\ p.data = d
      BY DEF Raised, Strings
    <3> QED  BY <3>1
  <2> HIDE DEF p
  <2>5. ComputeBy(mo, p) = p
    BY <2>4 DEF ComputeBy
  <2>6. R = Tensor(t.name, "BYTES", <<Len(d), 1>>, d, "str")
    BY <2>3, <2>4, <2>5 DEF OutputBy, Encode, EncodeStrings
  <2> HIDE DEF R, rows
  <2>7. IsTensor(R) /\ R.name = t.name /\ R.datatype = "BYTES" /\ R.contentType = "str"
        /\ R.shape = <<rows, 1>> /\ R.data = d
    BY <2>2, <2>6 DEF Tensor, IsTensor
  <2>8. StringsOut(R, t)
    BY <2>2, <2>7 DEF StringsOut, rows
  <2> QED  BY <1>3, <2>3, <2>4, <2>7, <2>8 DEF R
<1>4. CASE ContentType(t) # "str"
  <2> DEFINE p == Array(t.datatype, t.shape, t.data)
  <2>1. Decode(t) = p
    BY <1>1, <1>4 DEF Decode, DecodeArray
  <2>2. p.kind = "array" /\ p.datatype = t.datatype /\ p.shape = t.shape /\ p.data = t.data /\ p # Raised
    <3>1. Raised.kind = "raised"
      BY DEF Raised
    <3>2. p.kind = "array" /\ p.datatype = t.datatype /\ p.shape = t.shape /\ p.data = t.data
      BY DEF Array
    <3> QED  BY <3>1, <3>2
  <2> HIDE DEF p
  <2>3. CASE mo = "rows"
    <3>1. ComputeBy(mo, p) = p
      BY <2>3 DEF ComputeBy
    <3>2. InjectBatchDimension(p.shape) = t.shape
      BY <1>1, <2>2 DEF InjectBatchDimension
    <3>3. R = Tensor(t.name, p.datatype, InjectBatchDimension(p.shape), p.data, "np")
      BY <2>1, <2>2, <3>1 DEF OutputBy, Encode, EncodeArray
    <3> HIDE DEF R
    <3>4. /\ IsTensor(R) /\ R.name = t.name /\ R.datatype = t.datatype /\ R.contentType = "np"
          /\ R.shape = t.shape /\ R.data = t.data
      BY <2>2, <3>2, <3>3 DEF Tensor, IsTensor
    <3>5. RowsOut(R, t)
      BY <3>4 DEF RowsOut
    <3> QED  BY <1>4, <2>1, <2>2, <2>3, <3>4, <3>5 DEF R
  <2>4. CASE mo # "rows"
    <3> DEFINE d == [r \in 1..rows |-> t.data[(r - 1) * e + 1]]
               q == Array(t.datatype, <<rows>>, d)
    <3>1. p.kind # "strings"
      BY <2>2
    <3>2. ComputeBy(mo, p) = q
      BY <2>2, <2>4, <3>1 DEF ComputeBy
    <3> HIDE DEF d
    <3>3. q.kind = "array" /\ q.datatype = t.datatype /\ q.shape = <<rows>> /\ q.data = d
      BY DEF Array
    <3> HIDE DEF q
    <3>4. InjectBatchDimension(q.shape) = <<rows, 1>>
      <4> HIDE DEF rows
      <4>1. Len(<<rows>>) = 1 /\ <<rows>> \in Seq(Nat)
        BY <1>2
      <4>2. PICK one \in Nat : one = 1
        OBVIOUS
      <4>3. Append(<<rows>>, one) = <<rows>> \o <<one>>
        BY <4>1, AppendIsConcat
      <4>4. <<rows>> \o <<1>> = <<rows, 1>>
        BY <1>2, SingleColumn
      <4>5. Append(<<rows>>, 1) = <<rows, 1>>
        BY <4>2, <4>3, <4>4, Zenon
      <4>6. InjectBatchDimension(<<rows>>) = Append(<<rows>>, 1)
        BY <4>1 DEF InjectBatchDimension
      <4> QED  BY <3>3, <4>5, <4>6, Zenon
    <3>5. R = Tensor(t.name, q.datatype, InjectBatchDimension(q.shape), q.data, "np")
      BY <2>1, <3>2, <3>3 DEF OutputBy, Encode, EncodeArray
    <3> HIDE DEF R, rows
    <3>6. /\ IsTensor(R) /\ R.name = t.name /\ R.datatype = t.datatype /\ R.contentType = "np"
          /\ R.shape = <<rows, 1>> /\ R.data = d
      BY <3>3, <3>4, <3>5 DEF Tensor, IsTensor
    <3>7. FirstsOut(R, t)
      BY <3>6 DEF FirstsOut, d, rows
    <3> QED  BY <1>4, <2>1, <2>2, <2>4, <3>6, <3>7 DEF R
  <2> QED  BY <2>3, <2>4
<1> QED  BY <1>3, <1>4

(* The first element of a row is in the row. *)
LEMMA FirstOfRow ==
  ASSUME NEW n \in Nat, NEW e \in Nat \ {0}, NEW r \in 1..n
  PROVE  (r - 1) * e + 1 \in 1..(n * e)
<1>1. (r - 1) * e = r * e - e /\ (r - 1) * e \in Nat
  OBVIOUS
<1>2. r * e =< n * e /\ r * e \in Nat
  BY Products
<1>3. n * e \in Nat
  BY Products
<1> DEFINE a == (r - 1) * e
           b == r * e
           c == n * e
<1>4. a = b - e /\ a \in Nat /\ b \in Nat /\ c \in Nat /\ b =< c
  BY <1>1, <1>2, <1>3
<1> HIDE DEF a, b, c
<1>5. a + 1 \in 1..c
  BY <1>4
<1> QED  BY <1>5 DEF a, c

(* The rows of an output are those of what it is computed from. *)
RowsKept(R, t) ==
  /\ Solid(R) /\ ElemSize(R.shape) \in Nat \ {0} /\ BatchSize(R.shape) = BatchSize(t.shape)
  /\ BatchSize(t.shape) \in Nat
  /\ Len(R.data) = BatchSize(t.shape) * ElemSize(R.shape)

LEMMA OutputRows ==
  ASSUME NEW mo, NEW t, Solid(t), RowsOf(t)
  PROVE  RowsKept(OutputBy(mo, t), t)
<1> DEFINE R == OutputBy(mo, t)
           rows == BatchSize(t.shape)
           e == ElemSize(t.shape)
           E == ElementsOf(t.datatype)
<1>1. /\ t.shape \in Seq(Nat) /\ Len(t.shape) > 1 /\ t.datatype \in DOMAIN FieldOf
      /\ Len(t.data) = Length(t.shape) /\ e \in Nat \ {0} /\ (ContentType(t) = "str" => e = 1)
      /\ t.data \in Seq(E)
  BY DEF Solid, RowsOf, Fits
<1>2. rows \in Nat /\ Length(t.shape) = rows * e
  BY <1>1, ShapeParts
<1>3. /\ IsTensor(R)
      /\ ContentType(t) = "str" => StringsOut(R, t)
      /\ ContentType(t) # "str" /\ mo = "rows" => RowsOut(R, t)
      /\ ContentType(t) # "str" /\ mo # "rows" => FirstsOut(R, t)
  BY Outputs
<1> HIDE DEF R
<1>4. \A r \in 1..rows : (r - 1) * e + 1 \in 1..Len(t.data)
  BY <1>1, <1>2, FirstOfRow
<1>5. /\ <<rows, 1>> \in Seq(Nat) /\ Len(<<rows, 1>>) = 2 /\ Length(<<rows, 1>>) = rows
      /\ BatchSize(<<rows, 1>>) = rows /\ ElemSize(<<rows, 1>>) = 1
  BY <1>2, SingleColumn
<1> HIDE DEF rows, e, E
<1>6. CASE ContentType(t) = "str"
  <2>1. R.datatype = "BYTES" /\ R.shape = <<rows, 1>>
        /\ R.data = IF t.datatype = "BYTES" THEN t.data ELSE [i \in 1..rows |-> <<>>]
    BY <1>3, <1>6 DEF StringsOut, rows
  <2>2. R.data \in Seq(ElementsOf("BYTES")) /\ Len(R.data) = rows
    <3>1. CASE t.datatype = "BYTES"
      BY <1>1, <1>2, <1>6, <2>1, <3>1 DEF E
    <3>2. CASE t.datatype # "BYTES"
      <4> DEFINE f == [i \in 1..rows |-> <<>>]
                 V == ElementsOf("BYTES")
      <4>1. <<>> \in V
        BY EmptyString
      <4> HIDE DEF V
      <4>2. f \in [1..rows -> V]
        BY <4>1
      <4>3. R.data = f
        BY <2>1, <3>2
      <4> HIDE DEF f
      <4>4. f \in Seq(V) /\ Len(f) = rows
        BY <1>2, <4>2, SeqDef, LenProperties
      <4> QED  BY <4>3, <4>4 DEF V
    <3> QED  BY <3>1, <3>2
  <2>3. "BYTES" \in DOMAIN FieldOf
    BY DEF FieldOf
  <2>4. Len(R.shape) > 1 /\ Fits(R)
    BY <1>5, <2>1, <2>2 DEF Fits
  <2>5. Solid(R)
    BY <1>3, <1>5, <2>1, <2>2, <2>3, <2>4 DEF Solid
  <2>6. ElemSize(R.shape) = 1 /\ BatchSize(R.shape) = rows /\ rows * 1 = rows
    BY <1>2, <1>5, <2>1
  <2> QED  BY <1>2, <2>2, <2>5, <2>6 DEF RowsKept, R, rows
<1>7. CASE ContentType(t) # "str" /\ mo = "rows"
  <2>1. R.datatype = t.datatype /\ R.shape = t.shape /\ R.data = t.data
    BY <1>3, <1>7 DEF RowsOut
  <2>2. Solid(R)
    BY <1>1, <1>3, <2>1 DEF Solid, Fits, E
  <2>3. ElemSize(R.shape) = e /\ BatchSize(R.shape) = rows /\ Len(R.data) = rows * e
    BY <1>1, <1>2, <2>1 DEF e, rows
  <2> QED  BY <1>1, <1>2, <2>2, <2>3 DEF RowsKept, R, rows
<1>8. CASE ContentType(t) # "str" /\ mo # "rows"
  <2> DEFINE f == [r \in 1..rows |-> t.data[(r - 1) * e + 1]]
  <2>1. R.datatype = t.datatype /\ R.shape = <<rows, 1>> /\ R.data = f
    BY <1>3, <1>8 DEF FirstsOut, rows, e
  <2>2. f \in [1..rows -> E]
    <3> SUFFICES ASSUME NEW r \in 1..rows PROVE t.data[(r - 1) * e + 1] \in E
      OBVIOUS
    <3>1. PICK p \in 1..Len(t.data) : p = (r - 1) * e + 1
      BY <1>4
    <3>2. t.data[p] \in E
      BY <1>1, <3>1
    <3> QED  BY <3>1, <3>2
  <2> HIDE DEF f
  <2>3. f \in Seq(E) /\ Len(f) = rows
    BY <1>2, <2>2, SeqDef, LenProperties
  <2>4. Len(R.shape) > 1 /\ Fits(R)
    BY <1>5, <2>1, <2>3 DEF Fits
  <2>5. Solid(R)
    BY <1>1, <1>3, <1>5, <2>1, <2>3, <2>4 DEF Solid, E
  <2>6. ElemSize(R.shape) = 1 /\ BatchSize(R.shape) = rows /\ rows * 1 = rows
    BY <1>2, <1>5, <2>1
  <2> QED  BY <1>2, <2>1, <2>3, <2>5, <2>6 DEF RowsKept, R, rows
<1> QED  BY <1>6, <1>7, <1>8

(* Of a merged head's output, the block of a request is what the model       *)
(* makes of the request's own head (_split_response_output).                *)
SplitAlone(R, Q, size, o) ==
  /\ Slice(R.data, o * ElemSize(R.shape), size * ElemSize(R.shape)) = Q.data
  /\ WithBatchSize(R.shape, size) = Q.shape
  /\ R.name = Q.name /\ R.datatype = Q.datatype /\ R.contentType = Q.contentType

LEMMA BlockSplit ==
  ASSUME NEW mo, NEW m, NEW h, NEW o, Block(m, h, o)
  PROVE  SplitAlone(OutputBy(mo, m), OutputBy(mo, h), BatchSize(h.shape), o)
<1> DEFINE R == OutputBy(mo, m)
           Q == OutputBy(mo, h)
           size == BatchSize(h.shape)
           rows == BatchSize(m.shape)
           e == ElemSize(h.shape)
           re == ElemSize(R.shape)
<1>1. /\ Solid(m) /\ RowsOf(m) /\ Solid(h) /\ RowsOf(h) /\ o \in Nat
      /\ m.name = h.name /\ m.datatype = h.datatype /\ Tail(m.shape) = Tail(h.shape)
      /\ ContentType(m) = ContentType(h) /\ At(m.data, o * e, h.data)
  BY DEF Block
<1>2. /\ m.shape \in Seq(Nat) /\ Len(m.shape) > 1 /\ h.shape \in Seq(Nat) /\ Len(h.shape) > 1
      /\ Len(m.data) = Length(m.shape) /\ Len(h.data) = Length(h.shape)
      /\ e \in Nat \ {0} /\ (ContentType(h) = "str" => e = 1)
  BY <1>1 DEF Solid, RowsOf, Fits
<1>3. ElemSize(m.shape) = e
  BY <1>1 DEF ElemSize
<1>4. /\ rows \in Nat /\ Length(m.shape) = rows * e /\ size \in Nat /\ Length(h.shape) = size * e
      /\ WithBatchSize(h.shape, size) = h.shape
  BY <1>2, <1>3, ShapeParts
<1>5. /\ RowsKept(R, m) /\ RowsKept(Q, h) /\ R.name = m.name /\ Q.name = h.name
  BY <1>1, OutputRows, Outputs
<1>6. /\ ContentType(h) = "str" => StringsOut(R, m) /\ StringsOut(Q, h)
      /\ ContentType(h) # "str" /\ mo = "rows" => RowsOut(R, m) /\ RowsOut(Q, h)
      /\ ContentType(h) # "str" /\ mo # "rows" => FirstsOut(R, m) /\ FirstsOut(Q, h)
  BY <1>1, Outputs
<1> HIDE DEF R, Q
<1>7. o * e + size * e =< rows * e /\ o + size =< rows
  <2>1. o * e + Len(h.data) =< Len(m.data)
    BY <1>1 DEF At
  <2>2. o * e + size * e =< rows * e
    BY <1>2, <1>4, <2>1
  <2>3. (o + size) * e = o * e + size * e
    BY <1>1, <1>2, <1>4
  <2>4. o + size \in Nat
    BY <1>1, <1>4
  <2>5. (o + size) * e =< rows * e
    BY <2>2, <2>3
  <2> QED  BY <1>2, <1>4, <2>2, <2>4, <2>5, Products
<1>8. /\ WithBatchSize(<<rows, 1>>, size) = <<size, 1>> /\ ElemSize(<<rows, 1>>) = 1
      /\ ElemSize(<<size, 1>>) = 1
  <2>1. Tail(<<rows, 1>>) = <<1>> /\ <<size>> \o <<1>> = <<size, 1>> /\ ElemSize(<<rows, 1>>) = 1
        /\ ElemSize(<<size, 1>>) = 1
    BY <1>4, SingleColumn
  <2> QED  BY <2>1 DEF WithBatchSize
<1>9. /\ At(R.data, o * re, Q.data) /\ ElemSize(Q.shape) = re
      /\ WithBatchSize(R.shape, size) = Q.shape
      /\ R.datatype = Q.datatype /\ R.contentType = Q.contentType
  <2>1. CASE ContentType(h) = "str"
    <3>1. /\ R.shape = <<rows, 1>> /\ Q.shape = <<size, 1>> /\ R.datatype = "BYTES" /\ Q.datatype = "BYTES"
          /\ R.contentType = "str" /\ Q.contentType = "str"
          /\ R.data = IF m.datatype = "BYTES" THEN m.data ELSE [i \in 1..rows |-> <<>>]
          /\ Q.data = IF h.datatype = "BYTES" THEN h.data ELSE [i \in 1..size |-> <<>>]
      BY <1>6, <2>1 DEF StringsOut
    <3>2. re = 1 /\ e = 1 /\ o * 1 = o /\ o * re = o * e
      BY <1>1, <1>2, <1>8, <2>1, <3>1
    <3>3. At(R.data, o * re, Q.data)
      <4>1. CASE m.datatype = "BYTES"
        BY <1>1, <3>1, <3>2, <4>1
      <4>2. CASE m.datatype # "BYTES"
        <5> DEFINE f == [i \in 1..rows |-> <<>>]
                   g == [i \in 1..size |-> <<>>]
        <5>1. Len(f) = rows /\ Len(g) = size
          BY <1>4
        <5>2. \A j \in 1..size : f[o + j] = g[j]
          BY <1>1, <1>4, <1>7
        <5>3. R.data = f /\ Q.data = g
          BY <1>1, <3>1, <4>2
        <5> HIDE DEF f, g
        <5>4. o * re = o
          BY <3>2
        <5> QED  BY <1>7, <5>1, <5>2, <5>3, <5>4 DEF At
      <4> QED  BY <4>1, <4>2
    <3> QED  BY <1>8, <3>1, <3>2, <3>3
  <2>2. CASE ContentType(h) # "str" /\ mo = "rows"
    <3>1. /\ R.shape = m.shape /\ Q.shape = h.shape /\ R.datatype = m.datatype /\ Q.datatype = h.datatype
          /\ R.contentType = "np" /\ Q.contentType = "np" /\ R.data = m.data /\ Q.data = h.data
      BY <1>6, <2>2 DEF RowsOut
    <3>2. re = e /\ ElemSize(Q.shape) = e
      BY <1>3, <3>1
    <3>3. WithBatchSize(m.shape, size) = h.shape
      BY <1>1, <1>4 DEF WithBatchSize
    <3> QED  BY <1>1, <3>1, <3>2, <3>3
  <2>3. CASE ContentType(h) # "str" /\ mo # "rows"
    <3> DEFINE f == [r \in 1..rows |-> m.data[(r - 1) * e + 1]]
               g == [r \in 1..size |-> h.data[(r - 1) * e + 1]]
    <3>1. /\ R.shape = <<rows, 1>> /\ Q.shape = <<size, 1>>
          /\ R.datatype = m.datatype /\ Q.datatype = h.datatype
          /\ R.contentType = "np" /\ Q.contentType = "np" /\ R.data = f /\ Q.data = g
      BY <1>3, <1>6, <2>3 DEF FirstsOut
    <3>2. Len(f) = rows /\ Len(g) = size
      BY <1>4
    <3>3. \A j \in 1..size : f[o + j] = g[j]
      <4> SUFFICES ASSUME NEW j \in 1..size PROVE f[o + j] = g[j]
        OBVIOUS
      <4>1. PICK a \in 1..(size * e) : a = (j - 1) * e + 1
        BY <1>2, <1>4, FirstOfRow
      <4>2. ((o + j) - 1) * e + 1 = o * e + a
        <5>1. ((o + j) - 1) * e = o * e + (j - 1) * e
          BY <1>1, <1>2, <1>4
        <5>2. o * e \in Int /\ (j - 1) * e \in Int
          BY <1>1, <1>2, <1>4
        <5> QED  BY <4>1, <5>1, <5>2
      <4>3. o + j \in 1..rows
        BY <1>1, <1>4, <1>7
      <4>4. f[o + j] = m.data[((o + j) - 1) * e + 1] /\ g[j] = h.data[(j - 1) * e + 1]
        BY <4>3
      <4>5. m.data[o * e + a] = h.data[a]
        BY <1>1, <1>2, <1>4, <4>1 DEF At
      <4> HIDE DEF f, g
      <4> QED  BY <4>1, <4>2, <4>4, <4>5
    <3> HIDE DEF f, g
    <3>4. re = 1 /\ o * re = o /\ ElemSize(Q.shape) = 1
      BY <1>1, <1>8, <3>1
    <3>5. At(R.data, o * re, Q.data)
      BY <1>7, <3>1, <3>2, <3>3, <3>4 DEF At
    <3> QED  BY <1>1, <1>8, <3>1, <3>4, <3>5
  <2> QED  BY <2>1, <2>2, <2>3
<1>10. Slice(R.data, o * re, size * re) = Q.data
  <2>1. /\ R.data \in Seq(ElementsOf(R.datatype)) /\ Q.data \in Seq(ElementsOf(Q.datatype))
        /\ Len(Q.data) = size * ElemSize(Q.shape) /\ re \in Nat \ {0}
    BY <1>5 DEF RowsKept, Solid
  <2>2. o * re \in Nat
    BY <1>1, <2>1, Products
  <2> DEFINE V == ElementsOf(R.datatype)
             p == o * re
  <2>3. R.data \in Seq(V) /\ Q.data \in Seq(V) /\ p \in Nat /\ At(R.data, p, Q.data)
    BY <1>9, <2>1, <2>2
  <2> HIDE DEF V, p
  <2>4. Slice(R.data, p, Len(Q.data)) = Q.data
    BY <2>3, SliceWhole
  <2>5. Len(Q.data) = size * re
    BY <1>9, <2>1
  <2> QED  BY <2>4, <2>5 DEF p
<1>11. R.name = Q.name
  BY <1>1, <1>5
<1> QED  BY <1>9, <1>10, <1>11 DEF SplitAlone, R, Q

-----------------------------------------------------------------------------
(* A batch that can be merged (Uniform, Proper), and the rows of a request.  *)
Conform(s) ==
  /\ \A i \in 1..Len(s) : Proper(s[i])
  /\ \A i, j \in 1..Len(s) :
       /\ Names(InputsOf(s[i])) = Names(InputsOf(s[j]))
       /\ \A h \in Range(InputsOf(s[i])), g \in Range(InputsOf(s[j])) :
            /\ i = j => BatchSize(h.shape) = BatchSize(g.shape)
            /\ h.name = g.name => /\ Tail(h.shape) = Tail(g.shape)
                                 /\ h.datatype = g.datatype /\ ContentType(h) = ContentType(g)
RowsIn(r) == BatchSize(InputsOf(r)[1].shape)

(* The head of request i, as the server has it. *)
HeadIn(s, i, name) == HeadOf(RequestsOf(MessagesOf(s))[i].inputs, name)

Headed(s, i, name, h) ==
  /\ h \in Range(InputsOf(s[i])) /\ h.name = name /\ Solid(h) /\ RowsOf(h)
  /\ RowsIn(s[i]) \in Nat /\ BatchSize(h.shape) = RowsIn(s[i])

LEMMA ConformHead ==
  ASSUME NEW s \in Batches, Conform(s), NEW i \in 1..Len(s), NEW name \in Names(InputsOf(s[i]))
  PROVE  Headed(s, i, name, HeadIn(s, i, name))
<1> DEFINE ts == InputsOf(s[i])
           n == Len(s[i].inputs)
           h == HeadOf(ts, name)
<1> Proper(s[i])
  BY DEF Conform
<1>1. HeadIn(s, i, name) = h
  BY OwnInputs DEF HeadIn
<1>2. /\ n \in Nat /\ ts = [k \in 1..n |-> ts[k]] /\ Len(ts) = n
      /\ \A k \in 1..n : Solid(ts[k]) /\ RowsOf(ts[k])
  BY InputsSolid
<1>3. PICK k \in 1..n : h = ts[k] /\ ts[k].name = name
  BY <1>2, HeadPlace
<1> HIDE DEF h, ts, n
<1>4. \A j \in 1..n : ts[j] \in Range(ts)
  BY <1>2 DEF Range
<1>5. 1 \in 1..n
  BY <1>2
<1>6. RowsIn(s[i]) = BatchSize(ts[1].shape)
  BY DEF RowsIn, ts
<1>7. BatchSize(ts[1].shape) \in Nat
  <2>1. ts[1].shape \in Seq(Nat) /\ Len(ts[1].shape) > 1
    BY <1>2, <1>5 DEF Solid
  <2> QED  BY <2>1, ShapeParts
<1>8. BatchSize(h.shape) = BatchSize(ts[1].shape)
  <2>1. h \in Range(ts) /\ ts[1] \in Range(ts)
    BY <1>3, <1>4, <1>5
  <2> QED  BY <2>1 DEF Conform, ts
<1>9. h \in Range(ts) /\ h.name = name /\ Solid(h) /\ RowsOf(h)
  BY <1>2, <1>3, <1>4
<1>10. Headed(s, i, name, h)
  BY <1>6, <1>7, <1>8, <1>9 DEF Headed, ts
<1> QED  BY <1>1, <1>10

(* Of a batch that conforms each merged head has the blocks of the requests, *)
(* one after the other.                                                     *)
Placed(s, p) ==
  p \in [0..Len(s) -> Nat] /\ Sums(p, [j \in 1..Len(s) |-> RowsIn(s[j])])

(* Every request of it has a place, in the order they came, and each head.   *)
LEMMA ConformPlaces ==
  ASSUME NEW s \in Batches, Conform(s), NEW rs, rs = RequestsOf(MessagesOf(s)), Len(MergedOf(rs)) # 0
  PROVE  /\ Len(s) \in Nat \ {0} /\ InPlace(rs, MergedOf(rs)) /\ Len(MergedOf(rs)) \in Nat
         /\ Len(rs) = Len(s) /\ Named(rs)
         /\ \A i \in 1..Len(s), k \in 1..Len(MergedOf(rs)) :
              MergedOf(rs)[k].name \in Names(InputsOf(s[i]))
<1>1. /\ Named(rs) /\ Len(rs) = Len(s) /\ Len(s) \in Nat
      /\ \A j \in 1..Len(s) : Names(rs[j].inputs) = Names(InputsOf(s[j]))
  BY BatchNamed
<1>2. SameHeads(rs)
  BY <1>1 DEF Conform, SameHeads
<1>3. InPlace(rs, MergedOf(rs))
  BY <1>1, <1>2, AllInPlace
<1>4. /\ Len(rs) # 0
      /\ \A i \in 1..Len(rs), k \in 1..Len(MergedOf(rs)) : MergedOf(rs)[k].name \in Names(rs[i].inputs)
  BY <1>3 DEF InPlace
<1>5. Len(MergedOf(rs)) \in Nat
  BY <1>1, MergedHeads DEF Named
<1> QED  BY <1>1, <1>3, <1>4, <1>5

(* The rows before each place. *)
LEMMA PlacesExist ==
  ASSUME NEW s \in Batches, Conform(s), NEW rs, rs = RequestsOf(MessagesOf(s)), Len(MergedOf(rs)) # 0
  PROVE  /\ \A i \in 1..Len(s) : RowsIn(s[i]) \in Nat
         /\ \E p : Placed(s, p)
<1> DEFINE n == Len(s)
           sizes == [j \in 1..n |-> RowsIn(s[j])]
<1>1. /\ n \in Nat \ {0} /\ Len(MergedOf(rs)) \in Nat
      /\ \A i \in 1..n, k \in 1..Len(MergedOf(rs)) : MergedOf(rs)[k].name \in Names(InputsOf(s[i]))
  BY ConformPlaces
<1>2. ASSUME NEW i \in 1..n
      PROVE  RowsIn(s[i]) \in Nat
  <2>1. 1 \in 1..Len(MergedOf(rs))
    BY <1>1
  <2>2. PICK name : name \in Names(InputsOf(s[i]))
    BY <1>1, <2>1
  <2> QED  BY <2>2, ConformHead DEF Headed
<1>3. sizes \in Seq(Nat) /\ Len(sizes) = n
  <2>1. sizes \in [1..n -> Nat]
    BY <1>2
  <2> HIDE DEF sizes
  <2> QED  BY <1>1, <2>1, SeqDef, LenProperties
<1> HIDE DEF sizes
<1>4. \E p \in [0..n -> Nat] : Sums(p, sizes)
  BY <1>3, SumsExist
<1> QED  BY <1>2, <1>4 DEF Placed, sizes

LEMMA ConformBlocks ==
  ASSUME NEW s \in Batches, Conform(s), NEW rs, rs = RequestsOf(MessagesOf(s)), Len(MergedOf(rs)) # 0,
         NEW p, Placed(s, p), NEW k \in 1..Len(MergedOf(rs)), NEW i \in 1..Len(s)
  PROVE  Block(MergedOf(rs)[k], HeadIn(s, i, MergedOf(rs)[k].name), p[i - 1])
<1> DEFINE n == Len(s)
           m == MergedOf(rs)[k]
           name == m.name
           heads == Heads(rs, name)
           sizes == [j \in 1..n |-> RowsIn(s[j])]
<1>1. /\ n \in Nat \ {0} /\ Named(rs) /\ Len(rs) = n /\ \A j \in 1..n : name \in Names(InputsOf(s[j]))
      /\ Owners(rs, name) = [j \in 1..n |-> j]
  <2>1. /\ n \in Nat \ {0} /\ InPlace(rs, MergedOf(rs)) /\ Len(rs) = n /\ Named(rs)
        /\ \A j \in 1..n : name \in Names(InputsOf(s[j]))
    BY ConformPlaces
  <2> QED  BY <2>1 DEF InPlace
<1>2. m = MergeHead(rs, name)
  BY <1>1, MergedHeads DEF Named
<1> HIDE DEF n, m, name
<1>3. heads = [j \in 1..n |-> HeadIn(s, j, name)]
  <2>1. Len(Owners(rs, name)) = n /\ \A j \in 1..n : Owners(rs, name)[j] = j
    BY <1>1
  <2> QED  BY <2>1 DEF Heads, HeadIn
<1> HIDE DEF heads
<1>4. heads = [j \in 1..n |-> heads[j]] /\ Len(heads) = n /\ \A j \in 1..n : heads[j] = HeadIn(s, j, name)
  BY <1>1, <1>3
<1>5. \A j \in 1..n : Headed(s, j, name, heads[j])
  BY <1>1, <1>4, ConformHead DEF n
<1>6. \A j \in 1..n : /\ heads[j] \in Range(InputsOf(s[j])) /\ heads[j].name = name
                      /\ Solid(heads[j]) /\ RowsOf(heads[j]) /\ RowsIn(s[j]) \in Nat
                      /\ BatchSize(heads[j].shape) = RowsIn(s[j])
  BY <1>5 DEF Headed
<1>7. Stackable(heads, n, name)
  <2>1. 1 \in 1..n
    BY <1>1
  <2>2. \A j \in 1..n : /\ Tail(heads[j].shape) = Tail(heads[1].shape)
                        /\ heads[j].datatype = heads[1].datatype
                        /\ ContentType(heads[j]) = ContentType(heads[1])
    BY <1>6, <2>1 DEF Conform, n
  <2> QED  BY <1>4, <1>6, <2>2 DEF Stackable
<1>8. sizes = [j \in 1..n |-> BatchSize(heads[j].shape)]
  BY <1>6
<1>9. p \in [0..n -> Nat] /\ Sums(p, [j \in 1..n |-> BatchSize(heads[j].shape)])
  BY <1>8 DEF Placed, n
<1>10. Merges(m, heads, n, name)
  <2>1. Len(heads) = n /\ heads = Heads(rs, name)
    BY <1>4 DEF heads
  <2> QED  BY <1>2, <2>1 DEF MergeHead, Merges
<1>11. Block(m, heads[i], p[i - 1])
  BY <1>1, <1>7, <1>9, <1>10, MergedBlocks DEF n
<1>12. heads[i] = HeadIn(s, i, name)
  BY <1>4 DEF n
<1> QED  BY <1>11, <1>12 DEF m, name

(* Where the rows of a request of a batch that conforms are                  *)
(* (_minibatch_sizes, _split_data).                                         *)
LEMMA OwnPlace ==
  ASSUME sent \in Batches, Conform(sent), requests = RequestsOf(MessagesOf(sent)),
         merged = MergedOf(requests), Len(merged) # 0, NEW p, Placed(sent, p), NEW i \in 1..Len(sent)
  PROVE  RowsBefore(i) = p[i - 1] /\ MinibatchSize(i) = RowsIn(sent[i])
<1> DEFINE n == Len(sent)
           sizes == [j \in 1..n |-> RowsIn(sent[j])]
<1>1. /\ n \in Nat \ {0} /\ InPlace(requests, merged) /\ Len(merged) \in Nat \ {0} /\ Len(requests) = n
      /\ \A j \in 1..n, k \in 1..Len(merged) : merged[k].name \in Names(InputsOf(sent[j]))
  BY ConformPlaces
<1>2. Batched = [j \in 1..n |-> j]
  BY <1>1 DEF InPlace, Batched, BatchedOf
<1>3. /\ p \in [0..n -> Nat] /\ Sums(p, sizes) /\ \A j \in 1..n : RowsIn(sent[j]) \in Nat
  BY PlacesExist DEF Placed
<1>4. \A j \in 1..n, k \in 1..Len(merged) : merged[k].name \in Names(requests[j].inputs)
  BY <1>1 DEF InPlace
<1> HIDE DEF n
<1>5. ASSUME NEW j \in 1..n
      PROVE  MinibatchSize(j) = RowsIn(sent[j])
  <2> DEFINE IsLastHead(k) == /\ merged[k].name \in Names(requests[j].inputs)
                              /\ \A l \in (k + 1)..Len(merged) : merged[l].name \notin Names(requests[j].inputs)
             at == CHOOSE k \in 1..Len(merged) : IsLastHead(k)
  <2>1. IsLastHead(Len(merged)) /\ Len(merged) \in 1..Len(merged)
    BY <1>1, <1>4
  <2>2. at \in 1..Len(merged)
    BY <2>1
  <2>3. LastHead(j) = merged[at].name
    BY DEF LastHead
  <2> HIDE DEF at
  <2>4. LastHead(j) \in Names(InputsOf(sent[j]))
    BY <1>1, <2>2, <2>3
  <2>5. Headed(sent, j, LastHead(j), HeadIn(sent, j, LastHead(j)))
    BY <2>4, ConformHead DEF n
  <2>6. HeadIn(sent, j, LastHead(j)) = HeadOf(requests[j].inputs, LastHead(j))
    BY DEF HeadIn
  <2> QED  BY <2>5, <2>6 DEF MinibatchSize, Headed
<1> DEFINE place == CHOOSE k \in 1..Len(Batched) : Batched[k] = i
           row == [k \in 1..(i - 1) |-> MinibatchSize(Batched[k])]
<1>6. i \in 1..n
  BY DEF n
<1>7. Len(Batched) = n /\ \A k \in 1..n : Batched[k] = k
  BY <1>1, <1>2
<1>8. place = i
  BY <1>6, <1>7
<1>9. RowsBefore(i) = Total([k \in 1..(place - 1) |-> MinibatchSize(Batched[k])])
  BY DEF RowsBefore
<1> HIDE DEF place
<1>10. RowsBefore(i) = Total(row)
  BY <1>8, <1>9
<1>11. row \in Seq(Nat) /\ Len(row) = i - 1 /\ \A k \in 1..(i - 1) : row[k] = sizes[k]
  <2>1. i - 1 \in Nat /\ \A k \in 1..(i - 1) : k \in 1..n
    BY <1>1, <1>6
  <2>2. \A k \in 1..(i - 1) : MinibatchSize(Batched[k]) = sizes[k] /\ sizes[k] \in Nat
    BY <1>3, <1>5, <1>7, <2>1
  <2>3. row \in [1..(i - 1) -> Nat] /\ \A k \in 1..(i - 1) : row[k] = sizes[k]
    BY <2>2
  <2> HIDE DEF row
  <2> QED  BY <2>1, <2>3, SeqDef, LenProperties
<1> HIDE DEF row
<1>12. Sums(p, row)
  <2>1. p[0] = 0 /\ \A k \in 1..n : p[k] = p[k - 1] + sizes[k]
    <3>1. Len(sizes) = n
      BY <1>1
    <3> HIDE DEF sizes
    <3> QED  BY <1>3, <3>1 DEF Sums
  <2>2. \A k \in 1..(i - 1) : k \in 1..n
    BY <1>1, <1>6
  <2> HIDE DEF sizes
  <2> QED  BY <1>11, <2>1, <2>2 DEF Sums
<1>13. Total(row) = p[i - 1]
  BY <1>11, <1>12, TotalIs
<1> QED  BY <1>5, <1>6, <1>10, <1>13

(* All of a tensor but its parameter. *)
Same(t, u) ==
  /\ t.name = u.name /\ t.datatype = u.datatype /\ t.shape = u.shape /\ t.data = u.data
  /\ t.contentType = u.contentType

(* The share of request i is what the model makes of its own head.          *)
LEMMA OwnShare ==
  ASSUME sent \in Batches, Conform(sent), requests = RequestsOf(MessagesOf(sent)),
         merged = MergedOf(requests), NEW i \in 1..Len(sent), NEW k \in 1..Len(merged),
         NEW t, IsTensor(t), Same(t, OutputBy(model, merged[k]))
  PROVE  Same(SplitOutput(t, i), OutputBy(model, HeadIn(sent, i, merged[k].name)))
<1> DEFINE R == OutputBy(model, merged[k])
           h == HeadIn(sent, i, merged[k].name)
           Q == OutputBy(model, h)
           size == BatchSize(h.shape)
           u == SplitOutput(t, i)
<1>1. Len(merged) # 0
  <2>1. Named(requests)
    BY BatchNamed
  <2>2. Len(merged) \in Nat
    BY <2>1, MergedHeads DEF Named
  <2> QED  BY <2>2
<1>2. PICK p : Placed(sent, p)
  BY <1>1, PlacesExist
<1>3. RowsBefore(i) = p[i - 1] /\ MinibatchSize(i) = RowsIn(sent[i])
  BY <1>1, <1>2, OwnPlace
<1>4. Block(merged[k], h, p[i - 1])
  BY <1>1, <1>2, ConformBlocks
<1>5. SplitAlone(R, Q, size, p[i - 1])
  BY <1>4, BlockSplit
<1>6. size = RowsIn(sent[i])
  <2>1. merged[k].name \in Names(InputsOf(sent[i]))
    BY <1>1, ConformPlaces
  <2> QED  BY <2>1, ConformHead DEF Headed
<1>7. u = [name |-> t.name, datatype |-> t.datatype, shape |-> WithBatchSize(t.shape, MinibatchSize(i)),
           data |-> Slice(t.data, RowsBefore(i) * ElemSize(t.shape), MinibatchSize(i) * ElemSize(t.shape)),
           contentType |-> t.contentType, parameter |-> SplitParameters(t, i)]
  BY ShareTensor
<1> HIDE DEF u, R, Q, h, size
<1>8. /\ u.name = t.name /\ u.datatype = t.datatype /\ u.contentType = t.contentType
      /\ u.shape = WithBatchSize(t.shape, size)
      /\ u.data = Slice(t.data, p[i - 1] * ElemSize(t.shape), size * ElemSize(t.shape))
  BY <1>3, <1>6, <1>7
<1>9. /\ t.name = R.name /\ t.datatype = R.datatype /\ t.shape = R.shape /\ t.data = R.data
      /\ t.contentType = R.contentType
  BY DEF Same, R
<1>10. Same(u, Q)
  BY <1>5, <1>8, <1>9 DEF Same, SplitAlone
<1> QED  BY <1>10 DEF u, Q, h

-----------------------------------------------------------------------------
(* The inductive invariant: at every stage the batch is what the steps      *)
(* before have made of what was sent.                                       *)
Stages == {"sending", "receiving", "merging", "predicting", "splitting", "responding", "reading",
           "done", "failed"}

(* A list of tensors, and one of them for the head u. *)
Tensors(ts) ==
  /\ Len(ts) \in Nat /\ ts = [k \in 1..Len(ts) |-> ts[k]]
  /\ \A k \in 1..Len(ts) : IsTensor(ts[k])
OutputOf(t, u) == t.name = u.name /\ t.parameter = AnswerParameter(u)

SentChain ==
  /\ sent \in Batches /\ stage \in Stages
  /\ stage # "sending" => messages = MessagesOf(sent)
  /\ stage \notin {"sending", "receiving"} => requests = RequestsOf(MessagesOf(sent))
  /\ stage \notin {"sending", "receiving", "merging"} => merged = MergedOf(requests)
ResponseChain ==
  stage = "splitting" =>
    /\ Tensors(response) /\ Len(response) = Len(merged)
    /\ \A k \in 1..Len(merged) : OutputOf(response[k], merged[k])
AnswersChain ==
  /\ stage = "responding" =>
       \A i \in DOMAIN answers :
         /\ i \in 1..Len(sent) /\ Tensors(answers[i].outputs)
         /\ OneRowEach(sent) => HasOwn(sent, i, answers[i].outputs)
  /\ stage = "reading" =>
       \A i \in DOMAIN answers :
         /\ Tensors(OfWire(answers[i]))
         /\ OneRowEach(sent) => HasOwn(sent, i, OfWire(answers[i]))
  /\ stage = "done" =>
       \A i \in DOMAIN results :
         /\ results[i] = [k \in 1..Len(results[i]) |-> results[i][k]]
         /\ OneRowEach(sent) => HasOwn(sent, i, results[i])
Chain == SentChain /\ ResponseChain /\ AnswersChain /\ EachAnswered

(* All have the batch as it was sent until it is merged. *)
LEMMA SentSteps ==
  ASSUME SentChain, [Next]_vars
  PROVE  SentChain'
<1> USE DEF SentChain, Stages
<1>1. CASE Send
  <2>1. messages' = MessagesOf(sent)
    <3>1. \A i \in 1..Len(sent) : Encoded(i) = InputsOf(sent[i])
      BY DEF Encoded, InputsOf
    <3> QED  BY <1>1, <3>1 DEF Send, MessagesOf
  <2> QED  BY <1>1, <2>1 DEF Send
<1>2. CASE Receive
  <2>1. requests' = RequestsOf(messages)
    BY <1>2 DEF Receive, RequestsOf
  <2>2. messages = MessagesOf(sent)
    BY <1>2 DEF Receive
  <2>3. requests' = RequestsOf(MessagesOf(sent))
    BY <2>1, <2>2
  <2> QED  BY <1>2, <2>2, <2>3 DEF Receive
<1>3. CASE Merge
  <2>1. merged' = MergedOf(requests)
    BY <1>3 DEF Merge, MergedOf
  <2> QED  BY <1>3, <2>1 DEF Merge
<1>4. CASE Predict
  BY <1>4 DEF Predict
<1>5. CASE FailPredict
  BY <1>5 DEF FailPredict
<1>6. CASE Split
  BY <1>6 DEF Split
<1>7. CASE Respond
  BY <1>7 DEF Respond
<1>8. CASE Read
  BY <1>8 DEF Read
<1>9. CASE UNCHANGED vars
  BY <1>9 DEF vars
<1> QED  BY <1>1, <1>2, <1>3, <1>4, <1>5, <1>6, <1>7, <1>8, <1>9 DEF Next

(* The batch as the server has it, its heads and its places. *)
LEMMA ServerBatch ==
  ASSUME SentChain, stage \notin {"sending", "receiving", "merging"}
  PROVE  /\ Named(requests) /\ Len(requests) = Len(sent) /\ Len(sent) \in Nat /\ Len(merged) \in Nat
         /\ requests = RequestsOf(MessagesOf(sent)) /\ merged = MergedOf(requests)
         /\ \A i \in 1..Len(sent) : Received(requests[i], sent[i]) /\ Len(sent[i].inputs) \in Nat
         /\ Batched = BatchedOf(requests, merged)
         /\ Range(Batched) = {i \in 1..Len(sent) : sent[i].inputs # <<>>}
         /\ Len(merged) = 0 => Range(Batched) = {}
<1>1. sent \in Batches /\ requests = RequestsOf(MessagesOf(sent)) /\ merged = MergedOf(requests)
  BY DEF SentChain
<1>2. /\ Named(requests) /\ Len(requests) = Len(sent) /\ Len(sent) \in Nat
      /\ \A i \in 1..Len(sent) : Received(requests[i], sent[i]) /\ Len(sent[i].inputs) \in Nat
  BY <1>1, BatchNamed
<1>3. Len(merged) \in Nat
  <2>1. Len(MergedOf(requests)) \in Nat
    BY <1>2, MergedHeads DEF Named
  <2> QED  BY <1>1, <2>1
<1>4. Batched = BatchedOf(requests, merged)
  BY DEF Batched, BatchedOf
<1> DEFINE with == {i \in 1..Len(requests) : Len(requests[i].inputs) # 0}
<1>5. Range(Batched) = with /\ (Len(merged) = 0 => with = {})
  BY <1>1, <1>2, <1>4, EveryoneBatched
<1>6. with = {i \in 1..Len(sent) : sent[i].inputs # <<>>}
  <2>1. ASSUME NEW i \in 1..Len(sent)
        PROVE  Len(requests[i].inputs) # 0 <=> sent[i].inputs # <<>>
    <3>1. Len(requests[i].inputs) = Len(sent[i].inputs)
      BY <1>2 DEF Received
    <3>2. sent[i].inputs \in Seq(ClientInputs)
      BY <1>1, BatchTyping
    <3>3. Len(sent[i].inputs) # 0 <=> sent[i].inputs # <<>>
      BY <3>2
    <3> QED  BY <3>1, <3>3
  <2> QED  BY <1>2, <2>1
<1> HIDE DEF with
<1> QED  BY <1>1, <1>2, <1>3, <1>4, <1>5, <1>6

LEMMA ResponseSteps ==
  ASSUME SentChain, ResponseChain, [Next]_vars
  PROVE  ResponseChain'
<1>1. CASE Predict
  <2>1. /\ stage = "predicting" /\ merged' = merged
        /\ response' = [k \in 1..Len(merged) |-> Answer(merged[k])]
    BY <1>1 DEF Predict
  <2>2. Len(merged) \in Nat
    BY <2>1, ServerBatch
  <2> DEFINE r == [k \in 1..Len(merged) |-> Answer(merged[k])]
  <2>3. Len(r) = Len(merged) /\ r = [k \in 1..Len(r) |-> r[k]]
    BY <2>2
  <2>4. \A k \in 1..Len(merged) : r[k] = Answer(merged[k])
    OBVIOUS
  <2> HIDE DEF r
  <2>5. \A k \in 1..Len(merged) : IsTensor(r[k]) /\ OutputOf(r[k], merged[k])
    BY <2>4, OutputTensor DEF OutputOf
  <2>6. Tensors(r)
    BY <2>2, <2>3, <2>5 DEF Tensors
  <2>7. response' = r
    BY <2>1 DEF r
  <2> QED  BY <2>1, <2>3, <2>5, <2>6, <2>7 DEF ResponseChain
<1>2. CASE UNCHANGED vars
  BY <1>2 DEF ResponseChain, vars
<1>3. CASE ~Predict /\ Next
  <2>1. stage' # "splitting"
    BY <1>3 DEF Next, Send, Receive, Merge, FailPredict, Split, Respond, Read
  <2> QED  BY <2>1 DEF ResponseChain
<1> QED  BY <1>1, <1>2, <1>3

(* split_response: everyone with an input is answered, with its own.        *)
LEMMA SplitStep ==
  ASSUME SentChain, ResponseChain, Split
  PROVE  AnswersChain' /\ EachAnswered'
<1>1. stage = "splitting" /\ stage' = "responding" /\ UNCHANGED <<sent, requests, merged, response>>
  BY DEF Split
<1> DEFINE outs(i) == [k \in 1..Len(response) |-> SplitOutput(response[k], i)]
           A == [i \in Answered |-> [id |-> requests[i].id, outputs |-> outs(i)]]
<1>2. answers' = A
  BY DEF Split
<1>3. /\ Named(requests) /\ Len(requests) = Len(sent) /\ Len(sent) \in Nat /\ Len(merged) \in Nat
      /\ sent \in Batches /\ requests = RequestsOf(MessagesOf(sent)) /\ merged = MergedOf(requests)
      /\ \A i \in 1..Len(sent) : Received(requests[i], sent[i])
      /\ Range(Batched) = {i \in 1..Len(sent) : sent[i].inputs # <<>>}
      /\ Len(merged) = 0 => Range(Batched) = {}
  BY <1>1, ServerBatch DEF SentChain
<1>4. /\ Tensors(response) /\ Len(response) = Len(merged)
      /\ \A k \in 1..Len(merged) : OutputOf(response[k], merged[k])
  BY <1>1 DEF ResponseChain
<1>5. Answered = {i \in 1..Len(sent) : sent[i].inputs # <<>>}
  <2>1. Len(merged) # 0 => response # <<>>
    BY <1>4
  <2>2. response # <<>> => Answered = Range(Batched)
    BY DEF Answered
  <2>3. response = <<>> => Answered = {}
    BY DEF Answered
  <2> HIDE DEF A
  <2> QED  BY <1>3, <2>1, <2>2, <2>3
<1>6. \A i \in Answered : A[i].id = requests[i].id /\ A[i].outputs = outs(i)
  OBVIOUS
<1>7. DOMAIN A = Answered
  OBVIOUS
<1> HIDE DEF A
<1>8. \A i \in Answered : A[i].id = IF sent[i].id = "None" THEN "" ELSE sent[i].id
  <2>1. \A i \in 1..Len(sent) : requests[i].id = IF sent[i].id = "None" THEN "" ELSE sent[i].id
    BY <1>3 DEF Received
  <2> QED  BY <1>5, <1>6, <2>1
<1>9. EachAnswered'
  BY <1>1, <1>2, <1>5, <1>7, <1>8 DEF EachAnswered
<1>10. ASSUME NEW i \in Answered
       PROVE  Tensors(outs(i)) /\ (OneRowEach(sent) => HasOwn(sent, i, outs(i)))
  <2> DEFINE o == outs(i)
  <2>1. /\ Len(o) = Len(merged) /\ o = [k \in 1..Len(o) |-> o[k]]
        /\ \A k \in 1..Len(merged) : o[k] = SplitOutput(response[k], i)
    BY <1>3, <1>4
  <2> HIDE DEF outs
  <2>2. \A k \in 1..Len(merged) : /\ IsTensor(response[k]) /\ response[k].name = merged[k].name
                                  /\ response[k].parameter = AnswerParameter(merged[k])
    BY <1>4 DEF Tensors, OutputOf
  <2>3. \A k \in 1..Len(merged) : /\ IsTensor(o[k]) /\ o[k].name = merged[k].name
                                  /\ o[k].parameter = SplitParameters(response[k], i)
    BY <2>1, <2>2, Share
  <2>4. ASSUME OneRowEach(sent), NEW k \in 1..Len(merged)
        PROVE  o[k].parameter = HeadOf(sent[i].inputs, o[k].name).parameter
    <3>1. i \in 1..Len(sent)
      BY <1>5
    <3>2. SplitParameters(response[k], i) = HeadOf(sent[i].inputs, merged[k].name).parameter
      BY <1>3, <2>2, <2>4, <3>1, SplitOwnParameter
    <3> QED  BY <2>3, <3>2
  <2>5. Tensors(o)
    BY <1>3, <2>1, <2>3 DEF Tensors
  <2> QED  BY <2>1, <2>4, <2>5 DEF HasOwn
<1> HIDE DEF outs
<1>11. AnswersChain'
  BY <1>1, <1>2, <1>5, <1>6, <1>7, <1>10 DEF AnswersChain
<1> QED  BY <1>9, <1>11

(* ModelInferResponseConverter: what goes back keeps its parameters.        *)
LEMMA RespondStep ==
  ASSUME AnswersChain, Respond
  PROVE  AnswersChain'
<1> DEFINE packable == {i \in DOMAIN answers :
                          requests[i].returnRaw => \A t \in Range(answers[i].outputs) : CanPack(t)}
           raw(i) == IF requests[i].returnRaw THEN Names(answers[i].outputs) ELSE {}
           A == [i \in packable |-> ToWire(answers[i].id, answers[i].outputs, raw(i))]
<1>1. stage = "responding" /\ stage' = "reading" /\ sent' = sent /\ answers' = A
  BY DEF Respond
<1>2. DOMAIN A \subseteq DOMAIN answers
      /\ \A i \in DOMAIN A : A[i] = ToWire(answers[i].id, answers[i].outputs, raw(i))
  OBVIOUS
<1> HIDE DEF A, raw
<1>3. ASSUME NEW i \in DOMAIN A
      PROVE  Tensors(OfWire(A[i])) /\ (OneRowEach(sent) => HasOwn(sent, i, OfWire(A[i])))
  <2> DEFINE ts == answers[i].outputs
             got == OfWire(ToWire(answers[i].id, ts, raw(i)))
  <2>1. Tensors(ts) /\ (OneRowEach(sent) => HasOwn(sent, i, ts))
    BY <1>1, <1>2 DEF AnswersChain
  <2> HIDE DEF ts
  <2>2. Len(ts) \in Nat /\ ts = [k \in 1..Len(ts) |-> ts[k]] /\ \A k \in 1..Len(ts) : IsTensor(ts[k])
    BY <2>1 DEF Tensors
  <2>3. /\ Len(got) = Len(ts) /\ got = [k \in 1..Len(ts) |-> got[k]]
        /\ \A k \in 1..Len(ts) : IsTensor(got[k]) /\ Alike(got[k], ts[k])
    BY <2>2, Wired
  <2>4. OfWire(A[i]) = got
    BY <1>2 DEF ts
  <2> HIDE DEF got
  <2>5. Tensors(got)
    BY <2>2, <2>3 DEF Tensors
  <2> QED  BY <2>1, <2>3, <2>4, <2>5 DEF HasOwn, Alike
<1> QED  BY <1>1, <1>3 DEF AnswersChain

(* decode_output leaves the parameters alone.                               *)
LEMMA ReadStep ==
  ASSUME AnswersChain, Read
  PROVE  AnswersChain'
<1> DEFINE got(i) == OfWire(answers[i])
           read(i) == [k \in 1..Len(got(i)) |-> DecodeOutput(got(i)[k])]
           R == [i \in DOMAIN answers |-> read(i)]
<1>1. stage = "reading" /\ stage' = "done" /\ sent' = sent /\ results' = R
  BY DEF Read
<1>2. DOMAIN R = DOMAIN answers /\ \A i \in DOMAIN R : R[i] = read(i)
  OBVIOUS
<1> HIDE DEF R
<1>3. ASSUME NEW i \in DOMAIN R
      PROVE  /\ R[i] = [k \in 1..Len(R[i]) |-> R[i][k]]
             /\ OneRowEach(sent) => HasOwn(sent, i, R[i])
  <2> DEFINE ts == OfWire(answers[i])
             us == [k \in 1..Len(ts) |-> DecodeOutput(ts[k])]
  <2>1. Tensors(ts) /\ (OneRowEach(sent) => HasOwn(sent, i, ts))
    BY <1>1, <1>2 DEF AnswersChain
  <2>2. R[i] = us
    BY <1>2
  <2> HIDE DEF ts, read
  <2>3. Len(us) = Len(ts) /\ us = [k \in 1..Len(us) |-> us[k]]
    BY <2>1 DEF Tensors
  <2>4. \A k \in 1..Len(ts) : us[k].name = ts[k].name /\ us[k].parameter = ts[k].parameter
    BY DEF DecodeOutput
  <2> HIDE DEF us
  <2> QED  BY <2>1, <2>2, <2>3, <2>4 DEF HasOwn
<1> QED  BY <1>1, <1>3 DEF AnswersChain

(* Every step keeps the invariant. *)
LEMMA ChainSteps ==
  ASSUME Chain, [Next]_vars
  PROVE  Chain'
<1>1. SentChain /\ ResponseChain /\ AnswersChain /\ EachAnswered
  BY DEF Chain
<1>2. SentChain'
  BY <1>1, SentSteps
<1>3. ResponseChain'
  BY <1>1, ResponseSteps
<1>4. AnswersChain' /\ EachAnswered'
  <2>1. CASE Split
    BY <1>1, <2>1, SplitStep
  <2>2. CASE Respond
    <3>1. stage' # "responding"
      BY <2>2 DEF Respond
    <3> QED  BY <1>1, <2>2, <3>1, RespondStep DEF EachAnswered
  <2>3. CASE Read
    <3>1. stage' # "responding"
      BY <2>3 DEF Read
    <3> QED  BY <1>1, <2>3, <3>1, ReadStep DEF EachAnswered
  <2>4. CASE Send \/ Receive \/ Merge \/ Predict \/ FailPredict
    <3>1. stage' \in {"receiving", "merging", "predicting", "splitting", "failed"}
      BY <2>4 DEF Send, Receive, Merge, Predict, FailPredict
    <3> QED  BY <3>1 DEF AnswersChain, EachAnswered
  <2>5. CASE UNCHANGED vars
    BY <1>1, <2>5 DEF AnswersChain, EachAnswered, vars
  <2> QED  BY <2>1, <2>2, <2>3, <2>4, <2>5 DEF Next
<1> QED  BY <1>2, <1>3, <1>4 DEF Chain

(* At every stage of a batch its messages, requests and merged request are   *)
(* what the code makes of what the clients sent, the outputs, answers and   *)
(* results are lists of tensors in the order of the heads, and each head of *)
(* an answer goes with its own request's parameter.                         *)
THEOREM BatchChain == Spec => []Chain
<1>1. Init => Chain
  BY DEF Init, Chain, SentChain, ResponseChain, AnswersChain, EachAnswered, Stages
<1>2. Chain /\ [Next]_vars => Chain'
  BY ChainSteps
<1> QED  BY <1>1, <1>2, PTL DEF Spec

(* For every batch that clients may send, every request with inputs is      *)
(* answered and no other, each under the id that it came with, however many *)
(* ids are the same or missing (requests.py:102, 204-236).                  *)
THEOREM EveryRequestAnswered == Spec => []EachAnswered
<1>1. Chain => EachAnswered
  BY DEF Chain
<1> QED  BY <1>1, BatchChain, PTL

(* For every batch of uniform requests with one row and a parameter each,   *)
(* what a client reads under a head has the parameter that the client gave  *)
(* that head, whatever travelled as raw contents (requests.py:22-43, 46-74).*)
THEOREM ParametersAreOwn == Spec => []OwnParameters
<1>1. ASSUME Chain
      PROVE  OwnParameters
  <2> SUFFICES ASSUME stage = "done", Uniform,
                      \A i \in 1..Len(sent) : \A h \in Range(Encoded(i)) :
                        h.parameter # "None" /\ BatchSize(h.shape) = 1,
                      NEW i \in DOMAIN results, NEW t \in Range(results[i])
               PROVE  t.parameter = HeadOf(sent[i].inputs, t.name).parameter
    BY DEF OwnParameters
  <2>1. \A j : Encoded(j) = InputsOf(sent[j])
    BY DEF Encoded, InputsOf
  <2>2. OneRowEach(sent)
    <3>1. \A j, k \in 1..Len(sent) : Names(Encoded(j)) = Names(Encoded(k))
      BY DEF Uniform
    <3> QED  BY <2>1, <3>1 DEF OneRowEach
  <2>3. results[i] = [k \in 1..Len(results[i]) |-> results[i][k]] /\ HasOwn(sent, i, results[i])
    BY <1>1, <2>2 DEF Chain, AnswersChain
  <2>4. PICK k \in 1..Len(results[i]) : t = results[i][k]
    BY <2>3 DEF Range
  <2> QED  BY <2>3, <2>4 DEF HasOwn
<1> QED  BY <1>1, BatchChain, PTL

-----------------------------------------------------------------------------
(* The outputs of an answer to request i: what the model makes of each of    *)
(* its inputs, and nothing else.                                            *)
OwnOutputs(mo, s, i, ts) ==
  /\ \A k \in 1..Len(ts) : \E u \in Range(InputsOf(s[i])) : Same(ts[k], OutputBy(mo, u))
  /\ \A u \in Range(InputsOf(s[i])) : \E k \in 1..Len(ts) : Same(ts[k], OutputBy(mo, u))

WithInputs(s) == {i \in 1..Len(s) : s[i].inputs # <<>>}
AloneBy(mo, s, i) ==
  {[name |-> t.name, payload |-> Decode(OutputBy(mo, t))] : t \in Range(InputsOf(s[i]))}
ReadFrom(ts) == {[name |-> t.name, payload |-> t.payload] : t \in Range(ts)}

RowsChain ==
  Conform(sent) =>
    /\ stage # "failed"
    /\ stage = "splitting" => \A k \in 1..Len(merged) : Same(response[k], OutputBy(model, merged[k]))
    /\ stage = "responding" =>
         \A i \in DOMAIN answers : OwnOutputs(model, sent, i, answers[i].outputs)
    /\ stage = "reading" =>
         /\ DOMAIN answers = WithInputs(sent)
         /\ \A i \in DOMAIN answers : OwnOutputs(model, sent, i, OfWire(answers[i]))
    /\ stage = "done" => \A i \in WithInputs(sent) : ReadFrom(results[i]) = AloneBy(model, sent, i)

(* What is the same but for its parameter is as solid, and is decoded alike. *)
LEMMA SameSolid ==
  ASSUME NEW t, IsTensor(t), NEW u, Solid(u), Same(t, u)
  PROVE  Solid(t) /\ CanPack(t)
<1>1. Fits(t) <=> Fits(u)
  BY DEF Same, Fits
<1>2. Solid(t)
  BY <1>1 DEF Same, Solid
<1> QED  BY <1>2 DEF Solid, CanPack

LEMMA SameDecoded ==
  ASSUME NEW t, NEW u, Same(t, u)
  PROVE  Decode(t) = Decode(u)
<1>1. /\ t.name = u.name /\ t.datatype = u.datatype /\ t.shape = u.shape /\ t.data = u.data
      /\ t.contentType = u.contentType
  BY DEF Same
<1>2. ContentType(t) = ContentType(u)
  BY <1>1 DEF ContentType
<1>3. DecodeStrings(t) = DecodeStrings(u)
  BY <1>1 DEF DecodeStrings
<1>4. DecodeArray(t) = DecodeArray(u)
  BY <1>1 DEF DecodeArray, Fits
<1> QED  BY <1>2, <1>3, <1>4 DEF Decode

(* An input is under its name, and there is no other under it. *)
LEMMA OnlyHead ==
  ASSUME NEW s \in Batches, Conform(s), NEW i \in 1..Len(s), NEW u \in Range(InputsOf(s[i]))
  PROVE  /\ u.name \in Names(InputsOf(s[i])) /\ Solid(u) /\ RowsOf(u)
         /\ HeadIn(s, i, u.name) = u
<1> DEFINE ts == InputsOf(s[i])
           n == Len(s[i].inputs)
<1> Proper(s[i])
  BY DEF Conform
<1>1. /\ n \in Nat /\ ts = [k \in 1..n |-> ts[k]] /\ Len(ts) = n
      /\ \A k \in 1..n : Solid(ts[k]) /\ RowsOf(ts[k])
      /\ \A j, k \in 1..n : ts[j].name = ts[k].name => j = k
  BY InputsSolid
<1>2. HeadIn(s, i, u.name) = HeadOf(ts, u.name)
  BY OwnInputs DEF HeadIn
<1> HIDE DEF n
<1>3. PICK k \in 1..n : u = ts[k]
  BY <1>1 DEF Range
<1>4. u.name \in Names(ts)
  BY <1>1, <1>3 DEF Names
<1>5. PICK j \in 1..n : HeadOf(ts, u.name) = ts[j] /\ ts[j].name = u.name
  BY <1>1, <1>4, HeadPlace
<1>6. j = k
  BY <1>1, <1>3, <1>5
<1> QED  BY <1>1, <1>2, <1>3, <1>4, <1>5, <1>6

(* The model answers each merged head, and raises at none. *)
LEMMA MergedDecodes ==
  ASSUME sent \in Batches, Conform(sent), requests = RequestsOf(MessagesOf(sent)),
         merged = MergedOf(requests)
  PROVE  Decodable
<1> SUFFICES ASSUME NEW k \in 1..Len(merged)
             PROVE  Decode(merged[k]) # Raised
  BY DEF Decodable
<1>1. Len(merged) # 0
  <2>1. Len(merged) \in Nat
    BY BatchNamed, MergedHeads DEF Named
  <2> QED  BY <2>1
<1>2. PICK p : Placed(sent, p)
  BY <1>1, PlacesExist
<1>3. 1 \in 1..Len(sent)
  BY <1>1, ConformPlaces
<1>4. Block(merged[k], HeadIn(sent, 1, merged[k].name), p[1 - 1])
  BY <1>1, <1>2, <1>3, ConformBlocks
<1>5. Solid(merged[k]) /\ RowsOf(merged[k])
  BY <1>4 DEF Block
<1> QED  BY <1>5, Outputs

(* An answer is what the model makes of its head, but for the parameter.     *)
LEMMA AnswerSame ==
  ASSUME NEW t
  PROVE  Same(Answer(t), OutputBy(model, t))
<1> DEFINE e == Encode(t.name, Compute(Decode(t)))
           p == AnswerParameter(t)
<1>1. e = [name |-> e.name, datatype |-> e.datatype, shape |-> e.shape, data |-> e.data,
           contentType |-> e.contentType, parameter |-> "None"]
  BY DEF Encode, EncodeArray, EncodeStrings, Tensor
<1>2. Answer(t) = [e EXCEPT !.parameter = p]
  BY DEF Answer, AnswerParameter
<1>3. Compute(Decode(t)) = ComputeBy(model, Decode(t))
  BY DEF Compute, ComputeBy
<1>4. e = OutputBy(model, t)
  BY <1>3 DEF OutputBy
<1> HIDE DEF e, p
<1>5. Answer(t) = [name |-> e.name, datatype |-> e.datatype, shape |-> e.shape, data |-> e.data,
                   contentType |-> e.contentType, parameter |-> p]
  BY <1>1, <1>2
<1> QED  BY <1>4, <1>5 DEF Same

(* The merged request has every head of every request. *)
LEMMA MergedHas ==
  ASSUME NEW rs, Named(rs), NEW i \in 1..Len(rs), NEW name \in Names(rs[i].inputs)
  PROVE  \E k \in 1..Len(MergedOf(rs)) : MergedOf(rs)[k].name = name
<1> DEFINE ms == MergedOf(rs)
<1>1. /\ Len(ms) = Len(HeadNames(rs)) /\ HeadNames(rs) \in Seq(DOMAIN Metadata)
      /\ \A k \in 1..Len(ms) : ms[k].name = HeadNames(rs)[k]
      /\ Range(HeadNames(rs)) = UNION {Names(rs[j].inputs) : j \in 1..Len(rs)}
  BY MergedHeads DEF Named
<1> HIDE DEF ms
<1>2. name \in Range(HeadNames(rs))
  BY <1>1
<1>3. PICK k \in 1..Len(HeadNames(rs)) : HeadNames(rs)[k] = name
  BY <1>1, <1>2 DEF Range
<1> QED  BY <1>1, <1>3 DEF ms

(* Every request is answered with what the model makes of its own inputs.   *)
LEMMA SplitOwn ==
  ASSUME SentChain, ResponseChain, RowsChain, stage = "splitting", Conform(sent),
         NEW i \in WithInputs(sent), NEW ts, Len(ts) = Len(merged),
         \A k \in 1..Len(merged) : ts[k] = SplitOutput(response[k], i)
  PROVE  OwnOutputs(model, sent, i, ts)
<1>1. /\ sent \in Batches /\ requests = RequestsOf(MessagesOf(sent)) /\ merged = MergedOf(requests)
      /\ Len(merged) \in Nat /\ i \in 1..Len(sent) /\ Named(requests) /\ Len(requests) = Len(sent)
      /\ Len(sent) \in Nat
  BY ServerBatch DEF SentChain, WithInputs
<1>2. \A k \in 1..Len(merged) : IsTensor(response[k]) /\ Same(response[k], OutputBy(model, merged[k]))
  BY DEF ResponseChain, RowsChain, Tensors
<1>3. ASSUME NEW k \in 1..Len(merged)
      PROVE  Same(ts[k], OutputBy(model, HeadIn(sent, i, merged[k].name)))
  BY <1>1, <1>2, OwnShare
<1>4. ASSUME NEW k \in 1..Len(ts)
      PROVE  \E u \in Range(InputsOf(sent[i])) : Same(ts[k], OutputBy(model, u))
  <2>1. Len(merged) # 0 /\ k \in 1..Len(merged)
    BY <1>1
  <2>2. merged[k].name \in Names(InputsOf(sent[i]))
    BY <1>1, <2>1, ConformPlaces
  <2>3. HeadIn(sent, i, merged[k].name) \in Range(InputsOf(sent[i]))
    BY <1>1, <2>2, ConformHead DEF Headed
  <2> QED  BY <1>3, <2>1, <2>3
<1>5. ASSUME NEW u \in Range(InputsOf(sent[i]))
      PROVE  \E k \in 1..Len(ts) : Same(ts[k], OutputBy(model, u))
  <2>1. u.name \in Names(InputsOf(sent[i])) /\ HeadIn(sent, i, u.name) = u
    BY <1>1, OnlyHead
  <2>2. u.name \in Names(requests[i].inputs)
    BY <1>1, <2>1, BatchNamed
  <2>3. PICK k \in 1..Len(merged) : merged[k].name = u.name
    <3>1. \E k \in 1..Len(MergedOf(requests)) : MergedOf(requests)[k].name = u.name
      <4>1. PICK rs : rs = requests
        OBVIOUS
      <4>2. Named(rs) /\ i \in 1..Len(rs) /\ u.name \in Names(rs[i].inputs)
        BY <1>1, <2>2, <4>1
      <4>3. \E k \in 1..Len(MergedOf(rs)) : MergedOf(rs)[k].name = u.name
        BY <4>2, MergedHas
      <4> QED  BY <4>1, <4>3, Zenon
    <3> QED  BY <1>1, <3>1, Zenon
  <2> QED  BY <1>3, <2>1, <2>3
<1> QED  BY <1>4, <1>5 DEF OwnOutputs

(* What goes back comes out as it was, whether it is raw or not.            *)
LEMMA OwnSolid ==
  ASSUME NEW s \in Batches, Conform(s), NEW i \in 1..Len(s), NEW mo, NEW ts, Tensors(ts),
         OwnOutputs(mo, s, i, ts)
  PROVE  \A k \in 1..Len(ts) : Solid(ts[k]) /\ CanPack(ts[k])
<1> SUFFICES ASSUME NEW k \in 1..Len(ts)
             PROVE  Solid(ts[k]) /\ CanPack(ts[k])
  OBVIOUS
<1>1. PICK u \in Range(InputsOf(s[i])) : Same(ts[k], OutputBy(mo, u))
  BY DEF OwnOutputs
<1>2. Solid(u) /\ RowsOf(u)
  BY OnlyHead
<1>3. Solid(OutputBy(mo, u))
  BY <1>2, OutputRows DEF RowsKept
<1> QED  BY <1>1, <1>3, SameSolid DEF Tensors

LEMMA OwnWired ==
  ASSUME NEW s \in Batches, Conform(s), NEW i \in 1..Len(s), NEW mo, NEW ts, Tensors(ts),
         OwnOutputs(mo, s, i, ts),
         NEW id, NEW raw \in {Names(ts), {}}
  PROVE  OfWire(ToWire(id, ts, raw)) = ts
<1>1. Len(ts) \in Nat /\ ts = [k \in 1..Len(ts) |-> ts[k]] /\ \A k \in 1..Len(ts) : Solid(ts[k])
  BY OwnSolid DEF Tensors
<1>2. TellsRaw(ts, raw)
  <2>1. CASE raw = {}
    BY <2>1 DEF TellsRaw
  <2>2. CASE raw = Names(ts)
    BY <2>2 DEF TellsRaw, Names
  <2> QED  BY <2>1, <2>2
<1> QED  BY <1>1, <1>2, WireRoundTrip

(* What the client reads is what it would read alone. *)
LEMMA OwnRead ==
  ASSUME NEW s \in Batches, Conform(s), NEW i \in 1..Len(s), NEW mo, NEW ts, Len(ts) \in Nat,
         OwnOutputs(mo, s, i, ts), NEW read, read = [k \in 1..Len(ts) |-> DecodeOutput(ts[k])]
  PROVE  ReadFrom(read) = AloneBy(mo, s, i)
<1>1. Range(read) = {DecodeOutput(ts[k]) : k \in 1..Len(ts)}
  BY DEF Range
<1>2. \A k \in 1..Len(ts) : /\ DecodeOutput(ts[k]).name = ts[k].name
                            /\ DecodeOutput(ts[k]).payload = Decode(ts[k])
  BY DEF DecodeOutput
<1>3. ReadFrom(read) = {[name |-> ts[k].name, payload |-> Decode(ts[k])] : k \in 1..Len(ts)}
  <2> DEFINE pair(k) == [name |-> ts[k].name, payload |-> Decode(ts[k])]
             both(t) == [name |-> t.name, payload |-> t.payload]
  <2>1. \A k \in 1..Len(ts) : DecodeOutput(ts[k]) \in Range(read) /\ both(DecodeOutput(ts[k])) = pair(k)
    BY <1>1, <1>2
  <2>2. \A t \in Range(read) : \E k \in 1..Len(ts) : t = DecodeOutput(ts[k])
    BY <1>1
  <2>3. ReadFrom(read) = {both(t) : t \in Range(read)}
    BY DEF ReadFrom
  <2> HIDE DEF pair, both
  <2>4. ReadFrom(read) = {pair(k) : k \in 1..Len(ts)}
    BY <2>1, <2>2, <2>3
  <2> QED  BY <2>4 DEF pair
<1>4. ASSUME NEW k \in 1..Len(ts), NEW u \in Range(InputsOf(s[i])), Same(ts[k], OutputBy(mo, u))
      PROVE  ts[k].name = u.name /\ Decode(ts[k]) = Decode(OutputBy(mo, u))
  <2>1. OutputBy(mo, u).name = u.name
    BY OnlyHead, Outputs
  <2> QED  BY <1>4, <2>1, SameDecoded DEF Same
<1>5. \A k \in 1..Len(ts) : [name |-> ts[k].name, payload |-> Decode(ts[k])] \in AloneBy(mo, s, i)
  BY <1>4 DEF OwnOutputs, AloneBy
<1>6. \A u \in Range(InputsOf(s[i])) : \E k \in 1..Len(ts) :
        [name |-> u.name, payload |-> Decode(OutputBy(mo, u))] = [name |-> ts[k].name, payload |-> Decode(ts[k])]
  BY <1>4 DEF OwnOutputs
<1> QED  BY <1>3, <1>5, <1>6 DEF AloneBy

(* split_response keeps the invariant. *)
LEMMA RowsSplit ==
  ASSUME SentChain, ResponseChain, EachAnswered, RowsChain, EachAnswered', Split
  PROVE  RowsChain'
<1>1. stage = "splitting" /\ stage' = "responding" /\ UNCHANGED <<sent, model, requests, merged, response>>
  BY DEF Split
<1> DEFINE outs(i) == [k \in 1..Len(response) |-> SplitOutput(response[k], i)]
           A == [i \in Answered |-> [id |-> requests[i].id, outputs |-> outs(i)]]
<1>2. answers' = A
  BY DEF Split
<1>3. Len(response) = Len(merged) /\ Len(merged) \in Nat
  BY <1>1, ServerBatch DEF ResponseChain
<1>4. DOMAIN A = WithInputs(sent)
  BY <1>1, <1>2 DEF EachAnswered, WithInputs
<1>5. \A i \in DOMAIN A : A[i].outputs = outs(i)
  OBVIOUS
<1> HIDE DEF A
<1>6. ASSUME Conform(sent), NEW i \in WithInputs(sent)
      PROVE  OwnOutputs(model, sent, i, outs(i))
  <2>1. Len(outs(i)) = Len(merged) /\ \A k \in 1..Len(merged) : outs(i)[k] = SplitOutput(response[k], i)
    BY <1>3
  <2> HIDE DEF outs
  <2> QED  BY <1>1, <1>6, <2>1, SplitOwn
<1> HIDE DEF outs
<1> QED  BY <1>1, <1>2, <1>4, <1>5, <1>6 DEF RowsChain

(* So does the way back over the wire, *)
LEMMA RowsRespond ==
  ASSUME SentChain, AnswersChain, EachAnswered, RowsChain, Respond
  PROVE  RowsChain'
<1> DEFINE packable == {i \in DOMAIN answers :
                          requests[i].returnRaw => \A t \in Range(answers[i].outputs) : CanPack(t)}
           raw(i) == IF requests[i].returnRaw THEN Names(answers[i].outputs) ELSE {}
           A == [i \in packable |-> ToWire(answers[i].id, answers[i].outputs, raw(i))]
<1>1. stage = "responding" /\ stage' = "reading" /\ sent' = sent /\ model' = model /\ answers' = A
  BY DEF Respond
<1>2. DOMAIN A = packable /\ \A i \in DOMAIN A : A[i] = ToWire(answers[i].id, answers[i].outputs, raw(i))
  OBVIOUS
<1> HIDE DEF A
<1>3. DOMAIN answers = WithInputs(sent) /\ sent \in Batches
  BY <1>1 DEF EachAnswered, WithInputs, SentChain
<1>4. ASSUME Conform(sent), NEW i \in DOMAIN answers
      PROVE  /\ i \in packable
             /\ OfWire(ToWire(answers[i].id, answers[i].outputs, raw(i))) = answers[i].outputs
             /\ OwnOutputs(model, sent, i, answers[i].outputs)
  <2> DEFINE ts == answers[i].outputs
  <2>1. i \in 1..Len(sent) /\ Tensors(ts) /\ OwnOutputs(model, sent, i, ts)
    BY <1>1, <1>4 DEF AnswersChain, RowsChain
  <2> HIDE DEF ts
  <2>2. \A k \in 1..Len(ts) : CanPack(ts[k])
    BY <1>3, <1>4, <2>1, OwnSolid
  <2>3. \A t \in Range(ts) : CanPack(t)
    BY <2>1, <2>2 DEF Tensors, Range
  <2>4. i \in packable
    BY <1>4, <2>3 DEF ts
  <2>5. raw(i) \in {Names(ts), {}}
    BY DEF ts
  <2> HIDE DEF raw
  <2>6. OfWire(ToWire(answers[i].id, ts, raw(i))) = ts
    BY <1>3, <1>4, <2>1, <2>5, OwnWired
  <2> QED  BY <2>1, <2>4, <2>6 DEF ts
<1> HIDE DEF packable, raw
<1>5. Conform(sent) => packable = DOMAIN answers
  <2>1. packable \subseteq DOMAIN answers
    BY DEF packable
  <2> QED  BY <1>4, <2>1
<1> QED  BY <1>1, <1>2, <1>3, <1>4, <1>5 DEF RowsChain

(* and what the client makes of it. *)
LEMMA RowsRead ==
  ASSUME SentChain, AnswersChain, RowsChain, Read
  PROVE  RowsChain'
<1> DEFINE got(i) == OfWire(answers[i])
           read(i) == [k \in 1..Len(got(i)) |-> DecodeOutput(got(i)[k])]
           R == [i \in DOMAIN answers |-> read(i)]
<1>1. stage = "reading" /\ stage' = "done" /\ sent' = sent /\ model' = model /\ results' = R
  BY DEF Read
<1>2. DOMAIN R = DOMAIN answers /\ \A i \in DOMAIN R : R[i] = read(i)
  OBVIOUS
<1> HIDE DEF R
<1>3. sent \in Batches
  BY DEF SentChain
<1>4. ASSUME Conform(sent), NEW i \in WithInputs(sent)
      PROVE  ReadFrom(R[i]) = AloneBy(model, sent, i)
  <2> DEFINE ts == OfWire(answers[i])
  <2>1. i \in DOMAIN answers /\ i \in 1..Len(sent)
    BY <1>1, <1>4 DEF RowsChain, WithInputs
  <2>2. Tensors(ts) /\ OwnOutputs(model, sent, i, ts)
    BY <1>1, <1>4, <2>1 DEF AnswersChain, RowsChain
  <2>3. R[i] = [k \in 1..Len(ts) |-> DecodeOutput(ts[k])]
    BY <1>2, <2>1
  <2> HIDE DEF ts
  <2>4. Len(ts) \in Nat
    BY <2>2 DEF Tensors
  <2> QED  BY <1>3, <1>4, <2>1, <2>2, <2>3, <2>4, OwnRead
<1> QED  BY <1>1, <1>4 DEF RowsChain

(* Every step keeps the invariant. *)
LEMMA RowsSteps ==
  ASSUME Chain, RowsChain, [Next]_vars
  PROVE  RowsChain'
<1>1. SentChain /\ ResponseChain /\ AnswersChain /\ EachAnswered
  BY DEF Chain
<1>2. EachAnswered'
  BY ChainSteps DEF Chain
<1>3. CASE Split
  BY <1>1, <1>2, <1>3, RowsSplit
<1>4. CASE Respond
  BY <1>1, <1>4, RowsRespond
<1>5. CASE Read
  BY <1>1, <1>5, RowsRead
<1>6. CASE Predict
  <2>1. /\ stage' = "splitting" /\ UNCHANGED <<sent, model, merged>>
        /\ response' = [k \in 1..Len(merged) |-> Answer(merged[k])]
    BY <1>6 DEF Predict
  <2> DEFINE r == [k \in 1..Len(merged) |-> Answer(merged[k])]
  <2>2. \A k \in 1..Len(merged) : r[k] = Answer(merged[k])
    OBVIOUS
  <2>3. response' = r
    BY <2>1
  <2> HIDE DEF r
  <2>4. \A k \in 1..Len(merged) : Same(r[k], OutputBy(model, merged[k]))
    BY <2>2, AnswerSame
  <2> QED  BY <2>1, <2>3, <2>4 DEF RowsChain
<1>7. CASE FailPredict
  <2>1. stage = "predicting" /\ ~Decodable /\ sent' = sent
    BY <1>7 DEF FailPredict
  <2>2. sent \in Batches /\ requests = RequestsOf(MessagesOf(sent)) /\ merged = MergedOf(requests)
    BY <1>1, <2>1 DEF SentChain
  <2>3. ~Conform(sent)
    BY <2>1, <2>2, MergedDecodes
  <2> QED  BY <2>1, <2>3 DEF RowsChain
<1>8. CASE Send \/ Receive \/ Merge
  <2>1. stage' \in {"receiving", "merging", "predicting"}
    BY <1>8 DEF Send, Receive, Merge
  <2> QED  BY <2>1 DEF RowsChain
<1>9. CASE UNCHANGED vars
  BY <1>9 DEF RowsChain, vars
<1> QED  BY <1>3, <1>4, <1>5, <1>6, <1>7, <1>8, <1>9 DEF Next

(* For every batch of uniform requests in the form the codecs give them,     *)
(* predict() does not fail, and every client with inputs reads what the     *)
(* model answers to its own inputs alone: its rows are cut out where they   *)
(* were merged, whatever else was in the batch and whichever tensors        *)
(* travelled as raw contents (requests.py:115-178, 196-257, raw.py).        *)
THEOREM RowsAreOwn == Spec => []OwnRows
<1>1. Init => Chain /\ RowsChain
  BY DEF Init, Chain, SentChain, ResponseChain, AnswersChain, EachAnswered, Stages, RowsChain
<1>2. Chain /\ RowsChain /\ [Next]_vars => (Chain /\ RowsChain)'
  BY ChainSteps, RowsSteps
<1>3. ASSUME RowsChain
      PROVE  OwnRows
  <2> SUFFICES ASSUME Uniform, \A i \in 1..Len(sent) : Proper(sent[i])
               PROVE  /\ stage # "failed"
                      /\ stage = "done" => \A i \in 1..Len(sent) : sent[i].inputs # <<>> =>
                           {[name |-> t.name, payload |-> t.payload] : t \in Range(results[i])} = Alone(i)
    BY DEF OwnRows
  <2>1. \A j : Encoded(j) = InputsOf(sent[j])
    BY DEF Encoded, InputsOf
  <2>2. Conform(sent)
    BY <2>1 DEF Uniform, Conform
  <2>3. \A i : Alone(i) = AloneBy(model, sent, i)
    <3>1. \A p : Compute(p) = ComputeBy(model, p)
      BY DEF Compute, ComputeBy
    <3>2. \A t : Encode(t.name, Compute(Decode(t))) = OutputBy(model, t)
      BY <3>1 DEF OutputBy
    <3> QED  BY <2>1, <3>2 DEF Alone, AloneBy
  <2> QED  BY <1>3, <2>2, <2>3 DEF RowsChain, WithInputs, ReadFrom
<1> QED  BY <1>1, <1>2, <1>3, PTL DEF Spec
=============================================================================
