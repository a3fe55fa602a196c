---------------------------- MODULE IngestProofs ----------------------------
(***************************************************************************)
(* Theorems about ingestion, Spec of module Ingest, for any number of      *)
(* handlers and requests, any requests that protobuf can hold, any hash,   *)
(* clock and DeltaTTL: its answers tell the truth, the totals of its delta *)
(* series are exact, and series have the labels they were sent with.       *)
(***************************************************************************)
EXTENDS Ingest, FiniteSetTheorems, NaturalsInduction, WellFoundedInduction, TLAPS

-----------------------------------------------------------------------------
(***************************************************************************)
(* Sums and concatenations.  The folds of the library are functions defined*)
(* by recursion: that such a function exists is shown here for each of     *)
(* them, the longest prefix for which it does being the whole.             *)
(***************************************************************************)

\* A set of naturals has a least member.
LEMMA LeastNat ==
    ASSUME NEW T, T \subseteq Nat, T # {}
    PROVE  \E x \in T : \A y \in T : x =< y
<1>1. PICK x \in T : \A y \in T : ~ (<<y, x>> \in OpToRel(<, Nat))
    BY WFMin, NatLessThanWellFounded
<1>2. \A y \in T : ~ (y < x)
    BY <1>1 DEF OpToRel
<1> QED BY <1>2

\* Induction: a set of naturals with 0, and with n + 1 whenever n < N is in
\* it, has all naturals up to N.
LEMMA UpTo ==
    ASSUME NEW N \in Nat, NEW G, 0 \in G,
           \A n \in Nat : n < N /\ n \in G => n + 1 \in G
    PROVE  \A n \in 0 .. N : n \in G
<1> DEFINE T == {n \in 0 .. N : n \notin G}
<1>1. SUFFICES ASSUME T # {} PROVE FALSE
    OBVIOUS
<1>2. PICK x \in T : \A y \in T : x =< y
  <2>1. T \subseteq Nat
      OBVIOUS
  <2> HIDE DEF T
  <2> QED BY <1>1, <2>1, LeastNat
<1>3. x \in Nat /\ x # 0 /\ x =< N /\ x \notin G
    OBVIOUS
<1>4. x - 1 \in Nat /\ x - 1 < N /\ x - 1 \in 0 .. N /\ ~ (x =< x - 1) /\ x - 1 + 1 = x
    BY <1>3
<1>5. x - 1 \in G
    BY <1>2, <1>4
<1>6. x - 1 + 1 \in G
    BY <1>4, <1>5
<1> QED BY <1>3, <1>4, <1>6

\* Max of a set within bounds is its largest member.
LEMMA MaxWithin ==
    ASSUME NEW k \in Nat, NEW t \in SUBSET (1 .. k), t # {}
    PROVE  Max(t) \in t /\ \A y \in t : y =< Max(t)
<1> DEFINE T == {k - y : y \in t}
<1>0. \A y \in t : y \in 1 .. k /\ k - y \in Nat
    OBVIOUS
<1>1. T \subseteq Nat /\ T # {}
    BY <1>0
<1>2. PICK z \in T : \A w \in T : z =< w
  <2> HIDE DEF T
  <2> QED BY <1>1, LeastNat
<1>3. PICK x \in t : z = k - x
    OBVIOUS
<1>4. \A y \in t : x >= y
  <2> SUFFICES ASSUME NEW y \in t PROVE x >= y
      OBVIOUS
  <2>1. k - x =< k - y
      BY <1>2, <1>3
  <2> QED BY <2>1
<1>5. \E w \in t : \A y \in t : w >= y
    BY <1>4
<1>6. Max(t) \in t /\ \A y \in t : Max(t) >= y
    BY <1>5 DEF Max
<1> QED BY <1>6

\* What FoldLeft makes of Total: a function on the sets of places.
SumsBySet(s, f) ==
    f = [t \in SUBSET DOMAIN s |-> IF t = {} THEN 0 ELSE f[t \ {Max(t)}] + s[Max(t)]]

LEMMA TotalIsChosen == ASSUME NEW s PROVE Total(s) = (CHOOSE f : SumsBySet(s, f))[DOMAIN s]
BY DEF Total, FoldLeft, MapThenFoldSet, SumsBySet

\* Such a function on the sets of the first k places.
SumsUpTo(s, k, f) ==
    /\ f \in [SUBSET (1 .. k) -> Int]
    /\ \A t \in SUBSET (1 .. k) : f[t] = IF t = {} THEN 0 ELSE f[t \ {Max(t)}] + s[Max(t)]

LEMMA SumsExtend ==
    ASSUME NEW s \in Seq(Int), NEW k \in Nat, k + 1 =< Len(s), NEW f, SumsUpTo(s, k, f)
    PROVE  \E g : SumsUpTo(s, k + 1, g)
<1> DEFINE g == [t \in SUBSET (1 .. k + 1) |-> IF k + 1 \in t THEN f[t \ {k + 1}] + s[k + 1] ELSE f[t]]
<1>1. s[k + 1] \in Int
    OBVIOUS
<1>2. \A t \in SUBSET (1 .. k + 1) : t \ {k + 1} \in SUBSET (1 .. k)
    OBVIOUS
<1>3. \A t \in SUBSET (1 .. k + 1) : k + 1 \notin t => t \in SUBSET (1 .. k)
    OBVIOUS
<1>4. g \in [SUBSET (1 .. k + 1) -> Int]
    BY <1>1, <1>2, <1>3 DEF SumsUpTo
<1>5. ASSUME NEW t \in SUBSET (1 .. k + 1)
      PROVE  g[t] = IF t = {} THEN 0 ELSE g[t \ {Max(t)}] + s[Max(t)]
  <2>1. CASE k + 1 \in t
    <3>0. k + 1 \in Nat /\ t # {}
        BY <2>1
    <3>1. Max(t) \in t /\ \A y \in t : y =< Max(t)
        BY ONLY <3>0, t \in SUBSET (1 .. k + 1), MaxWithin
    <3>1a. Max(t) \in 1 .. k + 1
        BY <3>1
    <3>1b. k + 1 =< Max(t)
        BY <2>1, <3>1
    <3>2. Max(t) = k + 1
        BY <3>1a, <3>1b
    <3>3. k + 1 \notin t \ {k + 1} /\ t \ {k + 1} \in SUBSET (1 .. k + 1)
        OBVIOUS
    <3>4. g[t \ {k + 1}] = f[t \ {k + 1}]
        BY <3>3
    <3>5. g[t] = f[t \ {k + 1}] + s[k + 1]
        BY <2>1
    <3> QED BY <2>1, <3>2, <3>4, <3>5
  <2>2. CASE k + 1 \notin t
    <3>1. t \in SUBSET (1 .. k)
        BY <1>3, <2>2
    <3>2. g[t] = f[t]
        BY <2>2
    <3>3. f[t] = IF t = {} THEN 0 ELSE f[t \ {Max(t)}] + s[Max(t)]
        BY <3>1 DEF SumsUpTo
    <3>4. k + 1 \notin t \ {Max(t)} /\ t \ {Max(t)} \in SUBSET (1 .. k + 1)
        BY <2>2
    <3>5. g[t \ {Max(t)}] = f[t \ {Max(t)}]
        BY <3>4
    <3> QED BY <3>2, <3>3, <3>5
  <2> QED BY <2>1, <2>2
<1> HIDE DEF g
<1>6. SumsUpTo(s, k + 1, g)
    BY <1>4, <1>5 DEF SumsUpTo
<1> QED BY <1>6

LEMMA SumsExist ==
    ASSUME NEW s \in Seq(Int)
    PROVE  \E f : SumsUpTo(s, Len(s), f)
<1> DEFINE T == {k \in 0 .. Len(s) : ~ \E f : SumsUpTo(s, k, f)}
<1>0. Len(s) \in Nat
    OBVIOUS
<1>1. SUFFICES ASSUME T # {} PROVE FALSE
    BY <1>0
<1>2. PICK k \in T : \A y \in T : k =< y
  <2>1. T \subseteq Nat
      BY <1>0
  <2> HIDE DEF T
  <2> QED BY <1>1, <2>1, LeastNat
<1>3. k \in 0 .. Len(s) /\ ~ \E f : SumsUpTo(s, k, f)
    OBVIOUS
<1>4. CASE k = 0
  <2> DEFINE z == [t \in SUBSET (1 .. 0) |-> 0]
  <2>1. z \in [SUBSET (1 .. 0) -> Int]
      OBVIOUS
  <2>2. \A t \in SUBSET (1 .. 0) : t = {} /\ z[t] = 0
      OBVIOUS
  <2> HIDE DEF z
  <2>3. SumsUpTo(s, 0, z)
      BY <2>1, <2>2 DEF SumsUpTo
  <2> QED BY <1>3, <1>4, <2>3
<1>5. CASE k # 0
  <2>1. k - 1 \in Nat /\ k - 1 \in 0 .. Len(s) /\ k - 1 + 1 = k /\ ~ (k =< k - 1)
      BY <1>0, <1>3, <1>5
  <2>2. k - 1 \notin T
      BY <1>2, <2>1
  <2>3. PICK f : SumsUpTo(s, k - 1, f)
      BY <2>1, <2>2
  <2>4. \E g : SumsUpTo(s, (k - 1) + 1, g)
      BY <1>0, <1>3, <2>1, <2>3, SumsExtend
  <2> QED BY <1>3, <2>1, <2>4
<1> QED BY <1>4, <1>5

\* Total is the last of the partial sums.
LEMMA TotalByParts ==
    ASSUME NEW s \in Seq(Int)
    PROVE  \E A \in [0 .. Len(s) -> Int] :
              /\ A[0] = 0
              /\ \A k \in 1 .. Len(s) : A[k] = A[k - 1] + s[k]
              /\ Total(s) = A[Len(s)]
<1> DEFINE f == CHOOSE g : SumsBySet(s, g)
<1>0. DOMAIN s = 1 .. Len(s) /\ Len(s) \in Nat
    OBVIOUS
<1>1. SumsBySet(s, f)
  <2>1. PICK g : SumsUpTo(s, Len(s), g)
      BY SumsExist
  <2>2. SumsBySet(s, g)
      BY <1>0, <2>1 DEF SumsUpTo, SumsBySet
  <2> QED BY <2>2
<1>2. Total(s) = f[DOMAIN s]
    BY TotalIsChosen
<1> HIDE DEF f
<1>3. \A t \in SUBSET (1 .. Len(s)) : f[t] = IF t = {} THEN 0 ELSE f[t \ {Max(t)}] + s[Max(t)]
    BY <1>0, <1>1 DEF SumsBySet
<1> DEFINE A == [k \in 0 .. Len(s) |-> f[1 .. k]]
<1>4. A[0] = 0
  <2>1. 1 .. 0 = {} /\ {} \in SUBSET (1 .. Len(s))
      OBVIOUS
  <2>2. f[{}] = 0
      BY <1>3, <2>1
  <2>3. 0 \in 0 .. Len(s)
      BY <1>0
  <2> QED BY <2>1, <2>2, <2>3
<1>5. ASSUME NEW k \in 1 .. Len(s) PROVE A[k] = A[k - 1] + s[k]
  <2>1. 1 .. k \in SUBSET (1 .. Len(s)) /\ k \in 1 .. k /\ k \in Nat
      BY <1>0
  <2>2. Max(1 .. k) \in 1 .. k /\ \A y \in 1 .. k : y =< Max(1 .. k)
      BY <2>1, MaxWithin
  <2>3. Max(1 .. k) = k
      BY <2>1, <2>2
  <2>4. (1 .. k) \ {k} = 1 .. k - 1
      BY <2>1
  <2>5. f[1 .. k] = f[1 .. k - 1] + s[k]
      BY <1>3, <2>1, <2>3, <2>4
  <2>6. k \in 0 .. Len(s) /\ k - 1 \in 0 .. Len(s)
      BY <1>0
  <2> QED BY <2>5, <2>6
<1>6. Total(s) = A[Len(s)]
    BY <1>0, <1>2
<1>7. A \in [0 .. Len(s) -> Int]
  <2> DEFINE T == {k \in 0 .. Len(s) : A[k] \notin Int}
  <2>1. SUFFICES ASSUME T # {} PROVE FALSE
      OBVIOUS
  <2>2. PICK k \in T : \A y \in T : k =< y
    <3>1. T \subseteq Nat
        BY <1>0
    <3> HIDE DEF T
    <3> QED BY <2>1, <3>1, LeastNat
  <2>3. k \in 0 .. Len(s) /\ A[k] \notin Int
      OBVIOUS
  <2>4. k # 0
      BY <1>4, <2>3
  <2>5. k - 1 \in 0 .. Len(s) /\ ~ (k =< k - 1) /\ k \in 1 .. Len(s)
      BY <1>0, <2>3, <2>4
  <2>6. k - 1 \notin T
      BY <2>2, <2>5
  <2>7. A[k - 1] \in Int
      BY <2>5, <2>6
  <2>8. s[k] \in Int
      BY <2>5
  <2> HIDE DEF A
  <2> QED BY <1>5, <2>3, <2>5, <2>7, <2>8
<1> HIDE DEF A
<1> QED BY <1>4, <1>5, <1>6, <1>7
LEMMA TotalType == ASSUME NEW s \in Seq(Int) PROVE Total(s) \in Int
<1>1. PICK A \in [0 .. Len(s) -> Int] : Total(s) = A[Len(s)]
    BY TotalByParts
<1>2. Len(s) \in 0 .. Len(s)
    OBVIOUS
<1> QED BY <1>1, <1>2

\* Partial sums that agree up to a place.
LEMMA SameSums ==
    ASSUME NEW n \in Nat, NEW A, NEW B, A[0] = B[0],
           \A k \in 1 .. n : A[k - 1] = B[k - 1] => A[k] = B[k]
    PROVE  A[n] = B[n]
<1> DEFINE T == {k \in 0 .. n : A[k] # B[k]}
<1>1. SUFFICES ASSUME T # {} PROVE FALSE
    OBVIOUS
<1>2. PICK k \in T : \A y \in T : k =< y
  <2>1. T \subseteq Nat
      OBVIOUS
  <2> HIDE DEF T
  <2> QED BY <1>1, <2>1, LeastNat
<1>3. k # 0 /\ k \in 0 .. n /\ A[k] # B[k]
    OBVIOUS
<1>4. k - 1 \in 0 .. n /\ ~ (k =< k - 1) /\ k \in 1 .. n
    BY <1>3
<1>5. k - 1 \notin T
    BY <1>2, <1>4
<1>6. A[k - 1] = B[k - 1]
    BY <1>4, <1>5
<1> QED BY <1>3, <1>4, <1>6

\* The total of a sequence with one more element, and of one that is zero
\* from some place to its end.
LEMMA TotalAppend ==
    ASSUME NEW s \in Seq(Int), NEW x \in Int
    PROVE  Total(Append(s, x)) = Total(s) + x
<1> DEFINE n == Len(s)
           u == Append(s, x)
<1>1. n \in Nat /\ u \in Seq(Int) /\ Len(u) = n + 1 /\ u[n + 1] = x /\ \A k \in 1 .. n : u[k] = s[k]
    OBVIOUS
<1> HIDE DEF n, u
<1>2. PICK A \in [0 .. Len(s) -> Int] :
         A[0] = 0 /\ (\A k \in 1 .. Len(s) : A[k] = A[k - 1] + s[k]) /\ Total(s) = A[Len(s)]
    BY TotalByParts
<1>3. PICK B \in [0 .. Len(u) -> Int] :
         B[0] = 0 /\ (\A k \in 1 .. Len(u) : B[k] = B[k - 1] + u[k]) /\ Total(u) = B[Len(u)]
    BY <1>1, TotalByParts
<1>4. \A k \in 1 .. n : A[k - 1] = B[k - 1] => A[k] = B[k]
  <2>1. \A k \in 1 .. n : k \in 1 .. Len(u)
      BY <1>1
  <2> QED BY <1>1, <1>2, <1>3, <2>1 DEF n
<1>4a. n \in Nat /\ A[0] = B[0]
    BY <1>1, <1>2, <1>3
<1>5. A[n] = B[n]
    BY ONLY <1>4, <1>4a, SameSums
<1>6. B[n + 1] = B[n] + x
  <2>1. n + 1 \in 1 .. Len(u) /\ (n + 1) - 1 = n
      BY <1>1
  <2> QED BY <1>1, <1>3, <2>1
<1> QED BY <1>1, <1>2, <1>3, <1>5, <1>6 DEF n, u

LEMMA TotalZeros ==
    ASSUME NEW s \in Seq(Int), NEW m \in 0 .. Len(s), NEW u \in Seq(Int), Len(u) = m,
           \A k \in 1 .. m : u[k] = s[k],
           \A k \in m + 1 .. Len(s) : s[k] = 0
    PROVE  Total(s) = Total(u)
<1> DEFINE n == Len(s)
<1>1. n \in Nat /\ m \in Nat /\ m =< n
    OBVIOUS
<1>2. PICK A \in [0 .. Len(s) -> Int] :
         A[0] = 0 /\ (\A k \in 1 .. Len(s) : A[k] = A[k - 1] + s[k]) /\ Total(s) = A[Len(s)]
    BY TotalByParts
<1>3. PICK B \in [0 .. Len(u) -> Int] :
         B[0] = 0 /\ (\A k \in 1 .. Len(u) : B[k] = B[k - 1] + u[k]) /\ Total(u) = B[Len(u)]
    BY TotalByParts
<1>4. \A k \in 1 .. m : A[k - 1] = B[k - 1] => A[k] = B[k]
  <2>1. \A k \in 1 .. m : k \in 1 .. Len(s) /\ k \in 1 .. Len(u)
      BY <1>1
  <2> QED BY <1>2, <1>3, <2>1
<1>4a. m \in Nat /\ A[0] = B[0]
    BY <1>1, <1>2, <1>3
<1>5. A[m] = B[m]
    BY ONLY <1>4, <1>4a, SameSums
<1> DEFINE C == [k \in 0 .. n |-> IF k =< m THEN A[k] ELSE B[m]]
<1>6. \A k \in 1 .. n : A[k - 1] = C[k - 1] => A[k] = C[k]
  <2> SUFFICES ASSUME NEW k \in 1 .. n, A[k - 1] = C[k - 1] PROVE A[k] = C[k]
      OBVIOUS
  <2>0. k \in 0 .. n /\ k - 1 \in 0 .. n
      BY <1>1
  <2>1. CASE k =< m
      BY <2>0, <2>1
  <2>2. CASE ~ (k =< m)
    <3>0. k \in m + 1 .. Len(s) /\ (k - 1 =< m => k - 1 = m)
        BY <1>1, <2>2
    <3>1. s[k] = 0 /\ A[k] = A[k - 1] + s[k] /\ A[k - 1] \in Int
      <4>1. s[k] = 0
          BY <3>0
      <4>2. A[k] = A[k - 1] + s[k]
          BY <1>2
      <4>3. A[k - 1] \in Int
          BY <2>0
      <4> QED BY <4>1, <4>2, <4>3
    <3>2. C[k] = B[m]
        BY <2>0, <2>2
    <3>3. C[k - 1] = B[m]
        BY <1>5, <2>0, <3>0
    <3> HIDE DEF C
    <3> QED BY <3>1, <3>2, <3>3
  <2> QED BY <2>1, <2>2
<1>7. A[0] = C[0]
    BY <1>1
<1>8. C[n] = B[m]
    BY <1>1, <1>5
<1> HIDE DEF C, n
<1>9. A[n] = C[n]
    BY <1>1, <1>6, <1>7, SameSums
<1> QED BY <1>2, <1>3, <1>8, <1>9 DEF n

-----------------------------------------------------------------------------

\* What FlattenSeq makes of a sequence of sequences.
Flattens(ss, f) == f = [i \in 1 .. Len(ss) |-> IF i = 1 THEN ss[i] ELSE f[i - 1] \o ss[i]]

LEMMA FlattenIsChosen ==
    ASSUME NEW ss, Len(ss) # 0
    PROVE  FlattenSeq(ss) = (CHOOSE f : Flattens(ss, f))[Len(ss)]
BY DEF FlattenSeq, Flattens

FlattensUpTo(ss, k, f) ==
    /\ DOMAIN f = 1 .. k
    /\ f = [i \in 1 .. k |-> IF i = 1 THEN ss[i] ELSE f[i - 1] \o ss[i]]

LEMMA FlattenExists ==
    ASSUME NEW ss, Len(ss) \in Nat
    PROVE  \E f : Flattens(ss, f)
<1> DEFINE T == {k \in 0 .. Len(ss) : ~ \E f : FlattensUpTo(ss, k, f)}
<1>1. SUFFICES ASSUME T # {} PROVE FALSE
  <2>1. CASE T = {}
    <3>1. Len(ss) \in 0 .. Len(ss)
        OBVIOUS
    <3>2. PICK f : FlattensUpTo(ss, Len(ss), f)
        BY <2>1, <3>1
    <3> QED BY <3>2 DEF Flattens, FlattensUpTo
  <2> QED BY <2>1
<1>2. PICK k \in T : \A y \in T : k =< y
  <2>1. T \subseteq Nat
      OBVIOUS
  <2> HIDE DEF T
  <2> QED BY <1>1, <2>1, LeastNat
<1>3. k \in 0 .. Len(ss) /\ ~ \E f : FlattensUpTo(ss, k, f)
    OBVIOUS
<1>4. CASE k = 0
  <2> DEFINE z == [i \in 1 .. 0 |-> 0]
  <2>1. DOMAIN z = 1 .. 0 /\ z = [i \in 1 .. 0 |-> IF i = 1 THEN ss[i] ELSE z[i - 1] \o ss[i]]
      OBVIOUS
  <2> HIDE DEF z
  <2>2. FlattensUpTo(ss, 0, z)
      BY <2>1 DEF FlattensUpTo
  <2> QED BY <1>3, <1>4, <2>2
<1>5. CASE k # 0
  <2>1. k - 1 \in 0 .. Len(ss) /\ ~ (k =< k - 1)
      BY <1>3, <1>5
  <2>2. k - 1 \notin T
      BY <1>2, <2>1
  <2>3. PICK f : FlattensUpTo(ss, k - 1, f)
      BY <2>1, <2>2
  <2> DEFINE g == [i \in 1 .. k |-> IF i < k THEN f[i] ELSE IF k = 1 THEN ss[1] ELSE f[k - 1] \o ss[k]]
  <2>4. ASSUME NEW i \in 1 .. k PROVE g[i] = IF i = 1 THEN ss[i] ELSE g[i - 1] \o ss[i]
    <3>0. k \in Nat /\ i \in Nat
        BY <1>3
    <3>1. CASE i < k
      <4>1. g[i] = f[i] /\ i \in 1 .. k - 1
          BY <3>0, <3>1
      <4>2. f[i] = IF i = 1 THEN ss[i] ELSE f[i - 1] \o ss[i]
          BY <2>3, <4>1 DEF FlattensUpTo
      <4>3. i # 1 => g[i - 1] = f[i - 1]
          BY <3>0, <3>1
      <4> HIDE DEF g
      <4> QED BY <4>1, <4>2, <4>3
    <3>2. CASE i = k
      <4>1. g[k] = IF k = 1 THEN ss[1] ELSE f[k - 1] \o ss[k]
          BY <3>0, <3>2
      <4>2. k # 1 => g[k - 1] = f[k - 1]
          BY <3>0, <3>2
      <4> HIDE DEF g
      <4> QED BY <3>2, <4>1, <4>2
    <3> QED BY <3>0, <3>1, <3>2
  <2>5. DOMAIN g = 1 .. k
      OBVIOUS
  <2>6. g = [i \in 1 .. k |-> g[i]]
      OBVIOUS
  <2> HIDE DEF g
  <2>7. g = [i \in 1 .. k |-> IF i = 1 THEN ss[i] ELSE g[i - 1] \o ss[i]]
      BY <2>4, <2>6
  <2> QED BY <1>3, <2>5, <2>7 DEF FlattensUpTo
<1> QED BY <1>4, <1>5

\* Concatenating sequences over a set gives a sequence over that set.
LEMMA FlattenSeqType ==
    ASSUME NEW S, NEW ss \in Seq(Seq(S))
    PROVE  FlattenSeq(ss) \in Seq(S)
<1>0. Len(ss) \in Nat
    OBVIOUS
<1>1. CASE Len(ss) = 0
  <2>1. FlattenSeq(ss) = ss
      BY <1>1 DEF FlattenSeq
  <2>2. ss = << >>
      BY <1>1
  <2> QED BY <2>1, <2>2
<1>2. CASE Len(ss) # 0
  <2> DEFINE f == CHOOSE g : Flattens(ss, g)
  <2>1. Flattens(ss, f)
      BY <1>0, FlattenExists
  <2>2. FlattenSeq(ss) = f[Len(ss)]
      BY <1>2, FlattenIsChosen
  <2> HIDE DEF f
  <2> DEFINE T == {k \in 1 .. Len(ss) : f[k] \notin Seq(S)}
  <2>3. SUFFICES ASSUME T # {} PROVE FALSE
    <3>1. Len(ss) \in 1 .. Len(ss)
        BY <1>0, <1>2
    <3> QED BY <2>2, <3>1
  <2>4. PICK k \in T : \A y \in T : k =< y
    <3>1. T \subseteq Nat
        BY <1>0
    <3> HIDE DEF T
    <3> QED BY <2>3, <3>1, LeastNat
  <2>5. k \in 1 .. Len(ss) /\ f[k] \notin Seq(S)
      OBVIOUS
  <2>6. f[k] = IF k = 1 THEN ss[k] ELSE f[k - 1] \o ss[k]
      BY <2>1, <2>5 DEF Flattens
  <2>7. ss[k] \in Seq(S)
      BY <2>5
  <2>8. CASE k = 1
      BY <2>5, <2>6, <2>7, <2>8
  <2>9. CASE k # 1
    <3>1. k - 1 \in 1 .. Len(ss) /\ ~ (k =< k - 1)
        BY <1>0, <2>5, <2>9
    <3>2. k - 1 \notin T
        BY <2>4, <3>1
    <3>3. f[k - 1] \in Seq(S)
        BY <3>1, <3>2
    <3>4. f[k - 1] \o ss[k] \in Seq(S)
        BY <2>7, <3>3
    <3> QED BY <2>5, <2>6, <2>9, <3>4
  <2> QED BY <2>8, <2>9
<1> QED BY <1>1, <1>2
-----------------------------------------------------------------------------
(***************************************************************************)
(* The calls of Append for a request: a sequence, with whole numbers for   *)
(* values.                                                                 *)
(***************************************************************************)

LEMMA SeqHasRange ==
    ASSUME NEW S, NEW s \in Seq(S)
    PROVE  IsSequence(s) /\ Range(s) \subseteq S
<1>1. \A i \in 1 .. Len(s) : s[i] \in Range(s)
    BY DEF Range
<1>2. s \in Seq(Range(s))
    BY <1>1
<1> QED BY <1>2 DEF IsSequence, Range

LEMMA RangeInSeq ==
    ASSUME NEW s, IsSequence(s), NEW S, Range(s) \subseteq S
    PROVE  s \in Seq(S)
BY DEF IsSequence

LEMMA IsSequenceFacts ==
    ASSUME NEW s, IsSequence(s)
    PROVE  /\ Len(s) \in Nat /\ DOMAIN s = 1 .. Len(s)
           /\ \A i \in 1 .. Len(s) : s[i] \in Range(s)
BY DEF IsSequence

\* Operations, and calls, whose values are numbers.
GoodOps(s) == IsSequence(s) /\ \A x \in Range(s) : x.v \in Int

GoodCalls(s) == IsSequence(s) /\ \A x \in Range(s) : x.op.v \in Int

LEMMA GoodConcat ==
    ASSUME NEW s, NEW u, GoodOps(s), GoodOps(u)
    PROVE  GoodOps(s \o u)
<1> DEFINE S == Range(s) \cup Range(u)
<1>1. s \in Seq(S) /\ u \in Seq(S) /\ \A x \in S : x.v \in Int
    BY RangeInSeq DEF GoodOps
<1> HIDE DEF S
<1>2. s \o u \in Seq(S)
    BY <1>1
<1>3. IsSequence(s \o u) /\ Range(s \o u) \subseteq S
    BY <1>2, SeqHasRange
<1> QED BY <1>1, <1>3 DEF GoodOps

LEMMA GoodSingle == ASSUME NEW x, x.v \in Int PROVE GoodOps(<<x>>)
<1>1. <<x>> \in Seq({x})
    OBVIOUS
<1>2. IsSequence(<<x>>) /\ Range(<<x>>) \subseteq {x}
    BY <1>1, SeqHasRange
<1> QED BY <1>2 DEF GoodOps

LEMMA GoodList ==
    ASSUME NEW s, NEW n \in Nat, DOMAIN s = 1 .. n, s = [i \in 1 .. n |-> s[i]],
           \A i \in 1 .. n : s[i].v \in Int
    PROVE  GoodOps(s)
<1> DEFINE S == {s[i] : i \in 1 .. n}
<1>1. s \in Seq(S)
    OBVIOUS
<1>2. \A x \in S : x.v \in Int
    OBVIOUS
<1> HIDE DEF S
<1>3. IsSequence(s) /\ Range(s) \subseteq S
    BY <1>1, SeqHasRange
<1> QED BY <1>2, <1>3 DEF GoodOps

LEMMA GoodEmpty == GoodOps(<< >>)
<1>1. Range(<< >>) = {}
    BY DEF Range
<1>2. << >> \in Seq(Range(<< >>))
    OBVIOUS
<1> QED BY <1>1, <1>2 DEF GoodOps, IsSequence

LEMMA GoodPair == ASSUME NEW x, NEW y, x.v \in Int, y.v \in Int PROVE GoodOps(<<x, y>>)
<1>1. <<x, y>> \in Seq({x, y})
    OBVIOUS
<1>2. IsSequence(<<x, y>>) /\ Range(<<x, y>>) \subseteq {x, y}
    BY <1>1, SeqHasRange
<1> QED BY <1>2 DEF GoodOps

LEMMA BucketValue ==
    ASSUME NEW name, NEW base, NEW le, NEW v, NEW acc, NEW part
    PROVE  Bucket(name, base, le, v, acc).v = v /\ Part(name, base, part, v, acc).v = v
BY DEF Bucket, Part, Op

LEMMA CumulativeType ==
    ASSUME NEW counts \in Seq(Nat), NEW k \in Nat
    PROVE  Cumulative(counts, k) \in Int /\ Total(counts) \in Int
<1>1. counts \in Seq(Int) /\ Len(counts) \in Nat
    OBVIOUS
<1>2. \A m \in 0 .. Len(counts) : SubSeq(counts, 1, m) \in Seq(Int)
    BY <1>1
<1>3. (IF k =< Len(counts) THEN k ELSE Len(counts)) \in 0 .. Len(counts)
    BY <1>1
<1>4. SubSeq(counts, 1, IF k =< Len(counts) THEN k ELSE Len(counts)) \in Seq(Int)
    BY <1>2, <1>3
<1> QED BY <1>1, <1>4, TotalType DEF Cumulative

LEMMA CountAndSumGood ==
    ASSUME NEW name, NEW base, NEW dp, NEW acc, CountAndSumOK(dp)
    PROVE  GoodOps(CountAndSum(name, base, dp, acc))
<1>1. GoodOps(<< Part(name, base, "count", dp.count, acc) >>)
    BY BucketValue, GoodSingle DEF CountAndSumOK
<1>2. dp.hasSum => GoodOps(<< Part(name, base, "sum", dp.sum, acc) >>)
    BY BucketValue, GoodSingle DEF CountAndSumOK
<1> QED BY <1>1, <1>2, GoodConcat, GoodEmpty DEF CountAndSum

LEMMA HistogramGood ==
    ASSUME NEW name, NEW base, NEW dp, NEW acc, PointOK("histogram", dp)
    PROVE  GoodOps(appendHistogramDataPoint(name, base, dp, acc))
<1> DEFINE s == [i \in 1 .. dp.bounds |-> Bucket(name, base, i, Cumulative(dp.counts, i), acc)]
           last == Bucket(name, base, Inf, Cumulative(dp.counts, dp.bounds + 1), acc)
           rest == CountAndSum(name, base, dp, acc)
<1>1. dp.bounds \in Nat /\ dp.counts \in Seq(Nat) /\ CountAndSumOK(dp)
    BY DEF PointOK
<1>2. GoodOps(s)
  <2>1. \A i \in 1 .. dp.bounds : s[i] = Bucket(name, base, i, Cumulative(dp.counts, i), acc)
      OBVIOUS
  <2>2. DOMAIN s = 1 .. dp.bounds /\ s = [i \in 1 .. dp.bounds |-> s[i]]
      OBVIOUS
  <2> HIDE DEF s
  <2>3. \A i \in 1 .. dp.bounds : s[i].v = Cumulative(dp.counts, i)
      BY <2>1, BucketValue
  <2>4. \A i \in 1 .. dp.bounds : i \in Nat
      BY <1>1
  <2>5. \A i \in 1 .. dp.bounds : s[i].v \in Int
      BY <1>1, <2>3, <2>4, CumulativeType
  <2> QED BY <1>1, <2>2, <2>5, GoodList
<1>3. GoodOps(<< last >>)
  <2>1. dp.bounds + 1 \in Nat
      BY <1>1
  <2>2. last.v = Cumulative(dp.counts, dp.bounds + 1)
      BY BucketValue
  <2>3. last.v \in Int
      BY <1>1, <2>1, <2>2, CumulativeType
  <2> HIDE DEF last
  <2> QED BY <2>3, GoodSingle
<1>4. GoodOps(rest)
    BY <1>1, CountAndSumGood
<1>5. appendHistogramDataPoint(name, base, dp, acc) = (s \o << last >>) \o rest
    BY DEF appendHistogramDataPoint
<1> HIDE DEF s, last, rest
<1> QED BY <1>2, <1>3, <1>4, <1>5, GoodConcat

LEMMA ExponentialGood ==
    ASSUME NEW name, NEW base, NEW dp, NEW acc, PointOK("exponential", dp)
    PROVE  GoodOps(appendExponentialHistogramDataPoint(name, base, dp, acc))
<1> DEFINE n == Len(dp.counts)
           s == [i \in 1 .. n |->
                   Bucket(name, base, dp.offset + i, dp.zero + Cumulative(dp.counts, i), acc)]
           last == Bucket(name, base, Inf, dp.zero + Total(dp.counts), acc)
           rest == CountAndSum(name, base, dp, acc)
<1>1. dp.zero \in Nat /\ dp.counts \in Seq(Nat) /\ CountAndSumOK(dp) /\ n \in Nat
    BY DEF PointOK
<1>2. GoodOps(s)
  <2>1. \A i \in 1 .. n :
           s[i] = Bucket(name, base, dp.offset + i, dp.zero + Cumulative(dp.counts, i), acc)
      OBVIOUS
  <2>2. DOMAIN s = 1 .. n /\ s = [i \in 1 .. n |-> s[i]]
      OBVIOUS
  <2> HIDE DEF s, n
  <2>3. \A i \in 1 .. n : dp.zero + Cumulative(dp.counts, i) \in Int
      BY <1>1, CumulativeType
  <2>4. \A i \in 1 .. n : s[i].v \in Int
      BY <2>1, <2>3, BucketValue
  <2> QED BY <1>1, <2>2, <2>4, GoodList
<1>3. GoodOps(<< last >>)
  <2>1. Total(dp.counts) \in Int
      BY <1>1, CumulativeType, 0 \in Nat
  <2>2. dp.zero + Total(dp.counts) \in Int
      BY <1>1, <2>1
  <2> QED BY <2>2, BucketValue, GoodSingle
<1>4. GoodOps(rest)
    BY <1>1, CountAndSumGood
<1>5. appendExponentialHistogramDataPoint(name, base, dp, acc) = (s \o << last >>) \o rest
    BY DEF appendExponentialHistogramDataPoint
<1> HIDE DEF s, last, rest
<1> QED BY <1>2, <1>3, <1>4, <1>5, GoodConcat

LEMMA SummaryGood ==
    ASSUME NEW name, NEW base, NEW dp, PointOK("summary", dp)
    PROVE  GoodOps(translateSummary(name, base, dp))
<1> DEFINE n == Len(dp.quantiles)
           s == [i \in 1 .. n |->
                   Op(appendLabel(base, name, <<"quantile">>, Bound(i)), "quantile", i,
                      dp.quantiles[i], FALSE)]
           a == Part(name, base, "sum", dp.sum, FALSE)
           b == Part(name, base, "count", dp.count, FALSE)
<1>1. dp.quantiles \in Seq(Int) /\ dp.sum \in Int /\ dp.count \in Int /\ n \in Nat
    BY DEF PointOK
<1>2. GoodOps(s)
  <2>1. \A i \in 1 .. n : s[i].v = dp.quantiles[i]
      BY DEF Op
  <2>2. DOMAIN s = 1 .. n /\ s = [i \in 1 .. n |-> s[i]]
      OBVIOUS
  <2>3. \A i \in 1 .. n : dp.quantiles[i] \in Int
      BY <1>1
  <2> HIDE DEF s, n
  <2> QED BY <1>1, <2>1, <2>2, <2>3, GoodList
<1>2a. a.v \in Int /\ b.v \in Int
  <2>1. a.v = dp.sum /\ b.v = dp.count
      BY DEF Part, Op
  <2> HIDE DEF a, b
  <2> QED BY <1>1, <2>1
<1>5. translateSummary(name, base, dp) = s \o << a, b >>
    BY DEF translateSummary
<1> HIDE DEF s, a, b
<1>3. GoodOps(<< a, b >>)
    BY <1>2a, GoodPair
<1> QED BY <1>2, <1>3, <1>5, GoodConcat
\* The operations of a data point, by its type.
PointOps(m, dp, name, base) ==
    CASE m.type = "gauge"       -> << Op(base, "value", 0, dp.v, FALSE) >>
      [] m.type = "sum"         -> << Op(base, "value", 0, dp.v, m.delta) >>
      [] m.type = "histogram"   -> appendHistogramDataPoint(name, base, dp, m.delta)
      [] m.type = "exponential" -> appendExponentialHistogramDataPoint(name, base, dp, m.delta)
      [] m.type = "summary"     -> translateSummary(name, base, dp)
      [] OTHER                  -> << >>

LEMMA PointOpsGood ==
    ASSUME NEW m, NEW dp, NEW name, NEW base, PointOK(m.type, dp)
    PROVE  GoodOps(PointOps(m, dp, name, base))
<1>1. CASE m.type = "gauge"
  <2>1. Op(base, "value", 0, dp.v, FALSE).v = dp.v
      BY DEF Op
  <2>2. dp.v \in Int
      BY <1>1 DEF PointOK
  <2>3. GoodOps(<< Op(base, "value", 0, dp.v, FALSE) >>)
      BY <2>1, <2>2, GoodSingle
  <2> QED BY <1>1, <2>3 DEF PointOps
<1>2. CASE m.type = "sum"
  <2>1. Op(base, "value", 0, dp.v, m.delta).v = dp.v
      BY DEF Op
  <2>2. dp.v \in Int
      BY <1>2 DEF PointOK
  <2>3. GoodOps(<< Op(base, "value", 0, dp.v, m.delta) >>)
      BY <2>1, <2>2, GoodSingle
  <2> QED BY <1>2, <2>3 DEF PointOps
<1>3. CASE m.type = "histogram"
    BY <1>3, HistogramGood DEF PointOps
<1>4. CASE m.type = "exponential"
    BY <1>4, ExponentialGood DEF PointOps
<1>5. CASE m.type = "summary"
    BY <1>5, SummaryGood DEF PointOps
<1>6. CASE m.type \notin {"gauge", "sum", "histogram", "exponential", "summary"}
    BY <1>6, GoodEmpty DEF PointOps
<1> QED BY <1>1, <1>2, <1>3, <1>4, <1>5, <1>6

\* A sequence made from another, place by place.
LEMMA GoodMapped ==
    ASSUME NEW s, NEW n \in Nat, DOMAIN s = 1 .. n, s = [i \in 1 .. n |-> s[i]],
           \A i \in 1 .. n : s[i].op.v \in Int
    PROVE  GoodCalls(s)
<1> DEFINE S == {s[i] : i \in 1 .. n}
<1>1. s \in Seq(S)
    OBVIOUS
<1>2. \A x \in S : x.op.v \in Int
    OBVIOUS
<1> HIDE DEF S
<1>3. IsSequence(s) /\ Range(s) \subseteq S
    BY <1>1, SeqHasRange
<1> QED BY <1>2, <1>3 DEF GoodCalls

LEMMA DataPointGood ==
    ASSUME NEW m, NEW i \in DOMAIN m.points, NEW name, NEW base, PointOK(m.type, m.points[i])
    PROVE  GoodCalls(DataPoint(m, i, name, base))
<1> DEFINE ops == PointOps(m, m.points[i], name, base)
           s == [j \in DOMAIN ops |-> [op |-> ops[j], point |-> i]]
<1>1. DataPoint(m, i, name, base) = s
    BY DEF DataPoint, PointOps
<1>2. GoodOps(ops)
    BY PointOpsGood
<1> HIDE DEF ops
<1>3. Len(ops) \in Nat /\ DOMAIN ops = 1 .. Len(ops) /\ \A j \in 1 .. Len(ops) : ops[j].v \in Int
    BY <1>2, IsSequenceFacts DEF GoodOps
<1>4. DOMAIN s = 1 .. Len(ops) /\ s = [j \in 1 .. Len(ops) |-> s[j]]
    BY <1>3
<1>5. \A j \in 1 .. Len(ops) : s[j].op.v \in Int
    BY <1>3
<1> HIDE DEF s
<1> QED BY <1>1, <1>3, <1>4, <1>5, GoodMapped

LEMMA FlattenGood ==
    ASSUME NEW ss, NEW n \in Nat, DOMAIN ss = 1 .. n, ss = [i \in 1 .. n |-> ss[i]],
           \A i \in 1 .. n : GoodCalls(ss[i])
    PROVE  GoodCalls(FlattenSeq(ss))
<1> DEFINE S == UNION {Range(ss[i]) : i \in 1 .. n}
<1>1. \A x \in S : x.op.v \in Int
    BY DEF GoodCalls
<1>2. \A i \in 1 .. n : Range(ss[i]) \subseteq S
    OBVIOUS
<1> HIDE DEF S
<1>3. \A i \in 1 .. n : ss[i] \in Seq(S)
    BY <1>2, RangeInSeq DEF GoodCalls
<1>4. ss \in Seq(Seq(S))
    BY <1>3
<1>5. FlattenSeq(ss) \in Seq(S)
    BY <1>4, FlattenSeqType
<1>6. IsSequence(FlattenSeq(ss)) /\ Range(FlattenSeq(ss)) \subseteq S
    BY <1>5, SeqHasRange
<1> QED BY <1>1, <1>6 DEF GoodCalls

LEMMA MetricGood ==
    ASSUME NEW m, MetricOK(m), NEW resource, NEW scope, NEW schema
    PROVE  GoodCalls(translateMetric(m, resource, scope, schema))
<1> DEFINE name == SumName(MetricName(m), m)
           n == Len(m.points)
           ss == [i \in 1 .. n |->
                    DataPoint(m, i, name, buildLabels(name, m.points[i].attrs, resource, scope, schema))]
<1>1. n \in Nat /\ DOMAIN m.points = 1 .. n /\ \A i \in 1 .. n : PointOK(m.type, m.points[i])
    BY IsSequenceFacts DEF MetricOK
<1>2. \/ translateMetric(m, resource, scope, schema) = << >>
      \/ translateMetric(m, resource, scope, schema) = FlattenSeq(ss)
    BY <1>1 DEF translateMetric
<1>3. \A i \in 1 .. n : GoodCalls(ss[i])
  <2> HIDE DEF name, n
  <2> QED BY <1>1, DataPointGood
<1>4. DOMAIN ss = 1 .. n /\ ss = [i \in 1 .. n |-> ss[i]]
    OBVIOUS
<1>5. GoodCalls(<< >>)
    BY GoodEmpty DEF GoodCalls, GoodOps, Range
<1> HIDE DEF ss, n, name
<1>6. GoodCalls(FlattenSeq(ss))
    BY <1>1, <1>3, <1>4, FlattenGood
<1> QED BY <1>2, <1>5, <1>6

\* The places of the metrics in a request.
PlacesIn(req) ==
    {p \in Nat \X Nat \X Nat :
        /\ p[1] \in DOMAIN req
        /\ p[2] \in DOMAIN req[p[1]].scopes
        /\ p[3] \in DOMAIN req[p[1]].scopes[p[2]].metrics}

LEMMA PlacesGood ==
    ASSUME NEW req, RequestOK(req)
    PROVE  Places(req) \in Seq(PlacesIn(req))
<1> DEFINE S == PlacesIn(req)
           row(i, k) == [j \in DOMAIN req[i].scopes[k].metrics |-> <<i, k, j>>]
           rows(i) == [k \in DOMAIN req[i].scopes |-> row(i, k)]
           ss == [i \in DOMAIN req |-> FlattenSeq(rows(i))]
<1>1. DOMAIN req = 1 .. Len(req) /\ Len(req) \in Nat
    BY IsSequenceFacts DEF RequestOK
<1>2. ASSUME NEW i \in DOMAIN req
      PROVE  DOMAIN req[i].scopes = 1 .. Len(req[i].scopes) /\ Len(req[i].scopes) \in Nat
    BY <1>1, IsSequenceFacts DEF RequestOK
<1>3. ASSUME NEW i \in DOMAIN req, NEW k \in DOMAIN req[i].scopes
      PROVE  /\ DOMAIN req[i].scopes[k].metrics = 1 .. Len(req[i].scopes[k].metrics)
             /\ Len(req[i].scopes[k].metrics) \in Nat
  <2>1. req[i] \in Range(req)
      BY DEF Range
  <2>2. req[i].scopes[k] \in Range(req[i].scopes)
      BY DEF Range
  <2>3. IsSequence(req[i].scopes[k].metrics)
      BY <2>1, <2>2 DEF RequestOK
  <2> QED BY <2>3, IsSequenceFacts
<1>4. ASSUME NEW i \in DOMAIN req, NEW k \in DOMAIN req[i].scopes
      PROVE  row(i, k) \in Seq(S)
  <2>1. \A j \in DOMAIN req[i].scopes[k].metrics : <<i, k, j>> \in S
      BY <1>1, <1>2, <1>3 DEF PlacesIn
  <2> HIDE DEF S
  <2> QED BY <1>3, <2>1
<1> HIDE DEF S
<1>5. ASSUME NEW i \in DOMAIN req PROVE FlattenSeq(rows(i)) \in Seq(S)
  <2>1. \A k \in DOMAIN req[i].scopes : row(i, k) \in Seq(S)
      BY <1>4
  <2> HIDE DEF row
  <2>2. rows(i) \in Seq(Seq(S))
      BY <1>2, <2>1
  <2> HIDE DEF rows
  <2> QED BY <2>2, FlattenSeqType
<1>6. Places(req) = FlattenSeq(ss)
    BY DEF Places
<1> HIDE DEF rows
<1>7. ss \in Seq(Seq(S))
    BY <1>1, <1>5
<1> HIDE DEF ss
<1>8. FlattenSeq(ss) \in Seq(S)
    BY <1>7, FlattenSeqType
<1> QED BY <1>6, <1>8 DEF S

LEMMA CallsGood ==
    ASSUME NEW req, RequestOK(req)
    PROVE  GoodCalls(Calls(req))
<1> DEFINE P == Places(req)
           ss == [n \in 1 .. Len(P) |-> OfMetric(n, MetricAt(req, P[n]))]
<1>1. P \in Seq(PlacesIn(req)) /\ Len(P) \in Nat
    BY PlacesGood
<1>2. Calls(req) = FlattenSeq(ss)
    BY <1>1 DEF Calls
<1> HIDE DEF P
<1>3. ASSUME NEW n \in 1 .. Len(P) PROVE GoodCalls(MetricAt(req, P[n]))
  <2>1. P[n] \in PlacesIn(req)
      BY <1>1
  <2>2. /\ P[n][1] \in DOMAIN req
        /\ P[n][2] \in DOMAIN req[P[n][1]].scopes
        /\ P[n][3] \in DOMAIN req[P[n][1]].scopes[P[n][2]].metrics
      BY <2>1 DEF PlacesIn
  <2> DEFINE rm == req[P[n][1]]
             sm == rm.scopes[P[n][2]]
             m == sm.metrics[P[n][3]]
  <2>3. rm \in Range(req) /\ sm \in Range(rm.scopes) /\ m \in Range(sm.metrics)
      BY <2>2 DEF Range
  <2>4. MetricOK(m)
      BY <2>3 DEF RequestOK
  <2>5. MetricAt(req, P[n]) =
           translateMetric(m, resourceLabels(rm.attrs), scopeLabels(sm), SchemaAt(rm, P[n][2]))
      BY DEF MetricAt
  <2> HIDE DEF m, sm, rm
  <2> QED BY <2>4, <2>5, MetricGood
<1>4. ASSUME NEW n \in 1 .. Len(P) PROVE GoodCalls(OfMetric(n, MetricAt(req, P[n])))
  <2> DEFINE ops == MetricAt(req, P[n])
             s == [j \in DOMAIN ops |-> [op |-> ops[j].op, metric |-> n, point |-> ops[j].point]]
  <2>1. GoodCalls(ops)
      BY <1>3
  <2>2. OfMetric(n, ops) = s
      BY DEF OfMetric
  <2> HIDE DEF ops
  <2>3. Len(ops) \in Nat /\ DOMAIN ops = 1 .. Len(ops) /\ \A j \in 1 .. Len(ops) : ops[j].op.v \in Int
      BY <2>1, IsSequenceFacts DEF GoodCalls
  <2>4. DOMAIN s = 1 .. Len(ops) /\ s = [j \in 1 .. Len(ops) |-> s[j]]
      BY <2>3
  <2>5. \A j \in 1 .. Len(ops) : s[j].op.v \in Int
      BY <2>3
  <2> HIDE DEF s
  <2>6. GoodCalls(s)
      BY <2>3, <2>4, <2>5, GoodMapped
  <2> QED BY <2>2, <2>6 DEF ops
<1>5. DOMAIN ss = 1 .. Len(P) /\ ss = [n \in 1 .. Len(P) |-> ss[n]] /\ \A n \in 1 .. Len(P) : GoodCalls(ss[n])
    BY <1>4
<1> HIDE DEF ss
<1>6. GoodCalls(FlattenSeq(ss))
    BY <1>1, <1>5, FlattenGood
<1> QED BY <1>2, <1>6

\* A body that is cut is still a request.
LEMMA BodyOK ==
    ASSUME NEW name \in DOMAIN Request \cup {NoBody}
    PROVE  RequestOK(Body(name))
<1>1. CASE name = NoBody
  <2>1. Body(name) = << >>
      BY <1>1 DEF Body
  <2>2. IsSequence(<< >>) /\ Range(<< >>) = {}
    <3>1. Range(<< >>) = {}
        BY DEF Range
    <3> QED BY <3>1 DEF IsSequence
  <2> QED BY <2>1, <2>2 DEF RequestOK
<1>2. CASE name # NoBody
  <2> DEFINE req == Request[name]
  <2>1. RequestOK(req)
      BY <1>2, RequestAssumption
  <2>2. Body(name) = IF Len(req) =< MaxBodySize THEN req ELSE SubSeq(req, 1, MaxBodySize)
      BY <1>2 DEF Body, Decoded
  <2> HIDE DEF req
  <2>3. req \in Seq(Range(req)) /\ Len(req) \in Nat /\ MaxBodySize \in Nat
      BY <2>1, IngestAssumption, IsSequenceFacts DEF RequestOK, IsSequence
  <2>4. Body(name) \in Seq(Range(req))
      BY <2>2, <2>3
  <2>5. IsSequence(Body(name)) /\ Range(Body(name)) \subseteq Range(req)
      BY <2>4, SeqHasRange
  <2> QED BY <2>1, <2>5 DEF RequestOK
<1> QED BY <1>1, <1>2

LEMMA CallsOfGood ==
    ASSUME NEW name \in DOMAIN Request \cup {NoBody}
    PROVE  GoodCalls(CallsOf[name])
<1>1. CallsOf[name] = Calls(Body(name))
    BY DEF CallsOf
<1> QED BY <1>1, BodyOK, CallsGood

LEMMA NoBodyNoCalls == CallsOf[NoBody] = << >>
<1>1. Body(NoBody) = << >>
    BY DEF Body
<1>2. Places(<< >>) = << >>
  <2>1. Places(<< >>) \in Seq(PlacesIn(<< >>))
      BY <1>1, BodyOK, PlacesGood
  <2>2. PlacesIn(<< >>) = {}
      BY DEF PlacesIn
  <2> QED BY <2>1, <2>2
<1>3. Calls(<< >>) = << >>
  <2> DEFINE ss == [n \in DOMAIN Places(<< >>) |-> OfMetric(n, MetricAt(<< >>, Places(<< >>)[n]))]
  <2>1. ss = << >>
      BY <1>2
  <2>2. Calls(<< >>) = FlattenSeq(ss)
      BY DEF Calls
  <2> HIDE DEF ss
  <2> QED BY <2>1, <2>2 DEF FlattenSeq
<1> QED BY <1>1, <1>3 DEF CallsOf
-----------------------------------------------------------------------------
(***************************************************************************)
(* The inductive invariant.                                                *)
(***************************************************************************)

\* All calls of Append there may be, and samples that come from them.
AllCalls == UNION {Range(CallsOf[name]) : name \in DOMAIN Request \cup {NoBody}}

Samples == [req : Nat, pos : Nat, metric : {c.metric : c \in AllCalls}, v : Int, total : SUBSET Int]

Additions == [series : {c.op.series : c \in AllCalls}, v : Int, at : Nat]

Types ==
    /\ reqs \in Seq(DOMAIN Request \cup {NoBody})
    /\ handler \in [Handler -> [pc : {"idle", "translate", "partial"}, req : Nat, pending : Seq(Samples)]]
    /\ stored \subseteq Samples
    /\ ledger \in Seq(Additions)
    /\ IngestTypeOK

\* What a handler has in hand is for a request that has no answer and nothing
\* in the store yet: the samples of the first calls, in order.
Serves(h) ==
    handler[h].pc # "idle" =>
       LET r == handler[h].req
           n == Len(handler[h].pending)
           calls == CallsOf[reqs[r]]
       IN  /\ r \in 1 .. Len(reqs)
           /\ r \notin DOMAIN answered
           /\ \A s \in stored : s.req # r
           /\ n =< Len(calls)
           /\ handler[h].pc = "partial" => 0 < n /\ n < Len(calls)
           /\ \A i \in 1 .. n : handler[h].pending[i].req = r /\ handler[h].pending[i].pos = i

Serving == \A h \in Handler : Serves(h)

OwnRequests ==
    \A g, h \in Handler :
       g # h /\ handler[g].pc # "idle" /\ handler[h].pc # "idle" => handler[g].req # handler[h].req

\* The totals of the handlers' samples are right.
PendingExact ==
    \A h \in Handler : \A i \in 1 .. Len(handler[h].pending) :
       handler[h].pending[i].total \subseteq {handler[h].pending[i].v}

LedgerOrder ==
    /\ \A i \in 1 .. Len(ledger) : ledger[i].at =< now
    /\ \A i, j \in 1 .. Len(ledger) : i < j => ledger[i].at =< ledger[j].at

\* The j-th is the last addition to its series.
LastOf(l, j) == \A i \in j + 1 .. Len(l) : l[i].series # l[j].series

\* The running total of a series is that of its last addition, unless it was
\* evicted, which takes more than DeltaTTL.
Running(d, l, t, j) ==
    LET fp == HashOf(l[j].series)
    IN  \/ /\ fp \in DOMAIN d
           /\ d[fp].lastSeen = l[j].at
           /\ d[fp].value = SinceIdle(SubSeq(l, 1, j))
        \/ fp \notin DOMAIN d /\ l[j].at < t - DeltaTTL

DeltaRunning ==
    /\ \A fp \in DOMAIN delta : \E j \in 1 .. Len(ledger) : HashOf(ledger[j].series) = fp
    /\ \A j \in 1 .. Len(ledger) :
          LastOf(ledger, j) /\ ~ Collides(ledger, ledger[j].series) => Running(delta, ledger, now, j)

\* The samples of a request that the store has.
Got(st, r) == {s.pos : s \in {s \in st : s.req = r}}

FromFront(got, all) == got = 1 .. Cardinality(got) /\ got \subseteq all

\* What an answer says of them, and more: what a partial success leaves is a
\* part from the front, since Translate stops where Append first fails.
Honest(a, got, all) ==
    CASE a = "ok"      -> got = all
      [] a = "refused" -> got = {}
      [] a = "partial" -> FromFront(got, all) /\ got # {} /\ got # all
      [] a = "failed"  -> FromFront(got, all)

FrontHonest ==
    \A r \in DOMAIN answered : Honest(answered[r], Got(stored, r), DOMAIN CallsOf[reqs[r]])

IngestInv ==
    /\ Types
    /\ Serving
    /\ OwnRequests
    /\ FrontHonest
    /\ TotalsExact
    /\ PendingExact
    /\ LedgerOrder
    /\ DeltaRunning
-----------------------------------------------------------------------------
(* Totals *)

Weights(l) == [j \in DOMAIN l |-> IF Continues(l, j) THEN l[j].v ELSE 0]

LEMMA WeightsType ==
    ASSUME NEW l \in Seq(Additions)
    PROVE  /\ Weights(l) \in Seq(Int)
           /\ Len(Weights(l)) = Len(l)
           /\ \A j \in 1 .. Len(l) : Weights(l)[j] = IF Continues(l, j) THEN l[j].v ELSE 0
           /\ SinceIdle(l) = Total(Weights(l))
<1>1. DOMAIN l = 1 .. Len(l) /\ Len(l) \in Nat
    OBVIOUS
<1>1a. \A j \in 1 .. Len(l) : l[j] \in Additions
    OBVIOUS
<1>2. \A j \in 1 .. Len(l) : l[j].v \in Int
    BY <1>1a DEF Additions
<1>3. Weights(l) = [j \in 1 .. Len(l) |-> IF Continues(l, j) THEN l[j].v ELSE 0]
    BY <1>1 DEF Weights
<1>4. \A j \in 1 .. Len(l) : (IF Continues(l, j) THEN l[j].v ELSE 0) \in Int
    BY <1>2
<1>5. Weights(l) \in Seq(Int) /\ Len(Weights(l)) = Len(l)
    BY <1>1, <1>3, <1>4
<1>6. SinceIdle(l) = Total(Weights(l))
    BY DEF SinceIdle, Weights
<1> QED BY <1>3, <1>5, <1>6

LEMMA AddedFacts ==
    ASSUME NEW l \in Seq(Additions), NEW e \in Additions
    PROVE  /\ Append(l, e) \in Seq(Additions)
           /\ Len(Append(l, e)) = Len(l) + 1 /\ Len(l) \in Nat
           /\ Append(l, e)[Len(l) + 1] = e
           /\ \A i \in 1 .. Len(l) : Append(l, e)[i] = l[i]
OBVIOUS

\* The last addition continues its own total.
LEMMA ContinuesItself ==
    ASSUME NEW l \in Seq(Additions), NEW e \in Additions
    PROVE  Continues(Append(l, e), Len(l) + 1)
<1> DEFINE u == Append(l, e)
<1>1. Len(u) = Len(l) + 1 /\ Len(l) \in Nat
    BY AddedFacts
<1> HIDE DEF u
<1> QED BY <1>1 DEF Continues, u

LEMMA SameElements ==
    ASSUME NEW s \in Seq(Int), NEW u \in Seq(Int), Len(u) = Len(s), \A i \in 1 .. Len(s) : s[i] = u[i]
    PROVE  s = u
OBVIOUS

\* The weights of a longer ledger are those of the shorter one, if so, and
\* the value added.
LEMMA AddedTotal ==
    ASSUME NEW l \in Seq(Additions), NEW e \in Additions, NEW w \in Seq(Int), Len(w) = Len(l),
           \A i \in 1 .. Len(l) : w[i] = Weights(Append(l, e))[i]
    PROVE  SinceIdle(Append(l, e)) = Total(w) + e.v
<1> DEFINE u == Append(l, e)
           x == Weights(u)
<1>1. u \in Seq(Additions) /\ Len(u) = Len(l) + 1 /\ u[Len(l) + 1] = e /\ Len(l) \in Nat
    BY AddedFacts
<1>2. Continues(u, Len(l) + 1)
    BY ContinuesItself
<1>3. \A i \in 1 .. Len(l) : w[i] = x[i]
    OBVIOUS
<1>4. SinceIdle(Append(l, e)) = SinceIdle(u)
    OBVIOUS
<1> HIDE DEF u
<1>5. x \in Seq(Int) /\ Len(x) = Len(u) /\ SinceIdle(u) = Total(x)
    BY <1>1, WeightsType
<1>6. x[Len(l) + 1] = e.v
  <2>1. Len(l) + 1 \in 1 .. Len(u)
      BY <1>1
  <2> QED BY <1>1, <1>2, <2>1, WeightsType
<1> HIDE DEF x
<1>7. x = Append(w, e.v)
  <2>1. e.v \in Int
      BY DEF Additions
  <2>2. Append(w, e.v) \in Seq(Int) /\ Len(Append(w, e.v)) = Len(l) + 1
      BY <2>1
  <2>3. \A i \in 1 .. Len(l) + 1 : x[i] = Append(w, e.v)[i]
      BY <1>1, <1>3, <1>6, <2>1
  <2> DEFINE y == Append(w, e.v)
  <2>4. y \in Seq(Int) /\ Len(y) = Len(x) /\ \A i \in 1 .. Len(x) : x[i] = y[i]
      BY <1>1, <1>5, <2>2, <2>3
  <2> HIDE DEF y
  <2>5. x = y
      BY ONLY <1>5, <2>4, SameElements
  <2> QED BY <2>5 DEF y
<1>8. e.v \in Int
    BY DEF Additions
<1> QED BY <1>4, <1>5, <1>7, <1>8, TotalAppend

LEMMA TotalEmpty == Total(<< >>) = 0
<1>1. << >> \in Seq(Int) /\ Len(<< >>) = 0
    OBVIOUS
<1> DEFINE s == << >>
<1>2. PICK A \in [0 .. Len(s) -> Int] : A[0] = 0 /\ Total(s) = A[Len(s)]
    BY <1>1, TotalByParts
<1> QED BY <1>1, <1>2

\* After an idle time, or at the start, the total is the value added.
LEMMA FreshTotal ==
    ASSUME NEW l \in Seq(Additions), NEW e \in Additions,
           \A i \in 1 .. Len(l) : ~ Continues(Append(l, e), i)
    PROVE  SinceIdle(Append(l, e)) = e.v
<1> DEFINE w == [i \in 1 .. Len(l) |-> 0]
           u == Append(l, e)
<1>1. w \in Seq(Int) /\ Len(w) = Len(l) /\ Len(l) \in Nat /\ \A i \in 1 .. Len(l) : w[i] = 0
    OBVIOUS
<1>2. u \in Seq(Additions) /\ Len(u) = Len(l) + 1
    BY AddedFacts
<1> HIDE DEF w, u
<1>3. \A i \in 1 .. Len(l) : Weights(u)[i] = 0
  <2>1. \A i \in 1 .. Len(l) : i \in 1 .. Len(u)
      BY <1>1, <1>2
  <2> QED BY <1>2, <2>1, WeightsType DEF u
<1>4. SinceIdle(u) = Total(w) + e.v
    BY <1>1, <1>3, AddedTotal DEF u
<1>5. Total(w) = 0
  <2> DEFINE z == << >>
  <2>1. z \in Seq(Int) /\ Len(z) = 0
      OBVIOUS
  <2>2. Total(z) = 0
      BY TotalEmpty
  <2> HIDE DEF z
  <2>3. 0 \in 0 .. Len(w) /\ (\A k \in 1 .. 0 : z[k] = w[k]) /\ \A k \in 0 + 1 .. Len(w) : w[k] = 0
      BY <1>1
  <2>4. Total(w) = Total(z)
      BY <1>1, <2>1, <2>3, TotalZeros
  <2> QED BY <2>2, <2>4
<1>6. e.v \in Int
    BY DEF Additions
<1> QED BY <1>4, <1>5, <1>6 DEF u

\* Within DeltaTTL of the last addition to the series, its total goes on.
LEMMA ContinuedTotal ==
    ASSUME NEW l \in Seq(Additions), NEW e \in Additions, NEW m \in 1 .. Len(l),
           l[m].series = e.series, \A i \in m + 1 .. Len(l) : l[i].series # e.series,
           e.at - l[m].at =< DeltaTTL
    PROVE  SinceIdle(Append(l, e)) = SinceIdle(SubSeq(l, 1, m)) + e.v
<1> DEFINE u == Append(l, e)
           p == SubSeq(l, 1, m)
           n == Len(l)
<1>1. u \in Seq(Additions) /\ Len(u) = n + 1 /\ u[n + 1] = e /\ n \in Nat /\ \A i \in 1 .. n : u[i] = l[i]
    BY AddedFacts
<1>2. p \in Seq(Additions) /\ Len(p) = m /\ m \in Nat /\ m =< n /\ \A i \in 1 .. m : p[i] = l[i]
    OBVIOUS
<1>3. SinceIdle(Append(l, e)) = SinceIdle(u) /\ SinceIdle(SubSeq(l, 1, m)) = SinceIdle(p)
    OBVIOUS
<1> HIDE DEF u, p, n
<1>4. p[Len(p)].series = e.series /\ u[Len(u)].series = e.series
    BY <1>1, <1>2
<1>5. ASSUME NEW j \in 1 .. m PROVE Continues(u, j) <=> Continues(p, j)
  <2>1. j \in 1 .. n /\ u[j] = l[j] /\ p[j] = l[j]
      BY <1>1, <1>2
  <2>2. ASSUME Continues(u, j) PROVE Continues(p, j)
    <3>1. SUFFICES ASSUME NEW i \in j + 1 .. Len(p), p[i].series = e.series
                   PROVE  \E k \in j .. i - 1 : p[k].series = e.series /\ p[i].at - p[k].at =< DeltaTTL
        BY <1>4, <2>1, <2>2 DEF Continues
    <3>2. i \in j + 1 .. Len(u) /\ p[i] = l[i] /\ u[i] = l[i]
        BY <1>1, <1>2
    <3>3. PICK k \in j .. i - 1 : u[k].series = e.series /\ u[i].at - u[k].at =< DeltaTTL
        BY <1>4, <2>2, <3>1, <3>2 DEF Continues
    <3>4. p[k] = l[k] /\ u[k] = l[k]
        BY <1>1, <1>2
    <3> QED BY <3>2, <3>3, <3>4
  <2>3. ASSUME Continues(p, j) PROVE Continues(u, j)
    <3>1. SUFFICES ASSUME NEW i \in j + 1 .. Len(u), u[i].series = e.series
                   PROVE  \E k \in j .. i - 1 : u[k].series = e.series /\ u[i].at - u[k].at =< DeltaTTL
        BY <1>4, <2>1, <2>3 DEF Continues
    <3>2. CASE i \in j + 1 .. m
      <4>1. p[i] = l[i] /\ u[i] = l[i] /\ i \in j + 1 .. Len(p)
          BY <1>1, <1>2, <3>2
      <4>2. PICK k \in j .. i - 1 : p[k].series = e.series /\ p[i].at - p[k].at =< DeltaTTL
          BY <1>4, <2>3, <3>1, <4>1 DEF Continues
      <4>3. p[k] = l[k] /\ u[k] = l[k]
          BY <1>1, <1>2, <3>2
      <4> QED BY <4>1, <4>2, <4>3
    <3>3. CASE i \in m + 1 .. n
      <4>1. u[i] = l[i] /\ i \in m + 1 .. Len(l)
          BY <1>1, <1>2, <3>3 DEF n
      <4> QED BY <3>1, <4>1
    <3>4. CASE i = n + 1
      <4>1. m \in j .. i - 1 /\ u[m] = l[m] /\ u[i] = e
          BY <1>1, <1>2, <3>4
      <4> QED BY <4>1
    <3> QED BY <1>1, <1>2, <3>2, <3>3, <3>4
  <2> QED BY <2>2, <2>3
<1>6. ASSUME NEW j \in m + 1 .. n PROVE ~ Continues(u, j)
  <2>1. j \in m + 1 .. Len(l) /\ u[j] = l[j]
      BY <1>1, <1>2 DEF n
  <2> QED BY <1>4, <2>1 DEF Continues
<1> DEFINE w == [i \in 1 .. n |-> Weights(u)[i]]
<1>7. \A i \in 1 .. n : i \in 1 .. Len(u) /\ Weights(u)[i] \in Int
    BY <1>1, WeightsType
<1>8. w \in Seq(Int) /\ Len(w) = n /\ \A i \in 1 .. n : w[i] = Weights(u)[i]
    BY <1>1, <1>7
<1> HIDE DEF w
<1>9. SinceIdle(u) = Total(w) + e.v
    BY <1>8, AddedTotal DEF u, n
<1>10. Total(w) = Total(Weights(p))
  <2> DEFINE q == Weights(p)
  <2>1. q \in Seq(Int) /\ Len(q) = m
      BY <1>2, WeightsType
  <2>2. ASSUME NEW k \in 1 .. m PROVE q[k] = w[k]
    <3>1. k \in 1 .. n /\ k \in 1 .. Len(u) /\ k \in 1 .. Len(p) /\ p[k] = u[k]
        BY <1>1, <1>2
    <3>2. q[k] = IF Continues(p, k) THEN p[k].v ELSE 0
        BY <1>2, <3>1, WeightsType
    <3>3. w[k] = IF Continues(u, k) THEN u[k].v ELSE 0
        BY <1>1, <1>8, <3>1, WeightsType
    <3> QED BY <1>5, <3>1, <3>2, <3>3
  <2>3. ASSUME NEW k \in m + 1 .. Len(w) PROVE w[k] = 0
    <3>1. k \in m + 1 .. n /\ k \in 1 .. n /\ k \in 1 .. Len(u)
        BY <1>1, <1>2, <1>8
    <3> QED BY <1>1, <1>6, <1>8, <3>1, WeightsType
  <2> HIDE DEF q
  <2>4. m \in 0 .. Len(w)
      BY <1>1, <1>2, <1>8
  <2>5. Total(w) = Total(q)
      BY <1>8, <2>1, <2>2, <2>3, <2>4, TotalZeros
  <2> QED BY <2>5 DEF q
<1>11. SinceIdle(p) = Total(Weights(p))
    BY <1>2, WeightsType
<1> QED BY <1>3, <1>9, <1>10, <1>11
\* Longer ago than DeltaTTL, no addition to the series is continued.
LEMMA IdleStartsAnew ==
    ASSUME NEW l \in Seq(Additions), NEW e \in Additions,
           \A k \in 1 .. Len(l) : l[k].series = e.series => ~ (e.at - l[k].at =< DeltaTTL)
    PROVE  \A i \in 1 .. Len(l) : ~ Continues(Append(l, e), i)
<1> DEFINE u == Append(l, e)
           n == Len(l)
<1>1. Len(u) = n + 1 /\ u[n + 1] = e /\ n \in Nat /\ \A i \in 1 .. n : u[i] = l[i]
    BY AddedFacts
<1> HIDE DEF u
<1>2. SUFFICES ASSUME NEW i \in 1 .. n, Continues(u, i) PROVE FALSE
    BY DEF u
<1>3. n + 1 \in i + 1 .. Len(u) /\ u[n + 1].series = u[Len(u)].series
    BY <1>1
<1>4. PICK k \in i .. (n + 1) - 1 : u[k].series = u[Len(u)].series /\ u[n + 1].at - u[k].at =< DeltaTTL
    BY <1>2, <1>3 DEF Continues
<1>5. k \in 1 .. n /\ u[k] = l[k] /\ u[Len(u)] = e
    BY <1>1
<1> QED BY <1>1, <1>4, <1>5

\* The place of the last addition to a series.
LEMMA LastAddition ==
    ASSUME NEW l \in Seq(Additions), NEW series, \E i \in 1 .. Len(l) : l[i].series = series
    PROVE  \E m \in 1 .. Len(l) :
              l[m].series = series /\ \A i \in m + 1 .. Len(l) : l[i].series # series
<1> DEFINE T == {i \in 1 .. Len(l) : l[i].series = series}
<1>1. T \in SUBSET (1 .. Len(l)) /\ T # {} /\ Len(l) \in Nat
    OBVIOUS
<1>2. Max(T) \in T /\ \A y \in T : y =< Max(T)
  <2> HIDE DEF T
  <2> QED BY <1>1, MaxWithin
<1>3. PICK m \in T : \A y \in T : y =< m
    BY <1>2
<1>4. m \in 1 .. Len(l) /\ l[m].series = series
    OBVIOUS
<1>5. ASSUME NEW i \in m + 1 .. Len(l), l[i].series = series PROVE FALSE
  <2>1. i \in 1 .. Len(l) /\ ~ (i =< m)
      BY <1>1, <1>4
  <2>2. i \in T
      BY <1>5, <2>1
  <2> QED BY <1>3, <2>1, <2>2
<1> QED BY <1>4, <1>5

\* What accumulateDelta does to the running totals.
LEMMA AccumulateFacts ==
    ASSUME NEW series, NEW v \in Int, delta' = accumulateDelta(series, v), Types
    PROVE  LET fp == HashOf(series)
               kept == {f \in DOMAIN delta : ~ delta[f].lastSeen < now - DeltaTTL}
           IN  /\ DOMAIN delta' = kept \cup {fp}
               /\ \A f \in kept \ {fp} : delta'[f] = delta[f]
               /\ delta'[fp].lastSeen = now
               /\ delta'[fp].value = (IF fp \in kept THEN delta[fp].value ELSE 0) + v
<1> DEFINE fp == HashOf(series)
           kept == {f \in DOMAIN delta : ~ delta[f].lastSeen < now - DeltaTTL}
           d == evictStale(delta)
           old == IF fp \in DOMAIN d THEN d[fp].value ELSE 0
<1>1. DOMAIN d = kept /\ \A f \in kept : d[f] = delta[f]
    BY DEF evictStale
<1>2. delta' = [f \in DOMAIN d \cup {fp} |->
                  IF f = fp THEN [value |-> old + v, lastSeen |-> now] ELSE d[f]]
    BY DEF accumulateDelta
<1> HIDE DEF d, kept, fp
<1>3. DOMAIN delta' = kept \cup {fp}
    BY <1>1, <1>2
<1>4. \A f \in kept \ {fp} : delta'[f] = delta[f]
    BY <1>1, <1>2
<1>5. delta'[fp] = [value |-> old + v, lastSeen |-> now]
    BY <1>2
<1>6. delta'[fp].lastSeen = now /\ delta'[fp].value = old + v
    BY <1>5
<1>7. old = IF fp \in kept THEN delta[fp].value ELSE 0
    BY <1>1
<1> QED BY <1>3, <1>4, <1>6, <1>7 DEF fp, kept

LEMMA TypesFacts ==
    ASSUME Types
    PROVE  /\ ledger \in Seq(Additions) /\ Len(ledger) \in Nat
           /\ now \in Nat /\ DeltaTTL \in Nat
           /\ \A i \in 1 .. Len(ledger) : ledger[i] \in Additions /\ ledger[i].at \in Nat /\ ledger[i].v \in Int
           /\ \A f \in DOMAIN delta : delta[f].value \in Int /\ delta[f].lastSeen \in 0 .. now
<1>1. ledger \in Seq(Additions) /\ Len(ledger) \in Nat
    BY DEF Types
<1>2. \A i \in 1 .. Len(ledger) : ledger[i] \in Additions
    BY <1>1
<1>3. \A i \in 1 .. Len(ledger) : ledger[i].at \in Nat /\ ledger[i].v \in Int
    BY <1>2 DEF Additions
<1>4. now \in Nat /\ DeltaTTL \in Nat
    BY IngestAssumption DEF Types, IngestTypeOK
<1>5. \A f \in DOMAIN delta : delta[f].value \in Int /\ delta[f].lastSeen \in 0 .. now
    BY DEF Types, IngestTypeOK
<1> QED BY <1>1, <1>2, <1>3, <1>4, <1>5

\* The total that accumulateDelta returns is the one it should be, for any
\* addition to any series in any state of the ledger.
LEMMA AccumulateExact ==
    ASSUME Types, LedgerOrder, DeltaRunning, NEW e \in Additions, e.at = now,
           delta' = accumulateDelta(e.series, e.v), ledger' = Append(ledger, e),
           ~ Collides(ledger', e.series)
    PROVE  delta'[HashOf(e.series)].value = SinceIdle(ledger')
<1> DEFINE fp == HashOf(e.series)
           n == Len(ledger)
           kept == {f \in DOMAIN delta : ~ delta[f].lastSeen < now - DeltaTTL}
<1>0. e.v \in Int /\ now \in Nat /\ DeltaTTL \in Nat /\ n \in Nat
    BY TypesFacts DEF Additions
<1>1. delta'[fp].value = (IF fp \in kept THEN delta[fp].value ELSE 0) + e.v
    BY <1>0, AccumulateFacts
<1>2. ledger' \in Seq(Additions) /\ Len(ledger') = n + 1 /\ \A i \in 1 .. n : ledger'[i] = ledger[i]
    BY TypesFacts, AddedFacts
<1>3. ~ Collides(ledger, e.series)
  <2>1. \A i \in DOMAIN ledger : i \in DOMAIN ledger' /\ ledger'[i] = ledger[i]
      BY <1>0, <1>2, TypesFacts
  <2> QED BY <2>1 DEF Collides
<1> HIDE DEF kept, fp
<1>3a. SUFFICES delta'[fp].value = SinceIdle(ledger')
    BY DEF fp
\* Started anew.
<1>4. ASSUME fp \notin kept,
             \A k \in 1 .. n : ledger[k].series = e.series => ~ (now - ledger[k].at =< DeltaTTL)
      PROVE  delta'[fp].value = SinceIdle(ledger')
  <2>1. delta'[fp].value = e.v
      BY <1>0, <1>1, <1>4
  <2>2. \A i \in 1 .. n : ~ Continues(ledger', i)
      BY <1>4, TypesFacts, IdleStartsAnew
  <2>3. SinceIdle(ledger') = e.v
      BY <2>2, TypesFacts, FreshTotal
  <2> QED BY <2>1, <2>3
<1>5. CASE ~ \E i \in 1 .. n : ledger[i].series = e.series
  <2>1. fp \notin DOMAIN delta
    <3>1. SUFFICES ASSUME fp \in DOMAIN delta PROVE FALSE
        OBVIOUS
    <3>2. PICK j \in 1 .. n : HashOf(ledger[j].series) = fp
        BY <3>1 DEF DeltaRunning
    <3>3. j \in DOMAIN ledger /\ ledger[j].series # e.series
        BY <1>5, TypesFacts
    <3> QED BY <1>3, <3>2, <3>3 DEF Collides, fp
  <2> QED BY <1>4, <1>5, <2>1 DEF kept
<1>6. CASE \E i \in 1 .. n : ledger[i].series = e.series
  <2>1. PICK m \in 1 .. n :
           ledger[m].series = e.series /\ \A i \in m + 1 .. n : ledger[i].series # e.series
      BY <1>6, TypesFacts, LastAddition
  <2>2. Running(delta, ledger, now, m)
      BY <1>3, <2>1 DEF DeltaRunning, LastOf
  <2>3. ledger[m].at \in Nat
      BY TypesFacts
  <2>4. ASSUME ledger[m].at < now - DeltaTTL, NEW k \in 1 .. n, ledger[k].series = e.series
        PROVE  ~ (now - ledger[k].at =< DeltaTTL)
    <3>1. ~ (k \in m + 1 .. n)
        BY <2>1, <2>4
    <3>2. k =< m
        BY <1>0, <3>1
    <3>3. ledger[k].at =< ledger[m].at
        BY <2>3, <3>2 DEF LedgerOrder
    <3>4. ledger[k].at \in Nat
        BY TypesFacts
    <3> QED BY <1>0, <2>3, <2>4, <3>3, <3>4
  <2>5. CASE /\ fp \in DOMAIN delta
             /\ delta[fp].lastSeen = ledger[m].at
             /\ delta[fp].value = SinceIdle(SubSeq(ledger, 1, m))
    <3>1. CASE ledger[m].at < now - DeltaTTL
      <4>1. fp \notin kept
          BY <2>5, <3>1 DEF kept
      <4> QED BY <1>4, <2>4, <3>1, <4>1
    <3>2. CASE ~ (ledger[m].at < now - DeltaTTL)
      <4>1. fp \in kept
          BY <2>5, <3>2 DEF kept
      <4>2. e.at - ledger[m].at =< DeltaTTL
          BY <1>0, <2>3, <3>2
      <4>3. SinceIdle(ledger') = SinceIdle(SubSeq(ledger, 1, m)) + e.v
          BY <2>1, <4>2, TypesFacts, ContinuedTotal
      <4> QED BY <1>1, <2>5, <4>1, <4>3
    <3> QED BY <3>1, <3>2
  <2>6. CASE fp \notin DOMAIN delta /\ ledger[m].at < now - DeltaTTL
    <3>1. fp \notin kept
        BY <2>6 DEF kept
    <3> QED BY <1>4, <2>4, <2>6, <3>1
  <2> QED BY <2>1, <2>2, <2>5, <2>6 DEF Running, fp
<1> QED BY <1>5, <1>6

LEMMA AccumulateRunning ==
    ASSUME Types, LedgerOrder, DeltaRunning, NEW e \in Additions, e.at = now, now' = now,
           delta' = accumulateDelta(e.series, e.v), ledger' = Append(ledger, e)
    PROVE  LedgerOrder' /\ DeltaRunning'
<1> DEFINE fp == HashOf(e.series)
           n == Len(ledger)
           kept == {f \in DOMAIN delta : ~ delta[f].lastSeen < now - DeltaTTL}
<1>0. e.v \in Int /\ now \in Nat /\ DeltaTTL \in Nat /\ n \in Nat
    BY TypesFacts DEF Additions
<1>1. /\ DOMAIN delta' = kept \cup {fp}
      /\ \A f \in kept \ {fp} : delta'[f] = delta[f]
      /\ delta'[fp].lastSeen = now
    BY <1>0, AccumulateFacts
<1>2. /\ ledger' \in Seq(Additions) /\ Len(ledger') = n + 1 /\ ledger'[n + 1] = e
      /\ \A i \in 1 .. n : ledger'[i] = ledger[i]
    BY TypesFacts, AddedFacts
<1>2a. \A i \in 1 .. n + 1 : i \in 1 .. n \/ i = n + 1
    BY <1>0
<1>2b. DOMAIN ledger = 1 .. n /\ DOMAIN ledger' = 1 .. n + 1 /\ n + 1 \in 1 .. n + 1 /\ \A i \in 1 .. n : i \in 1 .. n + 1
    BY <1>0, <1>2, TypesFacts
<1> HIDE DEF n
<1>3. LedgerOrder'
  <2>1. \A i \in 1 .. n + 1 : ledger'[i].at =< now
      BY <1>0, <1>2, <1>2a DEF LedgerOrder, n
  <2>2. ASSUME NEW i \in 1 .. n + 1, NEW j \in 1 .. n + 1, i < j PROVE ledger'[i].at =< ledger'[j].at
    <3>1. CASE j = n + 1
        BY <1>2, <2>1, <3>1
    <3>2. CASE j \in 1 .. n
      <4>1. i \in 1 .. n
          BY <1>0, <2>2, <3>2
      <4> QED BY <1>2, <2>2, <3>2, <4>1 DEF LedgerOrder, n
    <3> QED BY <1>2a, <3>1, <3>2
  <2> QED BY <1>2, <2>1, <2>2 DEF LedgerOrder
<1>4. \A f \in DOMAIN delta' : \E j \in 1 .. n + 1 : HashOf(ledger'[j].series) = f
  <2> SUFFICES ASSUME NEW f \in DOMAIN delta' PROVE \E j \in 1 .. n + 1 : HashOf(ledger'[j].series) = f
      OBVIOUS
  <2>1. CASE f = fp
      BY <1>2, <1>2b, <2>1
  <2>2. CASE f \in kept
    <3>1. PICK j \in 1 .. n : HashOf(ledger[j].series) = f
        BY <2>2 DEF DeltaRunning, n
    <3> QED BY <1>2, <1>2b, <3>1
  <2> QED BY <1>1, <2>1, <2>2
<1>5. ASSUME NEW j \in 1 .. n + 1, LastOf(ledger', j), ~ Collides(ledger', ledger'[j].series)
      PROVE  Running(delta', ledger', now, j)
  <2>1. CASE j = n + 1
    <3>1. ledger'[j] = e
        BY <1>2, <2>1
    <3>2. delta'[fp].value = SinceIdle(ledger')
        BY <1>5, <3>1, AccumulateExact
    <3>3. SubSeq(ledger', 1, j) = ledger'
        BY <1>0, <1>2, <2>1
    <3> HIDE DEF kept
    <3> QED BY <1>1, <3>1, <3>2, <3>3 DEF Running
  <2>2. CASE j \in 1 .. n
    <3> DEFINE f == HashOf(ledger[j].series)
    <3>1. ledger'[j] = ledger[j]
        BY <1>2, <2>2
    <3>2. ledger[j].series # e.series
      <4>1. n + 1 \in j + 1 .. Len(ledger')
          BY <1>0, <1>2, <2>2
      <4> QED BY <1>2, <1>5, <3>1, <4>1 DEF LastOf
    <3>3. f # fp
        BY <1>2, <1>2b, <1>5, <3>1, <3>2 DEF Collides
    <3>4. LastOf(ledger, j)
      <4>1. \A i \in j + 1 .. n : i \in j + 1 .. Len(ledger') /\ i \in 1 .. n
          BY <1>0, <1>2, <2>2
      <4> QED BY <1>2, <1>5, <3>1, <4>1 DEF LastOf, n
    <3>5. ~ Collides(ledger, ledger[j].series)
        BY <1>2, <1>2b, <1>5, <3>1 DEF Collides
    <3>6. Running(delta, ledger, now, j)
        BY <2>2, <3>4, <3>5 DEF DeltaRunning, n
    <3>7. SubSeq(ledger', 1, j) = SubSeq(ledger, 1, j)
      <4>1. \A i \in 1 .. j : i \in 1 .. n
          BY <1>0, <2>2
      <4>2. ledger \in Seq(Additions) /\ j \in Nat /\ j =< Len(ledger) /\ j =< Len(ledger')
          BY <1>0, <1>2, <2>2, TypesFacts DEF n
      <4>3. SubSeq(ledger', 1, j) = [i \in 1 .. j |-> ledger'[i]]
          BY <1>2, <4>2
      <4>4. SubSeq(ledger, 1, j) = [i \in 1 .. j |-> ledger[i]]
          BY <4>2
      <4> QED BY <1>2, <4>1, <4>3, <4>4
    <3> HIDE DEF f, fp
    <3>8. CASE f \in DOMAIN delta /\ delta[f].lastSeen = ledger[j].at /\ delta[f].value = SinceIdle(SubSeq(ledger, 1, j))
      <4>1. CASE f \in kept
        <5>1. f \in DOMAIN delta' /\ delta'[f] = delta[f]
            BY <1>1, <3>3, <4>1
        <5> QED BY <3>1, <3>7, <3>8, <5>1 DEF Running, f
      <4>2. CASE f \notin kept
        <5>1. ledger[j].at < now - DeltaTTL
            BY <3>8, <4>2
        <5>2. f \notin DOMAIN delta'
            BY <1>1, <3>3, <4>2
        <5> QED BY <3>1, <5>1, <5>2 DEF Running, f
      <4> QED BY <4>1, <4>2
    <3>9. CASE f \notin DOMAIN delta /\ ledger[j].at < now - DeltaTTL
      <4>1. f \notin DOMAIN delta'
          BY <1>1, <3>3, <3>9
      <4> QED BY <3>1, <3>9, <4>1 DEF Running, f
    <3> QED BY <3>6, <3>8, <3>9 DEF Running, f
  <2> QED BY <1>2a, <2>1, <2>2
<1> QED BY <1>2, <1>3, <1>4, <1>5 DEF DeltaRunning
-----------------------------------------------------------------------------
(* Answers *)

\* A request more, or an answer more.
MoreRequests ==
    /\ Len(reqs) \in Nat /\ Len(reqs') \in Nat
    /\ \A i \in 1 .. Len(reqs) : i \in 1 .. Len(reqs') /\ reqs'[i] = reqs[i]

LEMMA SameRequests == ASSUME Types, reqs' = reqs PROVE MoreRequests
BY DEF MoreRequests, Types

LEMMA AnswersKept ==
    ASSUME IngestInv, NEW r0, r0 \notin DOMAIN answered, MoreRequests,
           \A r \in DOMAIN answered' : r = r0 \/ (r \in DOMAIN answered /\ answered'[r] = answered[r]),
           stored \subseteq stored', \A s \in stored' : s \in stored \/ s.req = r0,
           r0 \in DOMAIN answered' =>
              Honest(answered'[r0], Got(stored', r0), DOMAIN CallsOf[reqs'[r0]])
    PROVE  FrontHonest'
<1>1. SUFFICES ASSUME NEW r \in DOMAIN answered'
               PROVE  Honest(answered'[r], Got(stored', r), DOMAIN CallsOf[reqs'[r]])
    BY DEF FrontHonest
<1>2. CASE r = r0
    BY <1>2
<1>3. CASE r # r0
  <2>1. r \in DOMAIN answered /\ answered'[r] = answered[r]
      BY <1>3
  <2>2. reqs'[r] = reqs[r]
      BY <2>1 DEF IngestInv, Types, IngestTypeOK, MoreRequests
  <2>3. Got(stored', r) = Got(stored, r)
      BY <1>3 DEF Got
  <2>4. Honest(answered[r], Got(stored, r), DOMAIN CallsOf[reqs[r]])
      BY <2>1 DEF IngestInv, FrontHonest
  <2> QED BY <2>1, <2>2, <2>3, <2>4
<1> QED BY <1>2, <1>3

LEMMA OthersServe ==
    ASSUME IngestInv, NEW g \in Handler, handler'[g] = handler[g], NEW r0,
           handler[g].pc # "idle" => handler[g].req # r0, MoreRequests,
           DOMAIN answered' \subseteq DOMAIN answered \cup {r0},
           \A s \in stored' : s \in stored \/ s.req = r0
    PROVE  Serves(g)'
<1>1. SUFFICES ASSUME handler[g].pc # "idle" PROVE Serves(g)'
    BY DEF Serves
<1>2. Serves(g)
    BY DEF IngestInv, Serving
<1>3. handler[g].req \in 1 .. Len(reqs) /\ reqs'[handler[g].req] = reqs[handler[g].req]
         /\ handler[g].req \in 1 .. Len(reqs')
    BY <1>1, <1>2 DEF Serves, MoreRequests
<1> QED BY <1>1, <1>2, <1>3 DEF Serves

\* The request that a handler serves and nobody else does.
LEMMA Served ==
    ASSUME IngestInv, NEW h \in Handler, handler[h].pc # "idle"
    PROVE  /\ handler[h].req \in 1 .. Len(reqs) /\ handler[h].req \notin DOMAIN answered
           /\ \A g \in Handler : g # h /\ handler[g].pc # "idle" => handler[g].req # handler[h].req
           /\ GoodCalls(CallsOf[reqs[handler[h].req]])
           /\ Range(CallsOf[reqs[handler[h].req]]) \subseteq AllCalls
           /\ DOMAIN CallsOf[reqs[handler[h].req]] = 1 .. Len(CallsOf[reqs[handler[h].req]])
           /\ Len(CallsOf[reqs[handler[h].req]]) \in Nat
<1>1. handler[h].req \in 1 .. Len(reqs) /\ handler[h].req \notin DOMAIN answered
    BY DEF IngestInv, Serving, Serves
<1>2. \A g \in Handler : g # h /\ handler[g].pc # "idle" => handler[g].req # handler[h].req
    BY DEF IngestInv, OwnRequests
<1>3. reqs[handler[h].req] \in DOMAIN Request \cup {NoBody}
    BY <1>1 DEF IngestInv, Types
<1>4. GoodCalls(CallsOf[reqs[handler[h].req]])
    BY <1>3, CallsOfGood
<1>5. Range(CallsOf[reqs[handler[h].req]]) \subseteq AllCalls
    BY <1>3 DEF AllCalls
<1> QED BY <1>1, <1>2, <1>4, <1>5, IsSequenceFacts DEF GoodCalls

LEMMA ReplyFacts ==
    ASSUME NEW r, NEW a, Reply(r, a)
    PROVE  /\ DOMAIN answered' = DOMAIN answered \cup {r}
           /\ answered'[r] = a
           /\ \A q \in DOMAIN answered : q # r => answered'[q] = answered[q]
BY DEF Reply
-----------------------------------------------------------------------------
(* The steps *)

LEMMA InitInv == Init => IngestInv
<1> SUFFICES ASSUME Init PROVE IngestInv
    OBVIOUS
<1> USE DEF Init
<1>1. Len(reqs) = 0 /\ Len(ledger) = 0 /\ DOMAIN answered = {} /\ DOMAIN delta = {}
    OBVIOUS
<1>2. \A h \in Handler : handler[h] = [pc |-> "idle", req |-> 0, pending |-> << >>]
    BY DEF Idle
<1>3. \A h \in Handler : handler[h].pc = "idle" /\ handler[h].req = 0 /\ handler[h].pending = << >>
    BY <1>2
<1>4. handler \in [Handler -> [pc : {"idle", "translate", "partial"}, req : Nat, pending : Seq(Samples)]]
    BY DEF Idle
<1>5. IngestTypeOK
    BY <1>1, <1>3, IngestAssumption DEF IngestTypeOK
<1>6. Types
    BY <1>4, <1>5 DEF Types
<1>7. Serving /\ OwnRequests
    BY <1>3 DEF Serving, Serves, OwnRequests
<1>8. FrontHonest /\ TotalsExact
    BY <1>1 DEF FrontHonest, TotalsExact
<1>9. PendingExact
    BY <1>3 DEF PendingExact
<1>10. LedgerOrder /\ DeltaRunning
    BY <1>1 DEF LedgerOrder, DeltaRunning
<1> QED BY <1>6, <1>7, <1>8, <1>9, <1>10 DEF IngestInv

LEMMA NewRequest ==
    ASSUME Types, NEW name \in DOMAIN Request \cup {NoBody}, reqs' = Append(reqs, name)
    PROVE  /\ reqs' \in Seq(DOMAIN Request \cup {NoBody})
           /\ MoreRequests
           /\ Len(reqs') = Len(reqs) + 1
           /\ Len(reqs) + 1 \in 1 .. Len(reqs')
           /\ reqs'[Len(reqs) + 1] = name
           /\ Len(reqs) + 1 \notin DOMAIN answered
           /\ \A s \in stored : s.req # Len(reqs) + 1
<1>1. reqs \in Seq(DOMAIN Request \cup {NoBody}) /\ Len(reqs) \in Nat
    BY DEF Types
<1>2. /\ reqs' \in Seq(DOMAIN Request \cup {NoBody})
      /\ Len(reqs') = Len(reqs) + 1
      /\ reqs'[Len(reqs) + 1] = name
      /\ \A i \in 1 .. Len(reqs) : reqs'[i] = reqs[i]
    BY <1>1
<1>3. Len(reqs) + 1 \notin 1 .. Len(reqs)
    BY <1>1
<1>4. Len(reqs) + 1 \notin DOMAIN answered /\ \A s \in stored : s.req # Len(reqs) + 1
    BY <1>3 DEF Types, IngestTypeOK
<1> QED BY <1>1, <1>2, <1>4 DEF MoreRequests

\* What the totals say does not change with requests and answers.
LEMMA SameTotals ==
    ASSUME IngestInv, delta' = delta, ledger' = ledger, now' = now
    PROVE  LedgerOrder' /\ DeltaRunning'
BY DEF IngestInv, LedgerOrder, DeltaRunning

LEMMA RefuseInv ==
    ASSUME IngestInv, NEW h \in Handler, Refuse(h) \/ ReceiveEmpty(h)
    PROVE  IngestInv'
<1> DEFINE r0 == Len(reqs) + 1
<1>0. Types
    BY DEF IngestInv
<1>1. handler' = handler /\ delta' = delta /\ stored' = stored /\ now' = now /\ ledger' = ledger
    BY DEF Refuse, ReceiveEmpty
<1>2. PICK a \in {"refused", "ok"} : Reply(r0, a)
    BY DEF Refuse, ReceiveEmpty
<1>3. NoBody \in DOMAIN Request \cup {NoBody} /\ reqs' = Append(reqs, NoBody)
    BY DEF Refuse, ReceiveEmpty
<1>4. /\ reqs' \in Seq(DOMAIN Request \cup {NoBody})
      /\ MoreRequests
      /\ r0 \in 1 .. Len(reqs')
      /\ reqs'[r0] = NoBody
      /\ r0 \notin DOMAIN answered
      /\ \A s \in stored : s.req # r0
    BY <1>0, <1>3, NewRequest
<1> HIDE DEF r0
<1>5. /\ DOMAIN answered' = DOMAIN answered \cup {r0}
      /\ answered'[r0] = a
      /\ \A q \in DOMAIN answered : q # r0 => answered'[q] = answered[q]
    BY <1>2, ReplyFacts
<1>6. IngestTypeOK'
  <2>1. \A i \in 1 .. Len(reqs) : i \in 1 .. Len(reqs')
      BY <1>4 DEF MoreRequests
  <2>2. \A i \in 0 .. Len(reqs) : i \in 0 .. Len(reqs')
      BY <2>1, <1>4 DEF MoreRequests
  <2>3. DOMAIN answered' \subseteq 1 .. Len(reqs') /\ \A q \in DOMAIN answered' : answered'[q] \in Answer
      BY <1>0, <1>4, <1>5, <2>1 DEF Types, IngestTypeOK, Answer
  <2> QED BY <1>0, <1>1, <2>1, <2>2, <2>3 DEF Types, IngestTypeOK
<1>7. Types'
    BY <1>0, <1>1, <1>4, <1>6 DEF Types
<1>8. Serving'
  <2> SUFFICES ASSUME NEW g \in Handler PROVE Serves(g)'
      BY DEF Serving
  <2>1. handler[g].pc # "idle" => handler[g].req # r0
    <3>1. Len(reqs) \in Nat
        BY <1>0 DEF Types
    <3>2. handler[g].pc # "idle" => handler[g].req \in 1 .. Len(reqs)
        BY DEF IngestInv, Serving, Serves
    <3> QED BY <3>1, <3>2 DEF r0
  <2>2. \A s \in stored' : s \in stored \/ s.req = r0
      BY <1>1
  <2> QED BY <1>1, <1>4, <1>5, <2>1, <2>2, OthersServe
<1>9. OwnRequests' /\ PendingExact' /\ TotalsExact'
    BY <1>1 DEF IngestInv, OwnRequests, PendingExact, TotalsExact
<1>10. Honest(a, Got(stored', r0), DOMAIN CallsOf[reqs'[r0]])
  <2>1. Got(stored', r0) = {}
      BY <1>1, <1>4 DEF Got
  <2>2. DOMAIN CallsOf[reqs'[r0]] = {}
      BY <1>4, NoBodyNoCalls
  <2> QED BY <2>1, <2>2 DEF Honest
<1>11. FrontHonest'
  <2>1. \A r \in DOMAIN answered' : r = r0 \/ (r \in DOMAIN answered /\ answered'[r] = answered[r])
      BY <1>5
  <2>2. stored \subseteq stored' /\ \A s \in stored' : s \in stored \/ s.req = r0
      BY <1>1
  <2>3. Honest(answered'[r0], Got(stored', r0), DOMAIN CallsOf[reqs'[r0]])
      BY <1>5, <1>10
  <2> QED BY <1>4, <2>1, <2>2, <2>3, AnswersKept
<1> QED BY <1>1, <1>7, <1>8, <1>9, <1>11, SameTotals DEF IngestInv

LEMMA ReceiveInv ==
    ASSUME IngestInv, NEW h \in Handler, Receive(h)
    PROVE  IngestInv'
<1> DEFINE r0 == Len(reqs) + 1
<1>0. Types
    BY DEF IngestInv
<1>1. answered' = answered /\ delta' = delta /\ stored' = stored /\ now' = now /\ ledger' = ledger
    BY DEF Receive
<1>2. PICK name \in DOMAIN Request \cup {NoBody} : reqs' = Append(reqs, name)
    BY DEF Receive
<1>3. /\ reqs' \in Seq(DOMAIN Request \cup {NoBody})
      /\ MoreRequests
      /\ r0 \in 1 .. Len(reqs')
      /\ reqs'[r0] = name
      /\ r0 \notin DOMAIN answered
      /\ \A s \in stored : s.req # r0
    BY <1>0, <1>2, NewRequest
<1>4. r0 \in Nat /\ \A g \in Handler : handler[g].pc # "idle" => handler[g].req # r0
  <2>1. Len(reqs) \in Nat
      BY <1>0 DEF Types
  <2>2. \A g \in Handler : handler[g].pc # "idle" => handler[g].req \in 1 .. Len(reqs)
      BY DEF IngestInv, Serving, Serves
  <2> QED BY <2>1, <2>2
<1>5. handler' = [handler EXCEPT ![h] = [pc |-> "translate", req |-> r0, pending |-> << >>]]
    BY DEF Receive
<1> HIDE DEF r0
<1>6. \A g \in Handler : g # h => handler'[g] = handler[g]
    BY <1>0, <1>5 DEF Types
<1>7. handler'[h] = [pc |-> "translate", req |-> r0, pending |-> << >>]
    BY <1>0, <1>5 DEF Types
<1>8. handler'[h].pc = "translate" /\ handler'[h].req = r0 /\ handler'[h].pending = << >>
    BY <1>7
<1>9. handler' \in [Handler -> [pc : {"idle", "translate", "partial"}, req : Nat, pending : Seq(Samples)]]
  <2>1. [pc |-> "translate", req |-> r0, pending |-> << >>]
           \in [pc : {"idle", "translate", "partial"}, req : Nat, pending : Seq(Samples)]
      BY <1>4
  <2> QED BY <1>0, <1>5, <2>1 DEF Types
<1>10. IngestTypeOK'
  <2>1. \A i \in 1 .. Len(reqs) : i \in 1 .. Len(reqs')
      BY <1>3 DEF MoreRequests
  <2>2. \A i \in 0 .. Len(reqs) : i \in 0 .. Len(reqs')
      BY <2>1, <1>3 DEF MoreRequests
  <2>3. \A g \in Handler :
           handler'[g].pc \in {"idle", "translate", "partial"} /\ handler'[g].req \in 0 .. Len(reqs')
    <3>1. r0 \in 0 .. Len(reqs')
        BY <1>3 DEF MoreRequests
    <3> QED BY <1>0, <1>6, <1>8, <2>2, <3>1 DEF Types, IngestTypeOK
  <2> QED BY <1>0, <1>1, <2>1, <2>3 DEF Types, IngestTypeOK
<1>11. Types'
    BY <1>0, <1>1, <1>3, <1>9, <1>10 DEF Types
<1>12. Serving'
  <2> SUFFICES ASSUME NEW g \in Handler PROVE Serves(g)'
      BY DEF Serving
  <2>1. CASE g # h
    <3>1. \A s \in stored' : s \in stored \/ s.req = r0
        BY <1>1
    <3> QED BY <1>1, <1>3, <1>4, <1>6, <2>1, <3>1, OthersServe
  <2>2. CASE g = h
    <3>1. Len(handler'[h].pending) = 0
        BY <1>8
    <3>2. Len(CallsOf[reqs'[r0]]) \in Nat
        BY <1>3, CallsOfGood, IsSequenceFacts DEF GoodCalls
    <3> QED BY <1>1, <1>3, <1>8, <2>2, <3>1, <3>2 DEF Serves
  <2> QED BY <2>1, <2>2
<1>13. OwnRequests'
    BY <1>4, <1>6, <1>8 DEF IngestInv, OwnRequests
<1>14. PendingExact' /\ TotalsExact'
  <2>1. Len(handler'[h].pending) = 0
      BY <1>8
  <2>2. PendingExact'
      BY <1>6, <2>1 DEF IngestInv, PendingExact
  <2> QED BY <1>1, <2>2 DEF IngestInv, TotalsExact
<1>15. FrontHonest'
    BY <1>1, <1>3, AnswersKept
<1> QED BY <1>1, <1>11, <1>12, <1>13, <1>14, <1>15, SameTotals DEF IngestInv
\* What a call of Append does to the totals, whether it adds to one or not.
LEMMA AccumulateStep ==
    ASSUME IngestInv, NEW call \in AllCalls, call.op.v \in Int, Accumulate(call.op), now' = now
    PROVE  /\ ledger' \in Seq(Additions)
           /\ \A f \in DOMAIN delta' : delta'[f].value \in Int /\ delta'[f].lastSeen \in 0 .. now
           /\ LedgerOrder' /\ DeltaRunning'
           /\ call.op.acc => LET v == delta'[HashOf(call.op.series)].value
                             IN  v \in Int /\ ExpectedTotal(ledger') \subseteq {v}
<1>0. Types /\ LedgerOrder /\ DeltaRunning
    BY DEF IngestInv
<1>1. CASE ~ call.op.acc
  <2>1. delta' = delta /\ ledger' = ledger
      BY <1>1 DEF Accumulate
  <2>2. LedgerOrder' /\ DeltaRunning'
      BY <2>1, SameTotals
  <2>3. ledger \in Seq(Additions)
        /\ \A f \in DOMAIN delta : delta[f].value \in Int /\ delta[f].lastSeen \in 0 .. now
      BY <1>0, TypesFacts
  <2> QED BY <1>1, <2>1, <2>2, <2>3
<1>2. CASE call.op.acc
  <2> DEFINE e == [series |-> call.op.series, v |-> call.op.v, at |-> now]
             fp == HashOf(call.op.series)
             kept == {f \in DOMAIN delta : ~ delta[f].lastSeen < now - DeltaTTL}
  <2>1. delta' = accumulateDelta(call.op.series, call.op.v) /\ ledger' = Append(ledger, e)
      BY <1>2 DEF Accumulate
  <2>2. now \in Nat /\ ledger \in Seq(Additions) /\ Len(ledger) \in Nat
        /\ \A f \in DOMAIN delta : delta[f].value \in Int /\ delta[f].lastSeen \in 0 .. now
      BY <1>0, TypesFacts
  <2>3. e \in Additions
      BY <2>2 DEF Additions
  <2>4. e.series = call.op.series /\ e.v = call.op.v /\ e.at = now
      OBVIOUS
  <2>5. /\ DOMAIN delta' = kept \cup {fp}
        /\ \A f \in kept \ {fp} : delta'[f] = delta[f]
        /\ delta'[fp].lastSeen = now
        /\ delta'[fp].value = (IF fp \in kept THEN delta[fp].value ELSE 0) + call.op.v
      BY <1>0, <2>1, AccumulateFacts
  <2> HIDE DEF e, fp
  <2>6. delta' = accumulateDelta(e.series, e.v)
      BY <2>1, <2>4
  <2>7. LedgerOrder' /\ DeltaRunning'
      BY <1>0, <2>1, <2>3, <2>4, <2>6, AccumulateRunning
  <2>8. ledger' \in Seq(Additions) /\ ledger'[Len(ledger')] = e
      BY <2>1, <2>2, <2>3
  <2>9. delta'[fp].value \in Int
      BY <2>2, <2>5
  <2>10. \A f \in DOMAIN delta' : delta'[f].value \in Int /\ delta'[f].lastSeen \in 0 .. now
      BY <2>2, <2>5, <2>9
  <2>11. ExpectedTotal(ledger') \subseteq {delta'[fp].value}
    <3>1. CASE Collides(ledger', e.series)
        BY <2>8, <3>1 DEF ExpectedTotal
    <3>2. CASE ~ Collides(ledger', e.series)
      <4>1. delta'[HashOf(e.series)].value = SinceIdle(ledger')
          BY <1>0, <2>1, <2>3, <2>4, <2>6, <3>2, AccumulateExact
      <4> QED BY <2>4, <2>8, <3>2, <4>1 DEF ExpectedTotal, fp
    <3> QED BY <3>1, <3>2
  <2> QED BY <2>7, <2>8, <2>9, <2>10, <2>11 DEF fp
<1> QED BY <1>1, <1>2

\* The next call is one of the request's, and the samples of those before it
\* are in hand.
LEMMA NextCallFacts ==
    ASSUME IngestInv, NEW h \in Handler, NEW call \in NextCall(h)
    PROVE  /\ handler[h].pc = "translate"
           /\ call \in AllCalls /\ call.op.v \in Int
           /\ Len(handler[h].pending) \in Nat
           /\ Len(handler[h].pending) + 1 =< Len(CallsOf[reqs[handler[h].req]])
<1> DEFINE calls == CallsOf[reqs[handler[h].req]]
           n == Len(handler[h].pending)
<1>1. handler[h].pc = "translate" /\ call \in CallAfter(calls, n)
    BY DEF NextCall
<1>2. handler[h].pc # "idle"
    BY <1>1
<1>3. GoodCalls(calls) /\ Range(calls) \subseteq AllCalls /\ DOMAIN calls = 1 .. Len(calls) /\ Len(calls) \in Nat
    BY <1>2, Served
<1>4. handler[h] \in [pc : {"idle", "translate", "partial"}, req : Nat, pending : Seq(Samples)]
    BY DEF IngestInv, Types
<1>5. n \in Nat
    BY <1>4
<1> HIDE DEF calls, n
<1>6. n + 1 \in DOMAIN calls /\ call = calls[n + 1]
    BY <1>1 DEF CallAfter
<1>7. call \in Range(calls)
    BY <1>6 DEF Range
<1> QED BY <1>1, <1>3, <1>5, <1>6, <1>7 DEF GoodCalls, calls, n

LEMMA AppendSampleInv ==
    ASSUME IngestInv, NEW h \in Handler, AppendSample(h)
    PROVE  IngestInv'
<1> DEFINE r0 == handler[h].req
           p == handler[h].pending
           n == Len(p)
<1>0. Types
    BY DEF IngestInv
<1>1. answered' = answered /\ stored' = stored /\ now' = now /\ reqs' = reqs
    BY DEF AppendSample
<1>2. PICK call \in NextCall(h) :
        /\ Accumulate(call.op)
        /\ handler' = [handler EXCEPT ![h].pending = Append(@,
              [req |-> handler[h].req, pos |-> Len(@) + 1, metric |-> call.metric,
               v |-> IF call.op.acc THEN delta'[HashOf(call.op.series)].value ELSE call.op.v,
               total |-> IF call.op.acc THEN ExpectedTotal(ledger') ELSE {}])]
    BY DEF AppendSample
<1> DEFINE s0 == [req |-> r0, pos |-> n + 1, metric |-> call.metric,
                  v |-> IF call.op.acc THEN delta'[HashOf(call.op.series)].value ELSE call.op.v,
                  total |-> IF call.op.acc THEN ExpectedTotal(ledger') ELSE {}]
<1>3. /\ handler[h].pc = "translate"
      /\ call \in AllCalls /\ call.op.v \in Int
      /\ n \in Nat
      /\ n + 1 =< Len(CallsOf[reqs[r0]])
    BY NextCallFacts
<1>4. /\ ledger' \in Seq(Additions)
      /\ \A f \in DOMAIN delta' : delta'[f].value \in Int /\ delta'[f].lastSeen \in 0 .. now
      /\ LedgerOrder' /\ DeltaRunning'
      /\ call.op.acc => LET v == delta'[HashOf(call.op.series)].value
                        IN  v \in Int /\ ExpectedTotal(ledger') \subseteq {v}
    BY <1>1, <1>2, <1>3, AccumulateStep
<1>5. handler[h] \in [pc : {"idle", "translate", "partial"}, req : Nat, pending : Seq(Samples)]
    BY <1>0 DEF Types
<1>6. r0 \in Nat /\ p \in Seq(Samples)
    BY <1>5
<1>7. s0 \in Samples /\ s0.req = r0 /\ s0.pos = n + 1 /\ s0.total \subseteq {s0.v}
  <2>1. call.metric \in {c.metric : c \in AllCalls}
      BY <1>3
  <2>2. CASE call.op.acc
    <3> DEFINE v == delta'[HashOf(call.op.series)].value
               t == ExpectedTotal(ledger')
    <3>1. v \in Int /\ t \subseteq {v}
        BY <1>4, <2>2
    <3>2. s0 = [req |-> r0, pos |-> n + 1, metric |-> call.metric, v |-> v, total |-> t]
        BY <2>2
    <3> HIDE DEF v, t, s0, r0, n
    <3> QED BY <1>3, <1>6, <2>1, <3>1, <3>2 DEF Samples
  <2>3. CASE ~ call.op.acc
    <3>2. s0 = [req |-> r0, pos |-> n + 1, metric |-> call.metric, v |-> call.op.v, total |-> {}]
        BY <2>3
    <3> HIDE DEF s0, r0, n
    <3> QED BY <1>3, <1>6, <2>1, <3>2 DEF Samples
  <2> QED BY <2>2, <2>3
<1>8. handler' = [handler EXCEPT ![h] = [handler[h] EXCEPT !.pending = Append(p, s0)]]
    BY <1>0, <1>2 DEF Types
<1> HIDE DEF s0
<1>9. handler'[h] = [handler[h] EXCEPT !.pending = Append(p, s0)]
      /\ \A g \in Handler : g # h => handler'[g] = handler[g]
    BY <1>0, <1>8 DEF Types
<1>10. handler'[h].pc = "translate" /\ handler'[h].req = r0 /\ handler'[h].pending = Append(p, s0)
    BY <1>3, <1>5, <1>9
<1>11. handler' \in [Handler -> [pc : {"idle", "translate", "partial"}, req : Nat, pending : Seq(Samples)]]
  <2>1. Append(p, s0) \in Seq(Samples)
      BY <1>6, <1>7
  <2>2. [handler[h] EXCEPT !.pending = Append(p, s0)]
           \in [pc : {"idle", "translate", "partial"}, req : Nat, pending : Seq(Samples)]
      BY <1>5, <2>1
  <2> QED BY <1>0, <1>8, <2>2 DEF Types
<1>12. /\ Len(Append(p, s0)) = n + 1 /\ Append(p, s0)[n + 1] = s0
       /\ \A i \in 1 .. n : Append(p, s0)[i] = p[i]
    BY <1>6, <1>7
<1>12a. \A i \in 1 .. n + 1 : i \in 1 .. n \/ i = n + 1
    BY <1>3
<1> HIDE DEF r0, p, n
<1>13. IngestTypeOK'
  <2>1. \A g \in Handler :
           handler'[g].pc \in {"idle", "translate", "partial"} /\ handler'[g].req \in 0 .. Len(reqs)
      BY <1>0, <1>9, <1>10 DEF Types, IngestTypeOK, r0
  <2> QED BY <1>0, <1>1, <1>4, <2>1 DEF Types, IngestTypeOK
<1>14. Types'
    BY <1>0, <1>1, <1>4, <1>11, <1>13 DEF Types
<1>15. MoreRequests
    BY <1>0, <1>1, SameRequests
<1>16. /\ r0 \in 1 .. Len(reqs) /\ r0 \notin DOMAIN answered
       /\ \A g \in Handler : g # h /\ handler[g].pc # "idle" => handler[g].req # r0
    BY <1>3, Served DEF r0
<1>17. Serves(h)
    BY DEF IngestInv, Serving
<1>18. Serving'
  <2> SUFFICES ASSUME NEW g \in Handler PROVE Serves(g)'
      BY DEF Serving
  <2>1. CASE g # h
    <3>1. \A s \in stored' : s \in stored \/ s.req = r0
        BY <1>1
    <3> QED BY <1>1, <1>9, <1>15, <1>16, <2>1, <3>1, OthersServe
  <2>2. CASE g = h
    <3>1. \A s \in stored : s.req # r0
        BY <1>3, <1>17 DEF Serves, r0
    <3>2. \A i \in 1 .. n : p[i].req = r0 /\ p[i].pos = i
        BY <1>3, <1>17 DEF Serves, r0, p, n
    <3>3. \A i \in 1 .. n + 1 : Append(p, s0)[i].req = r0 /\ Append(p, s0)[i].pos = i
        BY <1>7, <1>12, <1>12a, <3>2
    <3> QED BY <1>1, <1>3, <1>10, <1>12, <1>16, <2>2, <3>1, <3>3 DEF Serves
  <2> QED BY <2>1, <2>2
<1>19. OwnRequests'
  <2>1. \A g \in Handler : handler'[g].pc = handler[g].pc /\ handler'[g].req = handler[g].req
      BY <1>3, <1>9, <1>10 DEF r0
  <2> QED BY <2>1 DEF IngestInv, OwnRequests
<1>20. PendingExact'
  <2> SUFFICES ASSUME NEW g \in Handler, NEW i \in 1 .. Len(handler'[g].pending)
               PROVE  handler'[g].pending[i].total \subseteq {handler'[g].pending[i].v}
      BY DEF PendingExact
  <2>1. CASE g # h
      BY <1>9, <2>1 DEF IngestInv, PendingExact
  <2>2. CASE g = h
    <3>1. \A j \in 1 .. n : p[j].total \subseteq {p[j].v}
        BY DEF IngestInv, PendingExact, p, n
    <3>2. i \in 1 .. n + 1
        BY <1>10, <1>12, <2>2
    <3> QED BY <1>7, <1>10, <1>12, <1>12a, <2>2, <3>1, <3>2
  <2> QED BY <2>1, <2>2
<1>21. TotalsExact'
    BY <1>1 DEF IngestInv, TotalsExact
<1>22. FrontHonest'
    BY <1>1 DEF IngestInv, FrontHonest
<1> QED BY <1>4, <1>14, <1>18, <1>19, <1>20, <1>21, <1>22 DEF IngestInv
\* Samples that come from the front of a batch are from the front of the
\* request.
LEMMA FrontOfBatch ==
    ASSUME NEW m \in Nat, NEW k \in Nat, k =< m
    PROVE  FromFront(1 .. k, 1 .. m)
<1>1. Cardinality(1 .. k) = k
    BY FS_Interval
<1> QED BY <1>1 DEF FromFront

\* A handler is done: the first k of its samples are stored and the request
\* is answered.
LEMMA AnswerInv ==
    ASSUME IngestInv, NEW h \in Handler, handler[h].pc # "idle",
           NEW k \in 0 .. Len(handler[h].pending), Store(h, k),
           NEW a \in Answer, Reply(handler[h].req, a),
           handler' = [handler EXCEPT ![h] = Idle], now' = now, reqs' = reqs,
           ledger' \in Seq(Additions),
           \A f \in DOMAIN delta' : delta'[f].value \in Int /\ delta'[f].lastSeen \in 0 .. now,
           LedgerOrder', DeltaRunning',
           Honest(a, 1 .. k, DOMAIN CallsOf[reqs[handler[h].req]])
    PROVE  IngestInv'
<1> DEFINE r0 == handler[h].req
           p == handler[h].pending
<1>0. Types
    BY DEF IngestInv
<1>1. handler[h] \in [pc : {"idle", "translate", "partial"}, req : Nat, pending : Seq(Samples)]
    BY <1>0 DEF Types
<1>2. p \in Seq(Samples) /\ Len(p) \in Nat /\ \A i \in 1 .. k : i \in 1 .. Len(p)
    BY <1>1
<1>3. Serves(h)
    BY DEF IngestInv, Serving
<1>4. /\ r0 \in 1 .. Len(reqs) /\ r0 \notin DOMAIN answered
      /\ \A s \in stored : s.req # r0
      /\ \A i \in 1 .. k : p[i].req = r0 /\ p[i].pos = i
    BY <1>2, <1>3 DEF Serves
<1>5. \A g \in Handler : g # h /\ handler[g].pc # "idle" => handler[g].req # r0
    BY Served
<1>6. stored' = stored \cup {p[i] : i \in 1 .. k}
    BY DEF Store
<1>7. \A i \in 1 .. k : p[i] \in Samples /\ p[i].total \subseteq {p[i].v}
    BY <1>2 DEF IngestInv, PendingExact
<1>8. /\ DOMAIN answered' = DOMAIN answered \cup {r0}
      /\ answered'[r0] = a
      /\ \A q \in DOMAIN answered : q # r0 => answered'[q] = answered[q]
    BY ReplyFacts
<1>9. handler'[h] = [pc |-> "idle", req |-> 0, pending |-> << >>]
      /\ \A g \in Handler : g # h => handler'[g] = handler[g]
    BY <1>0 DEF Types, Idle
<1>10. handler'[h].pc = "idle" /\ handler'[h].req = 0 /\ handler'[h].pending = << >>
    BY <1>9
<1>11. handler' \in [Handler -> [pc : {"idle", "translate", "partial"}, req : Nat, pending : Seq(Samples)]]
    BY <1>0 DEF Types, Idle
<1>12. Honest(a, 1 .. k, DOMAIN CallsOf[reqs[r0]])
    OBVIOUS
<1> HIDE DEF r0, p
<1>13. \A s \in stored' : s \in stored \/ (s \in Samples /\ s.req = r0 /\ s.total \subseteq {s.v})
    BY <1>4, <1>6, <1>7
<1>14. stored' \subseteq Samples
    BY <1>0, <1>13 DEF Types
<1>15. Len(reqs) \in Nat
    BY <1>0 DEF Types
<1>16. IngestTypeOK'
  <2>1. \A g \in Handler :
           handler'[g].pc \in {"idle", "translate", "partial"} /\ handler'[g].req \in 0 .. Len(reqs)
      BY <1>0, <1>9, <1>10, <1>15 DEF Types, IngestTypeOK
  <2>2. \A s \in stored' : s.req \in 1 .. Len(reqs) /\ s.v \in Int
    <3>1. \A s \in Samples : s.v \in Int
        BY DEF Samples
    <3> QED BY <1>0, <1>4, <1>13, <3>1 DEF Types, IngestTypeOK
  <2>3. DOMAIN answered' \subseteq 1 .. Len(reqs)
      BY <1>0, <1>4, <1>8 DEF Types, IngestTypeOK
  <2>4. \A r \in DOMAIN answered' : answered'[r] \in Answer
      BY <1>0, <1>8 DEF Types, IngestTypeOK
  <2>5. now \in 0 .. MaxNow
      BY <1>0 DEF Types, IngestTypeOK
  <2> QED BY <2>1, <2>2, <2>3, <2>4, <2>5 DEF IngestTypeOK
<1>17. Types'
    BY <1>0, <1>11, <1>14, <1>16 DEF Types
<1>18. MoreRequests
    BY <1>0, SameRequests
<1>19. \A s \in stored' : s \in stored \/ s.req = r0
    BY <1>13
<1>20. Serving'
  <2> SUFFICES ASSUME NEW g \in Handler PROVE Serves(g)'
      BY DEF Serving
  <2>1. CASE g # h
      BY <1>5, <1>8, <1>9, <1>18, <1>19, <2>1, OthersServe
  <2>2. CASE g = h
      BY <1>10, <2>2 DEF Serves
  <2> QED BY <2>1, <2>2
<1>21. OwnRequests'
  <2>1. \A g \in Handler :
           handler'[g].pc # "idle" => handler[g].pc # "idle" /\ handler'[g].req = handler[g].req
      BY <1>9, <1>10
  <2> QED BY <2>1 DEF IngestInv, OwnRequests
<1>22. PendingExact'
  <2>1. Len(handler'[h].pending) = 0
      BY <1>10
  <2> QED BY <1>9, <2>1 DEF IngestInv, PendingExact
<1>23. TotalsExact'
    BY <1>13 DEF IngestInv, TotalsExact
<1>24. FrontHonest'
  <2>1. Got(stored', r0) = 1 .. k
    <3>1. {s \in stored' : s.req = r0} = {p[i] : i \in 1 .. k}
        BY <1>4, <1>6
    <3>2. \A i \in 1 .. k : p[i].pos = i
        BY <1>4
    <3> QED BY <3>1, <3>2 DEF Got
  <2>2. Honest(answered'[r0], Got(stored', r0), DOMAIN CallsOf[reqs'[r0]])
      BY <1>8, <1>12, <2>1
  <2>3. \A r \in DOMAIN answered' : r = r0 \/ (r \in DOMAIN answered /\ answered'[r] = answered[r])
      BY <1>8
  <2>4. stored \subseteq stored'
      BY <1>6
  <2> QED BY <1>4, <1>18, <1>19, <2>2, <2>3, <2>4, AnswersKept
<1> QED BY <1>17, <1>20, <1>21, <1>22, <1>23, <1>24 DEF IngestInv

LEMMA AppendErrInv ==
    ASSUME IngestInv, NEW h \in Handler, AppendErr(h)
    PROVE  IngestInv'
<1>0. Types
    BY DEF IngestInv
<1>1. stored' = stored /\ now' = now /\ reqs' = reqs
    BY DEF AppendErr
<1>2. PICK call \in NextCall(h) :
        /\ Accumulate(call.op)
        /\ \/ /\ Reply(handler[h].req, "refused")
              /\ handler' = [handler EXCEPT ![h] = Idle]
           \/ /\ Counted(h, call) # {}
              /\ handler' = [handler EXCEPT ![h].pc = "partial"]
              /\ UNCHANGED answered
    BY DEF AppendErr
<1>3. /\ handler[h].pc = "translate"
      /\ call \in AllCalls /\ call.op.v \in Int
      /\ Len(handler[h].pending) \in Nat
      /\ Len(handler[h].pending) + 1 =< Len(CallsOf[reqs[handler[h].req]])
    BY NextCallFacts
<1>4. /\ ledger' \in Seq(Additions)
      /\ \A f \in DOMAIN delta' : delta'[f].value \in Int /\ delta'[f].lastSeen \in 0 .. now
      /\ LedgerOrder' /\ DeltaRunning'
    BY <1>1, <1>2, <1>3, AccumulateStep
<1>5. CASE /\ Reply(handler[h].req, "refused")
           /\ handler' = [handler EXCEPT ![h] = Idle]
  <2>1. 0 \in 0 .. Len(handler[h].pending) /\ 1 .. 0 = {}
      BY <1>3
  <2>2. Store(h, 0)
      BY <1>1, <2>1 DEF Store
  <2>3. "refused" \in Answer /\ handler[h].pc # "idle"
      BY <1>3 DEF Answer
  <2>4. Honest("refused", 1 .. 0, DOMAIN CallsOf[reqs[handler[h].req]])
      BY <2>1 DEF Honest
  <2> QED BY ONLY IngestInv, h \in Handler, <1>1, <1>4, <1>5, <2>1, <2>2, <2>3, <2>4, AnswerInv
<1>6. CASE /\ Counted(h, call) # {}
           /\ handler' = [handler EXCEPT ![h].pc = "partial"]
           /\ answered' = answered
  <2> DEFINE r0 == handler[h].req
             p == handler[h].pending
             n == Len(p)
  <2>1. handler[h] \in [pc : {"idle", "translate", "partial"}, req : Nat, pending : Seq(Samples)]
      BY <1>0 DEF Types
  <2>2. p \in Seq(Samples) /\ DOMAIN p = 1 .. n
      BY <2>1
  <2>3. 0 < n
      BY <1>3, <1>6, <2>2 DEF Counted
  <2>4. handler' = [handler EXCEPT ![h] = [handler[h] EXCEPT !.pc = "partial"]]
      BY <1>0, <1>6 DEF Types
  <2>5. handler'[h] = [handler[h] EXCEPT !.pc = "partial"]
        /\ \A g \in Handler : g # h => handler'[g] = handler[g]
      BY <1>0, <2>4 DEF Types
  <2>6. handler'[h].pc = "partial" /\ handler'[h].req = r0 /\ handler'[h].pending = p
      BY <2>1, <2>5
  <2>7. handler' \in [Handler -> [pc : {"idle", "translate", "partial"}, req : Nat, pending : Seq(Samples)]]
    <3>1. [handler[h] EXCEPT !.pc = "partial"]
             \in [pc : {"idle", "translate", "partial"}, req : Nat, pending : Seq(Samples)]
        BY <2>1
    <3> QED BY <1>0, <2>4, <3>1 DEF Types
  <2>8. IngestTypeOK'
    <3>1. \A g \in Handler :
             handler'[g].pc \in {"idle", "translate", "partial"} /\ handler'[g].req \in 0 .. Len(reqs)
        BY <1>0, <2>5, <2>6 DEF Types, IngestTypeOK
    <3> QED BY <1>0, <1>1, <1>4, <1>6, <3>1 DEF Types, IngestTypeOK
  <2>9. Types'
      BY <1>0, <1>1, <1>4, <2>7, <2>8 DEF Types
  <2>10. \A g \in Handler : handler'[g].req = handler[g].req /\ handler'[g].pending = handler[g].pending
                            /\ (handler'[g].pc # "idle" <=> handler[g].pc # "idle")
      BY <1>3, <2>5, <2>6
  <2>11. Serving'
    <3> SUFFICES ASSUME NEW g \in Handler PROVE Serves(g)'
        BY DEF Serving
    <3>1. Serves(g)
        BY DEF IngestInv, Serving
    <3>2. CASE g # h
        BY <1>1, <1>6, <2>5, <3>1, <3>2 DEF Serves
    <3>3. CASE g = h
      <4>1. n < Len(CallsOf[reqs[r0]])
        <5>1. Len(CallsOf[reqs[r0]]) \in Nat
            BY <1>3, Served
        <5> QED BY <1>3, <5>1
      <4> QED BY <1>1, <1>3, <1>6, <2>3, <2>6, <3>1, <3>3, <4>1 DEF Serves
    <3> QED BY <3>2, <3>3
  <2>12. OwnRequests' /\ PendingExact'
      BY <2>10 DEF IngestInv, OwnRequests, PendingExact
  <2>13. FrontHonest' /\ TotalsExact'
      BY <1>1, <1>6 DEF IngestInv, FrontHonest, TotalsExact
  <2> QED BY <1>4, <2>9, <2>11, <2>12, <2>13 DEF IngestInv
<1> QED BY <1>2, <1>5, <1>6
\* When a handler commits it has the samples of all calls of the request, or
\* after a failed Append those of some, but not all.
LEMMA CommittingFacts ==
    ASSUME IngestInv, NEW h \in Handler, Committing(h)
    PROVE  LET n == Len(handler[h].pending)
               m == Len(CallsOf[reqs[handler[h].req]])
           IN  /\ handler[h].pc # "idle"
               /\ n \in Nat /\ m \in Nat /\ DOMAIN CallsOf[reqs[handler[h].req]] = 1 .. m
               /\ n =< m
               /\ handler[h].pc = "partial" => 0 < n /\ n < m
               /\ handler[h].pc # "partial" => n = m
<1> DEFINE calls == CallsOf[reqs[handler[h].req]]
           n == Len(handler[h].pending)
           m == Len(calls)
<1>1. handler[h].pc # "idle"
    BY DEF Committing
<1>2. m \in Nat /\ DOMAIN calls = 1 .. m
    BY <1>1, Served
<1>3. handler[h] \in [pc : {"idle", "translate", "partial"}, req : Nat, pending : Seq(Samples)]
    BY DEF IngestInv, Types
<1>4. n \in Nat
    BY <1>3
<1>5. n =< m /\ (handler[h].pc = "partial" => 0 < n /\ n < m)
    BY <1>1 DEF IngestInv, Serving, Serves
<1>6. ASSUME handler[h].pc # "partial" PROVE n = m
  <2>1. CallAfter(calls, n) = {}
      BY <1>6 DEF Committing, NextCall
  <2> HIDE DEF calls, n
  <2>2. n + 1 \notin DOMAIN calls
      BY <2>1 DEF CallAfter
  <2> HIDE DEF m
  <2> QED BY <1>2, <1>4, <1>5, <2>2
<1> QED BY <1>1, <1>2, <1>4, <1>5, <1>6

LEMMA CommitInv ==
    ASSUME IngestInv, NEW h \in Handler, Commit(h) \/ CommitErr(h)
    PROVE  IngestInv'
<1> DEFINE n == Len(handler[h].pending)
           calls == CallsOf[reqs[handler[h].req]]
           m == Len(calls)
<1>1. /\ Committing(h)
      /\ handler' = [handler EXCEPT ![h] = Idle]
      /\ delta' = delta /\ now' = now /\ reqs' = reqs /\ ledger' = ledger
    BY DEF Commit, CommitErr
<1>2. /\ handler[h].pc # "idle"
      /\ n \in Nat /\ m \in Nat /\ DOMAIN calls = 1 .. m
      /\ n =< m
      /\ handler[h].pc = "partial" => 0 < n /\ n < m
      /\ handler[h].pc # "partial" => n = m
    BY <1>1, CommittingFacts
<1>3. /\ ledger' \in Seq(Additions)
      /\ \A f \in DOMAIN delta' : delta'[f].value \in Int /\ delta'[f].lastSeen \in 0 .. now
      /\ LedgerOrder' /\ DeltaRunning'
    BY <1>1, SameTotals, TypesFacts DEF IngestInv
<1>4. CASE Commit(h)
  <2> DEFINE a == IF handler[h].pc = "partial" THEN "partial" ELSE "ok"
  <2>1. Store(h, n) /\ Reply(handler[h].req, a)
      BY <1>4 DEF Commit
  <2>2. a \in Answer /\ n \in 0 .. n
      BY <1>2 DEF Answer
  <2>3. Honest(a, 1 .. n, DOMAIN calls)
    <3>1. CASE handler[h].pc = "partial"
      <4>1. FromFront(1 .. n, 1 .. m)
          BY <1>2, FrontOfBatch
      <4>2. 1 \in 1 .. n /\ m \in 1 .. m /\ m \notin 1 .. n
          BY <1>2, <3>1
      <4>3. 1 .. n # {} /\ 1 .. n # 1 .. m
          BY <4>2
      <4>4. a = "partial"
          BY <3>1
      <4> HIDE DEF a, n, m, calls
      <4> QED BY <1>2, <4>1, <4>3, <4>4 DEF Honest
    <3>2. CASE handler[h].pc # "partial"
      <4>1. a = "ok" /\ n = m
          BY <1>2, <3>2
      <4> HIDE DEF a, n, m, calls
      <4> QED BY <1>2, <4>1 DEF Honest
    <3> QED BY <3>1, <3>2
  <2> HIDE DEF a
  <2> QED BY ONLY IngestInv, h \in Handler, <1>1, <1>2, <1>3, <2>1, <2>2, <2>3, AnswerInv
<1>5. CASE CommitErr(h)
  <2>1. PICK k \in 0 .. n : Store(h, k)
      BY <1>5 DEF CommitErr
  <2>2. Reply(handler[h].req, "failed") /\ "failed" \in Answer
      BY <1>5 DEF CommitErr, Answer
  <2>3. Honest("failed", 1 .. k, DOMAIN calls)
    <3>1. k \in Nat /\ k =< m
        BY <1>2, <2>1
    <3>2. FromFront(1 .. k, 1 .. m)
        BY <1>2, <3>1, FrontOfBatch
    <3> HIDE DEF m, calls
    <3> QED BY <1>2, <3>2 DEF Honest
  <2> QED BY ONLY IngestInv, h \in Handler, k \in 0 .. n, <1>1, <1>2, <1>3, <2>1, <2>2, <2>3, AnswerInv
<1> QED BY <1>4, <1>5

LEMMA RestartInv ==
    ASSUME IngestInv, Restart
    PROVE  IngestInv'
<1>0. Types
    BY DEF IngestInv
<1>1. /\ handler' = [h \in Handler |-> [pc |-> "idle", req |-> 0, pending |-> << >>]]
      /\ delta' = << >> /\ ledger' = << >>
      /\ stored' = stored /\ now' = now /\ reqs' = reqs /\ answered' = answered
    BY DEF Restart, Idle
<1>2. \A h \in Handler : handler'[h].pc = "idle" /\ handler'[h].req = 0 /\ Len(handler'[h].pending) = 0
    BY <1>1
<1>3. Len(ledger') = 0 /\ DOMAIN delta' = {} /\ Len(reqs) \in Nat
    BY <1>0, <1>1 DEF Types
<1>4. handler' \in [Handler -> [pc : {"idle", "translate", "partial"}, req : Nat, pending : Seq(Samples)]]
    BY <1>1
<1>5. IngestTypeOK'
    BY <1>0, <1>1, <1>2, <1>3 DEF Types, IngestTypeOK
<1>6. Types'
    BY <1>0, <1>1, <1>4, <1>5 DEF Types
<1>7. Serving' /\ OwnRequests' /\ PendingExact'
    BY <1>2 DEF Serving, Serves, OwnRequests, PendingExact
<1>8. FrontHonest' /\ TotalsExact'
    BY <1>1 DEF IngestInv, FrontHonest, TotalsExact
<1>9. LedgerOrder' /\ DeltaRunning'
    BY <1>3 DEF LedgerOrder, DeltaRunning
<1> QED BY <1>6, <1>7, <1>8, <1>9 DEF IngestInv

LEMMA TickInv ==
    ASSUME IngestInv, Tick
    PROVE  IngestInv'
<1>0. Types
    BY DEF IngestInv
<1>1. /\ now < MaxNow /\ now' = now + 1
      /\ handler' = handler /\ delta' = delta /\ stored' = stored /\ reqs' = reqs
      /\ answered' = answered /\ ledger' = ledger
    BY DEF Tick
<1>2. now \in Nat /\ MaxNow \in Nat /\ DeltaTTL \in Nat
      /\ \A i \in 1 .. Len(ledger) : ledger[i].at \in Nat
    BY <1>0, TypesFacts, IngestAssumption
<1>3. IngestTypeOK'
  <2>1. now' \in 0 .. MaxNow /\ \A x \in 0 .. now : x \in 0 .. now'
      BY <1>1, <1>2
  <2> QED BY <1>0, <1>1, <2>1 DEF Types, IngestTypeOK
<1>4. Types'
    BY <1>0, <1>1, <1>3 DEF Types
<1>5. Serving' /\ OwnRequests' /\ PendingExact'
    BY <1>1 DEF IngestInv, Serving, Serves, OwnRequests, PendingExact
<1>6. FrontHonest' /\ TotalsExact'
    BY <1>1 DEF IngestInv, FrontHonest, TotalsExact
<1>7. LedgerOrder'
    BY <1>1, <1>2 DEF IngestInv, LedgerOrder
<1>8. DeltaRunning'
  <2>1. \A j \in 1 .. Len(ledger) : Running(delta, ledger, now, j) => Running(delta, ledger, now', j)
      BY <1>1, <1>2 DEF Running
  <2> QED BY <1>1, <2>1 DEF IngestInv, DeltaRunning
<1> QED BY <1>4, <1>5, <1>6, <1>7, <1>8 DEF IngestInv

LEMMA NextInv == IngestInv /\ [Next]_vars => IngestInv'
<1> SUFFICES ASSUME IngestInv, [Next]_vars PROVE IngestInv'
    OBVIOUS
<1>1. CASE UNCHANGED vars
  <2>1. /\ handler' = handler /\ delta' = delta /\ stored' = stored /\ now' = now /\ reqs' = reqs
        /\ answered' = answered /\ ledger' = ledger
      BY <1>1 DEF vars
  <2>2. Types'
      BY <2>1 DEF IngestInv, Types, IngestTypeOK
  <2>3. Serving' /\ OwnRequests' /\ PendingExact'
      BY <2>1 DEF IngestInv, Serving, Serves, OwnRequests, PendingExact
  <2>4. FrontHonest' /\ TotalsExact'
      BY <2>1 DEF IngestInv, FrontHonest, TotalsExact
  <2> QED BY <2>1, <2>2, <2>3, <2>4, SameTotals DEF IngestInv
<1>2. CASE Restart
    BY <1>2, RestartInv
<1>3. CASE Tick
    BY <1>3, TickInv
<1>4. ASSUME NEW h \in Handler, Serve(h) PROVE IngestInv'
  <2>1. CASE Refuse(h) \/ ReceiveEmpty(h)
      BY <2>1, RefuseInv
  <2>2. CASE Receive(h)
      BY <2>2, ReceiveInv
  <2>3. CASE AppendSample(h)
      BY <2>3, AppendSampleInv
  <2>4. CASE AppendErr(h)
      BY <2>4, AppendErrInv
  <2>5. CASE Commit(h) \/ CommitErr(h)
      BY <2>5, CommitInv
  <2> QED BY <1>4, <2>1, <2>2, <2>3, <2>4, <2>5 DEF Serve
<1> QED BY <1>1, <1>2, <1>3, <1>4 DEF Next

-----------------------------------------------------------------------------
(***************************************************************************)
(* Names and labels.  The folds of module Labels, like the sums above, are *)
(* the last of their partial results.                                      *)
(***************************************************************************)

\* A sequence with an element.
LEMMA NonEmpty == ASSUME NEW S, NEW s \in Seq(S), s # << >> PROVE Len(s) \in Nat /\ Len(s) # 0
<1>1. Len(s) = 0 => s = << >>
    OBVIOUS
<1> QED BY <1>1

\* A prefix of a sequence.
LEMMA PrefixFacts ==
    ASSUME NEW S, NEW s \in Seq(S), NEW n \in 0 .. Len(s)
    PROVE  /\ SubSeq(s, 1, n) \in Seq(S) /\ Len(SubSeq(s, 1, n)) = n
           /\ \A i \in 1 .. n : SubSeq(s, 1, n)[i] = s[i]
<1>0. n \in Nat /\ Len(s) \in Nat /\ n =< Len(s)
    OBVIOUS
<1>1. SubSeq(s, 1, n) \in Seq(S)
    OBVIOUS
<1>2. Len(SubSeq(s, 1, n)) = n
    BY <1>0
<1>3. ASSUME NEW i \in 1 .. n PROVE SubSeq(s, 1, n)[i] = s[i]
    BY <1>0
<1> QED BY <1>1, <1>2, <1>3

FoldsBySet(n, base, step, f) ==
    \A t \in SUBSET (1 .. n) :
       f[t] = IF t = {} THEN base ELSE step[<<f[t \ {Max(t)}], Max(t)>>]

\* A fold over n places whose partial results stay in V, by its sets of places.
LEMMA FoldExists ==
    ASSUME NEW n \in Nat, NEW V, NEW base \in V, NEW step \in [V \X (1 .. n) -> V]
    PROVE  \E f \in [SUBSET (1 .. n) -> V] : FoldsBySet(n, base, step, f)
<1> USE DEF FoldsBySet
<1> DEFINE Upto(k, f) ==
              /\ f \in [SUBSET (1 .. k) -> V]
              /\ \A t \in SUBSET (1 .. k) :
                    f[t] = IF t = {} THEN base ELSE step[<<f[t \ {Max(t)}], Max(t)>>]
           T == {k \in 0 .. n : ~ \E f : Upto(k, f)}
<1>1. SUFFICES ASSUME T # {} PROVE FALSE
  <2>1. n \in 0 .. n
      OBVIOUS
  <2> QED BY <2>1
<1>2. PICK k \in T : \A y \in T : k =< y
  <2>1. T \subseteq Nat
      OBVIOUS
  <2> HIDE DEF T
  <2> QED BY <1>1, <2>1, LeastNat
<1>3. k \in 0 .. n /\ ~ \E f : Upto(k, f)
    OBVIOUS
<1>4. CASE k = 0
  <2> DEFINE z == [t \in SUBSET (1 .. 0) |-> base]
  <2>1. z \in [SUBSET (1 .. 0) -> V]
      OBVIOUS
  <2>2. \A t \in SUBSET (1 .. 0) : t = {} /\ z[t] = base
      OBVIOUS
  <2> HIDE DEF z
  <2>3. Upto(0, z)
      BY <2>1, <2>2
  <2> HIDE DEF Upto
  <2> QED BY <1>3, <1>4, <2>3
<1>5. CASE k # 0
  <2> DEFINE j == k - 1
  <2>1. j \in Nat /\ j \in 0 .. n /\ j + 1 = k /\ ~ (k =< j) /\ k \in 1 .. n
      BY <1>3, <1>5
  <2>2. j \notin T
      BY <1>2, <2>1
  <2>3. PICK f : Upto(j, f)
      BY <2>1, <2>2
  <2> HIDE DEF j
  <2> DEFINE g == [t \in SUBSET (1 .. k) |-> IF k \in t THEN step[<<f[t \ {k}], k>>] ELSE f[t]]
  <2>4. \A t \in SUBSET (1 .. k) : t \ {k} \in SUBSET (1 .. j)
      BY <2>1
  <2>5. \A t \in SUBSET (1 .. k) : k \notin t => t \in SUBSET (1 .. j)
      BY <2>1
  <2>6. g \in [SUBSET (1 .. k) -> V]
    <3>1. \A t \in SUBSET (1 .. k) : step[<<f[t \ {k}], k>>] \in V
        BY <2>1, <2>3, <2>4
    <3> QED BY <2>3, <2>5, <3>1
  <2>7. ASSUME NEW t \in SUBSET (1 .. k)
        PROVE  g[t] = IF t = {} THEN base ELSE step[<<g[t \ {Max(t)}], Max(t)>>]
    <3>1. CASE k \in t
      <4>0. k \in Nat /\ t # {}
          BY <2>1, <3>1
      <4>1. Max(t) \in t /\ \A y \in t : y =< Max(t)
          BY ONLY <4>0, t \in SUBSET (1 .. k), MaxWithin
      <4>2. Max(t) \in 1 .. k /\ k =< Max(t)
          BY <3>1, <4>1
      <4>3. Max(t) = k
          BY <4>0, <4>2
      <4>4. k \notin t \ {k} /\ t \ {k} \in SUBSET (1 .. k)
          OBVIOUS
      <4>5. g[t \ {k}] = f[t \ {k}]
          BY <4>4
      <4>6. g[t] = step[<<f[t \ {k}], k>>]
          BY <3>1
      <4> HIDE DEF g
      <4> QED BY <4>0, <4>3, <4>5, <4>6
    <3>2. CASE k \notin t
      <4>1. t \in SUBSET (1 .. j)
          BY <2>5, <3>2
      <4>2. g[t] = f[t]
          BY <3>2
      <4>3. f[t] = IF t = {} THEN base ELSE step[<<f[t \ {Max(t)}], Max(t)>>]
          BY <2>3, <4>1
      <4>4. k \notin t \ {Max(t)} /\ t \ {Max(t)} \in SUBSET (1 .. k)
          BY <3>2
      <4>5. g[t \ {Max(t)}] = f[t \ {Max(t)}]
          BY <4>4
      <4> HIDE DEF g
      <4> QED BY <4>2, <4>3, <4>5
    <3> QED BY <3>1, <3>2
  <2> HIDE DEF g
  <2>8. Upto(k, g)
      BY <2>6, <2>7
  <2> HIDE DEF Upto
  <2> QED BY <1>3, <2>8
<1> QED BY <1>4, <1>5

\* The largest of the first k places, and those before it.
LEMMA LastPlace ==
    ASSUME NEW k \in Nat, k # 0
    PROVE  Max(1 .. k) = k /\ (1 .. k) \ {k} = 1 .. k - 1
<1>1. k \in 1 .. k /\ 1 .. k \in SUBSET (1 .. k)
    OBVIOUS
<1>2. Max(1 .. k) \in 1 .. k /\ \A y \in 1 .. k : y =< Max(1 .. k)
    BY <1>1, MaxWithin
<1> QED BY <1>1, <1>2

\* Runs of underscores become one.
MergeStep(s, c) == IF c = "_" /\ (s = << >> \/ Last(s) = "_") THEN s ELSE Append(s, c)

Merged(u) ==
    FoldLeft(LAMBDA s, c : IF c = "_" /\ (s = << >> \/ Last(s) = "_") THEN s ELSE Append(s, c),
             << >>, u)

MergesBySet(u, f) ==
    f = [t \in SUBSET DOMAIN u |->
           IF t = {} THEN << >> ELSE MergeStep(f[t \ {Max(t)}], u[Max(t)])]

LEMMA MergedIsChosen == ASSUME NEW u PROVE Merged(u) = (CHOOSE f : MergesBySet(u, f))[DOMAIN u]
BY DEF Merged, FoldLeft, MapThenFoldSet, MergesBySet, MergeStep

LEMMA MergedByParts ==
    ASSUME NEW S, NEW u \in Seq(S)
    PROVE  \E A : /\ A[0] = << >>
                  /\ \A k \in 1 .. Len(u) : A[k] = MergeStep(A[k - 1], u[k])
                  /\ Merged(u) = A[Len(u)]
<1> DEFINE n == Len(u)
           step == [x \in Seq(S) \X (1 .. n) |-> MergeStep(x[1], u[x[2]])]
<1>0. DOMAIN u = 1 .. n /\ n \in Nat
    OBVIOUS
<1>1. ASSUME NEW s \in Seq(S), NEW k \in 1 .. n
      PROVE  step[<<s, k>>] = MergeStep(s, u[k]) /\ MergeStep(s, u[k]) \in Seq(S)
  <2>1. u[k] \in S
      BY <1>0
  <2>2. Append(s, u[k]) \in Seq(S)
      BY <2>1
  <2>3. MergeStep(s, u[k]) \in Seq(S)
      BY <2>2 DEF MergeStep
  <2> QED BY <2>3
<1>2. step \in [Seq(S) \X (1 .. n) -> Seq(S)]
    BY <1>1
<1> HIDE DEF step, n
<1>3. << >> \in Seq(S)
    OBVIOUS
<1>4. PICK g \in [SUBSET (1 .. n) -> Seq(S)] :
         FoldsBySet(n, << >>, step, g)
  <2> DEFINE V == Seq(S)
  <2>1. n \in Nat /\ << >> \in V /\ step \in [V \X (1 .. n) -> V]
      BY <1>0, <1>2, <1>3
  <2> HIDE DEF V
  <2>2. \E g \in [SUBSET (1 .. n) -> V] : FoldsBySet(n, << >>, step, g)
      BY ONLY <2>1, FoldExists
  <2> QED BY <2>2 DEF V
<1>5. MergesBySet(u, g)
  <2>1. ASSUME NEW t \in SUBSET (1 .. n), t # {}
        PROVE  step[<<g[t \ {Max(t)}], Max(t)>>] = MergeStep(g[t \ {Max(t)}], u[Max(t)])
    <3>1. Max(t) \in 1 .. n
        BY ONLY <1>0, <2>1, t \in SUBSET (1 .. n), MaxWithin
    <3>2. g[t \ {Max(t)}] \in Seq(S)
        BY <1>4
    <3> QED BY <1>1, <3>1, <3>2
  <2>2. g = [t \in SUBSET (1 .. n) |-> g[t]]
      BY <1>4
  <2>3. \A t \in SUBSET (1 .. n) :
           g[t] = IF t = {} THEN << >> ELSE MergeStep(g[t \ {Max(t)}], u[Max(t)])
      BY <1>4, <2>1 DEF FoldsBySet
  <2> QED BY <1>0, <2>2, <2>3 DEF MergesBySet
<1> DEFINE f == CHOOSE h : MergesBySet(u, h)
           A == [k \in 0 .. n |-> f[1 .. k]]
<1>6. MergesBySet(u, f)
    BY <1>5
<1>7. Merged(u) = f[1 .. n]
    BY <1>0, MergedIsChosen
<1> HIDE DEF f
<1>8. \A t \in SUBSET (1 .. n) :
         f[t] = IF t = {} THEN << >> ELSE MergeStep(f[t \ {Max(t)}], u[Max(t)])
    BY <1>0, <1>6 DEF MergesBySet
<1>9. A[0] = << >>
  <2>1. 1 .. 0 = {} /\ {} \in SUBSET (1 .. n) /\ 0 \in 0 .. n
      BY <1>0
  <2> QED BY <1>8, <2>1
<1>10. ASSUME NEW k \in 1 .. n PROVE A[k] = MergeStep(A[k - 1], u[k])
  <2>0. k \in Nat /\ k # 0 /\ k =< n /\ k \in 1 .. k
      BY <1>0
  <2>1. k \in 0 .. n /\ k - 1 \in 0 .. n
      BY <1>0, <2>0
  <2>1a. 1 .. k \in SUBSET (1 .. n)
      BY <1>0, <2>0
  <2>1b. 1 .. k # {}
      BY <2>0
  <2>2. Max(1 .. k) = k /\ (1 .. k) \ {k} = 1 .. k - 1
      BY <2>0, LastPlace
  <2>3. f[1 .. k] = MergeStep(f[1 .. k - 1], u[k])
      BY <1>8, <2>0, <2>1a, <2>1b, <2>2
  <2> QED BY <2>1, <2>3
<1>11. A[n] = f[1 .. n]
    BY <1>0
<1> HIDE DEF A
<1> QED BY <1>7, <1>9, <1>10, <1>11 DEF n

Underscore == "_"

LEMMA MergeStepIs ==
    ASSUME NEW s, NEW c
    PROVE  MergeStep(s, c) =
              IF c = Underscore /\ (s = << >> \/ Last(s) = Underscore) THEN s ELSE Append(s, c)
BY DEF MergeStep, Underscore

LEMMA MergedFacts ==
    ASSUME NEW S, NEW u \in Seq(S)
    PROVE  Merged(u) \in Seq(S) /\ (Merged(u) # << >> => Merged(u)[1] # Underscore)
<1> DEFINE Good(s) == s \in Seq(S) /\ (s # << >> => s[1] # Underscore)
<1>1. PICK A : /\ A[0] = << >>
               /\ \A k \in 1 .. Len(u) : A[k] = MergeStep(A[k - 1], u[k])
               /\ Merged(u) = A[Len(u)]
    BY MergedByParts
<1> DEFINE G == {k \in Nat : k =< Len(u) => Good(A[k])}
<1>2. 0 \in G
  <2>1. Good(<< >>)
      OBVIOUS
  <2> QED BY <1>1, <2>1
<1>3. ASSUME NEW k \in Nat, k < Len(u), k \in G PROVE k + 1 \in G
  <2>1. Good(A[k]) /\ k + 1 \in 1 .. Len(u) /\ u[k + 1] \in S /\ k + 1 - 1 = k
      BY <1>3
  <2>2. A[k + 1] = MergeStep(A[k], u[k + 1])
      BY <1>1, <2>1
  <2>3. ASSUME NEW s, Good(s), NEW c \in S, ~ (c = Underscore /\ (s = << >> \/ Last(s) = Underscore))
        PROVE  Good(Append(s, c))
    <3>1. CASE s = << >>
      <4>1. c # Underscore
          BY <2>3, <3>1
      <4>2. Append(s, c) \in Seq(S) /\ Append(s, c)[1] = c
          BY <2>3, <3>1
      <4> QED BY <4>1, <4>2
    <3>2. CASE s # << >>
      <4>1. Append(s, c) \in Seq(S) /\ Append(s, c)[1] = s[1]
          BY <2>3, <3>2
      <4> QED BY <2>3, <3>2, <4>1
    <3> QED BY <3>1, <3>2
  <2> HIDE DEF Good
  <2>4. Good(MergeStep(A[k], u[k + 1]))
      BY <2>1, <2>3, MergeStepIs
  <2> QED BY <2>2, <2>4
<1> HIDE DEF G
<1>4. Len(u) \in Nat
    OBVIOUS
<1>5. \A k \in 0 .. Len(u) : k \in G
    BY <1>2, <1>3, <1>4, UpTo
<1>6. Good(A[Len(u)])
    BY <1>4, <1>5 DEF G
<1> QED BY <1>1, <1>6

\* The steps of sanitize.
Mapped(name, keep) ==
    [i \in DOMAIN name |-> IF name[i] \in Symbol \ keep THEN "_" ELSE name[i]]

Trimmed(s) == IF s # << >> /\ Last(s) = "_" THEN Front(s) ELSE s

Prefixed(s) == IF s # << >> /\ Head(s) \in Digit THEN <<"_">> \o s ELSE s

LEMMA SanitizeSteps ==
    ASSUME NEW name, NEW keep
    PROVE  sanitize(name, keep) = Prefixed(Trimmed(Merged(Mapped(name, keep))))
BY DEF sanitize, Merged, Mapped, Trimmed, Prefixed

\* Names that start with two underscores are kept for the labels of the store.
Reserved(name) == 2 =< Len(name) /\ name[1] = Underscore /\ name[2] = Underscore

LEMMA ReservedLabels == Reserved(NameLabel) /\ Reserved(SchemaLabel)
BY DEF Reserved, NameLabel, SchemaLabel, Underscore

LEMMA StepsOfSanitize ==
    /\ \A s : Trimmed(s) = IF s # << >> /\ Last(s) = Underscore THEN Front(s) ELSE s
    /\ \A s : Prefixed(s) = IF s # << >> /\ Head(s) \in Digit THEN <<Underscore>> \o s ELSE s
    /\ \A name, keep : Mapped(name, keep) =
          [i \in DOMAIN name |-> IF name[i] \in Symbol \ keep THEN Underscore ELSE name[i]]
    /\ Underscore \notin Digit
BY DEF Trimmed, Prefixed, Mapped, Underscore, Digit

\* What is sanitized is a name, and not one of those.
LEMMA SanitizeFacts ==
    ASSUME NEW name, IsSequence(name), NEW keep
    PROVE  IsSequence(sanitize(name, keep)) /\ ~ Reserved(sanitize(name, keep))
<1> DEFINE S == Range(name) \cup {Underscore}
           mapped == Mapped(name, keep)
           merged == Merged(mapped)
           trimmed == Trimmed(merged)
<1>1. mapped \in Seq(S)
    BY IsSequenceFacts, StepsOfSanitize
<1>2. Underscore \in S
    OBVIOUS
<1> HIDE DEF mapped, S
<1>3. merged \in Seq(S) /\ (merged # << >> => merged[1] # Underscore)
    BY <1>1, MergedFacts
<1> HIDE DEF merged
<1>4. trimmed \in Seq(S) /\ (trimmed # << >> => trimmed[1] # Underscore)
  <2>1. CASE merged # << >> /\ Last(merged) = Underscore
    <3>1. trimmed = SubSeq(merged, 1, Len(merged) - 1)
        BY <2>1, StepsOfSanitize DEF Front
    <3>2. Len(merged) \in Nat /\ Len(merged) # 0
        BY <1>3, <2>1
    <3>3. trimmed \in Seq(S) /\ Len(trimmed) = Len(merged) - 1
      <4> HIDE DEF trimmed
      <4>1. merged \in Seq(S) /\ Len(merged) - 1 \in 0 .. Len(merged)
          BY <1>3, <3>2
      <4>2. SubSeq(merged, 1, Len(merged) - 1) \in Seq(S)
          BY ONLY <4>1
      <4>3. Len(SubSeq(merged, 1, Len(merged) - 1)) = Len(merged) - 1
          BY ONLY <4>1, PrefixFacts
      <4> QED BY <3>1, <4>2, <4>3
    <3>4. ASSUME trimmed # << >> PROVE trimmed[1] = merged[1]
      <4> HIDE DEF trimmed
      <4>1. Len(trimmed) # 0
          BY ONLY <3>3, <3>4, NonEmpty
      <4>2. 1 \in 1 .. Len(merged) - 1
          BY <3>2, <3>3, <4>1
      <4> QED BY <1>3, <3>1, <4>2
    <3> QED BY <1>3, <2>1, <3>3, <3>4
  <2>2. CASE ~ (merged # << >> /\ Last(merged) = Underscore)
    <3>1. trimmed = merged
        BY <2>2, StepsOfSanitize
    <3> QED BY <1>3, <3>1
  <2> QED BY <2>1, <2>2
<1>5. sanitize(name, keep) = Prefixed(trimmed)
    BY SanitizeSteps DEF merged, mapped
<1> HIDE DEF trimmed
<1>6. CASE trimmed # << >> /\ Head(trimmed) \in Digit
  <2>1. Prefixed(trimmed) = <<Underscore>> \o trimmed
      BY <1>6, StepsOfSanitize
  <2>2. Head(trimmed) = trimmed[1] /\ trimmed[1] # Underscore
      BY <1>4, <1>6
  <2>3. <<Underscore>> \in Seq(S)
      BY <1>2
  <2>4. <<Underscore>> \o trimmed \in Seq(S) /\ (<<Underscore>> \o trimmed)[2] = trimmed[1]
    <3>1. Len(trimmed) \in Nat /\ Len(trimmed) # 0
        BY <1>4, <1>6
    <3> QED BY <1>4, <2>3, <3>1
  <2> QED BY <1>5, <1>6, <2>1, <2>2, <2>4, SeqHasRange, StepsOfSanitize DEF Reserved
<1>7. CASE ~ (trimmed # << >> /\ Head(trimmed) \in Digit)
  <2>1. Prefixed(trimmed) = trimmed
      BY <1>7, StepsOfSanitize
  <2>2. ~ Reserved(trimmed)
    <3>1. trimmed = << >> => Len(trimmed) = 0
        OBVIOUS
    <3> QED BY <1>4, <3>1 DEF Reserved
  <2> QED BY <1>4, <1>5, <2>1, <2>2, SeqHasRange
<1> QED BY <1>6, <1>7

-----------------------------------------------------------------------------
\* Labels l have the same value as m under a name, or both have none.
Same(l, m, x) == (x \in DOMAIN l <=> x \in DOMAIN m) /\ (x \in DOMAIN m => l[x] = m[x])

LEMMA SetFacts ==
    ASSUME NEW l, NEW name, NEW v
    PROVE  /\ Has(Set(l, name, v), name, v)
           /\ \A x : x # name => Same(Set(l, name, v), l, x)
BY DEF Has, Set, Same

LEMMA SameIsTransitive ==
    ASSUME NEW l, NEW m, NEW r, NEW x, Same(l, m, x), Same(m, r, x)
    PROVE  Same(l, r, x)
BY DEF Same

LEMMA HasSame ==
    ASSUME NEW l, NEW m, NEW x, NEW v, Same(l, m, x), Has(m, x, v)
    PROVE  Has(l, x, v)
BY DEF Same, Has

LEMMA EmptyHasNone == DOMAIN EmptyLabels = {}
BY DEF EmptyLabels

\* Labels with names from N and values from W.
LabelsOver(N, W) == {EmptyLabels} \cup UNION {[D -> W] : D \in SUBSET N}

LEMMA SetOver ==
    ASSUME NEW N, NEW W, NEW l \in LabelsOver(N, W), NEW name \in N, NEW v \in W
    PROVE  Set(l, name, v) \in LabelsOver(N, W)
<1> DEFINE D == (DOMAIN l \ {name}) \cup (IF v = << >> THEN {} ELSE {name})
<1>1. DOMAIN l \in SUBSET N /\ \A x \in DOMAIN l : l[x] \in W
    BY EmptyHasNone DEF LabelsOver
<1>2. D \in SUBSET N
    BY <1>1
<1>3. Set(l, name, v) = [x \in D |-> IF x = name THEN v ELSE l[x]]
    BY DEF Set
<1>4. \A x \in D : (IF x = name THEN v ELSE l[x]) \in W
    BY <1>1
<1> HIDE DEF D
<1>5. Set(l, name, v) \in [D -> W]
    BY <1>3, <1>4
<1> QED BY <1>2, <1>5 DEF LabelsOver

IsFunction(f) == f = [x \in DOMAIN f |-> f[x]]

\* The attributes of a data point, one after the other.
NameOf(kv) == sanitizeLabelName(kv.key)

AttrStep(l, kv) == Set(l, NameOf(kv), anyValueString(kv.value))

Attributed(base, attrs) ==
    FoldLeft(LAMBDA l, kv : Set(l, sanitizeLabelName(kv.key), anyValueString(kv.value)),
             base, attrs)

AttributesBySet(base, attrs, f) ==
    f = [t \in SUBSET DOMAIN attrs |->
           IF t = {} THEN base ELSE AttrStep(f[t \ {Max(t)}], attrs[Max(t)])]

LEMMA AttributedIsChosen ==
    ASSUME NEW base, NEW attrs
    PROVE  Attributed(base, attrs) = (CHOOSE f : AttributesBySet(base, attrs, f))[DOMAIN attrs]
BY DEF Attributed, FoldLeft, MapThenFoldSet, AttributesBySet, AttrStep, NameOf

LEMMA AttributedByParts ==
    ASSUME NEW base, IsFunction(base), NEW attrs, IsSequence(attrs)
    PROVE  \E A : /\ A[0] = base
                  /\ \A k \in 1 .. Len(attrs) : A[k] = AttrStep(A[k - 1], attrs[k])
                  /\ Attributed(base, attrs) = A[Len(attrs)]
<1> DEFINE n == Len(attrs)
           D == DOMAIN base
           U == {base[x] : x \in D}
           N == D \cup {NameOf(attrs[i]) : i \in 1 .. n}
           W == U \cup {anyValueString(attrs[i].value) : i \in 1 .. n}
           V == LabelsOver(N, W)
           step == [x \in V \X (1 .. n) |-> AttrStep(x[1], attrs[x[2]])]
<1>0. DOMAIN attrs = 1 .. n /\ n \in Nat
    BY IsSequenceFacts
<1>1. ASSUME NEW s \in V, NEW k \in 1 .. n PROVE AttrStep(s, attrs[k]) \in V
  <2>1. NameOf(attrs[k]) \in N /\ anyValueString(attrs[k].value) \in W
      OBVIOUS
  <2> HIDE DEF N, W, n
  <2> QED BY <2>1, SetOver DEF AttrStep
<1>3. base \in V
  <2>1. base \in [D -> W] /\ D \in SUBSET N
      BY DEF IsFunction
  <2> HIDE DEF N, W, D
  <2> QED BY <2>1 DEF LabelsOver
<1> HIDE DEF V
<1>2. step \in [V \X (1 .. n) -> V]
    BY <1>1
<1>2a. \A s \in V : \A k \in 1 .. n : step[<<s, k>>] = AttrStep(s, attrs[k])
    OBVIOUS
<1> HIDE DEF step, n
<1>4. PICK g \in [SUBSET (1 .. n) -> V] : FoldsBySet(n, base, step, g)
    BY ONLY <1>0, <1>2, <1>3, FoldExists
<1>5. AttributesBySet(base, attrs, g)
  <2>1. ASSUME NEW t \in SUBSET (1 .. n), t # {}
        PROVE  step[<<g[t \ {Max(t)}], Max(t)>>] = AttrStep(g[t \ {Max(t)}], attrs[Max(t)])
    <3>1. Max(t) \in 1 .. n
        BY ONLY <1>0, <2>1, t \in SUBSET (1 .. n), MaxWithin
    <3>2. g[t \ {Max(t)}] \in V
        BY <1>4
    <3> QED BY <1>2a, <3>1, <3>2
  <2>2. g = [t \in SUBSET (1 .. n) |-> g[t]]
      BY <1>4
  <2>3. \A t \in SUBSET (1 .. n) :
           g[t] = IF t = {} THEN base ELSE AttrStep(g[t \ {Max(t)}], attrs[Max(t)])
      BY <1>4, <2>1 DEF FoldsBySet
  <2> QED BY <1>0, <2>2, <2>3 DEF AttributesBySet
<1> DEFINE f == CHOOSE h : AttributesBySet(base, attrs, h)
           A == [k \in 0 .. n |-> f[1 .. k]]
<1>6. AttributesBySet(base, attrs, f)
    BY <1>5
<1>7. Attributed(base, attrs) = f[1 .. n]
    BY <1>0, AttributedIsChosen
<1> HIDE DEF f
<1>8. \A t \in SUBSET (1 .. n) :
         f[t] = IF t = {} THEN base ELSE AttrStep(f[t \ {Max(t)}], attrs[Max(t)])
    BY <1>0, <1>6 DEF AttributesBySet
<1>9. A[0] = base
  <2>1. 1 .. 0 = {} /\ {} \in SUBSET (1 .. n) /\ 0 \in 0 .. n
      BY <1>0
  <2> QED BY <1>8, <2>1
<1>10. ASSUME NEW k \in 1 .. n PROVE A[k] = AttrStep(A[k - 1], attrs[k])
  <2>0. k \in Nat /\ k # 0 /\ k =< n /\ k \in 1 .. k
      BY <1>0
  <2>1. k \in 0 .. n /\ k - 1 \in 0 .. n
      BY <1>0, <2>0
  <2>1a. 1 .. k \in SUBSET (1 .. n)
      BY <1>0, <2>0
  <2>1b. 1 .. k # {}
      BY <2>0
  <2>2. Max(1 .. k) = k /\ (1 .. k) \ {k} = 1 .. k - 1
      BY <2>0, LastPlace
  <2>3. f[1 .. k] = AttrStep(f[1 .. k - 1], attrs[k])
      BY <1>8, <2>0, <2>1a, <2>1b, <2>2
  <2> QED BY <2>1, <2>3
<1>11. A[n] = f[1 .. n]
    BY <1>0
<1> HIDE DEF A
<1> QED BY <1>7, <1>9, <1>10, <1>11 DEF n

\* What the first k attributes leave of labels: the last attribute of a name
\* has its value, other names are as before.
AttrsSet(l, base, attrs, k) ==
    /\ \A i \in 1 .. k :
          \/ \E j \in i + 1 .. k : NameOf(attrs[j]) = NameOf(attrs[i])
          \/ Has(l, NameOf(attrs[i]), anyValueString(attrs[i].value))
    /\ \A x : (\A i \in 1 .. k : NameOf(attrs[i]) # x) => Same(l, base, x)

LEMMA AttrsSetStep ==
    ASSUME NEW l, NEW base, NEW attrs, NEW k \in Nat, AttrsSet(l, base, attrs, k)
    PROVE  AttrsSet(AttrStep(l, attrs[k + 1]), base, attrs, k + 1)
<1> DEFINE name == NameOf(attrs[k + 1])
           v == anyValueString(attrs[k + 1].value)
           m == Set(l, name, v)
<1>0. AttrStep(l, attrs[k + 1]) = m
    BY DEF AttrStep
<1>1. Has(m, name, v) /\ \A x : x # name => Same(m, l, x)
    BY SetFacts
<1> HIDE DEF m, v
<1>2. ASSUME NEW i \in 1 .. k + 1
      PROVE  \/ \E j \in i + 1 .. k + 1 : NameOf(attrs[j]) = NameOf(attrs[i])
             \/ Has(m, NameOf(attrs[i]), anyValueString(attrs[i].value))
  <2>1. CASE i = k + 1
      BY <1>1, <2>1 DEF v
  <2>2. CASE i # k + 1 /\ NameOf(attrs[i]) = name
    <3>1. k + 1 \in i + 1 .. k + 1
        BY <2>2
    <3> QED BY <2>2, <3>1
  <2>3. CASE i # k + 1 /\ NameOf(attrs[i]) # name
    <3>1. i \in 1 .. k /\ i + 1 .. k \subseteq i + 1 .. k + 1
        BY <2>3
    <3>2. Same(m, l, NameOf(attrs[i]))
        BY <1>1, <2>3
    <3>3. \/ \E j \in i + 1 .. k : NameOf(attrs[j]) = NameOf(attrs[i])
          \/ Has(l, NameOf(attrs[i]), anyValueString(attrs[i].value))
        BY <3>1 DEF AttrsSet
    <3> QED BY <3>1, <3>2, <3>3, HasSame
  <2> QED BY <2>1, <2>2, <2>3
<1>3. ASSUME NEW x, \A i \in 1 .. k + 1 : NameOf(attrs[i]) # x PROVE Same(m, base, x)
  <2>1. k + 1 \in 1 .. k + 1 /\ 1 .. k \subseteq 1 .. k + 1
      OBVIOUS
  <2>2. x # name /\ Same(l, base, x)
      BY <1>3, <2>1 DEF AttrsSet
  <2>3. Same(m, l, x)
      BY <1>1, <2>2
  <2> QED BY <2>2, <2>3, SameIsTransitive
<1> QED BY <1>0, <1>2, <1>3 DEF AttrsSet

LEMMA AttributedFacts ==
    ASSUME NEW base, IsFunction(base), NEW attrs, IsSequence(attrs)
    PROVE  AttrsSet(Attributed(base, attrs), base, attrs, Len(attrs))
<1>1. PICK A : /\ A[0] = base
               /\ \A k \in 1 .. Len(attrs) : A[k] = AttrStep(A[k - 1], attrs[k])
               /\ Attributed(base, attrs) = A[Len(attrs)]
    BY AttributedByParts
<1> DEFINE G == {k \in Nat : k =< Len(attrs) => AttrsSet(A[k], base, attrs, k)}
<1>2. 0 \in G
  <2>1. AttrsSet(base, base, attrs, 0)
      BY DEF AttrsSet, Same
  <2> QED BY <1>1, <2>1
<1>3. ASSUME NEW k \in Nat, k < Len(attrs), k \in G PROVE k + 1 \in G
  <2>1. AttrsSet(A[k], base, attrs, k) /\ k + 1 \in 1 .. Len(attrs) /\ k + 1 - 1 = k
      BY <1>3, IsSequenceFacts
  <2>2. A[k + 1] = AttrStep(A[k], attrs[k + 1])
      BY <1>1, <2>1
  <2>3. AttrsSet(A[k + 1], base, attrs, k + 1)
      BY <2>1, <2>2, AttrsSetStep
  <2> QED BY <2>3
<1> HIDE DEF G
<1>4. Len(attrs) \in Nat
    BY IsSequenceFacts
<1>5. \A k \in 0 .. Len(attrs) : k \in G
    BY <1>2, <1>3, <1>4, UpTo
<1>6. AttrsSet(A[Len(attrs)], base, attrs, Len(attrs))
    BY <1>4, <1>5 DEF G
<1> QED BY <1>1, <1>6

\* What the labels of a data point have of its attributes, name and schema.
LEMMA BuiltLabels ==
    ASSUME NEW name, NEW attrs, AttrsOK(attrs), NEW resource, NEW scope, NEW schema,
           NEW l, l = buildLabels(name, attrs, resource, scope, schema)
    PROVE  /\ \A i \in 1 .. Len(attrs) :
                 \/ \E j \in i + 1 .. Len(attrs) : NameOf(attrs[j]) = NameOf(attrs[i])
                 \/ Has(l, NameOf(attrs[i]), anyValueString(attrs[i].value))
           /\ Has(l, NameLabel, name)
           /\ Same(l, SetAll(SetAll(resource, scope), schema), SchemaLabel)
           /\ \A i \in 1 .. Len(attrs) : NameOf(attrs[i]) # NameLabel
<1> DEFINE base == SetAll(SetAll(resource, scope), schema)
           all == Attributed(base, attrs)
<1>1. IsFunction(base)
    BY DEF IsFunction, SetAll
<1>2. l = Set(all, NameLabel, name)
    BY DEF buildLabels, Attributed
<1> HIDE DEF base
<1>3. IsSequence(attrs) /\ DOMAIN attrs = 1 .. Len(attrs)
    BY IsSequenceFacts DEF AttrsOK
<1>4. AttrsSet(all, base, attrs, Len(attrs))
    BY <1>1, <1>3, AttributedFacts
<1> HIDE DEF all
<1>5. ASSUME NEW i \in 1 .. Len(attrs) PROVE NameOf(attrs[i]) # NameLabel /\ NameOf(attrs[i]) # SchemaLabel
  <2>1. IsSequence(attrs[i].key)
      BY <1>3, IsSequenceFacts DEF AttrsOK
  <2>2. ~ Reserved(NameOf(attrs[i]))
      BY <2>1, SanitizeFacts DEF NameOf, sanitizeLabelName
  <2> QED BY <2>2, ReservedLabels
<1>6. Has(l, NameLabel, name) /\ \A x : x # NameLabel => Same(l, all, x)
    BY <1>2, SetFacts
<1>7. Same(l, base, SchemaLabel)
  <2>1. NameLabel # SchemaLabel
      BY DEF NameLabel, SchemaLabel
  <2>2. Same(all, base, SchemaLabel)
      BY <1>4, <1>5 DEF AttrsSet
  <2> QED BY <1>6, <2>1, <2>2, SameIsTransitive
<1>8. ASSUME NEW i \in 1 .. Len(attrs)
      PROVE  \/ \E j \in i + 1 .. Len(attrs) : NameOf(attrs[j]) = NameOf(attrs[i])
             \/ Has(l, NameOf(attrs[i]), anyValueString(attrs[i].value))
  <2>1. Same(l, all, NameOf(attrs[i]))
      BY <1>5, <1>6
  <2> QED BY <1>4, <2>1, HasSame DEF AttrsSet
<1> QED BY <1>5, <1>6, <1>7, <1>8 DEF base

-----------------------------------------------------------------------------
\* A resource has a label of the store's own only if LabelMap says so.
ResourceStep(l, kv) ==
    CASE kv.key \in DOMAIN LabelMap -> Set(l, LabelMap[kv.key], anyValueString(kv.value))
      [] kv.key \notin DOMAIN LabelMap /\ kv.key \in Promote ->
            Set(l, sanitizeLabelName(kv.key), anyValueString(kv.value))
      [] OTHER -> l

ResourceBySet(attrs, f) ==
    f = [t \in SUBSET DOMAIN attrs |->
           IF t = {} THEN EmptyLabels ELSE ResourceStep(f[t \ {Max(t)}], attrs[Max(t)])]

LEMMA ResourceIsChosen ==
    ASSUME NEW attrs
    PROVE  resourceLabels(attrs) = (CHOOSE f : ResourceBySet(attrs, f))[DOMAIN attrs]
BY DEF resourceLabels, FoldLeft, MapThenFoldSet, ResourceBySet, ResourceStep

LEMMA ResourceByParts ==
    ASSUME NEW attrs, IsSequence(attrs)
    PROVE  \E A : /\ A[0] = EmptyLabels
                  /\ \A k \in 1 .. Len(attrs) : A[k] = ResourceStep(A[k - 1], attrs[k])
                  /\ resourceLabels(attrs) = A[Len(attrs)]
<1> DEFINE n == Len(attrs)
           N == Range(LabelMap) \cup {NameOf(attrs[i]) : i \in 1 .. n}
           W == {anyValueString(attrs[i].value) : i \in 1 .. n}
           V == LabelsOver(N, W)
           step == [x \in V \X (1 .. n) |-> ResourceStep(x[1], attrs[x[2]])]
<1>0. DOMAIN attrs = 1 .. n /\ n \in Nat
    BY IsSequenceFacts
<1>1. ASSUME NEW s \in V, NEW k \in 1 .. n PROVE ResourceStep(s, attrs[k]) \in V
  <2>1. NameOf(attrs[k]) \in N /\ anyValueString(attrs[k].value) \in W
      OBVIOUS
  <2>2. attrs[k].key \in DOMAIN LabelMap => LabelMap[attrs[k].key] \in N
      BY DEF Range
  <2> HIDE DEF N, W, n
  <2>3. CASE attrs[k].key \in DOMAIN LabelMap
    <3>1. ResourceStep(s, attrs[k]) =
             Set(s, LabelMap[attrs[k].key], anyValueString(attrs[k].value))
        BY <2>3 DEF ResourceStep
    <3> QED BY <2>1, <2>2, <2>3, <3>1, SetOver
  <2>4. CASE attrs[k].key \notin DOMAIN LabelMap /\ attrs[k].key \in Promote
    <3>1. ResourceStep(s, attrs[k]) = Set(s, NameOf(attrs[k]), anyValueString(attrs[k].value))
        BY <2>4 DEF ResourceStep, NameOf
    <3> QED BY <2>1, <3>1, SetOver
  <2>5. CASE attrs[k].key \notin DOMAIN LabelMap /\ attrs[k].key \notin Promote
      BY <2>5 DEF ResourceStep
  <2> QED BY <2>3, <2>4, <2>5
<1>3. EmptyLabels \in V
  <2> HIDE DEF N, W
  <2> QED BY DEF LabelsOver
<1> HIDE DEF V
<1>2. step \in [V \X (1 .. n) -> V]
    BY <1>1
<1>2a. \A s \in V : \A k \in 1 .. n : step[<<s, k>>] = ResourceStep(s, attrs[k])
    OBVIOUS
<1> HIDE DEF step, n
<1>4. PICK g \in [SUBSET (1 .. n) -> V] : FoldsBySet(n, EmptyLabels, step, g)
    BY ONLY <1>0, <1>2, <1>3, FoldExists
<1>5. ResourceBySet(attrs, g)
  <2>1. ASSUME NEW t \in SUBSET (1 .. n), t # {}
        PROVE  step[<<g[t \ {Max(t)}], Max(t)>>] = ResourceStep(g[t \ {Max(t)}], attrs[Max(t)])
    <3>1. Max(t) \in 1 .. n
        BY ONLY <1>0, <2>1, t \in SUBSET (1 .. n), MaxWithin
    <3>2. g[t \ {Max(t)}] \in V
        BY <1>4
    <3> QED BY <1>2a, <3>1, <3>2
  <2>2. g = [t \in SUBSET (1 .. n) |-> g[t]]
      BY <1>4
  <2>3. \A t \in SUBSET (1 .. n) :
           g[t] = IF t = {} THEN EmptyLabels ELSE ResourceStep(g[t \ {Max(t)}], attrs[Max(t)])
      BY <1>4, <2>1 DEF FoldsBySet
  <2> QED BY <1>0, <2>2, <2>3 DEF ResourceBySet
<1> DEFINE f == CHOOSE h : ResourceBySet(attrs, h)
           A == [k \in 0 .. n |-> f[1 .. k]]
<1>6. ResourceBySet(attrs, f)
    BY <1>5
<1>7. resourceLabels(attrs) = f[1 .. n]
    BY <1>0, ResourceIsChosen
<1> HIDE DEF f
<1>8. \A t \in SUBSET (1 .. n) :
         f[t] = IF t = {} THEN EmptyLabels ELSE ResourceStep(f[t \ {Max(t)}], attrs[Max(t)])
    BY <1>0, <1>6 DEF ResourceBySet
<1>9. A[0] = EmptyLabels
  <2>1. 1 .. 0 = {} /\ {} \in SUBSET (1 .. n) /\ 0 \in 0 .. n
      BY <1>0
  <2> QED BY <1>8, <2>1
<1>10. ASSUME NEW k \in 1 .. n PROVE A[k] = ResourceStep(A[k - 1], attrs[k])
  <2>0. k \in Nat /\ k # 0 /\ k =< n /\ k \in 1 .. k
      BY <1>0
  <2>1. k \in 0 .. n /\ k - 1 \in 0 .. n
      BY <1>0, <2>0
  <2>1a. 1 .. k \in SUBSET (1 .. n)
      BY <1>0, <2>0
  <2>1b. 1 .. k # {}
      BY <2>0
  <2>2. Max(1 .. k) = k /\ (1 .. k) \ {k} = 1 .. k - 1
      BY <2>0, LastPlace
  <2>3. f[1 .. k] = ResourceStep(f[1 .. k - 1], attrs[k])
      BY <1>8, <2>0, <2>1a, <2>1b, <2>2
  <2> QED BY <2>1, <2>3
<1>11. A[n] = f[1 .. n]
    BY <1>0
<1> HIDE DEF A
<1> QED BY <1>7, <1>9, <1>10, <1>11 DEF n

LEMMA ResourceHasNoSchema ==
    ASSUME NEW attrs, AttrsOK(attrs), SchemaLabel \notin Range(LabelMap)
    PROVE  SchemaLabel \notin DOMAIN resourceLabels(attrs)
<1>0. IsSequence(attrs) /\ Len(attrs) \in Nat
    BY IsSequenceFacts DEF AttrsOK
<1>1. PICK A : /\ A[0] = EmptyLabels
               /\ \A k \in 1 .. Len(attrs) : A[k] = ResourceStep(A[k - 1], attrs[k])
               /\ resourceLabels(attrs) = A[Len(attrs)]
    BY <1>0, ResourceByParts
<1> DEFINE G == {k \in Nat : k =< Len(attrs) => SchemaLabel \notin DOMAIN A[k]}
<1>2. 0 \in G
    BY <1>1, EmptyHasNone
<1>3. ASSUME NEW k \in Nat, k < Len(attrs), k \in G PROVE k + 1 \in G
  <2>1. SchemaLabel \notin DOMAIN A[k] /\ k + 1 \in 1 .. Len(attrs) /\ k + 1 - 1 = k
      BY <1>0, <1>3
  <2> DEFINE kv == attrs[k + 1]
  <2>2. A[k + 1] = ResourceStep(A[k], kv)
      BY <1>1, <2>1
  <2>3. IsSequence(kv.key)
      BY <1>0, <2>1, IsSequenceFacts DEF AttrsOK
  <2>4. sanitizeLabelName(kv.key) # SchemaLabel
      BY <2>3, SanitizeFacts, ReservedLabels DEF sanitizeLabelName
  <2>5. \A n, v : n # SchemaLabel => SchemaLabel \notin DOMAIN Set(A[k], n, v)
      BY <2>1, SetFacts DEF Same
  <2>6. kv.key \in DOMAIN LabelMap => LabelMap[kv.key] # SchemaLabel
      BY DEF Range
  <2> HIDE DEF kv
  <2>7. SchemaLabel \notin DOMAIN ResourceStep(A[k], kv)
      BY <2>1, <2>4, <2>5, <2>6 DEF ResourceStep
  <2> QED BY <2>2, <2>7
<1> HIDE DEF G
<1>4. \A k \in 0 .. Len(attrs) : k \in G
    BY <1>0, <1>2, <1>3, UpTo
<1>5. SchemaLabel \notin DOMAIN A[Len(attrs)]
    BY <1>0, <1>4 DEF G
<1> QED BY <1>1, <1>5

-----------------------------------------------------------------------------
\* The schema URL at a scope.
SchemaStep(l, sm) == SchemaLabels(l, sm.schema)

SchemaBySet(base, scopes, f) ==
    f = [t \in SUBSET DOMAIN scopes |->
           IF t = {} THEN base ELSE SchemaStep(f[t \ {Max(t)}], scopes[Max(t)])]

SchemaAfter(base, scopes) ==
    FoldLeft(LAMBDA l, sm : SchemaLabels(l, sm.schema), base, scopes)

LEMMA SchemaIsChosen ==
    ASSUME NEW base, NEW scopes
    PROVE  SchemaAfter(base, scopes) = (CHOOSE f : SchemaBySet(base, scopes, f))[DOMAIN scopes]
BY DEF SchemaAfter, FoldLeft, MapThenFoldSet, SchemaBySet, SchemaStep

LEMMA SchemaByParts ==
    ASSUME NEW base, NEW scopes, IsSequence(scopes)
    PROVE  \E A : /\ A[0] = base
                  /\ \A k \in 1 .. Len(scopes) : A[k] = SchemaStep(A[k - 1], scopes[k])
                  /\ SchemaAfter(base, scopes) = A[Len(scopes)]
<1> DEFINE n == Len(scopes)
           V == {base} \cup {Set(EmptyLabels, SchemaLabel, scopes[i].schema) : i \in 1 .. n}
           step == [x \in V \X (1 .. n) |-> SchemaStep(x[1], scopes[x[2]])]
<1>0. DOMAIN scopes = 1 .. n /\ n \in Nat
    BY IsSequenceFacts
<1>1. ASSUME NEW s \in V, NEW k \in 1 .. n PROVE SchemaStep(s, scopes[k]) \in V
    BY DEF SchemaStep, SchemaLabels
<1>3. base \in V
    OBVIOUS
<1> HIDE DEF V
<1>2. step \in [V \X (1 .. n) -> V]
    BY <1>1
<1>2a. \A s \in V : \A k \in 1 .. n : step[<<s, k>>] = SchemaStep(s, scopes[k])
    OBVIOUS
<1> HIDE DEF step, n
<1>4. PICK g \in [SUBSET (1 .. n) -> V] : FoldsBySet(n, base, step, g)
    BY ONLY <1>0, <1>2, <1>3, FoldExists
<1>5. SchemaBySet(base, scopes, g)
  <2>1. ASSUME NEW t \in SUBSET (1 .. n), t # {}
        PROVE  step[<<g[t \ {Max(t)}], Max(t)>>] = SchemaStep(g[t \ {Max(t)}], scopes[Max(t)])
    <3>1. Max(t) \in 1 .. n
        BY ONLY <1>0, <2>1, t \in SUBSET (1 .. n), MaxWithin
    <3>2. g[t \ {Max(t)}] \in V
        BY <1>4
    <3> QED BY <1>2a, <3>1, <3>2
  <2>2. g = [t \in SUBSET (1 .. n) |-> g[t]]
      BY <1>4
  <2>3. \A t \in SUBSET (1 .. n) :
           g[t] = IF t = {} THEN base ELSE SchemaStep(g[t \ {Max(t)}], scopes[Max(t)])
      BY <1>4, <2>1 DEF FoldsBySet
  <2> QED BY <1>0, <2>2, <2>3 DEF SchemaBySet
<1> DEFINE f == CHOOSE h : SchemaBySet(base, scopes, h)
           A == [k \in 0 .. n |-> f[1 .. k]]
<1>6. SchemaBySet(base, scopes, f)
    BY <1>5
<1>7. SchemaAfter(base, scopes) = f[1 .. n]
    BY <1>0, SchemaIsChosen
<1> HIDE DEF f
<1>8. \A t \in SUBSET (1 .. n) :
         f[t] = IF t = {} THEN base ELSE SchemaStep(f[t \ {Max(t)}], scopes[Max(t)])
    BY <1>0, <1>6 DEF SchemaBySet
<1>9. A[0] = base
  <2>1. 1 .. 0 = {} /\ {} \in SUBSET (1 .. n) /\ 0 \in 0 .. n
      BY <1>0
  <2> QED BY <1>8, <2>1
<1>10. ASSUME NEW k \in 1 .. n PROVE A[k] = SchemaStep(A[k - 1], scopes[k])
  <2>0. k \in Nat /\ k # 0 /\ k =< n /\ k \in 1 .. k
      BY <1>0
  <2>1. k \in 0 .. n /\ k - 1 \in 0 .. n
      BY <1>0, <2>0
  <2>1a. 1 .. k \in SUBSET (1 .. n)
      BY <1>0, <2>0
  <2>1b. 1 .. k # {}
      BY <2>0
  <2>2. Max(1 .. k) = k /\ (1 .. k) \ {k} = 1 .. k - 1
      BY <2>0, LastPlace
  <2>3. f[1 .. k] = SchemaStep(f[1 .. k - 1], scopes[k])
      BY <1>8, <2>0, <2>1a, <2>1b, <2>2
  <2> QED BY <2>1, <2>3
<1>11. A[n] = f[1 .. n]
    BY <1>0
<1> HIDE DEF A
<1> QED BY <1>7, <1>9, <1>10, <1>11 DEF n

\* The schema at the k-th scope is the scope's own; without one, and none
\* before it, it is that of the resource.
LEMMA SchemaFacts ==
    ASSUME SchemaURL, NEW rm, IsSequence(rm.scopes), NEW k \in 1 .. Len(rm.scopes)
    PROVE  /\ rm.scopes[k].schema # << >> =>
                 SchemaAt(rm, k) = Set(EmptyLabels, SchemaLabel, rm.scopes[k].schema)
           /\ (\A i \in 1 .. k : rm.scopes[i].schema = << >>) =>
                 SchemaAt(rm, k) = SchemaLabels(EmptyLabels, rm.schema)
<1> DEFINE base == SchemaLabels(EmptyLabels, rm.schema)
           u == SubSeq(rm.scopes, 1, k)
<1>1. rm.scopes \in Seq(Range(rm.scopes)) /\ k \in 0 .. Len(rm.scopes) /\ k \in Nat /\ k # 0
    BY DEF IsSequence
<1>2. u \in Seq(Range(rm.scopes)) /\ Len(u) = k /\ \A i \in 1 .. k : u[i] = rm.scopes[i]
    BY <1>1, PrefixFacts
<1>3. IsSequence(u)
    BY <1>2, SeqHasRange
<1>4. SchemaAt(rm, k) = SchemaAfter(base, u)
    BY DEF SchemaAt, SchemaAfter
<1> HIDE DEF base, u
<1>5. PICK A : /\ A[0] = base
               /\ \A i \in 1 .. Len(u) : A[i] = SchemaStep(A[i - 1], u[i])
               /\ SchemaAfter(base, u) = A[Len(u)]
    BY <1>3, SchemaByParts
<1>6. \A i \in 1 .. k : A[i] = SchemaLabels(A[i - 1], rm.scopes[i].schema)
    BY <1>2, <1>5 DEF SchemaStep
<1>7. rm.scopes[k].schema # << >> => A[k] = Set(EmptyLabels, SchemaLabel, rm.scopes[k].schema)
  <2>1. A[k] = SchemaLabels(A[k - 1], rm.scopes[k].schema)
      BY <1>1, <1>6
  <2> QED BY <2>1 DEF SchemaLabels
<1>8. ASSUME \A i \in 1 .. k : rm.scopes[i].schema = << >> PROVE A[k] = base
  <2> DEFINE G == {i \in Nat : i =< k => A[i] = base}
  <2>1. 0 \in G
      BY <1>5
  <2>2. ASSUME NEW i \in Nat, i < k, i \in G PROVE i + 1 \in G
    <3>1. A[i] = base /\ i + 1 \in 1 .. k /\ i + 1 - 1 = i
        BY <1>1, <2>2
    <3>2. A[i + 1] = SchemaLabels(A[i], rm.scopes[i + 1].schema)
        BY <1>6, <3>1
    <3>3. A[i + 1] = base
        BY <1>8, <3>1, <3>2 DEF SchemaLabels
    <3> QED BY <3>3
  <2> HIDE DEF G
  <2>3. \A i \in 0 .. k : i \in G
      BY <1>1, <2>1, <2>2, UpTo
  <2> QED BY <1>1, <2>3 DEF G
<1> QED BY <1>2, <1>4, <1>5, <1>7, <1>8 DEF base

-----------------------------------------------------------------------------
\* A name and one that begins with it.
LEMMA PrefixOfConcat ==
    ASSUME NEW s, IsSequence(s), NEW u, IsSequence(u)
    PROVE  IsPrefix(s, s) /\ IsPrefix(s, s \o u) /\ IsSequence(s \o u)
<1> DEFINE S == Range(s) \cup Range(u)
<1>1. s \in Seq(S) /\ u \in Seq(S)
    BY RangeInSeq
<1> HIDE DEF S
<1>2. s \o u \in Seq(S) /\ Len(s \o u) = Len(s) + Len(u) /\ Len(s) \in Nat /\ Len(u) \in Nat
    BY <1>1
<1>3. \A i \in 1 .. Len(s) : (s \o u)[i] = s[i]
    BY <1>1
<1>4. SubSeq(s, 1, Len(s)) = SubSeq(s \o u, 1, Len(s))
  <2>1. Len(s) \in 0 .. Len(s) /\ Len(s) \in 0 .. Len(s \o u)
      BY <1>2
  <2>2. /\ SubSeq(s, 1, Len(s)) \in Seq(S) /\ Len(SubSeq(s, 1, Len(s))) = Len(s)
        /\ \A i \in 1 .. Len(s) : SubSeq(s, 1, Len(s))[i] = s[i]
      BY <1>1, <2>1, PrefixFacts
  <2>3. /\ SubSeq(s \o u, 1, Len(s)) \in Seq(S) /\ Len(SubSeq(s \o u, 1, Len(s))) = Len(s)
        /\ \A i \in 1 .. Len(s) : SubSeq(s \o u, 1, Len(s))[i] = (s \o u)[i]
      BY <1>2, <2>1, PrefixFacts
  <2> DEFINE a == SubSeq(s, 1, Len(s))
             b == SubSeq(s \o u, 1, Len(s))
  <2> HIDE DEF a, b
  <2>4. a \in Seq(S) /\ b \in Seq(S) /\ Len(a) = Len(b) /\ \A i \in 1 .. Len(a) : a[i] = b[i]
      BY <1>3, <2>2, <2>3 DEF a, b
  <2>5. a = b
      BY <2>4
  <2> QED BY <2>5 DEF a, b
<1>5. IsPrefix(s, s \o u)
    BY <1>2, <1>4 DEF IsPrefix
<1>6. IsPrefix(s, s)
    BY <1>2 DEF IsPrefix
<1>7. IsSequence(s \o u)
    BY <1>2, SeqHasRange
<1> QED BY <1>5, <1>6, <1>7

LEMMA PrefixIsTransitive ==
    ASSUME NEW s, IsSequence(s), NEW u, IsSequence(u), NEW v, IsSequence(v)
    PROVE  IsPrefix(s, (s \o u) \o v)
<1> DEFINE S == Range(s) \cup Range(u) \cup Range(v)
<1>1. s \in Seq(S) /\ u \in Seq(S) /\ v \in Seq(S)
    BY RangeInSeq
<1> HIDE DEF S
<1>2. (s \o u) \o v = s \o (u \o v)
    BY <1>1
<1> QED BY <1>2, PrefixOfConcat

LEMMA ShortSequence == ASSUME NEW x, NEW y PROVE IsSequence(<<x>>) /\ IsSequence(<<x, y>>)
<1>1. <<x>> \in Seq({x}) /\ <<x, y>> \in Seq({x, y})
    OBVIOUS
<1> QED BY <1>1, SeqHasRange

\* The names of a metric.
LEMMA MetricNameFacts ==
    ASSUME NEW m, MetricOK(m)
    PROVE  /\ IsSequence(MetricName(m))
           /\ \/ SumName(MetricName(m), m) = MetricName(m)
              \/ SumName(MetricName(m), m) = MetricName(m) \o <<"_", "total">>
<1> DEFINE first == IF SanitizeMetricNames THEN sanitizeMetricName(m.name) ELSE m.name
           unit == sanitizeMetricName(IF m.unit \in DOMAIN unitMap THEN <<unitMap[m.unit]>> ELSE m.unit)
<1>1. IsSequence(m.name) /\ IsSequence(m.unit)
    BY DEF MetricOK
<1>2. IsSequence(first)
    BY <1>1, SanitizeFacts DEF sanitizeMetricName
<1>3. IsSequence(unit)
    BY <1>1, SanitizeFacts, ShortSequence DEF sanitizeMetricName
<1>4. \/ MetricName(m) = first
      \/ MetricName(m) = first \o (<<"_">> \o unit)
    BY DEF MetricName, addUnitSuffix, AddSuffix
<1> HIDE DEF first, unit
<1>5. IsSequence(MetricName(m))
    BY <1>2, <1>3, <1>4, PrefixOfConcat, ShortSequence
<1>6. \/ SumName(MetricName(m), m) = MetricName(m)
      \/ SumName(MetricName(m), m) = MetricName(m) \o <<"_", "total">>
    BY DEF SumName, addTypeSuffix, AddSuffix
<1> QED BY <1>5, <1>6

-----------------------------------------------------------------------------
\* What a call of Append has of the labels of its data point: all but its own
\* label and the name, which is the one of the metric or begins with it.
Derived(op, base, name) ==
    /\ \A x : x \notin OwnLabel(op.part) \cup {NameLabel} => Same(op.series, base, x)
    /\ name # << >> => NameLabel \in DOMAIN op.series
    /\ name # << >> =>
          \/ op.series[NameLabel] = name
          \/ \E tail : IsSequence(tail) /\ op.series[NameLabel] = name \o tail

LEMMA LongerName ==
    ASSUME NEW name, IsSequence(name), NEW x, NEW y
    PROVE  name \o <<x, y>> # << >>
<1> DEFINE S == Range(name) \cup {x, y}
<1>1. name \in Seq(S) /\ <<x, y>> \in Seq(S)
    BY RangeInSeq
<1> HIDE DEF S
<1>2. Len(name \o <<x, y>>) = Len(name) + 2 /\ Len(name) \in Nat
    BY <1>1
<1> QED BY <1>2

LEMMA ValueDerived ==
    ASSUME NEW base, NEW name, Has(base, NameLabel, name), NEW v, NEW acc
    PROVE  Derived(Op(base, "value", 0, v, acc), base, name)
BY DEF Derived, Op, Same, Has

LEMMA PartDerived ==
    ASSUME NEW base, NEW name, IsSequence(name), NEW part, part \in {"count", "sum"},
           NEW v, NEW acc
    PROVE  Derived(Part(name, base, part, v, acc), base, name)
<1> DEFINE l == Set(base, NameLabel, name \o <<"_", part>>)
           op == Part(name, base, part, v, acc)
<1>1. op.series = l /\ op.part = part
    BY DEF Part, Op, replaceMetricName
<1>2. Has(l, NameLabel, name \o <<"_", part>>) /\ \A x : x # NameLabel => Same(l, base, x)
    BY SetFacts
<1>3. name \o <<"_", part>> # << >> /\ IsSequence(<<"_", part>>)
    BY LongerName, ShortSequence
<1> HIDE DEF l
<1>4. NameLabel \in DOMAIN l /\ l[NameLabel] = name \o <<"_", part>>
    BY <1>2, <1>3 DEF Has
<1> HIDE DEF op
<1>5. Derived(op, base, name)
    BY <1>1, <1>2, <1>3, <1>4 DEF Derived
<1> QED BY <1>5 DEF op

\* Labels with a name and one label more.
LEMMA AppendedLabels ==
    ASSUME NEW base, NEW name, NEW own, own # NameLabel, NEW v
    PROVE  LET l == appendLabel(base, name, own, v)
           IN  /\ Has(l, NameLabel, name)
               /\ \A x : x \notin {own, NameLabel} => Same(l, base, x)
<1> DEFINE m == Set(base, NameLabel, name)
           l == Set(m, own, v)
<1>1. Has(m, NameLabel, name) /\ \A x : x # NameLabel => Same(m, base, x)
    BY SetFacts
<1>2. \A x : x # own => Same(l, m, x)
    BY SetFacts
<1>3. appendLabel(base, name, own, v) = l
    BY DEF appendLabel
<1> HIDE DEF m, l
<1>4. Has(l, NameLabel, name)
    BY <1>1, <1>2, HasSame
<1>5. \A x : x \notin {own, NameLabel} => Same(l, base, x)
    BY <1>1, <1>2, SameIsTransitive
<1> QED BY <1>3, <1>4, <1>5

LEMMA BucketDerived ==
    ASSUME NEW base, NEW name, IsSequence(name), NEW le, NEW v, NEW acc
    PROVE  Derived(Bucket(name, base, le, v, acc), base, name)
<1> DEFINE l == appendLabel(base, name \o <<"_", "bucket">>, <<"le">>, Bound(le))
           op == Bucket(name, base, le, v, acc)
<1>1. op.series = l /\ op.part = "bucket"
    BY DEF Bucket, Op
<1>2. <<"le">> # NameLabel
    BY DEF NameLabel
<1>3. Has(l, NameLabel, name \o <<"_", "bucket">>) /\ \A x : x \notin {<<"le">>, NameLabel} => Same(l, base, x)
    BY <1>2, AppendedLabels
<1>4. name \o <<"_", "bucket">> # << >> /\ IsSequence(<<"_", "bucket">>)
    BY LongerName, ShortSequence
<1>5. OwnLabel("bucket") = {<<"le">>}
    BY DEF OwnLabel
<1> HIDE DEF l
<1>6. NameLabel \in DOMAIN l /\ l[NameLabel] = name \o <<"_", "bucket">>
    BY <1>3, <1>4 DEF Has
<1> HIDE DEF op
<1>7. Derived(op, base, name)
    BY <1>1, <1>3, <1>4, <1>5, <1>6 DEF Derived
<1> QED BY <1>7 DEF op

LEMMA QuantileDerived ==
    ASSUME NEW base, NEW name, NEW i, NEW v, NEW acc
    PROVE  Derived(Op(appendLabel(base, name, <<"quantile">>, Bound(i)), "quantile", i, v, acc), base, name)
<1> DEFINE l == appendLabel(base, name, <<"quantile">>, Bound(i))
           op == Op(l, "quantile", i, v, acc)
<1>1. op.series = l /\ op.part = "quantile"
    BY DEF Op
<1>2. <<"quantile">> # NameLabel
    BY DEF NameLabel
<1>3. Has(l, NameLabel, name) /\ \A x : x \notin {<<"quantile">>, NameLabel} => Same(l, base, x)
    BY <1>2, AppendedLabels
<1>4. OwnLabel("quantile") = {<<"quantile">>}
    BY DEF OwnLabel
<1> HIDE DEF l, op
<1>5. Derived(op, base, name)
    BY <1>1, <1>3, <1>4 DEF Derived, Has
<1> QED BY <1>5 DEF op, l

DerivedOps(s, base, name) == IsSequence(s) /\ \A x \in Range(s) : Derived(x, base, name)

LEMMA DerivedConcat ==
    ASSUME NEW s, NEW u, NEW base, NEW name, DerivedOps(s, base, name), DerivedOps(u, base, name)
    PROVE  DerivedOps(s \o u, base, name)
<1> DEFINE S == Range(s) \cup Range(u)
<1>1. s \in Seq(S) /\ u \in Seq(S) /\ \A x \in S : Derived(x, base, name)
    BY RangeInSeq DEF DerivedOps
<1> HIDE DEF S
<1>2. s \o u \in Seq(S)
    BY <1>1
<1>3. IsSequence(s \o u) /\ Range(s \o u) \subseteq S
    BY <1>2, SeqHasRange
<1> QED BY <1>1, <1>3 DEF DerivedOps

LEMMA DerivedShort ==
    ASSUME NEW x, NEW y, NEW base, NEW name, Derived(x, base, name), Derived(y, base, name)
    PROVE  /\ DerivedOps(<<x>>, base, name) /\ DerivedOps(<<x, y>>, base, name)
           /\ DerivedOps(<< >>, base, name)
<1>1. <<x>> \in Seq({x}) /\ <<x, y>> \in Seq({x, y})
    OBVIOUS
<1>2. IsSequence(<<x>>) /\ Range(<<x>>) \subseteq {x}
    BY <1>1, SeqHasRange
<1>3. IsSequence(<<x, y>>) /\ Range(<<x, y>>) \subseteq {x, y}
    BY <1>1, SeqHasRange
<1>4. IsSequence(<< >>) /\ Range(<< >>) = {}
  <2>1. IsSequence(<< >>)
      BY GoodEmpty DEF GoodOps
  <2>2. Range(<< >>) = {}
      BY DEF Range
  <2> QED BY <2>1, <2>2
<1> QED BY <1>2, <1>3, <1>4 DEF DerivedOps

LEMMA DerivedList ==
    ASSUME NEW s, NEW n \in Nat, DOMAIN s = 1 .. n, s = [i \in 1 .. n |-> s[i]],
           NEW base, NEW name, \A i \in 1 .. n : Derived(s[i], base, name)
    PROVE  DerivedOps(s, base, name)
<1> DEFINE S == {s[i] : i \in 1 .. n}
<1>1. s \in Seq(S)
    OBVIOUS
<1>2. \A x \in S : Derived(x, base, name)
    OBVIOUS
<1> HIDE DEF S
<1>3. IsSequence(s) /\ Range(s) \subseteq S
    BY <1>1, SeqHasRange
<1> QED BY <1>2, <1>3 DEF DerivedOps

LEMMA CountAndSumDerived ==
    ASSUME NEW base, NEW name, IsSequence(name), NEW dp, NEW acc
    PROVE  DerivedOps(CountAndSum(name, base, dp, acc), base, name)
<1> DEFINE a == Part(name, base, "count", dp.count, acc)
           b == Part(name, base, "sum", dp.sum, acc)
<1>1. Derived(a, base, name) /\ Derived(b, base, name)
    BY PartDerived
<1>2. CountAndSum(name, base, dp, acc) = << a >> \o (IF dp.hasSum THEN << b >> ELSE << >>)
    BY DEF CountAndSum
<1> HIDE DEF a, b
<1>3. DerivedOps(<< a >>, base, name) /\ DerivedOps(<< b >>, base, name) /\ DerivedOps(<< >>, base, name)
    BY <1>1, DerivedShort
<1>4. DerivedOps(IF dp.hasSum THEN << b >> ELSE << >>, base, name)
    BY <1>3
<1> QED BY <1>2, <1>3, <1>4, DerivedConcat

LEMMA HistogramDerived ==
    ASSUME NEW base, NEW name, IsSequence(name), NEW dp, PointOK("histogram", dp), NEW acc
    PROVE  DerivedOps(appendHistogramDataPoint(name, base, dp, acc), base, name)
<1> DEFINE n == dp.bounds
           s == [i \in 1 .. n |-> Bucket(name, base, i, Cumulative(dp.counts, i), acc)]
           last == Bucket(name, base, Inf, Cumulative(dp.counts, n + 1), acc)
           rest == CountAndSum(name, base, dp, acc)
<1>1. n \in Nat
    BY DEF PointOK
<1>2. DerivedOps(s, base, name)
  <2>1. \A i \in 1 .. n : Derived(s[i], base, name)
      BY BucketDerived
  <2>2. DOMAIN s = 1 .. n /\ s = [i \in 1 .. n |-> s[i]]
      OBVIOUS
  <2> HIDE DEF s, n
  <2> QED BY <1>1, <2>1, <2>2, DerivedList
<1>3. DerivedOps(<< last >>, base, name)
    BY BucketDerived, DerivedShort
<1>4. DerivedOps(rest, base, name)
    BY CountAndSumDerived
<1>5. appendHistogramDataPoint(name, base, dp, acc) = (s \o << last >>) \o rest
    BY DEF appendHistogramDataPoint
<1> HIDE DEF s, last, rest
<1> QED BY <1>2, <1>3, <1>4, <1>5, DerivedConcat

LEMMA ExponentialDerived ==
    ASSUME NEW base, NEW name, IsSequence(name), NEW dp, PointOK("exponential", dp), NEW acc
    PROVE  DerivedOps(appendExponentialHistogramDataPoint(name, base, dp, acc), base, name)
<1> DEFINE n == Len(dp.counts)
           s == [i \in 1 .. n |->
                   Bucket(name, base, dp.offset + i, dp.zero + Cumulative(dp.counts, i), acc)]
           last == Bucket(name, base, Inf, dp.zero + Total(dp.counts), acc)
           rest == CountAndSum(name, base, dp, acc)
<1>1. n \in Nat
    BY DEF PointOK
<1>2. DerivedOps(s, base, name)
  <2>1. \A i \in 1 .. n : Derived(s[i], base, name)
      BY BucketDerived
  <2>2. DOMAIN s = 1 .. n /\ s = [i \in 1 .. n |-> s[i]]
      OBVIOUS
  <2> HIDE DEF s, n
  <2> QED BY <1>1, <2>1, <2>2, DerivedList
<1>3. DerivedOps(<< last >>, base, name)
    BY BucketDerived, DerivedShort
<1>4. DerivedOps(rest, base, name)
    BY CountAndSumDerived
<1>5. appendExponentialHistogramDataPoint(name, base, dp, acc) = (s \o << last >>) \o rest
    BY DEF appendExponentialHistogramDataPoint
<1> HIDE DEF s, last, rest
<1> QED BY <1>2, <1>3, <1>4, <1>5, DerivedConcat

LEMMA SummaryDerived ==
    ASSUME NEW base, NEW name, IsSequence(name), NEW dp, PointOK("summary", dp)
    PROVE  DerivedOps(translateSummary(name, base, dp), base, name)
<1> DEFINE n == Len(dp.quantiles)
           s == [i \in 1 .. n |->
                   Op(appendLabel(base, name, <<"quantile">>, Bound(i)), "quantile", i,
                      dp.quantiles[i], FALSE)]
           a == Part(name, base, "sum", dp.sum, FALSE)
           b == Part(name, base, "count", dp.count, FALSE)
<1>1. n \in Nat
    BY DEF PointOK
<1>2. DerivedOps(s, base, name)
  <2>1. \A i \in 1 .. n : Derived(s[i], base, name)
      BY QuantileDerived
  <2>2. DOMAIN s = 1 .. n /\ s = [i \in 1 .. n |-> s[i]]
      OBVIOUS
  <2> HIDE DEF s, n
  <2> QED BY <1>1, <2>1, <2>2, DerivedList
<1>3. Derived(a, base, name) /\ Derived(b, base, name)
    BY PartDerived
<1>4. translateSummary(name, base, dp) = s \o << a, b >>
    BY DEF translateSummary
<1> HIDE DEF s, a, b
<1>5. DerivedOps(<< a, b >>, base, name)
    BY <1>3, DerivedShort
<1> QED BY <1>2, <1>4, <1>5, DerivedConcat

LEMMA PointOpsDerived ==
    ASSUME NEW m, NEW dp, NEW name, IsSequence(name), NEW base, Has(base, NameLabel, name),
           PointOK(m.type, dp)
    PROVE  DerivedOps(PointOps(m, dp, name, base), base, name)
<1>1. CASE m.type = "gauge"
  <2>1. Derived(Op(base, "value", 0, dp.v, FALSE), base, name)
      BY ValueDerived
  <2>2. DerivedOps(<< Op(base, "value", 0, dp.v, FALSE) >>, base, name)
      BY <2>1, DerivedShort
  <2> QED BY <1>1, <2>2 DEF PointOps
<1>2. CASE m.type = "sum"
  <2>1. Derived(Op(base, "value", 0, dp.v, m.delta), base, name)
      BY ValueDerived
  <2>2. DerivedOps(<< Op(base, "value", 0, dp.v, m.delta) >>, base, name)
      BY <2>1, DerivedShort
  <2> QED BY <1>2, <2>2 DEF PointOps
<1>3. CASE m.type = "histogram"
    BY <1>3, HistogramDerived DEF PointOps
<1>4. CASE m.type = "exponential"
    BY <1>4, ExponentialDerived DEF PointOps
<1>5. CASE m.type = "summary"
    BY <1>5, SummaryDerived DEF PointOps
<1>6. CASE m.type \notin {"gauge", "sum", "histogram", "exponential", "summary"}
  <2>1. DerivedOps(<< >>, base, name)
      BY ValueDerived, DerivedShort
  <2> QED BY <1>6, <2>1 DEF PointOps
<1> QED BY <1>1, <1>2, <1>3, <1>4, <1>5, <1>6

-----------------------------------------------------------------------------
\* What is in a concatenation is in one of its parts.
LEMMA FlattenRange ==
    ASSUME NEW ss, NEW n \in Nat, DOMAIN ss = 1 .. n, ss = [i \in 1 .. n |-> ss[i]],
           \A i \in 1 .. n : IsSequence(ss[i]), NEW x \in Range(FlattenSeq(ss))
    PROVE  \E i \in 1 .. n : x \in Range(ss[i])
<1> DEFINE S == UNION {Range(ss[i]) : i \in 1 .. n}
<1>1. \A i \in 1 .. n : Range(ss[i]) \subseteq S
    OBVIOUS
<1> HIDE DEF S
<1>2. \A i \in 1 .. n : ss[i] \in Seq(S)
    BY <1>1, RangeInSeq
<1>3. ss \in Seq(Seq(S))
    BY <1>2
<1>4. FlattenSeq(ss) \in Seq(S)
    BY <1>3, FlattenSeqType
<1>5. x \in S
    BY <1>4, SeqHasRange
<1> QED BY <1>5 DEF S

\* A call of Append for one of the data points of a metric.
CallDerived(c, m, resource, scope, schema) ==
    LET name == SumName(MetricName(m), m)
    IN  /\ c.point \in DOMAIN m.points
        /\ Derived(c.op, buildLabels(name, m.points[c.point].attrs, resource, scope, schema), name)

LEMMA MetricDerived ==
    ASSUME NEW m, MetricOK(m), NEW resource, NEW scope, NEW schema,
           NEW c \in Range(translateMetric(m, resource, scope, schema))
    PROVE  CallDerived(c, m, resource, scope, schema)
<1> DEFINE name == SumName(MetricName(m), m)
           n == Len(m.points)
           base(i) == buildLabels(name, m.points[i].attrs, resource, scope, schema)
           ss == [i \in 1 .. n |-> DataPoint(m, i, name, base(i))]
<1>1. n \in Nat /\ DOMAIN m.points = 1 .. n
    BY IsSequenceFacts DEF MetricOK
<1>2. \A i \in 1 .. n : PointOK(m.type, m.points[i]) /\ AttrsOK(m.points[i].attrs)
    BY IsSequenceFacts DEF MetricOK
<1>3. \/ translateMetric(m, resource, scope, schema) = << >>
      \/ translateMetric(m, resource, scope, schema) = FlattenSeq(ss)
    BY <1>1 DEF translateMetric
<1>4. Range(<< >>) = {}
    BY DEF Range
<1>5. c \in Range(FlattenSeq(ss))
    BY <1>3, <1>4
<1>6. IsSequence(name)
    BY MetricNameFacts, PrefixOfConcat, ShortSequence
<1>7. \A i \in 1 .. n : Has(base(i), NameLabel, name)
    BY <1>2, BuiltLabels
<1> HIDE DEF name, n, base
<1>8. \A i \in 1 .. n : IsSequence(ss[i])
  <2> SUFFICES ASSUME NEW i \in 1 .. n PROVE IsSequence(DataPoint(m, i, name, base(i)))
      OBVIOUS
  <2> QED BY <1>1, <1>2, DataPointGood DEF GoodCalls
<1>9. DOMAIN ss = 1 .. n /\ ss = [i \in 1 .. n |-> ss[i]]
    OBVIOUS
<1>10. \A i \in 1 .. n : ss[i] = DataPoint(m, i, name, base(i))
    OBVIOUS
<1> HIDE DEF ss
<1>11. PICK i \in 1 .. n : c \in Range(DataPoint(m, i, name, base(i)))
    BY <1>1, <1>5, <1>8, <1>9, <1>10, FlattenRange
<1> DEFINE ops == PointOps(m, m.points[i], name, base(i))
<1>12. DataPoint(m, i, name, base(i)) = [j \in DOMAIN ops |-> [op |-> ops[j], point |-> i]]
    BY DEF DataPoint, PointOps
<1>13. DerivedOps(ops, base(i), name)
    BY <1>2, <1>6, <1>7, PointOpsDerived
<1> HIDE DEF ops
<1>14. PICK j \in DOMAIN ops : c = [op |-> ops[j], point |-> i]
    BY <1>11, <1>12 DEF Range
<1>15. Derived(ops[j], base(i), name)
    BY <1>13 DEF DerivedOps, Range
<1>16. c.point = i /\ c.op = ops[j]
    BY <1>14
<1> QED BY <1>1, <1>15, <1>16 DEF CallDerived, base, name

\* The place of a call in its request.
LEMMA CallOrigin ==
    ASSUME NEW req, RequestOK(req), NEW c \in Range(Calls(req))
    PROVE  LET p  == Places(req)[c.metric]
               rm == req[p[1]]
               sm == rm.scopes[p[2]]
           IN  /\ p[1] \in DOMAIN req
               /\ p[2] \in DOMAIN rm.scopes
               /\ p[3] \in DOMAIN sm.metrics
               /\ CallDerived(c, sm.metrics[p[3]], resourceLabels(rm.attrs), scopeLabels(sm),
                              SchemaAt(rm, p[2]))
<1> DEFINE P == Places(req)
           ss == [n \in 1 .. Len(P) |-> OfMetric(n, MetricAt(req, P[n]))]
<1>1. P \in Seq(PlacesIn(req)) /\ Len(P) \in Nat
    BY PlacesGood
<1>2. Calls(req) = FlattenSeq(ss)
    BY <1>1 DEF Calls
<1> HIDE DEF P
<1>3. ASSUME NEW n \in 1 .. Len(P)
      PROVE  /\ P[n][1] \in DOMAIN req
             /\ P[n][2] \in DOMAIN req[P[n][1]].scopes
             /\ P[n][3] \in DOMAIN req[P[n][1]].scopes[P[n][2]].metrics
  <2>1. P[n] \in PlacesIn(req)
      BY <1>1
  <2> QED BY <2>1 DEF PlacesIn
<1>4. ASSUME NEW n \in 1 .. Len(P)
      PROVE  MetricOK(req[P[n][1]].scopes[P[n][2]].metrics[P[n][3]])
  <2> DEFINE rm == req[P[n][1]]
             sm == rm.scopes[P[n][2]]
             m == sm.metrics[P[n][3]]
  <2>1. rm \in Range(req) /\ sm \in Range(rm.scopes) /\ m \in Range(sm.metrics)
      BY <1>3 DEF Range
  <2> HIDE DEF rm, sm, m
  <2>2. MetricOK(m)
      BY <2>1 DEF RequestOK
  <2> QED BY <2>2 DEF rm, sm, m
<1>5. ASSUME NEW n \in 1 .. Len(P)
      PROVE  /\ IsSequence(OfMetric(n, MetricAt(req, P[n])))
             /\ \A x \in Range(OfMetric(n, MetricAt(req, P[n]))) :
                   /\ x.metric = n
                   /\ CallDerived(x, req[P[n][1]].scopes[P[n][2]].metrics[P[n][3]],
                                  resourceLabels(req[P[n][1]].attrs),
                                  scopeLabels(req[P[n][1]].scopes[P[n][2]]),
                                  SchemaAt(req[P[n][1]], P[n][2]))
  <2> DEFINE rm == req[P[n][1]]
             sm == rm.scopes[P[n][2]]
             m == sm.metrics[P[n][3]]
             ops == MetricAt(req, P[n])
             s == [j \in DOMAIN ops |-> [op |-> ops[j].op, metric |-> n, point |-> ops[j].point]]
  <2>1. ops = translateMetric(m, resourceLabels(rm.attrs), scopeLabels(sm), SchemaAt(rm, P[n][2]))
      BY DEF MetricAt
  <2>2. MetricOK(m)
      BY <1>4
  <2>3. OfMetric(n, ops) = s
      BY DEF OfMetric
  <2> HIDE DEF m, sm, rm, ops
  <2>4. GoodCalls(ops)
      BY <2>1, <2>2, MetricGood
  <2>5. DOMAIN ops = 1 .. Len(ops) /\ Len(ops) \in Nat
      BY <2>4, IsSequenceFacts DEF GoodCalls
  <2>6. IsSequence(s)
    <3>1. s \in Seq({s[j] : j \in 1 .. Len(ops)})
        BY <2>5
    <3> HIDE DEF s
    <3> QED BY <3>1, SeqHasRange
  <2>7. ASSUME NEW x \in Range(s)
        PROVE  /\ x.metric = n
               /\ CallDerived(x, m, resourceLabels(rm.attrs), scopeLabels(sm), SchemaAt(rm, P[n][2]))
    <3>1. PICK j \in DOMAIN ops : x = [op |-> ops[j].op, metric |-> n, point |-> ops[j].point]
        BY DEF Range
    <3>2. ops[j] \in Range(ops)
        BY DEF Range
    <3>3. CallDerived(ops[j], m, resourceLabels(rm.attrs), scopeLabels(sm), SchemaAt(rm, P[n][2]))
        BY <2>1, <2>2, <3>2, MetricDerived
    <3>4. x.op = ops[j].op /\ x.point = ops[j].point /\ x.metric = n
        BY <3>1
    <3> QED BY <3>3, <3>4 DEF CallDerived
  <2> HIDE DEF s
  <2> QED BY <2>3, <2>6, <2>7 DEF m, sm, rm, ops
<1>6. DOMAIN ss = 1 .. Len(P) /\ ss = [n \in 1 .. Len(P) |-> ss[n]]
    OBVIOUS
<1>7. \A n \in 1 .. Len(P) : ss[n] = OfMetric(n, MetricAt(req, P[n]))
    OBVIOUS
<1> HIDE DEF ss
<1>8. \A n \in 1 .. Len(P) : IsSequence(ss[n])
    BY <1>5, <1>7
<1>9. PICK n \in 1 .. Len(P) : c \in Range(ss[n])
    BY <1>1, <1>2, <1>6, <1>8, FlattenRange
<1>10. c \in Range(OfMetric(n, MetricAt(req, P[n])))
    BY <1>7, <1>9
<1> QED BY <1>3, <1>5, <1>10 DEF P

-----------------------------------------------------------------------------
\* A scope has no schema label of its own.
LEMMA ScopeHasNoSchema == ASSUME NEW sm PROVE SchemaLabel \notin DOMAIN scopeLabels(sm)
<1> DEFINE a == <<"otel", "_", "scope", "_", "name">>
           b == <<"otel", "_", "scope", "_", "version">>
           l == Set(EmptyLabels, a, sm.name)
           m == Set(l, b, sm.version)
<1>1. SchemaLabel # a /\ SchemaLabel # b
    BY DEF SchemaLabel
<1>2. scopeLabels(sm) = m
    BY DEF scopeLabels
<1> HIDE DEF a, b
<1>3. Same(l, EmptyLabels, SchemaLabel)
    BY <1>1, SetFacts
<1> HIDE DEF l
<1>4. Same(m, l, SchemaLabel)
    BY <1>1, SetFacts
<1> HIDE DEF m
<1> QED BY <1>2, <1>3, <1>4, EmptyHasNone DEF Same

\* The label of a schema that is not empty comes before those of resource and
\* scope.
LEMMA SchemaWins ==
    ASSUME NEW resource, NEW scope, NEW url, url # << >>
    PROVE  Has(SetAll(SetAll(resource, scope), Set(EmptyLabels, SchemaLabel, url)), SchemaLabel, url)
<1> DEFINE s == Set(EmptyLabels, SchemaLabel, url)
<1>1. Has(s, SchemaLabel, url)
    BY SetFacts
<1> HIDE DEF s
<1>2. Has(SetAll(SetAll(resource, scope), s), SchemaLabel, url)
    BY <1>1 DEF Has, SetAll
<1> QED BY <1>2 DEF s

LEMMA OwnIsNoSchema == ASSUME NEW part PROVE SchemaLabel \notin OwnLabel(part) \cup {NameLabel}
<1>1. SchemaLabel # <<"le">> /\ SchemaLabel # <<"quantile">> /\ SchemaLabel # NameLabel
    BY DEF SchemaLabel, NameLabel
<1>2. OwnLabel(part) = {<<"le">>} \/ OwnLabel(part) = {<<"quantile">>} \/ OwnLabel(part) = {}
    BY DEF OwnLabel
<1> QED BY <1>1, <1>2

LEMMA CallIsAsSent ==
    ASSUME NEW rm, AttrsOK(rm.attrs), IsSequence(rm.scopes), NEW k \in 1 .. Len(rm.scopes),
           NEW m, MetricOK(m), NEW c,
           CallDerived(c, m, resourceLabels(rm.attrs), scopeLabels(rm.scopes[k]), SchemaAt(rm, k))
    PROVE  CallAsSent(c, rm, k, m)
<1> DEFINE lset == c.op.series
           own == OwnLabel(c.op.part)
           attrs == m.points[c.point].attrs
           name == SumName(MetricName(m), m)
           resource == resourceLabels(rm.attrs)
           scope == scopeLabels(rm.scopes[k])
           schema == SchemaAt(rm, k)
           base == buildLabels(name, attrs, resource, scope, schema)
<1>1. c.point \in DOMAIN m.points /\ Derived(c.op, base, name)
    BY DEF CallDerived
<1>2. AttrsOK(attrs)
    BY <1>1, IsSequenceFacts DEF MetricOK
<1>3. /\ \A i \in 1 .. Len(attrs) :
            \/ \E j \in i + 1 .. Len(attrs) : NameOf(attrs[j]) = NameOf(attrs[i])
            \/ Has(base, NameOf(attrs[i]), anyValueString(attrs[i].value))
      /\ Same(base, SetAll(SetAll(resource, scope), schema), SchemaLabel)
      /\ \A i \in 1 .. Len(attrs) : NameOf(attrs[i]) # NameLabel
    BY <1>2, BuiltLabels
<1>4. \A x : x \notin own \cup {NameLabel} => Same(lset, base, x)
    BY <1>1 DEF Derived
<1>5. /\ name # << >> => NameLabel \in DOMAIN lset
      /\ name # << >> =>
            \/ lset[NameLabel] = name
            \/ \E tail : IsSequence(tail) /\ lset[NameLabel] = name \o tail
    BY <1>1 DEF Derived
<1>6. DOMAIN attrs = 1 .. Len(attrs)
    BY <1>2, IsSequenceFacts DEF AttrsOK
<1> HIDE DEF base, lset, attrs, own
<1> DEFINE names == [i \in DOMAIN attrs |-> sanitizeLabelName(attrs[i].key)]
<1>7. AttrsAsSent(lset, own, attrs, names)
  <2>1. \A i \in 1 .. Len(attrs) : names[i] = NameOf(attrs[i])
      BY <1>6 DEF NameOf
  <2> HIDE DEF names
  <2> SUFFICES ASSUME NEW i \in 1 .. Len(attrs)
               PROVE  \/ names[i] \in own
                      \/ \E j \in i + 1 .. Len(attrs) : names[j] = names[i]
                      \/ Has(lset, names[i], anyValueString(attrs[i].value))
      BY <1>6 DEF AttrsAsSent
  <2>2. CASE \E j \in i + 1 .. Len(attrs) : NameOf(attrs[j]) = NameOf(attrs[i])
    <3>1. PICK j \in i + 1 .. Len(attrs) : NameOf(attrs[j]) = NameOf(attrs[i])
        BY <2>2
    <3>2. j \in 1 .. Len(attrs)
        OBVIOUS
    <3> QED BY <2>1, <3>1, <3>2
  <2>3. CASE Has(base, NameOf(attrs[i]), anyValueString(attrs[i].value))
    <3>1. NameOf(attrs[i]) \notin own => Same(lset, base, NameOf(attrs[i]))
        BY <1>3, <1>4
    <3> QED BY <2>1, <2>3, <3>1, HasSame
  <2> QED BY <1>3, <2>2, <2>3
<1> HIDE DEF names
<1>8. ASSUME MetricName(m) # << >>
      PROVE  NameLabel \in DOMAIN lset /\ IsPrefix(MetricName(m), lset[NameLabel])
  <2> DEFINE first == MetricName(m)
             total == <<"_", "total">>
  <2>1. IsSequence(first) /\ (name = first \/ name = first \o total)
      BY MetricNameFacts
  <2>2. IsSequence(total) /\ first \o total # << >>
      BY <2>1, ShortSequence, LongerName
  <2> HIDE DEF first, total, name
  <2>3. name # << >>
      BY <1>8, <2>1, <2>2 DEF first
  <2>4. IsPrefix(first, name)
      BY <2>1, <2>2, PrefixOfConcat
  <2>5. ASSUME NEW tail, IsSequence(tail) PROVE IsPrefix(first, name \o tail)
      BY <2>1, <2>2, <2>5, PrefixOfConcat, PrefixIsTransitive
  <2>6. IsPrefix(first, lset[NameLabel])
      BY <1>5, <2>3, <2>4, <2>5
  <2> QED BY <1>5, <2>3, <2>6 DEF first
<1>9. ASSUME SchemaURL PROVE SchemaAsSent(lset, rm, k)
  <2>0. k \in Nat /\ k # 0
      OBVIOUS
  <2> DEFINE below == SetAll(SetAll(resource, scope), schema)
  <2>1. Same(lset, below, SchemaLabel)
    <3>1. Same(lset, base, SchemaLabel)
        BY <1>4, OwnIsNoSchema DEF own
    <3> QED BY <1>3, <3>1, SameIsTransitive
  <2>2. CASE rm.scopes[k].schema # << >>
    <3>1. schema = Set(EmptyLabels, SchemaLabel, rm.scopes[k].schema)
        BY <1>9, <2>2, SchemaFacts
    <3>2. Has(below, SchemaLabel, rm.scopes[k].schema)
        BY <2>2, <3>1, SchemaWins
    <3>3. Has(lset, SchemaLabel, rm.scopes[k].schema)
        BY <2>1, <3>2, HasSame
    <3> QED BY <2>2, <3>3 DEF SchemaAsSent
  <2>3. CASE rm.scopes[k].schema = << >> /\ \E i \in 1 .. k - 1 : rm.scopes[i].schema # << >>
      BY <2>3 DEF SchemaAsSent
  <2>4. CASE rm.scopes[k].schema = << >> /\ \A i \in 1 .. k - 1 : rm.scopes[i].schema = << >>
    <3>1. schema = SchemaLabels(EmptyLabels, rm.schema)
      <4>1. \A i \in 1 .. k : i = k \/ i \in 1 .. k - 1
          BY <2>0
      <4>2. \A i \in 1 .. k : rm.scopes[i].schema = << >>
          BY <2>4, <4>1
      <4> QED BY <1>9, <4>2, SchemaFacts
    <3>2. CASE rm.schema # << >>
      <4>1. schema = Set(EmptyLabels, SchemaLabel, rm.schema)
          BY <1>9, <3>1, <3>2 DEF SchemaLabels
      <4>2. Has(below, SchemaLabel, rm.schema)
          BY <3>2, <4>1, SchemaWins
      <4>3. Has(lset, SchemaLabel, rm.schema)
          BY <2>1, <4>2, HasSame
      <4> QED BY <2>4, <4>3 DEF SchemaAsSent
    <3>3. CASE rm.schema = << >> /\ SchemaLabel \in Range(LabelMap)
        BY <2>4, <3>3 DEF SchemaAsSent
    <3>4. CASE rm.schema = << >> /\ SchemaLabel \notin Range(LabelMap)
      <4>1. schema = EmptyLabels
          BY <3>1, <3>4 DEF SchemaLabels
      <4>2. SchemaLabel \notin DOMAIN resource
          BY <3>4, ResourceHasNoSchema
      <4>3. SchemaLabel \notin DOMAIN scope
          BY ScopeHasNoSchema
      <4>4. SchemaLabel \notin DOMAIN schema
          BY <4>1, EmptyHasNone
      <4> HIDE DEF resource, scope, schema
      <4>5. SchemaLabel \notin DOMAIN below
          BY <4>2, <4>3, <4>4 DEF SetAll
      <4>6. Has(lset, SchemaLabel, rm.schema)
          BY <2>1, <3>4, <4>5 DEF Same, Has
      <4> QED BY <2>4, <4>6 DEF SchemaAsSent
    <3> QED BY <3>2, <3>3, <3>4
  <2> QED BY <2>2, <2>3, <2>4
<1> QED BY <1>7, <1>8, <1>9 DEF CallAsSent, lset, own, attrs, names

\* Every call of Append is as the client sent it.
LEMMA AllAsSent ==
    ASSUME NEW name \in DOMAIN Request \cup {NoBody}, NEW pos \in DOMAIN CallsOf[name]
    PROVE  AsSentAt[name][pos]
<1> DEFINE req == Body(name)
           calls == CallsOf[name]
           c == calls[pos]
           p == Places(req)[c.metric]
           rm == req[p[1]]
           sm == rm.scopes[p[2]]
           m == sm.metrics[p[3]]
<1>1. RequestOK(req) /\ calls = Calls(req)
    BY BodyOK DEF CallsOf
<1>2. c \in Range(Calls(req))
    BY <1>1 DEF Range
<1>3. /\ p[1] \in DOMAIN req /\ p[2] \in DOMAIN rm.scopes /\ p[3] \in DOMAIN sm.metrics
      /\ CallDerived(c, m, resourceLabels(rm.attrs), scopeLabels(sm), SchemaAt(rm, p[2]))
  <2> HIDE DEF req, calls, c
  <2> QED BY <1>1, <1>2, CallOrigin
<1>4. AsSentAt[name][pos] = CallAsSent(c, rm, p[2], m)
  <2>1. AsSentAt[name] = AsSent(req, calls) /\ pos \in DOMAIN calls
      BY DEF AsSentAt
  <2>2. AsSent(req, calls) =
           [i \in DOMAIN calls |->
              CallAsSent(calls[i], req[Places(req)[calls[i].metric][1]],
                         Places(req)[calls[i].metric][2],
                         req[Places(req)[calls[i].metric][1]]
                            .scopes[Places(req)[calls[i].metric][2]]
                            .metrics[Places(req)[calls[i].metric][3]])]
      BY DEF AsSent
  <2> HIDE DEF req, calls
  <2> QED BY <2>1, <2>2
<1> HIDE DEF req, calls
<1>5. rm \in Range(req) /\ sm \in Range(rm.scopes) /\ m \in Range(sm.metrics)
    BY <1>3 DEF Range
<1> HIDE DEF c, p
<1>6. AttrsOK(rm.attrs) /\ IsSequence(rm.scopes) /\ MetricOK(m)
  <2> HIDE DEF rm, sm, m
  <2> QED BY <1>1, <1>5 DEF RequestOK
<1>7. p[2] \in 1 .. Len(rm.scopes)
    BY <1>3, <1>6, IsSequenceFacts
<1>8. CallAsSent(c, rm, p[2], m)
  <2>1. CallDerived(c, m, resourceLabels(rm.attrs), scopeLabels(rm.scopes[p[2]]), SchemaAt(rm, p[2]))
      BY <1>3
  <2> HIDE DEF rm, m
  <2> QED BY <1>6, <1>7, <2>1, CallIsAsSent
<1> QED BY <1>4, <1>8

-----------------------------------------------------------------------------
(***************************************************************************)
(* The theorems.                                                           *)
(***************************************************************************)

LEMMA Invariance == Spec => []IngestInv
BY InitInv, NextInv, PTL DEF Spec

\* The handlers, the totals and the store have their types: Translate makes
\* whole calls of Append of every request that decodes, whatever its metrics,
\* and a total is never renewed at a time that is still to come.
THEOREM IngestTypeCorrect == Spec => []IngestTypeOK
<1>1. IngestInv => IngestTypeOK
    BY DEF IngestInv, Types
<1> QED BY <1>1, Invariance, PTL

\* The answers of the HTTP and gRPC handlers tell the truth, for any number of
\* handlers and requests, any requests, any failures of Append and Commit and
\* any restarts.
THEOREM AnswersTellTruth == Spec => []AnswersHonest
<1>1. IngestInv => AnswersHonest
  <2> SUFFICES ASSUME IngestInv, NEW r \in DOMAIN answered
               PROVE  LET got == Got(stored, r)
                          all == DOMAIN CallsOf[reqs[r]]
                      IN  CASE answered[r] = "ok"      -> got = all
                            [] answered[r] = "refused" -> got = {}
                            [] answered[r] = "partial" -> got \cap all # {} /\ all \ got # {}
                            [] answered[r] = "failed"  -> FromFront(got, all)
      BY DEF AnswersHonest, Got, FromFront
  <2> DEFINE got == Got(stored, r)
             all == DOMAIN CallsOf[reqs[r]]
  <2>1. Honest(answered[r], got, all)
      BY DEF IngestInv, FrontHonest
  <2>2. answered[r] \in Answer
      BY DEF IngestInv, Types, IngestTypeOK
  <2> HIDE DEF got, all
  <2>3. FromFront(got, all) /\ got # {} /\ got # all => got \cap all # {} /\ all \ got # {}
      BY DEF FromFront
  <2>4. CASE answered[r] = "partial"
      BY <2>1, <2>3, <2>4 DEF Honest, got, all
  <2>5. CASE answered[r] # "partial"
      BY <2>1, <2>2, <2>5 DEF Honest, Answer, got, all
  <2> QED BY <2>4, <2>5
<1> QED BY <1>1, Invariance, PTL

\* accumulateDelta returns the sum of the additions since the series was last
\* idle, for any number of series, handlers and additions, any clock and any
\* hash: the samples of a series whose hash no other series has are exact, as
\* long as nothing negative was added to it.
THEOREM TotalsAreExact == Spec => []TotalsExact
<1>1. IngestInv => TotalsExact
    BY DEF IngestInv
<1> QED BY <1>1, Invariance, PTL

-----------------------------------------------------------------------------
\* The store has samples only of requests that were answered.
StoredAnswered == \A s \in stored : s.req \in DOMAIN answered

LEMMA StoredAnsweredStep ==
    ASSUME IngestInv, StoredAnswered, [Next]_vars
    PROVE  StoredAnswered'
<1>1. ASSUME stored' = stored, \/ answered' = answered
                               \/ \E r, a : Reply(r, a)
      PROVE  StoredAnswered'
  <2>1. DOMAIN answered \subseteq DOMAIN answered'
      BY <1>1, ReplyFacts
  <2> QED BY <1>1, <2>1 DEF StoredAnswered
<1>2. ASSUME NEW h \in Handler, Commit(h) \/ CommitErr(h) PROVE StoredAnswered'
  <2> DEFINE n == Len(handler[h].pending)
             r == handler[h].req
  <2>1. Committing(h) /\ \E a : Reply(r, a)
      BY <1>2 DEF Commit, CommitErr
  <2>2. n \in Nat
      BY <2>1, CommittingFacts
  <2>3. \E k \in 0 .. n : Store(h, k)
      BY <1>2, <2>2 DEF Commit, CommitErr
  <2>4. PICK k \in 0 .. n : stored' = stored \cup {handler[h].pending[i] : i \in 1 .. k}
      BY <2>3 DEF Store
  <2>5. \A i \in 1 .. n : handler[h].pending[i].req = r
      BY <2>1, CommittingFacts DEF IngestInv, Serving, Serves
  <2>6. DOMAIN answered' = DOMAIN answered \cup {r}
      BY <2>1, ReplyFacts
  <2> HIDE DEF n, r
  <2>7. \A i \in 1 .. k : i \in 1 .. n
      BY <2>2
  <2> QED BY <2>4, <2>5, <2>6, <2>7 DEF StoredAnswered
<1>3. CASE UNCHANGED vars
    BY <1>1, <1>3 DEF vars
<1>4. CASE Restart \/ Tick
    BY <1>1, <1>4 DEF Restart, Tick
<1>5. ASSUME NEW h \in Handler, Serve(h) PROVE StoredAnswered'
  <2>1. CASE Refuse(h) \/ ReceiveEmpty(h) \/ Receive(h)
      BY <1>1, <2>1 DEF Refuse, ReceiveEmpty, Receive
  <2>2. CASE AppendSample(h)
      BY <1>1, <2>2 DEF AppendSample
  <2>3. CASE AppendErr(h)
    <3>1. stored' = stored /\ (answered' = answered \/ Reply(handler[h].req, "refused"))
        BY <2>3 DEF AppendErr
    <3> QED BY <1>1, <3>1
  <2> QED BY <1>2, <1>5, <2>1, <2>2, <2>3 DEF Serve
<1> QED BY <1>3, <1>4, <1>5 DEF Next

LEMMA StoredIsAnswered == Spec => []StoredAnswered
<1>1. Init => StoredAnswered
    BY DEF Init, StoredAnswered
<1>2. IngestInv /\ StoredAnswered /\ [Next]_vars => StoredAnswered'
    BY StoredAnsweredStep
<1> QED BY <1>1, <1>2, Invariance, PTL DEF Spec

\* What is stored comes from a call of Append.
LEMMA StoredHasOrigin ==
    ASSUME IngestInv, StoredAnswered, NEW s \in stored
    PROVE  /\ reqs[s.req] \in DOMAIN Request \cup {NoBody}
           /\ s.pos \in DOMAIN CallsOf[reqs[s.req]]
<1>1. s.req \in DOMAIN answered /\ s.req \in 1 .. Len(reqs)
    BY DEF IngestInv, Types, IngestTypeOK, StoredAnswered
<1>2. reqs[s.req] \in DOMAIN Request \cup {NoBody}
    BY <1>1 DEF IngestInv, Types
<1>3. s.pos \in Got(stored, s.req)
    BY DEF Got
<1>4. Honest(answered[s.req], Got(stored, s.req), DOMAIN CallsOf[reqs[s.req]])
    BY <1>1 DEF IngestInv, FrontHonest
<1>5. answered[s.req] \in Answer
    BY <1>1 DEF IngestInv, Types, IngestTypeOK
<1>6. Got(stored, s.req) \subseteq DOMAIN CallsOf[reqs[s.req]]
    BY <1>3, <1>4, <1>5 DEF Honest, FromFront, Answer
<1> QED BY <1>2, <1>3, <1>6

\* Translate stores samples under the labels they were sent with, for any
\* requests and any configuration of names and labels: buildLabels lets
\* attributes win over resource, scope and schema, sanitizing never makes one
\* of them the name or the schema label, and a suffix only adds to a name.
THEOREM SeriesAreAsSent == Spec => []SeriesAsSent
<1>1. IngestInv /\ StoredAnswered => SeriesAsSent
  <2> SUFFICES ASSUME IngestInv, StoredAnswered, NEW s \in stored
               PROVE  AsSentAt[reqs[s.req]][s.pos]
      BY DEF SeriesAsSent
  <2> QED BY StoredHasOrigin, AllAsSent
<1> QED BY <1>1, Invariance, StoredIsAnswered, PTL

=============================================================================
