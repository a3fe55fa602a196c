---------------------------- MODULE QueryProofs ----------------------------
(***************************************************************************)
(* Theorems about the in-memory store and the queries over it, Spec of     *)
(* module Query, for any label sets and hashes, appenders, retention and   *)
(* requests: what the store holds, what pruning takes, and what the answer *)
(* to a request has in it.                                                 *)
(***************************************************************************)
EXTENDS Query, NaturalsInduction, WellFoundedInduction, TLAPS

-----------------------------------------------------------------------------
(***************************************************************************)
(* Loops.  SelectAt, Search and appendSamples are functions defined by     *)
(* recursion over the rounds of a loop.  That each of them exists is shown *)
(* by the least number of rounds for which it would not.                   *)
(***************************************************************************)

\* A set of naturals has a least member.
LEMMA LeastNat ==
    ASSUME NEW T, T \subseteq Nat, T # {}
    PROVE  \E x \in T : \A y \in T : x =< y
<1>1. PICK x \in T : \A y \in T : ~ (<<y, x>> \in OpToRel(<, Nat))
    BY WFMin, NatLessThanWellFounded
<1>2. \A y \in T : ~ (y < x)
    BY <1>1 DEF OpToRel
<1> QED BY <1>2

\* Induction: a set of naturals with 0, and with n + 1 whenever n < N is in
\* it, has all naturals up to N.
LEMMA UpTo ==
    ASSUME NEW N \in Nat, NEW G, 0 \in G,
           \A n \in Nat : n < N /\ n \in G => n + 1 \in G
    PROVE  \A n \in 0 .. N : n \in G
<1> DEFINE T == {n \in 0 .. N : n \notin G}
<1>1. SUFFICES ASSUME T # {} PROVE FALSE
    OBVIOUS
<1>2. PICK x \in T : \A y \in T : x =< y
  <2>1. T \subseteq Nat
      OBVIOUS
  <2> HIDE DEF T
  <2> QED BY <1>1, <2>1, LeastNat
<1>3. x \in Nat /\ x # 0 /\ x =< N /\ x \notin G
    OBVIOUS
<1>4. x - 1 \in Nat /\ x - 1 < N /\ x - 1 \in 0 .. N /\ ~ (x =< x - 1) /\ x - 1 + 1 = x
    BY <1>3
<1>5. x - 1 \in G
    BY <1>2, <1>4
<1>6. x - 1 + 1 \in G
    BY <1>4, <1>5
<1> QED BY <1>3, <1>4, <1>6

\* The results of the first N rounds of SelectAt.
Kept(s, I, N, kept) ==
    kept = [n \in 0 .. N |->
              IF n = 0 THEN << >>
              ELSE IF n \in I THEN Append(kept[n - 1], s[n]) ELSE kept[n - 1]]

LEMMA KeptExists ==
    ASSUME NEW s, NEW I, NEW M \in Nat
    PROVE  \E kept : Kept(s, I, M, kept)
<1> DEFINE G == {N \in Nat : \E kept : Kept(s, I, N, kept)}
<1>1. 0 \in G
    <2>1. Kept(s, I, 0, [n \in 0 .. 0 |-> << >>])
        BY DEF Kept
    <2> QED BY <2>1
<1>2. ASSUME NEW N \in Nat, N \in G
      PROVE  N + 1 \in G
    <2>1. PICK kept : Kept(s, I, N, kept)
        BY <1>2
    <2> DEFINE last == IF N + 1 \in I THEN Append(kept[N], s[N + 1]) ELSE kept[N]
               next == [n \in 0 .. N + 1 |-> IF n = N + 1 THEN last ELSE kept[n]]
    <2>2. \A n \in 0 .. N + 1 : next[n] =
             IF n = 0 THEN << >>
             ELSE IF n \in I THEN Append(next[n - 1], s[n]) ELSE next[n - 1]
        <3> TAKE n \in 0 .. N + 1
        <3>1. CASE n = N + 1
            <4>1. next[n] = last /\ next[n - 1] = kept[N] /\ n # 0
                BY <3>1
            <4> QED BY <4>1, <3>1
        <3>2. CASE n # N + 1 /\ n # 0
            <4>1. n \in 0 .. N /\ n - 1 \in 0 .. N /\ n - 1 # N + 1
                BY <3>2
            <4>2. next[n] = kept[n] /\ next[n - 1] = kept[n - 1]
                BY <4>1, <3>2
            <4>3. kept[n] = IF n \in I THEN Append(kept[n - 1], s[n]) ELSE kept[n - 1]
                BY <2>1, <4>1, <3>2 DEF Kept
            <4> QED BY <4>2, <4>3, <3>2
        <3>3. CASE n = 0
            <4>1. next[0] = kept[0] /\ kept[0] = << >>
                BY <2>1 DEF Kept
            <4> QED BY <4>1, <3>3
        <3> QED BY <3>1, <3>2, <3>3
    <2>3. Kept(s, I, N + 1, next)
        BY <2>2 DEF Kept
    <2> HIDE DEF next
    <2> QED BY <2>3
<1> HIDE DEF G
<1>3. M \in G
    BY <1>1, <1>2, UpTo
<1> QED BY <1>3 DEF G

LEMMA SelectAtIsChosen ==
    ASSUME NEW s, NEW I
    PROVE  SelectAt(s, I) = (CHOOSE kept : Kept(s, I, Len(s), kept))[Len(s)]
BY DEF SelectAt, Kept

LEMMA SelectAtRounds ==
    ASSUME NEW s, NEW I, Len(s) \in Nat
    PROVE  \E kept : /\ SelectAt(s, I) = kept[Len(s)]
                     /\ kept[0] = << >>
                     /\ \A n \in 1 .. Len(s) : kept[n] =
                          IF n \in I THEN Append(kept[n - 1], s[n]) ELSE kept[n - 1]
<1> DEFINE kept == CHOOSE kept : Kept(s, I, Len(s), kept)
<1>1. Kept(s, I, Len(s), kept)
    BY KeptExists
<1>2. SelectAt(s, I) = kept[Len(s)]
    BY SelectAtIsChosen
<1> HIDE DEF kept
<1>3. kept[0] = << >>
    BY <1>1 DEF Kept
<1>4. ASSUME NEW n \in 1 .. Len(s)
      PROVE  kept[n] = IF n \in I THEN Append(kept[n - 1], s[n]) ELSE kept[n - 1]
    <2>1. n \in 0 .. Len(s) /\ n # 0
        OBVIOUS
    <2> QED BY <1>1, <2>1 DEF Kept
<1> QED BY <1>2, <1>3, <1>4
\* f leads from the places of r to the places of s, among the first n, that are
\* in I, in their order.
Places(r, s, I, n, f) ==
    /\ f \in [1 .. Len(r) -> I \cap (1 .. n)]
    /\ \A k \in 1 .. Len(r) : r[k] = s[f[k]]
    /\ \A j, k \in 1 .. Len(r) : j < k => f[j] < f[k]
    /\ \A i \in I \cap (1 .. n) : \E k \in 1 .. Len(r) : f[k] = i

LEMMA PlacesNext ==
    ASSUME NEW T, NEW s \in Seq(T), NEW I, NEW n \in Nat, n + 1 =< Len(s),
           NEW r \in Seq(T), NEW f, Places(r, s, I, n, f), n + 1 \in I
    PROVE  /\ Append(r, s[n + 1]) \in Seq(T)
           /\ \E g : Places(Append(r, s[n + 1]), s, I, n + 1, g)
<1> DEFINE q == Append(r, s[n + 1])
           g == [k \in 1 .. Len(r) + 1 |-> IF k = Len(r) + 1 THEN n + 1 ELSE f[k]]
<1>0. s[n + 1] \in T /\ Len(r) \in Nat
    OBVIOUS
<1>1. q \in Seq(T) /\ Len(q) = Len(r) + 1
    BY <1>0
<1>2. q[Len(r) + 1] = s[n + 1] /\ \A k \in 1 .. Len(r) : q[k] = r[k]
    BY <1>0
<1>3. \A k \in 1 .. Len(r) : f[k] \in I /\ f[k] \in 1 .. n
    BY DEF Places
<1>4. g[Len(r) + 1] = n + 1 /\ \A k \in 1 .. Len(r) : g[k] = f[k]
    BY <1>0
<1>4a. \A k \in 1 .. Len(r) + 1 : k = Len(r) + 1 \/ k \in 1 .. Len(r)
    BY <1>0
<1>5. g \in [1 .. Len(q) -> I \cap (1 .. n + 1)]
    <2>1. \A k \in 1 .. Len(r) + 1 : g[k] \in I /\ g[k] \in 1 .. n + 1
        BY <1>3, <1>4, <1>4a
    <2> QED BY <2>1, <1>1
<1> HIDE DEF g, q
<1>6. \A k \in 1 .. Len(q) : q[k] = s[g[k]]
    <2>1. \A k \in 1 .. Len(r) : r[k] = s[f[k]]
        BY DEF Places
    <2> QED BY <2>1, <1>1, <1>2, <1>4, <1>4a
<1>7. ASSUME NEW j \in 1 .. Len(q), NEW k \in 1 .. Len(q), j < k
      PROVE  g[j] < g[k]
    <2>1. j \in 1 .. Len(r)
        BY <1>0, <1>1, <1>7
    <2>2. CASE k = Len(r) + 1
        BY <2>1, <2>2, <1>3, <1>4
    <2>3. CASE k \in 1 .. Len(r)
        BY <2>1, <2>3, <1>4, <1>7 DEF Places
    <2> QED BY <2>2, <2>3, <1>1, <1>4a
<1>8. ASSUME NEW i \in I \cap (1 .. n + 1)
      PROVE  \E k \in 1 .. Len(q) : g[k] = i
    <2>1. CASE i = n + 1
        <3>1. Len(r) + 1 \in 1 .. Len(q)
            BY <1>0, <1>1
        <3> QED BY <2>1, <3>1, <1>4
    <2>2. CASE i # n + 1
        <3>1. i \in I \cap (1 .. n)
            BY <2>2
        <3>2. PICK k \in 1 .. Len(r) : f[k] = i
            BY <3>1 DEF Places
        <3>3. k \in 1 .. Len(q) /\ g[k] = i
            BY <3>2, <1>0, <1>1, <1>4
        <3> QED BY <3>3
    <2> QED BY <2>1, <2>2
<1>9. Places(q, s, I, n + 1, g)
    BY <1>5, <1>6, <1>7, <1>8 DEF Places
<1> QED BY <1>1, <1>9 DEF q

LEMMA PlacesSame ==
    ASSUME NEW T, NEW s \in Seq(T), NEW I, NEW n \in Nat,
           NEW r \in Seq(T), NEW f, Places(r, s, I, n, f), n + 1 \notin I
    PROVE  Places(r, s, I, n + 1, f)
<1>1. I \cap (1 .. n + 1) = I \cap (1 .. n)
    OBVIOUS
<1> QED BY <1>1 DEF Places

\* SelectAt takes the elements of s at the places of I, in their order.
LEMMA SelectAtPlaces ==
    ASSUME NEW T, NEW s \in Seq(T), NEW I
    PROVE  /\ SelectAt(s, I) \in Seq(T)
           /\ \E f : Places(SelectAt(s, I), s, I, Len(s), f)
<1>0. Len(s) \in Nat
    OBVIOUS
<1>1. PICK kept : /\ SelectAt(s, I) = kept[Len(s)]
                  /\ kept[0] = << >>
                  /\ \A n \in 1 .. Len(s) : kept[n] =
                          IF n \in I THEN Append(kept[n - 1], s[n]) ELSE kept[n - 1]
    BY <1>0, SelectAtRounds
<1> DEFINE G == {n \in Nat : kept[n] \in Seq(T) /\ \E f : Places(kept[n], s, I, n, f)}
<1>2. 0 \in G
    <2>1. << >> \in Seq(T) /\ Len(<< >>) = 0
        OBVIOUS
    <2>2. Places(<< >>, s, I, 0, [k \in 1 .. 0 |-> k])
        BY DEF Places
    <2> QED BY <1>1, <2>1, <2>2
<1>3. ASSUME NEW n \in Nat, n < Len(s), n \in G
      PROVE  n + 1 \in G
    <2>1. PICK f : kept[n] \in Seq(T) /\ Places(kept[n], s, I, n, f)
        BY <1>3
    <2>2. n + 1 \in 1 .. Len(s) /\ n + 1 - 1 = n /\ n + 1 =< Len(s)
        BY <1>3, <1>0
    <2>3. kept[n + 1] = IF n + 1 \in I THEN Append(kept[n], s[n + 1]) ELSE kept[n]
        BY <1>1, <2>2
    <2>4. CASE n + 1 \in I
        <3>1. /\ Append(kept[n], s[n + 1]) \in Seq(T)
              /\ \E g : Places(Append(kept[n], s[n + 1]), s, I, n + 1, g)
            BY <2>1, <2>2, <2>4, PlacesNext
        <3>2. kept[n + 1] = Append(kept[n], s[n + 1])
            BY <2>3, <2>4
        <3>3. kept[n + 1] \in Seq(T) /\ \E g : Places(kept[n + 1], s, I, n + 1, g)
            BY <3>1, <3>2
        <3> QED BY ONLY <3>3, n \in Nat
    <2>5. CASE n + 1 \notin I
        <3>1. Places(kept[n], s, I, n + 1, f)
            BY <2>1, <2>5, PlacesSame
        <3> QED BY <2>1, <2>3, <2>5, <3>1
    <2> QED BY <2>4, <2>5
<1> HIDE DEF G
<1>4. Len(s) \in 0 .. Len(s)
    BY <1>0
<1>5. Len(s) \in G
    BY <1>0, <1>2, <1>3, <1>4, UpTo
<1> QED BY <1>1, <1>5 DEF G

\* What SelectAt takes from a sequence with one more element.
LEMMA SelectAtAppend ==
    ASSUME NEW T, NEW s \in Seq(T), NEW x \in T, NEW I, NEW J,
           I \cap (1 .. Len(s)) = J \cap (1 .. Len(s))
    PROVE  SelectAt(Append(s, x), J) =
              IF Len(s) + 1 \in J THEN Append(SelectAt(s, I), x) ELSE SelectAt(s, I)
<1> DEFINE z == Append(s, x)
<1>0. Len(s) \in Nat /\ Len(z) = Len(s) + 1 /\ Len(z) \in Nat
    OBVIOUS
<1>0a. z[Len(s) + 1] = x /\ \A n \in 1 .. Len(s) : z[n] = s[n]
    OBVIOUS
<1> HIDE DEF z
<1>1. PICK kept : /\ SelectAt(s, I) = kept[Len(s)]
                  /\ kept[0] = << >>
                  /\ \A n \in 1 .. Len(s) : kept[n] =
                          IF n \in I THEN Append(kept[n - 1], s[n]) ELSE kept[n - 1]
    BY <1>0, SelectAtRounds
<1>2. PICK more : /\ SelectAt(z, J) = more[Len(z)]
                  /\ more[0] = << >>
                  /\ \A n \in 1 .. Len(z) : more[n] =
                          IF n \in J THEN Append(more[n - 1], z[n]) ELSE more[n - 1]
    BY <1>0, SelectAtRounds
<1> DEFINE G == {n \in Nat : kept[n] = more[n]}
<1>3. 0 \in G
    BY <1>1, <1>2
<1>4. ASSUME NEW n \in Nat, n < Len(s), n \in G
      PROVE  n + 1 \in G
    <2>1. n + 1 \in 1 .. Len(s) /\ n + 1 \in 1 .. Len(z) /\ n + 1 - 1 = n
        BY <1>4, <1>0
    <2>2. kept[n + 1] = IF n + 1 \in I THEN Append(kept[n], s[n + 1]) ELSE kept[n]
        BY <1>1, <2>1
    <2>3. more[n + 1] = IF n + 1 \in J THEN Append(more[n], z[n + 1]) ELSE more[n]
        BY <1>2, <2>1
    <2>4. n + 1 \in I <=> n + 1 \in J
        BY <2>1
    <2>5. kept[n] = more[n] /\ z[n + 1] = s[n + 1]
        BY <1>4, <1>0a, <2>1
    <2> QED BY <2>2, <2>3, <2>4, <2>5
<1> HIDE DEF G
<1>5. Len(s) \in G
    <2>1. Len(s) \in 0 .. Len(s)
        BY <1>0
    <2> QED BY <1>0, <1>3, <1>4, <2>1, UpTo
<1>6. kept[Len(s)] = more[Len(s)]
    BY <1>5 DEF G
<1>7. Len(z) \in 1 .. Len(z) /\ Len(z) - 1 = Len(s)
    BY <1>0
<1>8. more[Len(z)] = IF Len(z) \in J THEN Append(more[Len(s)], z[Len(z)]) ELSE more[Len(s)]
    BY <1>2, <1>7
<1> QED BY <1>0, <1>0a, <1>1, <1>2, <1>6, <1>8 DEF z
\* The places left after the first N rounds of Search.
Left(n, holds, N, left) ==
    left = [k \in 0 .. N |-> IF k = 0 THEN [lo |-> 0, hi |-> n] ELSE Bisect(left[k - 1], holds)]

LEMMA LeftExists ==
    ASSUME NEW n, NEW holds, NEW M \in Nat
    PROVE  \E left : Left(n, holds, M, left)
<1> DEFINE G == {N \in Nat : \E left : Left(n, holds, N, left)}
<1>1. 0 \in G
    <2>1. Left(n, holds, 0, [k \in 0 .. 0 |-> [lo |-> 0, hi |-> n]])
        BY DEF Left
    <2> QED BY <2>1
<1>2. ASSUME NEW N \in Nat, N \in G
      PROVE  N + 1 \in G
    <2>1. PICK left : Left(n, holds, N, left)
        BY <1>2
    <2> DEFINE next == [k \in 0 .. N + 1 |-> IF k = N + 1 THEN Bisect(left[N], holds) ELSE left[k]]
    <2>2. \A k \in 0 .. N + 1 :
             next[k] = IF k = 0 THEN [lo |-> 0, hi |-> n] ELSE Bisect(next[k - 1], holds)
        <3> TAKE k \in 0 .. N + 1
        <3>1. CASE k = N + 1
            <4>1. next[k] = Bisect(left[N], holds) /\ next[k - 1] = left[N] /\ k # 0
                BY <3>1
            <4> QED BY <4>1, <3>1
        <3>2. CASE k # N + 1 /\ k # 0
            <4>1. k \in 0 .. N /\ k - 1 \in 0 .. N /\ k - 1 # N + 1
                BY <3>2
            <4>2. next[k] = left[k] /\ next[k - 1] = left[k - 1]
                BY <4>1, <3>2
            <4>3. left[k] = Bisect(left[k - 1], holds)
                BY <2>1, <4>1, <3>2 DEF Left
            <4> QED BY <4>2, <4>3, <3>2
        <3>3. CASE k = 0
            <4>1. next[0] = left[0] /\ left[0] = [lo |-> 0, hi |-> n]
                BY <2>1 DEF Left
            <4> QED BY <4>1, <3>3
        <3> QED BY <3>1, <3>2, <3>3
    <2>3. Left(n, holds, N + 1, next)
        BY <2>2 DEF Left
    <2> HIDE DEF next
    <2> QED BY <2>3
<1> HIDE DEF G
<1>3. M \in G
    BY <1>1, <1>2, UpTo
<1> QED BY <1>3 DEF G

LEMMA SearchIsChosen ==
    ASSUME NEW n, NEW holds
    PROVE  Search(n, holds) = (CHOOSE left : Left(n, holds, n, left))[n].lo
BY DEF Search, Left

\* The condition fails just below the places left, and holds just above.
Narrowed(n, holds, k, left) ==
    /\ left \in [lo : Nat, hi : Nat]
    /\ left.lo =< left.hi /\ left.hi =< n
    /\ left.lo = 0 \/ left.lo - 1 \notin holds
    /\ left.hi = n \/ left.hi \in holds
    /\ left.hi - left.lo =< n - k

LEMMA BisectNarrows ==
    ASSUME NEW n \in Nat, NEW holds, NEW k \in Nat, k < n, NEW left, Narrowed(n, holds, k, left)
    PROVE  Narrowed(n, holds, k + 1, Bisect(left, holds))
<1> DEFINE h == (left.lo + left.hi) \div 2
<1>0. left.lo \in Nat /\ left.hi \in Nat /\ left \in [lo : Nat, hi : Nat]
    BY DEF Narrowed
<1>1. CASE left.lo >= left.hi
    <2>1. Bisect(left, holds) = left
        BY <1>1 DEF Bisect
    <2>2. left.hi - left.lo =< n - (k + 1)
        BY <1>0, <1>1
    <2> QED BY <2>1, <2>2 DEF Narrowed
<1>2. CASE left.lo < left.hi
    <2>1. h \in Nat /\ left.lo =< h /\ h < left.hi
        BY <1>0, <1>2
    <2> HIDE DEF h
    <2>2. CASE h \in holds
        <3>1. Bisect(left, holds) = [left EXCEPT !.hi = h]
            BY <1>0, <1>2, <2>2 DEF Bisect, h
        <3>2. /\ [left EXCEPT !.hi = h] \in [lo : Nat, hi : Nat]
              /\ [left EXCEPT !.hi = h].lo = left.lo
              /\ [left EXCEPT !.hi = h].hi = h
            BY <1>0, <2>1
        <3> QED BY <1>0, <2>1, <2>2, <3>1, <3>2 DEF Narrowed
    <2>3. CASE h \notin holds
        <3>1. Bisect(left, holds) = [left EXCEPT !.lo = h + 1]
            BY <1>0, <1>2, <2>3 DEF Bisect, h
        <3>2. /\ [left EXCEPT !.lo = h + 1] \in [lo : Nat, hi : Nat]
              /\ [left EXCEPT !.lo = h + 1].lo = h + 1
              /\ [left EXCEPT !.lo = h + 1].hi = left.hi
            BY <1>0, <2>1
        <3>3. h + 1 - 1 = h
            BY <2>1
        <3> QED BY <1>0, <2>1, <2>3, <3>1, <3>2, <3>3 DEF Narrowed
    <2> QED BY <2>2, <2>3
<1> QED BY <1>0, <1>1, <1>2

\* Bisection ends, and where it ends the condition turns true.
LEMMA SearchTurns ==
    ASSUME NEW n \in Nat, NEW holds
    PROVE  /\ Search(n, holds) \in 0 .. n
           /\ Search(n, holds) = 0 \/ Search(n, holds) - 1 \notin holds
           /\ Search(n, holds) = n \/ Search(n, holds) \in holds
<1> DEFINE left == CHOOSE left : Left(n, holds, n, left)
<1>1. Left(n, holds, n, left)
    BY LeftExists
<1>2. Search(n, holds) = left[n].lo
    BY SearchIsChosen
<1> HIDE DEF left
<1> DEFINE G == {k \in Nat : Narrowed(n, holds, k, left[k])}
<1>3. 0 \in G
    <2>1. left[0] = [lo |-> 0, hi |-> n]
        BY <1>1 DEF Left
    <2>2. left[0] \in [lo : Nat, hi : Nat] /\ left[0].lo = 0 /\ left[0].hi = n
        BY <2>1
    <2>3. Narrowed(n, holds, 0, left[0])
        BY <2>2 DEF Narrowed
    <2> QED BY <2>3
<1>4. ASSUME NEW k \in Nat, k < n, k \in G
      PROVE  k + 1 \in G
    <2>1. k + 1 \in 0 .. n /\ k + 1 # 0 /\ k + 1 - 1 = k
        BY <1>4
    <2>2. left[k + 1] = Bisect(left[k], holds)
        BY <1>1, <2>1 DEF Left
    <2>3. Narrowed(n, holds, k + 1, Bisect(left[k], holds))
        BY <1>4, BisectNarrows
    <2> QED BY <2>2, <2>3
<1> HIDE DEF G
<1>5. n \in G
    BY <1>3, <1>4, UpTo
<1>6. Narrowed(n, holds, n, left[n])
    BY <1>5 DEF G
<1>7. left[n].lo \in Nat /\ left[n].hi \in Nat /\ left[n].lo = left[n].hi
    BY <1>6 DEF Narrowed
<1> QED BY <1>2, <1>6, <1>7 DEF Narrowed

LEMMA SubSeqTail ==
    ASSUME NEW T, NEW s \in Seq(T), NEW r \in 0 .. Len(s)
    PROVE  /\ SubSeq(s, 1 + r, Len(s)) \in Seq(T)
           /\ Len(SubSeq(s, 1 + r, Len(s))) = Len(s) - r
           /\ \A k \in 1 .. Len(s) - r : SubSeq(s, 1 + r, Len(s))[k] = s[r + k]
<1>1. Len(s) \in Nat /\ r \in Nat /\ r =< Len(s)
    OBVIOUS
<1>2. Len(SubSeq(s, 1 + r, Len(s))) = Len(s) - r
    BY <1>1
<1>3. \A k \in 1 .. Len(s) - r : SubSeq(s, 1 + r, Len(s))[k] = s[r + k]
    BY <1>1
<1>4. SubSeq(s, 1 + r, Len(s)) \in Seq(T)
    BY <1>1
<1> QED BY <1>2, <1>3, <1>4

LEMMA ElementIn ==
    ASSUME NEW T, NEW s \in Seq(T), NEW i \in 1 .. Len(s)
    PROVE  s[i] \in T
OBVIOUS

Sample == [t : Int, v : Nat]

\* Of samples in the order of time, pruneSamples keeps those from the cutoff
\* on; of any, it keeps the last ones.
LEMMA PruneKeepsLast ==
    ASSUME NEW samples \in Seq(Sample), NEW cutoff \in Int
    PROVE  \E r \in 0 .. Len(samples) :
              /\ pruneSamples(samples, cutoff) \in Seq(Sample)
              /\ Len(pruneSamples(samples, cutoff)) = Len(samples) - r
              /\ \A k \in 1 .. Len(samples) - r : pruneSamples(samples, cutoff)[k] = samples[r + k]
              /\ r = 0 \/ samples[r].t < cutoff
              /\ r = Len(samples) \/ samples[r + 1].t >= cutoff
<1> DEFINE N == Len(samples)
           after == {i \in 0 .. N - 1 : samples[i + 1].t >= cutoff}
           r == Search(N, after)
<1>0. N \in Nat
    OBVIOUS
<1>1. pruneSamples(samples, cutoff) = SubSeq(samples, 1 + r, N)
    BY DEF pruneSamples
<1>2. r \in 0 .. N /\ (r = 0 \/ r - 1 \notin after) /\ (r = N \/ r \in after)
    <2> HIDE DEF after, N
    <2> QED BY <1>0, SearchTurns
<1> HIDE DEF r
<1>3. r = 0 \/ samples[r].t < cutoff
    <2>1. CASE r # 0
        <3>1. r - 1 \in 0 .. N - 1 /\ r - 1 + 1 = r /\ r \in 1 .. Len(samples)
            BY <1>0, <1>2, <2>1
        <3>2. ~ (samples[r].t >= cutoff)
            BY <1>2, <2>1, <3>1
        <3>3. samples[r] \in Sample
            BY <3>1, ElementIn
        <3> QED BY <3>2, <3>3 DEF Sample
    <2> QED BY <2>1
<1>4. r = N \/ samples[r + 1].t >= cutoff
    BY <1>2
<1> HIDE DEF after
<1>6. /\ SubSeq(samples, 1 + r, N) \in Seq(Sample)
      /\ Len(SubSeq(samples, 1 + r, N)) = N - r
      /\ \A k \in 1 .. N - r : SubSeq(samples, 1 + r, N)[k] = samples[r + k]
    BY <1>2, SubSeqTail
<1> QED BY <1>1, <1>2, <1>3, <1>4, <1>6

-----------------------------------------------------------------------------
(* The inductive invariant *)

Entry == [ref : Nat, lset : LabelSet, samples : Seq(Sample)]
Pending == [lset : LabelSet, t : Int, v : Nat]
Record == [lset : LabelSet, t : Int, v : Nat, batch : Nat]

\* What C has for a label set.
HistoryIn(C, l) == SelectAt(C, {i \in DOMAIN C : C[i].lset = l})

\* The samples of an entry are the last ones of h.
LastOf(e, h) ==
    /\ 0 < Len(e.samples) /\ Len(e.samples) =< Len(h)
    /\ \A k \in DOMAIN e.samples :
          LET s == h[Len(h) - Len(e.samples) + k]
          IN  e.samples[k] = [t |-> s.t, v |-> s.v]

\* The buckets S, with references up to n, hold the ends of the histories in C.
StoreTyped(S) == \A fp \in DOMAIN S : S[fp] \in Seq(Entry)

StoreFollows(S, C) ==
    \A fp \in DOMAIN S : \A i \in DOMAIN S[fp] :
       /\ HashOf[S[fp][i].lset] = fp
       /\ LastOf(S[fp][i], HistoryIn(C, S[fp][i].lset))

StoreApart(S, n) ==
    /\ \A fp \in DOMAIN S : \A i \in DOMAIN S[fp] : S[fp][i].ref =< n
    /\ \A fp, gp \in DOMAIN S : \A i \in DOMAIN S[fp], j \in DOMAIN S[gp] :
          \/ S[fp][i].lset = S[gp][j].lset
          \/ S[fp][i].ref = S[gp][j].ref
          => fp = gp /\ i = j

\* A sample with number v is in the buckets.
Holds(S, v) ==
    \E fp \in DOMAIN S : \E i \in DOMAIN S[fp] : \E k \in DOMAIN S[fp][i].samples :
       S[fp][i].samples[k].v = v

StoreInv(S, n, C) == StoreTyped(S) /\ n \in Nat /\ StoreFollows(S, C) /\ StoreApart(S, n)

\* Every sample has a number of its own, committed or not.
NumbersApart ==
    /\ \A i \in DOMAIN committed : committed[i].v =< appends /\ committed[i].batch < i
    /\ \A i, j \in DOMAIN committed : committed[i].v = committed[j].v => i = j
    /\ \A a \in Appender : \A i \in DOMAIN pending[a] :
          /\ pending[a][i].v =< appends
          /\ \A b \in Appender : \A j \in DOMAIN pending[b] :
                pending[a][i].v = pending[b][j].v => a = b /\ i = j
          /\ \A j \in DOMAIN committed : pending[a][i].v # committed[j].v

MemTypes ==
    /\ now \in Int
    /\ appends \in Nat
    /\ committed \in Seq(Record)
    /\ pending \in [Appender -> Seq(Pending)]

MemInv == MemTypes /\ StoreInv(series, nextRef, committed) /\ NumbersApart

CallShape(c) ==
    /\ c = [pc |-> c.pc, op |-> c.op, sels |-> c.sels, start |-> c.start, end |-> c.end,
            asked |-> c.asked, q |-> c.q, got |-> c.got, name |-> c.name, answer |-> c.answer]
    /\ c.start \in Int /\ c.end \in Int
    /\ c.asked \in [mint : Int, maxt : Int]
    /\ c.q \in [mint : Int, maxt : Int]
    /\ c.sels \in Seq(ToSet(c.sels))
    /\ \A i \in DOMAIN c.sels : c.sels[i].offset \in Int /\ c.sels[i].range \in Int
    /\ c.got \in Seq(ToSet(c.got))

\* The range read is not smaller than the range asked for.
CallCovers(c) ==
    /\ c.op = "query" =>
          /\ c.start =< c.asked.mint /\ c.asked.maxt =< c.end
          /\ \A i \in DOMAIN c.sels :
                LET h == Hints(c.sels[i], c.start, c.end)
                IN  c.q.mint =< h.start /\ h.end =< c.q.maxt
    /\ c.op = "series" =>
          \/ c.asked.maxt < c.asked.mint
          \/ c.q.mint =< c.asked.mint /\ c.asked.maxt =< c.q.maxt
    /\ c.op \notin {"query", "series"} => c.sels = << >>

Sent(c, s) == IF c.op = "query" THEN s.v ELSE s.lset

\* The readings so far.
ReadAll(c, m) ==
    /\ DOMAIN m = DOMAIN c.sels
    /\ \A i \in DOMAIN c.sels : \A s \in m[i] : Wants(c, i, s)
    /\ \A i \in DOMAIN c.sels : i =< Len(c.got) => \A s \in m[i] : Found(c, i, s)

ReadOnly(c) ==
    \A i \in DOMAIN c.sels : i =< Len(c.got) =>
       c.got[i] \subseteq
          {Sent(c, s) : s \in {s \in Committed : matchesAll(s.lset, c.sels[i].matchers)}}

ReadInOrder(c) ==
    c.op = "query" =>
       \A j \in DOMAIN c.sels : j =< Len(c.got) =>
          \A i \in 1 .. j - 1 : \A s \in Committed : s.v \in c.got[i] =>
             \A u \in Findable : u.batch =< s.batch /\ Wants(c, j, u) => u.v \in c.got[j]

CallInv ==
    /\ CallShape(call)
    /\ call.pc \in {"idle", "select"}
    /\ call.pc = "select" =>
          CallCovers(call) /\ ReadAll(call, must) /\ ReadOnly(call) /\ ReadInOrder(call)

QueryInv == MemInv /\ CallInv

-----------------------------------------------------------------------------
(* Writing *)

LEMMA HistoryTyped ==
    ASSUME NEW C \in Seq(Record), NEW l
    PROVE  /\ HistoryIn(C, l) \in Seq(Record)
           /\ \E f : Places(HistoryIn(C, l), C, {i \in DOMAIN C : C[i].lset = l}, Len(C), f)
BY SelectAtPlaces DEF HistoryIn

LEMMA HistoryAppend ==
    ASSUME NEW C \in Seq(Record), NEW c \in Record, NEW l
    PROVE  HistoryIn(Append(C, c), l) =
              IF c.lset = l THEN Append(HistoryIn(C, l), c) ELSE HistoryIn(C, l)
<1> DEFINE z == Append(C, c)
           I == {i \in DOMAIN C : C[i].lset = l}
           J == {i \in DOMAIN z : z[i].lset = l}
<1>1. Len(C) \in Nat /\ DOMAIN C = 1 .. Len(C) /\ DOMAIN z = 1 .. Len(C) + 1
    OBVIOUS
<1>2. z[Len(C) + 1] = c /\ \A i \in 1 .. Len(C) : z[i] = C[i]
    OBVIOUS
<1>3. I \cap (1 .. Len(C)) = J \cap (1 .. Len(C))
    <2> HIDE DEF z
    <2> QED BY <1>1, <1>2
<1>4. Len(C) + 1 \in J <=> c.lset = l
    <2> HIDE DEF z
    <2> QED BY <1>1, <1>2
<1> HIDE DEF I, J
<1>5. SelectAt(Append(C, c), J) =
              IF Len(C) + 1 \in J THEN Append(SelectAt(C, I), c) ELSE SelectAt(C, I)
    BY <1>3, SelectAtAppend
<1> QED BY <1>4, <1>5 DEF HistoryIn, I, J

LEMMA Shift ==
    ASSUME NEW a \in Nat, NEW b \in Nat, NEW k \in 1 .. b + 1
    PROVE  k = b + 1 => a - b + k = a + 1
OBVIOUS

LEMMA LastOfAppend ==
    ASSUME NEW e \in Entry, NEW h \in Seq(Record), LastOf(e, h), NEW c \in Record,
           NEW s, s = [t |-> c.t, v |-> c.v]
    PROVE  /\ [e EXCEPT !.samples = Append(e.samples, s)] \in Entry
           /\ LastOf([e EXCEPT !.samples = Append(e.samples, s)], Append(h, c))
<1> DEFINE d == [e EXCEPT !.samples = Append(e.samples, s)]
<1>0. s \in Sample
    BY DEF Record, Sample
<1>1. e.samples \in Seq(Sample) /\ Len(e.samples) \in Nat /\ Len(h) \in Nat
    BY DEF Entry
<1>1a. Append(e.samples, s) \in Seq(Sample)
    BY <1>0, <1>1
<1>2. d \in Entry /\ d.samples = Append(e.samples, s)
    BY <1>1a DEF Entry
<1> HIDE DEF d
<1>3. /\ Len(d.samples) = Len(e.samples) + 1
      /\ DOMAIN d.samples = 1 .. Len(e.samples) + 1
      /\ d.samples[Len(e.samples) + 1] = s
      /\ \A k \in 1 .. Len(e.samples) : d.samples[k] = e.samples[k]
    BY <1>0, <1>1, <1>2
<1> DEFINE g == Append(h, c)
<1>4. Len(g) = Len(h) + 1 /\ g[Len(h) + 1] = c /\ \A k \in 1 .. Len(h) : g[k] = h[k]
    OBVIOUS
<1> HIDE DEF g
<1>5. 0 < Len(d.samples) /\ Len(d.samples) =< Len(g)
    BY <1>1, <1>3, <1>4 DEF LastOf
<1>5a. Len(g) - Len(d.samples) = Len(h) - Len(e.samples)
    BY <1>1, <1>3, <1>4
<1>6. ASSUME NEW k \in DOMAIN d.samples
      PROVE  d.samples[k] = [t |-> g[Len(g) - Len(d.samples) + k].t,
                             v |-> g[Len(g) - Len(d.samples) + k].v]
    <2>0. k \in 1 .. Len(e.samples) + 1
        BY <1>3
    <2>1. Len(g) - Len(d.samples) + k = Len(h) - Len(e.samples) + k
        BY <1>5a
    <2>2. CASE k = Len(e.samples) + 1
        <3>1. Len(h) - Len(e.samples) + k = Len(h) + 1
            BY <1>1, <2>0, <2>2, Shift
        <3> QED BY <1>3, <1>4, <2>1, <2>2, <3>1
    <2>3. CASE k # Len(e.samples) + 1
        <3>1. k \in 1 .. Len(e.samples) /\ k \in DOMAIN e.samples
            BY <1>1, <2>0, <2>3
        <3>2. Len(h) - Len(e.samples) + k \in 1 .. Len(h)
            BY <1>1, <3>1 DEF LastOf
        <3>3. e.samples[k] = [t |-> h[Len(h) - Len(e.samples) + k].t,
                              v |-> h[Len(h) - Len(e.samples) + k].v]
            BY <3>1 DEF LastOf
        <3> QED BY <1>3, <1>4, <2>1, <3>1, <3>2, <3>3
    <2> QED BY <2>2, <2>3
<1>7. LastOf(d, g)
    BY <1>5, <1>6 DEF LastOf
<1> QED BY <1>2, <1>7 DEF d, g

LEMMA LastOfNew ==
    ASSUME NEW e \in Entry, NEW h \in Seq(Record), NEW c \in Record,
           e.samples = <<[t |-> c.t, v |-> c.v]>>
    PROVE  LastOf(e, Append(h, c))
<1>1. Len(h) \in Nat /\ Len(Append(h, c)) = Len(h) + 1 /\ Append(h, c)[Len(h) + 1] = c
    OBVIOUS
<1>2. Len(e.samples) = 1 /\ DOMAIN e.samples = {1} /\ e.samples[1] = [t |-> c.t, v |-> c.v]
    OBVIOUS
<1>3. Len(h) + 1 - 1 + 1 = Len(h) + 1
    BY <1>1
<1> QED BY <1>1, <1>2, <1>3 DEF LastOf
\* U is S after a sample p of a label set that S does not have: a series is
\* added.
Bucket(S, fp) == IF fp \in DOMAIN S THEN S[fp] ELSE << >>

NewEntry(n, p) == [ref |-> n + 1, lset |-> p.lset, samples |-> <<[t |-> p.t, v |-> p.v]>>]

SeriesAdded(S, n, p, U) ==
    /\ \A i \in DOMAIN Bucket(S, HashOf[p.lset]) : Bucket(S, HashOf[p.lset])[i].lset # p.lset
    /\ U = [f \in DOMAIN S \cup {HashOf[p.lset]} |->
              IF f = HashOf[p.lset] THEN Append(Bucket(S, f), NewEntry(n, p)) ELSE S[f]]

LEMMA AddSeries ==
    ASSUME NEW S, NEW n, NEW C \in Seq(Record), StoreInv(S, n, C), NEW c \in Record,
           NEW p, c.lset = p.lset, c.t = p.t, c.v = p.v, NEW U, SeriesAdded(S, n, p, U)
    PROVE  StoreInv(U, n + 1, Append(C, c)) /\ \A v : Holds(U, v) => Holds(S, v) \/ v = c.v
<1> DEFINE fp == HashOf[p.lset]
           bucket == Bucket(S, fp)
           e == NewEntry(n, p)
<1>a. fp = HashOf[c.lset] /\ bucket = IF fp \in DOMAIN S THEN S[fp] ELSE << >>
    BY DEF Bucket
<1>b. \A i \in DOMAIN bucket : bucket[i].lset # c.lset
    BY DEF SeriesAdded
<1>c. e = [ref |-> n + 1, lset |-> c.lset, samples |-> <<[t |-> c.t, v |-> c.v]>>]
    BY DEF NewEntry
<1>d. U = [f \in DOMAIN S \cup {fp} |-> IF f = fp THEN Append(bucket, e) ELSE S[f]]
    BY DEF SeriesAdded
<1> HIDE DEF fp, bucket, e
<1> USE <1>a, <1>b, <1>c, <1>d
<1>0. n \in Nat /\ n + 1 \in Nat
    BY DEF StoreInv
<1>1. e \in Entry /\ e.ref = n + 1 /\ e.lset = c.lset /\ e.samples = <<[t |-> c.t, v |-> c.v]>>
    <2>1. [t |-> c.t, v |-> c.v] \in Sample /\ c.lset \in LabelSet
        BY DEF Record, Sample
    <2>2. <<[t |-> c.t, v |-> c.v]>> \in Seq(Sample)
        BY <2>1
    <2> QED BY <1>0, <2>1, <2>2 DEF Entry
<1>2. bucket \in Seq(Entry)
    BY DEF StoreInv, StoreTyped
<1>3. /\ Append(bucket, e) \in Seq(Entry)
      /\ DOMAIN Append(bucket, e) = 1 .. Len(bucket) + 1
      /\ Append(bucket, e)[Len(bucket) + 1] = e
      /\ Len(bucket) \in Nat
      /\ DOMAIN bucket = 1 .. Len(bucket)
      /\ \A i \in DOMAIN bucket : Append(bucket, e)[i] = bucket[i]
    BY <1>1, <1>2
<1>4. DOMAIN U = DOMAIN S \cup {fp} /\ U[fp] = Append(bucket, e)
    OBVIOUS
<1>5. \A f \in DOMAIN U : f # fp => f \in DOMAIN S /\ U[f] = S[f]
    OBVIOUS
\* A place of U is the new one or one of S.
<1> DEFINE IsNew(f, i) == f = fp /\ i = Len(bucket) + 1 /\ U[f][i] = e
           IsOld(f, i) == f \in DOMAIN S /\ i \in DOMAIN S[f]
                          /\ U[f][i] = S[f][i] /\ U[f][i].lset # c.lset
<1>6. ASSUME NEW f \in DOMAIN U, NEW i \in DOMAIN U[f]
      PROVE  IsNew(f, i) \/ IsOld(f, i)
    <2>1. CASE f # fp
        <3>1. f \in DOMAIN S /\ U[f] = S[f]
            BY <1>5, <2>1
        <3>2. HashOf[S[f][i].lset] = f
            BY <3>1 DEF StoreInv, StoreFollows
        <3> QED BY <2>1, <3>1, <3>2
    <2>2. CASE f = fp /\ i = Len(bucket) + 1
        BY <2>2, <1>3, <1>4
    <2>3. CASE f = fp /\ i # Len(bucket) + 1
        <3>1. i \in DOMAIN bucket
            BY <2>3, <1>3, <1>4
        <3>2. fp \in DOMAIN S /\ bucket = S[fp]
            BY <3>1
        <3> QED BY <2>3, <3>1, <3>2, <1>3, <1>4
    <2> QED BY <2>1, <2>2, <2>3
<1>7. StoreTyped(U)
    <2> SUFFICES ASSUME NEW f \in DOMAIN U PROVE U[f] \in Seq(Entry)
        BY DEF StoreTyped
    <2>1. CASE f = fp
        BY <2>1, <1>3, <1>4
    <2>2. CASE f # fp
        BY <2>2, <1>5 DEF StoreInv, StoreTyped
    <2> QED BY <2>1, <2>2
<1>8. StoreFollows(U, Append(C, c))
    <2> SUFFICES ASSUME NEW f \in DOMAIN U, NEW i \in DOMAIN U[f]
                 PROVE  /\ HashOf[U[f][i].lset] = f
                        /\ LastOf(U[f][i], HistoryIn(Append(C, c), U[f][i].lset))
        BY DEF StoreFollows
    <2>0. IsNew(f, i) \/ IsOld(f, i)
        BY ONLY <1>6, f \in DOMAIN U, i \in DOMAIN U[f]
    <2>1. CASE IsNew(f, i)
        <3>1. HistoryIn(Append(C, c), c.lset) = Append(HistoryIn(C, c.lset), c)
            BY HistoryAppend
        <3>2. HistoryIn(C, c.lset) \in Seq(Record)
            BY HistoryTyped
        <3>3. LastOf(e, Append(HistoryIn(C, c.lset), c))
            BY <1>1, <3>2, LastOfNew
        <3> QED BY <2>1, <1>1, <3>1, <3>3
    <2>2. CASE IsOld(f, i)
        <3>1. HistoryIn(Append(C, c), S[f][i].lset) = HistoryIn(C, S[f][i].lset)
            BY <2>2, HistoryAppend
        <3>2. HashOf[S[f][i].lset] = f /\ LastOf(S[f][i], HistoryIn(C, S[f][i].lset))
            BY <2>2 DEF StoreInv, StoreFollows
        <3> QED BY <2>2, <3>1, <3>2
    <2> QED BY ONLY <2>0, <2>1, <2>2
<1>8a. \A f \in DOMAIN S : \A i \in DOMAIN S[f] : S[f][i].ref \in Nat /\ S[f][i].ref =< n
    <2> TAKE f \in DOMAIN S
    <2> TAKE i \in DOMAIN S[f]
    <2>1. S[f] \in Seq(Entry)
        BY DEF StoreInv, StoreTyped
    <2>2. S[f][i] \in Entry
        BY <2>1
    <2>3. S[f][i].ref =< n
        BY DEF StoreInv, StoreApart
    <2> QED BY <2>2, <2>3 DEF Entry
<1>9. StoreApart(U, n + 1)
    <2>1. ASSUME NEW f \in DOMAIN U, NEW i \in DOMAIN U[f]
          PROVE  U[f][i].ref =< n + 1
        <3>1. CASE U[f][i] = e
            BY <3>1, <1>0, <1>1
        <3>2. CASE f \in DOMAIN S /\ i \in DOMAIN S[f] /\ U[f][i] = S[f][i]
            BY <3>2, <1>0, <1>8a
        <3> QED BY <1>6, <3>1, <3>2
    <2>2. ASSUME NEW f \in DOMAIN U, NEW g \in DOMAIN U,
                 NEW i \in DOMAIN U[f], NEW j \in DOMAIN U[g],
                 U[f][i].lset = U[g][j].lset \/ U[f][i].ref = U[g][j].ref
          PROVE  f = g /\ i = j
        <3>1. IsNew(f, i) \/ IsOld(f, i)
            BY ONLY <1>6, f \in DOMAIN U, i \in DOMAIN U[f]
        <3>2. IsNew(g, j) \/ IsOld(g, j)
            BY ONLY <1>6, g \in DOMAIN U, j \in DOMAIN U[g]
        <3>3. CASE IsNew(f, i) /\ IsNew(g, j)
            BY <3>3
        <3>4. CASE IsOld(f, i) /\ IsOld(g, j)
            BY <3>4, <2>2 DEF StoreInv, StoreApart
        <3>5. CASE IsNew(f, i) /\ IsOld(g, j)
            <4>1. U[f][i].lset # U[g][j].lset /\ U[f][i].ref = n + 1
                BY ONLY <3>5, <1>1
            <4>2. U[g][j].ref \in Nat /\ U[g][j].ref =< n
                BY ONLY <3>5, <1>8a
            <4>3. U[f][i].ref # U[g][j].ref
                BY ONLY <4>1, <4>2, <1>0
            <4> QED BY ONLY <4>1, <4>3, <2>2
        <3>6. CASE IsOld(f, i) /\ IsNew(g, j)
            <4>1. U[f][i].lset # U[g][j].lset /\ U[g][j].ref = n + 1
                BY ONLY <3>6, <1>1
            <4>2. U[f][i].ref \in Nat /\ U[f][i].ref =< n
                BY ONLY <3>6, <1>8a
            <4>3. U[f][i].ref # U[g][j].ref
                BY ONLY <4>1, <4>2, <1>0
            <4> QED BY ONLY <4>1, <4>3, <2>2
        <3> QED BY ONLY <3>1, <3>2, <3>3, <3>4, <3>5, <3>6
    <2> QED BY <2>1, <2>2 DEF StoreApart
<1>10. ASSUME NEW v, Holds(U, v)
       PROVE  Holds(S, v) \/ v = c.v
    <2>1. PICK f \in DOMAIN U : \E i \in DOMAIN U[f] : \E k \in DOMAIN U[f][i].samples :
                                   U[f][i].samples[k].v = v
        BY <1>10 DEF Holds
    <2>2. PICK i \in DOMAIN U[f] : \E k \in DOMAIN U[f][i].samples : U[f][i].samples[k].v = v
        BY <2>1
    <2>3. CASE U[f][i] = e
        BY <2>2, <2>3, <1>1
    <2>4. CASE f \in DOMAIN S /\ i \in DOMAIN S[f] /\ U[f][i] = S[f][i]
        BY <2>2, <2>4 DEF Holds
    <2> QED BY <1>6, <2>3, <2>4
<1> QED BY <1>0, <1>7, <1>8, <1>9, <1>10 DEF StoreInv
\* U is S after a sample p of a label set that S has: it goes to its series.
SeriesGrown(S, p, U) ==
    /\ HashOf[p.lset] \in DOMAIN S
    /\ U = [f \in DOMAIN S \cup {HashOf[p.lset]} |->
              IF f = HashOf[p.lset]
              THEN [i \in DOMAIN S[f] |->
                      IF S[f][i].lset = p.lset
                      THEN [S[f][i] EXCEPT !.samples = Append(S[f][i].samples, [t |-> p.t, v |-> p.v])]
                      ELSE S[f][i]]
              ELSE S[f]]

LEMMA AddToSeries ==
    ASSUME NEW S, NEW n, NEW C \in Seq(Record), StoreInv(S, n, C), NEW c \in Record,
           NEW p, c.lset = p.lset, c.t = p.t, c.v = p.v, NEW U, SeriesGrown(S, p, U)
    PROVE  StoreInv(U, n, Append(C, c)) /\ \A v : Holds(U, v) => Holds(S, v) \/ v = c.v
<1> DEFINE fp == HashOf[p.lset]
           s == [t |-> p.t, v |-> p.v]
<1>a. fp = HashOf[c.lset] /\ fp \in DOMAIN S
    BY DEF SeriesGrown
<1>b. s = [t |-> c.t, v |-> c.v]
    OBVIOUS
<1>c. U = [f \in DOMAIN S \cup {fp} |->
             IF f = fp
             THEN [i \in DOMAIN S[f] |->
                     IF S[f][i].lset = p.lset
                     THEN [S[f][i] EXCEPT !.samples = Append(S[f][i].samples, s)]
                     ELSE S[f][i]]
             ELSE S[f]]
    BY DEF SeriesGrown
<1> HIDE DEF fp, s
<1> USE <1>a, <1>b, <1>c
<1> DEFINE more(e) == [e EXCEPT !.samples = Append(e.samples, s)]
<1>1. \A f \in DOMAIN S : S[f] \in Seq(Entry)
    BY DEF StoreInv, StoreTyped
<1>2. \A f \in DOMAIN S : \A i \in DOMAIN S[f] : S[f][i] \in Entry
    BY <1>1
<1>3. \A f \in DOMAIN S : \A i \in DOMAIN S[f] :
          HashOf[S[f][i].lset] = f /\ LastOf(S[f][i], HistoryIn(C, S[f][i].lset))
    BY DEF StoreInv, StoreFollows
<1>4. DOMAIN U = DOMAIN S
    OBVIOUS
<1>5. \A f \in DOMAIN S : DOMAIN U[f] = DOMAIN S[f]
    OBVIOUS
<1>6. ASSUME NEW f \in DOMAIN S, NEW i \in DOMAIN S[f]
      PROVE  U[f][i] = IF S[f][i].lset = c.lset THEN more(S[f][i]) ELSE S[f][i]
    <2>1. CASE f = fp
        BY <2>1
    <2>2. CASE f # fp
        <3>1. S[f][i].lset # c.lset
            BY <2>2, <1>3
        <3> QED BY <2>2, <3>1
    <2> QED BY <2>1, <2>2
<1>7. ASSUME NEW f \in DOMAIN S, NEW i \in DOMAIN S[f], S[f][i].lset = c.lset
      PROVE  /\ more(S[f][i]) \in Entry
             /\ LastOf(more(S[f][i]), HistoryIn(Append(C, c), c.lset))
    <2>1. HistoryIn(Append(C, c), c.lset) = Append(HistoryIn(C, c.lset), c)
        BY HistoryAppend
    <2>2. HistoryIn(C, c.lset) \in Seq(Record)
        BY HistoryTyped
    <2>3. S[f][i] \in Entry /\ LastOf(S[f][i], HistoryIn(C, c.lset))
        BY <1>2, <1>3, <1>7
    <2>4. /\ more(S[f][i]) \in Entry
          /\ LastOf(more(S[f][i]), Append(HistoryIn(C, c.lset), c))
        BY ONLY <2>2, <2>3, LastOfAppend, <1>b, c \in Record
    <2> QED BY ONLY <2>1, <2>4
<1>8. ASSUME NEW f \in DOMAIN S, NEW i \in DOMAIN S[f]
      PROVE  /\ U[f][i] \in Entry
             /\ U[f][i].lset = S[f][i].lset
             /\ U[f][i].ref = S[f][i].ref
             /\ LastOf(U[f][i], HistoryIn(Append(C, c), U[f][i].lset))
             /\ \A k \in DOMAIN U[f][i].samples :
                   \/ k \in DOMAIN S[f][i].samples /\ U[f][i].samples[k] = S[f][i].samples[k]
                   \/ U[f][i].samples[k] = s
    <2>1. CASE S[f][i].lset = c.lset
        <3>1. U[f][i] = more(S[f][i])
            BY ONLY <1>6, <2>1, f \in DOMAIN S, i \in DOMAIN S[f]
        <3>2. S[f][i] \in Entry
            BY <1>2
        <3>3. /\ more(S[f][i]).lset = S[f][i].lset
              /\ more(S[f][i]).ref = S[f][i].ref
              /\ more(S[f][i]).samples = Append(S[f][i].samples, s)
            BY ONLY <3>2 DEF Entry
        <3>4. S[f][i].samples \in Seq(Sample)
            BY ONLY <3>2 DEF Entry
        <3>4a. s \in Sample
            BY DEF Record, Sample
        <3>5. \A k \in DOMAIN Append(S[f][i].samples, s) :
                   \/ /\ k \in DOMAIN S[f][i].samples
                      /\ Append(S[f][i].samples, s)[k] = S[f][i].samples[k]
                   \/ Append(S[f][i].samples, s)[k] = s
            BY ONLY <3>4, <3>4a
        <3>6. /\ more(S[f][i]) \in Entry
              /\ LastOf(more(S[f][i]), HistoryIn(Append(C, c), c.lset))
            BY ONLY <1>7, <2>1, f \in DOMAIN S, i \in DOMAIN S[f]
        <3> HIDE DEF more
        <3> QED BY ONLY <2>1, <3>1, <3>3, <3>5, <3>6
    <2>2. CASE S[f][i].lset # c.lset
        <3>1. U[f][i] = S[f][i]
            BY ONLY <1>6, <2>2, f \in DOMAIN S, i \in DOMAIN S[f]
        <3>2. HistoryIn(Append(C, c), S[f][i].lset) = HistoryIn(C, S[f][i].lset)
            BY <2>2, HistoryAppend
        <3>3. S[f][i] \in Entry /\ LastOf(S[f][i], HistoryIn(C, S[f][i].lset))
            BY <1>2, <1>3
        <3> QED BY ONLY <3>1, <3>2, <3>3
    <2> QED BY ONLY <2>1, <2>2
<1>9. StoreTyped(U)
    <2> SUFFICES ASSUME NEW f \in DOMAIN S PROVE U[f] \in Seq(Entry)
        BY <1>4 DEF StoreTyped
    <2>1. CASE f = fp
        <3> DEFINE D == 1 .. Len(S[f])
        <3>1. DOMAIN S[f] = D /\ Len(S[f]) \in Nat
            BY <1>1
        <3>2. U[f] \in [D -> Entry]
            <4>1. U[f] = [i \in D |-> U[f][i]]
                BY <2>1, <3>1
            <4>2. \A i \in D : U[f][i] \in Entry
                BY ONLY <1>8, <3>1, f \in DOMAIN S
            <4> QED BY ONLY <4>1, <4>2
        <3> QED BY ONLY <3>1, <3>2
    <2>2. CASE f # fp
        BY <2>2, <1>1
    <2> QED BY <2>1, <2>2
<1>10. StoreFollows(U, Append(C, c))
    <2>1. ASSUME NEW f \in DOMAIN S, NEW i \in DOMAIN S[f]
          PROVE  /\ HashOf[U[f][i].lset] = f
                 /\ LastOf(U[f][i], HistoryIn(Append(C, c), U[f][i].lset))
        <3>1. /\ U[f][i].lset = S[f][i].lset
              /\ LastOf(U[f][i], HistoryIn(Append(C, c), U[f][i].lset))
            BY ONLY <1>8, f \in DOMAIN S, i \in DOMAIN S[f]
        <3>2. HashOf[S[f][i].lset] = f
            BY ONLY <1>3, f \in DOMAIN S, i \in DOMAIN S[f]
        <3> QED BY ONLY <3>1, <3>2
    <2> QED BY ONLY <1>4, <1>5, <2>1 DEF StoreFollows
<1>11. StoreApart(U, n)
    <2>1. \A f \in DOMAIN S : \A i \in DOMAIN S[f] :
             U[f][i].lset = S[f][i].lset /\ U[f][i].ref = S[f][i].ref
        BY ONLY <1>8
    <2>2. StoreApart(S, n)
        BY DEF StoreInv
    <2> QED BY ONLY <1>4, <1>5, <2>1, <2>2 DEF StoreApart
<1>12. ASSUME NEW v, Holds(U, v)
       PROVE  Holds(S, v) \/ v = c.v
    <2>1. PICK f \in DOMAIN S : \E i \in DOMAIN S[f] : \E k \in DOMAIN U[f][i].samples :
                                   U[f][i].samples[k].v = v
        BY ONLY <1>4, <1>5, <1>12 DEF Holds
    <2>2. PICK i \in DOMAIN S[f] : \E k \in DOMAIN U[f][i].samples : U[f][i].samples[k].v = v
        BY ONLY <2>1
    <2>3. PICK k \in DOMAIN U[f][i].samples : U[f][i].samples[k].v = v
        BY ONLY <2>2
    <2>4. \/ k \in DOMAIN S[f][i].samples /\ U[f][i].samples[k] = S[f][i].samples[k]
          \/ U[f][i].samples[k] = s
        BY ONLY <1>8, <2>3, f \in DOMAIN S, i \in DOMAIN S[f], k \in DOMAIN U[f][i].samples
    <2>5. s.v = c.v
        OBVIOUS
    <2> QED BY ONLY <2>3, <2>4, <2>5, f \in DOMAIN S, i \in DOMAIN S[f] DEF Holds
<1>13. n \in Nat
    BY DEF StoreInv
<1> QED BY <1>9, <1>10, <1>11, <1>12, <1>13 DEF StoreInv
\* A round of appendSamples.
LEMMA AddSampleKeeps ==
    ASSUME NEW st, st = [series |-> st.series, nextRef |-> st.nextRef],
           NEW C \in Seq(Record), StoreInv(st.series, st.nextRef, C),
           NEW p, NEW c \in Record, c.lset = p.lset, c.t = p.t, c.v = p.v,
           NEW u, u = AddSample(st, p)
    PROVE  /\ u = [series |-> u.series, nextRef |-> u.nextRef]
           /\ StoreInv(u.series, u.nextRef, Append(C, c))
           /\ \A v : Holds(u.series, v) => Holds(st.series, v) \/ v = c.v
<1> DEFINE S == st.series
           n == st.nextRef
           fp == HashOf[p.lset]
           bucket == Bucket(S, fp)
           found == {i \in DOMAIN bucket : bucket[i].lset = p.lset}
           s == [t |-> p.t, v |-> p.v]
           added == [f \in DOMAIN S \cup {fp} |->
                       IF f = fp THEN Append(bucket, NewEntry(n, p)) ELSE S[f]]
           grown == [f \in DOMAIN S \cup {fp} |->
                         IF f = fp
                         THEN [i \in DOMAIN bucket |->
                                 IF i \in found
                                 THEN [bucket[i] EXCEPT !.samples = Append(bucket[i].samples, s)]
                                 ELSE bucket[i]]
                         ELSE S[f]]
<1>0. u = IF found = {} THEN [series |-> added, nextRef |-> n + 1]
                        ELSE [st EXCEPT !.series = grown]
    BY DEF AddSample, findSeries, BucketOf, Bucket, SetBucket, NewEntry
<1>1. CASE found = {}
    <2>1. u = [series |-> added, nextRef |-> n + 1] /\ u.series = added /\ u.nextRef = n + 1
        <3> HIDE DEF added, found
        <3> QED BY <1>0, <1>1
    <2>2. SeriesAdded(S, n, p, added)
        <3>1. \A i \in DOMAIN bucket : bucket[i].lset # p.lset
            BY <1>1
        <3> QED BY <3>1 DEF SeriesAdded
    <2> HIDE DEF added
    <2>3. StoreInv(added, n + 1, Append(C, c)) /\ \A v : Holds(added, v) => Holds(S, v) \/ v = c.v
        BY <2>2, AddSeries
    <2> QED BY <2>1, <2>3
<1>2. CASE found # {}
    <2>0. fp \in DOMAIN S /\ bucket = S[fp]
        BY <1>2 DEF Bucket
    <2>1. u = [series |-> grown, nextRef |-> n] /\ u.series = grown /\ u.nextRef = n
        <3> HIDE DEF grown, found
        <3> QED BY <1>0, <1>2
    <2>2. SeriesGrown(S, p, grown)
        <3> HIDE DEF bucket
        <3> QED BY <2>0 DEF SeriesGrown
    <2> HIDE DEF grown
    <2>3. StoreInv(grown, n, Append(C, c)) /\ \A v : Holds(grown, v) => Holds(S, v) \/ v = c.v
        BY <2>2, AddToSeries
    <2> QED BY <2>1, <2>3
<1> QED BY <1>1, <1>2
\* The first n elements of B after those of C.
Longer(C, B, n) ==
    [i \in 1 .. Len(C) + n |-> IF i =< Len(C) THEN C[i] ELSE B[i - Len(C)]]

LEMMA LongerNext ==
    ASSUME NEW T, NEW C \in Seq(T), NEW B \in Seq(T), NEW n \in Nat, n < Len(B),
           Longer(C, B, n) \in Seq(T)
    PROVE  /\ Longer(C, B, n + 1) \in Seq(T)
           /\ Longer(C, B, n + 1) = Append(Longer(C, B, n), B[n + 1])
<1> DEFINE X == Longer(C, B, n)
           Y == Longer(C, B, n + 1)
           Z == Append(X, B[n + 1])
<1>0. Len(C) \in Nat /\ B[n + 1] \in T
    OBVIOUS
<1>1. DOMAIN X = 1 .. Len(C) + n /\ DOMAIN Y = 1 .. Len(C) + n + 1
    BY <1>0 DEF Longer
<1>2. Len(X) = Len(C) + n
    <2> HIDE DEF X
    <2> QED BY <1>0, <1>1
<1>3. Z \in Seq(T) /\ Len(Z) = Len(C) + n + 1 /\ DOMAIN Z = 1 .. Len(C) + n + 1
    <2>1. X \in Seq(T)
        OBVIOUS
    <2> HIDE DEF X
    <2> QED BY <1>0, <1>2, <2>1
<1>4. ASSUME NEW i \in 1 .. Len(C) + n + 1
      PROVE  Y[i] = Z[i]
    <2>1. CASE i = Len(C) + n + 1
        <3>1. Z[i] = B[n + 1]
            <4> HIDE DEF X
            <4> QED BY <1>0, <1>2, <2>1
        <3>2. ~ (i =< Len(C)) /\ i - Len(C) = n + 1
            BY <1>0, <2>1
        <3>3. Y[i] = B[n + 1]
            BY <1>0, <3>2 DEF Longer
        <3> QED BY <3>1, <3>3
    <2>2. CASE i # Len(C) + n + 1
        <3>1. i \in 1 .. Len(C) + n
            BY <1>0, <2>2
        <3>2. Z[i] = X[i]
            <4> HIDE DEF X
            <4> QED BY <1>0, <1>2, <3>1
        <3>3. Y[i] = X[i]
            BY <1>0, <3>1 DEF Longer
        <3> QED BY <3>2, <3>3
    <2> QED BY <2>1, <2>2
<1>5. Y = Z
    <2>1. Y = [i \in 1 .. Len(C) + n + 1 |-> Y[i]]
        BY <1>1 DEF Longer
    <2>2. Z = [i \in 1 .. Len(C) + n + 1 |-> Z[i]]
        <3> HIDE DEF Z
        <3> QED BY <1>0, <1>3
    <2> HIDE DEF Y, Z
    <2> QED BY <1>4, <2>1, <2>2
<1> QED BY <1>3, <1>5

LEMMA LongerEnds ==
    ASSUME NEW T, NEW C \in Seq(T), NEW B \in Seq(T)
    PROVE  Longer(C, B, 0) = C /\ Longer(C, B, Len(B)) = C \o B
<1>0. Len(C) \in Nat /\ Len(B) \in Nat
    OBVIOUS
<1>1. Longer(C, B, 0) = C
    <2>1. C = [i \in 1 .. Len(C) |-> C[i]]
        OBVIOUS
    <2>2. \A i \in 1 .. Len(C) : Longer(C, B, 0)[i] = C[i]
        BY <1>0 DEF Longer
    <2>3. Longer(C, B, 0) = [i \in 1 .. Len(C) |-> Longer(C, B, 0)[i]]
        BY <1>0 DEF Longer
    <2> QED BY <2>1, <2>2, <2>3
<1>2. Longer(C, B, Len(B)) = C \o B
    <2>1. C \o B \in Seq(T) /\ Len(C \o B) = Len(C) + Len(B)
        BY <1>0
    <2>2. C \o B = [i \in 1 .. Len(C) + Len(B) |-> (C \o B)[i]]
        <3> DEFINE Z == C \o B
        <3>1. Z \in Seq(T) /\ Len(Z) = Len(C) + Len(B)
            BY <2>1
        <3> HIDE DEF Z
        <3>2. Z = [i \in 1 .. Len(C) + Len(B) |-> Z[i]]
            BY <3>1
        <3> QED BY <3>2 DEF Z
    <2>3. \A i \in 1 .. Len(C) + Len(B) :
             (C \o B)[i] = IF i =< Len(C) THEN C[i] ELSE B[i - Len(C)]
        BY <1>0
    <2> QED BY <2>2, <2>3 DEF Longer
<1> QED BY <1>1, <1>2

\* The state after the first N rounds of appendSamples.
After(ps, N, after) ==
    after = [n \in 0 .. N |->
               IF n = 0 THEN [series |-> series, nextRef |-> nextRef]
               ELSE AddSample(after[n - 1], ps[n])]

LEMMA AfterExists ==
    ASSUME NEW ps, NEW M \in Nat
    PROVE  \E after : After(ps, M, after)
<1> DEFINE G == {N \in Nat : \E after : After(ps, N, after)}
<1>1. 0 \in G
    <2>1. After(ps, 0, [n \in 0 .. 0 |-> [series |-> series, nextRef |-> nextRef]])
        BY DEF After
    <2> QED BY <2>1
<1>2. ASSUME NEW N \in Nat, N \in G
      PROVE  N + 1 \in G
    <2>1. PICK after : After(ps, N, after)
        BY <1>2
    <2> DEFINE next == [n \in 0 .. N + 1 |->
                          IF n = N + 1 THEN AddSample(after[N], ps[N + 1]) ELSE after[n]]
    <2>2. \A n \in 0 .. N + 1 :
             next[n] = IF n = 0 THEN [series |-> series, nextRef |-> nextRef]
                       ELSE AddSample(next[n - 1], ps[n])
        <3> TAKE n \in 0 .. N + 1
        <3>1. CASE n = N + 1
            <4>1. next[n] = AddSample(after[N], ps[N + 1]) /\ next[n - 1] = after[N] /\ n # 0
                BY <3>1
            <4> QED BY <4>1, <3>1
        <3>2. CASE n # N + 1 /\ n # 0
            <4>1. n \in 0 .. N /\ n - 1 \in 0 .. N /\ n - 1 # N + 1
                BY <3>2
            <4>2. next[n] = after[n] /\ next[n - 1] = after[n - 1]
                BY <4>1, <3>2
            <4>3. after[n] = AddSample(after[n - 1], ps[n])
                BY <2>1, <4>1, <3>2 DEF After
            <4> QED BY <4>2, <4>3, <3>2
        <3>3. CASE n = 0
            <4>1. next[0] = after[0] /\ after[0] = [series |-> series, nextRef |-> nextRef]
                BY <2>1 DEF After
            <4> QED BY <4>1, <3>3
        <3> QED BY <3>1, <3>2, <3>3
    <2>3. After(ps, N + 1, next)
        BY <2>2 DEF After
    <2> HIDE DEF next
    <2> QED BY <2>3
<1> HIDE DEF G
<1>3. M \in G
    BY <1>1, <1>2, UpTo
<1> QED BY <1>3 DEF G

LEMMA AppendSamplesIsChosen ==
    ASSUME NEW ps
    PROVE  appendSamples(ps) = (CHOOSE after : After(ps, Len(ps), after))[Len(ps)]
BY DEF appendSamples, After

LEMMA BatchTyped ==
    ASSUME committed \in Seq(Record), NEW ps \in Seq(Pending)
    PROVE  /\ Batch(ps) \in Seq(Record)
           /\ Len(Batch(ps)) = Len(ps)
           /\ \A i \in 1 .. Len(ps) :
                 /\ Batch(ps)[i].lset = ps[i].lset
                 /\ Batch(ps)[i].t = ps[i].t
                 /\ Batch(ps)[i].v = ps[i].v
                 /\ Batch(ps)[i].batch = Len(committed)
<1> DEFINE D == 1 .. Len(ps)
<1>0. Len(ps) \in Nat /\ DOMAIN ps = D /\ Len(committed) \in Nat
    OBVIOUS
<1>1. DOMAIN Batch(ps) = D /\ Batch(ps) = [i \in D |-> Batch(ps)[i]]
    BY <1>0 DEF Batch
<1>2. ASSUME NEW i \in D
      PROVE  /\ Batch(ps)[i] \in Record
             /\ Batch(ps)[i].lset = ps[i].lset
             /\ Batch(ps)[i].t = ps[i].t
             /\ Batch(ps)[i].v = ps[i].v
             /\ Batch(ps)[i].batch = Len(committed)
    <2>1. ps[i] \in Pending
        BY <1>0
    <2>2. Batch(ps)[i] = [lset |-> ps[i].lset, t |-> ps[i].t, v |-> ps[i].v,
                          batch |-> Len(committed)]
        BY <1>0 DEF Batch
    <2>3. ps[i].lset \in LabelSet /\ ps[i].t \in Int /\ ps[i].v \in Nat
        BY <2>1 DEF Pending
    <2> QED BY ONLY <1>0, <2>2, <2>3 DEF Record
<1>3. Batch(ps) \in [D -> Record]
    BY ONLY <1>1, <1>2
<1>4. Batch(ps) \in Seq(Record) /\ Len(Batch(ps)) = Len(ps)
    BY ONLY <1>0, <1>3
<1> QED BY <1>2, <1>4

\* appendSamples, all rounds.
LEMMA AppendSamplesKeep ==
    ASSUME committed \in Seq(Record), StoreInv(series, nextRef, committed),
           NEW ps \in Seq(Pending)
    PROVE  /\ committed \o Batch(ps) \in Seq(Record)
           /\ StoreInv(appendSamples(ps).series, appendSamples(ps).nextRef, committed \o Batch(ps))
           /\ \A v : Holds(appendSamples(ps).series, v) =>
                 Holds(series, v) \/ \E i \in 1 .. Len(ps) : v = ps[i].v
<1> DEFINE B == Batch(ps)
           C == committed
           after == CHOOSE after : After(ps, Len(ps), after)
<1>0. Len(ps) \in Nat
    OBVIOUS
<1>1. After(ps, Len(ps), after)
    BY <1>0, AfterExists
<1>2. appendSamples(ps) = after[Len(ps)]
    BY AppendSamplesIsChosen
<1> HIDE DEF after
<1>3. /\ B \in Seq(Record) /\ Len(B) = Len(ps)
      /\ \A i \in 1 .. Len(ps) :
            B[i].lset = ps[i].lset /\ B[i].t = ps[i].t /\ B[i].v = ps[i].v
    BY BatchTyped
<1>4. Longer(C, B, 0) = C /\ Longer(C, B, Len(B)) = C \o B
    BY <1>3, LongerEnds
<1> HIDE DEF B
<1> DEFINE Good(n) ==
             /\ Longer(C, B, n) \in Seq(Record)
             /\ after[n] = [series |-> after[n].series, nextRef |-> after[n].nextRef]
             /\ StoreInv(after[n].series, after[n].nextRef, Longer(C, B, n))
             /\ \A v : Holds(after[n].series, v) =>
                   Holds(series, v) \/ \E i \in 1 .. Len(ps) : v = ps[i].v
           G == {n \in Nat : Good(n)}
<1>5. 0 \in G
    <2>1. after[0] = [series |-> series, nextRef |-> nextRef]
        BY <1>0, <1>1 DEF After
    <2>2. after[0].series = series /\ after[0].nextRef = nextRef
        BY <2>1
    <2> QED BY <1>4, <2>1, <2>2
<1>6. ASSUME NEW n \in Nat, n < Len(ps), n \in G
      PROVE  n + 1 \in G
    <2>0. n + 1 \in 0 .. Len(ps) /\ n + 1 # 0 /\ n + 1 - 1 = n /\ n + 1 \in 1 .. Len(ps)
        BY <1>0, <1>6
    <2>1. after[n + 1] = AddSample(after[n], ps[n + 1])
        BY <1>1, <2>0 DEF After
    <2>2. B[n + 1] \in Record
        BY <1>3, <2>0, ElementIn
    <2>3. Good(n)
        BY <1>6
    <2>4. /\ Longer(C, B, n + 1) \in Seq(Record)
          /\ Longer(C, B, n + 1) = Append(Longer(C, B, n), B[n + 1])
        BY <1>3, <1>6, <2>3, LongerNext
    <2>5. B[n + 1].lset = ps[n + 1].lset /\ B[n + 1].t = ps[n + 1].t /\ B[n + 1].v = ps[n + 1].v
        BY <1>3, <2>0
    <2> DEFINE u == after[n + 1]
               st == after[n]
               L == Longer(C, B, n)
               c == B[n + 1]
               p == ps[n + 1]
    <2>6. /\ u = [series |-> u.series, nextRef |-> u.nextRef]
          /\ StoreInv(u.series, u.nextRef, Append(L, c))
          /\ \A v : Holds(u.series, v) => Holds(st.series, v) \/ v = c.v
        <3>1. st = [series |-> st.series, nextRef |-> st.nextRef] /\ L \in Seq(Record)
              /\ StoreInv(st.series, st.nextRef, L)
            BY <2>3
        <3>2. u = AddSample(st, p) /\ c \in Record /\ c.lset = p.lset /\ c.t = p.t /\ c.v = p.v
            BY <2>1, <2>2, <2>5
        <3> HIDE DEF u, st, L, c, p
        <3> QED BY ONLY <3>1, <3>2, AddSampleKeeps
    <2>7. \A v : Holds(u.series, v) =>
                   Holds(series, v) \/ \E i \in 1 .. Len(ps) : v = ps[i].v
        <3> TAKE v
        <3> HAVE Holds(u.series, v)
        <3>1. Holds(st.series, v) \/ v = ps[n + 1].v
            BY <2>5, <2>6
        <3> QED BY <2>0, <2>3, <3>1
    <2>8. Good(n + 1)
        BY ONLY <2>4, <2>6, <2>7
    <2> HIDE DEF Good
    <2> QED BY ONLY <2>8, n \in Nat
<1> HIDE DEF G
<1>7. Len(ps) \in G
    <2>1. Len(ps) \in 0 .. Len(ps)
        BY <1>0
    <2> QED BY <1>0, <1>5, <1>6, <2>1, UpTo
<1>8. Good(Len(ps))
    BY <1>7 DEF G
<1> QED BY <1>2, <1>3, <1>4, <1>8 DEF B
-----------------------------------------------------------------------------
(* Pruning *)

LEMMA Regroup == \A a, b, r, k \in Int : a - b + (r + k) = a - b + r + k
OBVIOUS

CutEntry(e, cutoff) == [e EXCEPT !.samples = pruneSamples(e.samples, cutoff)]

\* What pruning leaves of an entry is the last of its history too.
LEMMA CutEntryLast ==
    ASSUME NEW e \in Entry, NEW cutoff \in Int
    PROVE  /\ CutEntry(e, cutoff) \in Entry
           /\ CutEntry(e, cutoff).lset = e.lset
           /\ CutEntry(e, cutoff).ref = e.ref
           /\ CutEntry(e, cutoff).samples = pruneSamples(e.samples, cutoff)
           /\ \A h \in Seq(Record) :
                 LastOf(e, h) /\ CutEntry(e, cutoff).samples # << >>
                    => LastOf(CutEntry(e, cutoff), h)
<1> DEFINE d == CutEntry(e, cutoff)
           old == e.samples
           new == pruneSamples(e.samples, cutoff)
<1>1. old \in Seq(Sample)
    BY DEF Entry
<1>2. PICK r \in 0 .. Len(old) :
              /\ new \in Seq(Sample)
              /\ Len(new) = Len(old) - r
              /\ \A k \in 1 .. Len(old) - r : new[k] = old[r + k]
    BY <1>1, PruneKeepsLast
<1>3. d \in Entry /\ d.lset = e.lset /\ d.ref = e.ref /\ d.samples = new
    <2> HIDE DEF new
    <2> QED BY <1>2 DEF CutEntry, Entry, new
<1>4. ASSUME NEW h \in Seq(Record), LastOf(e, h), d.samples # << >>
      PROVE  LastOf(d, h)
    <2> HIDE DEF d, new
    <2>0. Len(old) \in Nat /\ Len(h) \in Nat /\ r \in Nat /\ r =< Len(old) /\ Len(old) =< Len(h)
        BY <1>1, <1>4 DEF LastOf
    <2>1. 0 < Len(new) /\ DOMAIN new = 1 .. Len(new) /\ Len(new) \in Nat
        BY <1>2, <1>3, <1>4
    <2>2. Len(new) =< Len(h) /\ Len(new) = Len(old) - r
        BY <1>2, <2>0
    <2>2a. Len(h) - Len(new) = Len(h) - Len(old) + r
        BY ONLY <2>0, <2>1, <2>2
    <2>3. ASSUME NEW k \in DOMAIN new
          PROVE  new[k] = [t |-> h[Len(h) - Len(new) + k].t, v |-> h[Len(h) - Len(new) + k].v]
        <3>1. k \in 1 .. Len(old) - r /\ r + k \in 1 .. Len(old)
            BY <2>0, <2>1, <2>2
        <3>2. new[k] = old[r + k]
            BY <1>2, <3>1
        <3>3. r + k \in DOMAIN old
            BY <1>1, <3>1
        <3>4. old[r + k] = [t |-> h[Len(h) - Len(old) + (r + k)].t,
                            v |-> h[Len(h) - Len(old) + (r + k)].v]
            BY <1>4, <3>3 DEF LastOf
        <3>5. Len(h) - Len(old) + (r + k) = Len(h) - Len(new) + k
            <4>1. k \in Int
                BY <2>1
            <4>2. Len(h) - Len(old) + (r + k) = Len(h) - Len(old) + r + k
                <5>1. Len(h) \in Int /\ Len(old) \in Int /\ r \in Int
                    BY ONLY <2>0
                <5> HIDE DEF old
                <5> QED BY ONLY <4>1, <5>1, Regroup
            <4> QED BY ONLY <2>2a, <4>2
        <3> QED BY <3>2, <3>4, <3>5
    <2> QED BY <1>3, <2>1, <2>2, <2>3 DEF LastOf
<1> QED BY <1>3, <1>4

\* The places in a bucket of what is left in it.
LeftIn(bucket, cutoff, r, f) ==
    /\ r \in Seq(Entry)
    /\ f \in [1 .. Len(r) -> 1 .. Len(bucket)]
    /\ \A j, k \in 1 .. Len(r) : j # k => f[j] # f[k]
    /\ \A k \in 1 .. Len(r) :
          r[k] = CutEntry(bucket[f[k]], cutoff) /\ r[k].samples # << >>
    /\ \A i \in 1 .. Len(bucket) :
          CutEntry(bucket[i], cutoff).samples # << >> => \E k \in 1 .. Len(r) : f[k] = i

LEMMA PrunedBucket ==
    ASSUME NEW bucket \in Seq(Entry), NEW cutoff \in Int
    PROVE  \E f : LeftIn(bucket, cutoff, Pruned(bucket, cutoff), f)
<1> DEFINE D == 1 .. Len(bucket)
           cut == [i \in DOMAIN bucket |->
                     [bucket[i] EXCEPT !.samples = pruneSamples(@, cutoff)]]
           I == {i \in DOMAIN cut : cut[i].samples # << >>}
           r == Pruned(bucket, cutoff)
<1>0. Len(bucket) \in Nat /\ DOMAIN bucket = D
    OBVIOUS
<1>1. r = SelectAt(cut, I)
    BY DEF Pruned
<1>2. DOMAIN cut = D /\ \A i \in D : cut[i] = CutEntry(bucket[i], cutoff)
    BY <1>0 DEF CutEntry
<1>3. \A i \in D : cut[i] \in Entry
    <2> HIDE DEF cut
    <2>1. \A i \in D : bucket[i] \in Entry
        BY <1>0
    <2> QED BY <1>2, <2>1, CutEntryLast
<1>3a. cut = [i \in D |-> cut[i]]
    BY <1>0, <1>2
<1>3b. I = {i \in D : CutEntry(bucket[i], cutoff).samples # << >>}
    <2> HIDE DEF cut
    <2> QED BY <1>2
<1> HIDE DEF cut, I, r
<1>4. cut \in Seq(Entry) /\ Len(cut) = Len(bucket)
    <2>1. cut \in [D -> Entry]
        BY ONLY <1>3, <1>3a
    <2> QED BY ONLY <1>0, <2>1
<1>5. r \in Seq(Entry) /\ \E f : Places(r, cut, I, Len(cut), f)
    BY <1>1, <1>4, SelectAtPlaces
<1>6. PICK f : Places(r, cut, I, Len(cut), f)
    BY <1>5
<1>7. Len(r) \in Nat
    BY <1>5
<1>8. f \in [1 .. Len(r) -> D] /\ \A k \in 1 .. Len(r) : f[k] \in I /\ f[k] \in D
    BY <1>4, <1>6 DEF Places
<1>9. ASSUME NEW j \in 1 .. Len(r), NEW k \in 1 .. Len(r), j # k
      PROVE  f[j] # f[k]
    <2>1. j < k \/ k < j
        BY <1>7, <1>9
    <2>2. f[j] < f[k] \/ f[k] < f[j]
        BY <1>6, <2>1 DEF Places
    <2>3. f[j] \in Int /\ f[k] \in Int
        BY <1>0, <1>8
    <2> QED BY <2>2, <2>3
<1>10. ASSUME NEW k \in 1 .. Len(r)
       PROVE  r[k] = CutEntry(bucket[f[k]], cutoff) /\ r[k].samples # << >>
    <2>1. r[k] = cut[f[k]]
        BY <1>6 DEF Places
    <2>2. f[k] \in I /\ f[k] \in D
        BY <1>8
    <2>3. cut[f[k]] = CutEntry(bucket[f[k]], cutoff)
        BY <1>2, <2>2
    <2>4. CutEntry(bucket[f[k]], cutoff).samples # << >>
        BY <1>3b, <2>2
    <2> QED BY ONLY <2>1, <2>3, <2>4
<1>11. ASSUME NEW i \in D, CutEntry(bucket[i], cutoff).samples # << >>
       PROVE  \E k \in 1 .. Len(r) : f[k] = i
    <2>1. i \in I \cap (1 .. Len(cut))
        BY <1>3b, <1>4, <1>11
    <2> QED BY <1>6, <2>1 DEF Places
<1>12. LeftIn(bucket, cutoff, r, f)
    BY <1>5, <1>8, <1>9, <1>10, <1>11 DEF LeftIn
<1> QED BY <1>12 DEF r

\* Prune, on buckets.
Cut(S, cutoff, U) ==
    /\ DOMAIN U = {fp \in DOMAIN S : Pruned(S[fp], cutoff) # << >>}
    /\ \A fp \in DOMAIN U : U[fp] = Pruned(S[fp], cutoff)

\* An entry that is left comes from one place of S.
LEMMA CutPlace ==
    ASSUME NEW S, StoreTyped(S), NEW cutoff \in Int, NEW U, Cut(S, cutoff, U),
           NEW fp \in DOMAIN U
    PROVE  /\ fp \in DOMAIN S /\ S[fp] \in Seq(Entry)
           /\ \E f : LeftIn(S[fp], cutoff, U[fp], f)
<1>1. fp \in DOMAIN S /\ U[fp] = Pruned(S[fp], cutoff)
    BY DEF Cut
<1>2. S[fp] \in Seq(Entry)
    BY <1>1 DEF StoreTyped
<1> QED BY <1>1, <1>2, PrunedBucket

LEMMA CutKeeps ==
    ASSUME NEW S, NEW n, NEW C \in Seq(Record), StoreInv(S, n, C),
           NEW cutoff \in Int, NEW U, Cut(S, cutoff, U)
    PROVE  StoreInv(U, n, C) /\ \A v : Holds(U, v) => Holds(S, v)
<1>0. StoreTyped(S) /\ n \in Nat
    BY DEF StoreInv
<1>1. StoreTyped(U)
    <2> SUFFICES ASSUME NEW fp \in DOMAIN U PROVE U[fp] \in Seq(Entry)
        BY DEF StoreTyped
    <2>1. \E f : LeftIn(S[fp], cutoff, U[fp], f)
        BY <1>0, CutPlace
    <2> QED BY <2>1 DEF LeftIn
\* The place in S of the entry at a place of U.
<1> DEFINE From(fp, i, j) ==
             /\ fp \in DOMAIN S /\ j \in DOMAIN S[fp] /\ S[fp][j] \in Entry
             /\ U[fp][i] = CutEntry(S[fp][j], cutoff) /\ U[fp][i].samples # << >>
<1>2. ASSUME NEW fp \in DOMAIN U
      PROVE  \E f : /\ \A i \in DOMAIN U[fp] : From(fp, i, f[i])
                    /\ \A i, k \in DOMAIN U[fp] : i # k => f[i] # f[k]
    <2>1. PICK f : LeftIn(S[fp], cutoff, U[fp], f)
        BY <1>0, CutPlace
    <2>2. fp \in DOMAIN S /\ S[fp] \in Seq(Entry)
        BY <1>0, CutPlace
    <2>3. DOMAIN S[fp] = 1 .. Len(S[fp]) /\ DOMAIN U[fp] = 1 .. Len(U[fp])
        BY <2>1, <2>2 DEF LeftIn
    <2>4. ASSUME NEW i \in DOMAIN U[fp]
          PROVE  From(fp, i, f[i])
        <3>1. f[i] \in 1 .. Len(S[fp])
            BY <2>1, <2>3 DEF LeftIn
        <3>2. S[fp][f[i]] \in Entry
            BY <2>2, <3>1, ElementIn
        <3>3. U[fp][i] = CutEntry(S[fp][f[i]], cutoff) /\ U[fp][i].samples # << >>
            BY <2>1, <2>3 DEF LeftIn
        <3> QED BY ONLY <2>2, <2>3, <3>1, <3>2, <3>3
    <2>5. \A i, k \in DOMAIN U[fp] : i # k => f[i] # f[k]
        BY <2>1, <2>3 DEF LeftIn
    <2> HIDE DEF From
    <2> QED BY <2>4, <2>5
<1>3. ASSUME NEW fp, NEW i, NEW j, From(fp, i, j)
      PROVE  /\ U[fp][i].lset = S[fp][j].lset
             /\ U[fp][i].ref = S[fp][j].ref
             /\ U[fp][i].samples = pruneSamples(S[fp][j].samples, cutoff)
             /\ LastOf(U[fp][i], HistoryIn(C, S[fp][j].lset))
    <2>1. LastOf(S[fp][j], HistoryIn(C, S[fp][j].lset))
        BY <1>3 DEF StoreInv, StoreFollows
    <2>2. HistoryIn(C, S[fp][j].lset) \in Seq(Record)
        BY HistoryTyped
    <2>3. S[fp][j] \in Entry /\ U[fp][i] = CutEntry(S[fp][j], cutoff) /\ U[fp][i].samples # << >>
        BY <1>3
    <2> DEFINE e == S[fp][j]
               d == CutEntry(e, cutoff)
    <2>4. /\ d.lset = e.lset /\ d.ref = e.ref
          /\ d.samples = pruneSamples(e.samples, cutoff)
          /\ \A h \in Seq(Record) : LastOf(e, h) /\ d.samples # << >> => LastOf(d, h)
        <3>1. e \in Entry
            BY <2>3
        <3> HIDE DEF e
        <3> QED BY ONLY <3>1, CutEntryLast, cutoff \in Int
    <2>5. LastOf(d, HistoryIn(C, e.lset))
        <3>1. LastOf(e, HistoryIn(C, e.lset)) /\ d.samples # << >>
            BY ONLY <2>1, <2>3
        <3> HIDE DEF d, e
        <3> QED BY ONLY <2>2, <2>4, <3>1 DEF e
    <2> HIDE DEF d
    <2> QED BY ONLY <2>3, <2>4, <2>5 DEF d
<1>4. StoreFollows(U, C)
    <2> SUFFICES ASSUME NEW fp \in DOMAIN U, NEW i \in DOMAIN U[fp]
                 PROVE  HashOf[U[fp][i].lset] = fp /\ LastOf(U[fp][i], HistoryIn(C, U[fp][i].lset))
        BY DEF StoreFollows
    <2>1. PICK j : From(fp, i, j)
        <3> HIDE DEF From
        <3> QED BY <1>2
    <2>2. HashOf[S[fp][j].lset] = fp
        BY <2>1 DEF StoreInv, StoreFollows
    <2> HIDE DEF From
    <2> QED BY <1>3, <2>1, <2>2
<1>5. StoreApart(U, n)
    <2>1. ASSUME NEW fp \in DOMAIN U, NEW i \in DOMAIN U[fp]
          PROVE  U[fp][i].ref =< n
        <3>1. PICK j : From(fp, i, j)
            <4> HIDE DEF From
            <4> QED BY <1>2
        <3>2. S[fp][j].ref =< n
            BY <3>1 DEF StoreInv, StoreApart
        <3> HIDE DEF From
        <3> QED BY <1>3, <3>1, <3>2
    <2>2. ASSUME NEW fp \in DOMAIN U, NEW gp \in DOMAIN U,
                 NEW i \in DOMAIN U[fp], NEW k \in DOMAIN U[gp],
                 U[fp][i].lset = U[gp][k].lset \/ U[fp][i].ref = U[gp][k].ref
          PROVE  fp = gp /\ i = k
        <3> HIDE DEF From
        <3>1. PICK f : /\ \A j \in DOMAIN U[fp] : From(fp, j, f[j])
                       /\ \A j, m \in DOMAIN U[fp] : j # m => f[j] # f[m]
            BY <1>2
        <3>2. PICK g : \A j \in DOMAIN U[gp] : From(gp, j, g[j])
            BY <1>2
        <3>3. From(fp, i, f[i]) /\ From(gp, k, g[k])
            BY <3>1, <3>2
        <3>4. \/ S[fp][f[i]].lset = S[gp][g[k]].lset
              \/ S[fp][f[i]].ref = S[gp][g[k]].ref
            BY <1>3, <2>2, <3>3
        <3>5. /\ fp \in DOMAIN S /\ f[i] \in DOMAIN S[fp]
              /\ gp \in DOMAIN S /\ g[k] \in DOMAIN S[gp]
            BY <3>3 DEF From
        <3>6. fp = gp /\ f[i] = g[k]
            BY <3>4, <3>5 DEF StoreInv, StoreApart
        <3>7. From(fp, k, f[k])
            BY <3>1, <3>6
        <3>8. S[fp][f[k]].lset = S[fp][g[k]].lset
            BY <1>3, <3>3, <3>6, <3>7
        <3>9. f[k] \in DOMAIN S[fp] /\ g[k] \in DOMAIN S[fp]
            BY <3>5, <3>6, <3>7 DEF From
        <3>10. f[k] = g[k]
            BY <3>5, <3>8, <3>9 DEF StoreInv, StoreApart
        <3> QED BY <3>1, <3>6, <3>10
    <2> QED BY <2>1, <2>2 DEF StoreApart
<1>6. ASSUME NEW v, Holds(U, v)
      PROVE  Holds(S, v)
    <2>1. PICK fp \in DOMAIN U : \E i \in DOMAIN U[fp] : \E k \in DOMAIN U[fp][i].samples :
                                   U[fp][i].samples[k].v = v
        BY <1>6 DEF Holds
    <2>2. PICK i \in DOMAIN U[fp] : \E k \in DOMAIN U[fp][i].samples : U[fp][i].samples[k].v = v
        BY <2>1
    <2>3. PICK k \in DOMAIN U[fp][i].samples : U[fp][i].samples[k].v = v
        BY <2>2
    <2>4. PICK j : From(fp, i, j)
        <3> HIDE DEF From
        <3> QED BY <1>2
    <2>5. S[fp][j].samples \in Seq(Sample)
        BY <2>4 DEF Entry
    <2>6. U[fp][i].samples = pruneSamples(S[fp][j].samples, cutoff)
        <3> HIDE DEF From
        <3> QED BY <1>3, <2>4
    <2> DEFINE old == S[fp][j].samples
               new == pruneSamples(old, cutoff)
    <2>7. PICK r \in 0 .. Len(old) : /\ new \in Seq(Sample)
                                     /\ Len(new) = Len(old) - r
                                     /\ \A m \in 1 .. Len(old) - r : new[m] = old[r + m]
        BY <2>5, PruneKeepsLast
    <2>8. k \in 1 .. Len(old) - r /\ new[k].v = v
        <3> HIDE DEF new
        <3> QED BY <2>3, <2>6, <2>7 DEF new
    <2>9. r + k \in DOMAIN old /\ old[r + k].v = v
        <3>1. Len(old) \in Nat /\ DOMAIN old = 1 .. Len(old) /\ r \in Nat
            BY <2>5
        <3>2. new[k] = old[r + k]
            BY ONLY <2>7, <2>8
        <3> HIDE DEF old, new
        <3> QED BY ONLY <2>8, <3>1, <3>2
    <2> QED BY <2>4, <2>9 DEF Holds
<1> QED BY <1>0, <1>1, <1>4, <1>5, <1>6 DEF StoreInv
-----------------------------------------------------------------------------
(* The store's steps *)

LEMMA StoredHolds == \A v : v \in Stored <=> Holds(series, v)
BY DEF Stored, Entries, Values, Holds

\* A history is in order if the samples of its label set are.
SortedIn(C, l) ==
    \A x, y \in DOMAIN C : x < y /\ C[x].lset = l /\ C[y].lset = l => C[x].t =< C[y].t

LEMMA InOrderSorted ==
    ASSUME committed \in Seq(Record), NEW l
    PROVE  InOrder(l) <=> SortedIn(committed, l)
<1> DEFINE C == committed
           h == HistoryIn(C, l)
           I == {i \in DOMAIN C : C[i].lset = l}
<1>1. PICK f : Places(h, C, I, Len(C), f)
    BY HistoryTyped
<1>2. h \in Seq(Record)
    BY HistoryTyped
<1>3. InOrder(l) <=> \A i, j \in DOMAIN h : i < j => h[i].t =< h[j].t
    BY DEF InOrder, History, HistoryIn
<1>4. DOMAIN C = 1 .. Len(C) /\ Len(C) \in Nat /\ I \cap (1 .. Len(C)) = I
    OBVIOUS
<1>5. \A x : x \in I <=> x \in DOMAIN C /\ C[x].lset = l
    OBVIOUS
<1> HIDE DEF h, I, C
<1>6. DOMAIN h = 1 .. Len(h) /\ Len(h) \in Nat
    BY <1>2
<1>7. \A k \in DOMAIN h : f[k] \in I /\ h[k] = C[f[k]]
    BY <1>1, <1>6 DEF Places
<1>8. ASSUME SortedIn(C, l), NEW i \in DOMAIN h, NEW j \in DOMAIN h, i < j
      PROVE  h[i].t =< h[j].t
    <2>1. f[i] < f[j]
        BY <1>1, <1>6, <1>8 DEF Places
    <2>2. C[f[i]].t =< C[f[j]].t
        BY <1>5, <1>7, <1>8, <2>1 DEF SortedIn
    <2> QED BY <1>7, <2>2
<1>9. ASSUME \A i, j \in DOMAIN h : i < j => h[i].t =< h[j].t,
             NEW x \in DOMAIN C, NEW y \in DOMAIN C, x < y, C[x].lset = l, C[y].lset = l
      PROVE  C[x].t =< C[y].t
    <2>1. x \in I \cap (1 .. Len(C)) /\ y \in I \cap (1 .. Len(C))
        BY <1>4, <1>5, <1>9
    <2>2. PICK a \in 1 .. Len(h) : f[a] = x
        BY <1>1, <2>1 DEF Places
    <2>3. PICK b \in 1 .. Len(h) : f[b] = y
        BY <1>1, <2>1 DEF Places
    <2>4. a # b
        BY <1>4, <1>9, <2>2, <2>3
    <2>5. ~ (b < a)
        <3>1. b < a => f[b] < f[a]
            BY <1>1 DEF Places
        <3> QED BY <1>4, <1>9, <2>2, <2>3, <3>1
    <2>6. a < b
        BY <1>6, <2>4, <2>5
    <2>7. h[a].t =< h[b].t
        BY <1>6, <1>9, <2>6
    <2> QED BY <1>6, <1>7, <2>2, <2>3, <2>7
<1> QED BY <1>3, <1>8, <1>9 DEF SortedIn, C

LEMMA InOrderSortedAll ==
    committed \in Seq(Record) => \A l : InOrder(l) <=> SortedIn(committed, l)
BY InOrderSorted

\* What a step of the store does to the history: it only grows, what is new in
\* it has other numbers and a later batch, and what was stored before and is
\* stored now could be found before.
HistoryGrows ==
    /\ Committed \subseteq Committed'
    /\ \A u \in Committed' : u \notin Committed =>
          \A s \in Committed : u.v # s.v /\ ~ (u.batch =< s.batch)
    /\ \A u \in Findable' : u \in Committed => u \in Findable

LEMMA CommittedPlaces == \A u : u \in Committed <=> \E i \in DOMAIN committed : committed[i] = u
BY DEF Committed, ToSet

LEMMA GrowsSame ==
    ASSUME MemInv, committed' = committed, committed' \in Seq(Record),
           \A v : Holds(series', v) => Holds(series, v)
    PROVE  HistoryGrows
<1>1. Committed' = Committed
    BY DEF Committed
<1>2. \A l : InOrder(l)' <=> InOrder(l)
    BY DEF InOrder, History
<1>3. \A v : v \in Stored' => v \in Stored
    <2>1. \A v : v \in Stored' <=> Holds(series', v)
        BY DEF Stored, Entries, Values, Holds
    <2> QED BY <2>1, StoredHolds
<1> QED BY <1>1, <1>2, <1>3 DEF HistoryGrows, Findable

LEMMA MemInitInv == MemInit => MemInv
<1> SUFFICES ASSUME MemInit PROVE MemInv
    OBVIOUS
<1>1. committed = << >> /\ series = << >> /\ nextRef = 0 /\ now = 0 /\ appends = 0
    BY DEF MemInit
<1>2. pending = [a \in Appender |-> << >>]
    BY DEF MemInit
<1>3. << >> \in Seq(Record) /\ << >> \in Seq(Pending) /\ DOMAIN << >> = {}
    OBVIOUS
<1>4. MemTypes
    BY <1>1, <1>2, <1>3 DEF MemTypes
<1>5. StoreInv(series, nextRef, committed)
    BY <1>1, <1>3 DEF StoreInv, StoreTyped, StoreFollows, StoreApart
<1>6. NumbersApart
    <2>1. \A a \in Appender : DOMAIN pending[a] = {}
        BY <1>2, <1>3
    <2> QED BY <1>1, <1>3, <2>1 DEF NumbersApart
<1> QED BY <1>4, <1>5, <1>6 DEF MemInv

LEMMA TickStep == MemInv /\ Tick => MemInv' /\ HistoryGrows
<1> SUFFICES ASSUME MemInv, Tick PROVE MemInv' /\ HistoryGrows
    OBVIOUS
<1>1. UNCHANGED <<series, nextRef, pending, appends, committed>> /\ now' = now + 1
    BY DEF Tick
<1>2. MemTypes'
    BY <1>1 DEF MemInv, MemTypes
<1>3. StoreInv(series, nextRef, committed)'
    BY <1>1 DEF MemInv
<1>4. NumbersApart'
    BY <1>1 DEF MemInv, NumbersApart
<1>5. HistoryGrows
    BY <1>1, <1>2, GrowsSame DEF MemTypes
<1> QED BY <1>2, <1>3, <1>4, <1>5 DEF MemInv

LEMMA PruneStep == MemInv /\ Prune => MemInv' /\ HistoryGrows
<1> SUFFICES ASSUME MemInv, Prune PROVE MemInv' /\ HistoryGrows
    OBVIOUS
<1>1. UNCHANGED <<nextRef, pending, now, appends, committed>>
    BY DEF Prune
<1>2. MemTypes'
    BY <1>1 DEF MemInv, MemTypes
<1>3. Cut(series, now - Retention, series')
    BY DEF Prune, Cut
<1>4. now - Retention \in Int /\ committed \in Seq(Record)
    BY MemStoreAssumption DEF MemInv, MemTypes
<1>5. /\ StoreInv(series', nextRef, committed)
      /\ \A v : Holds(series', v) => Holds(series, v)
    BY <1>3, <1>4, CutKeeps DEF MemInv
<1>6. StoreInv(series, nextRef, committed)'
    BY <1>1, <1>5
<1>7. NumbersApart'
    BY <1>1 DEF MemInv, NumbersApart
<1>8. HistoryGrows
    BY <1>1, <1>2, <1>5, GrowsSame DEF MemTypes
<1> QED BY <1>2, <1>6, <1>7, <1>8 DEF MemInv

LEMMA RollbackStep == \A a \in Appender : MemInv /\ Rollback(a) => MemInv' /\ HistoryGrows
<1> SUFFICES ASSUME NEW a \in Appender, MemInv, Rollback(a) PROVE MemInv' /\ HistoryGrows
    OBVIOUS
<1>1. UNCHANGED <<series, nextRef, now, appends, committed>>
    BY DEF Rollback
<1>2. pending' = [pending EXCEPT ![a] = << >>]
    BY DEF Rollback
<1>3. << >> \in Seq(Pending) /\ DOMAIN << >> = {} /\ pending \in [Appender -> Seq(Pending)]
    BY DEF MemInv, MemTypes
<1>4. MemTypes'
    BY <1>1, <1>2, <1>3 DEF MemInv, MemTypes
<1>5. StoreInv(series, nextRef, committed)'
    BY <1>1 DEF MemInv
<1>6. \A b \in Appender : b # a => pending'[b] = pending[b]
    BY <1>2, <1>3
<1>7. DOMAIN pending'[a] = {}
    BY <1>2, <1>3
<1>8. NumbersApart'
    <2>1. ASSUME NEW b \in Appender, NEW i \in DOMAIN pending'[b]
          PROVE  b # a /\ pending'[b] = pending[b] /\ i \in DOMAIN pending[b]
        BY <1>6, <1>7
    <2>2. ASSUME NEW b \in Appender, NEW i \in DOMAIN pending'[b]
          PROVE  /\ pending'[b][i].v =< appends
                 /\ \A j \in DOMAIN committed : pending'[b][i].v # committed[j].v
        BY <2>1 DEF MemInv, NumbersApart
    <2>3. ASSUME NEW b \in Appender, NEW i \in DOMAIN pending'[b],
                 NEW d \in Appender, NEW j \in DOMAIN pending'[d],
                 pending'[b][i].v = pending'[d][j].v
          PROVE  b = d /\ i = j
        <3>1. pending'[b] = pending[b] /\ i \in DOMAIN pending[b]
            BY <2>1
        <3>2. pending'[d] = pending[d] /\ j \in DOMAIN pending[d]
            BY <2>1
        <3>3. pending[b][i].v = pending[d][j].v
            BY <2>3, <3>1, <3>2
        <3> QED BY <3>1, <3>2, <3>3 DEF MemInv, NumbersApart
    <2>4. /\ \A i \in DOMAIN committed : committed[i].v =< appends /\ committed[i].batch < i
          /\ \A i, j \in DOMAIN committed : committed[i].v = committed[j].v => i = j
        BY DEF MemInv, NumbersApart
    <2> QED BY <1>1, <2>2, <2>3, <2>4 DEF NumbersApart
<1>9. HistoryGrows
    BY <1>1, <1>4, GrowsSame DEF MemTypes
<1> QED BY <1>4, <1>5, <1>8, <1>9 DEF MemInv

LEMMA AppendStep == \A a \in Appender : MemInv /\ AppendSample(a) => MemInv' /\ HistoryGrows
<1> SUFFICES ASSUME NEW a \in Appender, MemInv, AppendSample(a) PROVE MemInv' /\ HistoryGrows
    OBVIOUS
<1>1. UNCHANGED <<series, nextRef, now, committed>> /\ appends' = appends + 1
    BY DEF AppendSample
<1>2. PICK p \in Point : pending' = [pending EXCEPT ![a] =
                         Append(@, [lset |-> p[1], t |-> p[2], v |-> appends + 1])]
    BY DEF AppendSample
<1> DEFINE s == [lset |-> p[1], t |-> p[2], v |-> appends + 1]
<1>3. appends \in Nat /\ pending \in [Appender -> Seq(Pending)] /\ committed \in Seq(Record)
    BY DEF MemInv, MemTypes
<1>4. p[1] \in LabelSet /\ p[2] \in Int
    BY MemStoreAssumption
<1>5. s \in Pending /\ s.v = appends + 1
    BY <1>3, <1>4 DEF Pending
<1>6. pending' = [pending EXCEPT ![a] = Append(pending[a], s)]
    BY <1>2
<1> HIDE DEF s
<1>7. pending[a] \in Seq(Pending) /\ Append(pending[a], s) \in Seq(Pending)
    BY <1>3, <1>5
<1>8. pending'[a] = Append(pending[a], s) /\ \A b \in Appender : b # a => pending'[b] = pending[b]
    BY <1>3, <1>6
<1>9. MemTypes'
    BY <1>1, <1>3, <1>6, <1>7 DEF MemInv, MemTypes
<1>10. StoreInv(series, nextRef, committed)'
    BY <1>1 DEF MemInv
\* What is pending was so, or is the sample appended.
<1> DEFINE IsNew(b, i) == b = a /\ i = Len(pending[a]) + 1 /\ pending'[b][i].v = appends + 1
           IsOld(b, i) == i \in DOMAIN pending[b] /\ pending'[b][i] = pending[b][i]
<1>11. ASSUME NEW b \in Appender, NEW i \in DOMAIN pending'[b]
       PROVE  IsNew(b, i) \/ IsOld(b, i)
    <2>1. CASE b = a
        BY <2>1, <1>5, <1>7, <1>8
    <2>2. CASE b # a
        BY <2>2, <1>8
    <2> QED BY <2>1, <2>2
<1>11a. ASSUME NEW b \in Appender, NEW i \in DOMAIN pending[b]
        PROVE  pending[b][i].v \in Nat /\ pending[b][i].v =< appends
    <2>1. pending[b] \in Seq(Pending)
        BY <1>3
    <2>2. pending[b][i] \in Pending
        BY <2>1
    <2>3. pending[b][i].v =< appends
        BY DEF MemInv, NumbersApart
    <2> QED BY <2>2, <2>3 DEF Pending
<1>11b. ASSUME NEW i \in DOMAIN committed
        PROVE  committed[i].v \in Nat /\ committed[i].v =< appends
    <2>1. committed[i] \in Record
        BY <1>3
    <2>2. committed[i].v =< appends
        BY DEF MemInv, NumbersApart
    <2> QED BY <2>1, <2>2 DEF Record
<1>12. NumbersApart'
    <2>1. ASSUME NEW b \in Appender, NEW i \in DOMAIN pending'[b]
          PROVE  /\ pending'[b][i].v =< appends + 1
                 /\ \A j \in DOMAIN committed : pending'[b][i].v # committed[j].v
        <3>1. CASE IsNew(b, i)
            <4>1. \A j \in DOMAIN committed : committed[j].v # appends + 1
                BY <1>3, <1>11b
            <4> QED BY <1>3, <3>1, <4>1
        <3>2. CASE IsOld(b, i)
            <4>1. pending[b][i].v \in Nat /\ pending[b][i].v =< appends
                BY <1>11a, <3>2
            <4>2. \A j \in DOMAIN committed : pending[b][i].v # committed[j].v
                BY <3>2 DEF MemInv, NumbersApart
            <4> QED BY <1>3, <3>2, <4>1, <4>2
        <3> QED BY <1>11, <3>1, <3>2
    <2>2. ASSUME NEW b \in Appender, NEW i \in DOMAIN pending'[b],
                 NEW d \in Appender, NEW j \in DOMAIN pending'[d],
                 pending'[b][i].v = pending'[d][j].v
          PROVE  b = d /\ i = j
        <3>1. CASE IsOld(b, i) /\ IsOld(d, j)
            <4>1. pending[b][i].v = pending[d][j].v
                BY <2>2, <3>1
            <4> QED BY <3>1, <4>1 DEF MemInv, NumbersApart
        <3>2. CASE IsNew(b, i) /\ IsNew(d, j)
            BY <3>2
        <3>3. CASE IsNew(b, i) /\ IsOld(d, j)
            <4>1. pending[d][j].v \in Nat /\ pending[d][j].v =< appends
                BY <1>11a, <3>3
            <4> QED BY <1>3, <2>2, <3>3, <4>1
        <3>4. CASE IsOld(b, i) /\ IsNew(d, j)
            <4>1. pending[b][i].v \in Nat /\ pending[b][i].v =< appends
                BY <1>11a, <3>4
            <4> QED BY <1>3, <2>2, <3>4, <4>1
        <3>5. IsNew(b, i) \/ IsOld(b, i)
            BY <1>11
        <3>6. IsNew(d, j) \/ IsOld(d, j)
            BY <1>11
        <3> HIDE DEF IsNew, IsOld
        <3> QED BY ONLY <3>1, <3>2, <3>3, <3>4, <3>5, <3>6
    <2>3. \A i \in DOMAIN committed : committed[i].v =< appends + 1 /\ committed[i].batch < i
        <3>1. \A i \in DOMAIN committed : committed[i].batch < i
            BY DEF MemInv, NumbersApart
        <3> QED BY <1>3, <1>11b, <3>1
    <2>4. \A i, j \in DOMAIN committed : committed[i].v = committed[j].v => i = j
        BY DEF MemInv, NumbersApart
    <2> QED BY <1>1, <2>1, <2>2, <2>3, <2>4 DEF NumbersApart
<1>13. HistoryGrows
    BY <1>1, <1>9, GrowsSame DEF MemTypes
<1> QED BY <1>9, <1>10, <1>12, <1>13 DEF MemInv
LEMMA ConcatLen ==
    ASSUME NEW T, NEW C \in Seq(T), NEW B \in Seq(T)
    PROVE  Len(C \o B) = Len(C) + Len(B)
OBVIOUS

LEMMA CommitStep == \A a \in Appender : MemInv /\ Commit(a) => MemInv' /\ HistoryGrows
<1> SUFFICES ASSUME NEW a \in Appender, MemInv, Commit(a) PROVE MemInv' /\ HistoryGrows
    OBVIOUS
<1> DEFINE ps == pending[a]
           B == Batch(ps)
           C == committed
           N == Len(committed)
<1>1. UNCHANGED <<now, appends>> /\ pending' = [pending EXCEPT ![a] = << >>]
    BY DEF Commit
<1>2. /\ series' = appendSamples(ps).series /\ nextRef' = appendSamples(ps).nextRef
      /\ committed' = C \o B
    BY DEF Commit
<1>3. appends \in Nat /\ pending \in [Appender -> Seq(Pending)] /\ C \in Seq(Record) /\ now \in Int
    BY DEF MemInv, MemTypes
<1>4. ps \in Seq(Pending) /\ N \in Nat /\ Len(ps) \in Nat
    BY <1>3
<1>5. /\ C \o B \in Seq(Record)
      /\ StoreInv(appendSamples(ps).series, appendSamples(ps).nextRef, C \o B)
      /\ \A v : Holds(appendSamples(ps).series, v) =>
            Holds(series, v) \/ \E i \in 1 .. Len(ps) : v = ps[i].v
    BY <1>3, <1>4, AppendSamplesKeep DEF MemInv
<1>6. /\ B \in Seq(Record) /\ Len(B) = Len(ps)
      /\ \A i \in 1 .. Len(ps) : B[i].v = ps[i].v /\ B[i].batch = N
    BY <1>3, <1>4, BatchTyped
<1> HIDE DEF B, ps
<1>7. << >> \in Seq(Pending) /\ DOMAIN << >> = {}
    OBVIOUS
<1>8. MemTypes'
    BY <1>1, <1>2, <1>3, <1>5, <1>7 DEF MemTypes
<1>9. StoreInv(series, nextRef, committed)'
    BY <1>2, <1>5
<1>10. DOMAIN committed' = 1 .. N + Len(ps) /\ DOMAIN C = 1 .. N
    <2>0. Len(C \o B) = Len(C) + Len(B)
        BY <1>3, <1>6, ConcatLen
    <2>1. Len(C \o B) = N + Len(ps) /\ DOMAIN C = 1 .. N
        BY <1>3, <1>6, <2>0
    <2>2. DOMAIN committed' = 1 .. Len(committed')
        BY <1>2, <1>5
    <2> QED BY <1>2, <2>1, <2>2
\* What is committed was so, or is in the batch.
<1> DEFINE IsOld(i) == i \in DOMAIN C /\ committed'[i] = C[i]
           IsNew(i) == /\ i \in N + 1 .. N + Len(ps)
                       /\ i - N \in DOMAIN ps
                       /\ committed'[i] = B[i - N]
                       /\ committed'[i].v = ps[i - N].v
                       /\ committed'[i].batch = N
<1>11. ASSUME NEW i \in DOMAIN committed'
       PROVE  IsOld(i) \/ IsNew(i)
    <2>1. CASE i =< N
        <3>1. i \in 1 .. N
            BY <1>4, <1>10, <2>1
        <3>2. (C \o B)[i] = C[i]
            BY <1>3, <1>6, <3>1
        <3> QED BY <1>2, <1>10, <3>1, <3>2
    <2>2. CASE ~ (i =< N)
        <3>1. i \in N + 1 .. N + Len(ps) /\ i - N \in 1 .. Len(ps)
            BY <1>4, <1>10, <2>2
        <3>2. (C \o B)[i] = B[i - N]
            BY <1>3, <1>4, <1>6, <3>1
        <3>3. DOMAIN ps = 1 .. Len(ps)
            BY <1>4
        <3> QED BY <1>2, <1>6, <3>1, <3>2, <3>3
    <2> QED BY <2>1, <2>2
<1>12. \A i \in DOMAIN C : i \in DOMAIN committed' /\ committed'[i] = C[i]
    BY <1>2, <1>3, <1>4, <1>6, <1>10
<1>13. /\ \A b \in Appender : b # a => pending'[b] = pending[b]
       /\ DOMAIN pending'[a] = {}
    BY <1>1, <1>3, <1>7
<1>14. NumbersApart'
    <2>1. ASSUME NEW i \in DOMAIN committed'
          PROVE  committed'[i].v =< appends /\ committed'[i].batch < i
        <3>1. CASE IsOld(i)
            BY <3>1 DEF MemInv, NumbersApart
        <3>2. CASE IsNew(i)
            <4>1. ps[i - N].v =< appends
                BY <3>2 DEF MemInv, NumbersApart, ps
            <4>2. N < i
                BY <1>4, <3>2
            <4> QED BY <3>2, <4>1, <4>2
        <3> QED BY <1>11, <3>1, <3>2
    <2>2. ASSUME NEW i \in DOMAIN committed', NEW j \in DOMAIN committed',
                 committed'[i].v = committed'[j].v
          PROVE  i = j
        <3>1. CASE IsOld(i) /\ IsOld(j)
            BY <2>2, <3>1 DEF MemInv, NumbersApart
        <3>2. CASE IsNew(i) /\ IsNew(j)
            <4>1. ps[i - N].v = ps[j - N].v
                BY <2>2, <3>2
            <4>2. i - N = j - N
                BY <3>2, <4>1 DEF MemInv, NumbersApart, ps
            <4>3. i \in Int /\ j \in Int
                BY <1>4, <3>2
            <4> QED BY <1>4, <4>2, <4>3
        <3>3. CASE IsNew(i) /\ IsOld(j)
            BY <2>2, <3>3 DEF MemInv, NumbersApart, ps
        <3>4. CASE IsOld(i) /\ IsNew(j)
            BY <2>2, <3>4 DEF MemInv, NumbersApart, ps
        <3>5. IsOld(i) \/ IsNew(i)
            BY <1>11
        <3>6. IsOld(j) \/ IsNew(j)
            BY <1>11
        <3> HIDE DEF IsNew, IsOld
        <3> QED BY ONLY <3>1, <3>2, <3>3, <3>4, <3>5, <3>6
    <2>3. ASSUME NEW b \in Appender, NEW i \in DOMAIN pending'[b]
          PROVE  b # a /\ pending'[b] = pending[b] /\ i \in DOMAIN pending[b]
        BY <1>13
    <2>4. ASSUME NEW b \in Appender, NEW i \in DOMAIN pending'[b]
          PROVE  /\ pending'[b][i].v =< appends
                 /\ \A j \in DOMAIN committed' : pending'[b][i].v # committed'[j].v
        <3>1. b # a /\ pending'[b] = pending[b] /\ i \in DOMAIN pending[b]
            BY <2>3
        <3>2. pending[b][i].v =< appends
            BY <3>1 DEF MemInv, NumbersApart
        <3>3. ASSUME NEW j \in DOMAIN committed'
              PROVE  pending[b][i].v # committed'[j].v
            <4>1. CASE IsOld(j)
                BY <3>1, <4>1 DEF MemInv, NumbersApart
            <4>2. CASE IsNew(j)
                BY <3>1, <4>2 DEF MemInv, NumbersApart, ps
            <4> QED BY <1>11, <4>1, <4>2
        <3> QED BY <3>1, <3>2, <3>3
    <2>5. ASSUME NEW b \in Appender, NEW i \in DOMAIN pending'[b],
                 NEW d \in Appender, NEW j \in DOMAIN pending'[d],
                 pending'[b][i].v = pending'[d][j].v
          PROVE  b = d /\ i = j
        <3>1. pending'[b] = pending[b] /\ i \in DOMAIN pending[b]
            BY <2>3
        <3>2. pending'[d] = pending[d] /\ j \in DOMAIN pending[d]
            BY <2>3
        <3>3. pending[b][i].v = pending[d][j].v
            BY <2>5, <3>1, <3>2
        <3> QED BY <3>1, <3>2, <3>3 DEF MemInv, NumbersApart
    <2> QED BY <1>1, <2>1, <2>2, <2>4, <2>5 DEF NumbersApart
<1>15. \A u : u \in Committed' <=> \E i \in DOMAIN committed' : committed'[i] = u
    BY DEF Committed, ToSet
<1>16. Committed \subseteq Committed'
    BY <1>12, <1>15, CommittedPlaces
<1>17. ASSUME NEW u \in Committed', u \notin Committed, NEW s \in Committed
       PROVE  u.v # s.v /\ ~ (u.batch =< s.batch)
    <2>1. PICK i \in DOMAIN committed' : committed'[i] = u
        BY <1>15
    <2>2. PICK j \in DOMAIN C : C[j] = s
        BY CommittedPlaces
    <2>3. IsNew(i)
        BY <1>11, <1>17, <2>1, CommittedPlaces
    <2>4. u.v # s.v
        BY <2>1, <2>2, <2>3 DEF MemInv, NumbersApart, ps
    <2>5. s.batch < j /\ s \in Record
        BY <1>3, <2>2 DEF MemInv, NumbersApart
    <2>6. s.batch \in Nat /\ j \in 1 .. N
        BY <1>10, <2>5 DEF Record
    <2>7. u.batch = N
        BY <2>1, <2>3
    <2> QED BY <1>4, <2>4, <2>5, <2>6, <2>7
<1>18. ASSUME NEW u \in Findable', u \in Committed
       PROVE  u \in Findable
    <2>1. u.v \in Stored' /\ InOrder(u.lset)'
        BY DEF Findable
    <2>2. Holds(series', u.v)
        BY <2>1 DEF Stored, Entries, Values, Holds
    <2>3. PICK j \in DOMAIN C : C[j] = u
        BY <1>18, CommittedPlaces
    <2>4. \A i \in DOMAIN ps : u.v # ps[i].v
        BY <2>3 DEF MemInv, NumbersApart, ps
    <2>5. Holds(series, u.v)
        <3>1. DOMAIN ps = 1 .. Len(ps)
            BY <1>4
        <3> QED BY <1>2, <1>5, <2>2, <2>4, <3>1
    <2>6. SortedIn(committed', u.lset)
        <3>1. committed' \in Seq(Record)
            BY <1>2, <1>5
        <3>2. (committed \in Seq(Record) => \A l : InOrder(l) <=> SortedIn(committed, l))'
            BY InOrderSortedAll, PTL
        <3> QED BY <2>1, <3>1, <3>2
    <2>7. SortedIn(C, u.lset)
        BY <1>12, <2>6 DEF SortedIn
    <2>8. InOrder(u.lset)
        BY <1>3, <2>7, InOrderSorted
    <2> QED BY <1>18, <2>5, <2>8, StoredHolds DEF Findable
<1>19. HistoryGrows
    BY <1>16, <1>17, <1>18 DEF HistoryGrows
<1> QED BY <1>8, <1>9, <1>14, <1>19 DEF MemInv

LEMMA MemStutter == MemInv /\ UNCHANGED memVars => MemInv' /\ HistoryGrows
<1> SUFFICES ASSUME MemInv, UNCHANGED memVars PROVE MemInv' /\ HistoryGrows
    OBVIOUS
<1>1. UNCHANGED <<series, nextRef, pending, now, appends, committed>>
    BY DEF memVars
<1>2. MemTypes'
    BY <1>1 DEF MemInv, MemTypes
<1>3. StoreInv(series, nextRef, committed)'
    BY <1>1 DEF MemInv
<1>4. NumbersApart'
    BY <1>1 DEF MemInv, NumbersApart
<1>5. HistoryGrows
    BY <1>1, <1>2, GrowsSame DEF MemTypes
<1> QED BY <1>2, <1>3, <1>4, <1>5 DEF MemInv

LEMMA MemNextInv == MemInv /\ MemNext => MemInv' /\ HistoryGrows
BY PruneStep, TickStep, AppendStep, CommitStep, RollbackStep DEF MemNext
-----------------------------------------------------------------------------
(* What the store holds, and what pruning takes *)

LEMMA EntryPlace == \A e : e \in Entries <=> \E fp \in DOMAIN series : \E i \in DOMAIN series[fp] :
                                                e = series[fp][i]
BY DEF Entries

LEMMA FollowsFromInv == MemInv => SeriesFollowCommits
<1> SUFFICES ASSUME MemInv PROVE SeriesFollowCommits
    OBVIOUS
<1>1. StoreFollows(series, committed) /\ StoreApart(series, nextRef)
    BY DEF MemInv, StoreInv
<1>2. ASSUME NEW e \in Entries, NEW f \in Entries, e.lset = f.lset \/ e.ref = f.ref
      PROVE  e = f
    <2>1. PICK fp \in DOMAIN series : \E i \in DOMAIN series[fp] : e = series[fp][i]
        BY EntryPlace
    <2>2. PICK i \in DOMAIN series[fp] : e = series[fp][i]
        BY <2>1
    <2>3. PICK gp \in DOMAIN series : \E j \in DOMAIN series[gp] : f = series[gp][j]
        BY EntryPlace
    <2>4. PICK j \in DOMAIN series[gp] : f = series[gp][j]
        BY <2>3
    <2>5. fp = gp /\ i = j
        BY <1>1, <1>2, <2>2, <2>4 DEF StoreApart
    <2> QED BY <2>2, <2>4, <2>5
<1>3. ASSUME NEW fp \in DOMAIN series, NEW i \in DOMAIN series[fp]
      PROVE  LET e == series[fp][i]
                 h == History(e.lset)
             IN  /\ HashOf[e.lset] = fp
                 /\ 0 < Len(e.samples) /\ Len(e.samples) =< Len(h)
                 /\ \A k \in DOMAIN e.samples :
                       LET s == h[Len(h) - Len(e.samples) + k]
                       IN  e.samples[k] = [t |-> s.t, v |-> s.v]
    <2>1. /\ HashOf[series[fp][i].lset] = fp
          /\ LastOf(series[fp][i], HistoryIn(committed, series[fp][i].lset))
        BY <1>1 DEF StoreFollows
    <2>2. History(series[fp][i].lset) = HistoryIn(committed, series[fp][i].lset)
        BY DEF History, HistoryIn
    <2> QED BY <2>1, <2>2 DEF LastOf
<1> QED BY <1>2, <1>3 DEF SeriesFollowCommits

\* Where the samples of an entry are in the history.
LEMMA EntryInHistory ==
    ASSUME MemInv, NEW fp \in DOMAIN series, NEW i \in DOMAIN series[fp]
    PROVE  LET e == series[fp][i]
           IN  \E g : /\ e \in Entry
                      /\ \A k \in 1 .. Len(e.samples) :
                            /\ g[k] \in DOMAIN committed
                            /\ committed[g[k]].lset = e.lset
                            /\ committed[g[k]].t = e.samples[k].t
                            /\ committed[g[k]].v = e.samples[k].v
                      /\ \A j, k \in 1 .. Len(e.samples) : j < k => g[j] < g[k]
<1> DEFINE e == series[fp][i]
           C == committed
           h == HistoryIn(C, e.lset)
           I == {x \in DOMAIN C : C[x].lset = e.lset}
           N == Len(e.samples)
           d == Len(h) - N
<1>0. C \in Seq(Record)
    BY DEF MemInv, MemTypes
<1>1. e \in Entry
    <2>1. series[fp] \in Seq(Entry)
        BY DEF MemInv, StoreInv, StoreTyped
    <2> QED BY <2>1
<1>2. LastOf(e, h)
    BY DEF MemInv, StoreInv, StoreFollows
<1>3. PICK f : Places(h, C, I, Len(C), f)
    BY <1>0, HistoryTyped
<1>4. h \in Seq(Record) /\ e.samples \in Seq(Sample)
    BY <1>0, <1>1, HistoryTyped DEF Entry
<1>4a. \A x \in I : x \in DOMAIN C /\ C[x].lset = e.lset
    OBVIOUS
<1> HIDE DEF e, h, I
<1>5. N \in Nat /\ Len(h) \in Nat /\ d \in Nat /\ d + N = Len(h) /\ DOMAIN e.samples = 1 .. N
    BY <1>2, <1>4 DEF LastOf
<1>6. \A k \in 1 .. N : e.samples[k] = [t |-> h[d + k].t, v |-> h[d + k].v]
    BY <1>2, <1>5 DEF LastOf
<1> HIDE DEF d
<1> DEFINE g == [k \in 1 .. N |-> f[d + k]]
<1>7. \A k \in 1 .. N : d + k \in 1 .. Len(h)
    BY <1>5
<1>8. ASSUME NEW k \in 1 .. N
      PROVE  /\ g[k] \in DOMAIN C
             /\ C[g[k]].lset = e.lset
             /\ C[g[k]].t = e.samples[k].t
             /\ C[g[k]].v = e.samples[k].v
    <2>1. d + k \in 1 .. Len(h) /\ g[k] = f[d + k]
        BY <1>7
    <2>2. f[d + k] \in I /\ h[d + k] = C[f[d + k]]
        BY <1>3, <2>1 DEF Places
    <2>3. e.samples[k].t = h[d + k].t /\ e.samples[k].v = h[d + k].v
        <3>1. e.samples[k] = [t |-> h[d + k].t, v |-> h[d + k].v]
            BY ONLY <1>6, k \in 1 .. N
        <3> QED BY ONLY <3>1
    <2> QED BY <1>4a, <2>1, <2>2, <2>3
<1>9. ASSUME NEW j \in 1 .. N, NEW k \in 1 .. N, j < k
      PROVE  g[j] < g[k]
    <2>1. d + j < d + k
        BY <1>5, <1>9
    <2>2. f[d + j] < f[d + k]
        BY <1>3, <1>7, <2>1 DEF Places
    <2> QED BY <2>2
<1> HIDE DEF g
<1>10. \A j, k \in 1 .. N : j < k => g[j] < g[k]
    BY <1>9
<1> QED BY <1>1, <1>8, <1>10 DEF e

\* A number tells the place of its sample.
LEMMA NumberPlace ==
    ASSUME MemInv,
           NEW fp \in DOMAIN series, NEW i \in DOMAIN series[fp],
           NEW gp \in DOMAIN series, NEW j \in DOMAIN series[gp],
           NEW k \in 1 .. Len(series[fp][i].samples), NEW m \in 1 .. Len(series[gp][j].samples),
           series[fp][i].samples[k].v = series[gp][j].samples[m].v
    PROVE  fp = gp /\ i = j /\ k = m
<1> DEFINE e == series[fp][i]
           d == series[gp][j]
<1>1. PICK x : /\ e \in Entry
               /\ \A n \in 1 .. Len(e.samples) :
                     /\ x[n] \in DOMAIN committed
                     /\ committed[x[n]].lset = e.lset
                     /\ committed[x[n]].v = e.samples[n].v
               /\ \A a, b \in 1 .. Len(e.samples) : a < b => x[a] < x[b]
    BY EntryInHistory
<1>2. PICK y : /\ d \in Entry
               /\ \A n \in 1 .. Len(d.samples) :
                     /\ y[n] \in DOMAIN committed
                     /\ committed[y[n]].lset = d.lset
                     /\ committed[y[n]].v = d.samples[n].v
    BY EntryInHistory
<1>3. x[k] = y[m]
    BY <1>1, <1>2 DEF MemInv, NumbersApart
<1>4. e.lset = d.lset
    BY <1>1, <1>2, <1>3
<1>5. fp = gp /\ i = j
    BY <1>4 DEF MemInv, StoreInv, StoreApart
<1>6. x[m] = x[k]
    <2>1. m \in 1 .. Len(e.samples) /\ e.samples[m].v = e.samples[k].v
        BY <1>5
    <2> QED BY <1>1, <2>1 DEF MemInv, NumbersApart
<1>7. k = m
    <2>0. m \in 1 .. Len(e.samples) /\ k \in Int /\ m \in Int
        <3>1. e.samples \in Seq(Sample)
            BY <1>1 DEF Entry
        <3> QED BY <1>5, <3>1
    <2>1. x[k] \in Int
        <3>1. committed \in Seq(Record)
            BY DEF MemInv, MemTypes
        <3>2. x[k] \in 1 .. Len(committed) /\ Len(committed) \in Nat
            BY <1>1, <3>1
        <3> QED BY <3>2
    <2>2. ~ (k < m) /\ ~ (m < k)
        BY <1>1, <1>6, <2>0, <2>1
    <2> QED BY <2>0, <2>2
<1> QED BY <1>5, <1>7

\* The samples of a series that was committed in order are in order.
LEMMA EntrySorted ==
    ASSUME MemInv, NEW fp \in DOMAIN series, NEW i \in DOMAIN series[fp],
           InOrder(series[fp][i].lset)
    PROVE  \A j, k \in 1 .. Len(series[fp][i].samples) :
              j < k => series[fp][i].samples[j].t =< series[fp][i].samples[k].t
<1> DEFINE e == series[fp][i]
<1>1. PICK x : /\ e \in Entry
               /\ \A n \in 1 .. Len(e.samples) :
                     /\ x[n] \in DOMAIN committed
                     /\ committed[x[n]].lset = e.lset
                     /\ committed[x[n]].t = e.samples[n].t
               /\ \A a, b \in 1 .. Len(e.samples) : a < b => x[a] < x[b]
    BY EntryInHistory
<1>2. SortedIn(committed, e.lset)
    BY InOrderSorted DEF MemInv, MemTypes
<1> HIDE DEF e
<1>3. ASSUME NEW j \in 1 .. Len(e.samples), NEW k \in 1 .. Len(e.samples), j < k
      PROVE  e.samples[j].t =< e.samples[k].t
    <2>1. x[j] < x[k]
        BY <1>1, <1>3
    <2>2. committed[x[j]].t =< committed[x[k]].t
        BY <1>1, <1>2, <2>1 DEF SortedIn
    <2> QED BY <1>1, <2>2
<1> QED BY <1>3 DEF e
LEMMA PruneIsExact ==
    ASSUME MemInv, Prune, NEW e \in Entries, InOrder(e.lset)
    PROVE  Values(e.samples) \cap Stored' =
             {s.v : s \in {s \in ToSet(e.samples) : s.t >= now - Retention}}
<1> DEFINE cutoff == now - Retention
           old == e.samples
           new == pruneSamples(old, cutoff)
<1>1. cutoff \in Int
    BY MemStoreAssumption DEF MemInv, MemTypes
<1>2. Cut(series, cutoff, series')
    BY DEF Prune, Cut
<1> HIDE DEF cutoff
<1>3. PICK fp \in DOMAIN series : \E i \in DOMAIN series[fp] : e = series[fp][i]
    BY EntryPlace
<1>4. PICK i \in DOMAIN series[fp] : e = series[fp][i]
    BY <1>3
<1>5. StoreTyped(series) /\ series[fp] \in Seq(Entry)
    BY DEF MemInv, StoreInv, StoreTyped
<1>6. e \in Entry /\ old \in Seq(Sample) /\ Len(old) \in Nat /\ DOMAIN old = 1 .. Len(old)
    <2>1. e \in Entry
        BY <1>4, <1>5
    <2>2. old \in Seq(Sample)
        BY <2>1 DEF Entry
    <2> QED BY <2>1, <2>2
<1>7. PICK r \in 0 .. Len(old) :
              /\ new \in Seq(Sample)
              /\ Len(new) = Len(old) - r
              /\ \A k \in 1 .. Len(old) - r : new[k] = old[r + k]
              /\ r = 0 \/ old[r].t < cutoff
              /\ r = Len(old) \/ old[r + 1].t >= cutoff
    BY <1>1, <1>6, PruneKeepsLast
<1>7a. r \in Nat /\ r =< Len(old)
    BY <1>6
<1>7b. (r = 0 \/ old[r].t < cutoff) /\ (r = Len(old) \/ old[r + 1].t >= cutoff)
    BY <1>7
<1>8. \A j, k \in 1 .. Len(old) : j < k => old[j].t =< old[k].t
    BY <1>4, EntrySorted
<1>8a. \A k \in 1 .. Len(old) : old[k].t \in Int
    <2> TAKE k \in 1 .. Len(old)
    <2>1. old[k] \in Sample
        BY <1>6, ElementIn
    <2> QED BY <2>1 DEF Sample
\* The first r samples are older than the cutoff, the others are not.
<1>9. ASSUME NEW k \in 1 .. Len(old)
      PROVE  old[k].t >= cutoff <=> r < k
    <2> HIDE DEF old, new
    <2>0. r \in Nat /\ r =< Len(old) /\ k \in Nat /\ 0 < k /\ k =< Len(old)
        BY <1>6, <1>7a
    <2>1. CASE r < k
        <3>1. r + 1 \in 1 .. Len(old) /\ old[r + 1].t >= cutoff
            <4>0. Len(old) \in Nat
                BY <1>6
            <4>1. r # Len(old) /\ r + 1 \in 1 .. Len(old)
                <5>1. r < Len(old)
                    BY ONLY <2>0, <2>1, <4>0
                <5> QED BY ONLY <2>0, <4>0, <5>1
            <4> QED BY ONLY <1>7b, <4>1
        <3>2. k = r + 1 \/ r + 1 < k
            BY <2>0, <2>1
        <3>3. k = r + 1 \/ old[r + 1].t =< old[k].t
            BY <1>8, <3>1, <3>2
        <3>4. old[k].t \in Int /\ old[r + 1].t \in Int
            BY <1>8a, <3>1
        <3> QED BY <1>1, <2>1, <3>1, <3>3, <3>4
    <2>2. CASE ~ (r < k)
        <3>1. r \in 1 .. Len(old) /\ old[r].t < cutoff
            <4>1. r # 0 /\ r \in 1 .. Len(old)
                BY ONLY <1>6, <2>0, <2>2
            <4> QED BY ONLY <1>7b, <4>1
        <3>2. k = r \/ k < r
            BY <2>0, <2>2
        <3>3. k = r \/ old[k].t =< old[r].t
            BY <1>8, <3>1, <3>2
        <3>4. old[k].t \in Int /\ old[r].t \in Int
            BY <1>8a, <3>1
        <3> QED BY <1>1, <2>2, <3>1, <3>3, <3>4
    <2> QED BY <2>1, <2>2
\* What is not older stays.
<1>10. ASSUME NEW k \in 1 .. Len(old), r < k
       PROVE  Holds(series', old[k].v)
    <2>0. k - r \in 1 .. Len(old) - r /\ r + (k - r) = k
        BY <1>6, <1>7, <1>10
    <2>1. new[k - r] = old[k] /\ new # << >> /\ k - r \in DOMAIN new
        <3>1. new[k - r] = old[r + (k - r)]
            BY <1>7, <2>0
        <3>2. DOMAIN new = 1 .. Len(old) - r
            BY <1>7
        <3> HIDE DEF new, old
        <3> QED BY <2>0, <3>1, <3>2
    <2>2. PICK f : LeftIn(series[fp], cutoff, Pruned(series[fp], cutoff), f)
        BY <1>1, <1>5, PrunedBucket
    <2>3. CutEntry(e, cutoff).samples = new
        BY <1>1, <1>6, CutEntryLast
    <2>4. i \in 1 .. Len(series[fp]) /\ e = series[fp][i]
        BY <1>4, <1>5
    <2> DEFINE left == Pruned(series[fp], cutoff)
    <2>5. PICK m \in 1 .. Len(left) : f[m] = i
        BY <2>1, <2>2, <2>3, <2>4 DEF LeftIn
    <2>6. left[m] = CutEntry(e, cutoff) /\ left \in Seq(Entry)
        BY <2>2, <2>4, <2>5 DEF LeftIn
    <2> HIDE DEF left
    <2>7. m \in DOMAIN left /\ left # << >>
        BY <2>5, <2>6
    <2>8. fp \in DOMAIN series' /\ series'[fp] = left
        BY <1>2, <2>7 DEF Cut, left
    <2>9. series'[fp][m].samples = new /\ m \in DOMAIN series'[fp]
        BY <2>3, <2>6, <2>7, <2>8
    <2> HIDE DEF new, old
    <2> QED BY <2>1, <2>8, <2>9 DEF Holds
\* What is older goes.
<1>11. ASSUME NEW k \in 1 .. Len(old), Holds(series', old[k].v)
       PROVE  r < k
    <2>1. PICK gp \in DOMAIN series' :
             \E j \in DOMAIN series'[gp] : \E m \in DOMAIN series'[gp][j].samples :
                series'[gp][j].samples[m].v = old[k].v
        BY <1>11 DEF Holds
    <2>2. PICK j \in DOMAIN series'[gp] :
             \E m \in DOMAIN series'[gp][j].samples : series'[gp][j].samples[m].v = old[k].v
        BY <2>1
    <2>3. PICK m \in DOMAIN series'[gp][j].samples : series'[gp][j].samples[m].v = old[k].v
        BY <2>2
    <2>4. gp \in DOMAIN series /\ series[gp] \in Seq(Entry)
          /\ \E f : LeftIn(series[gp], cutoff, series'[gp], f)
        BY <1>1, <1>2, <1>5, CutPlace
    <2>5. PICK f : LeftIn(series[gp], cutoff, series'[gp], f)
        BY <2>4
    <2>6. j \in 1 .. Len(series'[gp]) /\ f[j] \in DOMAIN series[gp] /\ series[gp][f[j]] \in Entry
        BY <2>4, <2>5 DEF LeftIn
    <2> DEFINE d == series[gp][f[j]]
               was == d.samples
               is == pruneSamples(was, cutoff)
    <2>7. series'[gp][j].samples = is
        <3>1. series'[gp][j] = CutEntry(d, cutoff)
            BY <2>5, <2>6 DEF LeftIn
        <3>2. CutEntry(d, cutoff).samples = is
            BY <1>1, <2>6, CutEntryLast
        <3> QED BY ONLY <3>1, <3>2
    <2>8. was \in Seq(Sample)
        BY <2>6 DEF Entry
    <2>9. PICK q \in 0 .. Len(was) :
              /\ is \in Seq(Sample)
              /\ Len(is) = Len(was) - q
              /\ \A n \in 1 .. Len(was) - q : is[n] = was[q + n]
        BY <1>1, <2>8, PruneKeepsLast
    <2>10. m \in 1 .. Len(was) - q /\ is[m].v = old[k].v
        <3> HIDE DEF is
        <3> QED BY <2>3, <2>7, <2>9
    <2>11. q + m \in 1 .. Len(was) /\ was[q + m].v = old[k].v
        <3>1. is[m] = was[q + m]
            BY ONLY <2>9, <2>10
        <3>2. Len(was) \in Nat /\ q \in Nat
            BY <2>8
        <3> HIDE DEF is, was, old
        <3> QED BY ONLY <2>10, <3>1, <3>2
    <2>12. fp = gp /\ i = f[j] /\ k = q + m
        <3>1. series[fp][i].samples[k].v = series[gp][f[j]].samples[q + m].v
            BY ONLY <1>4, <2>11
        <3>2. k \in 1 .. Len(series[fp][i].samples)
            BY ONLY <1>4, k \in 1 .. Len(old)
        <3>3. q + m \in 1 .. Len(series[gp][f[j]].samples)
            BY ONLY <2>11
        <3>4. gp \in DOMAIN series /\ f[j] \in DOMAIN series[gp]
            BY ONLY <2>4, <2>6
        <3> QED BY ONLY <3>1, <3>2, <3>3, <3>4, NumberPlace, MemInv,
                        fp \in DOMAIN series, i \in DOMAIN series[fp]
    <2>13. was = old /\ is = new
        BY ONLY <1>4, <2>12
    <2>14. Len(old) - q = Len(old) - r /\ q \in Nat /\ r \in Nat
        <3>1. q \in Nat
            BY <2>8
        <3>2. Len(new) = Len(old) - r /\ Len(is) = Len(was) - q
            BY <1>7, <2>9
        <3> HIDE DEF new, old, was, is
        <3> QED BY ONLY <1>6, <1>7a, <2>13, <3>1, <3>2
    <2>15. q = r /\ m \in Nat /\ 0 < m
        <3> HIDE DEF new, old, was, is
        <3> QED BY ONLY <1>6, <2>10, <2>13, <2>14
    <2> QED BY ONLY <2>12, <2>14, <2>15
<1>12. \A v : v \in Stored' <=> Holds(series', v)
    BY DEF Stored, Entries, Values, Holds
<1>13. \A v : v \in Values(old) <=> \E k \in 1 .. Len(old) : v = old[k].v
    BY <1>6 DEF Values
<1>14. \A s : s \in ToSet(old) <=> \E k \in 1 .. Len(old) : s = old[k]
    BY <1>6 DEF ToSet
<1> DEFINE kept == {s.v : s \in {s \in ToSet(old) : s.t >= cutoff}}
<1>15. ASSUME NEW v, v \in Values(old) \cap Stored'
       PROVE  v \in kept
    <2>1. PICK k \in 1 .. Len(old) : v = old[k].v
        BY <1>13, <1>15
    <2>2. Holds(series', old[k].v)
        BY <1>12, <1>15, <2>1
    <2>3. old[k].t >= cutoff /\ old[k] \in ToSet(old)
        BY <1>9, <1>11, <1>14, <2>2
    <2> QED BY <2>1, <2>3
<1>16. ASSUME NEW v, v \in kept
       PROVE  v \in Values(old) \cap Stored'
    <2>1. PICK s \in ToSet(old) : s.t >= cutoff /\ v = s.v
        BY <1>16
    <2>2. PICK k \in 1 .. Len(old) : s = old[k]
        BY <1>14, <2>1
    <2>3. Holds(series', old[k].v)
        BY <1>9, <1>10, <2>1, <2>2
    <2> QED BY <1>12, <1>13, <2>1, <2>2, <2>3
<1>17. Values(old) \cap Stored' = kept
    <2> HIDE DEF kept, old
    <2> QED BY <1>15, <1>16
<1> QED BY <1>17 DEF cutoff
-----------------------------------------------------------------------------
(* Reading *)

LEMMA FilterPlaces ==
    ASSUME NEW samples \in Seq(Sample), NEW mint, NEW maxt
    PROVE  /\ filterSamples(samples, mint, maxt) \in Seq(Sample)
           /\ \E f : Places(filterSamples(samples, mint, maxt), samples,
                            {i \in DOMAIN samples : samples[i].t >= mint /\ samples[i].t =< maxt},
                            Len(samples), f)
BY SelectAtPlaces DEF filterSamples

InTime(samples) == \A i, j \in 1 .. Len(samples) : i < j => samples[i].t =< samples[j].t

\* filterSamples keeps what is in the range, and the order.
Filtered(z, samples, mint, maxt) ==
    /\ z \in Seq(Sample)
    /\ \A m \in 1 .. Len(z) : \E i \in 1 .. Len(samples) :
          z[m] = samples[i] /\ samples[i].t >= mint /\ samples[i].t =< maxt
    /\ \A i \in 1 .. Len(samples) : samples[i].t >= mint /\ samples[i].t =< maxt =>
          \E m \in 1 .. Len(z) : z[m] = samples[i]
    /\ InTime(samples) => InTime(z)

LEMMA FilterKeeps ==
    ASSUME NEW samples \in Seq(Sample), NEW mint, NEW maxt
    PROVE  Filtered(filterSamples(samples, mint, maxt), samples, mint, maxt)
<1> DEFINE z == filterSamples(samples, mint, maxt)
           I == {i \in DOMAIN samples : samples[i].t >= mint /\ samples[i].t =< maxt}
<1>1. z \in Seq(Sample)
    BY FilterPlaces
<1>2. PICK f : Places(z, samples, I, Len(samples), f)
    BY FilterPlaces
<1>3. DOMAIN samples = 1 .. Len(samples) /\ Len(samples) \in Nat
    OBVIOUS
<1>4. \A i : i \in I <=> i \in 1 .. Len(samples) /\ samples[i].t >= mint /\ samples[i].t =< maxt
    BY <1>3
<1> HIDE DEF I, z
<1>5. \A m \in 1 .. Len(z) : f[m] \in I /\ z[m] = samples[f[m]]
    BY <1>2 DEF Places
<1>6. \A m \in 1 .. Len(z) : \E i \in 1 .. Len(samples) :
                 z[m] = samples[i] /\ samples[i].t >= mint /\ samples[i].t =< maxt
    BY <1>4, <1>5
<1>7. ASSUME NEW i \in 1 .. Len(samples), samples[i].t >= mint, samples[i].t =< maxt
      PROVE  \E m \in 1 .. Len(z) : z[m] = samples[i]
    <2>1. i \in I \cap (1 .. Len(samples))
        BY <1>4, <1>7
    <2>2. PICK m \in 1 .. Len(z) : f[m] = i
        BY <1>2, <2>1 DEF Places
    <2> QED BY <1>5, <2>2
<1>8. ASSUME InTime(samples),
             NEW i \in 1 .. Len(z), NEW j \in 1 .. Len(z), i < j
      PROVE  z[i].t =< z[j].t
    <2>1. f[i] < f[j]
        BY <1>2, <1>8 DEF Places
    <2>2. f[i] \in 1 .. Len(samples) /\ f[j] \in 1 .. Len(samples)
        BY <1>4, <1>5
    <2>3. samples[f[i]].t =< samples[f[j]].t
        BY <1>8, <2>1, <2>2 DEF InTime
    <2> QED BY <1>5, <2>3
<1>9. InTime(samples) => InTime(z)
    BY <1>8 DEF InTime
<1>10. Filtered(z, samples, mint, maxt)
    BY <1>1, <1>6, <1>7, <1>9 DEF Filtered
<1> QED BY <1>10 DEF z

LEMMA SeekFirst ==
    ASSUME NEW z \in Seq(Sample), NEW t \in Int
    PROVE  /\ Seek(z, t) \in 1 .. Len(z) + 1
           /\ \A i \in 1 .. Len(z) : z[i].t >= t => Seek(z, t) =< i
<1> DEFINE T == {i \in 1 .. Len(z) + 1 : i =< Len(z) => z[i].t >= t}
<1>0. Len(z) \in Nat
    OBVIOUS
<1>1. T \subseteq Nat /\ T \subseteq 1 .. Len(z) + 1 /\ Len(z) + 1 \in T
    BY <1>0
<1>2. \A i \in 1 .. Len(z) : z[i].t >= t => i \in T
    BY <1>0
<1>3. Seek(z, t) = Min(T)
    BY DEF Seek
<1> HIDE DEF T
<1>4. \E x \in T : \A y \in T : x =< y
    BY <1>1, LeastNat
<1>5. Min(T) \in T /\ \A y \in T : Min(T) =< y
    BY <1>4 DEF Min
<1> QED BY <1>1, <1>2, <1>3, <1>5

\* The engine finds, in what filterSamples left of samples in order, every
\* sample in the range of its hints.
LEMMA EngineReadFinds ==
    ASSUME NEW samples \in Seq(Sample), InTime(samples),
           NEW hints, hints.start \in Int, hints.end \in Int, NEW mint \in Int, NEW maxt \in Int,
           mint =< hints.start, hints.end =< maxt,
           NEW k \in 1 .. Len(samples), hints.start =< samples[k].t, samples[k].t =< hints.end
    PROVE  /\ samples[k].v \in EngineRead(filterSamples(samples, mint, maxt), hints)
           /\ filterSamples(samples, mint, maxt) # << >>
<1> DEFINE z == filterSamples(samples, mint, maxt)
           first == Seek(z, hints.start)
<1>1. samples[k].t \in Int
    <2>1. samples[k] \in Sample
        BY ElementIn
    <2> QED BY <2>1 DEF Sample
<1>2. samples[k].t >= mint /\ samples[k].t =< maxt
    BY <1>1
<1>3. /\ z \in Seq(Sample)
      /\ \A i \in 1 .. Len(samples) : samples[i].t >= mint /\ samples[i].t =< maxt =>
            \E m \in 1 .. Len(z) : z[m] = samples[i]
      /\ \A i, j \in 1 .. Len(z) : i < j => z[i].t =< z[j].t
    <2>1. Filtered(z, samples, mint, maxt)
        BY FilterKeeps
    <2> HIDE DEF z
    <2> QED BY <2>1 DEF Filtered, InTime
<1> HIDE DEF z
<1>4. PICK m \in 1 .. Len(z) : z[m] = samples[k]
    BY <1>2, <1>3
<1>4a. Len(z) \in Nat /\ m \in Nat
    BY <1>3
<1>5. first \in 1 .. Len(z) + 1 /\ first =< m
    BY <1>1, <1>3, <1>4, SeekFirst
<1> HIDE DEF first
<1>6. m \in first .. Len(z)
    BY <1>4a, <1>5
<1>7. ASSUME NEW j \in first .. m
      PROVE  z[j].t =< hints.end
    <2>1. j \in 1 .. Len(z) /\ (j = m \/ j < m)
        BY <1>4a, <1>5
    <2>2. j = m \/ z[j].t =< z[m].t
        BY <1>3, <2>1
    <2>3. z[j] \in Sample
        BY <1>3, <2>1, ElementIn
    <2>4. z[j].t \in Int
        BY <2>3 DEF Sample
    <2>5. CASE j = m
        BY <1>4, <2>5
    <2>6. CASE z[j].t =< z[m].t
        BY ONLY <1>1, <1>4, <2>4, <2>6, samples[k].t =< hints.end, hints.end \in Int
    <2> QED BY <2>2, <2>5, <2>6
<1>8. EngineRead(z, hints) = {z[i].v : i \in {i \in first .. Len(z) :
                                 \A j \in first .. i : z[j].t =< hints.end}}
    BY DEF EngineRead, first
<1>9. z[m].v \in EngineRead(z, hints)
    BY <1>6, <1>7, <1>8
<1>10. z # << >>
    BY <1>4, <1>4a
<1> QED BY <1>4, <1>9, <1>10 DEF z

\* The engine reads nothing else.
LEMMA EngineReadOnly ==
    ASSUME NEW z \in Seq(Sample), NEW hints, hints.start \in Int,
           NEW v \in EngineRead(z, hints)
    PROVE  \E i \in 1 .. Len(z) : v = z[i].v
<1> DEFINE first == Seek(z, hints.start)
<1>1. first \in 1 .. Len(z) + 1 /\ Len(z) \in Nat
    BY SeekFirst
<1>2. EngineRead(z, hints) = {z[i].v : i \in {i \in first .. Len(z) :
                                 \A j \in first .. i : z[j].t =< hints.end}}
    BY DEF EngineRead
<1> HIDE DEF first
<1>3. PICK i \in first .. Len(z) : v = z[i].v
    BY <1>2
<1>4. i \in 1 .. Len(z)
    BY <1>1
<1> QED BY <1>3, <1>4

\* The entry that holds a sample.
LEMMA FindableEntry ==
    ASSUME MemInv, NEW s \in Findable
    PROVE  \E e \in Entries :
              /\ e \in Entry
              /\ e.lset = s.lset
              /\ \E k \in 1 .. Len(e.samples) : e.samples[k].t = s.t /\ e.samples[k].v = s.v
              /\ InTime(e.samples)
<1>1. s \in Committed /\ Holds(series, s.v) /\ InOrder(s.lset)
    BY StoredHolds DEF Findable
<1>2. PICK x \in DOMAIN committed : committed[x] = s
    BY <1>1, CommittedPlaces
<1>3. PICK fp \in DOMAIN series : \E i \in DOMAIN series[fp] :
              \E k \in DOMAIN series[fp][i].samples : series[fp][i].samples[k].v = s.v
    BY <1>1 DEF Holds
<1>4. PICK i \in DOMAIN series[fp] :
              \E k \in DOMAIN series[fp][i].samples : series[fp][i].samples[k].v = s.v
    BY <1>3
<1> DEFINE e == series[fp][i]
<1>5. PICK g : /\ e \in Entry
               /\ \A k \in 1 .. Len(e.samples) :
                     /\ g[k] \in DOMAIN committed
                     /\ committed[g[k]].lset = e.lset
                     /\ committed[g[k]].t = e.samples[k].t
                     /\ committed[g[k]].v = e.samples[k].v
               /\ \A j, k \in 1 .. Len(e.samples) : j < k => g[j] < g[k]
    BY ONLY EntryInHistory, MemInv, fp \in DOMAIN series, i \in DOMAIN series[fp]
<1>6. e.samples \in Seq(Sample)
    BY <1>5 DEF Entry
<1>7. PICK k \in 1 .. Len(e.samples) : e.samples[k].v = s.v
    BY <1>4, <1>6
<1>8. g[k] = x
    BY <1>2, <1>5, <1>7 DEF MemInv, NumbersApart
<1>9. e.lset = s.lset /\ e.samples[k].t = s.t
    BY <1>2, <1>5, <1>7, <1>8
<1>10. \A a, b \in 1 .. Len(e.samples) : a < b => e.samples[a].t =< e.samples[b].t
    BY <1>1, <1>9, EntrySorted
<1>11. e \in Entries
    BY EntryPlace
<1> HIDE DEF e
<1>12. InTime(e.samples)
    BY <1>10 DEF InTime
<1> QED BY <1>5, <1>7, <1>9, <1>11, <1>12

\* Every sample of an entry was committed.
LEMMA EntryCommitted ==
    ASSUME MemInv, NEW e \in Entries
    PROVE  /\ e \in Entry
           /\ 0 < Len(e.samples)
           /\ \A k \in 1 .. Len(e.samples) :
                 \E c \in Committed : c.lset = e.lset /\ c.v = e.samples[k].v
<1>1. PICK fp \in DOMAIN series : \E i \in DOMAIN series[fp] : e = series[fp][i]
    BY EntryPlace
<1>2. PICK i \in DOMAIN series[fp] : e = series[fp][i]
    BY <1>1
<1> DEFINE d == series[fp][i]
<1>2a. PICK g : /\ d \in Entry
                /\ \A k \in 1 .. Len(d.samples) :
                      /\ g[k] \in DOMAIN committed
                      /\ committed[g[k]].lset = d.lset
                      /\ committed[g[k]].t = d.samples[k].t
                      /\ committed[g[k]].v = d.samples[k].v
                /\ \A j, k \in 1 .. Len(d.samples) : j < k => g[j] < g[k]
    BY ONLY EntryInHistory, MemInv, fp \in DOMAIN series, i \in DOMAIN series[fp]
<1>3. /\ e \in Entry
      /\ \A k \in 1 .. Len(e.samples) :
            /\ g[k] \in DOMAIN committed
            /\ committed[g[k]].lset = e.lset
            /\ committed[g[k]].v = e.samples[k].v
    BY ONLY <1>2, <1>2a
<1>4. LastOf(e, HistoryIn(committed, e.lset))
    BY <1>2 DEF MemInv, StoreInv, StoreFollows
<1>5. 0 < Len(e.samples)
    BY <1>4 DEF LastOf
<1>6. ASSUME NEW k \in 1 .. Len(e.samples)
      PROVE  \E c \in Committed : c.lset = e.lset /\ c.v = e.samples[k].v
    <2>1. committed[g[k]] \in Committed
        BY <1>3, CommittedPlaces
    <2> QED BY <1>3, <2>1
<1> QED BY <1>3, <1>5, <1>6

LEMMA SelectEntries ==
    ASSUME NEW mint, NEW maxt, NEW M
    PROVE  \A x : x \in Select(mint, maxt, M) <=>
              \E e \in Entries : /\ matchesAll(e.lset, M)
                                 /\ filterSamples(e.samples, mint, maxt) # << >>
                                 /\ x = [lset |-> e.lset,
                                         samples |-> filterSamples(e.samples, mint, maxt)]
BY DEF Select
\* A reading of the engine: what EngineSelect adds to the answer.
EngineGets(mint, maxt, hints, M) ==
    UNION {EngineRead(s.samples, hints) : s \in Select(mint, maxt, M)}

LEMMA EngineFinds ==
    ASSUME MemInv, NEW s \in Findable, NEW M, matchesAll(s.lset, M),
           NEW hints, hints.start \in Int, hints.end \in Int, NEW mint \in Int, NEW maxt \in Int,
           mint =< hints.start, hints.end =< maxt, hints.start =< s.t, s.t =< hints.end
    PROVE  s.v \in EngineGets(mint, maxt, hints, M)
<1>1. PICK e \in Entries :
              /\ e \in Entry
              /\ e.lset = s.lset
              /\ \E k \in 1 .. Len(e.samples) : e.samples[k].t = s.t /\ e.samples[k].v = s.v
              /\ InTime(e.samples)
    BY FindableEntry
<1>2. PICK k \in 1 .. Len(e.samples) : e.samples[k].t = s.t /\ e.samples[k].v = s.v
    BY <1>1
<1>3. e.samples \in Seq(Sample)
    BY <1>1 DEF Entry
<1> DEFINE q == e.samples
           z == filterSamples(q, mint, maxt)
           x == [lset |-> e.lset, samples |-> z]
<1>4. q[k].v \in EngineRead(z, hints) /\ z # << >>
    <2>1. q \in Seq(Sample) /\ InTime(q) /\ k \in 1 .. Len(q) /\ q[k].t = s.t
        BY <1>1, <1>2, <1>3
    <2> HIDE DEF q
    <2> QED BY <2>1, EngineReadFinds
<1>5. x \in Select(mint, maxt, M)
    BY <1>1, <1>4, SelectEntries
<1>6. x.samples = z
    OBVIOUS
<1> HIDE DEF x, z
<1> QED BY <1>2, <1>4, <1>5, <1>6 DEF EngineGets

LEMMA SelectFinds ==
    ASSUME MemInv, NEW s \in Findable, NEW M, matchesAll(s.lset, M),
           NEW mint \in Int, NEW maxt \in Int, mint =< s.t, s.t =< maxt
    PROVE  s.lset \in {x.lset : x \in Select(mint, maxt, M)}
<1>1. PICK e \in Entries :
              /\ e \in Entry
              /\ e.lset = s.lset
              /\ \E k \in 1 .. Len(e.samples) : e.samples[k].t = s.t /\ e.samples[k].v = s.v
    BY FindableEntry
<1>2. PICK k \in 1 .. Len(e.samples) : e.samples[k].t = s.t
    BY <1>1
<1>3. e.samples \in Seq(Sample)
    BY <1>1 DEF Entry
<1> DEFINE q == e.samples
           z == filterSamples(q, mint, maxt)
           x == [lset |-> e.lset, samples |-> z]
<1>4. z # << >>
    <2>1. q \in Seq(Sample) /\ k \in 1 .. Len(q) /\ q[k].t = s.t
        BY <1>2, <1>3
    <2>2. Filtered(z, q, mint, maxt)
        <3> HIDE DEF q
        <3> QED BY <2>1, FilterKeeps
    <2>2a. q[k].t \in Int
        <3>1. q[k] \in Sample
            BY <2>1, ElementIn
        <3> QED BY <3>1 DEF Sample
    <2>3. q[k].t >= mint /\ q[k].t =< maxt
        BY <2>1, <2>2a
    <2> HIDE DEF q, z
    <2>4. z \in Seq(Sample) /\ \E m \in 1 .. Len(z) : z[m] = q[k]
        BY ONLY <2>1, <2>2, <2>3 DEF Filtered
    <2> QED BY ONLY <2>4
<1>5. x \in Select(mint, maxt, M)
    BY <1>1, <1>4, SelectEntries
<1>6. x.lset = s.lset
    BY <1>1
<1> HIDE DEF x
<1> QED BY <1>5, <1>6

\* What Select returns is part of an entry that matches.
LEMMA SelectOnly ==
    ASSUME MemInv, NEW mint, NEW maxt, NEW M, NEW x \in Select(mint, maxt, M)
    PROVE  /\ matchesAll(x.lset, M)
           /\ x.samples \in Seq(Sample)
           /\ \E c \in Committed : c.lset = x.lset
           /\ \A m \in 1 .. Len(x.samples) :
                 \E c \in Committed : c.lset = x.lset /\ c.v = x.samples[m].v
<1>1. PICK e \in Entries : /\ matchesAll(e.lset, M)
                           /\ x = [lset |-> e.lset,
                                   samples |-> filterSamples(e.samples, mint, maxt)]
    BY SelectEntries
<1>2. x.lset = e.lset /\ x.samples = filterSamples(e.samples, mint, maxt)
    BY <1>1
<1>3. /\ e \in Entry
      /\ 0 < Len(e.samples)
      /\ \A k \in 1 .. Len(e.samples) :
            \E c \in Committed : c.lset = e.lset /\ c.v = e.samples[k].v
    BY EntryCommitted
<1>4. e.samples \in Seq(Sample)
    BY <1>3 DEF Entry
<1>5. Filtered(x.samples, e.samples, mint, maxt)
    BY <1>2, <1>4, FilterKeeps
<1>6. x.samples \in Seq(Sample)
    BY <1>5 DEF Filtered
<1>7. ASSUME NEW m \in 1 .. Len(x.samples)
      PROVE  \E c \in Committed : c.lset = x.lset /\ c.v = x.samples[m].v
    <2>1. PICK k \in 1 .. Len(e.samples) : x.samples[m] = e.samples[k]
        BY <1>5 DEF Filtered
    <2> QED BY <1>2, <1>3, <2>1
<1>8. \E c \in Committed : c.lset = x.lset
    <2>1. 1 \in 1 .. Len(e.samples)
        BY <1>3, <1>4
    <2> QED BY <1>2, <1>3, <2>1
<1> QED BY <1>1, <1>2, <1>6, <1>7, <1>8

LEMMA EngineOnly ==
    ASSUME MemInv, NEW mint, NEW maxt, NEW M, NEW hints, hints.start \in Int,
           NEW v \in EngineGets(mint, maxt, hints, M)
    PROVE  \E c \in Committed : matchesAll(c.lset, M) /\ c.v = v
<1>1. PICK x \in Select(mint, maxt, M) : v \in EngineRead(x.samples, hints)
    BY DEF EngineGets
<1>2. /\ matchesAll(x.lset, M)
      /\ x.samples \in Seq(Sample)
      /\ \A m \in 1 .. Len(x.samples) :
            \E c \in Committed : c.lset = x.lset /\ c.v = x.samples[m].v
    BY SelectOnly
<1>3. PICK m \in 1 .. Len(x.samples) : v = x.samples[m].v
    BY <1>1, <1>2, EngineReadOnly
<1> QED BY <1>2, <1>3

\* The series that the label requests look at are those that Select returns,
\* and a wider range has no fewer.
LEMMA ListedSelected ==
    ASSUME MemInv, NEW mint \in Int, NEW maxt \in Int, NEW M
    PROVE  Listed(mint, maxt, M) = {x.lset : x \in Select(mint, maxt, M)}
<1>1. ASSUME NEW e \in Entries
      PROVE  hasOverlap(e.samples, mint, maxt) <=> filterSamples(e.samples, mint, maxt) # << >>
    <2> DEFINE q == e.samples
               z == filterSamples(q, mint, maxt)
    <2>1. e \in Entry
        BY EntryCommitted
    <2>2. q \in Seq(Sample)
        BY <2>1 DEF Entry
    <2>3. hasOverlap(q, mint, maxt) <=>
             \E i \in 1 .. Len(q) : q[i].t >= mint /\ q[i].t =< maxt
        BY <2>2 DEF hasOverlap
    <2>4. Filtered(z, q, mint, maxt)
        <3> HIDE DEF q
        <3> QED BY <2>2, FilterKeeps
    <2> HIDE DEF q, z
    <2>5. z \in Seq(Sample)
        BY <2>4 DEF Filtered
    <2>6. z # << >> <=> \E m \in 1 .. Len(z) : TRUE
        BY <2>5
    <2>7. hasOverlap(q, mint, maxt) <=> z # << >>
        BY ONLY <2>3, <2>4, <2>6 DEF Filtered
    <2> QED BY <2>7 DEF q, z
<1>2. \A l : l \in Listed(mint, maxt, M) <=>
          \E e \in Entries : /\ matchesAll(e.lset, M)
                             /\ hasOverlap(e.samples, mint, maxt)
                             /\ l = e.lset
    BY DEF Listed
<1>3. ASSUME NEW e \in Entries, matchesAll(e.lset, M),
             filterSamples(e.samples, mint, maxt) # << >>
      PROVE  e.lset \in {x.lset : x \in Select(mint, maxt, M)}
    <2> DEFINE x == [lset |-> e.lset, samples |-> filterSamples(e.samples, mint, maxt)]
    <2>1. x \in Select(mint, maxt, M)
        BY <1>3, SelectEntries
    <2>2. x.lset = e.lset
        OBVIOUS
    <2> HIDE DEF x
    <2> QED BY <2>1, <2>2
<1>4. ASSUME NEW x \in Select(mint, maxt, M)
      PROVE  x.lset \in Listed(mint, maxt, M)
    <2>1. PICK e \in Entries : /\ matchesAll(e.lset, M)
                               /\ filterSamples(e.samples, mint, maxt) # << >>
                               /\ x = [lset |-> e.lset,
                                       samples |-> filterSamples(e.samples, mint, maxt)]
        BY SelectEntries
    <2>2. x.lset = e.lset
        BY <2>1
    <2> QED BY <1>1, <1>2, <2>1, <2>2
<1>5. \A l \in Listed(mint, maxt, M) : l \in {x.lset : x \in Select(mint, maxt, M)}
    BY <1>1, <1>2, <1>3
<1> QED BY ONLY <1>4, <1>5

LEMMA ListedWider ==
    ASSUME MemInv, NEW mint \in Int, NEW maxt \in Int, NEW lo \in Int, NEW hi \in Int,
           lo =< mint, maxt =< hi, NEW M
    PROVE  Listed(mint, maxt, M) \subseteq Listed(lo, hi, M)
<1>1. ASSUME NEW e \in Entries, hasOverlap(e.samples, mint, maxt)
      PROVE  hasOverlap(e.samples, lo, hi)
    <2>1. e \in Entry
        BY EntryCommitted
    <2>2. e.samples \in Seq(Sample)
        BY <2>1 DEF Entry
    <2>3. PICK i \in DOMAIN e.samples : e.samples[i].t >= mint /\ e.samples[i].t =< maxt
        BY <1>1 DEF hasOverlap
    <2>4. e.samples[i] \in Sample
        BY <2>2, <2>3
    <2>5. e.samples[i].t \in Int
        BY <2>4 DEF Sample
    <2>6. e.samples[i].t >= lo /\ e.samples[i].t =< hi
        BY <2>3, <2>5
    <2> QED BY <2>3, <2>6 DEF hasOverlap
<1> QED BY <1>1 DEF Listed
(* Requests *)

\* The engine's querier covers what it asks for with each selector.
LEMMA LeastValue ==
    ASSUME NEW N \in Nat, NEW f, \A i \in 1 .. N : f[i] \in Int
    PROVE  \A n \in 0 .. N : n = 0 \/ \E i \in 1 .. n : \A j \in 1 .. n : f[i] =< f[j]
<1> DEFINE G == {n \in Nat : n = 0 \/ \E i \in 1 .. n : \A j \in 1 .. n : f[i] =< f[j]}
<1>1. 0 \in G
    OBVIOUS
<1>2. ASSUME NEW n \in Nat, n < N, n \in G PROVE n + 1 \in G
  <2>1. \A j \in 1 .. n + 1 : j \in 1 .. N /\ f[j] \in Int /\ (j \in 1 .. n \/ j = n + 1)
      BY <1>2
  <2>2. n + 1 \in 1 .. n + 1 /\ \A i \in 1 .. n : i \in 1 .. n + 1
      BY <1>2
  <2>3. CASE n = 0
      BY <2>1, <2>2, <2>3
  <2>4. CASE n # 0
    <3>1. PICK i \in 1 .. n : \A j \in 1 .. n : f[i] =< f[j]
        BY <1>2, <2>4
    <3>2. CASE f[i] =< f[n + 1]
        BY <2>1, <2>2, <3>1, <3>2
    <3>3. CASE ~ (f[i] =< f[n + 1])
      <4>1. \A j \in 1 .. n + 1 : f[n + 1] =< f[j]
          BY <2>1, <2>2, <3>1, <3>3
      <4> QED BY <2>2, <4>1
    <3> QED BY <3>2, <3>3
  <2> QED BY <2>3, <2>4
<1>3. \A n \in 0 .. N : n \in G
    <2> HIDE DEF G
    <2> QED BY <1>1, <1>2, UpTo
<1> QED BY <1>3

LEMMA GreatestValue ==
    ASSUME NEW N \in Nat, N # 0, NEW f, \A i \in 1 .. N : f[i] \in Int
    PROVE  \E i \in 1 .. N : \A j \in 1 .. N : f[j] =< f[i]
<1> DEFINE g == [i \in 1 .. N |-> - f[i]]
<1>1. \A i \in 1 .. N : g[i] \in Int /\ g[i] = - f[i]
    OBVIOUS
<1>2. N \in 0 .. N
    OBVIOUS
<1>3. \E i \in 1 .. N : \A j \in 1 .. N : g[i] =< g[j]
    <2> HIDE DEF g
    <2> QED BY <1>1, <1>2, LeastValue
<1> HIDE DEF g
<1> QED BY <1>1, <1>3

Selectors(sels) ==
    /\ sels \in Seq(ToSet(sels))
    /\ \A i \in DOMAIN sels : sels[i].offset \in Int /\ sels[i].range \in Int

LEMMA HintsRange ==
    ASSUME NEW sel, sel.offset \in Int, sel.range \in Int, NEW start \in Int, NEW end \in Int
    PROVE  /\ Hints(sel, start, end).start = start - sel.offset - sel.range + 1
           /\ Hints(sel, start, end).end = end - sel.offset
           /\ Hints(sel, start, end).start \in Int
           /\ Hints(sel, start, end).end \in Int
BY DEF Hints

LEMMA QuerierCovers ==
    ASSUME NEW sels, Selectors(sels), NEW start \in Int, NEW end \in Int
    PROVE  /\ EngineQuerier(sels, start, end) \in [mint : Int, maxt : Int]
           /\ \A i \in DOMAIN sels :
                 /\ EngineQuerier(sels, start, end).mint =< Hints(sels[i], start, end).start
                 /\ Hints(sels[i], start, end).end =< EngineQuerier(sels, start, end).maxt
<1> DEFINE N == Len(sels)
           H(i) == Hints(sels[i], start, end)
           hints == {H(i) : i \in DOMAIN sels}
           A == {h.start : h \in hints}
           B == {h.end : h \in hints}
           lo == CHOOSE m \in A : \A h \in hints : m =< h.start
           hi == CHOOSE m \in B : \A h \in hints : h.end =< m
           q == EngineQuerier(sels, start, end)
<1>1. N \in Nat /\ DOMAIN sels = 1 .. N
    BY DEF Selectors
<1>2. \A i \in 1 .. N : H(i).start \in Int /\ H(i).end \in Int
    BY <1>1, HintsRange DEF Selectors
<1>3. q = IF hints = {} THEN [mint |-> start, maxt |-> end] ELSE [mint |-> lo, maxt |-> hi]
    BY DEF EngineQuerier, Querier
<1>3a. \A h : h \in hints <=> \E i \in 1 .. N : h = H(i)
    BY <1>1
<1>3b. \A m : m \in A <=> \E h \in hints : m = h.start
    OBVIOUS
<1>3c. \A m : m \in B <=> \E h \in hints : m = h.end
    OBVIOUS
<1>4. CASE N = 0
  <2>1. hints = {}
      BY <1>3a, <1>4
  <2> HIDE DEF hints, lo, hi, q
  <2> QED BY <1>1, <1>3, <1>4, <2>1 DEF q
<1>5. CASE N # 0
  <2>1. \E i \in 1 .. N : \A j \in 1 .. N : H(i).start =< H(j).start
    <3> DEFINE f == [i \in 1 .. N |-> H(i).start]
    <3>1. \A i \in 1 .. N : f[i] \in Int /\ f[i] = H(i).start
        BY <1>2
    <3>2. N \in 0 .. N
        BY <1>1
    <3>3. \E i \in 1 .. N : \A j \in 1 .. N : f[i] =< f[j]
        <4> HIDE DEF f, N
        <4> QED BY <1>1, <1>5, <3>1, <3>2, LeastValue
    <3> HIDE DEF f, H
    <3> QED BY <3>1, <3>3
  <2>2. \E i \in 1 .. N : \A j \in 1 .. N : H(j).end =< H(i).end
    <3> DEFINE f == [i \in 1 .. N |-> H(i).end]
    <3>1. \A i \in 1 .. N : f[i] \in Int /\ f[i] = H(i).end
        BY <1>2
    <3>3. \E i \in 1 .. N : \A j \in 1 .. N : f[j] =< f[i]
        <4> HIDE DEF f, N
        <4> QED BY <1>1, <1>5, <3>1, GreatestValue
    <3> HIDE DEF f, H
    <3> QED BY <3>1, <3>3
  <2> HIDE DEF H, hints, A, B
  <2>3. \E m \in A : \A h \in hints : m =< h.start
      BY <1>3a, <1>3b, <2>1
  <2>4. \E m \in B : \A h \in hints : h.end =< m
      BY <1>3a, <1>3c, <2>2
  <2>5. lo \in A /\ \A h \in hints : lo =< h.start
      BY <2>3
  <2>6. hi \in B /\ \A h \in hints : h.end =< hi
      BY <2>4
  <2> HIDE DEF lo, hi, q
  <2>7. lo \in Int /\ hi \in Int
      BY <1>2, <1>3a, <1>3b, <1>3c, <2>5, <2>6
  <2>8. hints # {}
      BY <1>3b, <2>5
  <2>9. q = [mint |-> lo, maxt |-> hi]
      BY <1>3, <2>8
  <2>10. q \in [mint : Int, maxt : Int] /\ q.mint = lo /\ q.maxt = hi
      BY <2>7, <2>9
  <2>11. \A i \in 1 .. N : q.mint =< H(i).start /\ H(i).end =< q.maxt
      BY <1>3a, <2>5, <2>6, <2>10
  <2> HIDE DEF N
  <2> QED BY <1>1, <2>10, <2>11 DEF q, H
<1> QED BY <1>4, <1>5

\* What a handler makes of a request, before anything is read.
NewCall(c) ==
    /\ CallShape(c)
    /\ c.pc \in {"idle", "select"}
    /\ c.pc = "select" => CallCovers(c) /\ (c.got = << >> \/ c.sels = << >>)

Call(pc, op, sels, start, end, asked, q, got, name, answer) ==
    [pc |-> pc, op |-> op, sels |-> sels, start |-> start, end |-> end,
     asked |-> asked, q |-> q, got |-> got, name |-> name, answer |-> answer]

LEMMA SeqOwn == \A x, S : x \in Seq(S) => x \in Seq(ToSet(x))
<1> SUFFICES ASSUME NEW S, NEW x \in Seq(S) PROVE x \in Seq(ToSet(x))
    OBVIOUS
<1>1. \A i \in 1 .. Len(x) : x[i] \in ToSet(x)
    BY DEF ToSet
<1>2. x = [i \in 1 .. Len(x) |-> x[i]] /\ Len(x) \in Nat
    OBVIOUS
<1> DEFINE n == Len(x)
           T == ToSet(x)
<1> HIDE DEF n, T
<1>3. [i \in 1 .. n |-> x[i]] \in [1 .. n -> T]
    BY <1>1 DEF n, T
<1> QED BY <1>2, <1>3 DEF n, T

LEMMA EmptyOwn == << >> \in Seq(ToSet(<< >>))
OBVIOUS

LEMMA CallHasShape ==
    ASSUME NEW pc, NEW op, NEW sels, Selectors(sels), NEW start \in Int, NEW end \in Int,
           NEW asked \in [mint : Int, maxt : Int], NEW q \in [mint : Int, maxt : Int],
           NEW got, got \in Seq(ToSet(got)), NEW name, NEW answer
    PROVE  CallShape(Call(pc, op, sels, start, end, asked, q, got, name, answer))
BY DEF CallShape, Call, Selectors

LEMMA NoSelectors == Selectors(<< >>)
BY EmptyOwn DEF Selectors

LEMMA AnsweredIsCall ==
    ASSUME NEW answer
    PROVE  Answered(answer) = Call("idle", "none", << >>, 0, 0, [mint |-> 0, maxt |-> -1],
                                   [mint |-> 0, maxt |-> 0], << >>, "", answer)
<1> DEFINE d == Answered(answer)
           asked == [mint |-> 0, maxt |-> -1]
<1>1. d = [NoCall EXCEPT !.answer = answer] /\ Querier(0, 0) = [mint |-> 0, maxt |-> 0]
    BY DEF Answered, Querier
<1>2. NoCall = Call("idle", "none", << >>, 0, 0, asked, Querier(0, 0), << >>, "", "none")
    BY DEF NoCall, Call
<1> HIDE DEF d, asked
<1>3. d = Call("idle", "none", << >>, 0, 0, asked, Querier(0, 0), << >>, "", answer)
    BY <1>1, <1>2 DEF Call
<1> QED BY <1>1, <1>3 DEF d, asked

LEMMA AnsweredNew == \A answer : NewCall(Answered(answer))
<1> SUFFICES ASSUME NEW answer PROVE NewCall(Answered(answer))
    OBVIOUS
<1>1. [mint |-> 0, maxt |-> -1] \in [mint : Int, maxt : Int]
    OBVIOUS
<1>2. [mint |-> 0, maxt |-> 0] \in [mint : Int, maxt : Int]
    OBVIOUS
<1>3. CallShape(Answered(answer))
    BY <1>1, <1>2, AnsweredIsCall, CallHasShape, NoSelectors, EmptyOwn
<1>4. Answered(answer).pc = "idle"
    BY AnsweredIsCall DEF Call
<1> QED BY <1>3, <1>4 DEF NewCall

TimeForm(p) == p.form \in {"absent", "bad", "rfc3339", "unix"} /\ p.t \in Int

LEMMA ParsedTime ==
    ASSUME NEW p, TimeForm(p), NEW d \in Int, NEW x \in parseTimeParam(p, d)
    PROVE  /\ x \in Int
           /\ p.form \in {"absent", "bad"} => x = IF p.form = "bad" THEN ZeroTime ELSE d
           /\ Meant(p, d) \in [mint : Int, maxt : Int]
           /\ p.form # "bad" =>
                 /\ x =< Meant(p, d).mint /\ Meant(p, d).mint - 1 =< x
                 /\ Meant(p, d).maxt =< x /\ x =< Meant(p, d).maxt + 1
<1>1. CASE p.form = "absent"
    BY <1>1 DEF parseTimeParam, Meant
<1>2. CASE p.form = "bad"
    BY <1>2, QueryAssumption DEF parseTimeParam, Meant, TimeForm
<1>3. CASE p.form = "rfc3339"
    BY <1>3 DEF parseTimeParam, Meant, TimeForm
<1>4. CASE p.form = "unix"
    BY <1>4 DEF parseTimeParam, Meant, TimeForm
<1> QED BY <1>1, <1>2, <1>3, <1>4 DEF TimeForm

\* What is known of a request.
LEMMA RequestForm ==
    ASSUME NEW r \in Request
    PROVE  TimeForm(r.start) /\ TimeForm(r.end) /\ Selectors(r.sels)
<1>1. \A i \in DOMAIN r.sels : r.sels[i] \in ToSet(r.sels)
    BY DEF ToSet
<1> QED BY <1>1, QueryAssumption DEF TimeForm, Selectors

LEMMA AskedRange ==
    ASSUME NEW r \in Request, now \in Int, NEW start \in parseTimeParam(r.start, 0),
           NEW end \in parseTimeParam(r.end, now)
    PROVE  /\ Asked(r) \in [mint : Int, maxt : Int]
           /\ start \in Int /\ end \in Int
           /\ \/ Asked(r).maxt < Asked(r).mint
              \/ /\ start =< Asked(r).mint /\ Asked(r).mint - 1 =< start
                 /\ Asked(r).maxt =< end /\ end =< Asked(r).maxt + 1
<1>1. TimeForm(r.start) /\ TimeForm(r.end)
    BY RequestForm
<1> DEFINE a == Meant(r.start, 0)
           b == Meant(r.end, now)
<1>2. /\ start \in Int /\ a \in [mint : Int, maxt : Int]
      /\ r.start.form # "bad" => start =< a.mint /\ a.mint - 1 =< start
    BY <1>1, ParsedTime
<1>3. /\ end \in Int /\ b \in [mint : Int, maxt : Int]
      /\ r.end.form # "bad" => b.maxt =< end /\ end =< b.maxt + 1
    BY <1>1, ParsedTime
<1>4. Asked(r) = IF "bad" \in {r.start.form, r.end.form} THEN [mint |-> 0, maxt |-> -1]
                 ELSE [mint |-> a.mint, maxt |-> b.maxt]
    BY DEF Asked
<1> HIDE DEF a, b
<1>5. CASE "bad" \in {r.start.form, r.end.form}
    BY <1>2, <1>3, <1>4, <1>5
<1>6. CASE "bad" \notin {r.start.form, r.end.form}
  <2>1. Asked(r).mint = a.mint /\ Asked(r).maxt = b.maxt
      BY <1>4, <1>6
  <2>2. Asked(r) \in [mint : Int, maxt : Int]
      BY <1>2, <1>3, <1>4, <1>6
  <2> QED BY <1>2, <1>3, <1>6, <2>1, <2>2
<1> QED BY <1>5, <1>6

LEMMA QueryNew ==
    ASSUME NEW r \in Request, now \in Int, query(r)
    PROVE  NewCall(call')
<1>1. PICK ts \in parseTimeParam(r.end, now) :
       call' = IF r.expr = "missing" \/ r.end.form = "bad" \/ r.expr = "bad"
               THEN Answered("bad_data")
               ELSE [NoCall EXCEPT !.pc = "select", !.op = "query", !.sels = r.sels,
                        !.start = ts, !.end = ts,
                        !.asked = Meant(r.end, now),
                        !.q = EngineQuerier(r.sels, ts, ts)]
    BY DEF query
<1>2. CASE r.expr = "missing" \/ r.end.form = "bad" \/ r.expr = "bad"
    BY <1>1, <1>2, AnsweredNew
<1>3. CASE ~ (r.expr = "missing" \/ r.end.form = "bad" \/ r.expr = "bad")
  <2> DEFINE q == EngineQuerier(r.sels, ts, ts)
             asked == Meant(r.end, now)
             sels == r.sels
             c == Call("select", "query", sels, ts, ts, asked, q, << >>, "", "none")
  <2>1. call' = c
      BY <1>1, <1>3 DEF NoCall, Call
  <2>2. TimeForm(r.end) /\ Selectors(sels)
      BY RequestForm
  <2>3. /\ ts \in Int /\ asked \in [mint : Int, maxt : Int]
        /\ ts =< asked.mint /\ asked.maxt =< ts
      BY <1>3, <2>2, ParsedTime
  <2>4. /\ q \in [mint : Int, maxt : Int]
        /\ \A i \in DOMAIN sels : /\ q.mint =< Hints(sels[i], ts, ts).start
                                  /\ Hints(sels[i], ts, ts).end =< q.maxt
      BY <2>2, <2>3, QuerierCovers
  <2> HIDE DEF q, asked, sels
  <2>5. CallShape(c)
      BY <2>2, <2>3, <2>4, CallHasShape, EmptyOwn
  <2>6. /\ c.pc = "select" /\ c.op = "query" /\ c.sels = sels /\ c.start = ts /\ c.end = ts
        /\ c.asked = asked /\ c.q = q /\ c.got = << >>
      BY DEF Call
  <2> HIDE DEF c
  <2>7. CallCovers(c)
      BY <2>3, <2>4, <2>6 DEF CallCovers
  <2> QED BY <2>1, <2>5, <2>6, <2>7 DEF NewCall
<1> QED BY <1>2, <1>3

LEMMA QueryRangeNew ==
    ASSUME NEW r \in Request, now \in Int, queryRange(r)
    PROVE  NewCall(call')
<1>1. PICK start \in parseTimeParam(r.start, ZeroTime), end \in parseTimeParam(r.end, ZeroTime) :
       call' = IF \/ r.expr = "missing"
                  \/ start = ZeroTime
                  \/ end = ZeroTime
                  \/ ~ parseStep(r.step)
                  \/ r.expr = "bad"
               THEN Answered("bad_data")
               ELSE [NoCall EXCEPT !.pc = "select", !.op = "query", !.sels = r.sels,
                        !.start = start, !.end = end, !.asked = Asked(r),
                        !.q = EngineQuerier(r.sels, start, end)]
    BY DEF queryRange
<1> DEFINE Bad == \/ r.expr = "missing"
                  \/ start = ZeroTime
                  \/ end = ZeroTime
                  \/ ~ parseStep(r.step)
                  \/ r.expr = "bad"
<1>2. CASE Bad
    BY <1>1, <1>2, AnsweredNew
<1>3. CASE ~ Bad
  <2> DEFINE q == EngineQuerier(r.sels, start, end)
             asked == Asked(r)
             sels == r.sels
             c == Call("select", "query", sels, start, end, asked, q, << >>, "", "none")
  <2>1. call' = c
      BY <1>1, <1>3 DEF NoCall, Call
  <2>2. TimeForm(r.start) /\ TimeForm(r.end) /\ Selectors(sels)
      BY RequestForm
  <2>2a. start # ZeroTime /\ end # ZeroTime /\ ZeroTime \in Int
      BY <1>3, QueryAssumption
  <2>3. r.start.form \notin {"absent", "bad"} /\ start \in Int
      BY <2>2, <2>2a, ParsedTime
  <2>4. r.end.form \notin {"absent", "bad"} /\ end \in Int
      BY <2>2, <2>2a, ParsedTime
  <2>5. start \in parseTimeParam(r.start, 0)
      BY <2>2, <2>3 DEF parseTimeParam, TimeForm
  <2>5a. end \in parseTimeParam(r.end, now)
      BY <2>2, <2>4 DEF parseTimeParam, TimeForm
  <2>6. Meant(r.start, 0).mint \in Int /\ start =< Meant(r.start, 0).mint
      BY <2>2, <2>3, <2>5, ParsedTime
  <2>7. Meant(r.end, now).maxt \in Int /\ Meant(r.end, now).maxt =< end
      BY <2>2, <2>4, <2>5a, ParsedTime
  <2>8. asked = [mint |-> Meant(r.start, 0).mint, maxt |-> Meant(r.end, now).maxt]
      BY <2>3, <2>4 DEF Asked
  <2>9. /\ asked \in [mint : Int, maxt : Int]
        /\ start =< asked.mint /\ asked.maxt =< end
      BY <2>6, <2>7, <2>8
  <2>10. /\ q \in [mint : Int, maxt : Int]
         /\ \A i \in DOMAIN sels : /\ q.mint =< Hints(sels[i], start, end).start
                                   /\ Hints(sels[i], start, end).end =< q.maxt
      BY <2>2, <2>3, <2>4, QuerierCovers
  <2> HIDE DEF q, asked, sels
  <2>11. CallShape(c)
      BY <2>2, <2>3, <2>4, <2>9, <2>10, CallHasShape, EmptyOwn
  <2>12. /\ c.pc = "select" /\ c.op = "query" /\ c.sels = sels /\ c.start = start /\ c.end = end
         /\ c.asked = asked /\ c.q = q /\ c.got = << >>
      BY DEF Call
  <2> HIDE DEF c
  <2>13. CallCovers(c)
      BY <2>9, <2>10, <2>12 DEF CallCovers
  <2> QED BY <2>1, <2>11, <2>12, <2>13 DEF NewCall
<1> QED BY <1>2, <1>3

LEMMA SeriesNew ==
    ASSUME NEW r \in Request, now \in Int, seriesRequest(r)
    PROVE  NewCall(call')
<1>1. PICK start \in parseTimeParam(r.start, 0), end \in parseTimeParam(r.end, now) :
       call' = IF r.sels = << >>
               THEN Answered("bad_data")
               ELSE [NoCall EXCEPT !.pc = "select", !.op = "series", !.sels = r.sels,
                        !.start = start, !.end = end, !.asked = Asked(r),
                        !.q = Querier(start, end)]
    BY DEF seriesRequest
<1>2. CASE r.sels = << >>
    BY <1>1, <1>2, AnsweredNew
<1>3. CASE r.sels # << >>
  <2> DEFINE q == Querier(start, end)
             asked == Asked(r)
             sels == r.sels
             c == Call("select", "series", sels, start, end, asked, q, << >>, "", "none")
  <2>1. call' = c
      BY <1>1, <1>3 DEF NoCall, Call
  <2>2. Selectors(sels)
      BY RequestForm
  <2>3. /\ asked \in [mint : Int, maxt : Int]
        /\ start \in Int /\ end \in Int
        /\ \/ asked.maxt < asked.mint
           \/ start =< asked.mint /\ asked.maxt =< end
      BY AskedRange
  <2>4. q \in [mint : Int, maxt : Int] /\ q.mint = start /\ q.maxt = end
      BY <2>3 DEF Querier
  <2> HIDE DEF q, asked, sels
  <2>5. CallShape(c)
      BY <2>2, <2>3, <2>4, CallHasShape, EmptyOwn
  <2>6. /\ c.pc = "select" /\ c.op = "series" /\ c.sels = sels /\ c.start = start /\ c.end = end
        /\ c.asked = asked /\ c.q = q /\ c.got = << >>
      BY DEF Call
  <2> HIDE DEF c
  <2>7. CallCovers(c)
      BY <2>3, <2>4, <2>6 DEF CallCovers
  <2> QED BY <2>1, <2>5, <2>6, <2>7 DEF NewCall
<1> QED BY <1>2, <1>3

\* What the label requests found, which was read at once.
LabelCall(r, op, name, found) ==
    Call("select", op, << >>, 0, 0, Asked(r), [mint |-> 0, maxt |-> 0], <<found>>, name, "none")

LEMMA LabelsAreCall ==
    ASSUME NEW r \in Request, labelNames(r)
    PROVE  \E start \in parseTimeParam(r.start, 0), end \in parseTimeParam(r.end, now) :
              call' = LabelCall(r, "labels", "", LabelNames(start, end, {}))
<1>1. PICK start \in parseTimeParam(r.start, 0), end \in parseTimeParam(r.end, now) :
       call' = [NoCall EXCEPT !.pc = "select", !.op = "labels", !.asked = Asked(r),
                   !.got = <<LabelNames(start, end, {})>>]
    BY DEF labelNames
<1> DEFINE asked == Asked(r)
           got == <<LabelNames(start, end, {})>>
<1>2. call' = [NoCall EXCEPT !.pc = "select", !.op = "labels", !.asked = asked, !.got = got]
    BY <1>1
<1>3. Querier(0, 0) = [mint |-> 0, maxt |-> 0]
    BY DEF Querier
<1> HIDE DEF asked, got
<1>4. call' = Call("select", "labels", << >>, 0, 0, asked, Querier(0, 0), got, "", "none")
    BY <1>2 DEF NoCall, Call
<1> QED BY <1>3, <1>4 DEF LabelCall, asked, got

LEMMA ValuesAreCall ==
    ASSUME NEW r \in Request, labelValues(r)
    PROVE  \/ call' = Answered("bad_data")
           \/ \E start \in parseTimeParam(r.start, 0), end \in parseTimeParam(r.end, now) :
                 call' = LabelCall(r, "values", r.name, LabelValues(r.name, start, end, {}))
<1>1. PICK start \in parseTimeParam(r.start, 0), end \in parseTimeParam(r.end, now) :
       call' = IF r.name = ""
               THEN Answered("bad_data")
               ELSE [NoCall EXCEPT !.pc = "select", !.op = "values", !.asked = Asked(r),
                        !.name = r.name, !.got = <<LabelValues(r.name, start, end, {})>>]
    BY DEF labelValues
<1> DEFINE asked == Asked(r)
           name == r.name
           got == <<LabelValues(r.name, start, end, {})>>
<1>2. \/ call' = Answered("bad_data")
      \/ call' = [NoCall EXCEPT !.pc = "select", !.op = "values", !.asked = asked,
                      !.name = name, !.got = got]
    BY <1>1
<1>3. Querier(0, 0) = [mint |-> 0, maxt |-> 0]
    BY DEF Querier
<1> HIDE DEF asked, got, name
<1>4. \/ call' = Answered("bad_data")
      \/ call' = Call("select", "values", << >>, 0, 0, asked, Querier(0, 0), got, name, "none")
    BY <1>2 DEF NoCall, Call
<1> QED BY <1>3, <1>4 DEF LabelCall, asked, got, name

LEMMA LabelCallNew ==
    ASSUME NEW r \in Request, now \in Int, NEW op, op \notin {"query", "series"}, NEW name, NEW found,
           NEW start \in parseTimeParam(r.start, 0), NEW end \in parseTimeParam(r.end, now)
    PROVE  NewCall(LabelCall(r, op, name, found))
<1> DEFINE asked == Asked(r)
           q == [mint |-> 0, maxt |-> 0]
           got == <<found>>
           c == Call("select", op, << >>, 0, 0, asked, q, got, name, "none")
<1>1. asked \in [mint : Int, maxt : Int]
    BY AskedRange
<1>2. q \in [mint : Int, maxt : Int]
    OBVIOUS
<1>3. got \in Seq(ToSet(got))
    <2>1. got \in Seq({found})
        OBVIOUS
    <2> HIDE DEF got
    <2> QED BY <2>1, SeqOwn
<1>4. LabelCall(r, op, name, found) = c
    BY DEF LabelCall
<1> HIDE DEF asked, q, got
<1>5. CallShape(c)
    BY <1>1, <1>2, <1>3, NoSelectors, CallHasShape
<1>6. c.pc = "select" /\ c.op = op /\ c.sels = << >>
    BY DEF Call
<1> HIDE DEF c
<1>7. CallCovers(c)
    BY <1>6 DEF CallCovers
<1> QED BY <1>4, <1>5, <1>6, <1>7 DEF NewCall

LEMMA HandleNew ==
    ASSUME now \in Int, Handle
    PROVE  NewCall(call') /\ UNCHANGED memVars
<1>1. PICK r \in Request :
          \/ ~ r.parses /\ call' = Answered("bad_data")
          \/ r.parses /\ r.op = "query" /\ query(r)
          \/ r.parses /\ r.op = "query_range" /\ queryRange(r)
          \/ r.parses /\ r.op = "series" /\ seriesRequest(r)
          \/ r.parses /\ r.op = "labels" /\ labelNames(r)
          \/ r.parses /\ r.op = "values" /\ labelValues(r)
    BY DEF Handle
<1>2. CASE call' = Answered("bad_data")
    BY <1>2, AnsweredNew DEF Handle
<1>3. CASE query(r)
    BY <1>3, QueryNew DEF Handle
<1>4. CASE queryRange(r)
    BY <1>4, QueryRangeNew DEF Handle
<1>5. CASE seriesRequest(r)
    BY <1>5, SeriesNew DEF Handle
<1>6. CASE labelNames(r)
  <2>1. PICK start \in parseTimeParam(r.start, 0), end \in parseTimeParam(r.end, now) :
            call' = LabelCall(r, "labels", "", LabelNames(start, end, {}))
      BY <1>6, LabelsAreCall
  <2> QED BY <2>1, LabelCallNew DEF Handle
<1>7. CASE labelValues(r)
  <2>1. CASE call' = Answered("bad_data")
      BY <2>1, AnsweredNew DEF Handle
  <2>2. CASE \E start \in parseTimeParam(r.start, 0), end \in parseTimeParam(r.end, now) :
                call' = LabelCall(r, "values", r.name, LabelValues(r.name, start, end, {}))
    <3>1. PICK start \in parseTimeParam(r.start, 0), end \in parseTimeParam(r.end, now) :
              call' = LabelCall(r, "values", r.name, LabelValues(r.name, start, end, {}))
        BY <2>2
    <3> QED BY <3>1, LabelCallNew DEF Handle
  <2> QED BY <1>7, <2>1, <2>2, ValuesAreCall
<1> QED BY <1>1, <1>2, <1>3, <1>4, <1>5, <1>6, <1>7

-----------------------------------------------------------------------------
(* A request and what it reads *)

LEMMA QueryInitInv == Init => QueryInv
<1> SUFFICES ASSUME Init PROVE QueryInv
    OBVIOUS
<1> DEFINE asked == [mint |-> 0, maxt |-> -1]
           q == [mint |-> 0, maxt |-> 0]
<1>1. MemInv
    BY MemInitInv DEF Init
<1>2. q = Querier(0, 0)
    BY DEF Querier
<1>2a. q \in [mint : Int, maxt : Int] /\ asked \in [mint : Int, maxt : Int]
    OBVIOUS
<1>2b. 0 \in Int
    OBVIOUS
<1>3. NoCall = Call("idle", "none", << >>, 0, 0, asked, Querier(0, 0), << >>, "", "none")
    BY DEF NoCall, Call
<1> HIDE DEF asked, q
<1>3a. NoCall = Call("idle", "none", << >>, 0, 0, asked, q, << >>, "", "none")
    BY <1>2, <1>3
<1>3b. CallShape(Call("idle", "none", << >>, 0, 0, asked, q, << >>, "", "none"))
    BY ONLY <1>2a, <1>2b, NoSelectors, EmptyOwn, CallHasShape
<1>4. CallShape(NoCall)
    BY ONLY <1>3a, <1>3b
<1>5. NoCall.pc = "idle"
    BY <1>3 DEF Call
<1> QED BY <1>1, <1>4, <1>5 DEF Init, QueryInv, CallInv

LEMMA SameMemory == UNCHANGED memVars => Findable' = Findable /\ Committed' = Committed
BY DEF memVars, Findable, Committed, Stored, Entries, InOrder, History

LEMMA HandleStep == QueryInv /\ Handle /\ Track => QueryInv'
<1> SUFFICES ASSUME QueryInv, Handle, Track PROVE QueryInv'
    OBVIOUS
<1>1. NewCall(call') /\ UNCHANGED memVars
    BY HandleNew DEF QueryInv, MemInv, MemTypes
<1>2. MemInv'
    BY <1>1, MemStutter DEF QueryInv
<1>3. CallShape(call') /\ call'.pc \in {"idle", "select"}
    BY <1>1 DEF NewCall
<1>4. ASSUME call'.pc = "select"
      PROVE  CallCovers(call') /\ ReadAll(call', must') /\ ReadOnly(call)' /\ ReadInOrder(call)'
  <2>1. CallCovers(call') /\ (call'.got = << >> \/ call'.sels = << >>)
      BY <1>1, <1>4 DEF NewCall
  <2>2. must' = [i \in DOMAIN call'.sels |-> {s \in Findable : Wants(call', i, s)}]
      BY <1>4 DEF Track, Handle
  <2>3. \A i \in DOMAIN call'.sels : ~ (i =< Len(call'.got))
    <3>1. call'.sels \in Seq(ToSet(call'.sels))
        BY <1>3 DEF CallShape
    <3>2. DOMAIN call'.sels = 1 .. Len(call'.sels) /\ Len(call'.sels) \in Nat
        BY <3>1
    <3>3. CASE call'.got = << >>
        BY <3>2, <3>3
    <3>4. CASE call'.sels = << >>
        BY <3>2, <3>4
    <3> QED BY <2>1, <3>3, <3>4
  <2>4. ReadAll(call', must')
      BY <2>2, <2>3 DEF ReadAll
  <2>5. ReadOnly(call)' /\ ReadInOrder(call)'
      BY <2>3 DEF ReadOnly, ReadInOrder
  <2> QED BY <2>1, <2>4, <2>5
<1>5. CallInv'
    BY <1>3, <1>4 DEF CallInv
<1> QED BY <1>2, <1>5 DEF QueryInv

LEMMA AnsweredStep == \A answer : QueryInv /\ call' = Answered(answer) /\ UNCHANGED memVars => QueryInv'
<1> SUFFICES ASSUME NEW answer, QueryInv, call' = Answered(answer), UNCHANGED memVars
             PROVE  QueryInv'
    OBVIOUS
<1>1. MemInv'
    BY MemStutter DEF QueryInv
<1>2. CallShape(call')
    BY AnsweredNew DEF NewCall
<1>3. call'.pc = "idle"
    BY AnsweredIsCall DEF Call
<1>4. CallInv'
    BY <1>2, <1>3 DEF CallInv
<1> QED BY <1>1, <1>4 DEF QueryInv

Adds(c, d, g) == d = [c EXCEPT !.got = Append(@, g)]

LEMMA GotMore ==
    ASSUME NEW c, CallShape(c), NEW d, NEW g, Adds(c, d, g)
    PROVE  /\ CallShape(d)
           /\ d.pc = c.pc /\ d.op = c.op /\ d.sels = c.sels /\ d.start = c.start /\ d.end = c.end
           /\ d.asked = c.asked /\ d.q = c.q
           /\ d.got = Append(c.got, g)
<1>1. c = [pc |-> c.pc, op |-> c.op, sels |-> c.sels, start |-> c.start, end |-> c.end,
            asked |-> c.asked, q |-> c.q, got |-> c.got, name |-> c.name, answer |-> c.answer]
    BY DEF CallShape
<1>2. d = [pc |-> c.pc, op |-> c.op, sels |-> c.sels, start |-> c.start, end |-> c.end,
            asked |-> c.asked, q |-> c.q, got |-> Append(c.got, g), name |-> c.name,
            answer |-> c.answer]
    BY <1>1 DEF Adds
<1>3. /\ d.pc = c.pc /\ d.op = c.op /\ d.sels = c.sels /\ d.start = c.start /\ d.end = c.end
      /\ d.asked = c.asked /\ d.q = c.q /\ d.name = c.name /\ d.answer = c.answer
      /\ d.got = Append(c.got, g)
    BY <1>2
<1>4. d.got \in Seq(ToSet(d.got))
  <2>1. c.got \in Seq(ToSet(c.got))
      BY DEF CallShape
  <2> DEFINE S == ToSet(c.got)
  <2> HIDE DEF S
  <2>2. c.got \in Seq(S \cup {g})
      BY <2>1 DEF S
  <2>3. Append(c.got, g) \in Seq(S \cup {g})
      BY <2>2
  <2> QED BY <1>3, <2>3, SeqOwn
<1>5. d = [pc |-> d.pc, op |-> d.op, sels |-> d.sels, start |-> d.start, end |-> d.end,
            asked |-> d.asked, q |-> d.q, got |-> d.got, name |-> d.name, answer |-> d.answer]
    BY <1>2, <1>3
<1>6. CallShape(d)
    BY <1>3, <1>4, <1>5 DEF CallShape
<1> QED BY <1>3, <1>6

LEMMA SameWants ==
    ASSUME NEW c, NEW d, d.op = c.op, d.sels = c.sels, d.asked = c.asked
    PROVE  \A i, s : (Wants(d, i, s) <=> Wants(c, i, s)) /\ Sent(d, s) = Sent(c, s)
BY DEF Wants, Sent

LEMMA FoundSent == \A c, i, s : Found(c, i, s) <=> Sent(c, s) \in c.got[i]
BY DEF Found, Sent

\* One more reading, of what the next selector asks for and nothing else.
LEMMA ReadingStep ==
    ASSUME QueryInv, call.pc = "select", UNCHANGED memVars, Track, NEW g, Adds(call, call', g),
           NEW n, n = Len(call.got) + 1, n \in DOMAIN call.sels,
           \A s \in Findable : Wants(call, n, s) => Sent(call, s) \in g,
           g \subseteq {Sent(call, s) : s \in {s \in Committed : matchesAll(s.lset, call.sels[n].matchers)}}
    PROVE  QueryInv'
<1>1. MemInv'
    BY MemStutter DEF QueryInv
<1>2. CallShape(call) /\ CallCovers(call) /\ ReadAll(call, must) /\ ReadOnly(call) /\ ReadInOrder(call)
    BY DEF QueryInv, CallInv
<1>3. /\ CallShape(call')
      /\ call'.pc = call.pc /\ call'.op = call.op /\ call'.sels = call.sels
      /\ call'.start = call.start /\ call'.end = call.end
      /\ call'.asked = call.asked /\ call'.q = call.q
      /\ call'.got = Append(call.got, g)
    BY <1>2, GotMore
<1>4. Findable' = Findable /\ Committed' = Committed
    BY SameMemory
<1>5. must' = [i \in DOMAIN must |-> must[i] \cap Findable]
    BY <1>3, <1>4 DEF Track
<1>6. CallCovers(call')
    BY <1>2, <1>3 DEF CallCovers
<1>7. call.got \in Seq(ToSet(call.got)) /\ call.sels \in Seq(ToSet(call.sels))
    BY <1>2 DEF CallShape
<1>8. /\ Len(call'.got) = n /\ n \in Nat /\ Len(call.got) = n - 1
      /\ call'.got[n] = g
      /\ \A i \in 1 .. n - 1 : call'.got[i] = call.got[i]
    <2> DEFINE x == call.got
               S == ToSet(call.got) \cup {g}
    <2>1. x \in Seq(S) /\ g \in S
        <3> DEFINE T == ToSet(call.got)
        <3> HIDE DEF T
        <3> QED BY <1>7 DEF T
    <2> HIDE DEF x, S
    <2>2. Len(x) \in Nat
        BY <2>1
    <2>3. /\ Len(Append(x, g)) = Len(x) + 1
          /\ Append(x, g)[Len(x) + 1] = g
          /\ \A i \in 1 .. Len(x) : Append(x, g)[i] = x[i]
        BY <2>1
    <2>4. n = Len(x) + 1 /\ call'.got = Append(x, g)
        BY <1>3 DEF x
    <2>5. Len(x) = n - 1 /\ n \in Nat
        BY <2>2, <2>4
    <2> QED BY <2>3, <2>4, <2>5 DEF x
<1>9. DOMAIN call.sels = 1 .. Len(call.sels) /\ Len(call.sels) \in Nat
    BY <1>7
<1>10. \A i \in DOMAIN call.sels : i =< n => i \in 1 .. n - 1 \/ i = n
    BY <1>8, <1>9
<1>10a. \A i \in 1 .. n - 1 : i =< Len(call.got)
    BY <1>8
<1>11. \A i, s : (Wants(call', i, s) <=> Wants(call, i, s)) /\ Sent(call', s) = Sent(call, s)
    BY <1>3, SameWants
<1>12. ReadAll(call', must')
  <2>1. DOMAIN must' = DOMAIN call'.sels /\ DOMAIN must = DOMAIN call.sels
      BY <1>2, <1>3, <1>5 DEF ReadAll
  <2>2. \A i \in DOMAIN call.sels : \A s \in must'[i] : s \in must[i] /\ s \in Findable /\ Wants(call, i, s)
      BY <1>2, <1>5, <2>1 DEF ReadAll
  <2>3. ASSUME NEW i \in DOMAIN call.sels, i =< n, NEW s \in must'[i]
        PROVE  Found(call', i, s)
    <3>1. CASE i = n
        BY <1>8, <1>11, <2>2, <2>3, <3>1, FoundSent
    <3>2. CASE i \in 1 .. n - 1
      <4>1. Found(call, i, s)
          BY <1>2, <1>10a, <2>2, <2>3, <3>2 DEF ReadAll
      <4> QED BY <1>8, <1>11, <3>2, <4>1, FoundSent
    <3> QED BY <1>10, <2>3, <3>1, <3>2
  <2> QED BY <1>3, <1>8, <1>11, <2>1, <2>2, <2>3 DEF ReadAll
<1>13. ReadOnly(call)'
  <2> DEFINE All(i) == {Sent(call, s) : s \in {s \in Committed : matchesAll(s.lset, call.sels[i].matchers)}}
  <2>1. \A i \in 1 .. n - 1 : i \in DOMAIN call.sels => call.got[i] \subseteq All(i)
      BY <1>2, <1>10a DEF ReadOnly
  <2>2. g \subseteq All(n)
      OBVIOUS
  <2>3. \A i : {Sent(call', s) : s \in {s \in Committed' : matchesAll(s.lset, call'.sels[i].matchers)}} = All(i)
      BY <1>3, <1>4, <1>11
  <2> HIDE DEF All
  <2>4. \A i \in DOMAIN call.sels : i =< n => call'.got[i] \subseteq All(i)
      BY <1>8, <1>10, <2>1, <2>2
  <2> QED BY <1>3, <1>8, <2>3, <2>4 DEF ReadOnly
<1>14. ReadInOrder(call)'
  <2> SUFFICES ASSUME call.op = "query", NEW j \in DOMAIN call.sels, j =< n, NEW i \in 1 .. j - 1,
                      NEW s \in Committed, s.v \in call'.got[i],
                      NEW u \in Findable, u.batch =< s.batch, Wants(call, j, u)
               PROVE  u.v \in call'.got[j]
      BY <1>3, <1>4, <1>8, <1>11 DEF ReadInOrder
  <2>1. CASE j = n
      BY <1>8, <2>1 DEF Sent
  <2>2. CASE j \in 1 .. n - 1
    <3>1. i \in 1 .. n - 1 /\ j =< Len(call.got)
        BY <1>8, <2>2
    <3>2. s.v \in call.got[i]
        BY <1>8, <3>1
    <3>3. u.v \in call.got[j]
        BY <1>2, <3>1, <3>2 DEF ReadInOrder
    <3> QED BY <1>8, <2>2, <3>3
  <2> QED BY <1>10, <2>1, <2>2
<1>15. CallInv'
    BY <1>3, <1>6, <1>12, <1>13, <1>14 DEF CallInv
<1> QED BY <1>1, <1>15 DEF QueryInv

LEMMA FindableTime ==
    ASSUME MemInv, NEW s \in Findable
    PROVE  s \in Committed /\ s.t \in Int
<1>1. s \in Committed
    BY DEF Findable
<1>2. PICK x \in DOMAIN committed : committed[x] = s
    BY <1>1, CommittedPlaces
<1>3. s \in Record
    BY <1>2 DEF MemInv, MemTypes
<1> QED BY <1>1, <1>3 DEF Record

\* The hints that the engine gives are not smaller than what is asked for,
\* and the range of the adapter not smaller than they are.
LEMMA HintsCover ==
    ASSUME NEW c, CallShape(c), CallCovers(c), c.op = "query", NEW n \in DOMAIN c.sels
    PROVE  LET h == Hints(c.sels[n], c.start, c.end)
               a == Hints(c.sels[n], c.asked.mint, c.asked.maxt)
               r == QuerierRange(c.q, h)
           IN  /\ h.start \in Int /\ h.end \in Int /\ a.start \in Int /\ a.end \in Int
               /\ r.mint \in Int /\ r.maxt \in Int
               /\ h.start =< a.start /\ a.end =< h.end
               /\ r.mint =< h.start /\ h.end =< r.maxt
<1> DEFINE h == Hints(c.sels[n], c.start, c.end)
           a == Hints(c.sels[n], c.asked.mint, c.asked.maxt)
           r == QuerierRange(c.q, h)
<1>1. /\ c.start \in Int /\ c.end \in Int /\ c.asked.mint \in Int /\ c.asked.maxt \in Int
      /\ c.q.mint \in Int /\ c.q.maxt \in Int
      /\ c.sels[n].offset \in Int /\ c.sels[n].range \in Int
    BY DEF CallShape
<1>2. c.start =< c.asked.mint /\ c.asked.maxt =< c.end
    BY DEF CallCovers
<1>3. c.q.mint =< h.start /\ h.end =< c.q.maxt
    BY DEF CallCovers
<1>4. /\ h.start = c.start - c.sels[n].offset - c.sels[n].range + 1
      /\ h.end = c.end - c.sels[n].offset /\ h.start \in Int /\ h.end \in Int
    BY <1>1, HintsRange
<1>5. /\ a.start = c.asked.mint - c.sels[n].offset - c.sels[n].range + 1
      /\ a.end = c.asked.maxt - c.sels[n].offset /\ a.start \in Int /\ a.end \in Int
    BY <1>1, HintsRange
<1>6. /\ r.mint = IF h.start # 0 THEN h.start ELSE c.q.mint
      /\ r.maxt = IF h.end # 0 THEN h.end ELSE c.q.maxt
    BY DEF QuerierRange
<1> HIDE DEF h, a, r
<1>7. h.start =< a.start /\ a.end =< h.end
    BY <1>1, <1>2, <1>4, <1>5
<1>8. /\ r.mint \in Int /\ r.maxt \in Int
      /\ r.mint =< h.start /\ h.end =< r.maxt
    BY <1>1, <1>3, <1>4, <1>6
<1> QED BY <1>4, <1>5, <1>7, <1>8 DEF h, a, r

LEMMA NextSelector ==
    ASSUME QueryInv, HasNext
    PROVE  /\ call.pc = "select"
           /\ Len(call.got) + 1 \in DOMAIN call.sels
           /\ CallShape(call) /\ CallCovers(call)
<1>1. call.pc = "select" /\ CallShape(call) /\ CallCovers(call)
    BY DEF QueryInv, CallInv, HasNext
<1>2. call.got \in Seq(ToSet(call.got)) /\ call.sels \in Seq(ToSet(call.sels))
    BY <1>1 DEF CallShape
<1>3. Len(call.got) \in Nat /\ Len(call.sels) \in Nat /\ DOMAIN call.sels = 1 .. Len(call.sels)
    BY <1>2
<1> QED BY <1>1, <1>3 DEF HasNext

LEMMA EngineSelectStep == QueryInv /\ EngineSelect /\ Track => QueryInv'
<1> SUFFICES ASSUME QueryInv, EngineSelect, Track PROVE QueryInv'
    OBVIOUS
<1> DEFINE n == Len(call.got) + 1
           M == call.sels[n].matchers
           h == Hints(call.sels[n], call.start, call.end)
           r == QuerierRange(call.q, h)
           a == Hints(call.sels[n], call.asked.mint, call.asked.maxt)
           g == EngineGets(r.mint, r.maxt, h, M)
<1>1. call.op = "query" /\ UNCHANGED memVars /\ HasNext
    BY DEF EngineSelect
<1>2. /\ call.pc = "select" /\ n \in DOMAIN call.sels
      /\ CallShape(call) /\ CallCovers(call) /\ MemInv
    BY <1>1, NextSelector DEF QueryInv
<1>3. Adds(call, call', g)
    BY DEF EngineSelect, Current, EngineGets, Adds
<1>4. /\ h.start \in Int /\ h.end \in Int /\ a.start \in Int /\ a.end \in Int
      /\ r.mint \in Int /\ r.maxt \in Int
      /\ h.start =< a.start /\ a.end =< h.end
      /\ r.mint =< h.start /\ h.end =< r.maxt
    <2> HIDE DEF n
    <2> QED BY <1>1, <1>2, HintsCover
<1>5. \A s \in Findable : Wants(call, n, s) =>
         matchesAll(s.lset, M) /\ a.start =< s.t /\ s.t =< a.end
    BY <1>1 DEF Wants
<1> HIDE DEF n, M, h, r, a
<1>6. ASSUME NEW s \in Findable, Wants(call, n, s) PROVE Sent(call, s) \in g
  <2>1. matchesAll(s.lset, M) /\ a.start =< s.t /\ s.t =< a.end /\ s.t \in Int
      BY <1>2, <1>5, <1>6, FindableTime
  <2>2. h.start =< s.t /\ s.t =< h.end
      BY <1>4, <2>1
  <2>3. s.v \in g
      BY <1>2, <1>4, <2>1, <2>2, EngineFinds
  <2> QED BY <1>1, <2>3 DEF Sent
<1>7. ASSUME NEW v \in g
      PROVE  v \in {Sent(call, s) : s \in {s \in Committed : matchesAll(s.lset, M)}}
  <2>1. PICK c \in Committed : matchesAll(c.lset, M) /\ c.v = v
      BY <1>2, <1>4, EngineOnly
  <2> QED BY <1>1, <2>1 DEF Sent
<1> HIDE DEF g
<1>8. n = Len(call.got) + 1
    BY DEF n
<1>9. g \subseteq {Sent(call, s) : s \in {s \in Committed : matchesAll(s.lset, call.sels[n].matchers)}}
    BY <1>7 DEF M
<1> QED BY <1>1, <1>2, <1>3, <1>6, <1>8, <1>9, ReadingStep

LEMMA SeriesSelectStep == QueryInv /\ SeriesSelect /\ Track => QueryInv'
<1> SUFFICES ASSUME QueryInv, SeriesSelect, Track PROVE QueryInv'
    OBVIOUS
<1> DEFINE n == Len(call.got) + 1
           M == call.sels[n].matchers
           q == call.q
           g == {s.lset : s \in Select(q.mint, q.maxt, M)}
<1>1. call.op = "series" /\ UNCHANGED memVars /\ HasNext
    BY DEF SeriesSelect
<1>2. /\ call.pc = "select" /\ n \in DOMAIN call.sels
      /\ CallShape(call) /\ CallCovers(call) /\ MemInv
    BY <1>1, NextSelector DEF QueryInv
<1>3. call' = Answered("bad_data") \/ Adds(call, call', g)
    BY DEF SeriesSelect, Current, Adds
<1>4. CASE call' = Answered("bad_data")
    BY <1>1, <1>4, AnsweredStep
<1>5. CASE Adds(call, call', g)
  <2>1. /\ q.mint \in Int /\ q.maxt \in Int /\ call.asked.mint \in Int /\ call.asked.maxt \in Int
        /\ \/ call.asked.maxt < call.asked.mint
           \/ q.mint =< call.asked.mint /\ call.asked.maxt =< q.maxt
      BY <1>1, <1>2 DEF CallShape, CallCovers
  <2>2. \A s \in Findable : Wants(call, n, s) =>
           matchesAll(s.lset, M) /\ call.asked.mint =< s.t /\ s.t =< call.asked.maxt
      BY <1>1 DEF Wants
  <2> HIDE DEF n, M, q
  <2>3. ASSUME NEW s \in Findable, Wants(call, n, s) PROVE Sent(call, s) \in g
    <3>1. matchesAll(s.lset, M) /\ call.asked.mint =< s.t /\ s.t =< call.asked.maxt /\ s.t \in Int
        BY <1>2, <2>2, <2>3, FindableTime
    <3>2. q.mint =< s.t /\ s.t =< q.maxt
        BY <2>1, <3>1
    <3>3. s.lset \in g
        BY <1>2, <2>1, <3>1, <3>2, SelectFinds
    <3> QED BY <1>1, <3>3 DEF Sent
  <2>4. ASSUME NEW l \in g
        PROVE  l \in {Sent(call, s) : s \in {s \in Committed : matchesAll(s.lset, M)}}
    <3>1. PICK x \in Select(q.mint, q.maxt, M) : l = x.lset
        OBVIOUS
    <3>2. matchesAll(x.lset, M) /\ \E c \in Committed : c.lset = x.lset
        BY <1>2, SelectOnly
    <3> QED BY <1>1, <3>1, <3>2 DEF Sent
  <2> HIDE DEF g
  <2>5. n = Len(call.got) + 1
      BY DEF n
  <2>6. g \subseteq {Sent(call, s) : s \in {s \in Committed : matchesAll(s.lset, call.sels[n].matchers)}}
      BY <2>4 DEF M
  <2> QED BY <1>1, <1>2, <1>5, <2>3, <2>5, <2>6, ReadingStep
<1> QED BY <1>3, <1>4, <1>5

LEMMA RespondStep == QueryInv /\ (Respond \/ ExecFails) => QueryInv'
BY AnsweredStep DEF Respond, ExecFails

\* Commits and prunings while a request is served.
LEMMA MemStepKeeps == QueryInv /\ MemStep /\ Track => QueryInv'
<1> SUFFICES ASSUME QueryInv, MemStep, Track PROVE QueryInv'
    OBVIOUS
<1>1. MemInv' /\ HistoryGrows /\ call' = call
    BY MemNextInv DEF QueryInv, MemStep
<1>2. CallShape(call') /\ call'.pc \in {"idle", "select"}
    BY <1>1 DEF QueryInv, CallInv
<1>3. ASSUME call'.pc = "select"
      PROVE  CallCovers(call') /\ ReadAll(call', must') /\ ReadOnly(call)' /\ ReadInOrder(call)'
  <2>1. CallCovers(call) /\ ReadAll(call, must) /\ ReadOnly(call) /\ ReadInOrder(call)
      BY <1>1, <1>3 DEF QueryInv, CallInv
  <2>2. must' = [i \in DOMAIN must |-> must[i] \cap Findable']
      BY <1>1, <1>3 DEF Track
  <2>3. ReadAll(call', must')
      BY <1>1, <2>1, <2>2 DEF ReadAll
  <2>4. Committed \subseteq Committed'
      BY <1>1 DEF HistoryGrows
  <2>5. ReadOnly(call)'
    <3> DEFINE All(i) == {Sent(call, s) : s \in {s \in Committed : matchesAll(s.lset, call.sels[i].matchers)}}
               Now(i) == {Sent(call', s) : s \in {s \in Committed' : matchesAll(s.lset, call'.sels[i].matchers)}}
    <3>1. \A i : All(i) \subseteq Now(i)
        BY <1>1, <2>4
    <3>2. \A i \in DOMAIN call.sels : i =< Len(call.got) => call.got[i] \subseteq All(i)
        BY <2>1 DEF ReadOnly
    <3> HIDE DEF All
    <3>3. \A i \in DOMAIN call'.sels : i =< Len(call'.got) => call'.got[i] \subseteq Now(i)
        <4> HIDE DEF Now
        <4> QED BY <1>1, <3>1, <3>2
    <3> QED BY <3>3 DEF ReadOnly
  <2>6. ReadInOrder(call)'
    <3> SUFFICES ASSUME call.op = "query", NEW j \in DOMAIN call.sels, j =< Len(call.got),
                        NEW i \in 1 .. j - 1, NEW s \in Committed', s.v \in call.got[i],
                        NEW u \in Findable', u.batch =< s.batch, Wants(call, j, u)
                 PROVE  u.v \in call.got[j]
        BY <1>1 DEF ReadInOrder
    <3>1. i \in DOMAIN call.sels /\ i =< Len(call.got)
      <4>1. call.got \in Seq(ToSet(call.got)) /\ call.sels \in Seq(ToSet(call.sels))
          BY DEF QueryInv, CallInv, CallShape
      <4>2. Len(call.got) \in Nat /\ Len(call.sels) \in Nat /\ DOMAIN call.sels = 1 .. Len(call.sels)
          BY <4>1
      <4> QED BY <4>2
    <3>2. s.v \in {Sent(call, c) : c \in {c \in Committed : matchesAll(c.lset, call.sels[i].matchers)}}
        BY <2>1, <3>1 DEF ReadOnly
    <3>3. PICK c \in Committed : s.v = c.v
        BY <3>2 DEF Sent
    <3>4. s \in Committed
        BY <1>1, <3>3 DEF HistoryGrows
    <3>5. u \in Committed' 
        BY DEF Findable
    <3>6. u \in Committed
        BY <1>1, <3>4, <3>5 DEF HistoryGrows
    <3>7. u \in Findable
        BY <1>1, <3>6 DEF HistoryGrows
    <3> QED BY <2>1, <3>4, <3>7 DEF ReadInOrder
  <2> QED BY <1>1, <2>1, <2>3, <2>5, <2>6
<1>4. CallInv'
    BY <1>2, <1>3 DEF CallInv
<1> QED BY <1>1, <1>4 DEF QueryInv

LEMMA QueryStutter == QueryInv /\ UNCHANGED vars => QueryInv'
<1> SUFFICES ASSUME QueryInv, UNCHANGED vars PROVE QueryInv'
    OBVIOUS
<1>1. UNCHANGED memVars /\ call' = call /\ must' = must
    BY DEF vars, queryVars
<1>2. MemInv'
    BY <1>1, MemStutter DEF QueryInv
<1>3. Findable' = Findable /\ Committed' = Committed
    BY <1>1, SameMemory
<1>4. ReadOnly(call)' <=> ReadOnly(call)
    BY <1>1, <1>3 DEF ReadOnly
<1>5. ReadInOrder(call)' <=> ReadInOrder(call)
    BY <1>1, <1>3 DEF ReadInOrder
<1>6. CallInv'
    BY <1>1, <1>4, <1>5 DEF QueryInv, CallInv
<1> QED BY <1>2, <1>6 DEF QueryInv

LEMMA QueryNextInv == QueryInv /\ [Next]_vars => QueryInv'
BY HandleStep, EngineSelectStep, SeriesSelectStep, RespondStep, MemStepKeeps, QueryStutter
   DEF Next, Step

-----------------------------------------------------------------------------
(* Theorems *)

\* The invariant holds in every state: the store's samples are the ends of
\* the histories of commits, numbers of samples are never used twice, and what
\* a request in progress has read is complete, right and in order so far.
THEOREM QueryInvariant == Spec => []QueryInv
<1>1. Init => QueryInv
    BY QueryInitInv
<1>2. QueryInv /\ [Next]_vars => QueryInv'
    BY QueryNextInv
<1> QED BY <1>1, <1>2, PTL DEF Spec

\* For any number of appenders, label sets and hashes: appenders that commit
\* at the same time, equal hashes, samples out of order and pruning never lose,
\* mix up or reorder what a series holds.
THEOREM StoreFollowsCommits == Spec => []SeriesFollowCommits
<1>1. QueryInv => SeriesFollowCommits
    BY FollowsFromInv DEF QueryInv
<1> QED BY <1>1, QueryInvariant, PTL

\* Prune removes from a series in the order of time exactly what is older than
\* the retention: the binary search of pruneSamples finds the cutoff.
THEOREM PruneIsExactAlways == Spec => PruneExact
<1>1. QueryInv =>
         [Prune => \A e \in Entries : InOrder(e.lset) =>
            Values(e.samples) \cap Stored' =
               {s.v : s \in {s \in ToSet(e.samples) : s.t >= now - Retention}}]_memVars
    BY PruneIsExact DEF QueryInv
<1> QED BY <1>1, QueryInvariant, PTL DEF PruneExact

LEMMA ResponseFromInv ==
    ASSUME QueryInv, Respond
    PROVE  \A i \in DOMAIN call.sels :
              /\ \A s \in must[i] : Found(call, i, s)
              /\ call.got[i] \subseteq
                    {IF call.op = "query" THEN s.v ELSE s.lset :
                       s \in {s \in Committed : matchesAll(s.lset, call.sels[i].matchers)}}
<1>1. call.pc = "select" /\ ~ HasNext
    BY DEF Respond
<1>2. CallShape(call) /\ ReadAll(call, must) /\ ReadOnly(call)
    BY <1>1 DEF QueryInv, CallInv
<1>3. \A i \in DOMAIN call.sels : i =< Len(call.got)
  <2>1. call.got \in Seq(ToSet(call.got)) /\ call.sels \in Seq(ToSet(call.sels))
      BY <1>2 DEF CallShape
  <2>2. Len(call.got) \in Nat /\ Len(call.sels) \in Nat /\ DOMAIN call.sels = 1 .. Len(call.sels)
      BY <2>1
  <2> QED BY <1>1, <2>2 DEF HasNext
<1>4. \A i \in DOMAIN call.sels : \A s \in must[i] : Found(call, i, s)
    BY <1>2, <1>3 DEF ReadAll
<1>5. \A i \in DOMAIN call.sels :
         call.got[i] \subseteq
            {Sent(call, s) : s \in {s \in Committed : matchesAll(s.lset, call.sels[i].matchers)}}
    BY <1>2, <1>3 DEF ReadOnly
<1> QED BY <1>4, <1>5 DEF Sent

\* Every answer has all that was asked for and stored while the request was
\* served, and nothing that was not committed or does not match, for any
\* times, offsets, ranges and matchers, and whatever is committed and pruned
\* between the readings.
THEOREM ResponsesAreExact == Spec => ResponseExact
<1>1. QueryInv =>
         [Respond => \A i \in DOMAIN call.sels :
            /\ \A s \in must[i] : Found(call, i, s)
            /\ call.got[i] \subseteq
                  {IF call.op = "query" THEN s.v ELSE s.lset :
                     s \in {s \in Committed : matchesAll(s.lset, call.sels[i].matchers)}}]_vars
    BY ResponseFromInv
<1> QED BY <1>1, QueryInvariant, PTL DEF ResponseExact

LEMMA OrderFromInv ==
    ASSUME QueryInv, Respond, call.op = "query"
    PROVE  \A j \in DOMAIN call.sels : \A i \in 1 .. j - 1 :
              \A s \in Committed : s.v \in call.got[i] =>
                 \A u \in Findable :
                    u.batch =< s.batch /\ Wants(call, j, u) => u.v \in call.got[j]
<1>1. call.pc = "select" /\ ~ HasNext
    BY DEF Respond
<1>2. CallShape(call) /\ ReadInOrder(call)
    BY <1>1 DEF QueryInv, CallInv
<1>3. \A i \in DOMAIN call.sels : i =< Len(call.got)
  <2>1. call.got \in Seq(ToSet(call.got)) /\ call.sels \in Seq(ToSet(call.sels))
      BY <1>2 DEF CallShape
  <2>2. Len(call.got) \in Nat /\ Len(call.sels) \in Nat /\ DOMAIN call.sels = 1 .. Len(call.sels)
      BY <2>1
  <2> QED BY <1>1, <2>2 DEF HasNext
<1> QED BY <1>2, <1>3 DEF ReadInOrder

\* The readings of one expression have no common snapshot, but a later one is
\* never behind an earlier one, for any number of selectors.
THEOREM ReadingsInOrder == Spec => BatchesInOrder
<1>1. QueryInv =>
         [Respond /\ call.op = "query" =>
            \A j \in DOMAIN call.sels : \A i \in 1 .. j - 1 :
               \A s \in Committed : s.v \in call.got[i] =>
                  \A u \in Findable :
                     u.batch =< s.batch /\ Wants(call, j, u) => u.v \in call.got[j]]_vars
    BY OrderFromInv
<1> QED BY <1>1, QueryInvariant, PTL DEF BatchesInOrder

\* What the label requests look at is what /series lists for the same range,
\* but for a millisecond at each end.
LEMMA LabelRange ==
    ASSUME QueryInv, NEW r \in Request,
           NEW start \in parseTimeParam(r.start, 0), NEW end \in parseTimeParam(r.end, now),
           Asked(r).mint =< Asked(r).maxt
    PROVE  LET listed(d) == {s.lset : s \in Select(Asked(r).mint - d, Asked(r).maxt + d, {})}
           IN  listed(0) \subseteq Listed(start, end, {}) /\ Listed(start, end, {}) \subseteq listed(1)
<1> DEFINE a == Asked(r)
           L(mint, maxt) == Listed(mint, maxt, {})
<1>1. MemInv /\ now \in Int
    BY DEF QueryInv, MemInv, MemTypes
<1>2a. /\ a \in [mint : Int, maxt : Int]
       /\ start \in Int /\ end \in Int
       /\ \/ a.maxt < a.mint
          \/ /\ start =< a.mint /\ a.mint - 1 =< start
             /\ a.maxt =< end /\ end =< a.maxt + 1
    BY <1>1, AskedRange
<1>2b. a.mint =< a.maxt
    OBVIOUS
<1> HIDE DEF a
<1>2. /\ a.mint \in Int /\ a.maxt \in Int /\ start \in Int /\ end \in Int
      /\ start =< a.mint /\ a.mint - 1 =< start
      /\ a.maxt =< end /\ end =< a.maxt + 1
    BY <1>2a, <1>2b
<1>3. /\ a.mint - 0 \in Int /\ a.maxt + 0 \in Int /\ a.mint - 1 \in Int /\ a.maxt + 1 \in Int
      /\ a.mint - 0 = a.mint /\ a.maxt + 0 = a.maxt
    BY <1>2
<1>4. L(a.mint - 0, a.maxt + 0) = {s.lset : s \in Select(a.mint - 0, a.maxt + 0, {})}
    BY <1>1, <1>3, ListedSelected
<1>5. L(a.mint - 1, a.maxt + 1) = {s.lset : s \in Select(a.mint - 1, a.maxt + 1, {})}
    BY <1>1, <1>3, ListedSelected
<1>6. L(a.mint - 0, a.maxt + 0) \subseteq L(start, end)
    BY <1>1, <1>2, <1>3, ListedWider
<1>7. L(start, end) \subseteq L(a.mint - 1, a.maxt + 1)
    BY <1>1, <1>2, <1>3, ListedWider
<1> HIDE DEF L
<1> QED BY <1>4, <1>5, <1>6, <1>7 DEF a, L

\* The requests that look at labels.
LEMMA LabelRequest ==
    ASSUME Handle, call'.op \in {"labels", "values"}
    PROVE  \E r \in Request :
              \/ call'.op = "labels" /\ labelNames(r)
              \/ call'.op = "values" /\ labelValues(r)
<1>1. \A answer : Answered(answer).op = "none"
    BY AnsweredIsCall DEF Call
<1>2. PICK r \in Request :
          \/ ~ r.parses /\ call' = Answered("bad_data")
          \/ r.parses /\ r.op = "query" /\ query(r)
          \/ r.parses /\ r.op = "query_range" /\ queryRange(r)
          \/ r.parses /\ r.op = "series" /\ seriesRequest(r)
          \/ r.parses /\ r.op = "labels" /\ labelNames(r)
          \/ r.parses /\ r.op = "values" /\ labelValues(r)
    BY DEF Handle
<1>3. query(r) => call'.op \in {"none", "query"}
    BY <1>1 DEF query, NoCall
<1>4. queryRange(r) => call'.op \in {"none", "query"}
    BY <1>1 DEF queryRange, NoCall
<1>5. seriesRequest(r) => call'.op \in {"none", "series"}
    BY <1>1 DEF seriesRequest, NoCall
<1>6. ASSUME labelNames(r) PROVE call'.op = "labels"
  <2>1. PICK x : call' = LabelCall(r, "labels", "", x)
      BY <1>6, LabelsAreCall
  <2> QED BY <2>1 DEF LabelCall, Call
<1>7. ASSUME labelValues(r) PROVE call'.op \in {"none", "values"}
  <2>1. PICK x : call' = Answered("bad_data") \/ call' = LabelCall(r, "values", r.name, x)
      BY <1>7, ValuesAreCall
  <2> QED BY <1>1, <2>1 DEF LabelCall, Call
<1> QED BY <1>1, <1>2, <1>3, <1>4, <1>5, <1>6, <1>7

LEMMA LabelsFromInv ==
    ASSUME QueryInv, Handle, call'.op \in {"labels", "values"}
    PROVE  LET of(l) == IF call'.op = "labels" THEN DOMAIN l ELSE {Get(l, call'.name)} \ {""}
               listed(d) == {s.lset : s \in Select(call'.asked.mint - d, call'.asked.maxt + d, {})}
           IN  /\ call'.asked.mint =< call'.asked.maxt =>
                     UNION {of(l) : l \in listed(0)} \subseteq call'.got[1]
               /\ call'.asked.mint =< call'.asked.maxt =>
                     call'.got[1] \subseteq UNION {of(l) : l \in listed(1)}
<1> DEFINE of(l) == IF call'.op = "labels" THEN DOMAIN l ELSE {Get(l, call'.name)} \ {""}
           listed(d) == {s.lset : s \in Select(call'.asked.mint - d, call'.asked.maxt + d, {})}
<1>1. SUFFICES ASSUME call'.asked.mint =< call'.asked.maxt
               PROVE  /\ UNION {of(l) : l \in listed(0)} \subseteq call'.got[1]
                      /\ call'.got[1] \subseteq UNION {of(l) : l \in listed(1)}
    OBVIOUS
<1>2. PICK r \in Request : \/ call'.op = "labels" /\ labelNames(r)
                           \/ call'.op = "values" /\ labelValues(r)
    BY LabelRequest
<1>3. \E start \in parseTimeParam(r.start, 0), end \in parseTimeParam(r.end, now) :
         /\ call'.asked = Asked(r)
         /\ call'.got[1] = UNION {of(l) : l \in Listed(start, end, {})}
  <2>1. CASE call'.op = "labels" /\ labelNames(r)
    <3>1. PICK start \in parseTimeParam(r.start, 0), end \in parseTimeParam(r.end, now) :
              call' = LabelCall(r, "labels", "", LabelNames(start, end, {}))
        BY <2>1, LabelsAreCall
    <3>2. call'.asked = Asked(r) /\ call'.got = <<LabelNames(start, end, {})>>
        BY <3>1 DEF LabelCall, Call
    <3>3. call'.got[1] = LabelNames(start, end, {})
        BY <3>2
    <3> QED BY <2>1, <3>2, <3>3 DEF LabelNames
  <2>2. CASE call'.op = "values" /\ labelValues(r)
    <3>1. call' # Answered("bad_data")
      <4>1. Answered("bad_data").op = "none"
          BY AnsweredIsCall DEF Call
      <4> QED BY <2>2, <4>1
    <3>2. PICK start \in parseTimeParam(r.start, 0), end \in parseTimeParam(r.end, now) :
              call' = LabelCall(r, "values", r.name, LabelValues(r.name, start, end, {}))
        BY <2>2, <3>1, ValuesAreCall
    <3>3. /\ call'.asked = Asked(r) /\ call'.got = <<LabelValues(r.name, start, end, {})>>
          /\ call'.name = r.name
        BY <3>2 DEF LabelCall, Call
    <3>4. call'.got[1] = LabelValues(r.name, start, end, {})
        BY <3>3
    <3>5. \A l : of(l) = {Get(l, r.name)} \ {""}
        BY <2>2, <3>3
    <3>6. LabelValues(r.name, start, end, {}) = UNION {of(l) : l \in Listed(start, end, {})}
        <4> HIDE DEF of
        <4> QED BY <3>5 DEF LabelValues
    <3> QED BY <3>3, <3>4, <3>6
  <2> QED BY <1>2, <2>1, <2>2
<1>4. PICK start \in parseTimeParam(r.start, 0), end \in parseTimeParam(r.end, now) :
         /\ call'.asked = Asked(r)
         /\ call'.got[1] = UNION {of(l) : l \in Listed(start, end, {})}
    BY <1>3
<1>5. listed(0) \subseteq Listed(start, end, {}) /\ Listed(start, end, {}) \subseteq listed(1)
    BY <1>1, <1>4, LabelRange
<1> HIDE DEF of, listed
<1> QED BY <1>4, <1>5

\* The label requests, which look for a sample in the range instead of
\* filtering, know every label of every series that /series lists and no other,
\* for any times and label sets.
THEOREM LabelsAreCovered == Spec => LabelsCover
<1>1. QueryInv =>
         [Handle /\ call'.op \in {"labels", "values"} =>
            LET of(l) == IF call'.op = "labels" THEN DOMAIN l ELSE {Get(l, call'.name)} \ {""}
                listed(d) == {s.lset : s \in Select(call'.asked.mint - d, call'.asked.maxt + d, {})}
            IN  /\ call'.asked.mint =< call'.asked.maxt =>
                      UNION {of(l) : l \in listed(0)} \subseteq call'.got[1]
                /\ call'.asked.mint =< call'.asked.maxt =>
                      call'.got[1] \subseteq UNION {of(l) : l \in listed(1)}]_vars
    BY LabelsFromInv
<1> QED BY <1>1, QueryInvariant, PTL DEF LabelsCover

=============================================================================
