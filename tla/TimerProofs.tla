----------------------------- MODULE TimerProofs -----------------------------
(***************************************************************************)
(* The timer wheel and the software timers: both keep sorted lists of      *)
(* relative times, and both are shown to implement a specification that    *)
(* knows of ticks left and of no list; for any number of tasks and timers, *)
(* any timeouts and intervals, any length of the wheel.                    *)
(*                                                                         *)
(* The first part is about DeltaList: an insertion and a removal leave the *)
(* total of every other entry alone.  With that, a refinement proof is     *)
(* about the one entry that moves.                                         *)
(***************************************************************************)
EXTENDS SortLink, LosSwtmr, LosListTheorems, FiniteSetTheorems

-----------------------------------------------------------------------------
SumsTo(f, s, w, n) == f = [k \in 0 .. n |-> IF k = 0 THEN 0 ELSE f[k - 1] + w[s[k]]]

LEMMA SumExists ==
    ASSUME NEW s, NEW w, NEW n \in Nat
    PROVE  \E f : SumsTo(f, s, w, n)
  <1> DEFINE bad == {i \in Nat : \A f : ~SumsTo(f, s, w, i)}
  <1>1. ASSUME bad # {} PROVE FALSE
    <2>1. PICK p \in bad : \A r \in bad : p <= r
      BY <1>1, NatMinimum
    <2>2. CASE p = 0
      <3> DEFINE f == [k \in 0 .. 0 |-> 0]
      <3>1. f = [k \in 0 .. 0 |-> IF k = 0 THEN 0 ELSE f[k - 1] + w[s[k]]]
        OBVIOUS
      <3> HIDE DEF f
      <3>2. SumsTo(f, s, w, 0)
        BY <3>1 DEF SumsTo
      <3> QED BY <2>1, <2>2, <3>2
    <2>3. CASE p # 0
      <3>1. p - 1 \in Nat /\ p - 1 \notin bad
        BY <2>1, <2>3
      <3>2. PICK f : SumsTo(f, s, w, p - 1)
        BY <3>1
      <3> DEFINE g == [k \in 0 .. p |-> IF k < p THEN f[k] ELSE f[p - 1] + w[s[p]]]
      <3>3. ASSUME NEW k \in 0 .. p
            PROVE  g[k] = IF k = 0 THEN 0 ELSE g[k - 1] + w[s[k]]
        <4>1. CASE k < p
          <5>1. g[k] = f[k] /\ k \in 0 .. (p - 1)
            BY <2>1, <4>1
          <5>2. k # 0 => g[k - 1] = f[k - 1]
            BY <2>1, <4>1
          <5>3. f[k] = IF k = 0 THEN 0 ELSE f[k - 1] + w[s[k]]
            BY <3>2, <5>1 DEF SumsTo
          <5> HIDE DEF g
          <5> QED BY <5>1, <5>2, <5>3
        <4>2. CASE k = p
          <5>1. g[k] = f[p - 1] + w[s[p]] /\ g[k - 1] = f[p - 1] /\ k # 0
            BY <2>1, <2>3, <4>2
          <5> HIDE DEF g
          <5> QED BY <4>2, <5>1
        <4> QED BY <2>1, <4>1, <4>2
      <3>4. g = [k \in 0 .. p |-> IF k = 0 THEN 0 ELSE g[k - 1] + w[s[k]]]
        <4> DEFINE h == [k \in 0 .. p |-> IF k = 0 THEN 0 ELSE g[k - 1] + w[s[k]]]
        <4>1. \A k \in 0 .. p : g[k] = h[k]
          BY <3>3
        <4>2. g = [k \in 0 .. p |-> g[k]]
          OBVIOUS
        <4>3. h = [k \in 0 .. p |-> h[k]]
          OBVIOUS
        <4> HIDE DEF g, h
        <4>4. g = h
          BY <4>1, <4>2, <4>3
        <4> QED BY <4>4 DEF h
      <3> HIDE DEF g
      <3>5. SumsTo(g, s, w, p)
        BY <3>4 DEF SumsTo
      <3> QED BY <2>1, <3>5
    <2> QED BY <2>2, <2>3
  <1> QED BY <1>1

(***************************************************************************)
(* Whatever starts at 0 and grows by the relative times is the total.      *)
(***************************************************************************)
Sums(f, s, w, n) == f[0] = 0 /\ \A k \in 1 .. n : f[k] = f[k - 1] + w[s[k]]

LEMMA TotalIs ==
    ASSUME NEW s, NEW w, NEW n \in Nat, NEW f, Sums(f, s, w, n)
    PROVE  \A i \in 0 .. n : Total(s, w, i) = f[i]
  <1> SUFFICES ASSUME NEW i \in 0 .. n PROVE Total(s, w, i) = f[i]
    OBVIOUS
  <1> USE DEF Sums
  <1> DEFINE g == CHOOSE h : SumsTo(h, s, w, i)
  <1>1. SumsTo(g, s, w, i)
    <2>1. i \in Nat
      OBVIOUS
    <2> QED BY <2>1, SumExists
  <1>2. Total(s, w, i) = g[i]
    BY DEF Total, SumsTo
  <1> HIDE DEF g
  <1>3. g[0] = 0 /\ \A k \in 1 .. i : g[k] = g[k - 1] + w[s[k]]
    <2> DEFINE r == [k \in 0 .. i |-> IF k = 0 THEN 0 ELSE g[k - 1] + w[s[k]]]
    <2>1. g = r
      BY <1>1 DEF SumsTo
    <2>2. r[0] = 0
      OBVIOUS
    <2>3. ASSUME NEW k \in 1 .. i PROVE r[k] = g[k - 1] + w[s[k]]
      <3>1. k \in 0 .. i /\ k # 0
        OBVIOUS
      <3> QED BY <3>1
    <2> HIDE DEF r
    <2> QED BY <2>1, <2>2, <2>3
  <1> DEFINE bad == {k \in 0 .. i : g[k] # f[k]}
  <1>4. ASSUME bad # {} PROVE FALSE
    <2>0. bad \in SUBSET Nat
      OBVIOUS
    <2>1. PICK p \in bad : \A r \in bad : p <= r
      BY <1>4, <2>0, NatMinimum
    <2>2. p # 0
      BY <1>3, <2>1
    <2>3. p \in 1 .. i /\ p \in 1 .. n /\ p - 1 \in 0 .. i /\ p - 1 \notin bad
      BY <2>1, <2>2
    <2>4. g[p - 1] = f[p - 1]
      BY <2>3
    <2>5. g[p] = g[p - 1] + w[s[p]] /\ f[p] = f[p - 1] + w[s[p]]
      BY <1>3, <2>3
    <2> QED BY <2>1, <2>4, <2>5
  <1> QED BY <1>2, <1>4

LEMMA TotalSteps ==
    ASSUME NEW S, NEW s \in Seq(S), NEW w \in [S -> Int]
    PROVE  /\ Total(s, w, 0) = 0
           /\ \A k \in 1 .. Len(s) : Total(s, w, k) = Total(s, w, k - 1) + w[s[k]]
           /\ \A k \in 0 .. Len(s) : Total(s, w, k) \in Int
  <1> DEFINE n == Len(s)
  <1>0. n \in Nat
    OBVIOUS
  <1>1. PICK f : SumsTo(f, s, w, n)
    BY <1>0, SumExists
  <1> HIDE DEF n
  <1>2. f[0] = 0 /\ \A k \in 1 .. n : f[k] = f[k - 1] + w[s[k]]
    <2> DEFINE r == [k \in 0 .. n |-> IF k = 0 THEN 0 ELSE f[k - 1] + w[s[k]]]
    <2>1. f = r
      BY <1>1 DEF SumsTo
    <2>2. r[0] = 0
      BY <1>0
    <2>3. ASSUME NEW k \in 1 .. n PROVE r[k] = f[k - 1] + w[s[k]]
      <3>1. k \in 0 .. n /\ k # 0
        BY <1>0
      <3> QED BY <3>1
    <2> HIDE DEF r
    <2> QED BY <2>1, <2>2, <2>3
  <1>3. \A i \in 0 .. n : Total(s, w, i) = f[i]
    <2>1. Sums(f, s, w, n)
      BY <1>2 DEF Sums
    <2> QED BY <1>0, <2>1, TotalIs
  <1>4. \A k \in 1 .. n : w[s[k]] \in Int
    BY DEF n
  <1> DEFINE bad == {k \in 0 .. n : f[k] \notin Int}
  <1>5. ASSUME bad # {} PROVE FALSE
    <2>0. bad \in SUBSET Nat
      BY <1>0
    <2>1. PICK p \in bad : \A r \in bad : p <= r
      BY <2>0, <1>5, NatMinimum
    <2>2. p # 0
      BY <1>2, <2>1
    <2>3. p \in 1 .. n /\ p - 1 \in 0 .. n /\ p - 1 \notin bad
      BY <1>0, <2>1, <2>2
    <2>4. f[p - 1] \in Int /\ w[s[p]] \in Int
      BY <2>3, <1>4
    <2>5. f[p] = f[p - 1] + w[s[p]]
      BY <1>2, <2>3
    <2> QED BY <2>1, <2>4, <2>5
  <1>6. \A k \in 0 .. n : f[k] \in Int
    BY <1>5
  <1>7. \A k \in 1 .. n : k - 1 \in 0 .. n /\ k \in 0 .. n
    BY <1>0
  <1>8. 0 \in 0 .. n
    BY <1>0
  <1> QED BY <1>2, <1>3, <1>6, <1>7, <1>8 DEF n

(***************************************************************************)
(* The list is sorted by totals, since no relative time is negative.       *)
(***************************************************************************)
LEMMA TotalGrows ==
    ASSUME NEW S, NEW s \in Seq(S), NEW w \in [S -> Int],
           \A k \in 1 .. Len(s) : w[s[k]] >= 0,
           NEW i \in 0 .. Len(s)
    PROVE  \A j \in i .. Len(s) : Total(s, w, i) <= Total(s, w, j)
  <1> DEFINE n == Len(s)
             T(k) == Total(s, w, k)
             bad == {j \in i .. n : ~(T(i) <= T(j))}
  <1>0. n \in Nat /\ i \in Nat
    OBVIOUS
  <1>1. /\ \A k \in 1 .. n : T(k) = T(k - 1) + w[s[k]]
        /\ \A k \in 0 .. n : T(k) \in Int
    BY TotalSteps
  <1>2. \A k \in 1 .. n : w[s[k]] \in Int /\ w[s[k]] >= 0
    OBVIOUS
  <1> HIDE DEF n, T
  <1>3. ASSUME bad # {} PROVE FALSE
    <2>0. bad \in SUBSET Nat
      BY <1>0
    <2>1. PICK p \in bad : \A r \in bad : p <= r
      BY <2>0, <1>3, NatMinimum
    <2>2. p # i
      BY <1>0, <1>1, <2>1 DEF n
    <2>3. p \in 1 .. n /\ p - 1 \in i .. n /\ p - 1 \notin bad
      BY <1>0, <2>1, <2>2
    <2>4. T(i) <= T(p - 1)
      BY <2>3
    <2>5. T(p) = T(p - 1) + w[s[p]] /\ T(p - 1) \in Int /\ T(i) \in Int
      BY <1>0, <1>1, <2>3 DEF n
    <2> QED BY <2>1, <2>3, <2>4, <2>5, <1>2
  <1> QED BY <1>3 DEF n, T

(***************************************************************************)
(* r is s with x inserted at place p, own after the entry before it.       *)
(***************************************************************************)
InsertedAtPlace(s, w, r, v, p, x, own) ==
    /\ Len(r) = Len(s) + 1
    /\ \A i \in 1 .. Len(r) : r[i] = IF i < p THEN s[i] ELSE IF i = p THEN x ELSE s[i - 1]
    /\ v[x] = own
    /\ \A i \in 1 .. Len(s) : v[s[i]] = IF i = p THEN w[s[i]] - own ELSE w[s[i]]

LEMMA InsertTotals ==
    ASSUME NEW S, NEW s \in Seq(S), NEW w \in [S -> Int], NEW r \in Seq(S), NEW v,
           NEW p \in 1 .. Len(s) + 1, NEW x, NEW own \in Int,
           InsertedAtPlace(s, w, r, v, p, x, own)
    PROVE  /\ Total(r, v, p) = Total(s, w, p - 1) + own
           /\ \A i \in 0 .. Len(r) :
                  i # p => Total(r, v, i) = Total(s, w, IF i < p THEN i ELSE i - 1)
  <1> DEFINE n == Len(s)
             T(k) == Total(s, w, k)
             f == [i \in 0 .. n + 1 |-> IF i < p THEN T(i)
                                        ELSE IF i = p THEN T(p - 1) + own ELSE T(i - 1)]
  <1>0. n \in Nat /\ p \in 1 .. n + 1 /\ p \in Int
    OBVIOUS
  <1>1. /\ T(0) = 0
        /\ \A k \in 1 .. n : T(k) = T(k - 1) + w[s[k]]
        /\ \A k \in 0 .. n : T(k) \in Int
    BY TotalSteps
  <1>2. /\ Len(r) = n + 1
        /\ \A i \in 1 .. n + 1 : r[i] = IF i < p THEN s[i] ELSE IF i = p THEN x ELSE s[i - 1]
        /\ v[x] = own
        /\ \A i \in 1 .. n : v[s[i]] = IF i = p THEN w[s[i]] - own ELSE w[s[i]]
    BY DEF InsertedAtPlace
  <1>3. \A i \in 1 .. n : w[s[i]] \in Int
    OBVIOUS
  <1>4. \A i \in 0 .. n + 1 : f[i] = IF i < p THEN T(i)
                                     ELSE IF i = p THEN T(p - 1) + own ELSE T(i - 1)
    OBVIOUS
  <1> HIDE DEF n, T, f
  <1>5. f[0] = 0
    BY <1>0, <1>1, <1>4
  <1>6. ASSUME NEW i \in 1 .. n + 1 PROVE f[i] = f[i - 1] + v[r[i]]
    <2>0. i \in Int /\ i \in 0 .. n + 1 /\ i - 1 \in 0 .. n + 1
      BY <1>0
    <2>1. CASE i < p
      <3>1. i \in 1 .. n /\ i # p /\ i - 1 < p
        BY <1>0, <2>0, <2>1
      <3>2. r[i] = s[i] /\ v[s[i]] = w[s[i]]
        BY <1>2, <2>1, <3>1
      <3>3. f[i] = T(i) /\ f[i - 1] = T(i - 1)
        BY <1>4, <2>0, <2>1, <3>1
      <3> QED BY <1>1, <3>1, <3>2, <3>3
    <2>2. CASE i = p
      <3>1. r[i] = x /\ v[x] = own
        BY <1>2, <2>2
      <3>2. i - 1 < p /\ ~(i < p)
        BY <2>0, <2>2
      <3>3. f[i] = T(p - 1) + own /\ f[i - 1] = T(p - 1)
        BY <1>4, <2>0, <2>2, <3>2
      <3> QED BY <3>1, <3>3
    <2>3. CASE i > p
      <3>1. i - 1 \in 1 .. n /\ ~(i < p) /\ i # p /\ ~(i - 1 < p)
        BY <1>0, <2>0, <2>3
      <3>2. r[i] = s[i - 1]
        BY <1>2, <3>1
      <3>3. f[i] = T(i - 1)
        BY <1>4, <2>0, <3>1
      <3>4. T(i - 1) = T(i - 2) + w[s[i - 1]] /\ T(i - 2) \in Int /\ w[s[i - 1]] \in Int
        <4>1. i - 2 \in 0 .. n /\ (i - 1) - 1 = i - 2
          BY <1>0, <2>0, <3>1
        <4> QED BY <1>1, <1>3, <3>1, <4>1
      <3>5. CASE i - 1 = p
        <4>1. v[s[i - 1]] = w[s[i - 1]] - own
          BY <1>2, <3>1, <3>5
        <4>2. f[i - 1] = T(p - 1) + own /\ p - 1 = i - 2
          BY <1>4, <2>0, <3>1, <3>5
        <4>3. f[i - 1] = T(i - 2) + own
          BY <4>2
        <4> QED BY <3>2, <3>3, <3>4, <4>1, <4>3
      <3>6. CASE i - 1 # p
        <4>1. v[s[i - 1]] = w[s[i - 1]]
          BY <1>2, <3>1, <3>6
        <4>2. f[i - 1] = T((i - 1) - 1) /\ (i - 1) - 1 = i - 2
          BY <1>4, <2>0, <3>1, <3>6
        <4>3. f[i - 1] = T(i - 2)
          BY <4>2
        <4> QED BY <3>2, <3>3, <3>4, <4>1, <4>3
      <3> QED BY <3>5, <3>6
    <2> QED BY <1>0, <2>0, <2>1, <2>2, <2>3
  <1>7. Sums(f, r, v, n + 1)
    BY <1>5, <1>6 DEF Sums
  <1>8. \A i \in 0 .. n + 1 : Total(r, v, i) = f[i]
    <2>1. n + 1 \in Nat
      BY <1>0
    <2> QED BY <1>7, <2>1, TotalIs
  <1>9. Total(r, v, p) = T(p - 1) + own
    <2>1. p \in 0 .. n + 1 /\ ~(p < p)
      BY <1>0
    <2> QED BY <1>4, <1>8, <2>1
  <1>10. ASSUME NEW i \in 0 .. Len(r), i # p
         PROVE  Total(r, v, i) = T(IF i < p THEN i ELSE i - 1)
    BY <1>2, <1>4, <1>8, <1>10
  <1> QED BY <1>9, <1>10 DEF T

(***************************************************************************)
(* r is s without its k-th entry, whose relative time goes to the next one.*)
(***************************************************************************)
RemovedAtPlace(s, w, r, v, k) ==
    /\ Len(r) = Len(s) - 1
    /\ \A i \in 1 .. Len(r) : r[i] = IF i < k THEN s[i] ELSE s[i + 1]
    /\ \A i \in 1 .. Len(s) :
           i # k => v[s[i]] = IF i = k + 1 THEN w[s[i]] + w[s[k]] ELSE w[s[i]]

LEMMA RemoveTotals ==
    ASSUME NEW S, NEW s \in Seq(S), NEW w \in [S -> Int], NEW r \in Seq(S), NEW v,
           NEW k \in 1 .. Len(s),
           RemovedAtPlace(s, w, r, v, k)
    PROVE  \A i \in 0 .. Len(r) :
               Total(r, v, i) = IF i < k THEN Total(s, w, i) ELSE Total(s, w, i + 1)
  <1> DEFINE n == Len(s) - 1
             T(j) == Total(s, w, j)
             f == [i \in 0 .. n |-> IF i < k THEN T(i) ELSE T(i + 1)]
  <1>0. n \in Nat /\ k \in 1 .. n + 1 /\ k \in Int
    OBVIOUS
  <1>1. /\ T(0) = 0
        /\ \A j \in 1 .. n + 1 : T(j) = T(j - 1) + w[s[j]]
        /\ \A j \in 0 .. n + 1 : T(j) \in Int
    BY TotalSteps
  <1>2. /\ Len(r) = n
        /\ \A i \in 1 .. n : r[i] = IF i < k THEN s[i] ELSE s[i + 1]
        /\ \A i \in 1 .. n + 1 :
               i # k => v[s[i]] = IF i = k + 1 THEN w[s[i]] + w[s[k]] ELSE w[s[i]]
    BY DEF RemovedAtPlace
  <1>3. \A i \in 1 .. n + 1 : w[s[i]] \in Int
    OBVIOUS
  <1>4. \A i \in 0 .. n : f[i] = IF i < k THEN T(i) ELSE T(i + 1)
    OBVIOUS
  <1> HIDE DEF n, T, f
  <1>5. f[0] = 0
    BY <1>0, <1>1, <1>4
  <1>6. ASSUME NEW i \in 1 .. n PROVE f[i] = f[i - 1] + v[r[i]]
    <2>0. i \in Int /\ i \in 0 .. n /\ i - 1 \in 0 .. n
      BY <1>0
    <2>1. CASE i < k
      <3>1. i \in 1 .. n + 1 /\ i # k /\ i # k + 1 /\ i - 1 < k
        BY <1>0, <2>0, <2>1
      <3>2. r[i] = s[i] /\ v[s[i]] = w[s[i]]
        BY <1>2, <2>1, <3>1
      <3>3. f[i] = T(i) /\ f[i - 1] = T(i - 1)
        BY <1>4, <2>0, <2>1, <3>1
      <3> QED BY <1>1, <3>1, <3>2, <3>3
    <2>2. CASE ~(i < k)
      <3>1. i + 1 \in 1 .. n + 1 /\ i + 1 # k /\ i \in 1 .. n + 1 /\ (i + 1) - 1 = i
        BY <1>0, <2>0, <2>2
      <3>2. r[i] = s[i + 1] /\ f[i] = T(i + 1)
        BY <1>2, <1>4, <2>0, <2>2
      <3>3. /\ T(i + 1) = T(i) + w[s[i + 1]] /\ T(i) = T(i - 1) + w[s[i]]
            /\ T(i) \in Int /\ T(i - 1) \in Int /\ w[s[i]] \in Int /\ w[s[i + 1]] \in Int
        <4>1. T(i + 1) = T((i + 1) - 1) + w[s[i + 1]]
          BY <1>1, <3>1
        <4>2. T((i + 1) - 1) = T(i)
          BY <3>1
        <4>3. i \in 0 .. n + 1 /\ i - 1 \in 0 .. n + 1
          BY <1>0, <2>0
        <4> QED BY <1>1, <1>3, <3>1, <4>1, <4>2, <4>3
      <3>4. CASE i = k
        <4>1. v[s[i + 1]] = w[s[i + 1]] + w[s[i]]
          BY <1>2, <3>1, <3>4
        <4>2. f[i - 1] = T(i - 1)
          BY <1>4, <2>0, <3>4
        <4>3. f[i - 1] + v[r[i]] = T(i - 1) + (w[s[i + 1]] + w[s[i]])
          BY <3>2, <4>1, <4>2
        <4>4. T(i + 1) = T(i - 1) + (w[s[i + 1]] + w[s[i]])
          BY <3>3, SMTT(60)
        <4> QED BY <3>2, <4>3, <4>4
      <3>5. CASE i # k
        <4>1. v[s[i + 1]] = w[s[i + 1]]
          <5>1. i + 1 # k + 1
            BY <1>0, <2>0, <3>5
          <5> QED BY <1>2, <3>1, <5>1
        <4>2. f[i - 1] = T((i - 1) + 1) /\ (i - 1) + 1 = i
          <5>1. ~(i - 1 < k)
            BY <1>0, <2>0, <2>2, <3>5
          <5> QED BY <1>4, <2>0, <5>1
        <4>3. f[i - 1] = T(i)
          BY <4>2
        <4> QED BY <3>2, <3>3, <4>1, <4>3
      <3> QED BY <3>4, <3>5
    <2> QED BY <2>1, <2>2
  <1>7. Sums(f, r, v, n)
    BY <1>5, <1>6 DEF Sums
  <1>8. \A i \in 0 .. n : Total(r, v, i) = f[i]
    BY <1>0, <1>7, TotalIs
  <1>9. \A i \in 0 .. Len(r) : Total(r, v, i) = IF i < k THEN T(i) ELSE T(i + 1)
    BY <1>2, <1>4, <1>8
  <1> QED BY <1>9 DEF T

(***************************************************************************)
(* The head pays d for the whole list.                                     *)
(***************************************************************************)
HeadPays(s, w, v, d) ==
    \A i \in 1 .. Len(s) : v[s[i]] = IF i = 1 THEN w[s[i]] - d ELSE w[s[i]]

LEMMA HeadTotals ==
    ASSUME NEW S, NEW s \in Seq(S), NEW w \in [S -> Int], NEW v, NEW d \in Int,
           HeadPays(s, w, v, d)
    PROVE  /\ Total(s, v, 0) = 0
           /\ \A i \in 1 .. Len(s) : Total(s, v, i) = Total(s, w, i) - d
  <1> DEFINE n == Len(s)
             T(j) == Total(s, w, j)
             f == [i \in 0 .. n |-> IF i = 0 THEN 0 ELSE T(i) - d]
  <1>0. n \in Nat
    OBVIOUS
  <1>1. /\ T(0) = 0
        /\ \A j \in 1 .. n : T(j) = T(j - 1) + w[s[j]]
        /\ \A j \in 0 .. n : T(j) \in Int
    BY TotalSteps
  <1>2. \A i \in 1 .. n : v[s[i]] = IF i = 1 THEN w[s[i]] - d ELSE w[s[i]]
    BY DEF HeadPays
  <1>3. \A i \in 1 .. n : w[s[i]] \in Int
    OBVIOUS
  <1>4. f[0] = 0 /\ \A i \in 1 .. n : f[i] = T(i) - d
    <2>1. 0 \in 0 .. n /\ \A i \in 1 .. n : i \in 0 .. n /\ i # 0
      BY <1>0
    <2> HIDE DEF n, T
    <2> QED BY <2>1
  <1> HIDE DEF n, T, f
  <1>6. ASSUME NEW i \in 1 .. n PROVE f[i] = f[i - 1] + v[s[i]]
    <2>1. i \in Int /\ T(i) = T(i - 1) + w[s[i]] /\ T(i - 1) \in Int /\ w[s[i]] \in Int
      BY <1>0, <1>1, <1>3
    <2>2. f[i] = T(i) - d
      BY <1>4
    <2>3. CASE i = 1
      <3>1. v[s[i]] = w[s[i]] - d /\ f[i - 1] = 0 /\ T(i - 1) = 0
        BY <1>1, <1>2, <1>4, <2>3
      <3> QED BY <2>1, <2>2, <3>1
    <2>4. CASE i # 1
      <3>1. v[s[i]] = w[s[i]] /\ i - 1 \in 1 .. n
        BY <1>0, <1>2, <2>1, <2>4
      <3>2. f[i - 1] = T(i - 1) - d
        BY <1>4, <3>1
      <3> QED BY <2>1, <2>2, <3>1, <3>2
    <2> QED BY <2>3, <2>4
  <1>7. Sums(f, s, v, n)
    BY <1>4, <1>6 DEF Sums
  <1>8. \A i \in 0 .. n : Total(s, v, i) = f[i]
    BY <1>0, <1>7, TotalIs
  <1>9. Total(s, v, 0) = 0 /\ \A i \in 1 .. n : Total(s, v, i) = T(i) - d
    <2>1. 0 \in 0 .. n /\ \A i \in 1 .. n : i \in 0 .. n
      BY <1>0
    <2> QED BY <1>4, <1>8, <2>1
  <1> QED BY <1>9 DEF n, T

AgreeOn(s, w, v) == \A i \in 1 .. Len(s) : v[s[i]] = w[s[i]]

LEMMA SameTotals ==
    ASSUME NEW S, NEW s \in Seq(S), NEW w \in [S -> Int], NEW v, AgreeOn(s, w, v)
    PROVE  \A i \in 0 .. Len(s) : Total(s, v, i) = Total(s, w, i)
  <1> DEFINE n == Len(s)
             f == [i \in 0 .. n |-> Total(s, w, i)]
  <1>0. n \in Nat
    OBVIOUS
  <1>1. /\ Total(s, w, 0) = 0
        /\ \A j \in 1 .. n : Total(s, w, j) = Total(s, w, j - 1) + w[s[j]]
    BY TotalSteps
  <1>2. \A i \in 1 .. n : v[s[i]] = w[s[i]]
    BY DEF AgreeOn
  <1>3. \A i \in 0 .. n : f[i] = Total(s, w, i)
    OBVIOUS
  <1> HIDE DEF n, f
  <1>4. f[0] = 0 /\ \A i \in 1 .. n : f[i] = f[i - 1] + v[s[i]]
    <2>1. 0 \in 0 .. n /\ \A i \in 1 .. n : i \in 0 .. n /\ i - 1 \in 0 .. n
      BY <1>0
    <2> QED BY <1>1, <1>2, <1>3, <2>1
  <1>5. Sums(f, s, v, n)
    BY <1>4 DEF Sums
  <1>6. \A i \in 0 .. n : Total(s, v, i) = f[i]
    BY <1>0, <1>5, TotalIs
  <1> QED BY <1>3, <1>6 DEF n

-----------------------------------------------------------------------------
(***************************************************************************)
(* The same for an entry instead of a place.                               *)
(***************************************************************************)
TotalAt(s, w, x) == Total(s, w, PlaceOf(s, x))

LEMMA PlaceIs ==
    ASSUME NEW s, NoRepeat(s), NEW i \in 1 .. Len(s)
    PROVE  PlaceOf(s, s[i]) = i
  BY DEF PlaceOf, NoRepeat

LEMMA HasPlace ==
    ASSUME NEW s, NEW x, Contains(s, x)
    PROVE  PlaceOf(s, x) \in 1 .. Len(s) /\ s[PlaceOf(s, x)] = x
  BY DEF PlaceOf, Contains

(***************************************************************************)
(* r is s with x in place p.                                               *)
(***************************************************************************)
Placed(r, s, p, x) ==
    /\ Len(r) = Len(s) + 1
    /\ \A i \in 1 .. Len(s) + 1 : r[i] = IF i < p THEN s[i] ELSE IF i = p THEN x ELSE s[i - 1]

LEMMA InsertAtFacts ==
    ASSUME NEW S, NEW s \in Seq(S), NEW p \in 1 .. Len(s) + 1, NEW x \in S
    PROVE  InsertAt(s, p, x) \in Seq(S) /\ Placed(InsertAt(s, p, x), s, p, x)
  <1> DEFINE a == SubSeq(s, 1, p - 1)
             b == SubSeq(s, p, Len(s))
             c == a \o <<x>>
  <1>1. a \in Seq(S) /\ Len(a) = p - 1 /\ \A i \in 1 .. (p - 1) : a[i] = s[i]
    OBVIOUS
  <1>2. b \in Seq(S) /\ Len(b) = Len(s) - p + 1 /\ \A i \in 1 .. (Len(s) - p + 1) : b[i] = s[i + p - 1]
    OBVIOUS
  <1>3. InsertAt(s, p, x) = c \o b
    BY DEF InsertAt
  <1>0. Len(s) \in Nat /\ p \in Int /\ p \in 1 .. Len(s) + 1
    OBVIOUS
  <1> HIDE DEF a, b
  <1>4. c \in Seq(S) /\ Len(c) = p /\ \A i \in 1 .. p : c[i] = IF i < p THEN s[i] ELSE x
    <2>1. <<x>> \in Seq(S) /\ Len(<<x>>) = 1 /\ <<x>>[1] = x
      OBVIOUS
    <2>2. c \in Seq(S) /\ Len(c) = p
      <3>1. Len(a) + 1 = p
        BY <1>0, <1>1
      <3>2. Len(c) = Len(a) + Len(<<x>>)
        BY <1>1, <2>1, ConcatLength
      <3> QED BY <1>1, <2>1, <3>1, <3>2
    <2>3. ASSUME NEW i \in 1 .. p, i < p PROVE c[i] = s[i]
      BY <1>0, <1>1, <2>1, <2>3
    <2>4. c[p] = x
      BY <1>0, <1>1, <2>1
    <2> HIDE DEF c
    <2> QED BY <1>0, <2>2, <2>3, <2>4
  <1> HIDE DEF c
  <1>5. c \o b \in Seq(S) /\ Len(c \o b) = Len(s) + 1
    <2>1. Len(c \o b) = Len(c) + Len(b)
      BY <1>2, <1>4, ConcatLength
    <2> QED BY <1>0, <1>2, <1>4, <2>1
  <1>6. ASSUME NEW i \in 1 .. Len(s) + 1
        PROVE  (c \o b)[i] = IF i < p THEN s[i] ELSE IF i = p THEN x ELSE s[i - 1]
    <2>1. CASE i <= p
      <3>1. (c \o b)[i] = c[i]
        BY <1>0, <1>2, <1>4, <2>1
      <3> QED BY <1>0, <1>4, <2>1, <3>1
    <2>2. CASE i > p
      <3>1. i - p \in 1 .. (Len(s) - p + 1) /\ i - p \in Int
        BY <1>0, <2>2
      <3>2. (c \o b)[i] = b[i - p]
        BY <1>0, <1>2, <1>4, <2>2, <3>1
      <3>3. b[i - p] = s[(i - p) + p - 1] /\ (i - p) + p - 1 = i - 1
        BY <1>0, <1>2, <3>1
      <3>4. b[i - p] = s[i - 1]
        BY <3>3
      <3> QED BY <1>0, <2>2, <3>2, <3>4
    <2>3. i <= p \/ i > p
      BY <1>0
    <2> QED BY <2>1, <2>2, <2>3
  <1> QED BY <1>3, <1>5, <1>6 DEF Placed

(***************************************************************************)
(* Its premises and its conclusion have names, as the provers have to match*)
(* eight variables at once when the lemma is cited.                        *)
(***************************************************************************)
Insertion(S, s, w, r, v, p, x, own) ==
    /\ s \in Seq(S) /\ NoRepeat(s) /\ w \in [S -> Int] /\ r \in Seq(S)
    /\ p \in 1 .. Len(s) + 1 /\ ~Contains(s, x) /\ own \in Int
    /\ InsertedAtPlace(s, w, r, v, p, x, own)

InsertionKept(s, w, r, v, p, x, own) ==
    /\ NoRepeat(r)
    /\ \A y : Contains(r, y) <=> Contains(s, y) \/ y = x
    /\ TotalAt(r, v, x) = Total(s, w, p - 1) + own
    /\ \A y : Contains(s, y) => TotalAt(r, v, y) = TotalAt(s, w, y)

LEMMA InsertKeeps ==
    ASSUME NEW S, NEW s, NEW w, NEW r, NEW v, NEW p, NEW x, NEW own,
           Insertion(S, s, w, r, v, p, x, own)
    PROVE  InsertionKept(s, w, r, v, p, x, own)
  <1> USE DEF Insertion
  <1> DEFINE n == Len(s)
  <1>0. n \in Nat /\ p \in 1 .. n + 1 /\ p \in Int
    OBVIOUS
  <1>1. /\ Len(r) = n + 1
        /\ \A i \in 1 .. n + 1 : r[i] = IF i < p THEN s[i] ELSE IF i = p THEN x ELSE s[i - 1]
    BY DEF InsertedAtPlace
  <1>2. \A i \in 1 .. n : s[i] # x
    BY DEF Contains
  <1>3. /\ Total(r, v, p) = Total(s, w, p - 1) + own
        /\ \A i \in 0 .. n + 1 :
               i # p => Total(r, v, i) = Total(s, w, IF i < p THEN i ELSE i - 1)
    <2>1. /\ Total(r, v, p) = Total(s, w, p - 1) + own
          /\ \A i \in 0 .. Len(r) :
                 i # p => Total(r, v, i) = Total(s, w, IF i < p THEN i ELSE i - 1)
      BY InsertTotals
    <2> QED BY <1>1, <2>1
  <1>4. \A i, j \in 1 .. n : s[i] = s[j] => i = j
    BY DEF NoRepeat
  <1>h. \A y : Contains(s, y) <=> \E i \in 1 .. n : s[i] = y
    BY DEF Contains
  <1>i. \A y : Contains(s, y) => TotalAt(s, w, y) = Total(s, w, PlaceOf(s, y)) /\ PlaceOf(s, y) \in 1 .. n /\ s[PlaceOf(s, y)] = y
    BY HasPlace DEF TotalAt
  <1> HIDE DEF n
  <1> DEFINE down(i) == IF i < p THEN i ELSE i - 1
  <1>5. \A i \in 1 .. n + 1 : i # p => down(i) \in 1 .. n /\ r[i] = s[down(i)]
    BY <1>0, <1>1
  <1>6. NoRepeat(r)
    <2> SUFFICES ASSUME NEW i \in 1 .. n + 1, NEW j \in 1 .. n + 1, r[i] = r[j] PROVE i = j
      BY <1>1 DEF NoRepeat
    <2>1. CASE i # p /\ j # p
      <3>1. down(i) = down(j)
        BY <1>4, <1>5, <2>1
      <3> QED BY <1>0, <2>1, <3>1
    <2>2. r[p] = x
      BY <1>0, <1>1
    <2>3. \A k \in 1 .. n + 1 : k # p => r[k] # x
      <3> HIDE DEF down
      <3> QED BY <1>2, <1>5
    <2> QED BY <2>1, <2>2, <2>3
  <1>7. ASSUME NEW i \in 1 .. n
        PROVE  \E j \in 1 .. n + 1 : r[j] = s[i] /\ Total(r, v, j) = Total(s, w, i)
    <2>1. CASE i < p
      <3>1. i \in 1 .. n + 1 /\ i \in 0 .. n + 1
        BY <1>0
      <3>2. r[i] = s[i] /\ Total(r, v, i) = Total(s, w, i)
        BY <1>1, <1>3, <2>1, <3>1
      <3> QED BY <3>1, <3>2
    <2>2. CASE ~(i < p)
      <3>1. i + 1 \in 1 .. n + 1 /\ ~(i + 1 < p) /\ i + 1 # p /\ (i + 1) - 1 = i /\ i + 1 \in 0 .. n + 1
        BY <1>0, <2>2
      <3>2. r[i + 1] = s[(i + 1) - 1] /\ Total(r, v, i + 1) = Total(s, w, (i + 1) - 1)
        BY <1>1, <1>3, <3>1
      <3> QED BY <3>1, <3>2
    <2> QED BY <2>1, <2>2
  <1>8. ASSUME NEW y PROVE Contains(r, y) <=> Contains(s, y) \/ y = x
    <2>1. Contains(r, y) <=> \E i \in 1 .. n + 1 : r[i] = y
      BY <1>1 DEF Contains
    <2>2. r[p] = x
      BY <1>0, <1>1
    <2>3. Contains(r, y) => Contains(s, y) \/ y = x
      BY <1>h, <1>5, <2>1, <2>2
    <2>4. Contains(s, y) => Contains(r, y)
      BY <1>h, <1>7, <2>1
    <2> QED BY <1>0, <2>1, <2>2, <2>3, <2>4
  <1>9. \A j \in 1 .. n + 1 : TotalAt(r, v, r[j]) = Total(r, v, j)
    BY <1>1, <1>6, PlaceIs DEF TotalAt
  <1>10. TotalAt(r, v, x) = Total(s, w, p - 1) + own
    <2>1. r[p] = x /\ p \in 0 .. n + 1
      BY <1>0, <1>1
    <2> QED BY <1>0, <1>3, <1>9, <2>1
  <1>11. ASSUME NEW y, Contains(s, y) PROVE TotalAt(r, v, y) = TotalAt(s, w, y)
    <2>1. PICK j \in 1 .. n + 1 : r[j] = s[PlaceOf(s, y)] /\ Total(r, v, j) = Total(s, w, PlaceOf(s, y))
      BY <1>i, <1>7, <1>11
    <2> QED BY <1>i, <1>9, <1>11, <2>1
  <1> QED BY <1>6, <1>8, <1>10, <1>11 DEF InsertionKept

Removal(S, s, w, r, v, k) ==
    /\ s \in Seq(S) /\ NoRepeat(s) /\ w \in [S -> Int] /\ r \in Seq(S)
    /\ k \in 1 .. Len(s)
    /\ RemovedAtPlace(s, w, r, v, k)

RemovalKept(s, w, r, v, k) ==
    /\ NoRepeat(r)
    /\ \A y : Contains(r, y) <=> Contains(s, y) /\ y # s[k]
    /\ \A y : Contains(r, y) => TotalAt(r, v, y) = TotalAt(s, w, y)

LEMMA RemoveKeeps ==
    ASSUME NEW S, NEW s, NEW w, NEW r, NEW v, NEW k,
           Removal(S, s, w, r, v, k)
    PROVE  RemovalKept(s, w, r, v, k)
  <1> USE DEF Removal
  <1> DEFINE n == Len(s) - 1
  <1>0. n \in Nat /\ k \in 1 .. n + 1 /\ k \in Int
    OBVIOUS
  <1>1. Len(r) = n /\ \A i \in 1 .. n : r[i] = IF i < k THEN s[i] ELSE s[i + 1]
    BY DEF RemovedAtPlace
  <1>3. \A i \in 0 .. n : Total(r, v, i) = IF i < k THEN Total(s, w, i) ELSE Total(s, w, i + 1)
    <2>1. \A i \in 0 .. Len(r) :
               Total(r, v, i) = IF i < k THEN Total(s, w, i) ELSE Total(s, w, i + 1)
      BY RemoveTotals
    <2> QED BY <1>1, <2>1
  <1>4. \A i, j \in 1 .. n + 1 : s[i] = s[j] => i = j
    BY DEF NoRepeat
  <1>h. \A y : Contains(s, y) <=> \E i \in 1 .. n + 1 : s[i] = y
    BY DEF Contains
  <1>i. \A i \in 1 .. n + 1 : TotalAt(s, w, s[i]) = Total(s, w, i)
    BY PlaceIs DEF TotalAt
  <1> HIDE DEF n
  <1> DEFINE up(i) == IF i < k THEN i ELSE i + 1
  <1>5. \A i \in 1 .. n : /\ up(i) \in 1 .. n + 1 /\ up(i) # k /\ r[i] = s[up(i)]
                          /\ Total(r, v, i) = Total(s, w, up(i))
    <2> SUFFICES ASSUME NEW i \in 1 .. n
                 PROVE  /\ up(i) \in 1 .. n + 1 /\ up(i) # k /\ r[i] = s[up(i)]
                        /\ Total(r, v, i) = Total(s, w, up(i))
      OBVIOUS
    <2>0. i \in 0 .. n /\ i \in Int
      BY <1>0
    <2>1. CASE i < k
      <3>1. up(i) = i /\ i \in 1 .. n + 1 /\ i # k
        BY <1>0, <2>0, <2>1
      <3>2. r[i] = s[i] /\ Total(r, v, i) = Total(s, w, i)
        BY <1>1, <1>3, <2>0, <2>1
      <3> HIDE DEF up
      <3> QED BY <3>1, <3>2
    <2>2. CASE ~(i < k)
      <3>1. up(i) = i + 1 /\ i + 1 \in 1 .. n + 1 /\ i + 1 # k
        BY <1>0, <2>0, <2>2
      <3>2. r[i] = s[i + 1] /\ Total(r, v, i) = Total(s, w, i + 1)
        BY <1>1, <1>3, <2>0, <2>2
      <3> HIDE DEF up
      <3> QED BY <3>1, <3>2
    <2> QED BY <2>1, <2>2
  <1>6. NoRepeat(r)
    <2> SUFFICES ASSUME NEW i \in 1 .. n, NEW j \in 1 .. n, r[i] = r[j] PROVE i = j
      BY <1>1 DEF NoRepeat
    <2>1. up(i) = up(j)
      BY <1>4, <1>5
    <2> QED BY <1>0, <2>1
  <1>7. ASSUME NEW j \in 1 .. n + 1, j # k PROVE \E i \in 1 .. n : r[i] = s[j]
    <2>1. CASE j < k
      <3>1. j \in 1 .. n
        BY <1>0, <2>1
      <3> QED BY <1>1, <2>1, <3>1
    <2>2. CASE j > k
      <3>1. j - 1 \in 1 .. n /\ ~(j - 1 < k) /\ (j - 1) + 1 = j
        BY <1>0, <2>2
      <3>2. r[j - 1] = s[(j - 1) + 1]
        BY <1>1, <3>1
      <3> QED BY <3>1, <3>2
    <2> QED BY <1>0, <1>7, <2>1, <2>2
  <1>8. ASSUME NEW y PROVE Contains(r, y) <=> Contains(s, y) /\ y # s[k]
    <2>1. Contains(r, y) <=> \E i \in 1 .. n : r[i] = y
      BY <1>1 DEF Contains
    <2>2. Contains(r, y) => Contains(s, y) /\ y # s[k]
      <3> SUFFICES ASSUME Contains(r, y) PROVE Contains(s, y) /\ y # s[k]
        OBVIOUS
      <3>1. PICK i \in 1 .. n : r[i] = y
        BY <2>1
      <3> DEFINE j == up(i)
      <3>2. j \in 1 .. n + 1 /\ j # k /\ s[j] = y
        BY <1>5, <3>1
      <3> HIDE DEF j
      <3> QED BY <1>0, <1>h, <1>4, <3>2
    <2>3. Contains(s, y) /\ y # s[k] => Contains(r, y)
      BY <1>h, <1>7, <2>1
    <2> QED BY <2>2, <2>3
  <1>9. ASSUME NEW y, Contains(r, y) PROVE TotalAt(r, v, y) = TotalAt(s, w, y)
    <2>1. PICK i \in 1 .. n : r[i] = y
      BY <1>1, <1>9 DEF Contains
    <2>2. TotalAt(r, v, y) = Total(r, v, i)
      BY <1>1, <1>6, <2>1, PlaceIs DEF TotalAt
    <2> QED BY <1>i, <1>5, <2>1, <2>2
  <1> QED BY <1>6, <1>8, <1>9 DEF RemovalKept

(***************************************************************************)
(* PlaceFor ends behind every entry that is not later.                     *)
(***************************************************************************)
LEMMA PlaceForFacts ==
    ASSUME NEW S, NEW s \in Seq(S), NEW w \in [S -> Int], NEW n \in Int
    PROVE  /\ PlaceFor(s, w, n) \in 1 .. Len(s) + 1
           /\ \A i \in 1 .. Len(s) : i < PlaceFor(s, w, n) => Total(s, w, i) <= n
           /\ PlaceFor(s, w, n) <= Len(s) => Total(s, w, PlaceFor(s, w, n)) > n
  <1> DEFINE later == {i \in 1 .. Len(s) : Total(s, w, i) > n}
             p == PlaceFor(s, w, n)
  <1>0. Len(s) \in Nat /\ \A i \in 1 .. Len(s) : Total(s, w, i) \in Int
    BY TotalSteps
  <1>1. CASE later = {}
    <2>1. p = Len(s) + 1
      BY <1>1 DEF PlaceFor
    <2>2. \A i \in 1 .. Len(s) : Total(s, w, i) <= n
      BY <1>0, <1>1
    <2> HIDE DEF p
    <2> QED BY <1>0, <2>1, <2>2 DEF p
  <1>2. CASE later # {}
    <2>1. \E i \in later : \A j \in later : i <= j
      <3>1. later \in SUBSET Nat
        OBVIOUS
      <3> HIDE DEF later
      <3> QED BY <1>2, <3>1, NatMinimum
    <2>2. p = CHOOSE i \in later : \A j \in later : i <= j
      BY <1>2 DEF PlaceFor
    <2>3. p \in later /\ \A j \in later : p <= j
      <3> HIDE DEF p, later
      <3> QED BY <2>1, <2>2
    <2> HIDE DEF p
    <2>4. ASSUME NEW i \in 1 .. Len(s), i < p PROVE Total(s, w, i) <= n
      <3>1. i \notin later
        BY <1>0, <2>3, <2>4
      <3> QED BY <1>0, <3>1
    <2> QED BY <1>0, <2>3, <2>4 DEF p
  <1> QED BY <1>1, <1>2

-----------------------------------------------------------------------------
(***************************************************************************)
(* The timer wheel.                                                        *)
(***************************************************************************)
N == SORTLINK_LEN

LEMMA SomeLength ==
    N \in Nat \ {0} /\ N \in Int /\ N > 0 /\ Delays \subseteq Nat \ {0}
  BY SortLinkAssumption DEF N

LEMMA SlotSums ==
    ASSUME NEW i \in 0 .. 2 * N - 1
    PROVE  i % N = (IF i < N THEN i ELSE i - N) /\ i % N \in 0 .. N - 1
  <1>1. i % N = IF i < N THEN i ELSE i - N
    <2>1. CASE i < N
      <3>1. i \in 0 .. N - 1
        BY SomeLength, <2>1
      <3> QED BY SomeLength, <2>1, <3>1
    <2>2. CASE ~(i < N)
      <3>1. i \in N .. 2 * N - 1
        BY SomeLength, <2>2
      <3> QED BY SomeLength, <2>2, <3>1
    <2> QED BY <2>1, <2>2
  <1> QED BY SomeLength, <1>1

LEMMA SlotDifferences ==
    ASSUME NEW a \in 0 .. N - 1, NEW b \in 0 .. N - 1
    PROVE  (a - b) % N = (IF a >= b THEN a - b ELSE a - b + N) /\ (a - b) % N \in 0 .. N - 1
  <1>0. a \in Int /\ b \in Int
    BY SomeLength
  <1>1. CASE a >= b
    <2>1. a - b \in 0 .. 2 * N - 1 /\ a - b < N
      BY SomeLength, <1>0, <1>1
    <2> QED BY <1>1, <2>1, SlotSums
  <1>2. CASE ~(a >= b)
    <2>1. (a - b) % N = a - b + N
      BY SomeLength, <1>0, <1>2
    <2> QED BY SomeLength, <1>0, <1>2, <2>1
  <1> QED BY <1>1, <1>2

LEMMA Division ==
    ASSUME NEW n \in Nat
    PROVE  /\ n % N \in 0 .. N - 1 /\ n \div N \in Nat
           /\ n = N * (n \div N) + (n % N)
  BY SomeLength

(***************************************************************************)
(* TicksLeft as a function of the variables.                               *)
(***************************************************************************)
Ticks(l, c, ix, w, sc, t) ==
    IF ~Contains(l[ix[t]], t) THEN -1
    ELSE IF (ix[t] - c) % N = 0 /\ ~sc THEN N * (TotalAt(l[ix[t]], w, t) + 1)
    ELSE ((ix[t] - c) % N) + N * TotalAt(l[ix[t]], w, t)

LEMMA TicksLeftIs ==
    ASSUME NEW t
    PROVE  /\ TicksLeft(t) = Ticks(sortLink, usCursor, sortIndex, rollNum, scanning, t)
           /\ TicksLeft(t)' = Ticks(sortLink', usCursor', sortIndex', rollNum', scanning', t)
  BY DEF TicksLeft, Ticks, Turns, TotalAt, OnList, N

LEMMA TicksKept ==
    ASSUME NEW u, usCursor' = usCursor, scanning' = scanning, sortIndex'[u] = sortIndex[u],
           Contains(sortLink'[sortIndex[u]], u) <=> Contains(sortLink[sortIndex[u]], u),
           Contains(sortLink[sortIndex[u]], u) =>
               TotalAt(sortLink'[sortIndex[u]], rollNum', u) = TotalAt(sortLink[sortIndex[u]], rollNum, u)
    PROVE  TicksLeft(u)' = TicksLeft(u)
  <1> DEFINE i == sortIndex[u]
             q == sortLink[i]
             r == sortLink'[i]
             a == TotalAt(q, rollNum, u)
             b == TotalAt(r, rollNum', u)
  <1>1. TicksLeft(u) = IF ~Contains(q, u) THEN -1
                       ELSE IF (i - usCursor) % N = 0 /\ ~scanning THEN N * (a + 1)
                       ELSE ((i - usCursor) % N) + N * a
    BY TicksLeftIs DEF Ticks
  <1>2. TicksLeft(u)' = IF ~Contains(r, u) THEN -1
                        ELSE IF (i - usCursor) % N = 0 /\ ~scanning THEN N * (b + 1)
                        ELSE ((i - usCursor) % N) + N * b
    BY TicksLeftIs DEF Ticks
  <1>3. (Contains(r, u) <=> Contains(q, u)) /\ (Contains(q, u) => a = b)
    OBVIOUS
  <1> HIDE DEF i, q, r, a, b
  <1> QED BY <1>1, <1>2, <1>3

(***************************************************************************)
(* A task is in the slot its index names and nowhere else, once; a scan has*)
(* an entry to look at.                                                    *)
(***************************************************************************)
SlotsOK ==
    /\ \A s \in Slots : NoRepeat(sortLink[s])
    /\ \A s \in Slots : \A t : Contains(sortLink[s], t) => t \in Tasks /\ sortIndex[t] = s
    /\ scanning => sortLink[usCursor] # <<>>

SortInv == TypeOK /\ SlotsOK

LEMMA SlotsAre == Slots = 0 .. N - 1
  BY DEF Slots, N

LEMMA SlotTotals ==
    ASSUME SortInv, NEW s \in Slots
    PROVE  /\ sortLink[s] \in Seq(Tasks) /\ Len(sortLink[s]) \in Nat
           /\ rollNum \in [Tasks -> Int]
           /\ \A i \in 1 .. Len(sortLink[s]) : sortLink[s][i] \in Tasks /\ sortIndex[sortLink[s][i]] = s
           /\ Total(sortLink[s], rollNum, 0) = 0
           /\ \A i \in 0 .. Len(sortLink[s]) : Total(sortLink[s], rollNum, i) \in Nat
           /\ \A i \in 1 .. Len(sortLink[s]) :
                  Total(sortLink[s], rollNum, i)
                      = Total(sortLink[s], rollNum, i - 1) + rollNum[sortLink[s][i]]
  <1>1. sortLink[s] \in Seq(Tasks) /\ rollNum \in [Tasks -> Nat]
    BY DEF SortInv, TypeOK
  <1>2. rollNum \in [Tasks -> Int]
    BY <1>1
  <1> DEFINE q == sortLink[s]
  <1>3. Len(q) \in Nat /\ \A i \in 1 .. Len(q) : q[i] \in Tasks /\ Contains(q, q[i])
    BY <1>1 DEF Contains
  <1>4. \A i \in 1 .. Len(q) : rollNum[q[i]] >= 0
    BY <1>1, <1>3
  <1>5. /\ Total(q, rollNum, 0) = 0
        /\ \A i \in 1 .. Len(q) : Total(q, rollNum, i) = Total(q, rollNum, i - 1) + rollNum[q[i]]
        /\ \A i \in 0 .. Len(q) : Total(q, rollNum, i) \in Int
    BY <1>1, <1>2, TotalSteps
  <1>6. \A i \in 0 .. Len(q) : Total(q, rollNum, 0) <= Total(q, rollNum, i)
    <2>1. 0 \in 0 .. Len(q)
      BY <1>3
    <2> QED BY <1>1, <1>2, <1>4, <2>1, TotalGrows
  <1>7. \A i \in 0 .. Len(q) : Total(q, rollNum, i) \in Nat
    BY <1>5, <1>6
  <1>8. \A i \in 1 .. Len(q) : sortIndex[q[i]] = s
    BY <1>3 DEF SortInv, SlotsOK
  <1> QED BY <1>1, <1>2, <1>3, <1>5, <1>7, <1>8

(***************************************************************************)
(* What an operation on slot x does not reach.                             *)
(***************************************************************************)
LEMMA OtherSlots ==
    ASSUME SortInv, NEW x \in Slots, NEW l, NEW w,
           \A y \in Slots : y # x => l[y] = sortLink[y],
           \A u \in Tasks : OnList(u) /\ sortIndex[u] # x => w[u] = rollNum[u]
    PROVE  \A u \in Tasks :
               sortIndex[u] # x =>
                   /\ l[sortIndex[u]] = sortLink[sortIndex[u]]
                   /\ OnList(u) => TotalAt(l[sortIndex[u]], w, u)
                                       = TotalAt(sortLink[sortIndex[u]], rollNum, u)
  <1> SUFFICES ASSUME NEW u \in Tasks, sortIndex[u] # x
               PROVE  /\ l[sortIndex[u]] = sortLink[sortIndex[u]]
                      /\ OnList(u) => TotalAt(l[sortIndex[u]], w, u)
                                          = TotalAt(sortLink[sortIndex[u]], rollNum, u)
    OBVIOUS
  <1> DEFINE y == sortIndex[u]
             q == sortLink[y]
  <1>1. y \in Slots /\ l[y] = q
    BY DEF SortInv, TypeOK
  <1>2. q \in Seq(Tasks) /\ rollNum \in [Tasks -> Int]
    BY <1>1, SlotTotals
  <1>3. ASSUME NEW i \in 1 .. Len(q) PROVE w[q[i]] = rollNum[q[i]]
    <2>1. q[i] \in Tasks /\ sortIndex[q[i]] = y
      BY <1>1, SlotTotals
    <2>2. OnList(q[i])
      BY <2>1 DEF OnList, Contains
    <2> QED BY <2>1, <2>2
  <1>4. \A i \in 0 .. Len(q) : Total(q, w, i) = Total(q, rollNum, i)
    <2>1. AgreeOn(q, rollNum, w)
      BY <1>3 DEF AgreeOn
    <2> HIDE DEF q
    <2> QED BY <1>2, <2>1, SameTotals
  <1>5. ASSUME OnList(u) PROVE TotalAt(q, w, u) = TotalAt(q, rollNum, u)
    <2>1. PlaceOf(q, u) \in 1 .. Len(q)
      BY <1>5, HasPlace DEF OnList
    <2>2. PlaceOf(q, u) \in 0 .. Len(q)
      BY <2>1
    <2> QED BY <1>4, <2>2 DEF TotalAt
  <1> QED BY <1>1, <1>5

(***************************************************************************)
(* osTaskAdd2TimerList arms the task for exactly its timeout.              *)
(***************************************************************************)
LEMMA AddKeeps ==
    ASSUME SortInv, NEW t \in Tasks, NEW n \in Delays, ~scanning, ~OnList(t),
           osTaskAdd2TimerList(t, n)
    PROVE  /\ SortInv'
           /\ TicksLeft(t) = -1 /\ TicksLeft(t)' = n
           /\ \A u \in Tasks : u # t => TicksLeft(u)' = TicksLeft(u)
  <1> DEFINE idx == n % N
             roll == RollOf(n)
             slot == (idx + usCursor) % N
             s == sortLink[slot]
             p == PlaceFor(s, rollNum, roll)
             own == roll - Total(s, rollNum, p - 1)
             r == InsertAt(s, p, t)
  <1>1. /\ sortLink' = [sortLink EXCEPT ![slot] = r]
        /\ sortIndex' = [sortIndex EXCEPT ![t] = slot]
        /\ rollNum' = [u \in Tasks |-> IF u = t THEN own
                                       ELSE IF p <= Len(s) /\ u = s[p] THEN rollNum[u] - own
                                       ELSE rollNum[u]]
        /\ usCursor' = usCursor /\ scanning' = scanning
    BY DEF osTaskAdd2TimerList, N, Turns
  <1>2. TypeOK /\ SlotsOK
    BY DEF SortInv
  <1>3. n \in Nat \ {0} /\ idx \in 0 .. N - 1 /\ n \div N \in Nat /\ n = N * (n \div N) + idx
    BY SomeLength, Division
  <1>4. roll \in Nat /\ n = IF idx = 0 THEN N * (roll + 1) ELSE N * roll + idx
    <2>1. CASE idx = 0
      <3>1. roll = n \div N - 1
        BY <2>1 DEF RollOf, N
      <3>2. n \div N # 0
        BY SomeLength, <1>3, <2>1
      <3>3. roll + 1 = n \div N
        BY <1>3, <3>1
      <3>4. roll \in Nat
        BY <1>3, <3>1, <3>2
      <3>5. n = N * (n \div N)
        BY SomeLength, <1>3, <2>1
      <3> QED BY <2>1, <3>3, <3>4, <3>5
    <2>2. CASE idx # 0
      <3>1. idx > 0
        BY <1>3, <2>2, SomeLength
      <3>2. roll = n \div N
        BY <1>3, <3>1 DEF RollOf, N
      <3> QED BY <1>3, <2>2, <3>2
    <2> QED BY <2>1, <2>2
  <1>5. usCursor \in 0 .. N - 1 /\ slot \in 0 .. N - 1 /\ slot \in Slots
        /\ slot = IF idx + usCursor < N THEN idx + usCursor ELSE idx + usCursor - N
    <2>1. usCursor \in 0 .. N - 1
      BY <1>2, SlotsAre DEF TypeOK
    <2>2. idx + usCursor \in 0 .. 2 * N - 1
      BY <1>3, <2>1, SomeLength
    <2> HIDE DEF idx
    <2>3. slot = (IF idx + usCursor < N THEN idx + usCursor ELSE idx + usCursor - N)
          /\ slot \in 0 .. N - 1
      <3> DEFINE j == idx + usCursor
      <3>1. j \in 0 .. 2 * N - 1 /\ slot = j % N
        BY <2>2
      <3> HIDE DEF j, slot
      <3>2. slot = (IF j < N THEN j ELSE j - N) /\ slot \in 0 .. N - 1
        BY <3>1, SlotSums
      <3>3. j = idx + usCursor /\ idx \in Int /\ usCursor \in Int /\ N \in Int
        BY <1>3, <2>1, SomeLength DEF j
      <3> QED BY <3>2, <3>3
    <2> HIDE DEF slot
    <2> QED BY <2>1, <2>3, SlotsAre
  <1>6. (slot - usCursor) % N = idx
    <2>1. (slot - usCursor) % N = IF slot >= usCursor THEN slot - usCursor ELSE slot - usCursor + N
      BY <1>5, SlotDifferences
    <2> HIDE DEF slot, idx
    <2> QED BY <1>3, <1>5, <2>1, SomeLength
  <1> HIDE DEF idx, roll, slot
  <1>7. /\ s \in Seq(Tasks) /\ rollNum \in [Tasks -> Int] /\ Len(s) \in Nat /\ NoRepeat(s)
        /\ \A i \in 1 .. Len(s) : s[i] \in Tasks /\ sortIndex[s[i]] = slot
        /\ Total(s, rollNum, 0) = 0
        /\ \A i \in 0 .. Len(s) : Total(s, rollNum, i) \in Nat
        /\ \A i \in 1 .. Len(s) : Total(s, rollNum, i) = Total(s, rollNum, i - 1) + rollNum[s[i]]
    BY <1>2, <1>5, SlotTotals DEF SlotsOK
  <1>8. \A y \in Slots : ~Contains(sortLink[y], t)
    BY <1>2 DEF SlotsOK, OnList
  <1>9. /\ p \in 1 .. Len(s) + 1
        /\ \A i \in 1 .. Len(s) : i < p => Total(s, rollNum, i) <= roll
        /\ p <= Len(s) => Total(s, rollNum, p) > roll
    <2>1. roll \in Int
      BY <1>4
    <2> HIDE DEF s
    <2> QED BY <1>7, <2>1, PlaceForFacts
  <1>10. r \in Seq(Tasks) /\ Len(r) = Len(s) + 1
         /\ \A i \in 1 .. Len(s) + 1 : r[i] = IF i < p THEN s[i] ELSE IF i = p THEN t ELSE s[i - 1]
    <2>1. s \in Seq(Tasks) /\ p \in 1 .. Len(s) + 1 /\ t \in Tasks
      BY <1>7, <1>9
    <2> HIDE DEF s, p
    <2>2. InsertAt(s, p, t) \in Seq(Tasks) /\ Placed(InsertAt(s, p, t), s, p, t)
      BY <2>1, InsertAtFacts
    <2> HIDE DEF r
    <2>3. r = InsertAt(s, p, t)
      BY DEF r
    <2> QED BY <2>2, <2>3 DEF Placed
  <1> HIDE DEF s, p, r
  <1>11. own \in Nat /\ own \in Int /\ Total(s, rollNum, p - 1) + own = roll
    <2>1. p - 1 \in 0 .. Len(s) /\ Total(s, rollNum, p - 1) \in Nat
      BY <1>7, <1>9
    <2>2. Total(s, rollNum, p - 1) <= roll
      <3>1. CASE p = 1
        BY <1>4, <1>7, <3>1
      <3>2. CASE p # 1
        BY <1>7, <1>9, <3>2
      <3> QED BY <3>1, <3>2
    <2> QED BY <1>4, <2>1, <2>2
  <1>12. p <= Len(s) => rollNum[s[p]] - own \in Nat
    <2> SUFFICES ASSUME p <= Len(s) PROVE rollNum[s[p]] - own \in Nat
      OBVIOUS
    <2>1. p \in 1 .. Len(s) /\ p - 1 \in 0 .. Len(s) /\ p \in 0 .. Len(s)
      BY <1>7, <1>9
    <2>2. Total(s, rollNum, p) = Total(s, rollNum, p - 1) + rollNum[s[p]] /\ rollNum[s[p]] \in Int
      BY <1>7, <2>1
    <2>3. Total(s, rollNum, p - 1) \in Nat /\ Total(s, rollNum, p) \in Nat /\ Total(s, rollNum, p) > roll
      BY <1>7, <1>9, <2>1
    <2> HIDE DEF own
    <2> QED BY <1>4, <1>11, <2>2, <2>3
  <1> HIDE DEF own
  <1>13. rollNum' \in [Tasks -> Nat]
    <2>1. \A u \in Tasks : rollNum[u] \in Nat
      BY <1>2 DEF TypeOK
    <2> QED BY <1>1, <1>11, <1>12, <2>1
  <1>14. InsertedAtPlace(s, rollNum, r, rollNum', p, t, own)
    <2>1. \A i \in 1 .. Len(s) : s[i] # t
      BY <1>5, <1>8 DEF Contains, s
    <2>2. rollNum'[t] = own
      BY <1>1
    <2>3. ASSUME NEW i \in 1 .. Len(s)
          PROVE  rollNum'[s[i]] = IF i = p THEN rollNum[s[i]] - own ELSE rollNum[s[i]]
      <3>1. s[i] \in Tasks /\ s[i] # t
        BY <1>7, <2>1
      <3>2. CASE i = p
        <4>1. p <= Len(s)
          BY <1>7, <3>2
        <4> QED BY <1>1, <3>1, <3>2, <4>1
      <3>3. CASE i # p
        <4>1. ~(p <= Len(s) /\ s[i] = s[p])
          <5>1. p <= Len(s) => p \in 1 .. Len(s)
            BY <1>7, <1>9
          <5> QED BY <1>7, <3>3, <5>1 DEF NoRepeat
        <4> QED BY <1>1, <3>1, <3>3, <4>1
      <3> QED BY <3>2, <3>3
    <2> QED BY <1>10, <2>2, <2>3 DEF InsertedAtPlace
  <1>15. /\ NoRepeat(r)
         /\ \A y : Contains(r, y) <=> Contains(s, y) \/ y = t
         /\ TotalAt(r, rollNum', t) = roll
         /\ \A y : Contains(s, y) => TotalAt(r, rollNum', y) = TotalAt(s, rollNum, y)
    <2>1. ~Contains(s, t)
      BY <1>5, <1>8 DEF s
    <2>2. TotalAt(r, rollNum', t) = Total(s, rollNum, p - 1) + own
          /\ NoRepeat(r)
          /\ (\A y : Contains(r, y) <=> Contains(s, y) \/ y = t)
          /\ \A y : Contains(s, y) => TotalAt(r, rollNum', y) = TotalAt(s, rollNum, y)
      <3>1. Insertion(Tasks, s, rollNum, r, rollNum', p, t, own)
        BY <1>7, <1>9, <1>10, <1>11, <1>14, <2>1 DEF Insertion
      <3>2. InsertionKept(s, rollNum, r, rollNum', p, t, own)
        BY <3>1, InsertKeeps
      <3> QED BY <3>2 DEF InsertionKept
    <2> QED BY <1>11, <2>2
  <1>16. sortLink' \in [Slots -> Seq(Tasks)] /\ sortLink'[slot] = r
         /\ \A y \in Slots : y # slot => sortLink'[y] = sortLink[y]
    BY <1>1, <1>2, <1>5, <1>10 DEF TypeOK
  <1>17. sortIndex' \in [Tasks -> Slots] /\ sortIndex'[t] = slot
         /\ \A u \in Tasks : u # t => sortIndex'[u] = sortIndex[u]
    BY <1>1, <1>2, <1>5 DEF TypeOK
  <1>18. SortInv'
    <2>1. TypeOK'
      BY <1>1, <1>2, <1>13, <1>16, <1>17 DEF TypeOK
    <2>2. ASSUME NEW y \in Slots PROVE NoRepeat(sortLink'[y])
      BY <1>2, <1>15, <1>16 DEF SlotsOK
    <2>3. ASSUME NEW y \in Slots, NEW u, Contains(sortLink'[y], u)
          PROVE  u \in Tasks /\ sortIndex'[u] = y
      <3>1. CASE u = t
        <4>1. y = slot
          BY <1>8, <1>16, <2>3, <3>1
        <4> QED BY <1>17, <3>1, <4>1
      <3>2. CASE u # t
        <4>1. Contains(sortLink[y], u)
          BY <1>15, <1>16, <2>3, <3>2 DEF s
        <4> QED BY <1>2, <1>17, <3>2, <4>1 DEF SlotsOK
      <3> QED BY <3>1, <3>2
    <2>4. ~scanning'
      BY <1>1
    <2> QED BY <2>1, <2>2, <2>3, <2>4 DEF SortInv, SlotsOK
  <1>19. TicksLeft(t) = -1
    BY TicksLeftIs DEF Ticks, OnList
  <1>20. TicksLeft(t)' = n
    <2>1. Contains(sortLink'[sortIndex'[t]], t) /\ TotalAt(sortLink'[sortIndex'[t]], rollNum', t) = roll
      BY <1>15, <1>16, <1>17
    <2>2. (sortIndex'[t] - usCursor') % N = idx
      BY <1>1, <1>6, <1>17
    <2>3. TicksLeft(t)' = IF idx = 0 THEN N * (roll + 1) ELSE idx + N * roll
      BY <1>1, <2>1, <2>2, TicksLeftIs DEF Ticks
    <2>4. idx + N * roll = N * roll + idx
      BY <1>3, <1>4, SomeLength
    <2> QED BY <1>4, <2>3, <2>4
  <1>21. ASSUME NEW u \in Tasks, u # t PROVE TicksLeft(u)' = TicksLeft(u)
    <2>1. sortIndex'[u] = sortIndex[u] /\ sortIndex[u] \in Slots
      BY <1>2, <1>17, <1>21 DEF TypeOK
    <2>2. CASE sortIndex[u] = slot
      <3>1. Contains(r, u) <=> Contains(s, u)
        BY <1>15, <1>21
      <3>2. Contains(s, u) => TotalAt(r, rollNum', u) = TotalAt(s, rollNum, u)
        BY <1>15
      <3> QED BY <1>1, <1>16, <2>1, <2>2, <3>1, <3>2, TicksKept DEF s
    <2>3. CASE sortIndex[u] # slot
      <3>1. \A v \in Tasks : OnList(v) /\ sortIndex[v] # slot => rollNum'[v] = rollNum[v]
        <4> SUFFICES ASSUME NEW v \in Tasks, OnList(v), sortIndex[v] # slot
                     PROVE  rollNum'[v] = rollNum[v]
          OBVIOUS
        <4>1. ~(p <= Len(s) /\ v = s[p])
          <5>1. p <= Len(s) => p \in 1 .. Len(s)
            BY <1>7, <1>9
          <5> QED BY <1>7, <5>1
        <4> QED BY <1>1, <4>1
      <3> DEFINE l == sortLink'
                 w == rollNum'
      <3>2. /\ \A y \in Slots : y # slot => l[y] = sortLink[y]
            /\ \A v \in Tasks : OnList(v) /\ sortIndex[v] # slot => w[v] = rollNum[v]
        BY <1>16, <3>1
      <3> HIDE DEF l, w
      <3>3. /\ l[sortIndex[u]] = sortLink[sortIndex[u]]
            /\ OnList(u) => TotalAt(l[sortIndex[u]], w, u) = TotalAt(sortLink[sortIndex[u]], rollNum, u)
        BY <1>5, <2>3, <3>2, OtherSlots
      <3> QED BY <1>1, <2>1, <3>3, TicksKept DEF OnList, l, w
    <2> QED BY <2>2, <2>3
  <1> QED BY <1>18, <1>19, <1>20, <1>21

(***************************************************************************)
(* osTimerListDelete disarms the task and nobody else: whoever is behind it*)
(* inherits its turns.                                                     *)
(***************************************************************************)
LEMMA DeleteKeeps ==
    ASSUME SortInv, NEW t \in Tasks, ~scanning, OnList(t), osTimerListDelete(t)
    PROVE  /\ SortInv'
           /\ TicksLeft(t) # -1 /\ TicksLeft(t)' = -1
           /\ \A u \in Tasks : u # t => TicksLeft(u)' = TicksLeft(u)
  <1> DEFINE slot == sortIndex[t]
             s == sortLink[slot]
             k == PlaceOf(s, t)
             r == RemoveAt(s, k)
  <1>1. /\ sortLink' = [sortLink EXCEPT ![slot] = r]
        /\ rollNum' = IF k < Len(s) THEN [rollNum EXCEPT ![s[k + 1]] = @ + rollNum[t]] ELSE rollNum
        /\ usCursor' = usCursor /\ sortIndex' = sortIndex /\ scanning' = scanning
    BY DEF osTimerListDelete
  <1>2. TypeOK /\ SlotsOK
    BY DEF SortInv
  <1>3. slot \in Slots
    BY <1>2 DEF TypeOK
  <1>4. k \in 1 .. Len(s) /\ s[k] = t
    BY HasPlace DEF OnList
  <1> HIDE DEF slot
  <1>5. /\ s \in Seq(Tasks) /\ rollNum \in [Tasks -> Int] /\ Len(s) \in Nat /\ NoRepeat(s)
        /\ \A i \in 1 .. Len(s) : s[i] \in Tasks /\ sortIndex[s[i]] = slot
        /\ \A i \in 0 .. Len(s) : Total(s, rollNum, i) \in Nat
    BY <1>2, <1>3, SlotTotals DEF SlotsOK
  <1> HIDE DEF s, k
  <1>6. /\ r \in Seq(Tasks) /\ Len(r) = Len(s) - 1
        /\ \A i \in 1 .. (Len(s) - 1) : r[i] = IF i < k THEN s[i] ELSE s[i + 1]
    BY <1>4, <1>5, RemoveAtFacts
  <1> HIDE DEF r
  <1>7. rollNum' \in [Tasks -> Nat]
    <2>1. k < Len(s) => s[k + 1] \in Tasks
      BY <1>4, <1>5
    <2>2. rollNum \in [Tasks -> Nat]
      BY <1>2 DEF TypeOK
    <2> QED BY <1>1, <2>1, <2>2
  <1>8. RemovedAtPlace(s, rollNum, r, rollNum', k)
    <2>1. ASSUME NEW i \in 1 .. Len(s), i # k
          PROVE  rollNum'[s[i]] = IF i = k + 1 THEN rollNum[s[i]] + rollNum[s[k]] ELSE rollNum[s[i]]
      <3>1. CASE i = k + 1
        <4>1. k < Len(s) /\ s[i] \in Tasks /\ s[i] = s[k + 1]
          BY <1>4, <1>5, <3>1
        <4> QED BY <1>1, <1>4, <1>5, <3>1, <4>1
      <3>2. CASE i # k + 1
        <4>1. k < Len(s) => s[i] # s[k + 1]
          <5>1. k < Len(s) => k + 1 \in 1 .. Len(s)
            BY <1>4, <1>5
          <5> QED BY <1>5, <3>2, <5>1 DEF NoRepeat
        <4>2. s[i] \in Tasks
          BY <1>5
        <4>3. rollNum'[s[i]] = rollNum[s[i]]
          BY <1>1, <1>5, <4>1, <4>2
        <4> QED BY <3>2, <4>3
      <3> QED BY <3>1, <3>2
    <2> QED BY <1>6, <2>1 DEF RemovedAtPlace
  <1>9. /\ NoRepeat(r)
        /\ \A y : Contains(r, y) <=> Contains(s, y) /\ y # t
        /\ \A y : Contains(r, y) => TotalAt(r, rollNum', y) = TotalAt(s, rollNum, y)
    <2>1. /\ NoRepeat(r)
          /\ \A y : Contains(r, y) <=> Contains(s, y) /\ y # s[k]
          /\ \A y : Contains(r, y) => TotalAt(r, rollNum', y) = TotalAt(s, rollNum, y)
      <3>1. /\ s \in Seq(Tasks) /\ NoRepeat(s) /\ rollNum \in [Tasks -> Int] /\ r \in Seq(Tasks)
            /\ k \in 1 .. Len(s)
        BY <1>4, <1>5, <1>6
      <3>2. Removal(Tasks, s, rollNum, r, rollNum', k)
        BY <1>8, <3>1 DEF Removal
      <3>3. RemovalKept(s, rollNum, r, rollNum', k)
        BY <3>2, RemoveKeeps
      <3> QED BY <3>3 DEF RemovalKept
    <2> QED BY <1>4, <2>1
  <1>10. sortLink' \in [Slots -> Seq(Tasks)] /\ sortLink'[slot] = r
         /\ \A y \in Slots : y # slot => sortLink'[y] = sortLink[y]
    BY <1>1, <1>2, <1>3, <1>6 DEF TypeOK
  <1>11. SortInv'
    <2>1. TypeOK'
      BY <1>1, <1>2, <1>7, <1>10 DEF TypeOK
    <2>2. ASSUME NEW y \in Slots PROVE NoRepeat(sortLink'[y])
      BY <1>2, <1>9, <1>10 DEF SlotsOK
    <2>3. ASSUME NEW y \in Slots, NEW u, Contains(sortLink'[y], u)
          PROVE  u \in Tasks /\ sortIndex'[u] = y
      BY <1>1, <1>2, <1>9, <1>10, <2>3 DEF SlotsOK, s
    <2> QED BY <1>1, <2>1, <2>2, <2>3 DEF SortInv, SlotsOK
  <1>12. TicksLeft(t) # -1
    <2>1. TotalAt(s, rollNum, t) \in Nat
      <3>1. PlaceOf(s, t) \in 1 .. Len(s)
        BY <1>4 DEF k
      <3>2. PlaceOf(s, t) \in 0 .. Len(s)
        BY <3>1, <1>5
      <3> QED BY <1>5, <3>2 DEF TotalAt
    <2>2. (slot - usCursor) % N \in 0 .. N - 1
      BY <1>2, <1>3, SlotsAre, SlotDifferences DEF TypeOK
    <2>3. TicksLeft(t) = IF (slot - usCursor) % N = 0 /\ ~scanning THEN N * (TotalAt(s, rollNum, t) + 1)
                         ELSE ((slot - usCursor) % N) + N * TotalAt(s, rollNum, t)
      BY TicksLeftIs DEF Ticks, OnList, s, slot
    <2> DEFINE a == TotalAt(s, rollNum, t)
               d == (slot - usCursor) % N
    <2>4. a \in Nat /\ d \in Nat
      BY <2>1, <2>2, SomeLength
    <2> HIDE DEF a, d
    <2>5. N * (a + 1) \in Nat /\ N * a \in Nat
      BY <2>4, SomeLength
    <2>6. N * (a + 1) # -1 /\ d + N * a # -1
      BY <2>4, <2>5
    <2> QED BY <2>3, <2>6 DEF a, d
  <1>13. TicksLeft(t)' = -1
    <2>1. ~Contains(sortLink'[sortIndex'[t]], t)
      BY <1>1, <1>9, <1>10 DEF slot
    <2> QED BY <2>1, TicksLeftIs DEF Ticks
  <1>14. ASSUME NEW u \in Tasks, u # t PROVE TicksLeft(u)' = TicksLeft(u)
    <2>1. sortIndex'[u] = sortIndex[u] /\ sortIndex[u] \in Slots
      BY <1>1, <1>2 DEF TypeOK
    <2>2. CASE sortIndex[u] = slot
      <3>1. Contains(r, u) <=> Contains(s, u)
        BY <1>9, <1>14
      <3>2. Contains(s, u) => TotalAt(r, rollNum', u) = TotalAt(s, rollNum, u)
        BY <1>9, <3>1
      <3> QED BY <1>1, <1>10, <2>1, <2>2, <3>1, <3>2, TicksKept DEF s
    <2>3. CASE sortIndex[u] # slot
      <3>1. \A v \in Tasks : OnList(v) /\ sortIndex[v] # slot => rollNum'[v] = rollNum[v]
        <4> SUFFICES ASSUME NEW v \in Tasks, OnList(v), sortIndex[v] # slot
                     PROVE  rollNum'[v] = rollNum[v]
          OBVIOUS
        <4>1. ~(k < Len(s) /\ v = s[k + 1])
          <5>1. k < Len(s) => k + 1 \in 1 .. Len(s)
            BY <1>4, <1>5
          <5> QED BY <1>5, <5>1
        <4> QED BY <1>1, <1>5, <4>1
      <3> DEFINE l == sortLink'
                 w == rollNum'
      <3>2. /\ \A y \in Slots : y # slot => l[y] = sortLink[y]
            /\ \A v \in Tasks : OnList(v) /\ sortIndex[v] # slot => w[v] = rollNum[v]
        BY <1>10, <3>1
      <3> HIDE DEF l, w
      <3>3. /\ l[sortIndex[u]] = sortLink[sortIndex[u]]
            /\ OnList(u) => TotalAt(l[sortIndex[u]], w, u) = TotalAt(sortLink[sortIndex[u]], rollNum, u)
        BY <1>3, <2>3, <3>2, OtherSlots
      <3> QED BY <1>1, <2>1, <3>3, TicksKept DEF OnList, l, w
    <2> QED BY <2>2, <2>3
  <1> QED BY <1>11, <1>12, <1>13, <1>14

(***************************************************************************)
(* What an entry's slot and total say of the ticks it has left.            *)
(***************************************************************************)
LEMMA ListedTicks ==
    ASSUME SortInv, NEW t \in Tasks, OnList(t)
    PROVE  /\ sortIndex[t] \in Slots
           /\ (sortIndex[t] - usCursor) % N \in 0 .. N - 1
           /\ (sortIndex[t] - usCursor) % N = 0 <=> sortIndex[t] = usCursor
           /\ TotalAt(sortLink[sortIndex[t]], rollNum, t) \in Nat
           /\ TicksLeft(t) =
                  IF sortIndex[t] = usCursor /\ ~scanning
                  THEN N * (TotalAt(sortLink[sortIndex[t]], rollNum, t) + 1)
                  ELSE ((sortIndex[t] - usCursor) % N) + N * TotalAt(sortLink[sortIndex[t]], rollNum, t)
  <1>1. sortIndex[t] \in Slots /\ usCursor \in Slots
    BY DEF SortInv, TypeOK
  <1> DEFINE a == sortIndex[t]
             s == sortLink[a]
  <1>2. a \in 0 .. N - 1 /\ usCursor \in 0 .. N - 1
    BY <1>1, SlotsAre
  <1> HIDE DEF a
  <1>3. (a - usCursor) % N \in 0 .. N - 1 /\ ((a - usCursor) % N = 0 <=> a = usCursor)
    <2>1. (a - usCursor) % N = (IF a >= usCursor THEN a - usCursor ELSE a - usCursor + N)
          /\ (a - usCursor) % N \in 0 .. N - 1
      BY <1>2, SlotDifferences
    <2> QED BY <1>2, <2>1, SomeLength
  <1>4. TotalAt(s, rollNum, t) \in Nat
    <2>1. PlaceOf(s, t) \in 1 .. Len(s)
      BY HasPlace DEF OnList, a
    <2>2. \A i \in 0 .. Len(s) : Total(s, rollNum, i) \in Nat
      BY <1>1, SlotTotals DEF a
    <2>3. PlaceOf(s, t) \in 0 .. Len(s)
      BY <2>1
    <2> QED BY <2>2, <2>3 DEF TotalAt
  <1> QED BY <1>1, <1>3, <1>4, TicksLeftIs DEF Ticks, OnList, a

(***************************************************************************)
(* One tick: every task on the wheel is one tick nearer, and none was due. *)
(***************************************************************************)
LEMMA ScanStartKeeps ==
    ASSUME SortInv, ScanStart
    PROVE  /\ SortInv'
           /\ \A t \in Tasks : /\ TicksLeft(t) # 0
                               /\ TicksLeft(t)' = IF TicksLeft(t) = -1 THEN -1 ELSE TicksLeft(t) - 1
  <1> DEFINE next == (usCursor + 1) % N
  <1>1. /\ ~scanning /\ usCursor' = next /\ scanning' = (sortLink[next] # <<>>)
        /\ sortLink' = sortLink /\ sortIndex' = sortIndex /\ rollNum' = rollNum
    BY DEF ScanStart, N
  <1>2. TypeOK /\ SlotsOK
    BY DEF SortInv
  <1>3. usCursor \in 0 .. N - 1 /\ usCursor \in Int
    BY <1>2, SlotsAre, SomeLength DEF TypeOK
  <1>4. next = (IF usCursor + 1 < N THEN usCursor + 1 ELSE 0) /\ next \in 0 .. N - 1
    <2> DEFINE j == usCursor + 1
    <2>1. j \in 0 .. 2 * N - 1 /\ next = j % N
      BY <1>3, SomeLength
    <2> HIDE DEF j, next
    <2>2. next = (IF j < N THEN j ELSE j - N) /\ next \in 0 .. N - 1
      BY <2>1, SlotSums
    <2> QED BY <1>3, <2>2, SomeLength DEF j
  <1> HIDE DEF next
  <1>5. SortInv'
    <2>1. TypeOK'
      BY <1>1, <1>2, <1>4, SlotsAre DEF TypeOK
    <2>2. SlotsOK'
      BY <1>1, <1>2 DEF SlotsOK
    <2> QED BY <2>1, <2>2 DEF SortInv
  <1>6. ASSUME NEW t \in Tasks
        PROVE  /\ TicksLeft(t) # 0
               /\ TicksLeft(t)' = IF TicksLeft(t) = -1 THEN -1 ELSE TicksLeft(t) - 1
    <2>1. CASE ~OnList(t)
      <3>1. TicksLeft(t) = -1
        BY <2>1, TicksLeftIs DEF Ticks, OnList
      <3>2. TicksLeft(t)' = -1
        BY <1>1, <2>1, TicksLeftIs DEF Ticks, OnList
      <3> QED BY <3>1, <3>2
    <2>2. CASE OnList(t)
      <3> DEFINE a == sortIndex[t]
                 d == (a - usCursor) % N
                 e == (a - next) % N
                 m == TotalAt(sortLink[a], rollNum, t)
      <3>1. /\ a \in 0 .. N - 1 /\ d \in 0 .. N - 1 /\ (d = 0 <=> a = usCursor) /\ m \in Nat
            /\ TicksLeft(t) = IF a = usCursor THEN N * (m + 1) ELSE d + N * m
        BY <1>1, <2>2, ListedTicks, SlotsAre
      <3>2. TicksLeft(t)' = IF e = 0 /\ ~scanning' THEN N * (m + 1) ELSE e + N * m
        BY <1>1, <2>2, TicksLeftIs DEF Ticks, OnList
      <3>3. d = IF a >= usCursor THEN a - usCursor ELSE a - usCursor + N
        BY <1>3, <3>1, SlotDifferences
      <3>4. e = (IF a >= next THEN a - next ELSE a - next + N)
        BY <1>4, <3>1, SlotDifferences
      <3>5. a = next => scanning'
        <4>1. sortLink[a] # <<>>
          <5>1. sortLink[a] \in Seq(Tasks) /\ Contains(sortLink[a], t)
            BY <1>2, <2>2, <3>1, SlotsAre DEF TypeOK, OnList
          <5> QED BY <5>1, EmptyLinksNone DEF Contains
        <4> QED BY <1>1, <4>1
      <3> HIDE DEF a, d, e, m
      <3>6. a \in Int /\ N \in Int /\ next \in Int
        BY <1>4, <3>1, SomeLength
      <3>7. e = 0 => a = next
        BY <1>3, <1>4, <3>1, <3>4, <3>6
      <3>8. TicksLeft(t)' = e + N * m
        BY <3>2, <3>5, <3>7
      <3>9. N * m \in Nat /\ N * (m + 1) = N * m + N
        BY <3>1, SomeLength
      <3>10. e = IF a = usCursor THEN N - 1 ELSE d - 1
        <4>1. CASE usCursor + 1 < N
          BY <1>3, <1>4, <3>1, <3>3, <3>4, <3>6, <4>1
        <4>2. CASE ~(usCursor + 1 < N)
          BY <1>3, <1>4, <3>1, <3>3, <3>4, <3>6, <4>2
        <4> QED BY <4>1, <4>2
      <3>11. CASE a = usCursor
        <4>1. TicksLeft(t) = N * m + N /\ TicksLeft(t)' = N - 1 + N * m
          BY <3>1, <3>8, <3>9, <3>10, <3>11
        <4> QED BY <3>9, <4>1, SomeLength
      <3>12. CASE a # usCursor
        <4>1. TicksLeft(t) = d + N * m /\ TicksLeft(t)' = d - 1 + N * m /\ d \in Nat /\ d > 0
          BY <3>1, <3>8, <3>10, <3>12, SomeLength
        <4> QED BY <3>9, <4>1
      <3> QED BY <3>11, <3>12
    <2> QED BY <2>1, <2>2
  <1> QED BY <1>5, <1>6

(***************************************************************************)
(* During a scan, what the head of the cursor's slot is worth.             *)
(***************************************************************************)
LEMMA ScanHead ==
    ASSUME SortInv, scanning
    PROVE  LET s == sortLink[usCursor]
           IN  /\ usCursor \in Slots /\ s \in Seq(Tasks) /\ s # <<>> /\ 1 \in 1 .. Len(s) /\ NoRepeat(s)
               /\ Head(s) = s[1] /\ s[1] \in Tasks /\ sortIndex[s[1]] = usCursor /\ OnList(s[1])
               /\ TotalAt(s, rollNum, s[1]) = rollNum[s[1]]
               /\ rollNum \in [Tasks -> Nat] /\ rollNum \in [Tasks -> Int]
               /\ \A i \in 1 .. Len(s) : s[i] \in Tasks /\ sortIndex[s[i]] = usCursor
  <1> DEFINE s == sortLink[usCursor]
  <1>1. usCursor \in Slots /\ s # <<>> /\ NoRepeat(s) /\ rollNum \in [Tasks -> Nat] /\ rollNum \in [Tasks -> Int]
    BY DEF SortInv, SlotsOK, TypeOK
  <1>2. /\ s \in Seq(Tasks) /\ Len(s) \in Nat
        /\ \A i \in 1 .. Len(s) : s[i] \in Tasks /\ sortIndex[s[i]] = usCursor
        /\ Total(s, rollNum, 0) = 0
        /\ \A i \in 1 .. Len(s) : Total(s, rollNum, i) = Total(s, rollNum, i - 1) + rollNum[s[i]]
    BY <1>1, SlotTotals
  <1>3. 1 \in 1 .. Len(s) /\ Head(s) = s[1]
    BY <1>1, <1>2
  <1>4. s[1] \in Tasks /\ sortIndex[s[1]] = usCursor /\ OnList(s[1])
    BY <1>2, <1>3 DEF OnList, Contains
  <1>5. TotalAt(s, rollNum, s[1]) = rollNum[s[1]]
    <2>1. PlaceOf(s, s[1]) = 1
      BY <1>1, <1>3, PlaceIs
    <2>2. Total(s, rollNum, 1) = Total(s, rollNum, 1 - 1) + rollNum[s[1]]
      BY <1>2, <1>3
    <2>3. rollNum[s[1]] \in Int
      BY <1>1, <1>4
    <2>4. Total(s, rollNum, 1) = rollNum[s[1]]
      BY <1>2, <2>2, <2>3
    <2> QED BY <2>1, <2>4 DEF TotalAt
  <1> QED BY <1>1, <1>2, <1>3, <1>4, <1>5

(***************************************************************************)
(* The scan takes off tasks that are due, and nothing changes for others.  *)
(***************************************************************************)
LEMMA ScanExpireKeeps ==
    ASSUME SortInv, ScanExpire
    PROVE  /\ SortInv'
           /\ \E t \in Tasks : /\ TicksLeft(t) = 0 /\ TicksLeft(t)' = -1
                               /\ \A u \in Tasks : u # t => TicksLeft(u)' = TicksLeft(u)
  <1> DEFINE s == sortLink[usCursor]
             r == Tail(s)
  <1>0. PICK t \in Tasks : t = s[1]
    <2>1. scanning
      BY DEF ScanExpire
    <2> QED BY <2>1, ScanHead
  <1>1. /\ scanning /\ rollNum[Head(s)] = 0
        /\ sortLink' = [sortLink EXCEPT ![usCursor] = r]
        /\ scanning' = (r # <<>>)
        /\ usCursor' = usCursor /\ sortIndex' = sortIndex /\ rollNum' = rollNum
    BY DEF ScanExpire
  <1>2. TypeOK /\ SlotsOK
    BY DEF SortInv
  <1>3. /\ usCursor \in Slots /\ s \in Seq(Tasks) /\ s # <<>> /\ 1 \in 1 .. Len(s) /\ NoRepeat(s)
        /\ Head(s) = t /\ t \in Tasks /\ sortIndex[t] = usCursor /\ OnList(t)
        /\ TotalAt(s, rollNum, t) = rollNum[t]
        /\ rollNum \in [Tasks -> Nat] /\ rollNum \in [Tasks -> Int]
        /\ \A i \in 1 .. Len(s) : s[i] \in Tasks /\ sortIndex[s[i]] = usCursor
    BY <1>0, <1>1, ScanHead
  <1> HIDE DEF s
  <1>4. /\ r \in Seq(Tasks) /\ Len(s) \in Nat /\ Len(r) = Len(s) - 1
        /\ \A i \in 1 .. Len(r) : r[i] = s[i + 1]
    BY <1>3
  <1> HIDE DEF r
  <1>5. RemovedAtPlace(s, rollNum, r, rollNum, 1)
    <2>1. ASSUME NEW i \in 1 .. Len(s)
          PROVE  rollNum[s[i]] = IF i = 1 + 1 THEN rollNum[s[i]] + rollNum[s[1]] ELSE rollNum[s[i]]
      <3>1. rollNum[s[1]] = 0 /\ rollNum[s[i]] \in Int
        BY <1>0, <1>1, <1>3
      <3> QED BY <3>1
    <2>2. ASSUME NEW i \in 1 .. Len(r) PROVE r[i] = IF i < 1 THEN s[i] ELSE s[i + 1]
      BY <1>4
    <2> QED BY <1>4, <2>1, <2>2 DEF RemovedAtPlace
  <1>6. /\ NoRepeat(r)
        /\ \A y : Contains(r, y) <=> Contains(s, y) /\ y # t
        /\ \A y : Contains(r, y) => TotalAt(r, rollNum, y) = TotalAt(s, rollNum, y)
    <2>1. /\ NoRepeat(r)
          /\ \A y : Contains(r, y) <=> Contains(s, y) /\ y # s[1]
          /\ \A y : Contains(r, y) => TotalAt(r, rollNum, y) = TotalAt(s, rollNum, y)
      <3>1. /\ s \in Seq(Tasks) /\ NoRepeat(s) /\ rollNum \in [Tasks -> Int] /\ r \in Seq(Tasks)
            /\ 1 \in 1 .. Len(s)
        BY <1>3, <1>4
      <3>2. Removal(Tasks, s, rollNum, r, rollNum, 1)
        BY <1>5, <3>1 DEF Removal
      <3>3. RemovalKept(s, rollNum, r, rollNum, 1)
        BY <3>2, RemoveKeeps
      <3> QED BY <3>3 DEF RemovalKept
    <2> QED BY <1>0, <2>1
  <1>7. sortLink' \in [Slots -> Seq(Tasks)] /\ sortLink'[usCursor] = r
        /\ \A y \in Slots : y # usCursor => sortLink'[y] = sortLink[y]
    BY <1>1, <1>2, <1>3, <1>4 DEF TypeOK
  <1>8. SortInv'
    <2>1. TypeOK'
      BY <1>1, <1>2, <1>7 DEF TypeOK
    <2>2. ASSUME NEW y \in Slots PROVE NoRepeat(sortLink'[y])
      BY <1>2, <1>6, <1>7 DEF SlotsOK
    <2>3. ASSUME NEW y \in Slots, NEW u, Contains(sortLink'[y], u)
          PROVE  u \in Tasks /\ sortIndex'[u] = y
      BY <1>1, <1>2, <1>6, <1>7, <2>3 DEF SlotsOK, s
    <2>4. scanning' => sortLink'[usCursor'] # <<>>
      BY <1>1, <1>7
    <2> QED BY <2>1, <2>2, <2>3, <2>4 DEF SortInv, SlotsOK
  <1>9. TicksLeft(t) = 0
    <2>1. (sortIndex[t] - usCursor) % N = 0
      BY <1>3, ListedTicks
    <2>2. TicksLeft(t) = ((sortIndex[t] - usCursor) % N) + N * TotalAt(sortLink[sortIndex[t]], rollNum, t)
      BY <1>1, <1>3, ListedTicks
    <2>3. TotalAt(sortLink[sortIndex[t]], rollNum, t) = 0
      BY <1>1, <1>3 DEF s
    <2> QED BY <2>1, <2>2, <2>3, SomeLength
  <1>10. TicksLeft(t)' = -1
    <2>1. ~Contains(sortLink'[sortIndex'[t]], t)
      BY <1>1, <1>3, <1>6, <1>7
    <2> QED BY <2>1, TicksLeftIs DEF Ticks
  <1>11. ASSUME NEW u \in Tasks, u # t PROVE TicksLeft(u)' = TicksLeft(u)
    <2>1. CASE ~OnList(u)
      <3>1. ~Contains(sortLink'[sortIndex'[u]], u)
        <4>1. sortIndex[u] \in Slots /\ sortIndex'[u] = sortIndex[u]
          BY <1>1, <1>2 DEF TypeOK
        <4> QED BY <1>6, <1>7, <2>1, <4>1 DEF OnList, s
      <3> QED BY <2>1, <3>1, TicksLeftIs DEF Ticks, OnList
    <2>2. CASE OnList(u) /\ sortIndex[u] = usCursor
      <3>1. Contains(s, u) /\ Contains(r, u)
        BY <1>6, <1>11, <2>2 DEF OnList, s
      <3>2. r # <<>>
        BY <1>4, <3>1, EmptyLinksNone DEF Contains
      <3>3. TotalAt(r, rollNum, u) = TotalAt(s, rollNum, u)
        BY <1>6, <3>1
      <3>4. /\ scanning /\ scanning' /\ sortIndex'[u] = usCursor /\ usCursor' = usCursor
            /\ sortLink'[usCursor] = r /\ rollNum' = rollNum
        BY <1>1, <1>7, <2>2, <3>2
      <3>5. TicksLeft(u)' = ((usCursor - usCursor) % N) + N * TotalAt(r, rollNum, u)
        BY <3>1, <3>4, TicksLeftIs DEF Ticks
      <3>6. TicksLeft(u) = ((usCursor - usCursor) % N) + N * TotalAt(s, rollNum, u)
        BY <2>2, <3>1, <3>4, TicksLeftIs DEF Ticks, s
      <3> QED BY <3>3, <3>5, <3>6
    <2>3. CASE OnList(u) /\ sortIndex[u] # usCursor
      <3>1. sortIndex[u] \in Slots /\ sortLink'[sortIndex[u]] = sortLink[sortIndex[u]]
        BY <1>2, <1>7, <2>3 DEF TypeOK
      <3>2. (sortIndex[u] - usCursor) % N # 0
        BY <2>3, ListedTicks
      <3> QED BY <1>1, <2>3, <3>1, <3>2, TicksLeftIs DEF Ticks, OnList
    <2> QED BY <2>1, <2>2, <2>3
  <1> QED BY <1>8, <1>9, <1>10, <1>11

(***************************************************************************)
(* The end of the scan: the slot pays for the turn, and is a full turn away*)
(* from now on.                                                            *)
(***************************************************************************)
LEMMA ScanStopKeeps ==
    ASSUME SortInv, ScanStop
    PROVE  SortInv' /\ \A t \in Tasks : TicksLeft(t)' = TicksLeft(t)
  <1> DEFINE s == sortLink[usCursor]
  <1>1. /\ scanning /\ rollNum[Head(s)] > 0
        /\ rollNum' = [rollNum EXCEPT ![Head(s)] = @ - 1]
        /\ scanning' = FALSE
        /\ usCursor' = usCursor /\ sortIndex' = sortIndex /\ sortLink' = sortLink
    BY DEF ScanStop
  <1>2. TypeOK /\ SlotsOK
    BY DEF SortInv
  <1>3. /\ usCursor \in Slots /\ s \in Seq(Tasks) /\ s # <<>> /\ 1 \in 1 .. Len(s) /\ NoRepeat(s)
        /\ Head(s) = s[1] /\ s[1] \in Tasks
        /\ rollNum \in [Tasks -> Nat] /\ rollNum \in [Tasks -> Int]
        /\ \A i \in 1 .. Len(s) : s[i] \in Tasks /\ sortIndex[s[i]] = usCursor
    BY <1>1, ScanHead
  <1> HIDE DEF s
  <1>4. rollNum' \in [Tasks -> Nat]
    <2>1. rollNum[s[1]] \in Nat /\ rollNum[s[1]] - 1 \in Nat
      BY <1>1, <1>3
    <2> QED BY <1>1, <1>3, <2>1
  <1>5. SortInv'
    BY <1>1, <1>2, <1>4 DEF SortInv, TypeOK, SlotsOK
  <1>6. ASSUME NEW i \in 1 .. Len(s) PROVE Total(s, rollNum', i) = Total(s, rollNum, i) - 1
    <2>1. HeadPays(s, rollNum, rollNum', 1)
      <3>1. ASSUME NEW j \in 1 .. Len(s)
            PROVE  rollNum'[s[j]] = IF j = 1 THEN rollNum[s[j]] - 1 ELSE rollNum[s[j]]
        <4>1. s[j] \in Tasks /\ (s[j] = s[1] <=> j = 1)
          BY <1>3 DEF NoRepeat
        <4> QED BY <1>1, <1>3, <4>1
      <3> QED BY <3>1 DEF HeadPays
    <2> QED BY <1>3, <2>1, HeadTotals
  <1>7. ASSUME NEW u \in Tasks PROVE TicksLeft(u)' = TicksLeft(u)
    <2>1. CASE ~OnList(u)
      BY <1>1, <2>1, TicksLeftIs DEF Ticks, OnList
    <2>2. CASE OnList(u) /\ sortIndex[u] = usCursor
      <3> DEFINE m == TotalAt(s, rollNum, u)
      <3>1. m \in Nat /\ TicksLeft(u) = ((usCursor - usCursor) % N) + N * m /\ (usCursor - usCursor) % N = 0
        BY <1>1, <2>2, ListedTicks DEF s
      <3>2. TotalAt(s, rollNum', u) = m - 1
        <4>1. PlaceOf(s, u) \in 1 .. Len(s)
          BY <2>2, HasPlace DEF OnList, s
        <4> QED BY <1>6, <4>1 DEF TotalAt
      <3>3. TicksLeft(u)' = N * (TotalAt(s, rollNum', u) + 1)
        BY <1>1, <2>2, <3>1, TicksLeftIs DEF Ticks, OnList, s
      <3> HIDE DEF m
      <3>4. TicksLeft(u)' = N * m
        <4>1. TotalAt(s, rollNum', u) + 1 = m
          BY <3>1, <3>2
        <4> QED BY <3>3, <4>1
      <3> QED BY <3>1, <3>4, SomeLength
    <2>3. CASE OnList(u) /\ sortIndex[u] # usCursor
      <3>1. (sortIndex[u] - usCursor) % N # 0
        BY <2>3, ListedTicks
      <3>2. \A v \in Tasks : OnList(v) /\ sortIndex[v] # usCursor => rollNum'[v] = rollNum[v]
        BY <1>1, <1>3
      <3> DEFINE w == rollNum'
                 l == sortLink
      <3>3. /\ \A v \in Tasks : OnList(v) /\ sortIndex[v] # usCursor => w[v] = rollNum[v]
            /\ \A y \in Slots : y # usCursor => l[y] = sortLink[y]
        BY <3>2
      <3> HIDE DEF w, l
      <3>4. /\ l[sortIndex[u]] = sortLink[sortIndex[u]]
            /\ OnList(u) => TotalAt(l[sortIndex[u]], w, u) = TotalAt(sortLink[sortIndex[u]], rollNum, u)
        BY <1>3, <2>3, <3>3, OtherSlots, SMTT(60)
      <3> QED BY <1>1, <2>3, <3>1, <3>4, TicksLeftIs DEF Ticks, OnList, w, l
    <2> QED BY <2>1, <2>2, <2>3
  <1> QED BY <1>5, <1>7

(***************************************************************************)
(* The invariant of the timer wheel, and what it is there for.             *)
(***************************************************************************)
LEMMA SortStart == Init => SortInv
  <1> SUFFICES ASSUME Init PROVE SortInv
    OBVIOUS
  <1>1. 0 \in Slots
    BY SomeLength, SlotsAre
  <1>2. TypeOK
    BY <1>1 DEF Init, TypeOK
  <1>3. SlotsOK
    BY <1>1 DEF Init, SlotsOK, NoRepeat, Contains
  <1> QED BY <1>2, <1>3 DEF SortInv

(***************************************************************************)
(* A step of the wheel is a step of TaskTimers, or changes no ticks left.  *)
(***************************************************************************)
LEMMA SortStep ==
    ASSUME SortInv, [Next]_vars
    PROVE  SortInv' /\ [Exact!TimersNext]_([t \in Tasks |-> TicksLeft(t)])
  <1> DEFINE T == [t \in Tasks |-> TicksLeft(t)]
  <1>1. ASSUME NEW t \in Tasks, NEW n \in Delays, ~scanning, ~OnList(t), osTaskAdd2TimerList(t, n)
        PROVE  SortInv' /\ Exact!TimersNext
    <2>1. /\ SortInv' /\ TicksLeft(t) = -1 /\ TicksLeft(t)' = n
          /\ \A u \in Tasks : u # t => TicksLeft(u)' = TicksLeft(u)
      BY <1>1, AddKeeps
    <2>2. T' = [T EXCEPT ![t] = n] /\ T[t] = -1
      BY <2>1
    <2>3. Exact!Start(t, n)
      BY <2>2 DEF Exact!Start, Exact!Armed, Exact!Arm, Exact!Off
    <2> QED BY <2>1, <2>3 DEF Exact!TimersNext
  <1>2. ASSUME NEW t \in Tasks, ~scanning, OnList(t), osTimerListDelete(t)
        PROVE  SortInv' /\ Exact!TimersNext
    <2>1. /\ SortInv' /\ TicksLeft(t) # -1 /\ TicksLeft(t)' = -1
          /\ \A u \in Tasks : u # t => TicksLeft(u)' = TicksLeft(u)
      BY <1>2, DeleteKeeps
    <2>2. T' = [T EXCEPT ![t] = -1] /\ T[t] # -1
      BY <2>1
    <2>3. Exact!Cancel(t)
      BY <2>2 DEF Exact!Cancel, Exact!Armed, Exact!Disarm, Exact!Off
    <2> QED BY <2>1, <2>3 DEF Exact!TimersNext
  <1>3. ASSUME ScanStart PROVE SortInv' /\ Exact!TimersNext
    <2>1. /\ SortInv'
          /\ \A t \in Tasks : /\ TicksLeft(t) # 0
                              /\ TicksLeft(t)' = IF TicksLeft(t) = -1 THEN -1 ELSE TicksLeft(t) - 1
      BY <1>3, ScanStartKeeps
    <2>2. /\ \A t \in Tasks : T[t] # 0
          /\ T' = [t \in Tasks |-> IF T[t] = -1 THEN -1 ELSE T[t] - 1]
      BY <2>1
    <2>3. Exact!Advance
      BY <2>2 DEF Exact!Advance, Exact!NoneDue, Exact!Due, Exact!Elapse, Exact!Off
    <2> QED BY <2>1, <2>3 DEF Exact!TimersNext
  <1>4. ASSUME ScanExpire PROVE SortInv' /\ Exact!TimersNext
    <2>0. SortInv'
      BY <1>4, ScanExpireKeeps
    <2>1. PICK t \in Tasks : /\ TicksLeft(t) = 0 /\ TicksLeft(t)' = -1
                             /\ \A u \in Tasks : u # t => TicksLeft(u)' = TicksLeft(u)
      BY <1>4, ScanExpireKeeps
    <2>2. T' = [T EXCEPT ![t] = -1] /\ T[t] = 0
      BY <2>1
    <2>3. Exact!Expire(t)
      BY <2>2 DEF Exact!Expire, Exact!Due, Exact!Disarm, Exact!Off
    <2> QED BY <2>0, <2>3 DEF Exact!TimersNext
  <1>5. ASSUME ScanStop PROVE SortInv' /\ T' = T
    BY <1>5, ScanStopKeeps
  <1>6. ASSUME UNCHANGED vars PROVE SortInv' /\ T' = T
    <2>1. /\ sortLink' = sortLink /\ usCursor' = usCursor /\ sortIndex' = sortIndex
          /\ rollNum' = rollNum /\ scanning' = scanning
      BY <1>6 DEF vars
    <2>2. SortInv'
      BY <2>1 DEF SortInv, TypeOK, SlotsOK
    <2>3. \A t \in Tasks : TicksLeft(t)' = TicksLeft(t)
      BY <2>1, TicksLeftIs
    <2> QED BY <2>2, <2>3
  <1> HIDE DEF T
  <1>7. SortInv' /\ [Exact!TimersNext]_T
    BY <1>1, <1>2, <1>3, <1>4, <1>5, <1>6 DEF Next
  <1> QED BY <1>7 DEF T

LEMMA SortInvariant == Spec => []SortInv
  <1>1. SortInv /\ [Next]_vars => SortInv'
    BY SortStep
  <1> QED BY <1>1, SortStart, PTL DEF Spec

(***************************************************************************)
(* The types of the wheel: no roll number is ever taken below zero, where  *)
(* the code's unsigned one would wrap around (UWROLLNUMSUB in              *)
(* osTaskAdd2TimerList, UWROLLNUMDEC in osTaskScan).                       *)
(***************************************************************************)
THEOREM WheelTypes == Spec => []TypeOK
  <1>1. SortInv => TypeOK
    BY DEF SortInv
  <1> QED BY <1>1, SortInvariant, PTL

(***************************************************************************)
(* The wheel implements exact timeouts: a task put on it for n ticks comes *)
(* off at the n-th tick after that, whatever is put on and taken off in    *)
(* between; for a wheel of any length (osTaskAdd2TimerList,                *)
(* osTimerListDelete, osTaskScan).                                         *)
(***************************************************************************)
THEOREM WheelIsExact == Spec => ImplementsTaskTimers
  <1> DEFINE T == [t \in Tasks |-> TicksLeft(t)]
  <1>1. Init => Exact!TimersInit
    <2> SUFFICES ASSUME Init PROVE T = [t \in Tasks |-> -1]
      BY DEF Exact!TimersInit, Exact!Off
    <2>1. \A t \in Tasks : ~Contains(sortLink[sortIndex[t]], t)
      BY SomeLength, SlotsAre DEF Init, Contains
    <2>2. \A t \in Tasks : TicksLeft(t) = -1
      BY <2>1, TicksLeftIs DEF Ticks
    <2> QED BY <2>2
  <1>2. SortInv /\ [Next]_vars => [Exact!TimersNext]_T
    BY SortStep
  <1> QED BY <1>1, <1>2, SortInvariant, PTL DEF Spec, ImplementsTaskTimers, Exact!TimersSpec

-----------------------------------------------------------------------------
(***************************************************************************)
(* The list of running software timers, as a value.                        *)
(***************************************************************************)
GoodList(l) ==
    /\ l.list \in Seq(Timers) /\ NoRepeat(l.list)
    /\ l.count \in [Timers -> Nat]

(***************************************************************************)
(* Ticks to the expiry of a timer, as SoftTimers has them.                 *)
(***************************************************************************)
LeftIn(l, i) == IF Contains(l.list, i) THEN TotalAt(l.list, l.count, i) ELSE -1

LEMMA ListTotals ==
    ASSUME NEW l, GoodList(l)
    PROVE  /\ l.list \in Seq(Timers) /\ Len(l.list) \in Nat /\ l.count \in [Timers -> Int]
           /\ \A k \in 1 .. Len(l.list) :
                  l.list[k] \in Timers /\ Contains(l.list, l.list[k]) /\ l.count[l.list[k]] \in Nat
           /\ Total(l.list, l.count, 0) = 0
           /\ \A k \in 0 .. Len(l.list) : Total(l.list, l.count, k) \in Nat
           /\ \A k \in 1 .. Len(l.list) :
                  /\ Total(l.list, l.count, k) = Total(l.list, l.count, k - 1) + l.count[l.list[k]]
                  /\ LeftIn(l, l.list[k]) = Total(l.list, l.count, k)
           /\ \A i : Contains(l.list, i) =>
                  /\ i \in Timers /\ LeftIn(l, i) \in Nat
                  /\ PlaceOf(l.list, i) \in 1 .. Len(l.list)
                  /\ l.list[PlaceOf(l.list, i)] = i
                  /\ LeftIn(l, i) = Total(l.list, l.count, PlaceOf(l.list, i))
  <1> DEFINE s == l.list
             w == l.count
  <1>1. s \in Seq(Timers) /\ NoRepeat(s) /\ w \in [Timers -> Nat] /\ w \in [Timers -> Int]
    BY DEF GoodList
  <1>2. LeftIn(l, 0) = LeftIn(l, 0) /\ \A i : LeftIn(l, i) = IF Contains(s, i) THEN TotalAt(s, w, i) ELSE -1
    BY DEF LeftIn
  <1> HIDE DEF s, w
  <1>3. Len(s) \in Nat /\ \A k \in 1 .. Len(s) : s[k] \in Timers /\ Contains(s, s[k])
    BY <1>1 DEF Contains
  <1>4. \A k \in 1 .. Len(s) : w[s[k]] >= 0 /\ w[s[k]] \in Nat
    BY <1>1, <1>3
  <1>5. /\ Total(s, w, 0) = 0
        /\ \A k \in 1 .. Len(s) : Total(s, w, k) = Total(s, w, k - 1) + w[s[k]]
        /\ \A k \in 0 .. Len(s) : Total(s, w, k) \in Int
    BY <1>1, TotalSteps
  <1>6. \A k \in 0 .. Len(s) : Total(s, w, 0) <= Total(s, w, k)
    <2>1. 0 \in 0 .. Len(s)
      BY <1>3
    <2> QED BY <1>1, <1>4, <2>1, TotalGrows
  <1>7. \A k \in 0 .. Len(s) : Total(s, w, k) \in Nat
    BY <1>5, <1>6
  <1>8. ASSUME NEW i, Contains(s, i)
        PROVE  /\ PlaceOf(s, i) \in 1 .. Len(s) /\ s[PlaceOf(s, i)] = i
               /\ LeftIn(l, i) = Total(s, w, PlaceOf(s, i))
               /\ LeftIn(l, i) \in Nat /\ i \in Timers
    <2>1. PlaceOf(s, i) \in 1 .. Len(s) /\ s[PlaceOf(s, i)] = i
      BY <1>8, HasPlace
    <2>2. PlaceOf(s, i) \in 0 .. Len(s)
      BY <1>3, <2>1
    <2>3. LeftIn(l, i) = Total(s, w, PlaceOf(s, i))
      BY <1>2, <1>8 DEF TotalAt
    <2> QED BY <1>3, <1>7, <2>1, <2>2, <2>3
  <1>9. ASSUME NEW k \in 1 .. Len(s) PROVE LeftIn(l, s[k]) = Total(s, w, k)
    <2>1. PlaceOf(s, s[k]) = k
      BY <1>1, PlaceIs
    <2> QED BY <1>2, <1>3, <2>1 DEF TotalAt
  <1> QED BY <1>1, <1>3, <1>4, <1>5, <1>7, <1>8, <1>9 DEF s, w

(***************************************************************************)
(* The head expires first.                                                 *)
(***************************************************************************)
LEMMA HeadIsFirst ==
    ASSUME NEW l, GoodList(l), l.list # <<>>
    PROVE  /\ Head(l.list) \in Timers /\ Contains(l.list, Head(l.list))
           /\ LeftIn(l, Head(l.list)) = l.count[Head(l.list)]
           /\ \A i : Contains(l.list, i) => l.count[Head(l.list)] <= LeftIn(l, i)
  <1> DEFINE s == l.list
             w == l.count
  <1>1. /\ s \in Seq(Timers) /\ Len(s) \in Nat /\ w \in [Timers -> Int]
        /\ \A k \in 1 .. Len(s) : s[k] \in Timers /\ Contains(s, s[k]) /\ w[s[k]] \in Nat
        /\ Total(s, w, 0) = 0
        /\ \A k \in 1 .. Len(s) : /\ Total(s, w, k) = Total(s, w, k - 1) + w[s[k]]
                                  /\ LeftIn(l, s[k]) = Total(s, w, k)
        /\ \A i : Contains(s, i) => /\ PlaceOf(s, i) \in 1 .. Len(s)
                                    /\ LeftIn(l, i) = Total(s, w, PlaceOf(s, i))
        /\ s # <<>>
    BY ListTotals
  <1> HIDE DEF s, w
  <1>2. 1 \in 1 .. Len(s) /\ 1 \in 0 .. Len(s) /\ Head(s) = s[1]
    BY <1>1
  <1>3. Total(s, w, 1) = w[s[1]]
    BY <1>1, <1>2
  <1>4. \A k \in 1 .. Len(s) : Total(s, w, 1) <= Total(s, w, k)
    <2>1. \A k \in 1 .. Len(s) : w[s[k]] >= 0
      BY <1>1
    <2> QED BY <1>1, <1>2, <2>1, TotalGrows
  <1> QED BY <1>1, <1>2, <1>3, <1>4 DEF s, w

(***************************************************************************)
(* Who is due now is told by the head alone.                               *)
(***************************************************************************)
LEMMA HeadTellsDue ==
    ASSUME NEW l, GoodList(l)
    PROVE  (l.list # <<>> /\ l.count[Head(l.list)] = 0) <=> \E i \in Timers : LeftIn(l, i) = 0
  <1>1. ASSUME l.list # <<>>, l.count[Head(l.list)] = 0 PROVE \E i \in Timers : LeftIn(l, i) = 0
    BY <1>1, HeadIsFirst
  <1>2. ASSUME NEW i \in Timers, LeftIn(l, i) = 0
        PROVE  l.list # <<>> /\ l.count[Head(l.list)] = 0
    <2>1. Contains(l.list, i)
      BY <1>2 DEF LeftIn
    <2>2. l.list # <<>>
      BY <2>1 DEF Contains
    <2>3. /\ Head(l.list) \in Timers
          /\ l.count[Head(l.list)] <= 0
      BY <1>2, <2>1, <2>2, HeadIsFirst
    <2>4. l.count[Head(l.list)] \in Nat
      BY <2>3 DEF GoodList
    <2> QED BY <2>2, <2>3, <2>4
  <1> QED BY <1>1, <1>2

(***************************************************************************)
(* osSwtmrStop takes one timer out and leaves the others their time.       *)
(***************************************************************************)
LEMMA RemovedFacts ==
    ASSUME NEW l, GoodList(l), NEW i, Contains(l.list, i)
    PROVE  /\ GoodList(Removed(l, i))
           /\ \A y : Contains(Removed(l, i).list, y) <=> Contains(l.list, y) /\ y # i
           /\ \A y : LeftIn(Removed(l, i), y) = IF y = i THEN -1 ELSE LeftIn(l, y)
  <1> DEFINE s == l.list
             w == l.count
             k == PlaceOf(s, i)
             r == RemoveAt(s, k)
             n == [w EXCEPT ![i] = 0]
             v == IF k = Len(s) THEN n ELSE [n EXCEPT ![s[k + 1]] = @ + w[i]]
  <1>1. Removed(l, i).list = r /\ Removed(l, i).count = v
    BY DEF Removed, PlaceIn
  <1>2. /\ s \in Seq(Timers) /\ Len(s) \in Nat /\ w \in [Timers -> Int] /\ w \in [Timers -> Nat]
        /\ \A j \in 1 .. Len(s) : s[j] \in Timers
        /\ NoRepeat(s) /\ i \in Timers /\ k \in 1 .. Len(s) /\ s[k] = i
    BY ListTotals DEF GoodList
  <1>3. \A y : LeftIn(l, y) = IF Contains(s, y) THEN TotalAt(s, w, y) ELSE -1
    BY DEF LeftIn
  <1> HIDE DEF s, w, k
  <1>4. /\ r \in Seq(Timers) /\ Len(r) = Len(s) - 1
        /\ \A j \in 1 .. (Len(s) - 1) : r[j] = IF j < k THEN s[j] ELSE s[j + 1]
    BY <1>2, RemoveAtFacts
  <1> HIDE DEF r
  <1>5. n \in [Timers -> Nat] /\ \A y \in Timers : y # i => n[y] = w[y]
    BY <1>2
  <1> HIDE DEF n
  <1>6. v \in [Timers -> Nat]
    <2>1. k # Len(s) => s[k + 1] \in Timers
      BY <1>2
    <2>2. w[i] \in Nat
      BY <1>2
    <2> QED BY <1>5, <2>1, <2>2
  <1>7. RemovedAtPlace(s, w, r, v, k)
    <2>1. ASSUME NEW j \in 1 .. Len(s), j # k
          PROVE  v[s[j]] = IF j = k + 1 THEN w[s[j]] + w[s[k]] ELSE w[s[j]]
      <3>1. s[j] \in Timers /\ s[j] # i
        BY <1>2, <2>1 DEF NoRepeat
      <3>2. n[s[j]] = w[s[j]]
        BY <1>5, <3>1
      <3>3. CASE j = k + 1
        <4>1. k # Len(s) /\ s[j] = s[k + 1]
          BY <1>2, <3>3
        <4> QED BY <1>2, <1>5, <3>1, <3>2, <3>3, <4>1
      <3>4. CASE j # k + 1
        <4>1. k # Len(s) => s[j] # s[k + 1]
          <5>1. k # Len(s) => k + 1 \in 1 .. Len(s)
            BY <1>2
          <5> QED BY <1>2, <3>4, <5>1 DEF NoRepeat
        <4>2. v[s[j]] = n[s[j]]
          BY <1>5, <3>1, <4>1
        <4> QED BY <3>2, <3>4, <4>2
      <3> QED BY <3>3, <3>4
    <2> HIDE DEF v
    <2> QED BY <1>2, <1>4, <2>1 DEF RemovedAtPlace
  <1> HIDE DEF v
  <1>8. /\ NoRepeat(r)
        /\ \A y : Contains(r, y) <=> Contains(s, y) /\ y # s[k]
        /\ \A y : Contains(r, y) => TotalAt(r, v, y) = TotalAt(s, w, y)
    <2>1. s \in Seq(Timers) /\ NoRepeat(s) /\ w \in [Timers -> Int] /\ r \in Seq(Timers) /\ k \in 1 .. Len(s)
      BY <1>2, <1>4
    <2>2. Removal(Timers, s, w, r, v, k)
      BY <1>7, <2>1 DEF Removal
    <2>3. RemovalKept(s, w, r, v, k)
      BY <2>2, RemoveKeeps
    <2> QED BY <2>3 DEF RemovalKept
  <1>9. GoodList(Removed(l, i))
    BY <1>1, <1>4, <1>6, <1>8 DEF GoodList
  <1>10. \A y : LeftIn(Removed(l, i), y) = IF Contains(r, y) THEN TotalAt(r, v, y) ELSE -1
    BY <1>1 DEF LeftIn
  <1> QED BY <1>1, <1>2, <1>3, <1>8, <1>9, <1>10 DEF s

(***************************************************************************)
(* m is l with the timer i, which expires n ticks from now.                *)
(***************************************************************************)
GainsTimer(l, m, i, n) ==
    /\ GoodList(m)
    /\ \A y : Contains(m.list, y) <=> Contains(l.list, y) \/ y = i
    /\ LeftIn(m, i) = n
    /\ \A y : y # i => LeftIn(m, y) = LeftIn(l, y)

(***************************************************************************)
(* The timer after the k-th comes n ticks later at least.                  *)
(***************************************************************************)
Fits(l, k, n) == k < Len(l.list) => n <= l.count[l.list[k + 1]]

(***************************************************************************)
(* An insertion n ticks after the k-th timer, before the next one.         *)
(***************************************************************************)
LEMMA InsertedAfterFacts ==
    ASSUME NEW l, GoodList(l), NEW i \in Timers, ~Contains(l.list, i),
           NEW k \in 0 .. Len(l.list), NEW n \in Nat,
           Fits(l, k, n)
    PROVE  GainsTimer(l, InsertedAfter(l, i, k, n), i, Total(l.list, l.count, k) + n)
  <1> DEFINE s == l.list
             w == l.count
             p == k + 1
             r == InsertAt(s, p, i)
             c == [w EXCEPT ![i] = n]
             v == IF k = Len(s) THEN c ELSE [c EXCEPT ![s[p]] = @ - n]
  <1>1. InsertedAfter(l, i, k, n).list = r /\ InsertedAfter(l, i, k, n).count = v
    BY DEF InsertedAfter
  <1>2. /\ s \in Seq(Timers) /\ Len(s) \in Nat /\ w \in [Timers -> Int] /\ w \in [Timers -> Nat]
        /\ \A j \in 1 .. Len(s) : s[j] \in Timers /\ Contains(s, s[j])
        /\ NoRepeat(s) /\ ~Contains(s, i)
    BY ListTotals DEF GoodList
  <1>3. \A y : LeftIn(l, y) = IF Contains(s, y) THEN TotalAt(s, w, y) ELSE -1
    BY DEF LeftIn
  <1>4. k \in 0 .. Len(s) /\ (k < Len(s) => n <= w[s[p]])
    BY DEF Fits
  <1> HIDE DEF s, w
  <1>5. p \in 1 .. Len(s) + 1 /\ p - 1 = k /\ p \in Nat
    BY <1>2, <1>4
  <1>6. \A j \in 1 .. Len(s) : (j = p) => (k # Len(s) /\ s[j] = s[p])
    BY <1>2, <1>4
  <1>7. k # Len(s) => k < Len(s) /\ p \in 1 .. Len(s)
    BY <1>2, <1>4
  <1> HIDE DEF p
  <1>8. /\ r \in Seq(Timers) /\ Len(r) = Len(s) + 1
        /\ \A j \in 1 .. Len(s) + 1 : r[j] = IF j < p THEN s[j] ELSE IF j = p THEN i ELSE s[j - 1]
    <2>1. s \in Seq(Timers) /\ p \in 1 .. Len(s) + 1 /\ i \in Timers
      BY <1>2, <1>5
    <2> HIDE DEF c, v
    <2>2. InsertAt(s, p, i) \in Seq(Timers) /\ Placed(InsertAt(s, p, i), s, p, i)
      BY <2>1, InsertAtFacts
    <2> HIDE DEF r
    <2>3. r = InsertAt(s, p, i)
      BY DEF r
    <2> QED BY <2>2, <2>3 DEF Placed
  <1> HIDE DEF r
  <1>9. c \in [Timers -> Nat] /\ c[i] = n /\ \A y \in Timers : y # i => c[y] = w[y]
    BY <1>2
  <1> HIDE DEF c
  <1>10. v \in [Timers -> Nat] /\ v[i] = n
    <2>1. CASE k = Len(s)
      BY <1>9, <2>1
    <2>2. CASE k # Len(s)
      <3>1. s[p] \in Timers /\ s[p] # i
        BY <1>2, <1>7, <2>2
      <3>2. c[s[p]] - n \in Nat
        BY <1>2, <1>4, <1>7, <1>9, <2>2, <3>1
      <3> QED BY <1>9, <2>2, <3>1, <3>2
    <2> QED BY <2>1, <2>2
  <1>11. InsertedAtPlace(s, w, r, v, p, i, n)
    <2>1. ASSUME NEW j \in 1 .. Len(s)
          PROVE  v[s[j]] = IF j = p THEN w[s[j]] - n ELSE w[s[j]]
      <3>1. s[j] \in Timers /\ s[j] # i /\ c[s[j]] = w[s[j]]
        BY <1>2, <1>9
      <3>2. CASE j = p
        <4>1. k # Len(s) /\ s[j] = s[p]
          BY <1>6, <3>2
        <4> QED BY <1>9, <3>1, <3>2, <4>1
      <3>3. CASE j # p
        <4>1. k # Len(s) => s[j] # s[p]
          BY <1>2, <1>7, <3>3 DEF NoRepeat
        <4>2. v[s[j]] = c[s[j]]
          BY <1>9, <3>1, <4>1
        <4> QED BY <3>1, <3>3, <4>2
      <3> QED BY <3>2, <3>3
    <2> HIDE DEF v
    <2> QED BY <1>8, <1>10, <2>1 DEF InsertedAtPlace
  <1> HIDE DEF v
  <1>12. /\ NoRepeat(r)
         /\ \A y : Contains(r, y) <=> Contains(s, y) \/ y = i
         /\ TotalAt(r, v, i) = Total(s, w, p - 1) + n
         /\ \A y : Contains(s, y) => TotalAt(r, v, y) = TotalAt(s, w, y)
    <2>1. /\ s \in Seq(Timers) /\ NoRepeat(s) /\ w \in [Timers -> Int] /\ r \in Seq(Timers)
          /\ p \in 1 .. Len(s) + 1 /\ ~Contains(s, i) /\ n \in Int
      BY <1>2, <1>5, <1>8
    <2>2. Insertion(Timers, s, w, r, v, p, i, n)
      BY <1>11, <2>1 DEF Insertion
    <2>3. InsertionKept(s, w, r, v, p, i, n)
      BY <2>2, InsertKeeps
    <2> QED BY <2>3 DEF InsertionKept
  <1>13. GoodList(InsertedAfter(l, i, k, n))
    BY <1>1, <1>8, <1>10, <1>12 DEF GoodList
  <1>14. \A y : LeftIn(InsertedAfter(l, i, k, n), y) = IF Contains(r, y) THEN TotalAt(r, v, y) ELSE -1
    BY <1>1 DEF LeftIn
  <1> QED BY <1>1, <1>3, <1>5, <1>12, <1>13, <1>14 DEF s, w, GainsTimer

LEMMA InsertedInFacts ==
    ASSUME NEW l, GoodList(l), NEW i \in Timers, ~Contains(l.list, i), NEW n \in Nat
    PROVE  GainsTimer(l, InsertedIn(l, i, n), i, n)
  <1> DEFINE s == l.list
             w == l.count
             p == PlaceFor(s, w, n)
             k == p - 1
             m == n - Total(s, w, k)
  <1>1. InsertedIn(l, i, n) = InsertedAfter(l, i, k, m)
    BY DEF InsertedIn, TicksIn
  <1>2. /\ s \in Seq(Timers) /\ Len(s) \in Nat /\ w \in [Timers -> Int]
        /\ Total(s, w, 0) = 0
        /\ \A j \in 0 .. Len(s) : Total(s, w, j) \in Nat
        /\ \A j \in 1 .. Len(s) : /\ Total(s, w, j) = Total(s, w, j - 1) + w[s[j]]
                                  /\ w[s[j]] \in Nat
    BY ListTotals
  <1> HIDE DEF s, w
  <1>3. /\ p \in 1 .. Len(s) + 1
        /\ \A j \in 1 .. Len(s) : j < p => Total(s, w, j) <= n
        /\ p <= Len(s) => Total(s, w, p) > n
    <2>1. s \in Seq(Timers) /\ w \in [Timers -> Int] /\ n \in Int
      BY <1>2
    <2> HIDE DEF p
    <2> QED BY <2>1, PlaceForFacts, SMTT(40) DEF p
  <1> HIDE DEF p
  <1>4. k \in 0 .. Len(s) /\ p = k + 1 /\ p \in Int
    BY <1>2, <1>3
  <1>5. Total(s, w, k) \in Nat /\ Total(s, w, k) <= n
    <2>1. CASE k = 0
      BY <1>2, <1>4, <2>1
    <2>2. CASE k # 0
      <3>1. k \in 1 .. Len(s) /\ k < p
        BY <1>2, <1>4, <2>2
      <3> QED BY <1>2, <1>3, <1>4, <3>1
    <2> QED BY <2>1, <2>2
  <1>6. m \in Nat /\ Total(s, w, k) + m = n
    BY <1>5
  <1>7. k < Len(s) => m <= w[s[k + 1]]
    <2> SUFFICES ASSUME k < Len(s) PROVE m <= w[s[p]]
      BY <1>4
    <2>1. p \in 1 .. Len(s) /\ p <= Len(s)
      BY <1>2, <1>3, <1>4
    <2>2. Total(s, w, p) = Total(s, w, p - 1) + w[s[p]] /\ w[s[p]] \in Nat /\ Total(s, w, p) > n
      BY <1>2, <1>3, <2>1
    <2>3. Total(s, w, p - 1) = Total(s, w, k)
      BY <1>4
    <2> QED BY <1>5, <2>2, <2>3
  <1> HIDE DEF k, m
  <1>8. /\ k \in 0 .. Len(l.list) /\ m \in Nat
        /\ Fits(l, k, m)
        /\ Total(l.list, l.count, k) + m = n
    BY <1>4, <1>6, <1>7 DEF s, w, Fits
  <1>9. GainsTimer(l, InsertedAfter(l, i, k, m), i, Total(l.list, l.count, k) + m)
    BY <1>8, InsertedAfterFacts
  <1> QED BY <1>1, <1>8, <1>9

-----------------------------------------------------------------------------
(***************************************************************************)
(* With whom a timer is aligned.                                           *)
(***************************************************************************)
Words == [already : BOOLEAN, can : BOOLEAN, multiple : BOOLEAN, times : Nat]

LEMMA SomeBlocks ==
    /\ LIMIT \in Nat \ {0} /\ DIVISOR \in Nat \ {0}
    /\ Timers \subseteq Nat
    /\ \A k \in Created : k.interval \in Nat \ {0} /\ k.mode \in Modes /\ k.sensitive \in BOOLEAN
  BY SwtmrAssumption DEF Timers

LEMMA LeastMultipleFacts ==
    ASSUME NEW al \in [Timers -> Words], NEW J \in SUBSET Timers, J # {}
    PROVE  /\ LeastMultiple(al, J) \in J
           /\ \A h \in J : al[LeastMultiple(al, J)].times <= al[h].times
  <1> DEFINE times(j) == al[j].times
             values == {times(j) : j \in J}
  <1>1. \A j \in J : j \in Nat /\ times(j) \in Nat
    BY SomeBlocks DEF Words
  <1>2. PICK a \in values : \A b \in values : a <= b
    <2>1. values \in SUBSET Nat /\ values # {}
      BY <1>1
    <2> HIDE DEF values
    <2> QED BY <2>1, NatMinimum
  <1> DEFINE least == {j \in J : times(j) = a}
  <1>3. PICK m \in least : \A j \in least : m <= j
    <2>1. least \in SUBSET Nat /\ least # {}
      BY <1>1, <1>2
    <2> HIDE DEF least
    <2> QED BY <2>1, NatMinimum
  <1>4. m \in J /\ \A h \in J : times(m) < times(h) \/ (times(m) = times(h) /\ m <= h)
    <2> SUFFICES ASSUME NEW h \in J
                 PROVE  times(m) < times(h) \/ (times(m) = times(h) /\ m <= h)
      BY <1>3
    <2>1. times(m) = a /\ a <= times(h) /\ times(h) \in Nat /\ a \in Nat
      BY <1>1, <1>2, <1>3
    <2>2. times(h) = a => m <= h
      BY <1>3
    <2> QED BY <2>1, <2>2
  <1> DEFINE c == LeastMultiple(al, J)
  <1>5. c \in J /\ \A h \in J : times(c) < times(h) \/ (times(c) = times(h) /\ c <= h)
    BY <1>4 DEF LeastMultiple
  <1> HIDE DEF c
  <1>6. \A h \in J : times(c) <= times(h)
    BY <1>1, <1>5
  <1> QED BY <1>5, <1>6 DEF c

LEMMA GreatestFractionFacts ==
    ASSUME NEW al \in [Timers -> Words], NEW J \in SUBSET Timers, J # {}, NEW n \in Nat,
           \A j \in J : al[j].times < n
    PROVE  /\ GreatestFraction(al, J) \in J
           /\ \A h \in J : al[h].times <= al[GreatestFraction(al, J)].times
  <1> DEFINE times(j) == al[j].times
             values == {n - times(j) : j \in J}
  <1>1. \A j \in J : j \in Nat /\ times(j) \in Nat /\ n - times(j) \in Nat
    BY SomeBlocks DEF Words
  <1>2. PICK a \in values : \A b \in values : a <= b
    <2>1. values \in SUBSET Nat /\ values # {}
      BY <1>1
    <2> HIDE DEF values
    <2> QED BY <2>1, NatMinimum
  <1> DEFINE least == {j \in J : n - times(j) = a}
  <1>3. PICK m \in least : \A j \in least : m <= j
    <2>1. least \in SUBSET Nat /\ least # {}
      BY <1>1, <1>2
    <2> HIDE DEF least
    <2> QED BY <2>1, NatMinimum
  <1>4. m \in J /\ \A h \in J : times(m) > times(h) \/ (times(m) = times(h) /\ m <= h)
    <2> SUFFICES ASSUME NEW h \in J
                 PROVE  times(m) > times(h) \/ (times(m) = times(h) /\ m <= h)
      BY <1>3
    <2>1. n - times(m) = a /\ a <= n - times(h) /\ times(h) \in Nat /\ times(m) \in Nat /\ a \in Nat
      BY <1>1, <1>2, <1>3
    <2>2. n - times(h) = a => m <= h
      BY <1>3
    <2> QED BY <2>1, <2>2
  <1> DEFINE c == GreatestFraction(al, J)
  <1>5. c \in J /\ \A h \in J : times(c) > times(h) \/ (times(c) = times(h) /\ c <= h)
    BY <1>4 DEF GreatestFraction
  <1> HIDE DEF c
  <1>6. \A h \in J : times(h) <= times(c)
    BY <1>1, <1>5
  <1> QED BY <1>5, <1>6 DEF c

(***************************************************************************)
(* What a start with the alignment words al relies on: everybody but i that*)
(* is aligned runs, and is due within its interval; the words say what the *)
(* intervals are.                                                          *)
(***************************************************************************)
WordsTell(al) ==
    \A j \in Timers : /\ al[j].multiple => kind[j].interval = al[j].times * DIVISOR
                      /\ al[j].times # 0 => al[j].multiple

AlignsWith(l, al, i) ==
    /\ al \in [Timers -> Words] /\ kind \in [Timers -> Created]
    /\ CanAlign(al, i) =>
           /\ WordsTell(al)
           /\ \A j \in Timers : Contains(l.list, j) => LeftIn(l, j) \in 1 .. kind[j].interval
           /\ \A j \in Timers \ {i} : AlreadyAligned(al, j) => Contains(l.list, j)

(***************************************************************************)
(* When a timer that starts expires first.                                 *)
(***************************************************************************)
InPhaseWith(l, al, i, n) ==
    /\ ~CanAlign(al, i) => n = kind[i].interval
    /\ CanAlign(al, i) /\ al[i].multiple =>
           /\ SlowerThan(al, i) # {} =>
                  LET j == LeastMultiple(al, SlowerThan(al, i))
                  IN  n = kind[i].interval - ((kind[j].interval - LeftIn(l, j)) % kind[i].interval)
           /\ SlowerThan(al, i) = {} /\ FasterThan(al, i) # {} =>
                  n = LeftIn(l, GreatestFraction(al, FasterThan(al, i)))

(***************************************************************************)
(* Behind a timer that runs, with nothing between them.                    *)
(***************************************************************************)
LEMMA BehindFacts ==
    ASSUME NEW l, GoodList(l), NEW i \in Timers, ~Contains(l.list, i),
           NEW k \in 1 .. Len(l.list)
    PROVE  GainsTimer(l, InsertedAfter(l, i, k, 0), i, LeftIn(l, l.list[k]))
  <1>1. /\ Len(l.list) \in Nat
        /\ \A j \in 1 .. Len(l.list) : l.count[l.list[j]] \in Nat
        /\ LeftIn(l, l.list[k]) = Total(l.list, l.count, k)
        /\ \A j \in 0 .. Len(l.list) : Total(l.list, l.count, j) \in Nat
    BY ListTotals
  <1>2. k \in 0 .. Len(l.list) /\ 0 \in Nat /\ (k < Len(l.list) => k + 1 \in 1 .. Len(l.list))
    BY <1>1
  <1>3. Fits(l, k, 0)
    BY <1>1, <1>2 DEF Fits
  <1>4. GainsTimer(l, InsertedAfter(l, i, k, 0), i, Total(l.list, l.count, k) + 0)
    BY <1>2, <1>3, InsertedAfterFacts
  <1>5. Total(l.list, l.count, k) + 0 = LeftIn(l, l.list[k])
    BY <1>1, <1>2
  <1> QED BY <1>4, <1>5

LEMMA StartFacts ==
    ASSUME NEW l, GoodList(l), NEW i \in Timers, ~Contains(l.list, i), NEW al, AlignsWith(l, al, i)
    PROVE  \E n \in 1 .. kind[i].interval :
               GainsTimer(l, osSwTmrStart(l, al, i), i, n) /\ InPhaseWith(l, al, i, n)
  <1> DEFINE d == kind[i].interval
             slower == SlowerThan(al, i)
             faster == FasterThan(al, i)
             same == SameInterval(l, al, i)
             r == osSwTmrStart(l, al, i)
  <1>1. d \in Nat \ {0} /\ d \in 1 .. d /\ al \in [Timers -> Words] /\ \A j \in Timers : kind[j].interval \in Nat \ {0}
    BY SomeBlocks DEF AlignsWith
  <1>2. GainsTimer(l, InsertedIn(l, i, d), i, d)
    <2>1. d \in Nat
      BY <1>1
    <2> HIDE DEF d
    <2> QED BY <2>1, InsertedInFacts
  <1>3. CASE ~CanAlign(al, i)
    <2>1. r = InsertedIn(l, i, d)
      BY <1>3 DEF osSwTmrStart
    <2>2. InPhaseWith(l, al, i, d)
      BY <1>3 DEF InPhaseWith
    <2> QED BY <1>1, <1>2, <2>1, <2>2
  <1>4. CASE CanAlign(al, i) /\ al[i].multiple
    <2>0. /\ WordsTell(al)
          /\ \A j \in Timers : Contains(l.list, j) => LeftIn(l, j) \in 1 .. kind[j].interval
          /\ \A j \in Timers \ {i} : AlreadyAligned(al, j) => Contains(l.list, j)
      BY <1>4 DEF AlignsWith
    <2>1. CASE slower # {}
      <3> DEFINE j == LeastMultiple(al, slower)
                 gone == kind[j].interval - LeftIn(l, j)
                 n == d - (gone % d)
      <3>1. r = InPhase(l, i, j)
        BY <1>4, <2>1 DEF osSwTmrStart
      <3>2. j \in slower
        <4>1. slower \in SUBSET Timers
          BY DEF SlowerThan
        <4> HIDE DEF slower
        <4> QED BY <1>1, <2>1, <4>1, LeastMultipleFacts
      <3>3. j \in Timers /\ j # i /\ Contains(l.list, j)
        BY <2>0, <3>2 DEF SlowerThan
      <3>4. TicksIn(l, PlaceIn(l, j)) = LeftIn(l, j)
        BY <3>3, ListTotals DEF TicksIn, PlaceIn
      <3>5. r = InsertedIn(l, i, n)
        BY <3>1, <3>4 DEF InPhase
      <3>6. LeftIn(l, j) \in 1 .. kind[j].interval /\ kind[j].interval \in Nat
        BY <1>1, <2>0, <3>3
      <3>7. InPhaseWith(l, al, i, n)
        BY <1>4, <2>1 DEF InPhaseWith
      <3> HIDE DEF j, d, r, slower
      <3>8. gone \in Nat
        BY <3>6
      <3> HIDE DEF gone
      <3>9. gone % d \in 0 .. d - 1
        BY <1>1, <3>8
      <3>10. n \in 1 .. d /\ n \in Nat
        BY <1>1, <3>9
      <3> HIDE DEF n
      <3>11. GainsTimer(l, InsertedIn(l, i, n), i, n)
        BY <3>10, InsertedInFacts
      <3> QED BY <3>5, <3>7, <3>10, <3>11 DEF r, d
    <2>2. CASE slower = {} /\ faster # {}
      <3> DEFINE j == GreatestFraction(al, faster)
                 k == PlaceIn(l, j)
      <3>1. r = InsertedAfter(l, i, k, 0)
        BY <1>4, <2>2 DEF osSwTmrStart
      <3>2. j \in faster
        <4>1. faster \in SUBSET Timers /\ \A h \in faster : al[h].times < al[i].times
          BY DEF FasterThan
        <4>2. al[i].times \in Nat
          BY <1>1 DEF Words
        <4> HIDE DEF faster
        <4> QED BY <1>1, <2>2, <4>1, <4>2, GreatestFractionFacts
      <3>3. j \in Timers /\ j # i /\ Contains(l.list, j) /\ al[j].times # 0 /\ al[j].times < al[i].times
        BY <2>0, <3>2 DEF FasterThan
      <3>4. InPhaseWith(l, al, i, LeftIn(l, j))
        BY <1>4, <2>2 DEF InPhaseWith
      <3>5. LeftIn(l, j) \in 1 .. kind[j].interval
        BY <2>0, <3>3
      <3>6. kind[j].interval <= d
        <4>1. /\ kind[j].interval = al[j].times * DIVISOR
              /\ kind[i].interval = al[i].times * DIVISOR
          BY <1>4, <2>0, <3>3 DEF WordsTell
        <4> DEFINE a == al[j].times
                   b == al[i].times
        <4>2. a \in Nat /\ b \in Nat /\ a < b
          BY <1>1, <3>3 DEF Words
        <4> HIDE DEF a, b, j
        <4>3. a * DIVISOR <= b * DIVISOR
          BY <4>2, SomeBlocks
        <4> QED BY <4>1, <4>3 DEF a, b
      <3>7. k \in 1 .. Len(l.list) /\ l.list[k] = j
        BY <3>3, ListTotals DEF PlaceIn
      <3> HIDE DEF j, k, r
      <3>8. GainsTimer(l, InsertedAfter(l, i, k, 0), i, LeftIn(l, l.list[k]))
        BY <3>7, BehindFacts
      <3>9. LeftIn(l, j) \in 1 .. d
        BY <1>1, <3>3, <3>5, <3>6
      <3> QED BY <3>1, <3>4, <3>7, <3>8, <3>9 DEF r
    <2>3. CASE slower = {} /\ faster = {}
      <3>1. r = InsertedIn(l, i, d)
        BY <1>4, <2>3 DEF osSwTmrStart
      <3>2. InPhaseWith(l, al, i, d)
        BY <1>4, <2>3 DEF InPhaseWith
      <3> QED BY <1>1, <1>2, <3>1, <3>2
    <2> QED BY <2>1, <2>2, <2>3
  <1>5. CASE CanAlign(al, i) /\ ~al[i].multiple
    <2>0. \A j \in Timers : Contains(l.list, j) => LeftIn(l, j) \in 1 .. kind[j].interval
      BY <1>5 DEF AlignsWith
    <2>1. \A n : InPhaseWith(l, al, i, n)
      BY <1>5 DEF InPhaseWith
    <2>2. CASE same # {}
      <3> DEFINE k == CHOOSE c \in same : \A h \in same : c <= h
      <3>1. r = InsertedAfter(l, i, k, 0)
        BY <1>5, <2>2 DEF osSwTmrStart
      <3>2. k \in same
        <4>1. same \in SUBSET Nat
          BY ListTotals DEF SameInterval
        <4> HIDE DEF same
        <4>2. \E c \in same : \A h \in same : c <= h
          BY <2>2, <4>1, NatMinimum
        <4> QED BY <4>2
      <3>3. k \in 1 .. Len(l.list) /\ kind[l.list[k]].interval = d
        BY <3>2 DEF SameInterval
      <3> HIDE DEF k, r
      <3>4. l.list[k] \in Timers /\ Contains(l.list, l.list[k])
        BY <3>3, ListTotals
      <3>5. LeftIn(l, l.list[k]) \in 1 .. d
        BY <2>0, <3>3, <3>4
      <3>6. GainsTimer(l, InsertedAfter(l, i, k, 0), i, LeftIn(l, l.list[k]))
        BY <3>3, BehindFacts
      <3> QED BY <2>1, <3>1, <3>5, <3>6 DEF r
    <2>3. CASE same = {}
      <3>1. r = InsertedIn(l, i, d)
        BY <1>5, <2>3 DEF osSwTmrStart
      <3> QED BY <1>1, <1>2, <2>1, <3>1
    <2> QED BY <2>2, <2>3
  <1> QED BY <1>3, <1>4, <1>5

-----------------------------------------------------------------------------
(***************************************************************************)
(* The inductive invariant of the software timers.  ListsOK ties the state *)
(* of a block to the lists it is on.  WordsOK says what an alignment word  *)
(* tells: that a timer marked as aligned runs, and what its interval is.   *)
(* LeftOK bounds the ticks left; only a tick in progress finds a timer due.*)
(* BacklogOK counts the expiries that the tick can still add to the queue. *)
(***************************************************************************)
ListsOK ==
    /\ NoRepeat(sortList) /\ NoRepeat(freeList)
    /\ \A i \in Timers : /\ state[i] = "TICKING" <=> Running(i)
                         /\ state[i] = "UNUSED" <=> Contains(freeList, i)

WordsOK ==
    /\ WordsTell(align)
    /\ \A i \in Timers : /\ state[i] = "UNUSED" => align[i] = NotAligned
                         /\ align[i].already => Running(i) /\ align[i].can
                         /\ align[i].can /\ Running(i) => align[i].already
                         /\ align[i].can => kind[i].mode = "PERIOD" /\ ~kind[i].sensitive

LeftOK ==
    /\ \A i \in Timers : Running(i) => Left(i) <= kind[i].interval
    /\ handling <=> \E i \in Timers : Left(i) = 0

Due == {i \in Timers : Left(i) = 0}

BacklogOK == handling => queued + Cardinality(Due) <= backlog + LIMIT

SwtmrInv == SwtmrTypeOK /\ ListsOK /\ WordsOK /\ LeftOK /\ BacklogOK

(***************************************************************************)
(* Timers that alignment keeps in phase.                                   *)
(***************************************************************************)
Phased(i) == AlreadyAligned(align, i) /\ align[i].multiple

(***************************************************************************)
(* i is in no phase after the step, and the others are as they were.       *)
(***************************************************************************)
OthersStay(i) == \A y \in Timers \ {i} : align'[y] = align[y] /\ kind'[y] = kind[y] /\ Left(y)' = Left(y)

LeavesPhase(i) == ~Phased(i)' /\ OthersStay(i)

ExpiresInPhase(i) ==
    /\ OthersStay(i) /\ kind'[i] = kind[i] /\ Left(i) = 0
    /\ Phased(i)' => Phased(i) /\ Left(i)' = kind[i].interval

-----------------------------------------------------------------------------
LEMMA NowIsGood ==
    ASSUME SwtmrInv
    PROVE  /\ GoodList(Now)
           /\ \A i : /\ Contains(Now.list, i) <=> Running(i)
                     /\ LeftIn(Now, i) = Left(i)
                     /\ Running(i) => i \in Timers /\ Left(i) \in Nat
                     /\ ~Running(i) => Left(i) = -1
  <1>1. Now.list = sortList /\ Now.count = count
    BY DEF Now
  <1>2. GoodList(Now)
    BY <1>1 DEF SwtmrInv, SwtmrTypeOK, ListsOK, GoodList
  <1>3. \A i : Left(i) = IF Contains(Now.list, i) THEN TotalAt(Now.list, Now.count, i) ELSE -1
    BY <1>1 DEF Left, Running, osSwtmrTimeGet, TicksIn, Place, TotalAt
  <1>4. \A i : LeftIn(Now, i) = Left(i)
    BY <1>3 DEF LeftIn
  <1>5. \A i : Contains(Now.list, i) => i \in Timers /\ LeftIn(Now, i) \in Nat
    <2> HIDE DEF Now
    <2> QED BY <1>2, ListTotals
  <1> QED BY <1>1, <1>2, <1>3, <1>4, <1>5 DEF Running

LEMMA ListBecomes ==
    ASSUME NEW l, BecomeList(l)
    PROVE  /\ sortList' = l.list /\ count' = l.count
           /\ \A i : /\ Running(i)' <=> Contains(l.list, i)
                     /\ Left(i)' = LeftIn(l, i)
  <1>1. sortList' = l.list /\ count' = l.count
    BY DEF BecomeList
  <1>2. \A i : Left(i)' = IF Contains(l.list, i) THEN TotalAt(l.list, l.count, i) ELSE -1
    BY <1>1 DEF Left, Running, osSwtmrTimeGet, TicksIn, Place, TotalAt, Now
  <1>3. \A i : Left(i)' = LeftIn(l, i)
    BY <1>2 DEF LeftIn
  <1> QED BY <1>1, <1>3 DEF Running

LEMMA SameList ==
    ASSUME UNCHANGED listVars
    PROVE  \A i : (Running(i)' <=> Running(i)) /\ Left(i)' = Left(i)
  <1>1. sortList' = sortList /\ count' = count
    BY DEF listVars
  <1> QED BY <1>1 DEF Left, Running, osSwtmrTimeGet, TicksIn, Place, Now

(***************************************************************************)
(* m is l without the timer i.                                             *)
(***************************************************************************)
LosesTimer(l, m, i) ==
    /\ GoodList(m)
    /\ \A y : Contains(m.list, y) <=> Contains(l.list, y) /\ y # i
    /\ \A y : LeftIn(m, y) = IF y = i THEN -1 ELSE LeftIn(l, y)

LEMMA StopFacts ==
    ASSUME SwtmrInv, NEW i \in Timers
    PROVE  LosesTimer(Now, IF state[i] = "TICKING" THEN osSwtmrStop(Now, i) ELSE Now, i)
  <1>1. /\ GoodList(Now)
        /\ Contains(Now.list, i) <=> state[i] = "TICKING"
        /\ ~Contains(Now.list, i) => LeftIn(Now, i) = -1
    BY NowIsGood DEF SwtmrInv, ListsOK
  <1>2. CASE state[i] = "TICKING"
    <2>1. Contains(Now.list, i) /\ Now.list # <<>>
      BY <1>1, <1>2 DEF Contains
    <2>2. osSwtmrStop(Now, i) = Removed(Now, i)
      BY <2>1 DEF osSwtmrStop
    <2> HIDE DEF Now
    <2>3. /\ GoodList(Removed(Now, i))
          /\ \A y : Contains(Removed(Now, i).list, y) <=> Contains(Now.list, y) /\ y # i
          /\ \A y : LeftIn(Removed(Now, i), y) = IF y = i THEN -1 ELSE LeftIn(Now, y)
      BY <1>1, <2>1, RemovedFacts
    <2> QED BY <1>2, <2>2, <2>3 DEF LosesTimer
  <1>3. CASE state[i] # "TICKING"
    BY <1>1, <1>3 DEF LosesTimer
  <1> QED BY <1>2, <1>3

LEMMA NextIDNames ==
    ASSUME NEW i \in Timers, NEW id \in 0 .. MAX_TIMERID - 1, id % LIMIT = i
    PROVE  NextID(id) \in 0 .. MAX_TIMERID - 1 /\ NextID(id) % LIMIT = i
  <1>1. LIMIT \in Nat \ {0} /\ MAX_TIMERID \in Nat /\ MAX_TIMERID >= 2 * LIMIT /\ i \in 0 .. LIMIT - 1
    BY SwtmrAssumption DEF Timers
  <1> DEFINE q == id \div LIMIT
  <1>2. q \in Int /\ id = LIMIT * q + i
    BY <1>1, DivisionBy
  <1> HIDE DEF q
  <1>3. CASE id < MAX_TIMERID - LIMIT
    <2>1. NextID(id) = id + LIMIT
      BY <1>3 DEF NextID
    <2>2. id + LIMIT = LIMIT * (q + 1) + i
      BY <1>1, <1>2
    <2>3. (LIMIT * (q + 1) + i) % LIMIT = i
      <3>1. q + 1 \in Int
        BY <1>2
      <3> QED BY <1>1, <3>1, Remainder
    <2>4. id + LIMIT \in 0 .. MAX_TIMERID - 1
      BY <1>1, <1>3
    <2> QED BY <2>1, <2>2, <2>3, <2>4
  <1>4. CASE ~(id < MAX_TIMERID - LIMIT)
    <2>1. NextID(id) = i
      BY <1>4 DEF NextID
    <2>2. (LIMIT * 0 + i) % LIMIT = i
      BY <1>1, Remainder
    <2>3. LIMIT * 0 + i = i /\ i \in 0 .. MAX_TIMERID - 1
      BY <1>1
    <2> QED BY <2>1, <2>2, <2>3
  <1> QED BY <1>3, <1>4

LEMMA DueIsFinite ==
    /\ IsFiniteSet(Timers) /\ Cardinality(Timers) = LIMIT
    /\ IsFiniteSet(Due) /\ Cardinality(Due) \in 0 .. LIMIT
    /\ IsFiniteSet(Due)' /\ Cardinality(Due)' \in 0 .. LIMIT
  <1>1. IsFiniteSet(Timers) /\ Cardinality(Timers) = LIMIT
    <2>1. 0 \in Int /\ LIMIT - 1 \in Int /\ LIMIT \in Nat \ {0}
      BY SomeBlocks
    <2>2. IsFiniteSet(0 .. LIMIT - 1)
          /\ Cardinality(0 .. LIMIT - 1) = IF 0 > LIMIT - 1 THEN 0 ELSE LIMIT - 1 - 0 + 1
      BY <2>1, FS_Interval
    <2> QED BY <2>1, <2>2 DEF Timers
  <1>2. ASSUME NEW D \in SUBSET Timers PROVE IsFiniteSet(D) /\ Cardinality(D) \in 0 .. LIMIT
    <2>1. IsFiniteSet(D) /\ Cardinality(D) <= Cardinality(Timers)
      BY <1>1, FS_Subset
    <2>2. Cardinality(D) \in Nat
      BY <2>1, FS_CardinalityType
    <2> QED BY <1>1, <2>1, <2>2, SomeBlocks
  <1>3. Due \in SUBSET Timers /\ Due' \in SUBSET Timers
    BY DEF Due
  <1> QED BY <1>1, <1>2, <1>3

-----------------------------------------------------------------------------
(***************************************************************************)
(* One lemma per operation: it keeps the invariant, and is the step of     *)
(* SoftTimers that it should be.                                           *)
(***************************************************************************)
LEMMA CreateStep ==
    ASSUME SwtmrInv, NEW k \in Created, LOS_SwtmrCreate(k)
    PROVE  SwtmrInv' /\ \E i \in Timers : Soft!Create(i, k) /\ LeavesPhase(i)
  <1>0. PICK i : i = Head(freeList)
    OBVIOUS
  <1>1. /\ ~handling /\ freeList # <<>>
        /\ kind' = [kind EXCEPT ![i] = k] /\ state' = [state EXCEPT ![i] = "CREATED"]
        /\ freeList' = Tail(freeList)
        /\ timerID' = timerID /\ align' = align /\ queued' = queued
        /\ handling' = handling /\ backlog' = backlog /\ UNCHANGED listVars
    BY <1>0 DEF LOS_SwtmrCreate, tickVars
  <1>2. SwtmrTypeOK /\ ListsOK /\ WordsOK /\ LeftOK /\ BacklogOK
    BY DEF SwtmrInv
  <1>3. sortList' = sortList /\ count' = count
    BY <1>1 DEF listVars
  <1>4. \A y : (Running(y)' <=> Running(y)) /\ Left(y)' = Left(y)
    BY <1>1, SameList
  <1>5. /\ i \in Timers /\ Contains(freeList, i)
        /\ Tail(freeList) \in Seq(Timers) /\ NoRepeat(Tail(freeList))
        /\ \A y : Contains(Tail(freeList), y) <=> Contains(freeList, y) /\ y # i
    <2>1. freeList \in Seq(Timers) /\ NoRepeat(freeList)
      BY <1>2 DEF SwtmrTypeOK, ListsOK
    <2> QED BY <1>0, <1>1, <2>1, PopFacts
  <1>6. state[i] = "UNUSED" /\ ~Running(i) /\ align[i] = NotAligned /\ Left(i) = -1
    <2>1. state[i] = "UNUSED" /\ ~Running(i)
      BY <1>2, <1>5 DEF ListsOK
    <2> QED BY <1>2, <1>5, <2>1 DEF WordsOK, Left
  <1>7. SwtmrTypeOK'
    BY <1>1, <1>2, <1>3, <1>5 DEF SwtmrTypeOK
  <1>8. ListsOK'
    <2>1. \A y \in Timers : state'[y] = IF y = i THEN "CREATED" ELSE state[y]
      BY <1>1, <1>2 DEF SwtmrTypeOK
    <2>2. ASSUME NEW y \in Timers
          PROVE  /\ state'[y] = "TICKING" <=> Running(y)'
                 /\ state'[y] = "UNUSED" <=> Contains(freeList', y)
      BY <1>1, <1>2, <1>4, <1>5, <1>6, <2>1 DEF ListsOK
    <2> QED BY <1>1, <1>2, <1>3, <1>5, <2>2 DEF ListsOK
  <1>9. \A y \in Timers : kind'[y] = IF y = i THEN k ELSE kind[y]
    BY <1>1, <1>2 DEF SwtmrTypeOK
  <1>10. WordsOK'
    <2>1. align[i].multiple = FALSE /\ align[i].times = 0 /\ align[i].can = FALSE /\ align[i].already = FALSE
      BY <1>6 DEF NotAligned
    <2>2. ASSUME NEW y \in Timers
          PROVE  /\ align'[y].multiple => kind'[y].interval = align'[y].times * DIVISOR
                 /\ align'[y].times # 0 => align'[y].multiple
      BY <1>1, <1>2, <1>9, <2>1 DEF WordsOK, WordsTell
    <2>3. ASSUME NEW y \in Timers
          PROVE  /\ state'[y] = "UNUSED" => align'[y] = NotAligned
                 /\ align'[y].already => Running(y)' /\ align'[y].can
                 /\ align'[y].can /\ Running(y)' => align'[y].already
                 /\ align'[y].can => kind'[y].mode = "PERIOD" /\ ~kind'[y].sensitive
      <3>1. state'[y] = "UNUSED" => state[y] = "UNUSED"
        BY <1>1, <1>2 DEF SwtmrTypeOK
      <3> QED BY <1>1, <1>2, <1>4, <1>9, <2>1, <3>1 DEF WordsOK
    <2> QED BY <2>2, <2>3 DEF WordsOK, WordsTell
  <1>11. LeftOK'
    <2>1. \A y \in Timers : Running(y)' => Left(y)' <= kind'[y].interval
      BY <1>2, <1>4, <1>6, <1>9 DEF LeftOK
    <2> QED BY <1>1, <1>2, <1>4, <2>1 DEF LeftOK
  <1>12. BacklogOK'
    BY <1>1 DEF BacklogOK
  <1>13. Soft!Create(i, k)
    <2> DEFINE L == [y \in Timers |-> Left(y)]
    <2>1. L' = L /\ L[i] = -1
      BY <1>4, <1>5, <1>6
    <2> QED BY <1>1, <2>1 DEF Soft!Create, Soft!Off
  <1>14. LeavesPhase(i)
    <2>1. ~align'[i].already
      BY <1>1, <1>6 DEF NotAligned
    <2>2. ~Phased(i)'
      BY <2>1 DEF Phased, AlreadyAligned
    <2> QED BY <1>1, <1>4, <1>9, <2>2 DEF LeavesPhase, OthersStay
  <1> QED BY <1>5, <1>7, <1>8, <1>10, <1>11, <1>12, <1>13, <1>14 DEF SwtmrInv

(***************************************************************************)
(* A start of i: l is the list without i, al the words it is started with, *)
(* of which i's is new.                                                    *)
(***************************************************************************)
NewWord(i, al) ==
    /\ al \in [Timers -> Words] /\ \A j \in Timers \ {i} : al[j] = align[j]
    /\ ~al[i].already
    /\ al[i].can => kind[i].mode = "PERIOD" /\ ~kind[i].sensitive
    /\ al[i].multiple => kind[i].interval = al[i].times * DIVISOR
    /\ al[i].times # 0 => al[i].multiple

StartsInPhase(i) ==
    \E l, al : /\ LosesTimer(Now, l, i) /\ NewWord(i, al) /\ align' = Started(al, i)
               /\ InPhaseWith(l, al, i, Left(i)')
               /\ kind' = kind /\ OthersStay(i)

LEMMA AlignsWhenQuiet ==
    ASSUME SwtmrInv, ~handling, NEW i \in Timers, NEW l, LosesTimer(Now, l, i),
           NEW al, NewWord(i, al)
    PROVE  AlignsWith(l, al, i)
  <1>1. SwtmrTypeOK /\ ListsOK /\ WordsOK /\ LeftOK
    BY DEF SwtmrInv
  <1>2. \A y : (Contains(Now.list, y) <=> Running(y)) /\ LeftIn(Now, y) = Left(y)
    BY NowIsGood
  <1>3. \A y : Running(y) => y \in Timers /\ Left(y) \in Nat
    BY NowIsGood
  <1>4. /\ \A y : Contains(l.list, y) <=> Running(y) /\ y # i
        /\ \A y : y # i => LeftIn(l, y) = Left(y)
    BY <1>2 DEF LosesTimer
  <1>5. ASSUME NEW j \in Timers, Contains(l.list, j) PROVE LeftIn(l, j) \in 1 .. kind[j].interval
    <2>1. Running(j) /\ j # i /\ LeftIn(l, j) = Left(j) /\ Left(j) \in Nat
      BY <1>3, <1>4, <1>5
    <2>2. Left(j) # 0 /\ Left(j) <= kind[j].interval
      BY <1>1, <2>1 DEF LeftOK
    <2>3. kind[j].interval \in Nat
      BY <1>1, SomeBlocks DEF SwtmrTypeOK
    <2> QED BY <2>1, <2>2, <2>3
  <1>6. ASSUME NEW j \in Timers \ {i}, AlreadyAligned(al, j) PROVE Contains(l.list, j)
    <2>1. align[j].already
      BY <1>6 DEF AlreadyAligned, NewWord
    <2>2. Running(j)
      BY <1>1, <2>1 DEF WordsOK
    <2> QED BY <1>4, <2>2
  <1>7. WordsTell(al)
    <2> SUFFICES ASSUME NEW j \in Timers
                 PROVE  /\ al[j].multiple => kind[j].interval = al[j].times * DIVISOR
                        /\ al[j].times # 0 => al[j].multiple
      BY DEF WordsTell
    <2>1. CASE j = i
      BY <2>1 DEF NewWord
    <2>2. CASE j # i
      <3>1. al[j] = align[j]
        BY <2>2 DEF NewWord
      <3> QED BY <1>1, <3>1 DEF WordsOK, WordsTell
    <2> QED BY <2>1, <2>2
  <1>8. al \in [Timers -> Words] /\ kind \in [Timers -> Created]
    BY <1>1 DEF SwtmrTypeOK, NewWord
  <1> QED BY <1>5, <1>6, <1>7, <1>8 DEF AlignsWith

LEMMA StartsStep ==
    ASSUME SwtmrInv, ~handling, NEW i \in Timers, state[i] # "UNUSED",
           NEW l, LosesTimer(Now, l, i), NEW al, NewWord(i, al),
           BecomeList(osSwTmrStart(l, al, i)), align' = Started(al, i),
           state' = [state EXCEPT ![i] = "TICKING"],
           UNCHANGED <<freeList, timerID, kind, queued, tickVars>>
    PROVE  SwtmrInv' /\ Soft!Start(i) /\ StartsInPhase(i)
  <1>1. SwtmrTypeOK /\ ListsOK /\ WordsOK /\ LeftOK
    BY DEF SwtmrInv
  <1>2. \A y : (Contains(Now.list, y) <=> Running(y)) /\ LeftIn(Now, y) = Left(y)
    BY NowIsGood
  <1>3. /\ freeList' = freeList /\ timerID' = timerID /\ kind' = kind /\ queued' = queued
        /\ handling' = handling /\ backlog' = backlog
    BY DEF tickVars
  <1> DEFINE m == osSwTmrStart(l, al, i)
  <1>4. /\ GoodList(l) /\ ~Contains(l.list, i)
        /\ \A y : Contains(l.list, y) <=> Running(y) /\ y # i
        /\ \A y : y # i => LeftIn(l, y) = Left(y)
    BY <1>2 DEF LosesTimer
  <1>5. PICK n \in 1 .. kind[i].interval : GainsTimer(l, m, i, n) /\ InPhaseWith(l, al, i, n)
    <2>1. AlignsWith(l, al, i)
      BY AlignsWhenQuiet
    <2> QED BY <1>4, <2>1, StartFacts
  <1>6. /\ sortList' = m.list /\ count' = m.count
        /\ \A y : (Running(y)' <=> Contains(m.list, y)) /\ Left(y)' = LeftIn(m, y)
    BY ListBecomes
  <1> HIDE DEF m
  <1>7. kind[i] \in Created /\ kind[i].interval \in Nat /\ n \in Nat /\ n # 0
    <2>1. kind[i] \in Created
      BY <1>1 DEF SwtmrTypeOK
    <2> QED BY <1>5, <2>1, SomeBlocks
  <1>8. /\ GoodList(m)
        /\ \A y : Running(y)' <=> Running(y) \/ y = i
        /\ Left(i)' = n /\ \A y : y # i => Left(y)' = Left(y)
    BY <1>4, <1>5, <1>6 DEF GainsTimer
  <1>9. /\ align' \in [Timers -> Words]
        /\ \A j \in Timers : j # i => align'[j] = align[j]
        /\ align'[i].can = al[i].can /\ align'[i].multiple = al[i].multiple /\ align'[i].times = al[i].times
        /\ align'[i].already <=> al[i].can
    <2>1. al \in [Timers -> Words] /\ ~al[i].already /\ \A j \in Timers : j # i => al[j] = align[j]
      BY DEF NewWord
    <2>2. CASE al[i].can
      <3>1. align' = [al EXCEPT ![i].already = TRUE]
        BY <2>1, <2>2 DEF Started, CanAlign
      <3> QED BY <2>1, <2>2, <3>1 DEF Words
    <2>3. CASE ~al[i].can
      <3>1. align' = al
        BY <2>3 DEF Started, CanAlign
      <3> QED BY <2>1, <2>3, <3>1
    <2> QED BY <2>2, <2>3
  <1>10. \A y \in Timers : state'[y] = IF y = i THEN "TICKING" ELSE state[y]
    BY <1>1 DEF SwtmrTypeOK
  <1>11. SwtmrTypeOK'
    BY <1>1, <1>3, <1>6, <1>8, <1>9 DEF SwtmrTypeOK, GoodList, Words
  <1>12. ListsOK'
    <2>1. NoRepeat(sortList)' /\ NoRepeat(freeList)'
      BY <1>1, <1>3, <1>6, <1>8 DEF GoodList, ListsOK
    <2>2. ASSUME NEW y \in Timers
          PROVE  /\ state'[y] = "TICKING" <=> Running(y)'
                 /\ state'[y] = "UNUSED" <=> Contains(freeList', y)
      BY <1>1, <1>3, <1>8, <1>10 DEF ListsOK
    <2> QED BY <2>1, <2>2 DEF ListsOK
  <1>13. WordsOK'
    <2>1. ASSUME NEW y \in Timers
          PROVE  /\ align'[y].multiple => kind'[y].interval = align'[y].times * DIVISOR
                 /\ align'[y].times # 0 => align'[y].multiple
      BY <1>1, <1>3, <1>9 DEF WordsOK, WordsTell, NewWord
    <2>2. ASSUME NEW y \in Timers
          PROVE  /\ state'[y] = "UNUSED" => align'[y] = NotAligned
                 /\ align'[y].already => Running(y)' /\ align'[y].can
                 /\ align'[y].can /\ Running(y)' => align'[y].already
                 /\ align'[y].can => kind'[y].mode = "PERIOD" /\ ~kind'[y].sensitive
      <3>1. CASE y = i
        BY <1>3, <1>8, <1>9, <1>10, <3>1 DEF NewWord
      <3>2. CASE y # i
        BY <1>1, <1>3, <1>8, <1>9, <1>10, <3>2 DEF WordsOK
      <3> QED BY <3>1, <3>2
    <2> QED BY <2>1, <2>2 DEF WordsOK, WordsTell
  <1>14. LeftOK'
    <2>1. ASSUME NEW y \in Timers, Running(y)' PROVE Left(y)' <= kind'[y].interval
      <3>1. CASE y = i
        BY <1>3, <1>5, <1>7, <1>8, <3>1
      <3>2. CASE y # i
        BY <1>1, <1>3, <1>8, <2>1, <3>2 DEF LeftOK
      <3> QED BY <3>1, <3>2
    <2>2. ~\E y \in Timers : Left(y)' = 0
      BY <1>1, <1>7, <1>8 DEF LeftOK
    <2> QED BY <1>3, <2>1, <2>2 DEF LeftOK
  <1>15. BacklogOK'
    BY <1>3 DEF BacklogOK
  <1>16. Soft!Start(i)
    <2> DEFINE L == [y \in Timers |-> Left(y)]
    <2>1. L' = [L EXCEPT ![i] = n]
      BY <1>8
    <2>2. n \in Soft!FirstIntervals(i)
      <3>1. CASE kind[i].mode = "PERIOD" /\ ~kind[i].sensitive
        BY <1>5, <3>1 DEF Soft!FirstIntervals, Soft!Periodic
      <3>2. CASE ~(kind[i].mode = "PERIOD" /\ ~kind[i].sensitive)
        <4>1. ~CanAlign(al, i)
          BY <3>2 DEF NewWord, CanAlign
        <4>2. n = kind[i].interval
          BY <1>5, <4>1 DEF InPhaseWith
        <4> QED BY <3>2, <4>2 DEF Soft!FirstIntervals, Soft!Periodic
      <3> QED BY <3>1, <3>2
    <2>3. Soft!LeftBecomes(i, n)
      BY <1>3, <2>1 DEF Soft!LeftBecomes
    <2> QED BY <2>2, <2>3 DEF Soft!Start
  <1>17. StartsInPhase(i)
    <2>1. InPhaseWith(l, al, i, Left(i)')
      BY <1>5, <1>8
    <2>2. OthersStay(i)
      BY <1>3, <1>8, <1>9 DEF OthersStay
    <2> QED BY <1>3, <2>1, <2>2 DEF StartsInPhase
  <1> QED BY <1>11, <1>12, <1>13, <1>14, <1>15, <1>16, <1>17 DEF SwtmrInv

LEMMA MarkedFacts ==
    ASSUME SwtmrInv, NEW i \in Timers
    PROVE  /\ Marked(i) \in [Timers -> Words]
           /\ \A j \in Timers : j # i => Marked(i)[j] = align[j]
           /\ Marked(i)[i].already = align[i].already
           /\ Marked(i)[i].can => kind[i].mode = "PERIOD" /\ ~kind[i].sensitive
           /\ Marked(i)[i].multiple => kind[i].interval = Marked(i)[i].times * DIVISOR
           /\ Marked(i)[i].times # 0 => Marked(i)[i].multiple
  <1>1. SwtmrTypeOK /\ WordsOK
    BY DEF SwtmrInv
  <1>2. align \in [Timers -> Words] /\ align[i] \in Words
    BY <1>1 DEF SwtmrTypeOK, Words
  <1> DEFINE d == kind[i].interval
             al == Marked(i)
  <1>3. d \in Nat \ {0} /\ DIVISOR \in Nat \ {0}
    BY <1>1, SomeBlocks DEF SwtmrTypeOK
  <1>4. /\ align[i].multiple => d = align[i].times * DIVISOR
        /\ align[i].times # 0 => align[i].multiple
        /\ align[i].can => kind[i].mode = "PERIOD" /\ ~kind[i].sensitive
    BY <1>1 DEF WordsOK, WordsTell
  <1>5. d \div DIVISOR \in Nat /\ (d % DIVISOR = 0 => d = (d \div DIVISOR) * DIVISOR)
    <2> HIDE DEF d
    <2>1. d \in Int /\ d \div DIVISOR \in Int /\ d = DIVISOR * (d \div DIVISOR) + (d % DIVISOR)
          /\ d % DIVISOR \in 0 .. DIVISOR - 1
      BY <1>3, DivisionBy
    <2> DEFINE q == d \div DIVISOR
               r == d % DIVISOR
    <2>2. q \in Int /\ d = DIVISOR * q + r /\ r \in 0 .. DIVISOR - 1
      BY <2>1
    <2> HIDE DEF q, r
    <2>3. q >= 0
      <3>1. ASSUME q <= -1 PROVE FALSE
        <4>1. DIVISOR * q <= -DIVISOR
          BY <1>3, <2>2, <3>1
        <4>2. DIVISOR * q \in Int
          BY <1>3, <2>2
        <4> QED BY <1>3, <2>2, <4>1, <4>2
      <3> QED BY <2>2, <3>1
    <2>4. r = 0 => d = q * DIVISOR
      BY <1>3, <2>2
    <2> QED BY <2>2, <2>3, <2>4 DEF q, r
  <1> DEFINE q == d \div DIVISOR
             whole == d % DIVISOR = 0
  <1>6. q \in Nat /\ (whole => d = q * DIVISOR)
    BY <1>5
  <1>7. CASE kind[i].sensitive \/ kind[i].mode # "PERIOD"
    <2>1. al = align
      BY <1>7 DEF Marked
    <2> QED BY <1>2, <1>4, <2>1
  <1>8. CASE ~(kind[i].sensitive \/ kind[i].mode # "PERIOD")
    <2>1. al = [align EXCEPT ![i] = [align[i] EXCEPT !.can = TRUE,
                                                    !.multiple = @ \/ whole,
                                                    !.times = IF whole THEN q ELSE @]]
      BY <1>2, <1>8 DEF Marked, Words
    <2> HIDE DEF al, q, whole, d
    <2>2. /\ al \in [Timers -> Words] /\ \A j \in Timers : j # i => al[j] = align[j]
          /\ al[i].already = align[i].already /\ (al[i].multiple <=> align[i].multiple \/ whole)
          /\ al[i].times = IF whole THEN q ELSE align[i].times
      BY <1>2, <1>6, <2>1 DEF Words
    <2>3. al[i].multiple => d = al[i].times * DIVISOR
      BY <1>4, <1>6, <2>2
    <2>4. al[i].times # 0 => al[i].multiple
      BY <1>4, <2>2
    <2> QED BY <1>8, <2>2, <2>3, <2>4 DEF al, d
  <1> QED BY <1>7, <1>8

LEMMA StartStep ==
    ASSUME SwtmrInv, NEW x, LOS_SwtmrStart(x)
    PROVE  SwtmrInv' /\ \E i \in Timers : Soft!Start(i) /\ StartsInPhase(i)
  <1>1. PICK i \in Timers :
            /\ ~handling /\ state[i] # "UNUSED"
            /\ CASE state[i] = "CREATED" ->
                        /\ BecomeList(osSwTmrStart(Now, Marked(i), i))
                        /\ align' = Started(Marked(i), i)
                        /\ state' = [state EXCEPT ![i] = "TICKING"]
                 [] state[i] = "TICKING" ->
                        LET al == [Marked(i) EXCEPT ![i].already = FALSE]
                        IN  /\ BecomeList(osSwTmrStart(osSwtmrStop(Now, i), al, i))
                            /\ align' = Started(al, i)
                            /\ UNCHANGED state
            /\ UNCHANGED <<freeList, timerID, kind, queued, tickVars>>
    BY DEF LOS_SwtmrStart, Names
  <1>2. SwtmrTypeOK /\ ListsOK /\ WordsOK
    BY DEF SwtmrInv
  <1>3. state[i] \in {"CREATED", "TICKING"} /\ state \in [Timers -> {"UNUSED", "CREATED", "TICKING"}]
    BY <1>1, <1>2 DEF SwtmrTypeOK
  <1>4. CASE state[i] = "CREATED"
    <2>1. /\ BecomeList(osSwTmrStart(Now, Marked(i), i)) /\ align' = Started(Marked(i), i)
          /\ state' = [state EXCEPT ![i] = "TICKING"]
      BY <1>1, <1>4
    <2>2. LosesTimer(Now, Now, i)
      BY <1>4, StopFacts
    <2>3. NewWord(i, Marked(i))
      <3>1. ~align[i].already
        BY <1>2, <1>4 DEF WordsOK, ListsOK
      <3> QED BY <3>1, MarkedFacts DEF NewWord
    <2> HIDE DEF Now, Marked
    <2> QED BY <1>1, <1>4, <2>1, <2>2, <2>3, StartsStep
  <1>5. CASE state[i] = "TICKING"
    <2> DEFINE al == [Marked(i) EXCEPT ![i].already = FALSE]
               l == osSwtmrStop(Now, i)
    <2>1. BecomeList(osSwTmrStart(l, al, i)) /\ align' = Started(al, i) /\ state' = state
      BY <1>1, <1>5
    <2>2. LosesTimer(Now, l, i)
      BY <1>5, StopFacts
    <2>3. NewWord(i, al)
      <3>1. /\ Marked(i) \in [Timers -> Words]
            /\ \A j \in Timers : j # i => Marked(i)[j] = align[j]
            /\ Marked(i)[i].can => kind[i].mode = "PERIOD" /\ ~kind[i].sensitive
            /\ Marked(i)[i].multiple => kind[i].interval = Marked(i)[i].times * DIVISOR
            /\ Marked(i)[i].times # 0 => Marked(i)[i].multiple
        BY MarkedFacts
      <3>2. /\ al \in [Timers -> Words] /\ \A j \in Timers : j # i => al[j] = Marked(i)[j]
            /\ al[i].already = FALSE /\ al[i].can = Marked(i)[i].can
            /\ al[i].multiple = Marked(i)[i].multiple /\ al[i].times = Marked(i)[i].times
        BY <3>1 DEF Words
      <3> HIDE DEF al
      <3> QED BY <3>1, <3>2 DEF NewWord
    <2>4. state' = [state EXCEPT ![i] = "TICKING"]
      BY <1>3, <1>5, <2>1
    <2> HIDE DEF al, l
    <2> QED BY <1>1, <1>5, <2>1, <2>2, <2>3, <2>4, StartsStep
  <1> QED BY <1>3, <1>4, <1>5

(***************************************************************************)
(* A timer leaves the list because it is stopped or deleted.               *)
(***************************************************************************)
LEMMA StopsStep ==
    ASSUME SwtmrInv, ~handling, NEW i \in Timers, state[i] # "UNUSED",
           BecomeList(IF state[i] = "TICKING" THEN osSwtmrStop(Now, i) ELSE Now),
           \/ /\ state' = [state EXCEPT ![i] = "CREATED"] /\ freeList' = freeList
              /\ align' = [align EXCEPT ![i].already = FALSE]
           \/ /\ state' = [state EXCEPT ![i] = "UNUSED"] /\ freeList' = <<i>> \o freeList
              /\ align' = [align EXCEPT ![i] = NotAligned],
           UNCHANGED <<timerID, kind, queued, tickVars>>
    PROVE  SwtmrInv' /\ Soft!Stop(i) /\ LeavesPhase(i)
  <1> DEFINE l == IF state[i] = "TICKING" THEN osSwtmrStop(Now, i) ELSE Now
  <1>1. SwtmrTypeOK /\ ListsOK /\ WordsOK /\ LeftOK
    BY DEF SwtmrInv
  <1>2. /\ timerID' = timerID /\ kind' = kind /\ queued' = queued
        /\ handling' = handling /\ backlog' = backlog
    BY DEF tickVars
  <1>3. /\ sortList' = l.list /\ count' = l.count
        /\ \A y : (Running(y)' <=> Contains(l.list, y)) /\ Left(y)' = LeftIn(l, y)
    BY ListBecomes
  <1>4. LosesTimer(Now, l, i)
    BY StopFacts
  <1> HIDE DEF l
  <1>5. \A y : (Contains(Now.list, y) <=> Running(y)) /\ LeftIn(Now, y) = Left(y)
    BY NowIsGood
  <1>6. /\ GoodList(l)
        /\ \A y : Running(y)' <=> Running(y) /\ y # i
        /\ \A y : Left(y)' = IF y = i THEN -1 ELSE Left(y)
    BY <1>3, <1>4, <1>5 DEF LosesTimer
  <1>7. /\ state' \in [Timers -> {"UNUSED", "CREATED", "TICKING"}]
        /\ state'[i] \in {"UNUSED", "CREATED"} /\ \A y \in Timers : y # i => state'[y] = state[y]
        /\ align' \in [Timers -> Words]
        /\ ~align'[i].already /\ \A y \in Timers : y # i => align'[y] = align[y]
        /\ state'[i] = "UNUSED" => align'[i] = NotAligned
        /\ align'[i].can => align[i].can
        /\ align'[i].multiple => align[i].multiple /\ align'[i].times = align[i].times
        /\ align'[i].times # 0 => align'[i].times = align[i].times /\ (align[i].multiple => align'[i].multiple)
    <2>1. /\ align \in [Timers -> Words] /\ align[i] \in Words
          /\ state \in [Timers -> {"UNUSED", "CREATED", "TICKING"}]
          /\ NotAligned \in Words /\ NotAligned.already = FALSE /\ NotAligned.can = FALSE
          /\ NotAligned.multiple = FALSE /\ NotAligned.times = 0
      BY <1>1 DEF SwtmrTypeOK, Words, NotAligned
    <2> HIDE DEF NotAligned
    <2>2. CASE /\ state' = [state EXCEPT ![i] = "CREATED"]
               /\ align' = [align EXCEPT ![i].already = FALSE]
      BY <2>1, <2>2 DEF Words
    <2>3. CASE /\ state' = [state EXCEPT ![i] = "UNUSED"]
               /\ align' = [align EXCEPT ![i] = NotAligned]
      BY <2>1, <2>3
    <2> QED BY <2>2, <2>3
  <1>8. /\ freeList' \in Seq(Timers) /\ NoRepeat(freeList')
        /\ \A y \in Timers : state'[y] = "UNUSED" <=> Contains(freeList', y)
    <2>1. /\ freeList \in Seq(Timers) /\ NoRepeat(freeList) /\ ~Contains(freeList, i)
          /\ \A y \in Timers : state[y] = "UNUSED" <=> Contains(freeList, y)
          /\ state \in [Timers -> {"UNUSED", "CREATED", "TICKING"}]
      BY <1>1 DEF SwtmrTypeOK, ListsOK
    <2>2. CASE state' = [state EXCEPT ![i] = "CREATED"] /\ freeList' = freeList
      BY <2>1, <2>2
    <2>3. CASE state' = [state EXCEPT ![i] = "UNUSED"] /\ freeList' = <<i>> \o freeList
      <3>1. /\ <<i>> \o freeList \in Seq(Timers) /\ NoRepeat(<<i>> \o freeList)
            /\ \A y : Contains(<<i>> \o freeList, y) <=> Contains(freeList, y) \/ y = i
        BY <2>1, PushFacts
      <3> QED BY <2>1, <2>3, <3>1
    <2> QED BY <2>2, <2>3
  <1>9. SwtmrTypeOK'
    BY <1>1, <1>2, <1>3, <1>6, <1>7, <1>8 DEF SwtmrTypeOK, GoodList, Words
  <1>10. ListsOK'
    <2>1. NoRepeat(sortList)'
      BY <1>3, <1>6 DEF GoodList
    <2>2. \A y \in Timers : state'[y] = "TICKING" <=> Running(y)'
      BY <1>1, <1>6, <1>7 DEF ListsOK
    <2> QED BY <1>8, <2>1, <2>2 DEF ListsOK
  <1>11. WordsOK'
    <2>1. ASSUME NEW y \in Timers
          PROVE  /\ align'[y].multiple => kind'[y].interval = align'[y].times * DIVISOR
                 /\ align'[y].times # 0 => align'[y].multiple
      <3>1. CASE y = i
        BY <1>1, <1>2, <1>7, <3>1 DEF WordsOK, WordsTell
      <3>2. CASE y # i
        BY <1>1, <1>2, <1>7, <3>2 DEF WordsOK, WordsTell
      <3> QED BY <3>1, <3>2
    <2>2. ASSUME NEW y \in Timers
          PROVE  /\ state'[y] = "UNUSED" => align'[y] = NotAligned
                 /\ align'[y].already => Running(y)' /\ align'[y].can
                 /\ align'[y].can /\ Running(y)' => align'[y].already
                 /\ align'[y].can => kind'[y].mode = "PERIOD" /\ ~kind'[y].sensitive
      <3>1. CASE y = i
        BY <1>1, <1>2, <1>6, <1>7, <3>1 DEF WordsOK
      <3>2. CASE y # i
        BY <1>1, <1>2, <1>6, <1>7, <3>2 DEF WordsOK
      <3> QED BY <3>1, <3>2
    <2> QED BY <2>1, <2>2 DEF WordsOK, WordsTell
  <1>12. LeftOK'
    <2>1. \A y \in Timers : Running(y)' => Left(y)' <= kind'[y].interval
      BY <1>1, <1>2, <1>6 DEF LeftOK
    <2>2. ~\E y \in Timers : Left(y)' = 0
      BY <1>1, <1>6 DEF LeftOK
    <2> QED BY <1>2, <2>1, <2>2 DEF LeftOK
  <1>13. BacklogOK'
    BY <1>2 DEF BacklogOK
  <1>14. Soft!Stop(i)
    <2> DEFINE L == [y \in Timers |-> Left(y)]
    <2>1. L' = [L EXCEPT ![i] = -1]
      BY <1>6
    <2> QED BY <1>2, <2>1 DEF Soft!Stop, Soft!LeftBecomes, Soft!Off
  <1>15. LeavesPhase(i)
    <2>1. ~Phased(i)'
      BY <1>7 DEF Phased, AlreadyAligned
    <2> QED BY <1>2, <1>6, <1>7, <2>1 DEF LeavesPhase, OthersStay
  <1> QED BY <1>9, <1>10, <1>11, <1>12, <1>13, <1>14, <1>15 DEF SwtmrInv

LEMMA StopStep ==
    ASSUME SwtmrInv, NEW x, LOS_SwtmrStop(x)
    PROVE  SwtmrInv' /\ \E i \in Timers : Soft!Stop(i) /\ LeavesPhase(i)
  <1>1. PICK i \in Timers :
            /\ ~handling /\ state[i] = "TICKING" /\ BecomeList(osSwtmrStop(Now, i))
            /\ align' = [align EXCEPT ![i].already = FALSE]
            /\ state' = [state EXCEPT ![i] = "CREATED"]
            /\ UNCHANGED <<freeList, timerID, kind, queued, tickVars>>
    BY DEF LOS_SwtmrStop
  <1>2. BecomeList(IF state[i] = "TICKING" THEN osSwtmrStop(Now, i) ELSE Now) /\ state[i] # "UNUSED"
    BY <1>1
  <1> QED BY <1>1, <1>2, StopsStep

LEMMA DeleteStep ==
    ASSUME SwtmrInv, NEW x, LOS_SwtmrDelete(x)
    PROVE  SwtmrInv' /\ \E i \in Timers : Soft!Stop(i) /\ LeavesPhase(i)
  <1>1. PICK i \in Timers :
            /\ ~handling /\ state[i] # "UNUSED"
            /\ BecomeList(IF state[i] = "TICKING" THEN osSwtmrStop(Now, i) ELSE Now)
            /\ freeList' = <<i>> \o freeList
            /\ state' = [state EXCEPT ![i] = "UNUSED"]
            /\ align' = [align EXCEPT ![i] = NotAligned]
            /\ UNCHANGED <<timerID, kind, queued, tickVars>>
    BY DEF LOS_SwtmrDelete
  <1> QED BY <1>1, StopsStep

-----------------------------------------------------------------------------
(***************************************************************************)
(* A tick: the head pays for the whole list.                               *)
(***************************************************************************)
LEMMA TickStep ==
    ASSUME SwtmrInv, osSwtmrScan
    PROVE  /\ SwtmrInv' /\ Soft!Advance
           /\ kind' = kind /\ align' = align /\ \A y : Running(y) => Left(y)' = Left(y) - 1
  <1> DEFINE h == Head(sortList)
             v == [count EXCEPT ![h] = @ - 1]
             l == [list |-> sortList, count |-> v]
  <1>1. /\ ~handling /\ sortList # <<>> /\ count' = v
        /\ handling' = (count[h] = 1)
        /\ backlog' = IF handling' THEN queued ELSE 0
        /\ sortList' = sortList /\ state' = state /\ freeList' = freeList /\ timerID' = timerID
        /\ kind' = kind /\ align' = align /\ queued' = queued
    BY DEF osSwtmrScan
  <1>2. SwtmrTypeOK /\ ListsOK /\ WordsOK /\ LeftOK
    BY DEF SwtmrInv
  <1>3. /\ GoodList(Now) /\ Now.list = sortList /\ Now.count = count
        /\ \A y : /\ Contains(Now.list, y) <=> Running(y)
                  /\ LeftIn(Now, y) = Left(y)
                  /\ Running(y) => y \in Timers /\ Left(y) \in Nat
                  /\ ~Running(y) => Left(y) = -1
    BY NowIsGood DEF Now
  <1>4. h \in Timers /\ Running(h) /\ count[h] \in Nat /\ count[h] > 0 /\ Left(h) = count[h]
    <2>1. h \in Timers /\ Contains(Now.list, h) /\ LeftIn(Now, h) = count[h]
      <3> HIDE DEF Now
      <3> QED BY <1>1, <1>3, HeadIsFirst
    <2>2. Left(h) # 0
      BY <1>1, <1>2, <2>1 DEF LeftOK
    <2> QED BY <1>3, <2>1, <2>2
  <1>5. sortList \in Seq(Timers) /\ NoRepeat(sortList) /\ count \in [Timers -> Nat] /\ h = sortList[1]
        /\ Len(sortList) \in Nat /\ \A k \in 1 .. Len(sortList) : sortList[k] \in Timers
    BY <1>1, <1>2 DEF SwtmrTypeOK, ListsOK
  <1> HIDE DEF h
  <1>6. v \in [Timers -> Nat] /\ v[h] = count[h] - 1 /\ \A y \in Timers : y # h => v[y] = count[y]
    BY <1>4, <1>5
  <1> HIDE DEF v
  <1>7. GoodList(l) /\ l.list = sortList /\ l.count = v
    BY <1>5, <1>6 DEF GoodList
  <1>8. \A y : Running(y) => LeftIn(l, y) = Left(y) - 1
    <2>1. HeadPays(sortList, count, v, 1)
      <3> SUFFICES ASSUME NEW k \in 1 .. Len(sortList)
                   PROVE  v[sortList[k]] = IF k = 1 THEN count[sortList[k]] - 1 ELSE count[sortList[k]]
        BY DEF HeadPays
      <3>1. k # 1 => sortList[k] # h
        BY <1>5 DEF NoRepeat
      <3> QED BY <1>5, <1>6, <3>1
    <2>2. \A k \in 1 .. Len(sortList) : Total(sortList, v, k) = Total(sortList, count, k) - 1
      <3>1. sortList \in Seq(Timers) /\ count \in [Timers -> Int] /\ 1 \in Int
        BY <1>5
      <3> QED BY <2>1, <3>1, HeadTotals
    <2> SUFFICES ASSUME NEW y, Running(y) PROVE LeftIn(l, y) = Left(y) - 1
      OBVIOUS
    <2>3. PlaceOf(sortList, y) \in 1 .. Len(sortList)
      BY HasPlace DEF Running
    <2>4. LeftIn(l, y) = Total(sortList, v, PlaceOf(sortList, y))
      BY <1>7 DEF LeftIn, TotalAt, Running
    <2>5. Left(y) = Total(sortList, count, PlaceOf(sortList, y))
      BY DEF Left, osSwtmrTimeGet, TicksIn, Place, Now
    <2> QED BY <2>2, <2>3, <2>4, <2>5
  <1>9. /\ \A y : Running(y)' <=> Running(y)
        /\ \A y : Left(y)' = IF Running(y) THEN Left(y) - 1 ELSE -1
    <2>1. BecomeList(l)
      BY <1>1, <1>7 DEF BecomeList
    <2>2. \A y : (Running(y)' <=> Contains(l.list, y)) /\ Left(y)' = LeftIn(l, y)
      BY <2>1, ListBecomes
    <2> HIDE DEF l
    <2>3. \A y : Running(y) <=> Contains(l.list, y)
      BY <1>7 DEF Running
    <2>4. \A y : ~Running(y) => LeftIn(l, y) = -1
      BY <2>3 DEF LeftIn
    <2> QED BY <1>8, <2>2, <2>3, <2>4
  <1>10. handling' <=> \E y \in Timers : Left(y)' = 0
    <2>1. (l.list # <<>> /\ l.count[Head(l.list)] = 0) <=> \E y \in Timers : LeftIn(l, y) = 0
      <3> HIDE DEF l
      <3> QED BY <1>7, HeadTellsDue
    <2>2. handling' <=> l.list # <<>> /\ l.count[Head(l.list)] = 0
      <3>1. count[h] = 1 <=> v[h] = 0
        BY <1>4, <1>6
      <3>2. l.list # <<>> /\ l.count[Head(l.list)] = v[h]
        BY <1>1, <1>7 DEF h
      <3> HIDE DEF l
      <3> QED BY <1>1, <3>1, <3>2
    <2>3. \A y : Left(y)' = LeftIn(l, y)
      <3>1. BecomeList(l)
        BY <1>1, <1>7 DEF BecomeList
      <3> QED BY <3>1, ListBecomes
    <2> QED BY <2>1, <2>2, <2>3
  <1>11. SwtmrTypeOK'
    <2>1. handling' \in BOOLEAN /\ backlog' \in 0 .. QUEUE_SIZE
      BY <1>1, <1>2, SomeBlocks DEF SwtmrTypeOK, QUEUE_SIZE
    <2> QED BY <1>1, <1>2, <1>6, <2>1 DEF SwtmrTypeOK
  <1>12. ListsOK' /\ WordsOK'
    BY <1>1, <1>2, <1>9 DEF ListsOK, WordsOK, WordsTell
  <1>13. LeftOK'
    <2>1. ASSUME NEW y \in Timers, Running(y)' PROVE Left(y)' <= kind'[y].interval
      <3>1. Running(y) /\ Left(y) \in Nat /\ Left(y) <= kind[y].interval /\ Left(y)' = Left(y) - 1
        BY <1>2, <1>3, <1>9, <2>1 DEF LeftOK
      <3>2. kind[y].interval \in Nat
        BY <1>2, SomeBlocks DEF SwtmrTypeOK
      <3> QED BY <1>1, <3>1, <3>2
    <2> QED BY <1>10, <2>1 DEF LeftOK
  <1>14. BacklogOK'
    <2>1. Cardinality(Due)' \in 0 .. LIMIT /\ queued \in Nat /\ LIMIT \in Nat
      BY <1>2, DueIsFinite, SomeBlocks DEF SwtmrTypeOK, QUEUE_SIZE
    <2>2. handling' => backlog' = queued
      BY <1>1
    <2> QED BY <1>1, <2>1, <2>2 DEF BacklogOK
  <1>15. Soft!Advance
    <2> DEFINE L == [y \in Timers |-> Left(y)]
    <2>1. \A y \in Timers : L[y] # 0
      BY <1>1, <1>2 DEF LeftOK
    <2>2. L' = [y \in Timers |-> IF L[y] = -1 THEN -1 ELSE L[y] - 1]
      <3> SUFFICES ASSUME NEW y \in Timers PROVE Left(y)' = IF Left(y) = -1 THEN -1 ELSE Left(y) - 1
        OBVIOUS
      <3>1. CASE Running(y)
        BY <1>3, <1>9, <3>1
      <3>2. CASE ~Running(y)
        BY <1>3, <1>9, <3>2
      <3> QED BY <3>1, <3>2
    <2> QED BY <1>1, <2>1, <2>2 DEF Soft!Advance, Soft!Off
  <1> QED BY <1>1, <1>9, <1>11, <1>12, <1>13, <1>14, <1>15 DEF SwtmrInv

(***************************************************************************)
(* The timer at the head expires: it leaves the list, and a periodic one is*)
(* back for its whole interval.                                            *)
(***************************************************************************)
LEMMA ExpireStep ==
    ASSUME SwtmrInv, osSwTmrTimeoutHandle
    PROVE  SwtmrInv' /\ \E i \in Timers : Soft!Expire(i) /\ ExpiresInPhase(i)
  <1>0. PICK i : i = Head(sortList)
    OBVIOUS
  <1> DEFINE rest == Removed(Now, i)
             next == IF kind[i].mode = "PERIOD" THEN Restart(rest, align, i) ELSE rest
  <1>1. /\ handling
        /\ queued' = IF queued < QUEUE_SIZE THEN queued + 1 ELSE queued
        /\ BecomeList(next)
        /\ handling' = (next.list # <<>> /\ next.count[Head(next.list)] = 0)
        /\ backlog' = IF handling' THEN backlog ELSE 0
        /\ CASE kind[i].mode = "ONCE" ->
                    /\ freeList' = <<i>> \o freeList
                    /\ state' = [state EXCEPT ![i] = "UNUSED"]
                    /\ align' = [align EXCEPT ![i] = NotAligned]
                    /\ timerID' = [timerID EXCEPT ![i] = NextID(@)]
             [] kind[i].mode = "PERIOD" ->
                    /\ align' = Started(align, i)
                    /\ UNCHANGED <<freeList, state, timerID>>
             [] kind[i].mode = "NO_SELFDELETE" ->
                    /\ state' = [state EXCEPT ![i] = "CREATED"]
                    /\ UNCHANGED <<freeList, timerID, align>>
        /\ kind' = kind
    BY <1>0 DEF osSwTmrTimeoutHandle
  <1>2. SwtmrTypeOK /\ ListsOK /\ WordsOK /\ LeftOK /\ BacklogOK
    BY DEF SwtmrInv
  <1>3. /\ GoodList(Now) /\ Now.list = sortList /\ Now.count = count
        /\ \A y : /\ Contains(Now.list, y) <=> Running(y)
                  /\ LeftIn(Now, y) = Left(y)
                  /\ Running(y) => y \in Timers /\ Left(y) \in Nat
                  /\ ~Running(y) => Left(y) = -1
    BY NowIsGood DEF Now
  <1>4. i \in Timers /\ Running(i) /\ Left(i) = 0 /\ i \in Due
    <2>1. \E y \in Timers : LeftIn(Now, y) = 0
      BY <1>1, <1>2, <1>3 DEF LeftOK
    <2>2. Now.list # <<>> /\ Now.count[Head(Now.list)] = 0
      <3> HIDE DEF Now
      <3> QED BY <1>3, <2>1, HeadTellsDue
    <2>3. i \in Timers /\ Contains(Now.list, i) /\ LeftIn(Now, i) = 0
      <3>1. /\ Head(Now.list) \in Timers /\ Contains(Now.list, Head(Now.list))
            /\ LeftIn(Now, Head(Now.list)) = Now.count[Head(Now.list)]
        <4> HIDE DEF Now
        <4> QED BY <1>3, <2>2, HeadIsFirst
      <3> QED BY <1>0, <1>3, <2>2, <3>1
    <2> QED BY <1>3, <2>3 DEF Due
  <1>5. /\ GoodList(rest)
        /\ \A y : Contains(rest.list, y) <=> Running(y) /\ y # i
        /\ \A y : LeftIn(rest, y) = IF y = i THEN -1 ELSE Left(y)
    <2>1. /\ GoodList(rest)
          /\ \A y : Contains(rest.list, y) <=> Contains(Now.list, y) /\ y # i
          /\ \A y : LeftIn(rest, y) = IF y = i THEN -1 ELSE LeftIn(Now, y)
      <3>1. Contains(Now.list, i)
        BY <1>3, <1>4
      <3> HIDE DEF Now
      <3> QED BY <1>3, <3>1, RemovedFacts
    <2> QED BY <1>3, <2>1
  <1>6. kind[i] \in Created /\ kind[i].interval \in Nat \ {0} /\ kind[i].mode \in Modes
    <2>1. kind[i] \in Created
      BY <1>2, <1>4 DEF SwtmrTypeOK
    <2> QED BY <2>1, SomeBlocks
  <1> HIDE DEF rest
  <1> DEFINE periodic == kind[i].mode = "PERIOD"
  <1>7. ~CanAlign(align, i)
    BY <1>2, <1>4 DEF WordsOK, CanAlign
  <1>8. /\ GoodList(next)
        /\ \A y : Contains(next.list, y) <=> Running(y) /\ (y # i \/ periodic)
        /\ LeftIn(next, i) = IF periodic THEN kind[i].interval ELSE -1
        /\ \A y : y # i => LeftIn(next, y) = Left(y)
    <2>1. CASE periodic
      <3>1. next = InsertedIn(rest, i, kind[i].interval)
        BY <1>7, <2>1 DEF Restart, osSwTmrStart
      <3>2. GainsTimer(rest, InsertedIn(rest, i, kind[i].interval), i, kind[i].interval)
        <4>1. ~Contains(rest.list, i) /\ kind[i].interval \in Nat
          BY <1>5, <1>6
        <4> QED BY <1>4, <1>5, <4>1, InsertedInFacts
      <3>3. GainsTimer(rest, next, i, kind[i].interval)
        BY <3>1, <3>2
      <3> HIDE DEF next
      <3> QED BY <1>4, <1>5, <2>1, <3>3 DEF GainsTimer
    <2>2. CASE ~periodic
      <3>1. next = rest
        BY <2>2
      <3> HIDE DEF next
      <3> QED BY <1>5, <2>2, <3>1
    <2> QED BY <2>1, <2>2
  <1>9. /\ sortList' = next.list /\ count' = next.count
        /\ \A y : (Running(y)' <=> Contains(next.list, y)) /\ Left(y)' = LeftIn(next, y)
    <2> HIDE DEF next
    <2> QED BY <1>1, ListBecomes
  <1>10. handling' <=> \E y \in Timers : Left(y)' = 0
    <2>1. (next.list # <<>> /\ next.count[Head(next.list)] = 0) <=> \E y \in Timers : LeftIn(next, y) = 0
      <3> HIDE DEF next
      <3> QED BY <1>8, HeadTellsDue
    <2> HIDE DEF next
    <2> QED BY <1>1, <1>9, <2>1
  <1> HIDE DEF next
  <1>11. /\ \A y : Running(y)' <=> Running(y) /\ (y # i \/ periodic)
         /\ Left(i)' = IF periodic THEN kind[i].interval ELSE -1
         /\ \A y : y # i => Left(y)' = Left(y)
         /\ NoRepeat(sortList)' /\ sortList' \in Seq(Timers) /\ count' \in [Timers -> Nat]
    BY <1>8, <1>9 DEF GoodList
  <1>12. /\ freeList \in Seq(Timers) /\ NoRepeat(freeList) /\ ~Contains(freeList, i)
         /\ align \in [Timers -> Words] /\ align[i] \in Words
         /\ timerID \in [Timers -> 0 .. MAX_TIMERID - 1] /\ \A y \in Timers : timerID[y] % LIMIT = y
         /\ state \in [Timers -> {"UNUSED", "CREATED", "TICKING"}] /\ state[i] = "TICKING"
    BY <1>2, <1>4 DEF SwtmrTypeOK, ListsOK, Words
  <1>13. /\ freeList' \in Seq(Timers) /\ NoRepeat(freeList')
         /\ timerID' \in [Timers -> 0 .. MAX_TIMERID - 1] /\ \A y \in Timers : timerID'[y] % LIMIT = y
         /\ state' \in [Timers -> {"UNUSED", "CREATED", "TICKING"}]
         /\ align' \in [Timers -> Words]
         /\ state'[i] = "TICKING" <=> periodic
         /\ \A y \in Timers : y # i => state'[y] = state[y] /\ align'[y] = align[y]
         /\ \A y \in Timers : Contains(freeList', y) <=> Contains(freeList, y) \/ (y = i /\ state'[i] = "UNUSED")
         /\ align'[i] = align[i] \/ align'[i] = NotAligned
         /\ state'[i] = "UNUSED" => align'[i] = NotAligned
    <2>1. CASE kind[i].mode = "ONCE"
      <3>1. /\ freeList' = <<i>> \o freeList
            /\ state' = [state EXCEPT ![i] = "UNUSED"]
            /\ align' = [align EXCEPT ![i] = NotAligned]
            /\ timerID' = [timerID EXCEPT ![i] = NextID(@)]
        BY <1>1, <2>1
      <3>2. /\ <<i>> \o freeList \in Seq(Timers) /\ NoRepeat(<<i>> \o freeList)
            /\ \A y : Contains(<<i>> \o freeList, y) <=> Contains(freeList, y) \/ y = i
        BY <1>4, <1>12, PushFacts
      <3>3. NextID(timerID[i]) \in 0 .. MAX_TIMERID - 1 /\ NextID(timerID[i]) % LIMIT = i
        <4>1. timerID[i] \in 0 .. MAX_TIMERID - 1 /\ timerID[i] % LIMIT = i
          BY <1>4, <1>12
        <4> QED BY <1>4, <4>1, NextIDNames
      <3>4. NotAligned \in Words
        BY DEF NotAligned, Words
      <3>5. /\ timerID' \in [Timers -> 0 .. MAX_TIMERID - 1]
            /\ \A y \in Timers : timerID'[y] % LIMIT = y
        <4> DEFINE nid == NextID(timerID[i])
        <4>1. timerID' = [timerID EXCEPT ![i] = nid]
          BY <3>1
        <4>2. nid \in 0 .. MAX_TIMERID - 1 /\ nid % LIMIT = i
          BY <3>3
        <4> HIDE DEF nid
        <4> QED BY <1>12, <4>1, <4>2
      <3> QED BY <1>4, <1>12, <2>1, <3>1, <3>2, <3>4, <3>5
    <2>2. CASE kind[i].mode = "PERIOD"
      <3>1. align' = align /\ freeList' = freeList /\ state' = state /\ timerID' = timerID
        BY <1>1, <1>7, <2>2 DEF Started
      <3> QED BY <1>4, <1>12, <2>2, <3>1
    <2>3. CASE kind[i].mode = "NO_SELFDELETE"
      <3>1. /\ state' = [state EXCEPT ![i] = "CREATED"]
            /\ align' = align /\ freeList' = freeList /\ timerID' = timerID
        BY <1>1, <2>3
      <3> QED BY <1>4, <1>12, <2>3, <3>1
    <2> QED BY <1>6, <2>1, <2>2, <2>3 DEF Modes
  <1>14. queued \in 0 .. LIMIT /\ backlog \in 0 .. LIMIT /\ LIMIT \in Nat
         /\ queued' \in 0 .. LIMIT /\ queued' <= queued + 1
         /\ backlog' = IF handling' THEN backlog ELSE 0
    <2>1. queued \in 0 .. LIMIT /\ backlog \in 0 .. LIMIT /\ LIMIT \in Nat
      BY <1>2, SomeBlocks DEF SwtmrTypeOK, QUEUE_SIZE
    <2> QED BY <1>1, <2>1 DEF QUEUE_SIZE
  <1>15. SwtmrTypeOK'
    <2>1. handling' \in BOOLEAN /\ backlog' \in 0 .. LIMIT
      BY <1>1, <1>14
    <2> QED BY <1>1, <1>2, <1>11, <1>13, <1>14, <2>1 DEF SwtmrTypeOK, Words, QUEUE_SIZE
  <1>16. ListsOK'
    <2>1. ASSUME NEW y \in Timers
          PROVE  /\ state'[y] = "TICKING" <=> Running(y)'
                 /\ state'[y] = "UNUSED" <=> Contains(freeList', y)
      <3>1. CASE y = i
        BY <1>4, <1>11, <1>12, <1>13, <3>1
      <3>2. CASE y # i
        BY <1>2, <1>11, <1>13, <3>2 DEF ListsOK
      <3> QED BY <3>1, <3>2
    <2> QED BY <1>11, <1>13, <2>1 DEF ListsOK
  <1>17. WordsOK'
    <2>0. /\ NotAligned.already = FALSE /\ NotAligned.can = FALSE
          /\ NotAligned.multiple = FALSE /\ NotAligned.times = 0
      BY DEF NotAligned
    <2> HIDE DEF NotAligned
    <2>1. ASSUME NEW y \in Timers
          PROVE  /\ align'[y].multiple => kind'[y].interval = align'[y].times * DIVISOR
                 /\ align'[y].times # 0 => align'[y].multiple
      BY <1>1, <1>2, <1>13, <2>0 DEF WordsOK, WordsTell
    <2>2. ASSUME NEW y \in Timers
          PROVE  /\ state'[y] = "UNUSED" => align'[y] = NotAligned
                 /\ align'[y].already => Running(y)' /\ align'[y].can
                 /\ align'[y].can /\ Running(y)' => align'[y].already
                 /\ align'[y].can => kind'[y].mode = "PERIOD" /\ ~kind'[y].sensitive
      <3>1. CASE y # i
        BY <1>1, <1>2, <1>11, <1>13, <3>1 DEF WordsOK
      <3>2. CASE y = i /\ align'[y] = NotAligned
        BY <1>13, <2>0, <3>2
      <3>3. CASE y = i /\ align'[y] = align[y] /\ periodic
        BY <1>1, <1>2, <1>4, <1>11, <1>13, <3>3 DEF WordsOK
      <3>4. CASE y = i /\ align'[y] = align[y] /\ ~periodic
        <4>1. ~align[i].can
          BY <1>2, <1>4, <3>4 DEF WordsOK
        <4>2. ~align'[y].can /\ ~align'[y].already
          BY <1>2, <1>4, <3>4, <4>1 DEF WordsOK
        <4> QED BY <1>13, <3>4, <4>2
      <3> QED BY <1>13, <3>1, <3>2, <3>3, <3>4
    <2> QED BY <2>1, <2>2 DEF WordsOK, WordsTell
  <1>18. LeftOK'
    <2>1. ASSUME NEW y \in Timers, Running(y)' PROVE Left(y)' <= kind'[y].interval
      <3>1. CASE y = i
        BY <1>1, <1>6, <1>11, <2>1, <3>1
      <3>2. CASE y # i
        BY <1>1, <1>2, <1>11, <2>1, <3>2 DEF LeftOK
      <3> QED BY <3>1, <3>2
    <2> QED BY <1>10, <2>1 DEF LeftOK
  <1>19. BacklogOK'
    <2>1. Due' = Due \ {i}
      <3>1. Left(i)' # 0
        BY <1>6, <1>11
      <3>2. \A y \in Timers : y \in Due' <=> y \in Due /\ y # i
        BY <1>11, <3>1 DEF Due
      <3> QED BY <3>2 DEF Due
    <2>2. Cardinality(Due') = Cardinality(Due) - 1
      <3>1. IsFiniteSet(Due)
        BY DueIsFinite
      <3> QED BY <1>4, <2>1, <3>1, FS_RemoveElement
    <2>3. Cardinality(Due) \in Nat
      BY DueIsFinite, SomeBlocks
    <2>4. queued + Cardinality(Due) <= backlog + LIMIT
      BY <1>1, <1>2 DEF BacklogOK
    <2> QED BY <1>14, <2>2, <2>3, <2>4 DEF BacklogOK
  <1>20. Soft!Expire(i)
    <2> DEFINE L == [y \in Timers |-> Left(y)]
    <2>1. L[i] = 0
      BY <1>4
    <2>2. CASE periodic
      <3>1. L' = [L EXCEPT ![i] = kind[i].interval]
        BY <1>11, <2>2
      <3> QED BY <1>1, <2>1, <2>2, <3>1 DEF Soft!Expire, Soft!LeftBecomes, Soft!Periodic
    <2>3. CASE ~periodic
      <3>1. L' = [L EXCEPT ![i] = -1]
        BY <1>11, <2>3
      <3> QED BY <1>1, <2>1, <2>3, <3>1 DEF Soft!Expire, Soft!LeftBecomes, Soft!Periodic, Soft!Off
    <2> QED BY <2>2, <2>3
  <1>21. ExpiresInPhase(i)
    <2>1. ASSUME Phased(i)' PROVE Phased(i) /\ Left(i)' = kind[i].interval
      <3>1. align'[i] = align[i]
        BY <1>13, <2>1 DEF Phased, AlreadyAligned, NotAligned
      <3>2. Phased(i)
        BY <2>1, <3>1 DEF Phased, AlreadyAligned
      <3>3. periodic
        BY <1>2, <1>4, <3>2 DEF WordsOK, Phased, AlreadyAligned
      <3> QED BY <1>11, <3>2, <3>3
    <2>2. OthersStay(i) /\ kind'[i] = kind[i]
      BY <1>1, <1>11, <1>13 DEF OthersStay
    <2> QED BY <1>4, <2>1, <2>2 DEF ExpiresInPhase
  <1> QED BY <1>4, <1>15, <1>16, <1>17, <1>18, <1>19, <1>20, <1>21 DEF SwtmrInv

LEMMA TimerTaskStep ==
    ASSUME SwtmrInv, osSwTmrTask \/ UNCHANGED swtmrVars
    PROVE  SwtmrInv' /\ kind' = kind /\ align' = align /\ \A y : Left(y)' = Left(y)
  <1>1. /\ sortList' = sortList /\ count' = count /\ state' = state /\ freeList' = freeList
        /\ timerID' = timerID /\ kind' = kind /\ align' = align
        /\ handling' = handling /\ backlog' = backlog
        /\ queued' = queued \/ (~handling /\ queued > 0 /\ queued' = queued - 1)
    BY DEF osSwTmrTask, swtmrVars, listVars, tickVars
  <1>2. \A y : (Running(y)' <=> Running(y)) /\ Left(y)' = Left(y)
    BY <1>1, SameList DEF listVars
  <1>3. SwtmrTypeOK /\ ListsOK /\ WordsOK /\ LeftOK /\ BacklogOK
    BY DEF SwtmrInv
  <1>4. SwtmrTypeOK'
    <2>1. queued' \in 0 .. QUEUE_SIZE
      BY <1>1, <1>3, SomeBlocks DEF SwtmrTypeOK, QUEUE_SIZE
    <2> QED BY <1>1, <1>3, <2>1 DEF SwtmrTypeOK
  <1>5. ListsOK' /\ WordsOK' /\ LeftOK'
    BY <1>1, <1>2, <1>3 DEF ListsOK, WordsOK, WordsTell, LeftOK
  <1>6. BacklogOK'
    <2>1. Due' = Due
      BY <1>2 DEF Due
    <2> QED BY <1>1, <1>3, <2>1 DEF BacklogOK
  <1> QED BY <1>1, <1>2, <1>4, <1>5, <1>6 DEF SwtmrInv

LEMMA SwtmrStart == SwtmrInit => SwtmrInv
  <1> SUFFICES ASSUME SwtmrInit PROVE SwtmrInv
    OBVIOUS
  <1>0. LIMIT \in Nat \ {0} /\ MAX_TIMERID \in Nat /\ MAX_TIMERID >= 2 * LIMIT /\ Timers = 0 .. LIMIT - 1
    BY SwtmrAssumption DEF Timers
  <1>1. \A y : ~Running(y) /\ Left(y) = -1
    BY DEF SwtmrInit, Running, Contains, Left
  <1>2. freeList \in Seq(Timers) /\ NoRepeat(freeList) /\ \A y \in Timers : Contains(freeList, y)
    <2>1. freeList = [k \in 1 .. LIMIT |-> k - 1]
      BY DEF SwtmrInit
    <2>2. freeList \in Seq(Timers) /\ Len(freeList) = LIMIT
      BY <1>0, <2>1
    <2>3. NoRepeat(freeList)
      BY <1>0, <2>1, <2>2 DEF NoRepeat
    <2>4. ASSUME NEW y \in Timers PROVE Contains(freeList, y)
      <3>1. y + 1 \in 1 .. LIMIT /\ (y + 1) - 1 = y
        BY <1>0
      <3>2. freeList[y + 1] = y
        BY <2>1, <3>1
      <3> QED BY <2>2, <3>1, <3>2 DEF Contains
    <2> QED BY <2>2, <2>3, <2>4
  <1>3. \A y \in Timers : y % LIMIT = y
    <2> SUFFICES ASSUME NEW y \in Timers PROVE y % LIMIT = y
      OBVIOUS
    <2>1. (LIMIT * 0 + y) % LIMIT = y
      BY <1>0, Remainder
    <2>2. LIMIT * 0 + y = y
      BY <1>0
    <2> QED BY <2>1, <2>2
  <1>4. SwtmrTypeOK
    <2>1. align \in [Timers -> Words]
      BY DEF SwtmrInit, NotAligned, Words
    <2>2. timerID \in [Timers -> 0 .. MAX_TIMERID - 1] /\ \A y \in Timers : timerID[y] % LIMIT = y
      BY <1>0, <1>3 DEF SwtmrInit
    <2>3. kind \in [Timers -> Created]
      <3>1. (CHOOSE k \in Created : TRUE) \in Created
        BY SwtmrAssumption
      <3> QED BY <3>1 DEF SwtmrInit
    <2>4. sortList \in Seq(Timers) /\ count \in [Timers -> Nat] /\ state \in [Timers -> {"UNUSED", "CREATED", "TICKING"}]
      BY DEF SwtmrInit
    <2>5. queued \in 0 .. QUEUE_SIZE /\ handling \in BOOLEAN /\ backlog \in 0 .. QUEUE_SIZE
      <3>1. queued = 0 /\ handling = FALSE /\ backlog = 0
        BY DEF SwtmrInit
      <3>2. 0 \in 0 .. LIMIT
        BY <1>0
      <3> QED BY <3>1, <3>2 DEF QUEUE_SIZE
    <2> QED BY <1>2, <2>1, <2>2, <2>3, <2>4, <2>5 DEF SwtmrTypeOK, Words
  <1>5. ListsOK
    <2>1. NoRepeat(sortList) /\ \A y \in Timers : state[y] = "UNUSED"
      BY DEF SwtmrInit, NoRepeat
    <2> QED BY <1>1, <1>2, <2>1 DEF ListsOK
  <1>6. WordsOK
    <2>1. \A y \in Timers : align[y] = NotAligned
      BY DEF SwtmrInit
    <2> QED BY <2>1 DEF WordsOK, WordsTell, NotAligned
  <1>7. LeftOK /\ BacklogOK
    BY <1>1 DEF LeftOK, BacklogOK, SwtmrInit
  <1> QED BY <1>4, <1>5, <1>6, <1>7 DEF SwtmrInv

(***************************************************************************)
(* Every step keeps the invariant, and is a step of SoftTimers or changes  *)
(* no ticks left.                                                          *)
(***************************************************************************)
LEMMA SwtmrStep ==
    ASSUME SwtmrInv, [SwtmrNext]_swtmrVars
    PROVE  SwtmrInv' /\ [Soft!SoftNext]_<<[i \in Timers |-> Left(i)], kind>>
  <1> DEFINE L == [i \in Timers |-> Left(i)]
  <1>1. ASSUME NEW k \in Created, LOS_SwtmrCreate(k) PROVE SwtmrInv' /\ Soft!SoftNext
    BY <1>1, CreateStep DEF Soft!SoftNext
  <1>2. ASSUME NEW x, LOS_SwtmrStart(x) PROVE SwtmrInv' /\ Soft!SoftNext
    BY <1>2, StartStep DEF Soft!SoftNext
  <1>3. ASSUME NEW x, LOS_SwtmrStop(x) PROVE SwtmrInv' /\ Soft!SoftNext
    BY <1>3, StopStep DEF Soft!SoftNext
  <1>4. ASSUME NEW x, LOS_SwtmrDelete(x) PROVE SwtmrInv' /\ Soft!SoftNext
    BY <1>4, DeleteStep DEF Soft!SoftNext
  <1>5. ASSUME osSwtmrScan PROVE SwtmrInv' /\ Soft!SoftNext
    BY <1>5, TickStep DEF Soft!SoftNext
  <1>6. ASSUME osSwTmrTimeoutHandle PROVE SwtmrInv' /\ Soft!SoftNext
    BY <1>6, ExpireStep DEF Soft!SoftNext
  <1>7. ASSUME osSwTmrTask \/ UNCHANGED swtmrVars PROVE SwtmrInv' /\ L' = L /\ kind' = kind
    <2>1. SwtmrInv' /\ kind' = kind /\ \A y : Left(y)' = Left(y)
      BY <1>7, TimerTaskStep
    <2> QED BY <2>1
  <1> HIDE DEF L
  <1>8. SwtmrInv' /\ [Soft!SoftNext]_<<L, kind>>
    BY <1>1, <1>2, <1>3, <1>4, <1>5, <1>6, <1>7 DEF SwtmrNext, SwtmrCall
  <1> QED BY <1>8 DEF L

(***************************************************************************)
(* The inductive invariant of the software timers holds always.            *)
(***************************************************************************)
THEOREM SwtmrInvariant == SwtmrSpec => []SwtmrInv
  <1>1. SwtmrInv /\ [SwtmrNext]_swtmrVars => SwtmrInv'
    BY SwtmrStep
  <1> QED BY <1>1, SwtmrStart, PTL DEF SwtmrSpec

(***************************************************************************)
(* The types of the software timers: an ID names its block for ever, though*)
(* it is renewed at each deletion by the timer task, and no count is taken *)
(* below zero (osSwTmrTimeoutHandle, LOS_SwtmrStart, osSwtmrScan).         *)
(***************************************************************************)
THEOREM SwtmrTypes == SwtmrSpec => []SwtmrTypeOK
  <1>1. SwtmrInv => SwtmrTypeOK
    BY DEF SwtmrInv
  <1> QED BY <1>1, SwtmrInvariant, PTL

(***************************************************************************)
(* The queue of expiries loses one only if some were waiting in it when the*)
(* tick began: it is as long as there are timers, and no timer expires     *)
(* twice in a tick (osSwTmrTimeoutHandle, osSwtmrInit).                    *)
(***************************************************************************)
THEOREM LossNeedsBacklog == SwtmrSpec => []LostOnlyBehindBacklog
  <1>1. ASSUME SwtmrInv, handling, queued = QUEUE_SIZE PROVE backlog > 0
    <2>1. PICK y \in Timers : Left(y) = 0
      BY <1>1 DEF SwtmrInv, LeftOK
    <2>2. y \in Due
      BY <2>1 DEF Due
    <2>3. Cardinality(Due) \in Nat /\ Cardinality(Due) # 0
      <3>1. IsFiniteSet(Due)
        BY DueIsFinite
      <3>2. Cardinality(Due) # 0
        BY <2>2, <3>1, FS_EmptySet
      <3> QED BY <3>1, <3>2, FS_CardinalityType
    <2>4. queued + Cardinality(Due) <= backlog + LIMIT
      BY <1>1 DEF SwtmrInv, BacklogOK
    <2>5. backlog \in Nat /\ LIMIT \in Nat /\ queued = LIMIT
      BY <1>1, SomeBlocks DEF SwtmrInv, SwtmrTypeOK, QUEUE_SIZE
    <2> QED BY <2>3, <2>4, <2>5
  <1>2. SwtmrInv => LostOnlyBehindBacklog
    BY <1>1 DEF LostOnlyBehindBacklog
  <1> QED BY <1>2, SwtmrInvariant, PTL

(***************************************************************************)
(* The list of differences implements SoftTimers: a timer expires after its*)
(* interval, the first time at most that if it is aligned, whatever other  *)
(* timers are started, stopped, deleted and aligned with it; for any number*)
(* of timers and any intervals (osSwTmrStart, osSwtmrStop, osSwtmrScan,    *)
(* osSwTmrTimeoutHandle).                                                  *)
(***************************************************************************)
THEOREM SoftTimersAreKept == SwtmrSpec => ImplementsSoftTimers
  <1> DEFINE L == [i \in Timers |-> Left(i)]
  <1>1. SwtmrInit => Soft!SoftInit
    <2> SUFFICES ASSUME SwtmrInit PROVE L = [i \in Timers |-> -1] /\ kind \in [Timers -> Created]
      BY DEF Soft!SoftInit, Soft!Off
    <2>1. SwtmrInv
      BY SwtmrStart
    <2>2. \A i : Left(i) = -1
      BY DEF SwtmrInit, Running, Contains, Left
    <2> QED BY <2>1, <2>2 DEF SwtmrInv, SwtmrTypeOK
  <1>2. SwtmrInv /\ [SwtmrNext]_swtmrVars => [Soft!SoftNext]_<<L, kind>>
    BY SwtmrStep
  <1> QED BY <1>1, <1>2, SwtmrInvariant, PTL DEF SwtmrSpec, ImplementsSoftTimers, Soft!SoftSpec

-----------------------------------------------------------------------------
(***************************************************************************)
(* Divisibility, which is easier to reason about than remainders.          *)
(***************************************************************************)
Divides(m, a) == \E q \in Int : a = m * q

LEMMA DividesIsRemainder ==
    ASSUME NEW m \in Nat \ {0}, NEW a \in Int
    PROVE  Divides(m, a) <=> a % m = 0
  <1>1. ASSUME NEW q \in Int, a = m * q PROVE a % m = 0
    <2>1. (m * q + 0) % m = 0
      BY Remainder
    <2>2. m * q + 0 = m * q
      OBVIOUS
    <2> QED BY <1>1, <2>1, <2>2
  <1>2. ASSUME a % m = 0 PROVE Divides(m, a)
    <2>1. a \div m \in Int /\ a = m * (a \div m) + (a % m)
      BY DivisionBy
    <2>2. m * (a \div m) \in Int
      BY <2>1
    <2>3. a = m * (a \div m)
      BY <1>2, <2>1, <2>2
    <2> QED BY <2>1, <2>3 DEF Divides
  <1> QED BY <1>1, <1>2 DEF Divides

LEMMA DividesItself ==
    ASSUME NEW m \in Int
    PROVE  Divides(m, m) /\ Divides(m, 0)
  <1>1. m = m * 1 /\ 0 = m * 0
    OBVIOUS
  <1> QED BY <1>1 DEF Divides

LEMMA DividesSum ==
    ASSUME NEW m \in Int, NEW a \in Int, NEW b \in Int, Divides(m, a), Divides(m, b)
    PROVE  Divides(m, a + b) /\ Divides(m, a - b)
  <1>1. PICK p \in Int : a = m * p
    BY DEF Divides
  <1>2. PICK q \in Int : b = m * q
    BY DEF Divides
  <1>3. m * (p + q) = m * p + m * q /\ m * (p - q) = m * p - m * q
    OBVIOUS
  <1>4. p + q \in Int /\ p - q \in Int
    OBVIOUS
  <1>5. a + b = m * (p + q) /\ a - b = m * (p - q)
    BY <1>1, <1>2, <1>3
  <1> QED BY <1>4, <1>5 DEF Divides

LEMMA DividesChain ==
    ASSUME NEW m \in Int, NEW n \in Int, NEW a \in Int, Divides(m, n), Divides(n, a)
    PROVE  Divides(m, a)
  <1>1. PICK p \in Int : n = m * p
    BY DEF Divides
  <1>2. PICK q \in Int : a = n * q
    BY DEF Divides
  <1>3. (m * p) * q = m * (p * q) /\ p * q \in Int
    OBVIOUS
  <1> QED BY <1>1, <1>2, <1>3 DEF Divides

LEMMA DividesIsLess ==
    ASSUME NEW m \in Nat \ {0}, NEW a \in Nat \ {0}, Divides(m, a)
    PROVE  m <= a
  <1>1. PICK q \in Int : a = m * q
    BY DEF Divides
  <1>2. q >= 1
    <2>1. ASSUME q <= 0 PROVE FALSE
      <3>1. m * q <= m * 0
        BY <2>1
      <3> QED BY <1>1, <3>1
    <2> QED BY <1>1, <2>1
  <1>3. m * q >= m * 1
    BY <1>2
  <1> QED BY <1>1, <1>3

(***************************************************************************)
(* The words hold intervals in units of the common divisor.                *)
(***************************************************************************)
LEMMA DividesInUnits ==
    ASSUME NEW t \in Nat \ {0}, NEW u \in Nat
    PROVE  /\ Divides(t * DIVISOR, u * DIVISOR) <=> u % t = 0
           /\ t <= u <=> t * DIVISOR <= u * DIVISOR
           /\ Divides(DIVISOR, u * DIVISOR)
  <1> DEFINE D == DIVISOR
  <1>0. D \in Nat \ {0}
    BY SomeBlocks
  <1> HIDE DEF D
  <1>1. ASSUME NEW q \in Int, u = t * q PROVE u * D = (t * D) * q
    <2>1. (t * q) * D = (t * D) * q
      BY <1>0
    <2> QED BY <1>1, <2>1
  <1>2. ASSUME NEW q \in Int, u * D = (t * D) * q PROVE u = t * q
    <2> DEFINE v == t * q
    <2>1. v \in Int /\ v * D = (t * D) * q
      BY <1>0
    <2> HIDE DEF v
    <2>2. u * D = v * D
      BY <1>2, <2>1
    <2>3. ASSUME u < v PROVE FALSE
      <3>1. (u + 1) * D <= v * D
        BY <1>0, <2>1, <2>3
      <3>2. (u + 1) * D = u * D + D /\ u * D \in Int
        BY <1>0
      <3> QED BY <1>0, <2>2, <3>1, <3>2
    <2>4. ASSUME u > v PROVE FALSE
      <3>1. u * D >= (v + 1) * D
        BY <1>0, <2>1, <2>4
      <3>2. (v + 1) * D = v * D + D /\ v * D \in Int
        BY <1>0, <2>1
      <3> QED BY <1>0, <2>2, <3>1, <3>2
    <2>5. u = v
      BY <2>1, <2>3, <2>4
    <2> QED BY <2>5 DEF v
  <1>3. Divides(t * D, u * D) <=> Divides(t, u)
    BY <1>1, <1>2 DEF Divides
  <1>4. Divides(t, u) <=> u % t = 0
    BY DividesIsRemainder
  <1>5. t <= u => t * D <= u * D
    BY <1>0
  <1>6. ASSUME u < t PROVE u * D < t * D
    <2>1. (u + 1) * D <= t * D
      BY <1>0, <1>6
    <2>2. (u + 1) * D = u * D + D /\ u * D \in Int /\ t * D \in Int
      BY <1>0
    <2> QED BY <1>0, <2>1, <2>2
  <1>7. u * D \in Int /\ t * D \in Int
    BY <1>0
  <1>8. Divides(D, u * D)
    <2>1. u * D = D * u
      BY <1>0
    <2> QED BY <2>1 DEF Divides
  <1> QED BY <1>3, <1>4, <1>5, <1>6, <1>7, <1>8 DEF D

(***************************************************************************)
(* Timers of intervals s and t with m and n ticks left are in phase: the   *)
(* slower of the two expires at ticks at which the faster does.            *)
(***************************************************************************)
Agree(s, t, m, n) ==
    /\ Divides(s, t) => Divides(s, n - m)
    /\ Divides(t, s) => Divides(t, m - n)

PhasedWith(t, n, y) == Agree(t, kind[y].interval, n, Left(y))

(***************************************************************************)
(* All timers that alignment keeps in phase are in phase with each other.  *)
(***************************************************************************)
PhaseOK ==
    \A i \in Timers : \A j \in Timers \ {i} :
        Phased(i) /\ Phased(j) => PhasedWith(kind[i].interval, Left(i), j)

(***************************************************************************)
(* An interval that alignment looks at; and that two of them nest.         *)
(***************************************************************************)
Alignable(k) == k \in Created /\ k.mode = "PERIOD" /\ ~k.sensitive /\ k.interval % DIVISOR = 0

LEMMA AlignableNest ==
    ASSUME IntervalsNest, NEW a, NEW b, Alignable(a), Alignable(b)
    PROVE  Divides(a.interval, b.interval) \/ Divides(b.interval, a.interval)
  <1>1. a.interval \in Nat \ {0} /\ b.interval \in Nat \ {0}
    BY SomeBlocks DEF Alignable
  <1>2. a.interval % b.interval = 0 \/ b.interval % a.interval = 0
    BY DEF IntervalsNest, Alignable
  <1> QED BY <1>1, <1>2, DividesIsRemainder

LEMMA WordIsAlignable ==
    ASSUME NEW k \in Created, NEW t \in Nat, k.interval = t * DIVISOR, k.mode = "PERIOD", ~k.sensitive
    PROVE  t # 0 /\ Alignable(k)
  <1>1. DIVISOR \in Nat \ {0} /\ k.interval \in Nat \ {0}
    BY SomeBlocks
  <1>2. t # 0
    BY <1>1
  <1>3. k.interval % DIVISOR = 0
    <2>1. Divides(DIVISOR, k.interval)
      BY <1>2, DividesInUnits
    <2> QED BY <1>1, <2>1, DividesIsRemainder
  <1> QED BY <1>2, <1>3 DEF Alignable

LEMMA PhasedFacts ==
    ASSUME SwtmrInv, NEW y \in Timers, Phased(y)
    PROVE  /\ Left(y) \in Nat /\ Running(y)
           /\ align[y].times \in Nat \ {0} /\ kind[y].interval = align[y].times * DIVISOR
           /\ kind[y].interval \in Nat \ {0} /\ Alignable(kind[y])
  <1>1. SwtmrTypeOK /\ WordsOK
    BY DEF SwtmrInv
  <1>2. /\ Running(y) /\ kind[y].interval = align[y].times * DIVISOR
        /\ kind[y].mode = "PERIOD" /\ ~kind[y].sensitive
    BY <1>1 DEF WordsOK, WordsTell, Phased, AlreadyAligned
  <1>3. Left(y) \in Nat
    BY <1>2, NowIsGood
  <1>4. align[y].times \in Nat /\ kind[y] \in Created
    BY <1>1 DEF SwtmrTypeOK
  <1>5. align[y].times # 0 /\ Alignable(kind[y])
    BY <1>2, <1>4, WordIsAlignable
  <1> QED BY <1>2, <1>3, <1>4, <1>5, SomeBlocks

(***************************************************************************)
(* A timer of interval s starts: in the phase of a slower one, of interval *)
(* c; or with a faster one, the slowest there is.  y is any other, related *)
(* to that one by nesting and in phase with it.                            *)
(***************************************************************************)
LEMMA SlowerPhase ==
    ASSUME NEW s \in Nat \ {0}, NEW c \in Nat \ {0}, NEW a \in Nat, Divides(s, c),
           NEW n, n = s - ((c - a) % s)
    PROVE  n \in Int /\ Divides(s, n - a)
  <1> DEFINE x == c - a
             q == x \div s
             r == x % s
  <1>1. x \in Int
    OBVIOUS
  <1>2. n = s - r
    OBVIOUS
  <1>3. q \in Int /\ r \in 0 .. s - 1 /\ x = s * q + r
    <2> HIDE DEF x
    <2> QED BY <1>1, DivisionBy
  <1>4. c - a = x
    OBVIOUS
  <1> HIDE DEF x, q, r
  <1>5. s * q \in Int
    BY <1>3
  <1>6. n \in Int /\ n - a = (s + s * q) - c
    BY <1>1, <1>2, <1>3, <1>4, <1>5
  <1>7. Divides(s, s * q)
    BY <1>3 DEF Divides
  <1>8. Divides(s, s)
    BY DividesItself
  <1> DEFINE p == s * q
  <1> HIDE DEF p
  <1>9. p \in Int /\ Divides(s, p)
    BY <1>5, <1>7 DEF p
  <1>10. s + p \in Int /\ Divides(s, s + p)
    BY <1>8, <1>9, DividesSum
  <1>11. Divides(s, (s + p) - c)
    BY <1>10, DividesSum
  <1> QED BY <1>6, <1>11 DEF p

NestAndAgree(s, t, m, n) == (Divides(s, t) \/ Divides(t, s)) /\ Agree(s, t, m, n)

StartsBeside(s, c, n, a) == Divides(s, c) /\ Divides(s, n - a)

LEMMA BesideSlower ==
    ASSUME NEW s \in Nat \ {0}, NEW c \in Nat \ {0}, NEW t \in Nat \ {0}, NEW n \in Int, NEW a \in Nat, NEW b \in Nat,
           StartsBeside(s, c, n, a), NestAndAgree(c, t, a, b)
    PROVE  Agree(s, t, n, b)
  <1> USE DEF StartsBeside, NestAndAgree, Agree
  <1>0. a - n \in Int /\ n - a \in Int /\ b - a \in Int /\ a - b \in Int /\ 0 \in Int
    OBVIOUS
  <1>1. ASSUME Divides(s, t) PROVE Divides(s, b - n)
    <2>1. Divides(s, b - a)
      <3>1. CASE Divides(c, t)
        BY <1>0, <3>1, DividesChain
      <3>2. CASE Divides(t, c)
        <4>1. Divides(s, a - b)
          BY <1>0, <1>1, <3>2, DividesChain
        <4>2. Divides(s, 0 - (a - b))
          BY <1>0, <4>1, DividesItself, DividesSum
        <4>3. 0 - (a - b) = b - a
          OBVIOUS
        <4> QED BY <4>2, <4>3
      <3> QED BY <3>1, <3>2
    <2>2. Divides(s, (b - a) - (n - a))
      BY <1>0, <2>1, DividesSum
    <2>3. (b - a) - (n - a) = b - n
      OBVIOUS
    <2> QED BY <2>2, <2>3
  <1>2. ASSUME Divides(t, s) PROVE Divides(t, n - b)
    <2>1. Divides(t, c)
      BY <1>2, DividesChain
    <2>2. Divides(t, a - b)
      BY <2>1
    <2>3. Divides(t, n - a)
      BY <1>0, <1>2, DividesChain
    <2>4. Divides(t, (n - a) + (a - b))
      BY <1>0, <2>2, <2>3, DividesSum
    <2>5. (n - a) + (a - b) = n - b
      OBVIOUS
    <2> QED BY <2>4, <2>5
  <1> QED BY <1>1, <1>2

LEMMA WithFaster ==
    ASSUME NEW c \in Nat \ {0}, NEW t \in Nat \ {0}, NEW d, t <= c,
           Divides(c, t) \/ Divides(t, c), Divides(t, c) => Divides(t, d)
    PROVE  Divides(t, d)
  <1>1. CASE Divides(c, t)
    <2>1. t = c
      BY <1>1, DividesIsLess
    <2> QED BY <2>1, DividesItself
  <1>2. CASE Divides(t, c)
    BY <1>2
  <1> QED BY <1>1, <1>2

(***************************************************************************)
(* A step that changes one timer keeps the others in phase, so only that   *)
(* timer's own phase has to be looked at.                                  *)
(***************************************************************************)
LEMMA OthersInPhase ==
    ASSUME PhaseOK, NEW i \in Timers, OthersStay(i),
           Phased(i)' => \A y \in Timers \ {i} : Phased(y) => PhasedWith(kind'[i].interval, Left(i)', y)
    PROVE  PhaseOK'
  <1> SUFFICES ASSUME NEW a \in Timers, NEW b \in Timers \ {a}, Phased(a)', Phased(b)'
               PROVE  /\ Divides(kind'[a].interval, kind'[b].interval) =>
                             Divides(kind'[a].interval, Left(b)' - Left(a)')
                      /\ Divides(kind'[b].interval, kind'[a].interval) =>
                             Divides(kind'[b].interval, Left(a)' - Left(b)')
    BY DEF PhaseOK, PhasedWith, Agree
  <1>1. \A y \in Timers \ {i} : (Phased(y)' <=> Phased(y)) /\ kind'[y] = kind[y] /\ Left(y)' = Left(y)
    BY DEF OthersStay, Phased, AlreadyAligned
  <1>2. CASE a = i
    <2>1. PhasedWith(kind'[i].interval, Left(i)', b)
      BY <1>1, <1>2
    <2> QED BY <1>1, <1>2, <2>1 DEF PhasedWith, Agree
  <1>3. CASE b = i
    <2>1. PhasedWith(kind'[i].interval, Left(i)', a)
      BY <1>1, <1>3
    <2> QED BY <1>1, <1>3, <2>1 DEF PhasedWith, Agree
  <1>4. CASE a # i /\ b # i
    <2>1. PhasedWith(kind[a].interval, Left(a), b)
      BY <1>1, <1>4 DEF PhaseOK
    <2> QED BY <1>1, <1>4, <2>1 DEF PhasedWith, Agree
  <1> QED BY <1>2, <1>3, <1>4

(***************************************************************************)
(* A timer that expires goes round by one interval of its own.             *)
(***************************************************************************)
LEMMA ExpiresPhase ==
    ASSUME SwtmrInv, PhaseOK, NEW i \in Timers, ExpiresInPhase(i)
    PROVE  PhaseOK'
  <1>1. /\ OthersStay(i) /\ kind'[i] = kind[i] /\ Left(i) = 0
        /\ Phased(i)' => Phased(i) /\ Left(i)' = kind[i].interval
    BY DEF ExpiresInPhase
  <1>2. ASSUME Phased(i)', NEW y \in Timers \ {i}, Phased(y)
        PROVE  PhasedWith(kind[i].interval, kind[i].interval, y)
    <2> DEFINE s == kind[i].interval
               t == kind[y].interval
               b == Left(y)
    <2>1. Phased(i) /\ PhasedWith(s, 0, y)
      <3>1. PhasedWith(kind[i].interval, Left(i), y)
        BY <1>1, <1>2 DEF PhaseOK
      <3> QED BY <1>1, <1>2, <3>1
    <2>2. s \in Nat \ {0} /\ t \in Nat \ {0} /\ b \in Nat
      BY <1>2, <2>1, PhasedFacts
    <2>3. (Divides(s, t) => Divides(s, b - 0)) /\ (Divides(t, s) => Divides(t, 0 - b))
      BY <2>1 DEF PhasedWith, Agree
    <2> HIDE DEF s, t, b
    <2>4. Divides(s, s)
      BY <2>2, DividesItself
    <2>5. ASSUME Divides(s, t) PROVE Divides(s, b - s)
      <3>1. Divides(s, b)
        <4>1. b - 0 = b
          BY <2>2
        <4> QED BY <2>3, <2>5, <4>1
      <3> QED BY <2>2, <2>4, <3>1, DividesSum
    <2>6. ASSUME Divides(t, s) PROVE Divides(t, s - b)
      <3>1. Divides(t, 0 - b) /\ 0 - b \in Int
        BY <2>2, <2>3, <2>6
      <3>2. Divides(t, s + (0 - b))
        BY <2>2, <2>6, <3>1, DividesSum
      <3>3. s + (0 - b) = s - b
        BY <2>2
      <3> QED BY <3>2, <3>3
    <2> QED BY <2>5, <2>6 DEF PhasedWith, Agree, s, t, b
  <1> QED BY <1>1, <1>2, OthersInPhase

(***************************************************************************)
(* A timer that starts comes into phase with all it can be in phase with.  *)
(***************************************************************************)
LEMMA StartsPhase ==
    ASSUME SwtmrInv, IntervalsNest, PhaseOK, NEW i \in Timers, StartsInPhase(i)
    PROVE  PhaseOK'
  <1>1. PICK l, al : /\ LosesTimer(Now, l, i) /\ NewWord(i, al) /\ align' = Started(al, i)
                     /\ InPhaseWith(l, al, i, Left(i)')
                     /\ kind' = kind /\ OthersStay(i)
    BY DEF StartsInPhase
  <1> DEFINE T(y) == kind[y].interval
             slower == SlowerThan(al, i)
             faster == FasterThan(al, i)
             n == Left(i)'
  <1> SUFFICES ASSUME Phased(i)', NEW y \in Timers \ {i}, Phased(y)
               PROVE  PhasedWith(T(i), n, y)
    BY <1>1, OthersInPhase
  <1>2. /\ al \in [Timers -> Words] /\ \A j \in Timers \ {i} : al[j] = align[j]
        /\ ~al[i].already
        /\ al[i].can => kind[i].mode = "PERIOD" /\ ~kind[i].sensitive
        /\ al[i].multiple => T(i) = al[i].times * DIVISOR
    BY <1>1 DEF NewWord
  <1>3. CanAlign(al, i) /\ al[i].multiple
    <2>1. align'[i].already /\ align'[i].can /\ align'[i].multiple
      BY DEF Phased, AlreadyAligned
    <2>2. CASE CanAlign(al, i)
      <3>1. align'[i].multiple = al[i].multiple
        BY <1>1, <1>2, <2>2 DEF Started, Words
      <3> QED BY <2>1, <2>2, <3>1
    <2>3. CASE ~CanAlign(al, i)
      <3>1. align' = al
        BY <1>1, <2>3 DEF Started
      <3> QED BY <1>2, <2>1, <3>1
    <2> QED BY <2>2, <2>3
  <1>4. kind \in [Timers -> Created]
    BY DEF SwtmrInv, SwtmrTypeOK
  <1>5. /\ al[i].times \in Nat \ {0} /\ T(i) = al[i].times * DIVISOR
        /\ T(i) \in Nat \ {0} /\ Alignable(kind[i])
    <2>1. kind[i] \in Created /\ al[i].times \in Nat
      BY <1>2, <1>4 DEF Words
    <2>2. T(i) = al[i].times * DIVISOR /\ kind[i].mode = "PERIOD" /\ ~kind[i].sensitive
      BY <1>2, <1>3 DEF CanAlign
    <2>3. al[i].times # 0 /\ Alignable(kind[i])
      BY <2>1, <2>2, WordIsAlignable
    <2> QED BY <2>1, <2>2, <2>3, SomeBlocks
  <1>6. ASSUME NEW j \in Timers \ {i}, Phased(j)
        PROVE  /\ AlreadyAligned(al, j) /\ al[j].times \in Nat \ {0} /\ T(j) = al[j].times * DIVISOR
               /\ T(j) \in Nat \ {0} /\ Alignable(kind[j])
               /\ Left(j) \in Nat /\ LeftIn(l, j) = Left(j)
               /\ Divides(T(i), T(j)) <=> al[j].times % al[i].times = 0
               /\ Divides(T(j), T(i)) <=> al[i].times % al[j].times = 0
    <2>1. /\ Left(j) \in Nat
          /\ align[j].times \in Nat \ {0} /\ T(j) = align[j].times * DIVISOR
          /\ T(j) \in Nat \ {0} /\ Alignable(kind[j])
      BY <1>6, PhasedFacts
    <2>2. al[j] = align[j]
      BY <1>2
    <2>3. LeftIn(l, j) = Left(j)
      <3>1. LeftIn(l, j) = LeftIn(Now, j)
        BY <1>1 DEF LosesTimer
      <3> QED BY <3>1, NowIsGood
    <2>4. Divides(T(i), T(j)) <=> al[j].times % al[i].times = 0
      <3>1. Divides(al[i].times * DIVISOR, al[j].times * DIVISOR) <=> al[j].times % al[i].times = 0
        BY <1>5, <2>1, <2>2, DividesInUnits
      <3> QED BY <1>5, <2>1, <2>2, <3>1
    <2>5. Divides(T(j), T(i)) <=> al[i].times % al[j].times = 0
      <3>1. Divides(al[j].times * DIVISOR, al[i].times * DIVISOR) <=> al[i].times % al[j].times = 0
        BY <1>5, <2>1, <2>2, DividesInUnits
      <3> QED BY <1>5, <2>1, <2>2, <3>1
    <2>6. AlreadyAligned(al, j)
      BY <1>6, <2>2 DEF Phased, AlreadyAligned
    <2> QED BY <2>1, <2>2, <2>3, <2>4, <2>5, <2>6
  <1>7. \A j \in Timers \ {i} : AlreadyAligned(al, j) /\ al[j].times # 0 => Phased(j)
    BY <1>2 DEF SwtmrInv, WordsOK, WordsTell, Phased, AlreadyAligned
  <1>8. ASSUME Divides(T(i), T(y)) PROVE y \in slower
    BY <1>6, <1>8 DEF SlowerThan
  <1>9. ASSUME Divides(T(y), T(i)) PROVE y \in slower \/ y \in faster
    <2>1. /\ al[y].times \in Nat \ {0} /\ al[i].times \in Nat \ {0}
          /\ al[i].times % al[y].times = 0 /\ AlreadyAligned(al, y)
          /\ T(y) = al[y].times * DIVISOR /\ T(i) = al[i].times * DIVISOR
          /\ T(i) \in Nat \ {0} /\ T(y) \in Nat \ {0}
      BY <1>5, <1>6, <1>9
    <2>2. CASE al[y].times < al[i].times
      BY <2>1, <2>2 DEF FasterThan
    <2>3. CASE al[i].times <= al[y].times
      <3>1. T(i) <= T(y)
        <4>1. al[i].times * DIVISOR <= al[y].times * DIVISOR
          BY <2>1, <2>3, DividesInUnits
        <4> QED BY <2>1, <4>1
      <3>2. T(y) <= T(i)
        BY <1>9, <2>1, DividesIsLess
      <3>3. T(y) = T(i)
        BY <2>1, <3>1, <3>2
      <3>4. Divides(T(i), T(y))
        BY <2>1, <3>3, DividesItself
      <3> QED BY <1>8, <3>4
    <2> QED BY <2>1, <2>2, <2>3
  <1>10. ASSUME NEW c \in Timers \ {i}, Phased(c)
         PROVE  NestAndAgree(T(c), T(y), Left(c), Left(y))
    <2> USE DEF NestAndAgree, Agree
    <2>1. Alignable(kind[c]) /\ Alignable(kind[y]) /\ Left(c) \in Nat /\ T(c) \in Nat
      BY <1>6, <1>10
    <2>2. Divides(T(c), T(y)) \/ Divides(T(y), T(c))
      BY <2>1, AlignableNest
    <2>3. CASE c = y
      <3>1. Left(c) - Left(y) = 0 /\ Left(y) - Left(c) = 0
        BY <2>1, <2>3
      <3>2. Divides(T(c), 0)
        BY <2>1, DividesItself
      <3> QED BY <2>2, <2>3, <3>1, <3>2
    <2>4. CASE c # y
      <3>1. PhasedWith(T(c), Left(c), y)
        BY <1>10, <2>4 DEF PhaseOK
      <3> QED BY <2>2, <3>1 DEF PhasedWith, Agree
    <2> QED BY <2>3, <2>4
  <1>11. CASE slower # {}
    <2> DEFINE c == LeastMultiple(al, slower)
    <2>1. c \in slower
      <3>1. slower \in SUBSET Timers
        BY DEF SlowerThan
      <3> HIDE DEF slower
      <3> QED BY <1>2, <1>11, <3>1, LeastMultipleFacts
    <2>2. c \in Timers \ {i} /\ Phased(c) /\ Divides(T(i), T(c))
      <3>1. c \in Timers \ {i} /\ AlreadyAligned(al, c) /\ al[c].times # 0 /\ al[c].times % al[i].times = 0
        BY <2>1 DEF SlowerThan
      <3>2. Phased(c)
        BY <1>7, <3>1
      <3> QED BY <1>6, <3>1, <3>2
    <2>3. n = T(i) - ((T(c) - LeftIn(l, c)) % T(i))
      BY <1>1, <1>3, <1>11 DEF InPhaseWith
    <2> HIDE DEF c, n
    <2>4. T(c) \in Nat \ {0} /\ Left(c) \in Nat /\ LeftIn(l, c) = Left(c)
      BY <1>6, <2>2
    <2>5. n = T(i) - ((T(c) - Left(c)) % T(i))
      BY <2>3, <2>4
    <2>6. n \in Int /\ Divides(T(i), n - Left(c))
      <3> HIDE DEF T
      <3> QED BY <1>5, <2>2, <2>4, <2>5, SlowerPhase DEF T
    <2>7. T(y) \in Nat \ {0} /\ Left(y) \in Nat
      BY <1>6
    <2>8. NestAndAgree(T(c), T(y), Left(c), Left(y))
      BY <1>10, <2>2
    <2> HIDE DEF T
    <2>9. n \in Int /\ StartsBeside(T(i), T(c), n, Left(c))
      BY <2>2, <2>6 DEF StartsBeside
    <2>10. Agree(T(i), T(y), n, Left(y))
      BY <1>5, <2>4, <2>7, <2>8, <2>9, BesideSlower
    <2> QED BY <2>10 DEF PhasedWith, T, n
  <1>12. CASE slower = {} /\ faster # {}
    <2> DEFINE c == GreatestFraction(al, faster)
    <2>1. c \in faster /\ \A h \in faster : al[h].times <= al[c].times
      <3>1. faster \in SUBSET Timers /\ \A h \in faster : al[h].times < al[i].times
        BY DEF FasterThan
      <3>2. al[i].times \in Nat
        BY <1>5
      <3> HIDE DEF faster
      <3> QED BY <1>2, <1>12, <3>1, <3>2, GreatestFractionFacts
    <2>2. c \in Timers \ {i} /\ Phased(c)
      <3>1. c \in Timers \ {i} /\ AlreadyAligned(al, c) /\ al[c].times # 0
        BY <2>1 DEF FasterThan
      <3> QED BY <1>7, <3>1
    <2>3. n = LeftIn(l, c)
      BY <1>1, <1>3, <1>12 DEF InPhaseWith
    <2> HIDE DEF c, n
    <2>4. n = Left(c) /\ Left(c) \in Nat /\ T(c) \in Nat \ {0} /\ T(y) \in Nat \ {0}
      BY <1>6, <2>2, <2>3
    <2>5. ~Divides(T(i), T(y))
      BY <1>8, <1>12
    <2>6. ASSUME Divides(T(y), T(i)) PROVE Divides(T(y), n - Left(y))
      <3>1. y \in faster
        BY <1>9, <1>12, <2>6
      <3>2. T(y) <= T(c)
        <4>1. al[y].times <= al[c].times
          BY <2>1, <3>1
        <4>2. /\ al[y].times \in Nat \ {0} /\ al[c].times \in Nat
              /\ T(y) = al[y].times * DIVISOR /\ T(c) = al[c].times * DIVISOR
          BY <1>6, <2>2
        <4>3. al[y].times * DIVISOR <= al[c].times * DIVISOR
          BY <4>1, <4>2, DividesInUnits
        <4> QED BY <4>2, <4>3
      <3>3. /\ Divides(T(c), T(y)) \/ Divides(T(y), T(c))
            /\ Divides(T(y), T(c)) => Divides(T(y), Left(c) - Left(y))
        BY <1>10, <2>2 DEF NestAndAgree, Agree
      <3>4. Divides(T(y), Left(c) - Left(y))
        BY <2>4, <3>2, <3>3, WithFaster
      <3> QED BY <2>4, <3>4
    <2> QED BY <2>5, <2>6 DEF PhasedWith, Agree
  <1>13. CASE slower = {} /\ faster = {}
    BY <1>8, <1>9, <1>13 DEF PhasedWith, Agree
  <1> QED BY <1>11, <1>12, <1>13

(***************************************************************************)
(* Every step keeps the timers in phase: a tick brings all of them nearer  *)
(* by one, a call changes one timer.                                       *)
(***************************************************************************)
LEMMA PhaseStep ==
    ASSUME SwtmrInv, IntervalsNest, PhaseOK, [SwtmrNext]_swtmrVars
    PROVE  PhaseOK'
  <1>1. ASSUME NEW i \in Timers, LeavesPhase(i) PROVE PhaseOK'
    BY <1>1, OthersInPhase DEF LeavesPhase
  <1>2. ASSUME NEW k \in Created, LOS_SwtmrCreate(k) PROVE PhaseOK'
    BY <1>1, <1>2, CreateStep
  <1>3. ASSUME NEW x, LOS_SwtmrStart(x) PROVE PhaseOK'
    <2>1. PICK i \in Timers : StartsInPhase(i)
      BY <1>3, StartStep
    <2> QED BY <2>1, StartsPhase
  <1>4. ASSUME NEW x, LOS_SwtmrStop(x) PROVE PhaseOK'
    BY <1>1, <1>4, StopStep
  <1>5. ASSUME NEW x, LOS_SwtmrDelete(x) PROVE PhaseOK'
    BY <1>1, <1>5, DeleteStep
  <1>6. ASSUME osSwTmrTimeoutHandle PROVE PhaseOK'
    <2>1. PICK i \in Timers : ExpiresInPhase(i)
      BY <1>6, ExpireStep
    <2> QED BY <2>1, ExpiresPhase
  <1>7. ASSUME NEW d \in {0, 1}, kind' = kind, align' = align,
               \A y : Running(y) => Left(y)' = Left(y) - d
        PROVE  PhaseOK'
    <2> SUFFICES ASSUME NEW a \in Timers, NEW b \in Timers \ {a}, Phased(a)', Phased(b)'
                 PROVE  /\ Divides(kind[a].interval, kind[b].interval) =>
                               Divides(kind[a].interval, Left(b)' - Left(a)')
                        /\ Divides(kind[b].interval, kind[a].interval) =>
                               Divides(kind[b].interval, Left(a)' - Left(b)')
      BY <1>7 DEF PhaseOK, PhasedWith, Agree
    <2>1. Phased(a) /\ Phased(b)
      BY <1>7 DEF Phased, AlreadyAligned
    <2>2. Left(a)' = Left(a) - d /\ Left(b)' = Left(b) - d /\ Left(a) \in Nat /\ Left(b) \in Nat
      BY <1>7, <2>1, PhasedFacts
    <2>3. Left(b)' - Left(a)' = Left(b) - Left(a) /\ Left(a)' - Left(b)' = Left(a) - Left(b)
      BY <2>2
    <2>4. PhasedWith(kind[a].interval, Left(a), b)
      BY <2>1 DEF PhaseOK
    <2> QED BY <2>3, <2>4 DEF PhasedWith, Agree
  <1>8. ASSUME osSwtmrScan PROVE PhaseOK'
    BY <1>7, <1>8, TickStep
  <1>9. ASSUME osSwTmrTask \/ UNCHANGED swtmrVars PROVE PhaseOK'
    <2>1. kind' = kind /\ align' = align /\ \A y : Left(y)' = Left(y)
      BY <1>9, TimerTaskStep
    <2>2. \A y : Running(y) => Left(y)' = Left(y) - 0
      <3>1. \A y : Running(y) => Left(y) \in Nat
        BY NowIsGood
      <3> QED BY <2>1, <3>1
    <2> QED BY <1>7, <2>1, <2>2
  <1> QED BY <1>2, <1>3, <1>4, <1>5, <1>6, <1>8, <1>9 DEF SwtmrNext, SwtmrCall

LEMMA PhaseMeansAligned ==
    ASSUME SwtmrInv, PhaseOK
    PROVE  AlignedInPhase
  <1> SUFFICES ASSUME NEW i \in Timers, NEW j \in Timers, Phased(i), Phased(j),
                      align[j].times % align[i].times = 0
               PROVE  (Left(j) - Left(i)) % kind[i].interval = 0
    <2>1. \A y : Running(y) => Left(y) = osSwtmrTimeGet(y)
      BY DEF Left
    <2> QED BY <2>1 DEF AlignedInPhase, Phased
  <1>1. /\ Left(i) \in Nat /\ Left(j) \in Nat /\ kind[i].interval \in Nat \ {0}
        /\ align[i].times \in Nat \ {0} /\ kind[i].interval = align[i].times * DIVISOR
        /\ align[j].times \in Nat \ {0} /\ kind[j].interval = align[j].times * DIVISOR
    BY PhasedFacts
  <1>2. Divides(kind[i].interval, Left(j) - Left(i))
    <2>1. CASE i = j
      <3>1. Left(j) - Left(i) = 0
        BY <1>1, <2>1
      <3> QED BY <1>1, <3>1, DividesItself
    <2>2. CASE i # j
      <3>1. Divides(align[i].times * DIVISOR, align[j].times * DIVISOR)
        BY <1>1, DividesInUnits
      <3>2. Divides(kind[i].interval, kind[j].interval)
        BY <1>1, <3>1
      <3> QED BY <2>2, <3>2 DEF PhaseOK, PhasedWith, Agree
    <2> QED BY <2>1, <2>2
  <1>3. Left(j) - Left(i) \in Int
    BY <1>1
  <1> QED BY <1>1, <1>2, <1>3, DividesIsRemainder

(***************************************************************************)
(* Alignment keeps its word for any number of timers and any intervals that*)
(* nest: an aligned timer stays in phase with every other whose interval   *)
(* is a multiple or a fraction of its own, through starts, stops, restarts *)
(* and deletions of any of them (osSwTmrStart, osSwTmrTimeoutHandle).      *)
(***************************************************************************)
THEOREM AlignmentKeepsPhase == SwtmrSpec => []AlignedInPhase
  <1>1. SwtmrInit => PhaseOK
    BY DEF SwtmrInit, PhaseOK, Phased, AlreadyAligned, NotAligned
  <1>2. CASE IntervalsNest
    <2>1. SwtmrInv /\ PhaseOK /\ [SwtmrNext]_swtmrVars => PhaseOK'
      BY <1>2, PhaseStep
    <2>2. SwtmrInv /\ PhaseOK => AlignedInPhase
      BY PhaseMeansAligned
    <2> QED BY <1>1, <2>1, <2>2, SwtmrInvariant, PTL DEF SwtmrSpec
  <1>3. CASE ~IntervalsNest
    <2>1. SwtmrInv => AlignedInPhase
      BY <1>3 DEF AlignedInPhase
    <2> QED BY <2>1, SwtmrInvariant, PTL
  <1> QED BY <1>2, <1>3

=============================================================================
