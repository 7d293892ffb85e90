-------------------------- MODULE LosListTheorems --------------------------
(***************************************************************************)
(* Facts about the operators of LosList that the proofs about the scheduler*)
(* cite: what each returns, which nodes it links and unlinks, and that each*)
(* keeps every node in at most one place.                                  *)
(***************************************************************************)
EXTENDS LosList, WellFoundedInduction, FiniteSetTheorems, TLAPS

NoRepeat(s) == \A i, j \in 1..Len(s) : s[i] = s[j] => i = j

(***************************************************************************)
(* Induction in the form the provers can use: a set of numbers that is not *)
(* empty, say of counterexamples, has a least one.                         *)
(***************************************************************************)
LEMMA NatMinimum ==
    ASSUME NEW b \in SUBSET Nat, b # {}
    PROVE  \E p \in b : \A r \in b : p <= r
  <1> DEFINE R == OpToRel(<, Nat)
  <1>1. IsWellFoundedOn(R, Nat)
    BY NatLessThanWellFounded
  <1>2. \A x, y \in Nat : y < x => <<y, x>> \in R
    BY DEF OpToRel
  <1> HIDE DEF R
  <1>3. PICK p \in b : \A y \in b : ~(<<y, p>> \in R)
    BY <1>1, WFMin
  <1>4. ASSUME NEW r \in b PROVE p <= r
    <2>1. p \in Nat /\ r \in Nat /\ ~(r < p)
      BY <1>2, <1>3
    <2> QED BY <2>1
  <1> QED BY <1>4

(***************************************************************************)
(* Arithmetic of remainders.                                               *)
(***************************************************************************)
LEMMA DivisionBy ==
    ASSUME NEW m \in Nat \ {0}, NEW x \in Int
    PROVE  x \div m \in Int /\ x % m \in 0 .. m - 1 /\ x = m * (x \div m) + (x % m)
  OBVIOUS

LEMMA Remainder ==
    ASSUME NEW m \in Nat \ {0}, NEW q \in Int, NEW r \in 0 .. m - 1
    PROVE  (m * q + r) % m = r
  <1> DEFINE x == m * q + r
             d == x \div m
             e == x % m
  <1>0. m \in Int /\ m * q \in Int /\ r \in Int
    OBVIOUS
  <1>1. x \in Int
    BY <1>0
  <1> HIDE DEF x
  <1>2. d \in Int /\ e \in 0 .. m - 1 /\ x = m * d + e
    BY <1>1, DivisionBy
  <1> HIDE DEF d, e
  <1>3. m * q + r = m * d + e
    BY <1>2 DEF x
  <1>4. q = d
    <2>1. ASSUME q > d PROVE FALSE
      <3>1. m * q >= m * (d + 1)
        BY <1>2, <2>1
      <3>2. m * (d + 1) = m * d + m
        BY <1>2
      <3>3. m * d \in Int
        BY <1>2
      <3> QED BY <1>0, <1>2, <1>3, <3>1, <3>2, <3>3
    <2>2. ASSUME q < d PROVE FALSE
      <3>1. m * d >= m * (q + 1)
        BY <1>2, <2>2
      <3>2. m * (q + 1) = m * q + m
        BY <1>2
      <3>3. m * d \in Int
        BY <1>2
      <3> QED BY <1>0, <1>2, <1>3, <3>1, <3>2, <3>3
    <2> QED BY <1>2, <2>1, <2>2
  <1>5. r = e
    <2>1. m * d \in Int /\ m * q = m * d
      BY <1>2, <1>4
    <2> QED BY <1>0, <1>2, <1>3, <2>1
  <1> QED BY <1>5 DEF e, x

LEMMA ConcatLength ==
    ASSUME NEW S, NEW a \in Seq(S), NEW b \in Seq(S)
    PROVE  Len(a \o b) = Len(a) + Len(b)
  OBVIOUS

(***************************************************************************)
(* SequencesExt's RemoveAt, element by element.                            *)
(***************************************************************************)
LEMMA RemoveAtFacts ==
    ASSUME NEW S, NEW s \in Seq(S), NEW k \in 1..Len(s)
    PROVE  /\ RemoveAt(s, k) \in Seq(S)
           /\ Len(RemoveAt(s, k)) = Len(s) - 1
           /\ \A i \in 1..(Len(s) - 1) :
                  RemoveAt(s, k)[i] = IF i < k THEN s[i] ELSE s[i+1]
  <1> DEFINE a == SubSeq(s, 1, k - 1)
             b == SubSeq(s, k + 1, Len(s))
  <1>1. a \in Seq(S) /\ Len(a) = k - 1 /\ \A i \in 1..(k - 1) : a[i] = s[i]
    OBVIOUS
  <1>2. b \in Seq(S) /\ Len(b) = Len(s) - k /\ \A i \in 1..(Len(s) - k) : b[i] = s[i + k]
    OBVIOUS
  <1>3. RemoveAt(s, k) = a \o b
    BY DEF RemoveAt
  <1> HIDE DEF a, b
  <1>4. a \o b \in Seq(S)
    BY <1>1, <1>2
  <1>5. Len(a \o b) = Len(s) - 1
    <2>1. Len(a \o b) = Len(a) + Len(b)
      BY <1>1, <1>2, ConcatLength
    <2>2. Len(s) \in Nat /\ k \in Int
      OBVIOUS
    <2> QED BY <2>1, <2>2, <1>1, <1>2
  <1>6. ASSUME NEW i \in 1..(Len(s) - 1)
        PROVE  (a \o b)[i] = IF i < k THEN s[i] ELSE s[i+1]
    <2>1. CASE i < k
      BY <2>1, <1>1, <1>2
    <2>2. CASE ~(i < k)
      <3>1. i - (k - 1) \in 1..(Len(s) - k) /\ i - (k - 1) \in Int
        BY <2>2
      <3>2. (a \o b)[i] = b[i - (k - 1)]
        BY <2>2, <3>1, <1>1, <1>2
      <3>3. b[i - (k - 1)] = s[i - (k - 1) + k]
        BY <3>1, <1>2
      <3>4. i - (k - 1) + k = i + 1
        OBVIOUS
      <3> QED BY <3>2, <3>3, <3>4, <2>2
    <2> QED BY <2>1, <2>2
  <1> QED BY <1>3, <1>4, <1>5, <1>6

(***************************************************************************)
(* Without removes its element and nothing else.                           *)
(***************************************************************************)
LEMMA WithoutFacts ==
    ASSUME NEW S, NEW s \in Seq(S), NoRepeat(s), NEW x
    PROVE  /\ Without(s, x) \in Seq(S)
           /\ NoRepeat(Without(s, x))
           /\ \A y : Contains(Without(s, x), y) <=> Contains(s, y) /\ y # x
  <1>1. CASE ~Contains(s, x)
    BY <1>1 DEF Without
  <1>2. CASE Contains(s, x)
    <2> DEFINE k == CHOOSE i \in 1..Len(s) : s[i] = x
               r == RemoveAt(s, k)
    <2>1. k \in 1..Len(s) /\ s[k] = x
      BY <1>2 DEF Contains
    <2>2. Without(s, x) = r
      BY <1>2 DEF Without
    <2> HIDE DEF k
    <2>3. /\ r \in Seq(S) /\ Len(r) = Len(s) - 1
          /\ \A i \in 1..(Len(s) - 1) : r[i] = IF i < k THEN s[i] ELSE s[i+1]
      BY <2>1, RemoveAtFacts
    <2> HIDE DEF r
    <2>n. Len(s) \in Nat /\ k \in Int
      BY <2>1
    <2>4. NoRepeat(r)
      <3> SUFFICES ASSUME NEW i \in 1..Len(r), NEW j \in 1..Len(r), r[i] = r[j]
                   PROVE  i = j
        BY DEF NoRepeat
      <3> DEFINE up(n) == IF n < k THEN n ELSE n + 1
      <3>1. \A n \in 1..Len(r) : up(n) \in 1..Len(s) /\ r[n] = s[up(n)]
        BY <2>3, <2>n
      <3>2. up(i) = up(j)
        BY <3>1 DEF NoRepeat
      <3> QED BY <3>2, <2>n
    <2>5. ASSUME NEW i \in 1..Len(r)
          PROVE  r[i] # x /\ \E j \in 1..Len(s) : s[j] = r[i]
      BY <2>1, <2>3 DEF NoRepeat
    <2>6. ASSUME NEW j \in 1..Len(s), s[j] # x
          PROVE  \E i \in 1..Len(r) : r[i] = s[j]
      <3>1. CASE j < k
        <4>1. j \in 1..Len(r) /\ r[j] = s[j]
          BY <3>1, <2>1, <2>3
        <4> QED BY <4>1
      <3>2. CASE j > k
        <4>1. j - 1 \in 1..Len(r) /\ r[j-1] = s[j]
          BY <3>2, <2>1, <2>3
        <4> QED BY <4>1
      <3> QED BY <3>1, <3>2, <2>1, <2>6
    <2>7. ASSUME NEW y
          PROVE  Contains(r, y) <=> Contains(s, y) /\ y # x
      BY <2>5, <2>6 DEF Contains
    <2> QED BY <2>2, <2>3, <2>4, <2>7
  <1> QED BY <1>1, <1>2

(***************************************************************************)
(* The first node of a list stays first when another one is removed.       *)
(***************************************************************************)
LEMMA WithoutKeepsHead ==
    ASSUME NEW S, NEW s \in Seq(S), s # <<>>, NEW x, s[1] # x
    PROVE  Without(s, x) # <<>> /\ Without(s, x)[1] = s[1]
  <1>1. CASE Contains(s, x)
    <2> DEFINE k == CHOOSE i \in 1..Len(s) : s[i] = x
               r == RemoveAt(s, k)
    <2>1. k \in 1..Len(s) /\ s[k] = x
      BY <1>1 DEF Contains
    <2>2. Without(s, x) = r
      BY <1>1 DEF Without
    <2> HIDE DEF k
    <2>3. /\ r \in Seq(S) /\ Len(r) = Len(s) - 1
          /\ \A i \in 1..(Len(s) - 1) : r[i] = IF i < k THEN s[i] ELSE s[i+1]
      BY <2>1, RemoveAtFacts
    <2>4. k > 1 /\ Len(s) - 1 >= 1
      BY <2>1
    <2> HIDE DEF r
    <2>5. r # <<>> /\ r[1] = s[1]
      BY <2>1, <2>3, <2>4
    <2> QED BY <2>2, <2>5
  <1>2. CASE ~Contains(s, x)
    BY <1>2 DEF Without
  <1> QED BY <1>1, <1>2

(***************************************************************************)
(* A list used as a stack of free blocks: taking the first, putting one    *)
(* back in front.                                                          *)
(***************************************************************************)
LEMMA PopFacts ==
    ASSUME NEW S, NEW s \in Seq(S), s # <<>>, NoRepeat(s)
    PROVE  /\ Head(s) \in S /\ Contains(s, Head(s))
           /\ Tail(s) \in Seq(S) /\ NoRepeat(Tail(s))
           /\ \A y : Contains(Tail(s), y) <=> Contains(s, y) /\ y # Head(s)
  <1>1. /\ Tail(s) \in Seq(S) /\ Len(Tail(s)) = Len(s) - 1 /\ Len(s) \in Nat /\ Len(s) >= 1
        /\ Head(s) = s[1] /\ s[1] \in S
        /\ \A i \in 1..Len(Tail(s)) : Tail(s)[i] = s[i + 1]
    OBVIOUS
  <1> DEFINE r == Tail(s)
             x == Head(s)
  <1> HIDE DEF r, x
  <1>2. /\ r \in Seq(S) /\ Len(r) = Len(s) - 1 /\ Len(s) \in Nat /\ Len(s) >= 1 /\ x = s[1]
        /\ \A i \in 1..Len(r) : r[i] = s[i + 1] /\ i + 1 \in 1..Len(s)
    BY <1>1 DEF r, x
  <1>3. ASSUME NEW i \in 1..Len(r), NEW j \in 1..Len(r), r[i] = r[j] PROVE i = j
    <2>1. i + 1 = j + 1
      BY <1>2, <1>3 DEF NoRepeat
    <2> QED BY <2>1
  <1>4. \A i \in 1..Len(r) : r[i] # x
    <2>1. 1 \in 1..Len(s) /\ \A i \in 1..Len(r) : i + 1 # 1
      BY <1>2
    <2> QED BY <1>2, <2>1 DEF NoRepeat
  <1>5. \A j \in 1..Len(s) : s[j] # x => j - 1 \in 1..Len(r) /\ r[j - 1] = s[j]
    BY <1>2
  <1>6. ASSUME NEW y PROVE Contains(r, y) <=> Contains(s, y) /\ y # x
    BY <1>2, <1>4, <1>5 DEF Contains
  <1>7. Contains(s, x)
    BY <1>2 DEF Contains
  <1>8. NoRepeat(r)
    BY <1>3 DEF NoRepeat
  <1> QED BY <1>1, <1>6, <1>7, <1>8 DEF r, x

LEMMA PushFacts ==
    ASSUME NEW S, NEW s \in Seq(S), NoRepeat(s), NEW x \in S, ~Contains(s, x)
    PROVE  /\ <<x>> \o s \in Seq(S) /\ NoRepeat(<<x>> \o s)
           /\ \A y : Contains(<<x>> \o s, y) <=> Contains(s, y) \/ y = x
  <1> DEFINE r == <<x>> \o s
  <1>1. /\ r \in Seq(S) /\ Len(r) = Len(s) + 1 /\ Len(s) \in Nat
        /\ \A i \in 1..Len(r) : r[i] = IF i = 1 THEN x ELSE s[i - 1]
    OBVIOUS
  <1> HIDE DEF r
  <1>2. \A i \in 1..Len(s) : s[i] # x /\ r[i + 1] = s[i] /\ i + 1 \in 1..Len(r)
    BY <1>1 DEF Contains
  <1>3. ASSUME NEW i \in 1..Len(r), i # 1
        PROVE  i - 1 \in 1..Len(s) /\ r[i] = s[i - 1] /\ r[i] # x
    <2>1. i - 1 \in 1..Len(s)
      BY <1>1, <1>3
    <2> QED BY <1>1, <1>2, <1>3, <2>1
  <1>4. r[1] = x /\ 1 \in 1..Len(r)
    BY <1>1
  <1>5. ASSUME NEW i \in 1..Len(r), NEW j \in 1..Len(r), r[i] = r[j] PROVE i = j
    <2>1. CASE i = 1 \/ j = 1
      BY <1>3, <1>4, <1>5, <2>1
    <2>2. CASE i # 1 /\ j # 1
      <3>1. i - 1 = j - 1
        BY <1>3, <1>5, <2>2 DEF NoRepeat
      <3> QED BY <3>1
    <2> QED BY <2>1, <2>2
  <1>6. ASSUME NEW y PROVE Contains(r, y) <=> Contains(s, y) \/ y = x
    BY <1>2, <1>3, <1>4, SMTT(60) DEF Contains
  <1>7. NoRepeat(r)
    BY <1>5 DEF NoRepeat
  <1> QED BY <1>1, <1>6, <1>7 DEF r

(***************************************************************************)
(* The free blocks in any order: each is there, once, and nothing else is. *)
(***************************************************************************)
LEMMA AnyOrderFacts ==
    ASSUME NEW S, IsFiniteSet(S), NEW s \in SetToSeqs(S)
    PROVE  /\ s \in Seq(S) /\ NoRepeat(s)
           /\ \A y : Contains(s, y) <=> y \in S
  <1> DEFINE n == Cardinality(S)
             D == 1..n
  <1>1. n \in Nat
    BY FS_CardinalityType
  <1>2. s \in [D -> S] /\ \A i, j \in D : i # j => s[i] # s[j]
    BY DEF SetToSeqs
  <1>3. IsFiniteSet(D) /\ Cardinality(D) = n
    BY <1>1, FS_Interval
  <1> HIDE DEF n
  <1>4. s \in Seq(S) /\ Len(s) = n
    BY <1>1, <1>2
  <1>5. s \in Injection(D, S)
    BY <1>2 DEF Injection, IsInjective
  <1>6. s \in Surjection(D, S)
    BY <1>3, <1>5, FS_Injection DEF n
  <1>7. \A y \in S : \E i \in D : s[i] = y
    BY <1>6 DEF Surjection
  <1>8. NoRepeat(s)
    BY <1>2, <1>4 DEF NoRepeat
  <1> QED BY <1>2, <1>4, <1>7, <1>8 DEF Contains

(***************************************************************************)
(* A list of free blocks as the type invariants state it.                  *)
(***************************************************************************)
LEMMA FreeListFacts ==
    ASSUME NEW S, NEW s \in Seq(S), NoRepeat(s), NEW F \in SUBSET S,
           \A y \in S : Contains(s, y) <=> y \in F
    PROVE  IsInjective(s) /\ ToSet(s) = F
  <1>1. DOMAIN s = 1..Len(s) /\ \A i \in 1..Len(s) : s[i] \in S
    OBVIOUS
  <1>2. IsInjective(s)
    BY <1>1 DEF IsInjective, NoRepeat
  <1>3. \A y : y \in ToSet(s) <=> \E i \in 1..Len(s) : s[i] = y
    BY <1>1 DEF ToSet
  <1> QED BY <1>1, <1>2, <1>3 DEF Contains

(***************************************************************************)
(* LinkedOnce in two halves: no list repeats a node, no two share one.     *)
(***************************************************************************)
LEMMA LinkedOnceHalves ==
    ASSUME NEW l
    PROVE  LinkedOnce(l) <=>
               /\ \A h \in DOMAIN l : NoRepeat(l[h])
               /\ \A g, h \in DOMAIN l : \A y : Linked(l, g, y) /\ Linked(l, h, y) => g = h
  BY DEF LinkedOnce, NoRepeat, Linked, Contains

(***************************************************************************)
(* An empty list links nothing, and a list that links nothing is empty.    *)
(***************************************************************************)
LEMMA EmptyLinksNone ==
    ASSUME NEW H, NEW S, NEW l \in [H -> Seq(S)], NEW h \in H
    PROVE  /\ l[h] = <<>> <=> \A y \in S : ~Linked(l, h, y)
           /\ \A y : Linked(l, h, y) => y \in S /\ l[h] # <<>>
           /\ l[h] # <<>> => l[h][1] \in S /\ Linked(l, h, l[h][1])
  <1>1. l[h] \in Seq(S)
    OBVIOUS
  <1>2. \A y : Linked(l, h, y) => y \in S /\ l[h] # <<>>
    BY <1>1 DEF Linked, Contains
  <1>3. l[h] # <<>> => l[h][1] \in S /\ Linked(l, h, l[h][1])
    <2> SUFFICES ASSUME l[h] # <<>> PROVE l[h][1] \in S /\ Linked(l, h, l[h][1])
      OBVIOUS
    <2>1. 1 \in 1..Len(l[h])
      BY <1>1
    <2> QED BY <1>1, <2>1 DEF Linked, Contains
  <1> QED BY <1>2, <1>3

(***************************************************************************)
(* LOS_ListDelete unlinks its node, wherever it was, and no other.         *)
(***************************************************************************)
LEMMA ListDeleteFacts ==
    ASSUME NEW H, NEW S, NEW l \in [H -> Seq(S)], LinkedOnce(l), NEW x
    PROVE  /\ LOS_ListDelete(l, x) \in [H -> Seq(S)]
           /\ LinkedOnce(LOS_ListDelete(l, x))
           /\ \A h \in H : \A y :
                  Linked(LOS_ListDelete(l, x), h, y) <=> Linked(l, h, y) /\ y # x
           /\ \A h \in H : ~Linked(l, h, x) => LOS_ListDelete(l, x)[h] = l[h]
  <1> DEFINE d == LOS_ListDelete(l, x)
  <1>1. d = [h \in H |-> Without(l[h], x)]
    BY DEF LOS_ListDelete
  <1>2. \A h \in H : l[h] \in Seq(S) /\ NoRepeat(l[h])
    BY LinkedOnceHalves
  <1>3. ASSUME NEW h \in H
        PROVE  /\ d[h] \in Seq(S)
               /\ NoRepeat(d[h])
               /\ \A y : Linked(d, h, y) <=> Linked(l, h, y) /\ y # x
    <2>1. d[h] = Without(l[h], x)
      BY <1>1
    <2> QED BY <2>1, <1>2, WithoutFacts DEF Linked
  <1>4. d \in [H -> Seq(S)]
    BY <1>1, <1>2, WithoutFacts
  <1>5. LinkedOnce(d)
    BY <1>3, <1>4, LinkedOnceHalves
  <1>6. ASSUME NEW h \in H, ~Linked(l, h, x) PROVE d[h] = l[h]
    BY <1>1, <1>6 DEF Linked, Without
  <1> QED BY <1>3, <1>4, <1>5, <1>6

(***************************************************************************)
(* LOS_ListTailInsert and LOS_ListAdd link one node more; a node that was  *)
(* in no list is then in one place.                                        *)
(***************************************************************************)
LEMMA TailInsertFacts ==
    ASSUME NEW H, NEW S, NEW l \in [H -> Seq(S)], NEW h \in H, NEW x \in S
    PROVE  /\ LOS_ListTailInsert(l, h, x) \in [H -> Seq(S)]
           /\ \A g \in H : \A y :
                  Linked(LOS_ListTailInsert(l, h, x), g, y)
                      <=> Linked(l, g, y) \/ (g = h /\ y = x)
           /\ LinkedOnce(l) /\ ~IsLinked(l, x) => LinkedOnce(LOS_ListTailInsert(l, h, x))
           /\ LOS_ListTailInsert(l, h, x)[h] # <<>>
           /\ \A g \in H \ {h} : LOS_ListTailInsert(l, h, x)[g] = l[g]
  <1> DEFINE d == LOS_ListTailInsert(l, h, x)
  <1>1. /\ d \in [H -> Seq(S)]
        /\ d[h] = Append(l[h], x)
        /\ \A g \in H \ {h} : d[g] = l[g]
    BY DEF LOS_ListTailInsert
  <1>2. /\ l[h] \in Seq(S)
        /\ Len(d[h]) = Len(l[h]) + 1
        /\ \A i \in 1..Len(l[h]) : d[h][i] = l[h][i]
        /\ d[h][Len(l[h]) + 1] = x
    BY <1>1
  <1>3. ASSUME NEW g \in H, NEW y
        PROVE  Linked(d, g, y) <=> Linked(l, g, y) \/ (g = h /\ y = x)
    <2>1. CASE g # h
      BY <2>1, <1>1 DEF Linked, Contains
    <2>2. CASE g = h
      <3>1. \A i \in 1..Len(d[h]) : i \in 1..Len(l[h]) \/ d[h][i] = x
        BY <1>2
      <3>2. 1..Len(l[h]) \subseteq 1..Len(d[h]) /\ Len(l[h]) + 1 \in 1..Len(d[h])
        BY <1>2
      <3> QED BY <2>2, <3>1, <3>2, <1>2 DEF Linked, Contains
    <2> QED BY <2>1, <2>2
  <1>4. ASSUME LinkedOnce(l), ~IsLinked(l, x)
        PROVE  LinkedOnce(d)
    <2>1. \A g \in H : ~Linked(l, g, x)
      BY <1>4 DEF IsLinked
    <2>2. \A g \in H : NoRepeat(d[g])
      <3>1. NoRepeat(l[h]) /\ \A i \in 1..Len(l[h]) : l[h][i] # x
        BY <1>4, <2>1, LinkedOnceHalves DEF Linked, Contains
      <3>2. NoRepeat(d[h])
        BY <3>1, <1>2 DEF NoRepeat
      <3> QED BY <3>2, <1>1, <1>4, LinkedOnceHalves
    <2>3. ASSUME NEW f \in H, NEW g \in H, NEW y, Linked(d, f, y), Linked(d, g, y)
          PROVE  f = g
      <3>1. Linked(l, f, y) /\ Linked(l, g, y) => f = g
        BY <1>4, LinkedOnceHalves
      <3> QED BY <3>1, <2>3, <1>3, <2>1
    <2>4. DOMAIN d = H
      BY <1>1
    <2> QED BY <2>2, <2>3, <2>4, LinkedOnceHalves
  <1>5. d[h] # <<>>
    BY <1>2
  <1> QED BY <1>1, <1>3, <1>4, <1>5

LEMMA ListAddFacts ==
    ASSUME NEW H, NEW S, NEW l \in [H -> Seq(S)], NEW h \in H, NEW x \in S
    PROVE  /\ LOS_ListAdd(l, h, x) \in [H -> Seq(S)]
           /\ \A g \in H : \A y :
                  Linked(LOS_ListAdd(l, h, x), g, y)
                      <=> Linked(l, g, y) \/ (g = h /\ y = x)
           /\ LinkedOnce(l) /\ ~IsLinked(l, x) => LinkedOnce(LOS_ListAdd(l, h, x))
           /\ LOS_ListAdd(l, h, x)[h] # <<>>
           /\ \A g \in H \ {h} : LOS_ListAdd(l, h, x)[g] = l[g]
  <1> DEFINE d == LOS_ListAdd(l, h, x)
  <1>1. /\ d \in [H -> Seq(S)]
        /\ d[h] = <<x>> \o l[h]
        /\ \A g \in H \ {h} : d[g] = l[g]
    BY DEF LOS_ListAdd
  <1>2. /\ l[h] \in Seq(S)
        /\ Len(d[h]) = Len(l[h]) + 1
        /\ \A i \in 1..Len(l[h]) : d[h][i + 1] = l[h][i]
        /\ d[h][1] = x
    BY <1>1
  <1>3. ASSUME NEW g \in H, NEW y
        PROVE  Linked(d, g, y) <=> Linked(l, g, y) \/ (g = h /\ y = x)
    <2>1. CASE g # h
      BY <2>1, <1>1 DEF Linked, Contains
    <2>2. CASE g = h
      <3>1. ASSUME NEW i \in 1..Len(d[h])
            PROVE  i = 1 \/ (i - 1 \in 1..Len(l[h]) /\ d[h][i] = l[h][i - 1])
        BY <1>2
      <3>2. ASSUME NEW i \in 1..Len(l[h])
            PROVE  i + 1 \in 1..Len(d[h]) /\ d[h][i + 1] = l[h][i]
        BY <1>2
      <3>3. 1 \in 1..Len(d[h])
        BY <1>2
      <3>4. ASSUME NEW i \in 1..Len(d[h]), d[h][i] = y
            PROVE  y = x \/ Linked(l, h, y)
        BY <3>1, <3>4, <1>2 DEF Linked, Contains
      <3>5. ASSUME y = x \/ Linked(l, h, y)
            PROVE  \E i \in 1..Len(d[h]) : d[h][i] = y
        BY <3>2, <3>3, <3>5, <1>2 DEF Linked, Contains
      <3> QED BY <2>2, <3>4, <3>5 DEF Linked, Contains
    <2> QED BY <2>1, <2>2
  <1>4. ASSUME LinkedOnce(l), ~IsLinked(l, x)
        PROVE  LinkedOnce(d)
    <2>1. \A g \in H : ~Linked(l, g, x)
      BY <1>4 DEF IsLinked
    <2>2. \A g \in H : NoRepeat(d[g])
      <3>1. NoRepeat(l[h]) /\ \A i \in 1..Len(l[h]) : l[h][i] # x
        BY <1>4, <2>1, LinkedOnceHalves DEF Linked, Contains
      <3>2. \A i \in 1..Len(d[h]) :
                i = 1 \/ (i - 1 \in 1..Len(l[h]) /\ d[h][i] = l[h][i - 1])
        BY <1>2
      <3>3. NoRepeat(d[h])
        <4> SUFFICES ASSUME NEW i \in 1..Len(d[h]), NEW j \in 1..Len(d[h]), d[h][i] = d[h][j]
                     PROVE  i = j
          BY DEF NoRepeat
        <4>1. i \in Int /\ j \in Int
          OBVIOUS
        <4>2. CASE i = 1 \/ j = 1
          BY <4>2, <3>1, <3>2, <1>2
        <4>3. CASE i # 1 /\ j # 1
          <5>1. i - 1 = j - 1
            BY <4>3, <3>1, <3>2 DEF NoRepeat
          <5> QED BY <5>1, <4>1
        <4> QED BY <4>2, <4>3
      <3> QED BY <3>3, <1>1, <1>4, LinkedOnceHalves
    <2>3. ASSUME NEW f \in H, NEW g \in H, NEW y, Linked(d, f, y), Linked(d, g, y)
          PROVE  f = g
      <3>1. Linked(l, f, y) /\ Linked(l, g, y) => f = g
        BY <1>4, LinkedOnceHalves
      <3> QED BY <3>1, <2>3, <1>3, <2>1
    <2>4. DOMAIN d = H
      BY <1>1
    <2> QED BY <2>2, <2>3, <2>4, LinkedOnceHalves
  <1>5. d[h] # <<>>
    BY <1>2
  <1> QED BY <1>1, <1>3, <1>4, <1>5
(***************************************************************************)
(* Moving one list, reversed, to the head of another (the recycle list to  *)
(* the free list).                                                         *)
(***************************************************************************)
LEMMA ReverseFacts ==
    ASSUME NEW S, NEW s \in Seq(S)
    PROVE  /\ Reverse(s) \in Seq(S)
           /\ Len(Reverse(s)) = Len(s)
           /\ \A i \in 1..Len(s) : Reverse(s)[i] = s[Len(s) + 1 - i]
  <1>1. Reverse(s) = [i \in 1..Len(s) |-> s[(Len(s) - i) + 1]]
    BY DEF Reverse
  <1>2. Len(s) \in Nat /\ \A i \in 1..Len(s) : (Len(s) - i) + 1 \in 1..Len(s)
    OBVIOUS
  <1>3. Reverse(s) \in Seq(S) /\ Len(Reverse(s)) = Len(s)
    BY <1>1, <1>2
  <1>4. ASSUME NEW i \in 1..Len(s) PROVE Reverse(s)[i] = s[Len(s) + 1 - i]
    BY <1>1, <1>2, (Len(s) - i) + 1 = Len(s) + 1 - i
  <1> QED BY <1>3, <1>4

LEMMA ConcatFacts ==
    ASSUME NEW S, NEW a \in Seq(S), NEW b \in Seq(S), NoRepeat(a), NoRepeat(b),
           \A y : ~(Contains(a, y) /\ Contains(b, y))
    PROVE  /\ a \o b \in Seq(S)
           /\ NoRepeat(a \o b)
           /\ \A y : Contains(a \o b, y) <=> Contains(a, y) \/ Contains(b, y)
  <1> DEFINE c == a \o b
  <1>1. c \in Seq(S) /\ Len(c) = Len(a) + Len(b)
    BY ConcatLength
  <1>2. ASSUME NEW i \in 1..Len(c)
        PROVE  IF i <= Len(a) THEN i \in 1..Len(a) /\ c[i] = a[i]
               ELSE i - Len(a) \in 1..Len(b) /\ c[i] = b[i - Len(a)]
    BY <1>1
  <1>3. \A i \in 1..Len(a) : i \in 1..Len(c) /\ c[i] = a[i]
    BY <1>1
  <1>4. ASSUME NEW i \in 1..Len(b)
        PROVE  i + Len(a) \in 1..Len(c) /\ c[i + Len(a)] = b[i]
    BY <1>1
  <1> HIDE DEF c
  <1>5. ASSUME NEW y PROVE Contains(c, y) <=> Contains(a, y) \/ Contains(b, y)
    <2>1. Contains(c, y) => Contains(a, y) \/ Contains(b, y)
      BY <1>2 DEF Contains
    <2>2. Contains(a, y) => Contains(c, y)
      BY <1>3 DEF Contains
    <2>3. Contains(b, y) => Contains(c, y)
      BY <1>4 DEF Contains
    <2> QED BY <2>1, <2>2, <2>3
  <1>6. NoRepeat(c)
    <2> SUFFICES ASSUME NEW i \in 1..Len(c), NEW j \in 1..Len(c), c[i] = c[j]
                 PROVE  i = j
      BY DEF NoRepeat
    <2>1. Len(a) \in Nat /\ i \in Int /\ j \in Int
      OBVIOUS
    <2>2. CASE i <= Len(a) /\ j <= Len(a)
      BY <1>2, <2>2 DEF NoRepeat
    <2>3. CASE ~(i <= Len(a)) /\ ~(j <= Len(a))
      <3>1. i - Len(a) = j - Len(a)
        BY <1>2, <2>3 DEF NoRepeat
      <3> QED BY <3>1, <2>1
    <2>4. ASSUME NEW m \in 1..Len(c), NEW n \in 1..Len(c),
                 m <= Len(a), ~(n <= Len(a)), c[m] = c[n]
          PROVE  FALSE
      <3>1. m \in 1..Len(a) /\ c[m] = a[m] /\ n - Len(a) \in 1..Len(b) /\ c[n] = b[n - Len(a)]
        BY <1>2, <2>4
      <3>2. Contains(a, c[m]) /\ Contains(b, c[m])
        BY <3>1, <2>4 DEF Contains
      <3> QED BY <3>2
    <2> QED BY <2>2, <2>3, <2>4
  <1> QED BY <1>1, <1>5, <1>6 DEF c

LEMMA ReverseKeeps ==
    ASSUME NEW S, NEW s \in Seq(S), NoRepeat(s)
    PROVE  /\ NoRepeat(Reverse(s))
           /\ \A y : Contains(Reverse(s), y) <=> Contains(s, y)
  <1> DEFINE r == Reverse(s)
  <1>1. Len(s) \in Nat /\ Len(r) = Len(s) /\ \A i \in 1..Len(s) : r[i] = s[Len(s) + 1 - i]
    BY ReverseFacts
  <1>2. \A i \in 1..Len(s) : Len(s) + 1 - i \in 1..Len(s) /\ Len(s) + 1 - (Len(s) + 1 - i) = i
    BY <1>1
  <1> HIDE DEF r
  <1>3. NoRepeat(r)
    <2> SUFFICES ASSUME NEW i \in 1..Len(s), NEW j \in 1..Len(s), r[i] = r[j] PROVE i = j
      BY <1>1 DEF NoRepeat
    <2>1. Len(s) + 1 - i = Len(s) + 1 - j
      BY <1>1, <1>2, ZenonT(60) DEF NoRepeat
    <2> QED BY <2>1, <1>1
  <1>4. ASSUME NEW y PROVE Contains(r, y) <=> Contains(s, y)
    <2>1. ASSUME NEW i \in 1..Len(s), r[i] = y PROVE Contains(s, y)
      BY <1>1, <1>2, <2>1 DEF Contains
    <2>2. ASSUME NEW i \in 1..Len(s), s[i] = y PROVE Contains(r, y)
      <3>1. Len(s) + 1 - i \in 1..Len(r) /\ r[Len(s) + 1 - i] = s[i]
        BY <1>1, <1>2
      <3> QED BY <2>2, <3>1 DEF Contains
    <2> QED BY <2>1, <2>2, <1>1 DEF Contains
  <1> QED BY <1>3, <1>4 DEF r

LEMMA AddedAllFacts ==
    ASSUME NEW H, NEW S, NEW l \in [H -> Seq(S)], LinkedOnce(l),
           NEW f \in H, NEW r \in H, f # r
    PROVE  /\ AddedAll(l, f, r) \in [H -> Seq(S)]
           /\ LinkedOnce(AddedAll(l, f, r))
           /\ \A g \in H : \A y :
                  Linked(AddedAll(l, f, r), g, y)
                      <=> g # r /\ (Linked(l, g, y) \/ (g = f /\ Linked(l, r, y)))
           /\ \A g \in H \ {f, r} : AddedAll(l, f, r)[g] = l[g]
  <1> DEFINE rev == Reverse(l[r])
             m == AddedAll(l, f, r)
  <1>1. /\ \A h \in H : l[h] \in Seq(S) /\ NoRepeat(l[h])
        /\ \A g, h \in H : \A y : Linked(l, g, y) /\ Linked(l, h, y) => g = h
    BY LinkedOnceHalves
  <1>2. /\ rev \in Seq(S) /\ NoRepeat(rev)
        /\ \A y : Contains(rev, y) <=> Contains(l[r], y)
    BY <1>1, ReverseFacts, ReverseKeeps
  <1> HIDE DEF rev
  <1>3. \A y : ~(Contains(rev, y) /\ Contains(l[f], y))
    BY <1>1, <1>2 DEF Linked
  <1>4. /\ rev \o l[f] \in Seq(S) /\ NoRepeat(rev \o l[f])
        /\ \A y : Contains(rev \o l[f], y) <=> Contains(rev, y) \/ Contains(l[f], y)
    BY <1>1, <1>2, <1>3, ConcatFacts
  <1>5. /\ DOMAIN m = H /\ m[f] = rev \o l[f] /\ m[r] = <<>>
        /\ \A g \in H \ {f, r} : m[g] = l[g]
        /\ m = [g \in H |-> m[g]]
    BY DEF rev, AddedAll
  <1> HIDE DEF m
  <1>6. \A g \in H : m[g] \in Seq(S)
    <2>1. <<>> \in Seq(S)
      OBVIOUS
    <2>2. ASSUME NEW g \in H PROVE m[g] \in Seq(S)
      <3>1. CASE g = f
        BY <3>1, <1>4, <1>5
      <3>2. CASE g = r
        BY <3>2, <2>1, <1>5
      <3>3. CASE g # f /\ g # r
        BY <3>3, <1>1, <1>5
      <3> QED BY <3>1, <3>2, <3>3
    <2> QED BY <2>2
  <1>7. m \in [H -> Seq(S)]
    BY <1>5, <1>6
  <1>8. ASSUME NEW g \in H, NEW y
        PROVE  Linked(m, g, y) <=> g # r /\ (Linked(l, g, y) \/ (g = f /\ Linked(l, r, y)))
    <2>1. CASE g = r
      <3>1. ~Contains(<<>>, y)
        BY DEF Contains
      <3> QED BY <2>1, <3>1, <1>5 DEF Linked
    <2>2. CASE g = f
      BY <2>2, <1>2, <1>4, <1>5 DEF Linked
    <2>3. CASE g # f /\ g # r
      BY <2>3, <1>5 DEF Linked
    <2> QED BY <2>1, <2>2, <2>3
  <1>9. \A g \in H : NoRepeat(m[g])
    <2>1. NoRepeat(<<>>)
      BY DEF NoRepeat
    <2> QED BY <2>1, <1>1, <1>4, <1>5
  <1>10. ASSUME NEW g \in H, NEW h \in H, NEW y, Linked(m, g, y), Linked(m, h, y)
         PROVE  g = h
    BY <1>1, <1>8, <1>10
  <1>11. LinkedOnce(m)
    BY <1>5, <1>9, <1>10, LinkedOnceHalves, ZenonT(60)
  <1> QED BY <1>5, <1>7, <1>8, <1>11 DEF m

(***************************************************************************)
(* A node is in one list only.                                             *)
(***************************************************************************)
LEMMA LinkedOnceHeads ==
    ASSUME NEW H, NEW S, NEW l \in [H -> Seq(S)], LinkedOnce(l),
           NEW g \in H, NEW h \in H, NEW y, Linked(l, g, y), Linked(l, h, y)
    PROVE  g = h
  <1>1. PICK i \in 1..Len(l[g]) : l[g][i] = y
    BY DEF Linked, Contains
  <1>2. PICK j \in 1..Len(l[h]) : l[h][j] = y
    BY DEF Linked, Contains
  <1> QED BY <1>1, <1>2 DEF LinkedOnce

=============================================================================
