------------------------------ MODULE GuruProofs ------------------------------
(***************************************************************************)
(* For any letters, any number of players and any length of a game: a word *)
(* is credited once, the count that ends the game is true, and so is what  *)
(* the end announces: the winners, the scores and the words in order.  And *)
(* whatever the string, it is a word for the recogniser the game asks, and *)
(* for the two of Project 1, if and only if it is one of the grammar.      *)
(***************************************************************************)
EXTENDS Guru, Reconhecedores, FiniteSetTheorems, SequenceTheorems, TLAPS

(***************************************************************************)
(* Induction over numbers, and functions defined by recursion, stated with *)
(* sets and functions only, so that the provers can use them.              *)
(***************************************************************************)

\* A nonempty set of numbers has a least element.
LEMMA LeastNumber ==
  ASSUME NEW B \in SUBSET Nat, B # {}
  PROVE  \E m \in B : \A k \in B : m <= k
<1> DEFINE upto(n) == 1 .. n
           T == {upto(n) : n \in B}
           R == StrictSubsetOrdering(Nat)
<1>1. T \subseteq FiniteSubsetsOf(Nat)
  <2>1. \A n \in B : IsFiniteSet(upto(n)) /\ upto(n) \in SUBSET Nat
    BY FS_Interval
  <2> QED BY <2>1 DEF FiniteSubsetsOf
<1>2. T # {}
  OBVIOUS
<1>3. \E x \in T : \A y \in T : <<y, x>> \notin R
  <2> HIDE DEF T, R
  <2>1. IsWellFoundedOn(R, FiniteSubsetsOf(Nat))
    BY FS_StrictSubsetOrderingWellFounded DEF R
  <2> QED BY <1>1, <1>2, <2>1, WFMin
<1>4. PICK m \in B : \A k \in B : <<upto(k), upto(m)>> \notin R
  BY <1>3
<1>5. ASSUME NEW k \in B, k < m PROVE FALSE
  <2>1. upto(k) \subseteq upto(m) /\ upto(k) # upto(m)
    BY <1>5
  <2>2. <<upto(k), upto(m)>> \in R
    BY <1>5, <2>1 DEF StrictSubsetOrdering
  <2> QED BY <1>4, <2>2
<1> QED BY <1>5

\* Induction, over the set of the numbers that have the property.
LEMMA NatInduct ==
  ASSUME NEW S, 0 \in S, \A n \in Nat : n \in S => n + 1 \in S
  PROVE  Nat \subseteq S
<1> DEFINE B == Nat \ S
<1> SUFFICES ASSUME B # {} PROVE FALSE
  OBVIOUS
<1>1. PICK m \in B : \A k \in B : m <= k
  BY LeastNumber
<1>2. m # 0 /\ m - 1 \in Nat /\ m - 1 \notin B
  BY <1>1
<1> QED BY <1>1, <1>2

\* Recursed(A, a, F): the function that starts with a and goes on as F says.
Recurses(A, a, F, f) ==
  f \in [Nat -> A] /\ f[0] = a /\ \A n \in Nat : f[n + 1] = F[n][f[n]]
Recursed(A, a, F) == CHOOSE f \in [Nat -> A] : Recurses(A, a, F, f)

\* There is one: what a recursive definition over Nat says of its function is
\* said of a function that exists.
LEMMA Recursion ==
  ASSUME NEW A, NEW a \in A, NEW F \in [Nat -> [A -> A]]
  PROVE  Recurses(A, a, F, Recursed(A, a, F))
<1> DEFINE Good(n, f) == /\ f \in [0 .. n -> A] /\ f[0] = a
                         /\ \A k \in 1 .. n : f[k] = F[k - 1][f[k - 1]]
           E == {n \in Nat : \E f \in [0 .. n -> A] : Good(n, f)}
<1>1. 0 \in E
  <2>1. Good(0, [k \in 0 .. 0 |-> a])
    OBVIOUS
  <2> QED BY <2>1
<1>2. ASSUME NEW n \in Nat, n \in E PROVE n + 1 \in E
  <2>1. PICK f \in [0 .. n -> A] : Good(n, f)
    BY <1>2
  <2>2. n \in 0 .. n /\ 0 \in 0 .. n /\ F[n][f[n]] \in A
    BY <2>1
  <2> DEFINE g == [k \in 0 .. n + 1 |-> IF k = n + 1 THEN F[n][f[n]] ELSE f[k]]
  <2>3. /\ g \in [0 .. n + 1 -> A] /\ g[n + 1] = F[n][f[n]]
        /\ \A k \in 0 .. n : g[k] = f[k]
    BY <2>2
  <2> HIDE DEF g
  <2>4. ASSUME NEW k \in 1 .. n + 1 PROVE g[k] = F[k - 1][g[k - 1]]
    <3>1. k - 1 \in 0 .. n /\ g[k - 1] = f[k - 1]
      BY <2>3
    <3>2. CASE k = n + 1
      <4>1. k - 1 = n
        BY <3>2
      <4> QED BY <2>3, <3>1, <3>2, <4>1
    <3>3. CASE k # n + 1
      <4>1. k \in 1 .. n /\ k \in 0 .. n
        BY <3>3
      <4> QED BY <2>1, <2>3, <3>1, <4>1
    <3> QED BY <3>2, <3>3
  <2>5. Good(n + 1, g)
    BY <2>1, <2>2, <2>3, <2>4
  <2> QED BY <2>3, <2>5
<1>3. Nat \subseteq E
  <2> HIDE DEF E
  <2> QED BY <1>1, <1>2, NatInduct
<1> DEFINE G == [n \in Nat |-> CHOOSE f \in [0 .. n -> A] : Good(n, f)]
<1>4. \A n \in Nat : Good(n, G[n])
  BY <1>3
<1> HIDE DEF G, E
<1>5. \A n \in Nat : \A k \in 0 .. n : G[n + 1][k] = G[n][k]
  <2> SUFFICES ASSUME NEW n \in Nat PROVE \A k \in 0 .. n : G[n + 1][k] = G[n][k]
    OBVIOUS
  <2> DEFINE S == {k \in Nat : k <= n => G[n + 1][k] = G[n][k]}
  <2>1. 0 \in S
    BY <1>4
  <2>2. ASSUME NEW k \in Nat, k \in S PROVE k + 1 \in S
    <3>1. CASE k + 1 <= n
      <4>1. G[n + 1][k] = G[n][k]
        BY <2>2, <3>1
      <4>2. G[n + 1][k + 1] = F[k][G[n + 1][k]] /\ G[n][k + 1] = F[k][G[n][k]]
        <5>1. k + 1 \in 1 .. n + 1 /\ k + 1 \in 1 .. n /\ (k + 1) - 1 = k
          BY <3>1
        <5> QED BY <1>4, <5>1
      <4> QED BY <4>1, <4>2
    <3> QED BY <3>1
  <2>3. Nat \subseteq S
    <3> HIDE DEF S
    <3> QED BY <2>1, <2>2, NatInduct
  <2> QED BY <2>3
<1> DEFINE h == [n \in Nat |-> G[n][n]]
<1>6. h \in [Nat -> A] /\ h[0] = a
  BY <1>4
<1>7. ASSUME NEW n \in Nat PROVE h[n + 1] = F[n][h[n]]
  <2>1. G[n + 1][n + 1] = F[n][G[n + 1][n]]
    <3>1. n + 1 \in 1 .. n + 1 /\ (n + 1) - 1 = n
      OBVIOUS
    <3> QED BY <1>4, <3>1
  <2>2. G[n + 1][n] = G[n][n]
    BY <1>5
  <2> QED BY <2>1, <2>2
<1>8. Recurses(A, a, F, h)
  <2> HIDE DEF h
  <2> QED BY <1>6, <1>7 DEF Recurses
<1>9. \E f \in [Nat -> A] : Recurses(A, a, F, f)
  <2> HIDE DEF h
  <2> QED BY <1>6, <1>8
<1> QED BY <1>9, Zenon DEF Recursed

\* The same up to a bound.
LEMMA BoundedInduct ==
  ASSUME NEW n \in Nat, NEW S, 0 \in S, \A i \in 1 .. n : i - 1 \in S => i \in S
  PROVE  0 .. n \subseteq S
<1> DEFINE T == {k \in Nat : k <= n => k \in S}
<1>1. ASSUME NEW k \in Nat, k \in T PROVE k + 1 \in T
  <2>1. CASE k + 1 <= n
    <3>1. k + 1 \in 1 .. n /\ (k + 1) - 1 = k /\ k \in S
      BY <1>1, <2>1
    <3> QED BY <3>1
  <2> QED BY <2>1
<1>2. 0 \in T
  OBVIOUS
<1>3. Nat \subseteq T
  <2> HIDE DEF T
  <2> QED BY <1>1, <1>2, NatInduct
<1> QED BY <1>3

Rows == Seq(Seq(Palavras))

(***************************************************************************)
(* Sequences and the sets of their elements.                               *)
(***************************************************************************)
LEMMA ElementsOf ==
  ASSUME NEW S, NEW l \in Seq(S)
  PROVE  Elements(l) \subseteq S /\ \A x : x \in Elements(l) <=> \E i \in 1 .. Len(l) : l[i] = x
BY DEF Elements

(***************************************************************************)
(* The order of the words of one length.                                   *)
(***************************************************************************)
LongWords(n) == {w \in Palavras : Len(w) = n}

LEMMA PlaceOf == \A c \in Capitals : Place(c) \in 1 .. 26 /\ Alphabet[Place(c)] = c
<1> SUFFICES ASSUME NEW c \in Capitals PROVE Place(c) \in 1 .. 26 /\ Alphabet[Place(c)] = c
  OBVIOUS
<1>1. \E i \in 1 .. 26 : Alphabet[i] = c
  BY Zenon DEF Capitals
<1> HIDE DEF Alphabet
<1> QED BY <1>1, Zenon DEF Place

\* Before(p, q, i): the words differ at i first, and there p has the letter before q's.
Before(p, q, i) == (\A j \in 1 .. i - 1 : p[j] = q[j]) /\ Place(p[i]) < Place(q[i])

LEMMA Compared ==
  ASSUME NEW n \in Nat, NEW p \in LongWords(n), NEW q \in LongWords(n)
  PROVE  palavra_potencial_menor(p, q) <=> \E i \in 1 .. n : Before(p, q, i)
<1>1. Len(p) = n /\ Len(q) = n
  BY DEF LongWords
<1>2. \A i \in 1 .. n : ~ (i > n) /\ \A j \in 1 .. i - 1 : j <= n
  OBVIOUS
<1> QED BY <1>1, <1>2 DEF palavra_potencial_menor, Before

LEMMA LettersOf ==
  ASSUME NEW n \in Nat, NEW p \in LongWords(n)
  PROVE  \A i \in 1 .. n : p[i] \in Capitals /\ Place(p[i]) \in 1 .. 26
<1>1. p \in Seq(Capitals) /\ Len(p) = n
  BY DEF LongWords, Palavras
<1>2. \A i \in 1 .. n : p[i] \in Capitals
  BY <1>1
<1> QED BY <1>2, PlaceOf

\* It is a strict total order.
LEMMA OrderOfWords ==
  ASSUME NEW n \in Nat
  PROVE  /\ \A p \in LongWords(n) : ~ palavra_potencial_menor(p, p)
         /\ \A p, q, r \in LongWords(n) :
              palavra_potencial_menor(p, q) /\ palavra_potencial_menor(q, r)
                => palavra_potencial_menor(p, r)
         /\ \A p, q \in LongWords(n) :
              p = q \/ palavra_potencial_menor(p, q) \/ palavra_potencial_menor(q, p)
<1>1. ASSUME NEW p \in LongWords(n) PROVE ~ palavra_potencial_menor(p, p)
  <2>1. \A i \in 1 .. n : Place(p[i]) \in 1 .. 26
    BY LettersOf
  <2>2. \A i \in 1 .. n : ~ Before(p, p, i)
    BY <2>1 DEF Before
  <2> QED BY <2>2, Compared
<1>2. ASSUME NEW p \in LongWords(n), NEW q \in LongWords(n), NEW r \in LongWords(n),
             palavra_potencial_menor(p, q), palavra_potencial_menor(q, r)
      PROVE  palavra_potencial_menor(p, r)
  <2>1. PICK i \in 1 .. n : Before(p, q, i)
    BY <1>2, Compared
  <2>2. PICK j \in 1 .. n : Before(q, r, j)
    BY <1>2, Compared
  <2>3. \A k \in 1 .. n : Place(p[k]) \in Int /\ Place(q[k]) \in Int /\ Place(r[k]) \in Int
    BY LettersOf
  <2>4. CASE i < j
    <3>1. Before(p, r, i)
      BY <2>1, <2>2, <2>4 DEF Before
    <3> QED BY <3>1, Compared
  <2>5. CASE j < i
    <3>1. Before(p, r, j)
      BY <2>1, <2>2, <2>5 DEF Before
    <3> QED BY <3>1, Compared
  <2>6. CASE i = j
    <3>1. Before(p, r, i)
      BY <2>1, <2>2, <2>3, <2>6 DEF Before
    <3> QED BY <3>1, Compared
  <2> QED BY <2>4, <2>5, <2>6
<1>3. ASSUME NEW p \in LongWords(n), NEW q \in LongWords(n), p # q
      PROVE  palavra_potencial_menor(p, q) \/ palavra_potencial_menor(q, p)
  <2> DEFINE D == {i \in 1 .. n : p[i] # q[i]}
  <2>1. D # {}
    <3>1. p \in Seq(Capitals) /\ q \in Seq(Capitals) /\ Len(p) = n /\ Len(q) = n
      BY DEF LongWords, Palavras
    <3> QED BY <1>3, <3>1
  <2>2. PICK i \in D : \A k \in D : i <= k
    <3>1. D \in SUBSET Nat
      OBVIOUS
    <3> HIDE DEF D
    <3> QED BY <2>1, <3>1, LeastNumber
  <2>3. \A j \in 1 .. i - 1 : p[j] = q[j]
    BY <2>2
  <2>4. Place(p[i]) \in Int /\ Place(q[i]) \in Int /\ Place(p[i]) # Place(q[i])
    <3>1. p[i] \in Capitals /\ q[i] \in Capitals
      BY <2>2, LettersOf
    <3>2. p[i] # q[i]
      BY <2>2
    <3> QED BY <3>1, <3>2, PlaceOf
  <2>5. Before(p, q, i) \/ Before(q, p, i)
    BY <2>3, <2>4 DEF Before
  <2> QED BY <2>2, <2>5, Compared
<1> QED BY <1>1, <1>2, <1>3

Spot(l, w) == Cardinality({i \in DOMAIN l : ~ palavra_potencial_menor(w, l[i])})

\* A word goes into a list at its spot, and those from there on move up.
LEMMA InsertedAt ==
  ASSUME NEW l \in Seq(Palavras), NEW w \in Palavras
  PROVE  /\ Spot(l, w) \in 0 .. Len(l)
         /\ insort(l, w) \in Seq(Palavras) /\ Len(insort(l, w)) = Len(l) + 1
         /\ \A i \in 1 .. Len(l) + 1 :
              insort(l, w)[i] = IF i <= Spot(l, w) THEN l[i]
                                ELSE IF i = Spot(l, w) + 1 THEN w ELSE l[i - 1]
<1> DEFINE before == {i \in DOMAIN l : ~ palavra_potencial_menor(w, l[i])}
           k      == Spot(l, w)
<1>1. DOMAIN l = 1 .. Len(l) /\ Len(l) \in Nat
  OBVIOUS
<1>2. k \in Nat /\ k <= Len(l)
  <2>1. before \in SUBSET (1 .. Len(l)) /\ k = Cardinality(before)
    BY <1>1 DEF Spot
  <2>2. IsFiniteSet(1 .. Len(l)) /\ Cardinality(1 .. Len(l)) = Len(l)
    BY <1>1, FS_Interval, SMTT(30)
  <2> HIDE DEF before, k
  <2> QED BY <2>1, <2>2, FS_Subset, FS_CardinalityType
<1>3. insort(l, w) = SubSeq(l, 1, k) \o <<w>> \o SubSeq(l, k + 1, Len(l))
  BY DEF insort, Spot
<1> HIDE DEF k
<1> DEFINE first == SubSeq(l, 1, k)
           last  == SubSeq(l, k + 1, Len(l))
<1>4. first \in Seq(Palavras) /\ Len(first) = k /\ \A i \in 1 .. k : first[i] = l[i]
  BY <1>1, <1>2
<1>5. last \in Seq(Palavras) /\ Len(last) = Len(l) - k /\ \A i \in 1 .. Len(l) - k : last[i] = l[k + i]
  <2>1. \A i \in k + 1 .. Len(l) : l[i] \in Palavras
    BY <1>1, <1>2
  <2>2. last \in Seq(Palavras)
    BY <1>1, <1>2, <2>1, SubSeqProperties
  <2>3. Len(last) = Len(l) - k
    <3>1. Len(last) = IF k + 1 <= Len(l) THEN Len(l) - (k + 1) + 1 ELSE 0
      BY <1>1, <1>2, <2>1, SubSeqProperties
    <3>2. \A n \in Nat, j \in Nat : j <= n =>
            (IF j + 1 <= n THEN n - (j + 1) + 1 ELSE 0) = n - j
      OBVIOUS
    <3> QED BY <1>1, <1>2, <3>1, <3>2, Zenon
  <2>4. \A i \in 1 .. Len(l) - k : last[i] = l[k + i]
    BY <1>1, <1>2, SubSeqProperties
  <2> QED BY <2>2, <2>3, <2>4
<1> DEFINE all == first \o <<w>> \o last
<1>6. all \in Seq(Palavras) /\ Len(all) = Len(l) + 1
      /\ \A i \in 1 .. Len(l) + 1 :
           all[i] = IF i <= k THEN first[i] ELSE IF i = k + 1 THEN w ELSE last[i - k - 1]
  <2> HIDE DEF first, last
  <2> QED BY <1>1, <1>2, <1>4, <1>5
<1>7. \A i \in 1 .. Len(l) + 1 :
        all[i] = IF i <= k THEN l[i] ELSE IF i = k + 1 THEN w ELSE l[i - 1]
  <2> HIDE DEF all, first, last
  <2> TAKE i \in 1 .. Len(l) + 1
  <2>1. CASE i <= k
    BY <1>1, <1>2, <1>4, <1>6, <2>1
  <2>2. CASE i = k + 1
    BY <1>1, <1>2, <1>6, <2>2
  <2>3. CASE i > k + 1
    <3>1. i - k - 1 \in 1 .. Len(l) - k /\ k + (i - k - 1) = i - 1
      BY <1>1, <1>2, <2>3
    <3>2. last[i - k - 1] = l[k + (i - k - 1)]
      BY <1>5, <3>1
    <3>3. all[i] = last[i - k - 1]
      BY <1>1, <1>2, <1>6, <2>3
    <3>4. ~ (i <= k) /\ i # k + 1
      BY <1>1, <1>2, <2>3
    <3> QED BY <3>1, <3>2, <3>3, <3>4
  <2> QED BY <1>1, <1>2, <2>1, <2>2, <2>3
<1>8. insort(l, w) = all
  BY <1>3
<1> HIDE DEF all, first, last
<1> QED BY <1>1, <1>2, <1>6, <1>7, <1>8 DEF k

\* Nothing else changes.
LEMMA Inserted ==
  ASSUME NEW l \in Seq(Palavras), NEW w \in Palavras
  PROVE  insort(l, w) \in Seq(Palavras) /\ Elements(insort(l, w)) = Elements(l) \union {w}
<1> DEFINE all == insort(l, w)
           k   == Spot(l, w)
<1>1. Len(l) \in Nat
  OBVIOUS
<1>2. /\ k \in 0 .. Len(l) /\ all \in Seq(Palavras) /\ Len(all) = Len(l) + 1
      /\ \A i \in 1 .. Len(l) + 1 :
           all[i] = IF i <= k THEN l[i] ELSE IF i = k + 1 THEN w ELSE l[i - 1]
  BY InsertedAt
<1> HIDE DEF all, k
<1>3. ASSUME NEW x \in Elements(all) PROVE x \in Elements(l) \union {w}
  <2>1. PICK i \in 1 .. Len(all) : all[i] = x
    BY <1>2, <1>3, ElementsOf
  <2>2. i \in 1 .. Len(l) + 1
    BY <1>2, <2>1
  <2>3. i \in 1 .. Len(l) \/ i = k + 1 \/ (i > k + 1 /\ i - 1 \in 1 .. Len(l))
    BY <1>1, <1>2, <2>2
  <2>4. x = w \/ \E j \in 1 .. Len(l) : l[j] = x
    BY <1>1, <1>2, <2>1, <2>2, <2>3
  <2> QED BY <2>4, ElementsOf
<1>4. w \in Elements(all)
  <2>1. k + 1 \in 1 .. Len(l) + 1 /\ all[k + 1] = w
    BY <1>1, <1>2
  <2> QED BY <1>2, <2>1, ElementsOf
<1>5. ASSUME NEW x \in Elements(l) PROVE x \in Elements(all)
  <2>1. PICK i \in 1 .. Len(l) : l[i] = x
    BY <1>5, ElementsOf
  <2>2. CASE i <= k
    <3>1. i \in 1 .. Len(l) + 1 /\ all[i] = x
      BY <1>1, <1>2, <2>1, <2>2
    <3> QED BY <1>2, <3>1, ElementsOf
  <2>3. CASE i > k
    <3>1. i + 1 \in 1 .. Len(l) + 1 /\ all[i + 1] = x
      BY <1>1, <1>2, <2>1, <2>3
    <3> QED BY <1>2, <3>1, ElementsOf
  <2> QED BY <1>1, <1>2, <2>2, <2>3
<1> QED BY <1>2, <1>3, <1>4, <1>5 DEF all

(***************************************************************************)
(* Lists in order.                                                         *)
(***************************************************************************)
InOrder(l) == \A a, b \in 1 .. Len(l) : a < b => palavra_potencial_menor(l[a], l[b])

\* Numbers that come with all smaller ones are those up to their count.
LEMMA InitialSegment ==
  ASSUME NEW n \in Nat, NEW B \in SUBSET (1 .. n),
         \A b \in B : \A a \in 1 .. n : a < b => a \in B
  PROVE  B = 1 .. Cardinality(B)
<1> DEFINE Out == {i \in 1 .. n + 1 : i \notin B}
<1>1. PICK m \in Out : \A k \in Out : m <= k
  <2>1. Out \in SUBSET Nat /\ n + 1 \in Out
    OBVIOUS
  <2> HIDE DEF Out
  <2> QED BY <2>1, LeastNumber
<1>2. m \in 1 .. n + 1 /\ m \notin B
  BY <1>1
<1>3. \A i \in 1 .. m - 1 : i \in B
  <2>1. ASSUME NEW i \in 1 .. m - 1, i \notin B PROVE FALSE
    <3>1. i \in Out /\ i < m
      BY <1>2, <2>1
    <3> QED BY <1>1, <1>2, <3>1
  <2> QED BY <2>1
<1>4. \A b \in B : b \in 1 .. m - 1
  BY <1>2
<1>5. B = 1 .. m - 1
  BY <1>3, <1>4
<1>6. Cardinality(1 .. m - 1) = m - 1
  <2>1. m - 1 \in Nat /\ 1 \in Int
    BY <1>2
  <2>2. m - 1 \in Int
    BY <2>1
  <2>3. Cardinality(1 .. m - 1) = IF 1 > m - 1 THEN 0 ELSE m - 1 - 1 + 1
    BY <2>1, <2>2, FS_Interval
  <2> QED BY <2>1, <2>3
<1> QED BY <1>5, <1>6

\* insort keeps the order of words of one length.
LEMMA InsertedInOrder ==
  ASSUME NEW n \in Nat, NEW l \in Seq(Palavras), NEW w \in LongWords(n),
         \A i \in 1 .. Len(l) : Len(l[i]) = n, InOrder(l), w \notin Elements(l)
  PROVE  InOrder(insort(l, w))
<1> DEFINE L      == Len(l)
           before == {i \in DOMAIN l : ~ palavra_potencial_menor(w, l[i])}
           k      == Spot(l, w)
           new    == insort(l, w)
<1>1. L \in Nat /\ DOMAIN l = 1 .. L /\ w \in Palavras
  BY DEF LongWords
<1>2. \A i \in 1 .. L : l[i] \in LongWords(n) /\ l[i] # w
  <2>1. \A i \in 1 .. L : l[i] \in Palavras
    BY <1>1
  <2> QED BY <1>1, <2>1, ElementsOf DEF LongWords
<1>3. before \in SUBSET (1 .. L) /\ \A b \in before : \A a \in 1 .. L : a < b => a \in before
  <2>1. ASSUME NEW b \in before, NEW a \in 1 .. L, a < b PROVE a \in before
    <3>1. b \in 1 .. L /\ ~ palavra_potencial_menor(w, l[b])
      BY <1>1
    <3>2. palavra_potencial_menor(l[a], l[b])
      BY <2>1, <3>1 DEF InOrder
    <3>3. ~ palavra_potencial_menor(w, l[a])
      BY <1>2, <3>1, <3>2, OrderOfWords
    <3> QED BY <1>1, <3>3
  <2> QED BY <1>1, <2>1
<1>4. k = Cardinality(before)
  BY DEF Spot
<1>5. /\ \A i \in 1 .. L : i <= k => palavra_potencial_menor(l[i], w)
      /\ \A i \in 1 .. L : i > k => palavra_potencial_menor(w, l[i])
  <2>1. k \in 0 .. L
    BY <1>1, InsertedAt
  <2>2. before = 1 .. k
    <3> HIDE DEF before, k
    <3> QED BY <1>1, <1>3, <1>4, InitialSegment
  <2>3. \A i \in 1 .. L : i <= k <=> ~ palavra_potencial_menor(w, l[i])
    <3>1. \A i \in 1 .. L : i \in before <=> ~ palavra_potencial_menor(w, l[i])
      BY <1>1
    <3>2. \A i \in 1 .. L : i \in before <=> i <= k
      BY <2>1, <2>2
    <3> QED BY <3>1, <3>2
  <2>4. \A i \in 1 .. L : palavra_potencial_menor(l[i], w) \/ palavra_potencial_menor(w, l[i])
    BY <1>2, OrderOfWords
  <2> HIDE DEF k, before, L
  <2> QED BY <1>1, <2>1, <2>3, <2>4
<1>6. /\ k \in 0 .. L /\ Len(new) = L + 1
      /\ \A i \in 1 .. L + 1 :
           new[i] = IF i <= k THEN l[i] ELSE IF i = k + 1 THEN w ELSE l[i - 1]
  BY <1>1, InsertedAt
<1> SUFFICES ASSUME NEW a \in 1 .. L + 1, NEW b \in 1 .. L + 1, a < b
             PROVE  palavra_potencial_menor(new[a], new[b])
  BY <1>6 DEF InOrder
<1> HIDE DEF new, k, before
<1>7. \A i, j \in 1 .. L : i < j => palavra_potencial_menor(l[i], l[j])
  BY DEF InOrder
<1> HIDE DEF L
<1>8. CASE b <= k
  <2>1. new[a] = l[a] /\ new[b] = l[b] /\ a \in 1 .. L /\ b \in 1 .. L
    BY <1>1, <1>6, <1>8
  <2> QED BY <1>7, <2>1
<1>9. CASE b = k + 1
  <2>1. new[a] = l[a] /\ new[b] = w /\ a \in 1 .. L /\ a <= k
    BY <1>1, <1>6, <1>9
  <2> QED BY <1>5, <2>1
<1>10. CASE b > k + 1
  <2>1. new[b] = l[b - 1] /\ b - 1 \in 1 .. L /\ b - 1 > k
    BY <1>1, <1>6, <1>10
  <2>2. CASE a <= k
    <3>1. new[a] = l[a] /\ a \in 1 .. L /\ a < b - 1
      BY <1>1, <1>6, <1>10, <2>2
    <3> QED BY <1>7, <2>1, <3>1
  <2>3. CASE a = k + 1
    BY <1>1, <1>5, <1>6, <2>1, <2>3
  <2>4. CASE a > k + 1
    <3>1. new[a] = l[a - 1] /\ a - 1 \in 1 .. L /\ a - 1 < b - 1
      BY <1>1, <1>6, <2>4
    <3> QED BY <1>7, <2>1, <3>1
  <2> QED BY <1>1, <1>6, <2>2, <2>3, <2>4
<1> QED BY <1>1, <1>6, <1>8, <1>9, <1>10

\* There is one list in order of some words of one length.
LEMMA OneOrder ==
  ASSUME NEW n \in Nat, NEW l \in Seq(Palavras), NEW m \in Seq(Palavras),
         \A i \in 1 .. Len(l) : Len(l[i]) = n, InOrder(l), InOrder(m),
         Elements(l) = Elements(m)
  PROVE  l = m
<1>1. Len(l) \in Nat /\ Len(m) \in Nat
  OBVIOUS
<1>2. /\ \A i \in 1 .. Len(l) : \E j \in 1 .. Len(m) : m[j] = l[i]
      /\ \A i \in 1 .. Len(m) : \E j \in 1 .. Len(l) : l[j] = m[i]
  BY ElementsOf
<1>3. /\ \A i \in 1 .. Len(l) : l[i] \in LongWords(n)
      /\ \A i \in 1 .. Len(m) : m[i] \in LongWords(n)
  <2>1. \A i \in 1 .. Len(l) : l[i] \in LongWords(n)
    BY DEF LongWords
  <2> QED BY <1>2, <2>1
<1>4. ASSUME NEW p \in LongWords(n), NEW q \in LongWords(n), palavra_potencial_menor(p, q)
      PROVE  p # q /\ ~ palavra_potencial_menor(q, p)
  BY <1>4, OrderOfWords
<1> DEFINE S == {k \in Nat : \A i \in 1 .. k : i <= Len(l) => i <= Len(m) /\ l[i] = m[i]}
<1>5. 0 \in S
  OBVIOUS
<1>6. ASSUME NEW k \in Nat, k \in S PROVE k + 1 \in S
  <2> SUFFICES ASSUME k + 1 <= Len(l) PROVE k + 1 <= Len(m) /\ l[k + 1] = m[k + 1]
    <3>1. \A i \in 1 .. k + 1 : i \in 1 .. k \/ i = k + 1
      OBVIOUS
    <3> QED BY <1>6, <3>1
  <2>1. \A i \in 1 .. k : i \in 1 .. Len(l) /\ i \in 1 .. Len(m) /\ l[i] = m[i] /\ i < k + 1
    BY <1>1, <1>6
  <2>2. k + 1 \in 1 .. Len(l)
    BY <1>1
  <2>3. PICK j \in 1 .. Len(m) : m[j] = l[k + 1]
    BY <1>2, <2>2
  <2>4. j >= k + 1
    <3> SUFFICES ASSUME j \in 1 .. k PROVE FALSE
      BY <1>1
    <3>1. palavra_potencial_menor(l[j], l[k + 1]) /\ l[j] = m[j]
      BY <2>1, <2>2 DEF InOrder
    <3> QED BY <1>3, <1>4, <2>1, <2>2, <2>3, <3>1
  <2>5. k + 1 \in 1 .. Len(m)
    BY <1>1, <2>3, <2>4
  <2>6. PICK h \in 1 .. Len(l) : l[h] = m[k + 1]
    BY <1>2, <2>5
  <2>7. h >= k + 1
    <3> SUFFICES ASSUME h \in 1 .. k PROVE FALSE
      BY <1>1
    <3>1. palavra_potencial_menor(m[h], m[k + 1]) /\ l[h] = m[h]
      BY <2>1, <2>5 DEF InOrder
    <3> QED BY <1>3, <1>4, <2>1, <2>5, <2>6, <3>1
  <2>8. CASE j = k + 1
    BY <2>3, <2>5, <2>8
  <2>9. CASE h = k + 1
    BY <2>5, <2>6, <2>9
  <2>10. CASE j > k + 1 /\ h > k + 1
    <3>1. palavra_potencial_menor(m[k + 1], m[j])
      BY <2>5, <2>10 DEF InOrder
    <3>2. palavra_potencial_menor(l[k + 1], l[h])
      BY <2>2, <2>10 DEF InOrder
    <3> QED BY <1>3, <1>4, <2>2, <2>3, <2>5, <2>6, <3>1, <3>2
  <2> QED BY <2>4, <2>7, <2>8, <2>9, <2>10
<1>7. Nat \subseteq S
  <2> HIDE DEF S
  <2> QED BY <1>5, <1>6, NatInduct
<1>8. \A i \in 1 .. Len(l) : i <= Len(m) /\ l[i] = m[i]
  <2>1. Len(l) \in S
    BY <1>1, <1>7
  <2> QED BY <1>1, <2>1
<1>9. Len(l) <= Len(m)
  <2>1. CASE Len(l) = 0
    BY <1>1, <2>1
  <2>2. CASE Len(l) # 0
    <3>1. Len(l) \in 1 .. Len(l)
      BY <1>1, <2>2
    <3> QED BY <1>8, <3>1
  <2> QED BY <2>1, <2>2
<1>10. Len(m) <= Len(l)
  <2> SUFFICES ASSUME Len(l) + 1 <= Len(m) PROVE FALSE
    BY <1>1
  <2>1. Len(l) + 1 \in 1 .. Len(m)
    BY <1>1
  <2>2. PICK h \in 1 .. Len(l) : l[h] = m[Len(l) + 1]
    BY <1>2, <2>1
  <2>3. h \in 1 .. Len(m) /\ h < Len(l) + 1 /\ m[h] = l[h]
    BY <1>1, <1>8, <2>1
  <2>4. palavra_potencial_menor(m[h], m[Len(l) + 1])
    BY <2>1, <2>3 DEF InOrder
  <2> QED BY <1>3, <1>4, <2>1, <2>2, <2>3, <2>4
<1>11. Len(l) = Len(m)
  BY <1>1, <1>9, <1>10
<1> QED BY <1>8, <1>11

(***************************************************************************)
(* What the words of some rows are worth.                                  *)
(***************************************************************************)
RowAt(rows, i) == IF i <= Len(rows) THEN rows[i] ELSE <<>>

Sums(rows, f) ==
  /\ f \in [Nat -> Int] /\ f[0] = 0
  /\ \A i \in Nat : f[i + 1] = f[i] + i * Len(RowAt(rows, i + 1))

SumsOf(rows) == CHOOSE f \in [Nat -> Int] : Sums(rows, f)
Total(rows)  == SumsOf(rows)[Len(rows)]

LEMMA RowsAt ==
  ASSUME NEW rows \in Rows, NEW i \in Nat \ {0}
  PROVE  RowAt(rows, i) \in Seq(Palavras) /\ Len(RowAt(rows, i)) \in Nat
<1>1. <<>> \in Seq(Palavras)
  OBVIOUS
<1>2. i <= Len(rows) => rows[i] \in Seq(Palavras)
  BY DEF Rows
<1>3. RowAt(rows, i) \in Seq(Palavras)
  BY <1>1, <1>2 DEF RowAt
<1> QED BY <1>3

LEMMA SumsExist ==
  ASSUME NEW rows \in Rows
  PROVE  Sums(rows, SumsOf(rows))
<1> DEFINE F == [i \in Nat |-> [s \in Int |-> s + i * Len(RowAt(rows, i + 1))]]
<1>1. F \in [Nat -> [Int -> Int]]
  <2>1. ASSUME NEW i \in Nat, NEW s \in Int
        PROVE  s + i * Len(RowAt(rows, i + 1)) \in Int
    <3>1. Len(RowAt(rows, i + 1)) \in Nat
      BY RowsAt
    <3>2. i * Len(RowAt(rows, i + 1)) \in Int
      BY <3>1
    <3> QED BY <3>2
  <2> QED BY <2>1
<1>2. \A i \in Nat : \A s \in Int : F[i][s] = s + i * Len(RowAt(rows, i + 1))
  OBVIOUS
<1> HIDE DEF F
<1>3. PICK f \in [Nat -> Int] : f[0] = 0 /\ \A i \in Nat : f[i + 1] = F[i][f[i]]
  <2>1. PICK A : A = Int
    OBVIOUS
  <2>2. PICK zero \in A : zero = 0
    BY <2>1
  <2>3. Recurses(A, zero, F, Recursed(A, zero, F))
    BY <1>1, <2>1, Recursion
  <2> QED BY <2>1, <2>2, <2>3 DEF Recurses
<1>4. Sums(rows, f)
  BY <1>2, <1>3 DEF Sums
<1>5. \E g \in [Nat -> Int] : Sums(rows, g)
  BY <1>4
<1> QED BY <1>5, Zenon DEF SumsOf

LEMMA TotalType ==
  ASSUME NEW rows \in Rows PROVE Total(rows) \in Int
<1>1. SumsOf(rows) \in [Nat -> Int]
  BY SumsExist DEF Sums
<1>2. Len(rows) \in Nat
  BY DEF Rows
<1> QED BY <1>1, <1>2 DEF Total

\* Rows beyond the last are worth nothing.
LEMMA TotalBeyond ==
  ASSUME NEW rows \in Rows, NEW n \in Nat, n >= Len(rows)
  PROVE  SumsOf(rows)[n] = Total(rows)
<1> DEFINE k == Len(rows)
           f == SumsOf(rows)
           S == {i \in Nat : i >= k => f[i] = f[k]}
<1>1. k \in Nat
  BY DEF Rows
<1>2. Sums(rows, f)
  BY SumsExist
<1>3. ASSUME NEW i \in Nat, i >= k PROVE i * Len(RowAt(rows, i + 1)) = 0
  <2>1. RowAt(rows, i + 1) = <<>>
    BY <1>1, <1>3 DEF RowAt
  <2> QED BY <2>1
<1> HIDE DEF k, f
<1>4. 0 \in S
  BY <1>1
<1>5. ASSUME NEW i \in Nat, i \in S PROVE i + 1 \in S
  <2>1. f[i] \in Int /\ f[k] \in Int /\ f[i + 1] = f[i] + i * Len(RowAt(rows, i + 1))
    BY <1>1, <1>2 DEF Sums
  <2>2. CASE i >= k
    <3>1. i * Len(RowAt(rows, i + 1)) = 0
      BY <1>3, <2>2
    <3>2. f[i + 1] = f[k]
      BY <1>5, <2>1, <2>2, <3>1
    <3> QED BY <3>2
  <2>3. CASE ~ (i >= k)
    <3>1. i + 1 >= k => i + 1 = k
      BY <1>1, <2>3
    <3> QED BY <3>1
  <2> QED BY <2>2, <2>3
<1>6. n \in S
  <2> HIDE DEF S
  <2> QED BY <1>4, <1>5, NatInduct
<1>7. f[n] = f[k]
  BY <1>6 DEF k
<1> QED BY <1>7 DEF Total, f, k

\* A word more is worth its length.
LEMMA TotalOneMore ==
  ASSUME NEW rows \in Rows, NEW more \in Rows, NEW r \in Nat, r + 1 <= Len(more),
         Len(more) >= Len(rows),
         \A i \in Nat : Len(RowAt(more, i + 1)) =
           IF i = r THEN Len(RowAt(rows, i + 1)) + 1 ELSE Len(RowAt(rows, i + 1))
  PROVE  Total(more) = Total(rows) + r
<1> DEFINE f == SumsOf(rows)
           g == SumsOf(more)
           S == {i \in Nat : g[i] = IF i <= r THEN f[i] ELSE f[i] + r}
<1>1. Sums(rows, f) /\ Sums(more, g)
  BY SumsExist
<1> HIDE DEF f, g
<1>2. 0 \in S
  BY <1>1 DEF Sums
<1>3. ASSUME NEW i \in Nat, i \in S PROVE i + 1 \in S
  <2> DEFINE L == Len(RowAt(rows, i + 1))
             M == Len(RowAt(more, i + 1))
  <2>1. f[i + 1] = f[i] + i * L /\ g[i + 1] = g[i] + i * M
    BY <1>1 DEF Sums
  <2>2. f[i] \in Int /\ g[i] \in Int
    BY <1>1 DEF Sums
  <2>3. L \in Nat /\ M = IF i = r THEN L + 1 ELSE L
    BY RowsAt
  <2>4. i * L \in Int /\ i * (L + 1) = i * L + i
    BY <2>3
  <2> HIDE DEF L, M
  <2>5. CASE i < r
    <3>1. g[i] = f[i] /\ M = L
      BY <1>3, <2>3, <2>5
    <3> QED BY <2>1, <2>5, <3>1
  <2>6. CASE i = r
    <3>1. g[i] = f[i] /\ M = L + 1
      BY <1>3, <2>3, <2>6
    <3>2. g[i + 1] = f[i + 1] + r
      BY <2>1, <2>2, <2>4, <2>6, <3>1
    <3> QED BY <2>6, <3>2
  <2>7. CASE i > r
    <3>1. g[i] = f[i] + r /\ M = L
      BY <1>3, <2>3, <2>7
    <3>2. g[i + 1] = f[i + 1] + r
      BY <2>1, <2>2, <2>4, <3>1
    <3> QED BY <2>7, <3>2
  <2> QED BY <2>5, <2>6, <2>7
<1>4. Len(more) \in Nat /\ Len(more) \in S
  <2> HIDE DEF S
  <2>1. Len(more) \in Nat
    BY DEF Rows
  <2>2. Nat \subseteq S
    BY <1>2, <1>3, NatInduct
  <2> QED BY <2>1, <2>2
<1>5. g[Len(more)] = f[Len(more)] + r
  BY <1>4
<1>6. f[Len(more)] = Total(rows)
  BY <1>4, TotalBeyond DEF f
<1> QED BY <1>5, <1>6 DEF Total, g

(***************************************************************************)
(* Words as they are written.                                              *)
(***************************************************************************)
Entries == Nat \X Seq(Palavras)

WorthEqn(cadeia, f) ==
  f = [i \in 0 .. Len(cadeia) |->
         IF i = 0 THEN 0 ELSE f[i - 1] + cadeia[i][1] * Len(cadeia[i][2])]

WorthOf(cadeia) == CHOOSE f : WorthEqn(cadeia, f)

LEMMA WorthIs ==
  ASSUME NEW s \in Seq(Entries)
  PROVE  /\ Worth(s) = WorthOf(s)[Len(s)]
         /\ WorthOf(s)[0] = 0
         /\ \A i \in 0 .. Len(s) : WorthOf(s)[i] \in Int
         /\ \A i \in 1 .. Len(s) : WorthOf(s)[i] = WorthOf(s)[i - 1] + s[i][1] * Len(s[i][2])
<1> DEFINE worth(i) == IF i \in 1 .. Len(s) THEN s[i][1] * Len(s[i][2]) ELSE 0
           F == [i \in Nat |-> [t \in Int |-> t + worth(i + 1)]]
<1>1. \A i \in Nat : worth(i) \in Int
  <2>1. \A i \in 1 .. Len(s) : s[i][1] \in Nat /\ Len(s[i][2]) \in Nat
    <3>1. \A i \in 1 .. Len(s) : s[i] \in Entries
      OBVIOUS
    <3> QED BY <3>1 DEF Entries
  <2>2. \A a \in Nat, b \in Nat : a * b \in Int
    OBVIOUS
  <2> QED BY <2>1, <2>2
<1> HIDE DEF worth
<1>2. F \in [Nat -> [Int -> Int]]
  BY <1>1
<1>3. \A i \in Nat : \A t \in Int : F[i][t] = t + worth(i + 1)
  OBVIOUS
<1> HIDE DEF F
<1>4. PICK g \in [Nat -> Int] : g[0] = 0 /\ \A i \in Nat : g[i + 1] = F[i][g[i]]
  <2>1. PICK A : A = Int
    OBVIOUS
  <2>2. PICK zero \in A : zero = 0
    BY <2>1
  <2>3. Recurses(A, zero, F, Recursed(A, zero, F))
    BY <1>2, <2>1, Recursion
  <2> QED BY <2>1, <2>2, <2>3 DEF Recurses
<1>5. Len(s) \in Nat
  OBVIOUS
<1> DEFINE f == [i \in 0 .. Len(s) |-> g[i]]
<1>6. WorthEqn(s, f)
  <2>1. ASSUME NEW i \in 1 .. Len(s) PROVE g[i] = g[i - 1] + s[i][1] * Len(s[i][2])
    <3>1. i - 1 \in Nat /\ (i - 1) + 1 = i
      BY <1>5
    <3>2. g[i] = g[i - 1] + worth(i)
      BY <1>3, <1>4, <3>1
    <3> QED BY <3>2 DEF worth
  <2>2. \A i \in 0 .. Len(s) :
          f[i] = IF i = 0 THEN 0 ELSE f[i - 1] + s[i][1] * Len(s[i][2])
    <3> SUFFICES ASSUME NEW i \in 0 .. Len(s)
                 PROVE  f[i] = IF i = 0 THEN 0 ELSE f[i - 1] + s[i][1] * Len(s[i][2])
      OBVIOUS
    <3>1. CASE i = 0
      BY <1>4, <3>1
    <3>2. CASE i # 0
      <4>1. i \in 1 .. Len(s) /\ i - 1 \in 0 .. Len(s)
        BY <1>5, <3>2
      <4>2. f[i] = g[i] /\ f[i - 1] = g[i - 1]
        BY <4>1
      <4> QED BY <2>1, <3>2, <4>1, <4>2
    <3> QED BY <3>1, <3>2
  <2>3. f = [i \in 0 .. Len(s) |-> f[i]]
    OBVIOUS
  <2> HIDE DEF f
  <2> QED BY <2>2, <2>3 DEF WorthEqn
<1>7. WorthEqn(s, WorthOf(s))
  BY <1>6 DEF WorthOf
<1>8. WorthOf(s)[0] = 0
      /\ \A i \in 1 .. Len(s) : WorthOf(s)[i] = WorthOf(s)[i - 1] + s[i][1] * Len(s[i][2])
  <2> DEFINE h == WorthOf(s)
  <2> HIDE DEF h
  <2>1. WorthEqn(s, h)
    BY <1>7 DEF h
  <2>2. \A i \in 0 .. Len(s) : h[i] = IF i = 0 THEN 0 ELSE h[i - 1] + s[i][1] * Len(s[i][2])
    BY <2>1 DEF WorthEqn
  <2>3. \A i \in 1 .. Len(s) : i \in 0 .. Len(s) /\ i # 0
    BY <1>5
  <2>4. 0 \in 0 .. Len(s)
    BY <1>5
  <2> QED BY <2>2, <2>3, <2>4 DEF h
<1>9. \A i \in 0 .. Len(s) : WorthOf(s)[i] \in Int
  <2> DEFINE S == {i \in 0 .. Len(s) : WorthOf(s)[i] \in Int}
  <2>1. 0 \in S
    BY <1>5, <1>8
  <2>2. ASSUME NEW i \in 1 .. Len(s), i - 1 \in S PROVE i \in S
    <3>1. worth(i) \in Int /\ WorthOf(s)[i - 1] \in Int
      BY <1>1, <1>5, <2>2
    <3>2. WorthOf(s)[i] = WorthOf(s)[i - 1] + worth(i)
      BY <1>8 DEF worth
    <3>3. WorthOf(s)[i] \in Int
      BY <3>1, <3>2
    <3> QED BY <1>5, <3>3
  <2> HIDE DEF S
  <2>3. 0 .. Len(s) \subseteq S
    BY <1>5, <2>1, <2>2, BoundedInduct
  <2> QED BY <2>3 DEF S
<1>10. Worth(s) = WorthOf(s)[Len(s)]
  BY DEF Worth, WorthOf, WorthEqn
<1> QED BY <1>8, <1>9, <1>10

\* An entry is worth its words.
LEMMA WorthAppend ==
  ASSUME NEW s \in Seq(Entries), NEW n \in Nat, NEW l \in Seq(Palavras)
  PROVE  Worth(Append(s, <<n, l>>)) = Worth(s) + n * Len(l) /\ Worth(s) \in Int
<1> DEFINE t == Append(s, <<n, l>>)
           f == WorthOf(s)
           g == WorthOf(t)
           S == {i \in 0 .. Len(s) : g[i] = f[i]}
<1>1. t \in Seq(Entries) /\ Len(t) = Len(s) + 1 /\ Len(s) \in Nat /\ t[Len(s) + 1] = <<n, l>>
      /\ \A i \in 1 .. Len(s) : t[i] = s[i]
  BY DEF Entries
<1> HIDE DEF t, f, g
<1>2. f[0] = 0 /\ (\A i \in 1 .. Len(s) : f[i] = f[i - 1] + s[i][1] * Len(s[i][2]))
      /\ Worth(s) = f[Len(s)] /\ f[Len(s)] \in Int
  BY <1>1, WorthIs DEF f
<1>3. g[0] = 0 /\ (\A i \in 1 .. Len(s) + 1 : g[i] = g[i - 1] + t[i][1] * Len(t[i][2]))
      /\ Worth(t) = g[Len(s) + 1]
  BY <1>1, WorthIs DEF g
<1>4. Len(s) \in S
  <2>1. 0 \in S
    BY <1>1, <1>2, <1>3
  <2>2. ASSUME NEW i \in 1 .. Len(s), i - 1 \in S PROVE i \in S
    BY <1>1, <1>2, <1>3, <2>2, SMTT(30)
  <2> HIDE DEF S
  <2>3. 0 .. Len(s) \subseteq S
    BY <1>1, <2>1, <2>2, BoundedInduct
  <2> QED BY <1>1, <2>3
<1>5. Len(s) + 1 \in 1 .. Len(s) + 1 /\ (Len(s) + 1) - 1 = Len(s)
  BY <1>1
<1>6. g[Len(s) + 1] = g[Len(s)] + n * Len(l)
  BY <1>1, <1>3, <1>5
<1> QED BY <1>2, <1>3, <1>4, <1>6 DEF t

LEMMA WorthEmpty == Worth(<<>>) = 0
<1>1. <<>> \in Seq(Entries) /\ Len(<<>>) = 0
  OBVIOUS
<1> QED BY <1>1, WorthIs

CadeiaEqn(rows, f) ==
  f = [i \in 0 .. Len(rows) |->
         IF i = 0 THEN <<>>
         ELSE IF rows[i] = <<>> THEN f[i - 1]
         ELSE Append(f[i - 1], <<i - 1, rows[i]>>)]

CadeiaOf(rows) == CHOOSE f : CadeiaEqn(rows, f)

LEMMA CadeiaIs ==
  ASSUME NEW conj, conj.palavras \in Rows
  PROVE  LET rows == conj.palavras
             f    == CadeiaOf(rows)
         IN /\ conjunto_palavras_para_cadeia(conj) = f[Len(rows)]
            /\ f[0] = <<>>
            /\ \A i \in 1 .. Len(rows) :
                 f[i] = IF rows[i] = <<>> THEN f[i - 1] ELSE Append(f[i - 1], <<i - 1, rows[i]>>)
<1> DEFINE rows == conj.palavras
           A    == Seq(Entries)
           F    == [i \in Nat |-> [s \in A |->
                     IF i + 1 \in 1 .. Len(rows) /\ rows[i + 1] # <<>>
                     THEN Append(s, <<i, rows[i + 1]>>) ELSE s]]
<1>1. Len(rows) \in Nat /\ \A i \in 1 .. Len(rows) : rows[i] \in Seq(Palavras)
  BY DEF Rows
<1> HIDE DEF rows
<1>2. \A i \in Nat : \A s \in A :
        (IF i + 1 \in 1 .. Len(rows) /\ rows[i + 1] # <<>>
         THEN Append(s, <<i, rows[i + 1]>>) ELSE s) \in A
  <2> SUFFICES ASSUME NEW i \in Nat, NEW s \in A, i + 1 \in 1 .. Len(rows)
               PROVE  Append(s, <<i, rows[i + 1]>>) \in A
    OBVIOUS
  <2>1. PICK e \in Entries : e = <<i, rows[i + 1]>>
    BY <1>1 DEF Entries
  <2>2. Append(s, e) \in A
    OBVIOUS
  <2> QED BY <2>1, <2>2
<1>3. F \in [Nat -> [A -> A]]
  BY <1>2
<1>4. \A i \in Nat : \A s \in A :
        F[i][s] = IF i + 1 \in 1 .. Len(rows) /\ rows[i + 1] # <<>>
                  THEN Append(s, <<i, rows[i + 1]>>) ELSE s
  OBVIOUS
<1>5. <<>> \in A
  OBVIOUS
<1> HIDE DEF F, A
<1>6. PICK g \in [Nat -> A] : g[0] = <<>> /\ \A i \in Nat : g[i + 1] = F[i][g[i]]
  <2>1. PICK empty \in A : empty = <<>>
    BY <1>5
  <2>2. Recurses(A, empty, F, Recursed(A, empty, F))
    BY <1>3, Recursion
  <2> QED BY <2>1, <2>2 DEF Recurses
<1>7. ASSUME NEW i \in 1 .. Len(rows)
      PROVE  g[i] = IF rows[i] = <<>> THEN g[i - 1] ELSE Append(g[i - 1], <<i - 1, rows[i]>>)
  <2>1. i - 1 \in Nat /\ (i - 1) + 1 = i /\ g[i - 1] \in A
    BY <1>1
  <2>2. g[i] = F[i - 1][g[i - 1]]
    BY <1>6, <2>1
  <2> QED BY <1>4, <2>1, <2>2
<1> DEFINE h == [i \in 0 .. Len(rows) |-> g[i]]
<1>8. CadeiaEqn(rows, h)
  <2>1. \A i \in 1 .. Len(rows) : i - 1 \in 0 .. Len(rows)
    BY <1>1
  <2>2. \A i \in 0 .. Len(rows) :
          h[i] = IF i = 0 THEN <<>>
                 ELSE IF rows[i] = <<>> THEN h[i - 1] ELSE Append(h[i - 1], <<i - 1, rows[i]>>)
    <3> SUFFICES ASSUME NEW i \in 0 .. Len(rows)
                 PROVE  h[i] = IF i = 0 THEN <<>>
                               ELSE IF rows[i] = <<>> THEN h[i - 1]
                               ELSE Append(h[i - 1], <<i - 1, rows[i]>>)
      OBVIOUS
    <3>1. CASE i = 0
      BY <1>6, <3>1
    <3>2. CASE i # 0
      <4>1. i \in 1 .. Len(rows) /\ i - 1 \in 0 .. Len(rows)
        BY <1>1, <3>2
      <4>2. h[i] = g[i] /\ h[i - 1] = g[i - 1]
        BY <4>1
      <4> HIDE DEF h
      <4> QED BY <1>7, <3>2, <4>1, <4>2
    <3> QED BY <3>1, <3>2
  <2>3. h = [i \in 0 .. Len(rows) |-> h[i]]
    OBVIOUS
  <2> HIDE DEF h
  <2> QED BY <2>2, <2>3 DEF CadeiaEqn
<1>9. CadeiaEqn(rows, CadeiaOf(rows))
  BY <1>8 DEF CadeiaOf
<1>10. CadeiaOf(rows)[0] = <<>>
       /\ \A i \in 1 .. Len(rows) :
            CadeiaOf(rows)[i] = IF rows[i] = <<>> THEN CadeiaOf(rows)[i - 1]
                                ELSE Append(CadeiaOf(rows)[i - 1], <<i - 1, rows[i]>>)
  <2> DEFINE f == CadeiaOf(rows)
  <2> HIDE DEF f
  <2>1. CadeiaEqn(rows, f)
    BY <1>9 DEF f
  <2>2. \A i \in 0 .. Len(rows) :
          f[i] = IF i = 0 THEN <<>>
                 ELSE IF rows[i] = <<>> THEN f[i - 1] ELSE Append(f[i - 1], <<i - 1, rows[i]>>)
    BY <2>1 DEF CadeiaEqn
  <2>3. \A i \in 1 .. Len(rows) : i \in 0 .. Len(rows) /\ i # 0
    BY <1>1
  <2>4. 0 \in 0 .. Len(rows)
    BY <1>1
  <2> QED BY <2>2, <2>3, <2>4 DEF f
<1>11. conjunto_palavras_para_cadeia(conj) = CadeiaOf(rows)[Len(rows)]
  BY DEF conjunto_palavras_para_cadeia, CadeiaOf, CadeiaEqn, rows
<1> QED BY <1>10, <1>11 DEF rows

(***************************************************************************)
(* Writes(rows, i, s): s is the first i rows, those that are not empty.    *)
(***************************************************************************)
Writes(rows, i, s) ==
  /\ s \in Seq(Entries)
  /\ Worth(s) = SumsOf(rows)[i]
  /\ \A e \in 1 .. Len(s) : \E r \in 1 .. i : s[e] = <<r - 1, rows[r]>>
  /\ \A e \in 1 .. Len(s) - 1 : s[e][1] < s[e + 1][1]
  /\ \A r \in 1 .. i : rows[r] # <<>> => \E e \in 1 .. Len(s) : s[e] = <<r - 1, rows[r]>>

LEMMA WritesNext ==
  ASSUME NEW rows \in Rows, NEW i \in 1 .. Len(rows), NEW s, Writes(rows, i - 1, s),
         rows[i] # <<>>
  PROVE  Writes(rows, i, Append(s, <<i - 1, rows[i]>>))
<1> DEFINE t == Append(s, <<i - 1, rows[i]>>)
<1>1. Len(rows) \in Nat /\ i - 1 \in Nat /\ (i - 1) + 1 = i /\ rows[i] \in Seq(Palavras)
  BY DEF Rows
<1>2. s \in Seq(Entries) /\ Len(s) \in Nat
  BY DEF Writes
<1>3. PICK e \in Entries : e = <<i - 1, rows[i]>>
  BY <1>1 DEF Entries
<1>4. t \in Seq(Entries) /\ Len(t) = Len(s) + 1 /\ t[Len(s) + 1] = <<i - 1, rows[i]>>
      /\ \A a \in 1 .. Len(s) : t[a] = s[a]
  <2>1. t = Append(s, e)
    BY <1>3
  <2> HIDE DEF t
  <2>2. t \in Seq(Entries) /\ Len(t) = Len(s) + 1 /\ t[Len(s) + 1] = e
      /\ \A a \in 1 .. Len(s) : t[a] = s[a]
    BY <1>2, <2>1
  <2> QED BY <1>3, <2>2
<1>5. Worth(t) = SumsOf(rows)[i]
  <2>1. Worth(t) = Worth(s) + (i - 1) * Len(rows[i]) /\ Worth(s) = SumsOf(rows)[i - 1]
    BY <1>1, <1>2, WorthAppend DEF Writes
  <2>2. SumsOf(rows)[i] = SumsOf(rows)[i - 1] + (i - 1) * Len(RowAt(rows, i))
    <3>1. Sums(rows, SumsOf(rows))
      BY SumsExist
    <3> QED BY <1>1, <3>1 DEF Sums
  <2>3. RowAt(rows, i) = rows[i]
    BY <1>1 DEF RowAt
  <2> QED BY <2>1, <2>2, <2>3
<1> HIDE DEF t
<1>6. ASSUME NEW a \in 1 .. Len(t) PROVE \E r \in 1 .. i : t[a] = <<r - 1, rows[r]>>
  <2>1. CASE a \in 1 .. Len(s)
    <3>1. PICK r \in 1 .. i - 1 : s[a] = <<r - 1, rows[r]>>
      BY <2>1 DEF Writes
    <3>2. r \in 1 .. i
      BY <1>1
    <3> QED BY <1>4, <2>1, <3>1, <3>2
  <2>2. CASE a = Len(s) + 1
    <3>1. i \in 1 .. i
      BY <1>1
    <3> QED BY <1>4, <2>2, <3>1
  <2> QED BY <1>2, <1>4, <2>1, <2>2
<1>7. ASSUME NEW a \in 1 .. Len(t) - 1 PROVE t[a][1] < t[a + 1][1]
  <2>0. a \in 1 .. Len(s) /\ a + 1 \in 1 .. Len(s) + 1 /\ t[a] = s[a]
    BY <1>2, <1>4
  <2>1. CASE a + 1 \in 1 .. Len(s)
    <3>1. t[a + 1] = s[a + 1] /\ a \in 1 .. Len(s) - 1
      BY <1>2, <1>4, <2>0, <2>1
    <3> QED BY <2>0, <3>1 DEF Writes
  <2>2. CASE a + 1 = Len(s) + 1
    <3>1. PICK r \in 1 .. i - 1 : s[a] = <<r - 1, rows[r]>>
      BY <2>0 DEF Writes
    <3>2. t[a][1] = r - 1 /\ t[a + 1][1] = i - 1 /\ r - 1 < i - 1
      BY <1>1, <1>4, <2>0, <2>2, <3>1
    <3> QED BY <3>2
  <2> QED BY <1>2, <2>0, <2>1, <2>2
<1>8. ASSUME NEW r \in 1 .. i, rows[r] # <<>>
      PROVE  \E a \in 1 .. Len(t) : t[a] = <<r - 1, rows[r]>>
  <2>1. CASE r \in 1 .. i - 1
    <3>1. PICK a \in 1 .. Len(s) : s[a] = <<r - 1, rows[r]>>
      BY <1>8, <2>1 DEF Writes
    <3>2. a \in 1 .. Len(t)
      BY <1>2, <1>4
    <3> QED BY <1>4, <3>1, <3>2
  <2>2. CASE r = i
    <3>1. Len(s) + 1 \in 1 .. Len(t)
      BY <1>2, <1>4
    <3> QED BY <1>4, <2>2, <3>1
  <2> QED BY <1>1, <2>1, <2>2
<1>9. Writes(rows, i, t)
  BY <1>4, <1>5, <1>6, <1>7, <1>8 DEF Writes
<1> QED BY <1>9 DEF t

LEMMA WritesSame ==
  ASSUME NEW rows \in Rows, NEW i \in 1 .. Len(rows), NEW s, Writes(rows, i - 1, s),
         rows[i] = <<>>
  PROVE  Writes(rows, i, s)
<1>1. Len(rows) \in Nat /\ i - 1 \in Nat /\ (i - 1) + 1 = i
  BY DEF Rows
<1>2. SumsOf(rows)[i] = SumsOf(rows)[i - 1]
  <2>1. Sums(rows, SumsOf(rows))
    BY SumsExist
  <2>2. SumsOf(rows)[i] = SumsOf(rows)[i - 1] + (i - 1) * Len(RowAt(rows, i))
        /\ SumsOf(rows)[i - 1] \in Int
    BY <1>1, <2>1 DEF Sums
  <2>3. Len(RowAt(rows, i)) = 0
    <3>1. RowAt(rows, i) = <<>>
      BY <1>1 DEF RowAt
    <3> QED BY <3>1
  <2>4. (i - 1) * 0 = 0
    BY <1>1
  <2> QED BY <2>2, <2>3, <2>4
<1>3. \A r \in 1 .. i : r \in 1 .. i - 1 \/ r = i
  BY <1>1
<1>4. \A r \in 1 .. i - 1 : r \in 1 .. i
  BY <1>1
<1> QED BY <1>2, <1>3, <1>4 DEF Writes

LEMMA CadeiaWrites ==
  ASSUME NEW conj, conj.palavras \in Rows
  PROVE  Writes(conj.palavras, Len(conj.palavras), conjunto_palavras_para_cadeia(conj))
<1> DEFINE rows == conj.palavras
           f    == CadeiaOf(rows)
           S    == {i \in 0 .. Len(rows) : Writes(rows, i, f[i])}
<1>1. Len(rows) \in Nat
  BY DEF Rows
<1>2. /\ conjunto_palavras_para_cadeia(conj) = f[Len(rows)] /\ f[0] = <<>>
      /\ \A i \in 1 .. Len(rows) :
           f[i] = IF rows[i] = <<>> THEN f[i - 1] ELSE Append(f[i - 1], <<i - 1, rows[i]>>)
  BY CadeiaIs
<1> HIDE DEF f
<1>3. 0 \in S
  <2>1. SumsOf(rows)[0] = 0
    BY SumsExist DEF Sums
  <2>2. <<>> \in Seq(Entries) /\ Len(<<>>) = 0
    OBVIOUS
  <2>3. 1 .. 0 = {} /\ 1 .. 0 - 1 = {}
    OBVIOUS
  <2>4. Writes(rows, 0, <<>>)
    BY <2>1, <2>2, <2>3, WorthEmpty DEF Writes
  <2> QED BY <1>1, <1>2, <2>4
<1>4. ASSUME NEW i \in 1 .. Len(rows), i - 1 \in S PROVE i \in S
  <2>1. Writes(rows, i - 1, f[i - 1]) /\ i \in 0 .. Len(rows)
    BY <1>1, <1>4
  <2>2. CASE rows[i] = <<>>
    BY <1>2, <2>1, <2>2, WritesSame
  <2>3. CASE rows[i] # <<>>
    BY <1>2, <2>1, <2>3, WritesNext
  <2> QED BY <2>2, <2>3
<1>5. Len(rows) \in S
  <2> HIDE DEF S
  <2>1. 0 .. Len(rows) \subseteq S
    BY <1>1, <1>3, <1>4, BoundedInduct
  <2> QED BY <1>1, <2>1
<1> QED BY <1>2, <1>5

(***************************************************************************)
(* Sets of words.                                                          *)
(***************************************************************************)
LEMMA EmptyFacts ==
  Lists(cria_conjunto_palavras) /\ Words(cria_conjunto_palavras) = {}
  /\ cria_conjunto_palavras.numero = 0
BY DEF Lists, Words, Conjuntos, Palavras, cria_conjunto_palavras

LEMMA WordsOf ==
  ASSUME NEW conj, Lists(conj)
  PROVE  /\ conj.palavras \in Rows /\ conj.numero \in Nat
         /\ \A i \in 1 .. Len(conj.palavras) :
              /\ conj.palavras[i] \in Seq(Palavras)
              /\ \A w \in Elements(conj.palavras[i]) : w \in Palavras /\ Len(w) = i - 1
         /\ \A w : w \in Words(conj) <=>
                     \E i \in 1 .. Len(conj.palavras) : w \in Elements(conj.palavras[i])
<1>1. conj.palavras \in Rows /\ conj.numero \in Nat
  BY DEF Lists, Rows, Palavras, Conjuntos
<1>2. DOMAIN conj.palavras = 1 .. Len(conj.palavras)
  BY <1>1 DEF Rows
<1>3. \A i \in 1 .. Len(conj.palavras) : conj.palavras[i] \in Seq(Palavras)
  BY <1>1 DEF Rows
<1>4. \A i \in 1 .. Len(conj.palavras) : \A w \in Elements(conj.palavras[i]) : w \in Palavras
  BY <1>3, ElementsOf
<1>5. \A i \in 1 .. Len(conj.palavras) : \A w \in Elements(conj.palavras[i]) : Len(w) = i - 1
  BY <1>2 DEF Lists
<1>6. \A w : w \in Words(conj) <=>
               \E i \in 1 .. Len(conj.palavras) : w \in Elements(conj.palavras[i])
  BY <1>2 DEF Words
<1> QED BY <1>1, <1>3, <1>4, <1>5, <1>6

\* A word is looked up in the list of its length only, and found if it is in any.
LEMMA Known ==
  ASSUME NEW conj, Lists(conj), NEW w \in Palavras
  PROVE  palavra_no_conjunto(conj, w) <=> w \in Words(conj)
<1> DEFINE n == Len(w)
           k == Len(conj.palavras)
<1>1. n \in Nat /\ k \in Nat
  BY WordsOf DEF Palavras, Rows
<1>2. CASE k <= n
  <2>1. Elements(<<>>) = {}
    BY DEF Elements
  <2>2. ~ palavra_no_conjunto(conj, w)
    BY <1>2, <2>1 DEF palavra_no_conjunto, palavras_potenciais_iguais, subconjunto_por_tamanho, palavra_tamanho
  <2>3. w \notin Words(conj)
    BY <1>1, <1>2, WordsOf
  <2> QED BY <2>2, <2>3
<1>3. CASE ~ (k <= n)
  <2>1. palavra_no_conjunto(conj, w) <=> w \in Elements(conj.palavras[n + 1])
    BY <1>3 DEF palavra_no_conjunto, palavras_potenciais_iguais, subconjunto_por_tamanho, palavra_tamanho
  <2>2. n + 1 \in 1 .. k
    BY <1>1, <1>3
  <2>3. ASSUME NEW i \in 1 .. k, w \in Elements(conj.palavras[i]) PROVE i = n + 1
    BY <1>1, <2>3, WordsOf
  <2>4. w \in Words(conj) <=> \E i \in 1 .. k : w \in Elements(conj.palavras[i])
    BY WordsOf
  <2> QED BY <2>1, <2>2, <2>3, <2>4
<1> QED BY <1>2, <1>3

LEMMA PaddedFacts ==
  ASSUME NEW conj, Lists(conj), NEW n \in Nat
  PROVE  /\ Padded(conj, n) \in Rows /\ n + 1 \in 1 .. Len(Padded(conj, n))
         /\ Len(Padded(conj, n)) = IF Len(conj.palavras) <= n THEN n + 1 ELSE Len(conj.palavras)
         /\ Len(Padded(conj, n)) >= Len(conj.palavras)
         /\ \A i \in 1 .. Len(Padded(conj, n)) :
              Padded(conj, n)[i] = IF i <= Len(conj.palavras) THEN conj.palavras[i] ELSE <<>>
<1> DEFINE k == Len(conj.palavras)
           m == IF k <= n THEN n + 1 ELSE k
           row(i) == IF i <= k THEN conj.palavras[i] ELSE <<>>
<1>1. k \in Nat
  BY WordsOf DEF Rows
<1>2. m \in Nat /\ m >= k /\ n + 1 \in 1 .. m
  BY <1>1
<1>3. Padded(conj, n) = [i \in 1 .. m |-> row(i)]
  BY DEF Padded
<1>4. \A i \in 1 .. m : row(i) \in Seq(Palavras)
  BY <1>1, WordsOf
<1> HIDE DEF m, row
<1>5. Padded(conj, n) \in Rows /\ Len(Padded(conj, n)) = m
  BY <1>2, <1>3, <1>4 DEF Rows
<1> QED BY <1>2, <1>3, <1>5 DEF row, m

LEMMA Replaced ==
  ASSUME NEW p \in Rows, NEW j \in DOMAIN p, NEW v \in Seq(Palavras)
  PROVE  /\ [p EXCEPT ![j] = v] \in Rows /\ DOMAIN [p EXCEPT ![j] = v] = DOMAIN p
         /\ \A i \in DOMAIN p : [p EXCEPT ![j] = v][i] = IF i = j THEN v ELSE p[i]
BY DEF Rows

\* acrescenta_palavra adds the word, and counts it if it is new.
LEMMA AddedFacts ==
  ASSUME NEW conj, Lists(conj), NEW w \in Palavras
  PROVE  /\ Lists(acrescenta_palavra(conj, w))
         /\ Words(acrescenta_palavra(conj, w)) = Words(conj) \union {w}
         /\ acrescenta_palavra(conj, w).numero =
              IF w \in Words(conj) THEN conj.numero ELSE conj.numero + 1
<1> DEFINE n      == Len(w)
           padded == Padded(conj, n)
           k      == Len(conj.palavras)
           m      == Len(padded)
           new    == acrescenta_palavra(conj, w)
           full   == [padded EXCEPT ![n + 1] = insort(@, w)]
<1>1. n \in Nat /\ k \in Nat /\ conj.numero \in Nat
  BY WordsOf DEF Palavras, Rows
<1>2. padded \in Rows /\ n + 1 \in 1 .. m /\ m >= k /\ m \in Nat
      /\ \A i \in 1 .. m : padded[i] = IF i <= k THEN conj.palavras[i] ELSE <<>>
  BY <1>1, PaddedFacts DEF Rows
<1>3. conj \in [palavras : Rows, numero : Nat]
  BY DEF Lists, Rows, Palavras, Conjuntos
<1> HIDE DEF padded, m
<1>4. \A i \in 1 .. m : padded[i] \in Seq(Palavras)
  BY <1>2 DEF Rows, m
<1>5. Elements(<<>>) = {}
  BY DEF Elements
<1>6. ASSUME NEW i \in 1 .. m, NEW x \in Elements(padded[i])
      PROVE  x \in Palavras /\ Len(x) = i - 1 /\ x \in Words(conj)
  <2>1. i <= k /\ i \in 1 .. k /\ padded[i] = conj.palavras[i]
    BY <1>1, <1>2, <1>5, <1>6
  <2> QED BY <1>6, <2>1, WordsOf
<1>7. ASSUME NEW x \in Words(conj)
      PROVE  \E i \in 1 .. m : x \in Elements(padded[i])
  <2>1. PICK i \in 1 .. k : x \in Elements(conj.palavras[i])
    BY WordsOf
  <2>2. i \in 1 .. m /\ padded[i] = conj.palavras[i]
    BY <1>1, <1>2, <2>1
  <2> QED BY <2>1, <2>2
<1>8. CASE palavra_no_conjunto(conj, w)
  <2>1. new = [conj EXCEPT !.palavras = padded]
    BY <1>8 DEF acrescenta_palavra, palavra_tamanho, padded
  <2>2. new.palavras = padded /\ new.numero = conj.numero /\ new \in [palavras : Rows, numero : Nat]
    BY <1>2, <1>3, <2>1
  <2>3. DOMAIN padded = 1 .. m
    BY <1>2 DEF Rows, m
  <2>4. Lists(new)
    BY <1>6, <2>2, <2>3 DEF Lists, Rows, Palavras, Conjuntos
  <2>5. Words(new) = Words(conj)
    BY <1>6, <1>7, <2>2, <2>3 DEF Words
  <2> QED BY <1>8, <2>2, <2>4, <2>5, Known
<1>9. CASE ~ palavra_no_conjunto(conj, w)
  <2>1. new = [palavras |-> full, numero |-> conj.numero + 1]
    BY <1>9 DEF acrescenta_palavra, palavra_tamanho, padded
  <2>2. new.palavras = full /\ new.numero = conj.numero + 1
    BY <2>1
  <2>3. /\ insort(padded[n + 1], w) \in Seq(Palavras)
        /\ Elements(insort(padded[n + 1], w)) = Elements(padded[n + 1]) \union {w}
    BY <1>2, <1>4, Inserted
  <2>4. full \in Rows /\ DOMAIN full = 1 .. m
        /\ \A i \in 1 .. m : full[i] = IF i = n + 1 THEN insort(padded[n + 1], w) ELSE padded[i]
    <3>1. padded \in Seq(Seq(Palavras)) /\ n + 1 \in DOMAIN padded /\ DOMAIN padded = 1 .. m
      BY <1>2 DEF Rows, m
    <3>2. full = [padded EXCEPT ![n + 1] = insort(padded[n + 1], w)]
      OBVIOUS
    <3> QED BY <2>3, <3>1, <3>2, Replaced DEF Rows
  <2> HIDE DEF full
  <2>5. \A i \in 1 .. m : Elements(full[i]) =
          IF i = n + 1 THEN Elements(padded[i]) \union {w} ELSE Elements(padded[i])
    BY <2>3, <2>4
  <2>6. Lists(new)
    <3>1. new \in [palavras : Rows, numero : Nat]
      BY <1>1, <2>1, <2>4
    <3>2. ASSUME NEW i \in 1 .. m, NEW x \in Elements(full[i]) PROVE Len(x) = i - 1
      <4>1. x \in Elements(padded[i]) \/ (i = n + 1 /\ x = w)
        BY <2>5, <3>2
      <4> QED BY <1>1, <1>6, <4>1
    <3> HIDE DEF new
    <3> QED BY <2>2, <2>4, <3>1, <3>2 DEF Lists, Rows, Palavras, Conjuntos
  <2>7. Words(new) = Words(conj) \union {w}
    <3>1. \A x : x \in Words(new) <=> \E i \in 1 .. m : x \in Elements(full[i])
      BY <2>2, <2>4 DEF Words
    <3> HIDE DEF new
    <3>2. ASSUME NEW x \in Words(new) PROVE x \in Words(conj) \union {w}
      BY <1>6, <2>5, <3>1, <3>2
    <3>3. ASSUME NEW x \in Words(conj) PROVE x \in Words(new)
      <4>1. PICK i \in 1 .. m : x \in Elements(padded[i])
        BY <1>7
      <4> QED BY <2>5, <3>1, <4>1
    <3>4. w \in Words(new)
      BY <1>2, <2>5, <3>1
    <3> QED BY <3>2, <3>3, <3>4
  <2> QED BY <1>9, <2>2, <2>6, <2>7, Known
<1> QED BY <1>8, <1>9

(***************************************************************************)
(* Players.                                                                *)
(***************************************************************************)
Good(j) == j \in Jogadores /\ Lists(j.validas) /\ Lists(j.invalidas)

LEMMA SetOf == ASSUME NEW conj, Lists(conj) PROVE conj \in Conjuntos
BY DEF Lists, Conjuntos, Rows, Palavras

LEMMA NewPlayer == Good(cria_jogador) /\ Words(cria_jogador.validas) = {}
<1>1. cria_jogador.validas = cria_conjunto_palavras /\ cria_jogador.invalidas = cria_conjunto_palavras
  BY DEF cria_jogador
<1>2. cria_jogador \in Jogadores
  BY EmptyFacts, SetOf DEF cria_jogador, Jogadores
<1> QED BY <1>1, <1>2, EmptyFacts DEF Good

LEMMA Credited ==
  ASSUME NEW j, Good(j), NEW w \in Palavras
  PROVE  /\ Good(adiciona_palavra_valida(j, w))
         /\ Words(adiciona_palavra_valida(j, w).validas) = Words(j.validas) \union {w}
<1> DEFINE new == adiciona_palavra_valida(j, w)
<1>1. j \in Jogadores /\ Lists(j.validas) /\ Lists(j.invalidas)
  BY DEF Good
<1>2. CASE palavra_no_conjunto(j.validas, w)
  <2>1. new = j
    BY <1>2 DEF adiciona_palavra_valida
  <2>2. w \in Words(j.validas)
    BY <1>1, <1>2, Known
  <2> QED BY <2>1, <2>2
<1>3. CASE ~ palavra_no_conjunto(j.validas, w)
  <2> DEFINE c == acrescenta_palavra(j.validas, w)
  <2>1. Lists(c) /\ Words(c) = Words(j.validas) \union {w} /\ c \in Conjuntos
    BY <1>1, AddedFacts, SetOf
  <2>2. new = [j EXCEPT !.pontos = @ + Len(w), !.validas = c]
    BY <1>3 DEF adiciona_palavra_valida, palavra_tamanho
  <2>3. Len(w) \in Int
    BY DEF Palavras
  <2> HIDE DEF c
  <2>4. new \in Jogadores /\ new.validas = c /\ new.invalidas = j.invalidas
    <3>1. j.pontos \in Int /\ j.invalidas \in Conjuntos /\ j = [pontos |-> j.pontos, validas |-> j.validas, invalidas |-> j.invalidas]
      BY <1>1 DEF Jogadores
    <3>2. new = [pontos |-> j.pontos + Len(w), validas |-> c, invalidas |-> j.invalidas]
      BY <2>2, <3>1
    <3>3. j.pontos + Len(w) \in Int
      BY <2>3, <3>1
    <3> QED BY <2>1, <3>1, <3>2, <3>3 DEF Jogadores
  <2> QED BY <1>1, <2>1, <2>4 DEF Good
<1> QED BY <1>2, <1>3

LEMMA Fined ==
  ASSUME NEW j, Good(j), NEW w \in Palavras
  PROVE  /\ Good(adiciona_palavra_invalida(j, w))
         /\ adiciona_palavra_invalida(j, w).validas = j.validas
<1> DEFINE new == adiciona_palavra_invalida(j, w)
<1>1. j \in Jogadores /\ Lists(j.validas) /\ Lists(j.invalidas)
  BY DEF Good
<1>2. CASE palavra_no_conjunto(j.invalidas, w)
  BY <1>2 DEF adiciona_palavra_invalida
<1>3. CASE ~ palavra_no_conjunto(j.invalidas, w)
  <2> DEFINE c == acrescenta_palavra(j.invalidas, w)
  <2>1. Lists(c) /\ c \in Conjuntos
    BY <1>1, AddedFacts, SetOf
  <2>2. new = [j EXCEPT !.pontos = @ - Len(w), !.invalidas = c]
    BY <1>3 DEF adiciona_palavra_invalida, palavra_tamanho
  <2>3. Len(w) \in Int
    BY DEF Palavras
  <2> HIDE DEF c
  <2>4. new \in Jogadores /\ new.invalidas = c /\ new.validas = j.validas
    <3>1. j.pontos \in Int /\ j.validas \in Conjuntos /\ j = [pontos |-> j.pontos, validas |-> j.validas, invalidas |-> j.invalidas]
      BY <1>1 DEF Jogadores
    <3>2. new = [pontos |-> j.pontos - Len(w), validas |-> j.validas, invalidas |-> c]
      BY <2>2, <3>1
    <3>3. j.pontos - Len(w) \in Int
      BY <2>3, <3>1
    <3> QED BY <2>1, <3>1, <3>2, <3>3 DEF Jogadores
  <2> QED BY <1>1, <2>1, <2>4 DEF Good
<1> QED BY <1>2, <1>3

(***************************************************************************)
(* The invariant: the properties, that the words to find are counted, and  *)
(* that before the game no word is found and the turn is the first's.      *)
(***************************************************************************)
Enrolling == fase = "inscricao" => jogador_i = 0

GInv ==
  /\ TypeOK /\ CreditedOnce /\ FaltamIsTrue
  /\ IsFiniteSet(Words(p_validas)) /\ p_validas.numero = Cardinality(Words(p_validas))
  /\ fase \in {"inscricao", "gera"} => Words(p_usadas) = {}
  /\ Enrolling

\* TypeOK in terms of the types above.
Typed ==
  /\ letras \in Letters
  /\ fase \in {"inscricao", "gera", "jogo", "empate", "vitoria", "ValueError", "IndexError"}
  /\ Lists(p_validas) /\ Lists(p_usadas)
  /\ jogadores \in Seq(Jogadores) /\ \A j \in 1 .. Len(jogadores) : Good(jogadores[j])
  /\ combinacoes \subseteq UNION {permutations(Len(letras), i) : i \in 1 .. Len(letras)}
  /\ faltam \in Nat /\ jogada \in Nat \ {0}
  /\ jogador_i \in Nat /\ (jogadores # <<>> => jogador_i < Len(jogadores))

LEMMA TypedIsTypeOK == Typed <=> TypeOK
<1>1. Jogadores = [pontos : Int, validas : [palavras : Seq(Seq(Seq(Capitals))), numero : Nat],
                invalidas : [palavras : Seq(Seq(Seq(Capitals))), numero : Nat]]
  BY DEF Jogadores, Conjuntos, Rows, Palavras
<1>2. ASSUME jogadores \in Seq(Jogadores)
      PROVE  /\ Players = 1 .. Len(jogadores)
             /\ \A j \in 1 .. Len(jogadores) : jogadores[j] \in Jogadores
  BY <1>2 DEF Players
<1>3. Typed => TypeOK
  BY <1>1, <1>2 DEF Typed, TypeOK, Good
<1>4. TypeOK => Typed
  <2> SUFFICES ASSUME TypeOK PROVE Typed
    OBVIOUS
  <2>1. jogadores \in Seq(Jogadores)
    BY <1>1 DEF TypeOK
  <2>2. \A j \in 1 .. Len(jogadores) : Good(jogadores[j])
    BY <1>2, <2>1 DEF TypeOK, Good
  <2> QED BY <2>1, <2>2 DEF TypeOK, Typed
<1> QED BY <1>3, <1>4

LEMMA GuruInit == Init => GInv
<1> SUFFICES ASSUME Init PROVE GInv
  OBVIOUS
<1>1. /\ letras \in Letters /\ fase = "inscricao" /\ combinacoes = {} /\ jogadores = <<>>
      /\ p_validas = cria_conjunto_palavras /\ p_usadas = cria_conjunto_palavras
      /\ faltam = 0 /\ jogada = 1 /\ jogador_i = 0
  BY DEF Init
<1>2. Words(p_validas) = {} /\ Words(p_usadas) = {} /\ p_validas.numero = 0
  BY <1>1, EmptyFacts
<1>3. TypeOK
  BY <1>1, EmptyFacts, TypedIsTypeOK DEF Typed
<1>4. CreditedOnce
  BY <1>1, <1>2 DEF CreditedOnce, Players
<1>5. FaltamIsTrue
  BY <1>1 DEF FaltamIsTrue
<1> QED BY <1>1, <1>2, <1>3, <1>4, <1>5, FS_EmptySet DEF GInv, Enrolling

\* The properties say nothing of a step that leaves the words alone.
LEMMA SameWords ==
  ASSUME GInv, TypeOK', Enrolling',
         UNCHANGED <<p_validas, p_usadas, faltam>>,
         Players' = Players, \A j \in Players : jogadores'[j].validas = jogadores[j].validas,
         fase' = fase \/ fase \notin {"inscricao", "gera"}, fase \in {"inscricao", "gera"} \/ fase' \notin {"inscricao", "gera"}
  PROVE  GInv'
<1>1. Words(p_validas)' = Words(p_validas) /\ Words(p_usadas)' = Words(p_usadas)
      /\ \A j \in Players : Words(jogadores'[j].validas) = Words(jogadores[j].validas)
  BY DEF Words
<1>2. CreditedOnce'
  BY <1>1 DEF GInv, CreditedOnce
<1>3. FaltamIsTrue'
  BY <1>1 DEF GInv, FaltamIsTrue
<1> QED BY <1>1, <1>2, <1>3 DEF GInv

\* The combinations of letters are words.
LEMMA Combined ==
  ASSUME Typed, NEW perm \in combinacoes
  PROVE  [i \in DOMAIN perm |-> letras[perm[i]]] \in Palavras
<1>1. letras \in Palavras
  BY LettersAssumption DEF Typed, Palavras
<1>2. PICK n \in 1 .. Len(letras) : perm \in permutations(Len(letras), n)
  BY DEF Typed
<1>3. perm \in [1 .. n -> 1 .. Len(letras)] /\ n \in Nat
  BY <1>1, <1>2 DEF permutations, Palavras
<1>4. \A i \in 1 .. n : letras[perm[i]] \in Capitals
  BY <1>1, <1>3 DEF Palavras
<1> QED BY <1>3, <1>4 DEF Palavras

LEMMA GuruGenerates == GInv /\ gera_todas_palavras_validas => GInv'
<1> SUFFICES ASSUME GInv, gera_todas_palavras_validas PROVE GInv'
  OBVIOUS
<1>1. Typed
  BY TypedIsTypeOK DEF GInv
<1>2. PICK perm \in combinacoes :
        /\ combinacoes' = combinacoes \ {perm}
        /\ p_validas' = IF Grammar!e_palavra([i \in DOMAIN perm |-> letras[perm[i]]])
                        THEN acrescenta_palavra(p_validas, [i \in DOMAIN perm |-> letras[perm[i]]])
                        ELSE p_validas
  BY DEF gera_todas_palavras_validas
<1>3. /\ fase = "gera"
      /\ UNCHANGED <<letras, fase, jogadores, p_usadas, faltam, jogada, jogador_i, vencedores>>
  BY DEF gera_todas_palavras_validas
<1> DEFINE w == [i \in DOMAIN perm |-> letras[perm[i]]]
<1>4. w \in Palavras
  BY <1>1, Combined
<1>5. p_validas' \in {p_validas, acrescenta_palavra(p_validas, w)}
  BY <1>2
<1> HIDE DEF w
<1>6. Lists(p_validas) /\ IsFiniteSet(Words(p_validas)) /\ p_validas.numero = Cardinality(Words(p_validas))
  BY <1>1 DEF GInv, Typed
<1>7. /\ Lists(p_validas') /\ IsFiniteSet(Words(p_validas'))
      /\ p_validas'.numero = Cardinality(Words(p_validas'))
      /\ Words(p_validas) \subseteq Words(p_validas')
  <2>1. CASE p_validas' = p_validas
    BY <1>6, <2>1
  <2>2. CASE p_validas' = acrescenta_palavra(p_validas, w)
    <3>1. /\ Lists(p_validas') /\ Words(p_validas') = Words(p_validas) \union {w}
          /\ p_validas'.numero =
               IF w \in Words(p_validas) THEN p_validas.numero ELSE p_validas.numero + 1
      BY <1>4, <1>6, <2>2, AddedFacts
    <3> QED BY <1>6, <3>1, FS_AddElement
  <2> QED BY <1>5, <2>1, <2>2
<1>8. TypeOK'
  <2>1. Typed'
    BY <1>1, <1>2, <1>3, <1>7 DEF Typed, Good
  <2>2. (Typed <=> TypeOK)'
    BY TypedIsTypeOK, PTL
  <2> QED BY <2>1, <2>2
<1>9. Words(p_usadas)' = Words(p_usadas) /\ Words(p_validas)' = Words(p_validas')
  BY <1>3 DEF Words
<1>10. CreditedOnce'
  BY <1>3, <1>7, <1>9 DEF GInv, CreditedOnce, Players
<1>11. FaltamIsTrue'
  BY <1>3 DEF FaltamIsTrue
<1> QED BY <1>3, <1>7, <1>8, <1>9, <1>10, <1>11 DEF GInv, Enrolling

(***************************************************************************)
(* Enrolment and the start of the game.                                    *)
(***************************************************************************)
LEMMA GuruEnrols == GInv /\ inscrever_jogadores => GInv'
<1> SUFFICES ASSUME GInv, inscrever_jogadores PROVE GInv'
  OBVIOUS
<1>1. Typed
  BY TypedIsTypeOK DEF GInv
<1>2. /\ fase = "inscricao" /\ jogadores' = Append(jogadores, cria_jogador)
      /\ UNCHANGED <<letras, fase, combinacoes, p_validas, p_usadas, faltam, jogada, jogador_i>>
  BY DEF inscrever_jogadores
<1>3. jogadores \in Seq(Jogadores) /\ cria_jogador \in Jogadores /\ Len(jogadores) \in Nat
  BY <1>1, NewPlayer DEF Typed, Good
<1>4. /\ jogadores' \in Seq(Jogadores) /\ Len(jogadores') = Len(jogadores) + 1
      /\ \A j \in 1 .. Len(jogadores) : jogadores'[j] = jogadores[j]
      /\ jogadores'[Len(jogadores) + 1] = cria_jogador
  BY <1>2, <1>3
<1>5. \A j \in 1 .. Len(jogadores') : j \in 1 .. Len(jogadores) \/ j = Len(jogadores) + 1
  BY <1>3, <1>4
<1>6. \A j \in 1 .. Len(jogadores') : Good(jogadores'[j])
  <2>1. \A j \in 1 .. Len(jogadores) : Good(jogadores[j])
    BY <1>1 DEF Typed
  <2> QED BY <1>4, <1>5, <2>1, NewPlayer
<1>7. jogadores' # <<>> => jogador_i' < Len(jogadores')
  <2>1. jogador_i \in Nat /\ (jogadores # <<>> => jogador_i < Len(jogadores))
    BY <1>1 DEF Typed
  <2>2. CASE jogadores # <<>>
    BY <1>2, <1>3, <1>4, <2>1, <2>2
  <2>3. CASE jogadores = <<>>
    <3>1. jogador_i = 0
      BY <1>2 DEF GInv, Enrolling
    <3> QED BY <1>2, <1>3, <1>4, <3>1
  <2> QED BY <2>2, <2>3
<1>8. TypeOK'
  <2>1. Typed'
    BY <1>1, <1>2, <1>4, <1>6, <1>7 DEF Typed
  <2>2. (Typed <=> TypeOK)'
    BY TypedIsTypeOK, PTL
  <2> QED BY <2>1, <2>2
<1>9. Players = 1 .. Len(jogadores) /\ Players' = 1 .. Len(jogadores')
  BY <1>3, <1>4 DEF Players
<1>10. Words(p_validas)' = Words(p_validas) /\ Words(p_usadas)' = Words(p_usadas)
  BY <1>2 DEF Words
<1>11. Words(p_usadas) = {}
  BY <1>2 DEF GInv
<1>12. \A j \in 1 .. Len(jogadores') : Words(jogadores'[j].validas) = {}
  <2>1. \A j \in 1 .. Len(jogadores) : Words(jogadores[j].validas) = {}
    BY <1>9, <1>11 DEF GInv, CreditedOnce
  <2> QED BY <1>4, <1>5, <2>1, NewPlayer
<1>13. CreditedOnce'
  <2>1. \A j \in Players' : Words(jogadores[j].validas)' = {}
    BY <1>9, <1>12 DEF Words
  <2> QED BY <1>10, <1>11, <2>1 DEF CreditedOnce
<1>14. FaltamIsTrue'
  BY <1>2 DEF FaltamIsTrue
<1> QED BY <1>2, <1>8, <1>10, <1>13, <1>14 DEF GInv, Enrolling

LEMMA GuruStarts == GInv /\ (StartGenerating \/ StartGame) => GInv'
<1> SUFFICES ASSUME GInv, StartGenerating \/ StartGame PROVE GInv'
  OBVIOUS
<1>1. Typed
  BY TypedIsTypeOK DEF GInv
<1>2. /\ UNCHANGED <<letras, jogadores, p_validas, p_usadas, jogada, jogador_i>>
      /\ fase' \in {"gera", "jogo"} /\ fase \in {"inscricao", "gera"}
      /\ fase' = "gera" => faltam' = faltam
      /\ fase' = "jogo" => faltam' = p_validas.numero
      /\ combinacoes' \subseteq UNION {permutations(Len(letras), i) : i \in 1 .. Len(letras)}
  <2>1. CASE StartGenerating
    BY <2>1 DEF StartGenerating
  <2>2. CASE StartGame
    BY <1>1, <2>2 DEF StartGame, numero_palavras, Typed
  <2> QED BY <2>1, <2>2
<1>3. /\ Words(p_usadas) = {} /\ p_validas.numero \in Nat
      /\ p_validas.numero = Cardinality(Words(p_validas) \ Words(p_usadas))
  <2>1. Words(p_usadas) = {} /\ p_validas.numero = Cardinality(Words(p_validas))
    BY <1>2 DEF GInv
  <2>2. p_validas.numero \in Nat
    BY <1>1, WordsOf DEF Typed
  <2>3. Words(p_validas) \ {} = Words(p_validas)
    OBVIOUS
  <2> QED BY <2>1, <2>2, <2>3
<1>4. TypeOK'
  <2>1. faltam' \in Nat
    BY <1>1, <1>2, <1>3 DEF Typed
  <2>2. Typed'
    BY <1>1, <1>2, <2>1 DEF Typed, Good
  <2>3. (Typed <=> TypeOK)'
    BY TypedIsTypeOK, PTL
  <2> QED BY <2>2, <2>3
<1>5. /\ Words(p_validas)' = Words(p_validas) /\ Words(p_usadas)' = Words(p_usadas)
      /\ \A j \in Players : Words(jogadores[j].validas)' = Words(jogadores[j].validas)
  BY <1>2 DEF Words
<1>6. CreditedOnce'
  BY <1>2, <1>5 DEF GInv, CreditedOnce, Players
<1>7. FaltamIsTrue'
  BY <1>2, <1>3, <1>5 DEF FaltamIsTrue
<1> QED BY <1>2, <1>4, <1>5, <1>6, <1>7 DEF GInv, Enrolling

(***************************************************************************)
(* Turns.                                                                  *)
(***************************************************************************)
LEMMA Turned ==
  ASSUME Typed, NEW t \in Attempts, Turn(t), NextPlayer
  PROVE  /\ t \in Palavras /\ faltam # 0 /\ fase = "jogo"
         /\ jogador_i + 1 \in 1 .. Len(jogadores)
         /\ jogada' \in Nat \ {0} /\ jogador_i' \in Nat /\ jogador_i' < Len(jogadores)
<1>1. t \in Seq(STRING) /\ \A i \in 1 .. Len(t) : t[i] \in Capitals
  BY AttemptsAssumption DEF Turn, e_potencial, Elements
<1>2. t \in Palavras
  BY <1>1 DEF Palavras
<1>3. jogadores \in Seq(Jogadores) /\ jogadores # <<>> /\ faltam # 0 /\ fase = "jogo"
      /\ jogador_i \in Nat /\ jogador_i < Len(jogadores) /\ jogada \in Nat \ {0}
  BY DEF Typed, Turn
<1>4. Len(jogadores) \in Nat \ {0}
  BY <1>3
<1>5. jogador_i' = jogada % Len(jogadores) /\ jogada' = jogada + 1
  BY DEF NextPlayer
<1>6. jogador_i + 1 \in 1 .. Len(jogadores)
  BY <1>3, <1>4
<1>7. jogador_i' \in Nat /\ jogador_i' < Len(jogadores)
  BY <1>3, <1>4, <1>5
<1>8. jogada' \in Nat \ {0}
  BY <1>3, <1>5
<1> QED BY <1>2, <1>3, <1>6, <1>7, <1>8

\* One player changes.
LEMMA OneChanges ==
  ASSUME NEW p \in Seq(Jogadores), \A j \in 1 .. Len(p) : Good(p[j]),
         NEW i \in 1 .. Len(p), NEW new, Good(new)
  PROVE  /\ [p EXCEPT ![i] = new] \in Seq(Jogadores) /\ Len([p EXCEPT ![i] = new]) = Len(p)
         /\ \A j \in 1 .. Len(p) : [p EXCEPT ![i] = new][j] = IF j = i THEN new ELSE p[j]
         /\ \A j \in 1 .. Len(p) : Good([p EXCEPT ![i] = new][j])
<1>1. new \in Jogadores
  BY DEF Good
<1> DEFINE q == [p EXCEPT ![i] = new]
<1>2. q \in Seq(Jogadores) /\ Len(q) = Len(p)
      /\ \A j \in 1 .. Len(p) : q[j] = IF j = i THEN new ELSE p[j]
  BY <1>1
<1> QED BY <1>2

\* A word nobody named before is credited to the player whose turn it is, and
\* one word less is left to find.
LEMMA GuruNewWord == ASSUME NEW t \in Attempts PROVE GInv /\ NewWord(t) => GInv'
<1> SUFFICES ASSUME GInv, NewWord(t) PROVE GInv'
  OBVIOUS
<1>1. Typed
  BY TypedIsTypeOK DEF GInv
<1>2. /\ t \in Palavras /\ faltam # 0 /\ fase = "jogo" /\ jogador_i + 1 \in 1 .. Len(jogadores)
      /\ jogada' \in Nat \ {0} /\ jogador_i' \in Nat /\ jogador_i' < Len(jogadores)
  BY <1>1, Turned DEF NewWord
<1> DEFINE me  == jogador_i + 1
           new == adiciona_palavra_valida(jogadores[me], t)
<1>3. /\ jogadores' = [jogadores EXCEPT ![me] = new]
      /\ p_usadas' = acrescenta_palavra(p_usadas, t) /\ faltam' = faltam - 1
      /\ UNCHANGED <<letras, fase, combinacoes, p_validas>>
  BY DEF NewWord
<1>4. palavra_no_conjunto(p_validas, t) /\ ~ palavra_no_conjunto(p_usadas, t)
  BY DEF NewWord
<1>5. /\ Lists(p_validas) /\ Lists(p_usadas) /\ faltam \in Nat
      /\ jogadores \in Seq(Jogadores) /\ \A j \in 1 .. Len(jogadores) : Good(jogadores[j])
      /\ Players = 1 .. Len(jogadores)
  BY <1>1 DEF Typed, Players
<1>6. t \in Words(p_validas) /\ t \notin Words(p_usadas)
  BY <1>2, <1>4, <1>5, Known
<1>7. Lists(p_usadas') /\ Words(p_usadas') = Words(p_usadas) \union {t}
  BY <1>2, <1>3, <1>5, AddedFacts
<1>8. Good(new) /\ Words(new.validas) = Words(jogadores[me].validas) \union {t}
  BY <1>2, <1>5, Credited
<1> HIDE DEF me, new
<1>9. /\ jogadores' \in Seq(Jogadores) /\ Len(jogadores') = Len(jogadores)
      /\ \A j \in 1 .. Len(jogadores) : jogadores'[j] = IF j = me THEN new ELSE jogadores[j]
      /\ \A j \in 1 .. Len(jogadores) : Good(jogadores'[j])
      /\ me \in 1 .. Len(jogadores)
  <2>1. me \in 1 .. Len(jogadores)
    BY <1>2 DEF me
  <2> QED BY <1>3, <1>5, <1>8, <2>1, OneChanges
<1>10. TypeOK'
  <2>1. faltam' \in Nat
    BY <1>2, <1>3, <1>5
  <2>2. Typed'
    BY <1>1, <1>2, <1>3, <1>7, <1>9, <2>1 DEF Typed
  <2>3. (Typed <=> TypeOK)'
    BY TypedIsTypeOK, PTL
  <2> QED BY <2>2, <2>3
<1>11. /\ Words(p_validas)' = Words(p_validas)
       /\ Words(p_usadas)' = Words(p_usadas) \union {t}
       /\ Players' = Players
       /\ \A j \in Players : Words(jogadores'[j].validas) =
            IF j = me THEN Words(jogadores[j].validas) \union {t} ELSE Words(jogadores[j].validas)
  <2>1. Players' = Players
    BY <1>5, <1>9 DEF Players
  <2>2. Words(p_usadas)' = Words(p_usadas')
    BY DEF Words
  <2>3. ASSUME NEW j \in Players
        PROVE  Words(jogadores'[j].validas) =
            IF j = me THEN Words(jogadores[j].validas) \union {t} ELSE Words(jogadores[j].validas)
    BY <1>5, <1>8, <1>9, <2>3
  <2>4. Words(p_validas)' = Words(p_validas)
    BY <1>3 DEF Words
  <2> QED BY <1>7, <2>1, <2>2, <2>3, <2>4
<1> DEFINE V(j) == Words(jogadores[j].validas)
           W(j) == Words(jogadores'[j].validas)
<1>12. /\ \A j, k \in Players : j # k => V(j) \cap V(k) = {}
       /\ Words(p_usadas) = UNION {V(j) : j \in Players} /\ Words(p_usadas) \subseteq Words(p_validas)
  BY DEF GInv, CreditedOnce
<1>13. \A j \in Players : W(j) = IF j = me THEN V(j) \union {t} ELSE V(j)
  BY <1>11
<1>14. CreditedOnce'
  <2>1. me \in Players
    BY <1>5, <1>9
  <2> HIDE DEF V, W
  <2>2. \A j \in Players : t \notin V(j)
    BY <1>6, <1>12
  <2>3. \A j, k \in Players : j # k => W(j) \cap W(k) = {}
    BY <1>12, <1>13, <2>2
  <2>4. UNION {W(j) : j \in Players} = (UNION {V(j) : j \in Players}) \union {t}
    <3>1. ASSUME NEW j \in Players, NEW x \in W(j) PROVE x = t \/ \E i \in Players : x \in V(i)
      <4>1. x \in V(j) \/ x = t
        BY <1>13, <3>1
      <4> QED BY <4>1
    <3>2. ASSUME NEW j \in Players, NEW x \in V(j) PROVE x \in W(j)
      BY <1>13, <3>2
    <3>3. t \in W(me)
      BY <1>13, <2>1
    <3> QED BY <2>1, <3>1, <3>2, <3>3
  <2>5. \A j \in Players : W(j) = Words(jogadores'[j].validas)
    BY DEF W
  <2>6. Words(p_usadas)' = UNION {W(j) : j \in Players} /\ Words(p_usadas)' \subseteq Words(p_validas)'
    <3>1. Words(p_usadas)' = UNION {W(j) : j \in Players}
      BY <1>11, <1>12, <2>4, Zenon
    <3>2. Words(p_usadas)' \subseteq Words(p_validas)'
      BY <1>6, <1>11, <1>12
    <3> QED BY <3>1, <3>2
  <2> QED BY <1>11, <2>3, <2>5, <2>6 DEF CreditedOnce, W
<1>15. FaltamIsTrue'
  <2> DEFINE left == Words(p_validas) \ Words(p_usadas)
  <2>1. faltam = Cardinality(left) /\ IsFiniteSet(left) /\ t \in left
    BY <1>2, <1>6, FS_Difference DEF GInv, FaltamIsTrue
  <2>2. (Words(p_validas) \ Words(p_usadas))' = left \ {t}
    BY <1>11
  <2> HIDE DEF left
  <2>3. Cardinality(left \ {t}) = Cardinality(left) - 1
    BY <2>1, FS_RemoveElement
  <2> QED BY <1>3, <2>1, <2>2, <2>3 DEF FaltamIsTrue
<1> QED BY <1>2, <1>3, <1>10, <1>11, <1>14, <1>15 DEF GInv, Enrolling

\* Another turn finds no word.
LEMMA GuruOtherTurn ==
  ASSUME NEW t \in Attempts PROVE GInv /\ (KnownWord(t) \/ WrongWord(t)) => GInv'
<1> SUFFICES ASSUME GInv, KnownWord(t) \/ WrongWord(t) PROVE GInv'
  OBVIOUS
<1>1. Typed
  BY TypedIsTypeOK DEF GInv
<1>2. /\ t \in Palavras /\ fase = "jogo" /\ jogador_i + 1 \in 1 .. Len(jogadores)
      /\ jogada' \in Nat \ {0} /\ jogador_i' \in Nat /\ jogador_i' < Len(jogadores)
  BY <1>1, Turned DEF KnownWord, WrongWord
<1>3. UNCHANGED <<letras, fase, combinacoes, p_validas, p_usadas, faltam>>
  BY DEF KnownWord, WrongWord
<1>4. jogadores \in Seq(Jogadores) /\ \A j \in 1 .. Len(jogadores) : Good(jogadores[j])
  BY <1>1 DEF Typed
<1>5. /\ jogadores' \in Seq(Jogadores) /\ Len(jogadores') = Len(jogadores)
      /\ \A j \in 1 .. Len(jogadores) : Good(jogadores'[j])
      /\ \A j \in 1 .. Len(jogadores) : jogadores'[j].validas = jogadores[j].validas
  <2>1. CASE KnownWord(t)
    BY <1>4, <2>1 DEF KnownWord
  <2>2. CASE WrongWord(t)
    <3> DEFINE me  == jogador_i + 1
               new == adiciona_palavra_invalida(jogadores[me], t)
    <3>1. jogadores' = [jogadores EXCEPT ![me] = new]
      BY <2>2 DEF WrongWord
    <3>2. Good(new) /\ new.validas = jogadores[me].validas
      BY <1>2, <1>4, Fined
    <3>3. me \in 1 .. Len(jogadores)
      BY <1>2
    <3> HIDE DEF me, new
    <3>4. /\ jogadores' \in Seq(Jogadores) /\ Len(jogadores') = Len(jogadores)
          /\ \A j \in 1 .. Len(jogadores) : jogadores'[j] = IF j = me THEN new ELSE jogadores[j]
          /\ \A j \in 1 .. Len(jogadores) : Good(jogadores'[j])
      BY <1>4, <3>1, <3>2, <3>3, OneChanges
    <3> QED BY <3>2, <3>4
  <2> QED BY <2>1, <2>2
<1>6. Players = 1 .. Len(jogadores) /\ Players' = 1 .. Len(jogadores)
  BY <1>4, <1>5 DEF Players
<1>7. TypeOK'
  <2>1. Typed'
    BY <1>1, <1>2, <1>3, <1>5 DEF Typed
  <2>2. (Typed <=> TypeOK)'
    BY TypedIsTypeOK, PTL
  <2> QED BY <2>1, <2>2
<1>8. Enrolling'
  BY <1>2, <1>3 DEF Enrolling
<1> QED BY <1>2, <1>3, <1>5, <1>6, <1>7, <1>8, SameWords

\* Nor does the end, whatever it is.
LEMMA GuruEnds ==
  GInv /\ ((\E t \in Attempts : BadAttempt(t)) \/ NobodyPlays \/ termina_jogo) => GInv'
<1> SUFFICES ASSUME GInv, (\E t \in Attempts : BadAttempt(t)) \/ NobodyPlays \/ termina_jogo
             PROVE  GInv'
  OBVIOUS
<1>1. Typed
  BY TypedIsTypeOK DEF GInv
<1>2. /\ fase = "jogo" /\ fase' \in {"empate", "vitoria", "ValueError", "IndexError"}
      /\ UNCHANGED <<letras, combinacoes, jogadores, p_validas, p_usadas, faltam, jogada, jogador_i>>
  <2>1. CASE (\E t \in Attempts : BadAttempt(t)) \/ NobodyPlays
    BY <2>1 DEF BadAttempt, NobodyPlays, Raise
  <2>2. CASE termina_jogo
    BY <2>2 DEF termina_jogo
  <2> QED BY <2>1, <2>2
<1>3. TypeOK'
  <2>1. Typed'
    BY <1>1, <1>2 DEF Typed, Good
  <2>2. (Typed <=> TypeOK)'
    BY TypedIsTypeOK, PTL
  <2> QED BY <2>1, <2>2
<1>4. Enrolling'
  BY <1>2 DEF Enrolling
<1> QED BY <1>2, <1>3, <1>4, SameWords DEF Players

LEMMA GuruStutters == GInv /\ UNCHANGED vars => GInv'
<1> SUFFICES ASSUME GInv, UNCHANGED vars PROVE GInv'
  OBVIOUS
<1>1. TypeOK'
  BY DEF GInv, TypeOK, vars, Players, Lists
<1>2. Enrolling'
  BY DEF GInv, Enrolling, vars
<1> QED BY <1>1, <1>2, SameWords DEF vars, Players

LEMMA GuruNext == GInv /\ [Next]_vars => GInv'
<1> SUFFICES ASSUME GInv, [Next]_vars PROVE GInv'
  OBVIOUS
<1>1. CASE inscrever_jogadores
  BY <1>1, GuruEnrols
<1>2. CASE StartGenerating \/ StartGame
  BY <1>2, GuruStarts
<1>3. CASE gera_todas_palavras_validas
  BY <1>3, GuruGenerates
<1>4. CASE \E t \in Attempts : NewWord(t)
  BY <1>4, GuruNewWord
<1>5. CASE \E t \in Attempts : KnownWord(t) \/ WrongWord(t)
  BY <1>5, GuruOtherTurn
<1>6. CASE (\E t \in Attempts : BadAttempt(t)) \/ NobodyPlays \/ termina_jogo
  BY <1>6, GuruEnds
<1>7. CASE UNCHANGED vars
  BY <1>7, GuruStutters
<1> QED BY <1>1, <1>2, <1>3, <1>4, <1>5, <1>6, <1>7 DEF Next

\* The invariant holds in every game.
THEOREM GuruInvariance == Spec => []GInv
BY GuruInit, GuruNext, PTL DEF Spec

\* Values are what proj.py's recognisers ask for, in every game.
THEOREM GuruTypes == Spec => []TypeOK
<1>1. GInv => TypeOK
  BY DEF GInv
<1> QED BY <1>1, GuruInvariance, PTL

\* A valid word is credited to one player only, however many play
\* (proj.py:438-444).
THEOREM GuruCreditedOnce == Spec => []CreditedOnce
<1>1. GInv => CreditedOnce
  BY DEF GInv
<1> QED BY <1>1, GuruInvariance, PTL

\* The number that ends the game is that of the words not found, whatever the
\* letters (proj.py:430-444).
THEOREM GuruFaltamIsTrue == Spec => []FaltamIsTrue
<1>1. GInv => FaltamIsTrue
  BY DEF GInv
<1> QED BY <1>1, GuruInvariance, PTL

\* The books of every game are true.
THEOREM GuruBooksAreTrue == Spec => []BooksAreTrue
<1>1. GInv => BooksAreTrue
  BY DEF GInv, BooksAreTrue
<1> QED BY <1>1, GuruInvariance, PTL

(***************************************************************************)
(* Sets of words as the game keeps them: rows in order, the last one not   *)
(* empty, and the words counted.                                           *)
(***************************************************************************)
Tidy(conj) ==
  /\ Lists(conj)
  /\ \A i \in 1 .. Len(conj.palavras) : InOrder(conj.palavras[i])
  /\ conj.palavras # <<>> => conj.palavras[Len(conj.palavras)] # <<>>
  /\ IsFiniteSet(Words(conj)) /\ conj.numero = Cardinality(Words(conj))

LEMMA TidyEmpty ==
  Tidy(cria_conjunto_palavras) /\ Total(cria_conjunto_palavras.palavras) = 0
<1> DEFINE c == cria_conjunto_palavras
<1>1. c.palavras = <<>> /\ c.numero = 0 /\ Len(<<>>) = 0
  BY DEF cria_conjunto_palavras
<1>2. Lists(c) /\ Words(c) = {}
  BY EmptyFacts
<1>3. Tidy(c)
  BY <1>1, <1>2, FS_EmptySet DEF Tidy
<1>4. <<>> \in Rows
  BY DEF Rows
<1>5. SumsOf(<<>>)[0] = 0
  BY <1>4, SumsExist DEF Sums
<1> QED BY <1>1, <1>3, <1>5 DEF Total

LEMMA SameRows ==
  ASSUME NEW p \in Rows, NEW q \in Rows, Len(p) = Len(q), \A i \in 1 .. Len(p) : p[i] = q[i]
  PROVE  p = q
<1> DEFINE R == Seq(Palavras)
<1>1. p \in Seq(R) /\ q \in Seq(R)
  BY DEF Rows
<1> HIDE DEF R
<1> QED BY <1>1

\* A word that is known changes nothing.
LEMMA AddedKnown ==
  ASSUME NEW conj, Lists(conj), NEW w \in Palavras, w \in Words(conj)
  PROVE  acrescenta_palavra(conj, w) = conj
<1> DEFINE n      == Len(w)
           padded == Padded(conj, n)
<1>1. n \in Nat /\ conj.palavras \in Rows /\ conj \in Conjuntos
  BY WordsOf, SetOf DEF Palavras
<1>2. palavra_no_conjunto(conj, w)
  BY Known
<1>3. ~ (Len(conj.palavras) <= n)
  <2>1. PICK i \in 1 .. Len(conj.palavras) : w \in Elements(conj.palavras[i])
    BY WordsOf
  <2>2. n = i - 1 /\ Len(conj.palavras) \in Nat
    BY <1>1, <2>1, WordsOf DEF Rows
  <2> QED BY <2>2
<1>4. /\ padded \in Rows /\ Len(padded) = Len(conj.palavras)
      /\ \A i \in 1 .. Len(padded) : padded[i] = conj.palavras[i]
  BY <1>1, <1>3, PaddedFacts
<1> HIDE DEF padded
<1>5. padded = conj.palavras
  BY <1>1, <1>4, SameRows
<1>6. acrescenta_palavra(conj, w) = [conj EXCEPT !.palavras = padded]
  BY <1>2 DEF acrescenta_palavra, palavra_tamanho, padded
<1> QED BY <1>1, <1>5, <1>6 DEF Conjuntos

\* One that is not goes into the row of its length.
LEMMA AddedNew ==
  ASSUME NEW conj, Lists(conj), NEW w \in Palavras, w \notin Words(conj)
  PROVE  LET n    == Len(w)
             rows == conj.palavras
             more == acrescenta_palavra(conj, w).palavras
         IN /\ more \in Rows
            /\ Len(more) = IF Len(rows) <= n THEN n + 1 ELSE Len(rows)
            /\ \A i \in 1 .. Len(more) :
                 more[i] = IF i = n + 1 THEN insort(RowAt(rows, i), w) ELSE RowAt(rows, i)
<1> DEFINE n      == Len(w)
           rows   == conj.palavras
           padded == Padded(conj, n)
           full   == [padded EXCEPT ![n + 1] = insort(@, w)]
<1>1. n \in Nat /\ rows \in Rows /\ Len(rows) \in Nat
  BY WordsOf DEF Palavras, Rows
<1>2. ~ palavra_no_conjunto(conj, w)
  BY Known
<1>3. /\ padded \in Rows /\ n + 1 \in 1 .. Len(padded)
      /\ Len(padded) = IF Len(rows) <= n THEN n + 1 ELSE Len(rows)
      /\ \A i \in 1 .. Len(padded) : padded[i] = RowAt(rows, i)
  BY <1>1, PaddedFacts DEF RowAt
<1>4. acrescenta_palavra(conj, w).palavras = full
  BY <1>2 DEF acrescenta_palavra, palavra_tamanho
<1> HIDE DEF padded
<1>5. padded[n + 1] = RowAt(rows, n + 1) /\ RowAt(rows, n + 1) \in Seq(Palavras)
  BY <1>1, <1>3, RowsAt
<1>6. insort(padded[n + 1], w) \in Seq(Palavras)
  BY <1>5, Inserted
<1>7. full = [padded EXCEPT ![n + 1] = insort(padded[n + 1], w)]
  OBVIOUS
<1>8. n + 1 \in DOMAIN padded /\ DOMAIN padded = 1 .. Len(padded) /\ padded \in Rows
  BY <1>3 DEF Rows
<1>9. /\ full \in Rows /\ DOMAIN full = DOMAIN padded
      /\ \A i \in DOMAIN padded : full[i] = IF i = n + 1 THEN insort(padded[n + 1], w) ELSE padded[i]
  BY <1>6, <1>7, <1>8, Replaced
<1> HIDE DEF full
<1>10. Len(full) = Len(padded)
  BY <1>8, <1>9 DEF Rows
<1> QED BY <1>3, <1>4, <1>5, <1>8, <1>9, <1>10

LEMMA TidyAdded ==
  ASSUME NEW conj, Tidy(conj), NEW w \in Palavras, w \notin Words(conj)
  PROVE  /\ Tidy(acrescenta_palavra(conj, w))
         /\ Total(acrescenta_palavra(conj, w).palavras) = Total(conj.palavras) + Len(w)
<1> DEFINE n    == Len(w)
           rows == conj.palavras
           new  == acrescenta_palavra(conj, w)
           more == new.palavras
<1>1. n \in Nat /\ rows \in Rows /\ Len(rows) \in Nat /\ Lists(conj)
  BY WordsOf DEF Tidy, Palavras, Rows
<1>2. /\ more \in Rows /\ Len(more) = IF Len(rows) <= n THEN n + 1 ELSE Len(rows)
      /\ \A i \in 1 .. Len(more) :
           more[i] = IF i = n + 1 THEN insort(RowAt(rows, i), w) ELSE RowAt(rows, i)
  BY <1>1, AddedNew
<1>3. Lists(new) /\ Words(new) = Words(conj) \union {w} /\ new.numero = conj.numero + 1
  BY <1>1, AddedFacts
<1> HIDE DEF new, more, rows
<1>4. IsFiniteSet(Words(new)) /\ new.numero = Cardinality(Words(new))
  <2>1. IsFiniteSet(Words(conj)) /\ conj.numero = Cardinality(Words(conj))
    BY DEF Tidy
  <2> QED BY <1>3, <2>1, FS_AddElement
<1>5. \A i \in Nat \ {0} :
        /\ RowAt(rows, i) \in Seq(Palavras) /\ InOrder(RowAt(rows, i))
        /\ \A x \in Elements(RowAt(rows, i)) : Len(x) = i - 1 /\ x \in Words(conj)
  <2> SUFFICES ASSUME NEW i \in Nat \ {0}
               PROVE  /\ RowAt(rows, i) \in Seq(Palavras) /\ InOrder(RowAt(rows, i))
                      /\ \A x \in Elements(RowAt(rows, i)) : Len(x) = i - 1 /\ x \in Words(conj)
    OBVIOUS
  <2>1. RowAt(rows, i) \in Seq(Palavras)
    BY <1>1, RowsAt
  <2>2. CASE i <= Len(rows)
    <3>1. i \in 1 .. Len(rows) /\ RowAt(rows, i) = conj.palavras[i]
      BY <1>1, <2>2 DEF RowAt, rows
    <3>2. InOrder(conj.palavras[i])
      BY <3>1 DEF Tidy, rows
    <3>3. \A x \in Elements(conj.palavras[i]) : Len(x) = i - 1 /\ x \in Words(conj)
      BY <1>1, <3>1, WordsOf DEF rows
    <3> QED BY <2>1, <3>1, <3>2, <3>3
  <2>3. CASE ~ (i <= Len(rows))
    <3>1. RowAt(rows, i) = <<>> /\ Len(<<>>) = 0
      BY <2>3 DEF RowAt
    <3>2. Elements(<<>>) = {} /\ InOrder(<<>>)
      BY <3>1 DEF Elements, InOrder
    <3> QED BY <2>1, <3>1, <3>2
  <2> QED BY <2>2, <2>3
<1>6. /\ insort(RowAt(rows, n + 1), w) \in Seq(Palavras) /\ InOrder(insort(RowAt(rows, n + 1), w))
      /\ Len(insort(RowAt(rows, n + 1), w)) = Len(RowAt(rows, n + 1)) + 1
      /\ Len(RowAt(rows, n + 1)) \in Nat
  <2> DEFINE l == RowAt(rows, n + 1)
  <2>1. l \in Seq(Palavras) /\ InOrder(l) /\ \A x \in Elements(l) : Len(x) = n /\ x \in Words(conj)
    <3>1. n + 1 \in Nat \ {0} /\ (n + 1) - 1 = n
      BY <1>1
    <3> QED BY <1>5, <3>1
  <2> HIDE DEF l
  <2>2. w \notin Elements(l) /\ w \in LongWords(n)
    BY <2>1 DEF LongWords
  <2>3. \A i \in 1 .. Len(l) : Len(l[i]) = n
    BY <2>1, ElementsOf
  <2>4. InOrder(insort(l, w))
    BY <1>1, <2>1, <2>2, <2>3, InsertedInOrder
  <2>5. insort(l, w) \in Seq(Palavras) /\ Len(insort(l, w)) = Len(l) + 1
    BY <2>1, InsertedAt
  <2> QED BY <2>1, <2>4, <2>5 DEF l
<1>7. \A i \in 1 .. Len(more) : i \in Nat \ {0}
  OBVIOUS
<1>8. \A i \in 1 .. Len(more) : InOrder(more[i])
  BY <1>2, <1>5, <1>6, <1>7
<1>9. more # <<>> => more[Len(more)] # <<>>
  <2>1. Len(more) \in 1 .. Len(more)
    BY <1>1, <1>2
  <2>2. CASE Len(more) = n + 1
    <3>1. more[Len(more)] = insort(RowAt(rows, n + 1), w)
      BY <1>2, <2>1, <2>2
    <3>2. Len(insort(RowAt(rows, n + 1), w)) # 0
      BY <1>6
    <3> QED BY <3>1, <3>2
  <2>3. CASE Len(more) # n + 1
    <3>1. Len(more) = Len(rows) /\ ~ (Len(rows) <= n)
      BY <1>2, <2>3
    <3>2. more[Len(more)] = rows[Len(rows)]
      BY <1>2, <2>1, <2>3, <3>1 DEF RowAt
    <3>3. rows # <<>>
      BY <1>1, <3>1
    <3> QED BY <3>2, <3>3 DEF Tidy, rows
  <2> QED BY <2>2, <2>3
<1>10. Tidy(new)
  BY <1>3, <1>4, <1>8, <1>9 DEF Tidy, more
<1>11. Total(more) = Total(rows) + n
  <2>1. n + 1 <= Len(more) /\ Len(more) >= Len(rows) /\ Len(more) \in Nat
    BY <1>1, <1>2
  <2>2. ASSUME NEW i \in Nat
        PROVE  Len(RowAt(more, i + 1)) =
                 IF i = n THEN Len(RowAt(rows, i + 1)) + 1 ELSE Len(RowAt(rows, i + 1))
    <3>1. CASE i + 1 <= Len(more)
      <4>1. i + 1 \in 1 .. Len(more) /\ RowAt(more, i + 1) = more[i + 1]
        BY <2>1, <3>1 DEF RowAt
      <4>2. i + 1 = n + 1 <=> i = n
        BY <1>1
      <4> QED BY <1>2, <1>6, <4>1, <4>2
    <3>2. CASE ~ (i + 1 <= Len(more))
      <4>1. RowAt(more, i + 1) = <<>> /\ RowAt(rows, i + 1) = <<>> /\ i # n
        BY <1>1, <2>1, <3>2 DEF RowAt
      <4> QED BY <4>1
    <3> QED BY <3>1, <3>2
  <2> QED BY <1>1, <1>2, <2>1, <2>2, TotalOneMore
<1> QED BY <1>10, <1>11 DEF new, more, rows

\* There is one way to keep some words.
LEMMA OneTidy ==
  ASSUME NEW c, NEW d, Tidy(c), Tidy(d), Words(c) = Words(d)
  PROVE  c = d
<1>1. /\ Lists(c) /\ Lists(d) /\ c.palavras \in Rows /\ d.palavras \in Rows
      /\ c \in Conjuntos /\ d \in Conjuntos
  BY WordsOf, SetOf DEF Tidy
<1>2. c.numero = d.numero
  BY DEF Tidy
<1>3. ASSUME NEW a, NEW b, Tidy(a), Tidy(b), Words(a) = Words(b)
      PROVE  Len(a.palavras) <= Len(b.palavras)
  <2> DEFINE k == Len(a.palavras)
  <2>1. Lists(a) /\ Lists(b) /\ a.palavras \in Rows /\ b.palavras \in Rows
        /\ k \in Nat /\ Len(b.palavras) \in Nat
    BY <1>3, WordsOf DEF Tidy, Rows
  <2> SUFFICES ASSUME Len(b.palavras) < k PROVE FALSE
    BY <2>1
  <2>2. k \in 1 .. k /\ a.palavras # <<>>
    BY <2>1
  <2>3. a.palavras[k] # <<>> /\ a.palavras[k] \in Seq(Palavras)
    BY <1>3, <2>1, <2>2 DEF Tidy, Rows
  <2>4. PICK w : w \in Elements(a.palavras[k])
    <3>1. Len(a.palavras[k]) \in Nat /\ Len(a.palavras[k]) # 0
      BY <2>3, EmptySeq
    <3>2. 1 \in 1 .. Len(a.palavras[k])
      BY <3>1
    <3>3. a.palavras[k][1] \in Elements(a.palavras[k])
      BY <2>3, <3>2 DEF Elements
    <3> QED BY <3>3
  <2>5. w \in Words(a) /\ Len(w) = k - 1
    BY <2>1, <2>2, <2>4, WordsOf
  <2>6. PICK i \in 1 .. Len(b.palavras) : w \in Elements(b.palavras[i])
    BY <1>3, <2>1, <2>5, WordsOf
  <2>7. Len(w) = i - 1
    BY <2>1, <2>6, WordsOf
  <2> QED BY <2>1, <2>5, <2>7
<1>4. Len(c.palavras) = Len(d.palavras)
  <2>1. Len(c.palavras) <= Len(d.palavras) /\ Len(d.palavras) <= Len(c.palavras)
    BY <1>3
  <2>2. Len(c.palavras) \in Nat /\ Len(d.palavras) \in Nat
    BY <1>1 DEF Rows
  <2> QED BY <2>1, <2>2
<1>5. ASSUME NEW i \in 1 .. Len(c.palavras) PROVE c.palavras[i] = d.palavras[i]
  <2>1. /\ c.palavras[i] \in Seq(Palavras) /\ d.palavras[i] \in Seq(Palavras)
        /\ InOrder(c.palavras[i]) /\ InOrder(d.palavras[i]) /\ i - 1 \in Nat
    BY <1>1, <1>4 DEF Tidy, Rows
  <2>2. ASSUME NEW a, NEW b, Lists(a), Lists(b), Words(a) = Words(b),
               i \in 1 .. Len(a.palavras), NEW x \in Elements(a.palavras[i])
        PROVE  Len(x) = i - 1 /\ x \in Elements(b.palavras[i])
    <3>1. Len(x) = i - 1 /\ x \in Words(b)
      BY <2>2, WordsOf
    <3>2. PICK j \in 1 .. Len(b.palavras) : x \in Elements(b.palavras[j])
      BY <2>2, <3>1, WordsOf
    <3>3. Len(x) = j - 1
      BY <2>2, <3>2, WordsOf
    <3> QED BY <3>1, <3>2, <3>3
  <2>3. Elements(c.palavras[i]) = Elements(d.palavras[i])
    <3>1. \A x \in Elements(c.palavras[i]) : x \in Elements(d.palavras[i])
      BY <1>1, <2>2
    <3>2. \A x \in Elements(d.palavras[i]) : x \in Elements(c.palavras[i])
      BY <1>1, <1>4, <2>2
    <3> QED BY <3>1, <3>2
  <2>4. \A j \in 1 .. Len(c.palavras[i]) : Len(c.palavras[i][j]) = i - 1
    <3>1. \A x \in Elements(c.palavras[i]) : Len(x) = i - 1
      BY <1>1, <2>2
    <3> QED BY <2>1, <3>1, ElementsOf
  <2> QED BY <2>1, <2>3, <2>4, OneOrder
<1>6. c.palavras = d.palavras
  BY <1>1, <1>4, <1>5, SameRows
<1> QED BY <1>1, <1>2, <1>6 DEF Conjuntos

(***************************************************************************)
(* The sets of words stay tidy, and a player's score is what the words are *)
(* worth.                                                                  *)
(***************************************************************************)
Honest(j) ==
  /\ Tidy(j.validas) /\ Tidy(j.invalidas)
  /\ j.pontos = Total(j.validas.palavras) - Total(j.invalidas.palavras)

TidyInv ==
  /\ Tidy(p_validas) /\ Tidy(p_usadas)
  /\ \A j \in Players : Honest(jogadores[j])

LEMMA TidyFacts ==
  ASSUME NEW conj, Tidy(conj)
  PROVE  Lists(conj) /\ conj.palavras \in Rows /\ Total(conj.palavras) \in Int
<1>1. Lists(conj) /\ conj.palavras \in Rows
  BY WordsOf DEF Tidy
<1> QED BY <1>1, TotalType

LEMMA TidyMore ==
  ASSUME NEW conj, Tidy(conj), NEW w \in Palavras
  PROVE  Tidy(acrescenta_palavra(conj, w))
<1>1. CASE w \in Words(conj)
  BY <1>1, TidyFacts, AddedKnown
<1>2. CASE w \notin Words(conj)
  BY <1>2, TidyAdded
<1> QED BY <1>1, <1>2

LEMMA HonestNew == Honest(cria_jogador)
<1>1. /\ cria_jogador.validas = cria_conjunto_palavras
      /\ cria_jogador.invalidas = cria_conjunto_palavras /\ cria_jogador.pontos = 0
  BY DEF cria_jogador
<1> QED BY <1>1, TidyEmpty DEF Honest

LEMMA HonestCredited ==
  ASSUME NEW j \in Jogadores, Honest(j), NEW w \in Palavras
  PROVE  Honest(adiciona_palavra_valida(j, w))
<1>1. /\ Lists(j.validas) /\ j.pontos \in Int /\ Len(w) \in Nat
      /\ Total(j.validas.palavras) \in Int /\ Total(j.invalidas.palavras) \in Int
      /\ j.pontos = Total(j.validas.palavras) - Total(j.invalidas.palavras)
  BY TidyFacts DEF Honest, Jogadores, Palavras
<1>2. CASE palavra_no_conjunto(j.validas, w)
  BY <1>2 DEF adiciona_palavra_valida
<1>3. CASE ~ palavra_no_conjunto(j.validas, w)
  <2> DEFINE c   == acrescenta_palavra(j.validas, w)
             new == adiciona_palavra_valida(j, w)
  <2>1. w \notin Words(j.validas)
    BY <1>1, <1>3, Known
  <2>2. Tidy(c) /\ Total(c.palavras) = Total(j.validas.palavras) + Len(w)
    BY <2>1, TidyAdded DEF Honest
  <2>3. new = [j EXCEPT !.pontos = @ + Len(w), !.validas = c]
    BY <1>3 DEF adiciona_palavra_valida, palavra_tamanho
  <2> HIDE DEF c, new
  <2>4. new.pontos = j.pontos + Len(w) /\ new.validas = c /\ new.invalidas = j.invalidas
    BY <2>3 DEF Jogadores
  <2>5. new.pontos = Total(new.validas.palavras) - Total(new.invalidas.palavras)
    BY <1>1, <2>2, <2>4
  <2> QED BY <2>2, <2>4, <2>5 DEF Honest, new
<1> QED BY <1>2, <1>3

LEMMA HonestFined ==
  ASSUME NEW j \in Jogadores, Honest(j), NEW w \in Palavras
  PROVE  Honest(adiciona_palavra_invalida(j, w))
<1>1. /\ Lists(j.invalidas) /\ j.pontos \in Int /\ Len(w) \in Nat
      /\ Total(j.validas.palavras) \in Int /\ Total(j.invalidas.palavras) \in Int
      /\ j.pontos = Total(j.validas.palavras) - Total(j.invalidas.palavras)
  BY TidyFacts DEF Honest, Jogadores, Palavras
<1>2. CASE palavra_no_conjunto(j.invalidas, w)
  BY <1>2 DEF adiciona_palavra_invalida
<1>3. CASE ~ palavra_no_conjunto(j.invalidas, w)
  <2> DEFINE c   == acrescenta_palavra(j.invalidas, w)
             new == adiciona_palavra_invalida(j, w)
  <2>1. w \notin Words(j.invalidas)
    BY <1>1, <1>3, Known
  <2>2. Tidy(c) /\ Total(c.palavras) = Total(j.invalidas.palavras) + Len(w)
    BY <2>1, TidyAdded DEF Honest
  <2>3. new = [j EXCEPT !.pontos = @ - Len(w), !.invalidas = c]
    BY <1>3 DEF adiciona_palavra_invalida, palavra_tamanho
  <2> HIDE DEF c, new
  <2>4. new.pontos = j.pontos - Len(w) /\ new.invalidas = c /\ new.validas = j.validas
    BY <2>3 DEF Jogadores
  <2>5. new.pontos = Total(new.validas.palavras) - Total(new.invalidas.palavras)
    BY <1>1, <2>2, <2>4
  <2> QED BY <2>2, <2>4, <2>5 DEF Honest, new
<1> QED BY <1>2, <1>3

LEMMA TidyInit == Init => TidyInv
BY TidyEmpty DEF Init, TidyInv, Players

LEMMA TidyNext == GInv /\ TidyInv /\ [Next]_vars => TidyInv'
<1> SUFFICES ASSUME GInv, TidyInv, [Next]_vars PROVE TidyInv'
  OBVIOUS
<1>1. Typed
  BY TypedIsTypeOK DEF GInv
<1>2. jogadores \in Seq(Jogadores) /\ Players = 1 .. Len(jogadores) /\ Len(jogadores) \in Nat
      /\ \A j \in Players : jogadores[j] \in Jogadores
  BY <1>1 DEF Typed, Players
<1>3. ASSUME UNCHANGED <<jogadores, p_validas, p_usadas>> PROVE TidyInv'
  <2>1. Tidy(p_validas)' /\ Tidy(p_usadas)'
    BY <1>3 DEF TidyInv, Tidy, Lists, Words
  <2>2. Players' = Players /\ \A j \in Players : Honest(jogadores'[j])
    BY <1>3 DEF TidyInv, Players
  <2> QED BY <2>1, <2>2 DEF TidyInv
<1>4. CASE inscrever_jogadores
  <2>1. jogadores' = Append(jogadores, cria_jogador) /\ UNCHANGED <<p_validas, p_usadas>>
    BY <1>4 DEF inscrever_jogadores
  <2>2. cria_jogador \in Jogadores
    BY NewPlayer DEF Good
  <2>3. DOMAIN jogadores' = 1 .. Len(jogadores) + 1 /\ jogadores'[Len(jogadores) + 1] = cria_jogador
        /\ \A j \in 1 .. Len(jogadores) : jogadores'[j] = jogadores[j]
    BY <1>2, <2>1, <2>2
  <2>4. \A j \in 1 .. Len(jogadores) + 1 : Honest(jogadores'[j])
    BY <1>2, <2>3, HonestNew DEF TidyInv
  <2> QED BY <2>1, <2>3, <2>4 DEF TidyInv, Players
<1>5. CASE gera_todas_palavras_validas
  <2>1. PICK perm \in combinacoes :
          p_validas' = IF Grammar!e_palavra([i \in DOMAIN perm |-> letras[perm[i]]])
                       THEN acrescenta_palavra(p_validas, [i \in DOMAIN perm |-> letras[perm[i]]])
                       ELSE p_validas
    BY <1>5 DEF gera_todas_palavras_validas
  <2>2. Tidy(p_validas')
    BY <1>1, <2>1, Combined, TidyMore DEF TidyInv
  <2>3. UNCHANGED <<jogadores, p_usadas>>
    BY <1>5 DEF gera_todas_palavras_validas
  <2> QED BY <2>2, <2>3 DEF TidyInv, Players
<1>6. ASSUME NEW t \in Attempts, NewWord(t) PROVE TidyInv'
  <2>1. t \in Palavras /\ jogador_i + 1 \in 1 .. Len(jogadores)
    BY <1>1, <1>6, Turned DEF NewWord
  <2>2. /\ jogadores' = [jogadores EXCEPT ![jogador_i + 1] =
                           adiciona_palavra_valida(jogadores[jogador_i + 1], t)]
        /\ p_usadas' = acrescenta_palavra(p_usadas, t) /\ p_validas' = p_validas
    BY <1>6 DEF NewWord
  <2>3. Honest(adiciona_palavra_valida(jogadores[jogador_i + 1], t))
    BY <1>2, <2>1, HonestCredited DEF TidyInv
  <2>4. DOMAIN jogadores' = Players /\ \A j \in Players : Honest(jogadores'[j])
    BY <1>2, <2>2, <2>3 DEF TidyInv
  <2>5. Tidy(p_usadas')
    BY <2>1, <2>2, TidyMore DEF TidyInv
  <2> QED BY <2>2, <2>4, <2>5 DEF TidyInv, Players
<1>7. ASSUME NEW t \in Attempts, WrongWord(t) PROVE TidyInv'
  <2>1. t \in Palavras /\ jogador_i + 1 \in 1 .. Len(jogadores)
    BY <1>1, <1>7, Turned DEF WrongWord
  <2>2. /\ jogadores' = [jogadores EXCEPT ![jogador_i + 1] =
                           adiciona_palavra_invalida(jogadores[jogador_i + 1], t)]
        /\ UNCHANGED <<p_usadas, p_validas>>
    BY <1>7 DEF WrongWord
  <2>3. Honest(adiciona_palavra_invalida(jogadores[jogador_i + 1], t))
    BY <1>2, <2>1, HonestFined DEF TidyInv
  <2>4. DOMAIN jogadores' = Players /\ \A j \in Players : Honest(jogadores'[j])
    BY <1>2, <2>2, <2>3 DEF TidyInv
  <2> QED BY <2>2, <2>4 DEF TidyInv, Players
<1>8. CASE StartGenerating \/ StartGame
  BY <1>3, <1>8 DEF StartGenerating, StartGame
<1>9. CASE \E t \in Attempts : KnownWord(t)
  BY <1>3, <1>9 DEF KnownWord
<1>10. CASE (\E t \in Attempts : BadAttempt(t)) \/ NobodyPlays
  BY <1>3, <1>10 DEF BadAttempt, NobodyPlays, Raise
<1>11. CASE termina_jogo
  BY <1>3, <1>11 DEF termina_jogo
<1>12. CASE UNCHANGED vars
  BY <1>3, <1>12 DEF vars
<1> QED BY <1>4, <1>5, <1>6, <1>7, <1>8, <1>9, <1>10, <1>11, <1>12 DEF Next

LEMMA TidyInvariance == Spec => [](GInv /\ TidyInv)
<1>1. Init => GInv /\ TidyInv
  BY GuruInit, TidyInit
<1>2. GInv /\ TidyInv /\ [Next]_vars => (GInv /\ TidyInv)'
  BY GuruNext, TidyNext
<1> QED BY <1>1, <1>2, PTL DEF Spec

LEMMA ScoreEarned == GInv /\ TidyInv => ScoreIsEarned
<1> SUFFICES ASSUME GInv, TidyInv, NEW j \in Players
             PROVE  LET linha == jogador_para_cadeia(jogadores[j])
                    IN linha.PONTOS = Worth(linha.VALIDAS) - Worth(linha.INVALIDAS)
  BY DEF ScoreIsEarned
<1> DEFINE p == jogadores[j]
<1>1. Honest(p)
  BY DEF TidyInv
<1> HIDE DEF p
<1>2. ASSUME NEW conj, Tidy(conj)
      PROVE  Worth(conjunto_palavras_para_cadeia(conj)) = Total(conj.palavras)
  BY <1>2, TidyFacts, CadeiaWrites DEF Writes, Total
<1>3. jogador_para_cadeia(p).PONTOS = p.pontos
      /\ jogador_para_cadeia(p).VALIDAS = conjunto_palavras_para_cadeia(p.validas)
      /\ jogador_para_cadeia(p).INVALIDAS = conjunto_palavras_para_cadeia(p.invalidas)
  BY DEF jogador_para_cadeia, jogador_pontuacao, jogador_palavras_validas, jogador_palavras_invalidas
<1>4. jogador_para_cadeia(p).PONTOS = Worth(jogador_para_cadeia(p).VALIDAS) - Worth(jogador_para_cadeia(p).INVALIDAS)
  BY <1>1, <1>2, <1>3 DEF Honest
<1> QED BY <1>4 DEF p

\* How tidy sets are written.
LEMMA TidyWritten ==
  ASSUME NEW conj, Tidy(conj)
  PROVE  LET cadeia == conjunto_palavras_para_cadeia(conj)
         IN /\ \A i \in 1 .. Len(cadeia) - 1 : cadeia[i][1] < cadeia[i + 1][1]
            /\ \A i \in DOMAIN cadeia :
                 LET lista == cadeia[i][2]
                 IN /\ \A w \in Elements(lista) : palavra_tamanho(w) = cadeia[i][1]
                    /\ \A a, b \in DOMAIN lista : a < b => palavra_potencial_menor(lista[a], lista[b])
            /\ UNION {Elements(cadeia[i][2]) : i \in DOMAIN cadeia} = Words(conj)
            /\ numero_palavras(conj) = Cardinality(Words(conj))
<1> DEFINE cadeia == conjunto_palavras_para_cadeia(conj)
           rows   == conj.palavras
<1>1. Lists(conj) /\ rows \in Rows
  BY TidyFacts
<1>2. Writes(rows, Len(rows), cadeia)
  BY <1>1, CadeiaWrites
<1> HIDE DEF cadeia
<1>3. cadeia \in Seq(Entries) /\ DOMAIN cadeia = 1 .. Len(cadeia)
  BY <1>2 DEF Writes
<1>4. ASSUME NEW i \in DOMAIN cadeia
      PROVE  \E r \in 1 .. Len(rows) : cadeia[i][1] = r - 1 /\ cadeia[i][2] = rows[r]
  <2>1. PICK r \in 1 .. Len(rows) : cadeia[i] = <<r - 1, rows[r]>>
    BY <1>2, <1>3 DEF Writes
  <2> QED BY <2>1
<1>5. ASSUME NEW i \in DOMAIN cadeia
      PROVE  /\ \A w \in Elements(cadeia[i][2]) : palavra_tamanho(w) = cadeia[i][1] /\ w \in Words(conj)
             /\ \A a, b \in DOMAIN cadeia[i][2] :
                  a < b => palavra_potencial_menor(cadeia[i][2][a], cadeia[i][2][b])
  <2>1. PICK r \in 1 .. Len(rows) : cadeia[i][1] = r - 1 /\ cadeia[i][2] = rows[r]
    BY <1>4
  <2>2. \A w \in Elements(rows[r]) : Len(w) = r - 1 /\ w \in Words(conj)
    BY <1>1, WordsOf
  <2>3. DOMAIN rows[r] = 1 .. Len(rows[r])
    BY <1>1 DEF Rows
  <2>4. InOrder(rows[r])
    BY DEF Tidy
  <2>5. \A w \in Elements(cadeia[i][2]) : palavra_tamanho(w) = cadeia[i][1] /\ w \in Words(conj)
    BY <2>1, <2>2 DEF palavra_tamanho
  <2>6. \A a, b \in DOMAIN rows[r] : a < b => palavra_potencial_menor(rows[r][a], rows[r][b])
    BY <2>3, <2>4 DEF InOrder
  <2> QED BY <2>1, <2>5, <2>6
<1>6. ASSUME NEW w \in Words(conj) PROVE \E i \in DOMAIN cadeia : w \in Elements(cadeia[i][2])
  <2>1. PICK r \in 1 .. Len(rows) : w \in Elements(rows[r])
    BY <1>1, WordsOf
  <2>2. rows[r] # <<>>
    <3>1. Elements(<<>>) = {}
      BY DEF Elements
    <3> QED BY <2>1, <3>1
  <2>3. PICK e \in 1 .. Len(cadeia) : cadeia[e] = <<r - 1, rows[r]>>
    BY <1>2, <2>2 DEF Writes
  <2> QED BY <1>3, <2>1, <2>3
<1>7. UNION {Elements(cadeia[i][2]) : i \in DOMAIN cadeia} = Words(conj)
  BY <1>5, <1>6
<1>8. \A i \in 1 .. Len(cadeia) - 1 : cadeia[i][1] < cadeia[i + 1][1]
  BY <1>2 DEF Writes
<1>9. numero_palavras(conj) = Cardinality(Words(conj))
  BY DEF Tidy, numero_palavras
<1> QED BY <1>5, <1>7, <1>8, <1>9 DEF cadeia

LEMMA AllWritten == TidyInv => WrittenInOrder
<1> SUFFICES ASSUME TidyInv PROVE WrittenInOrder
  OBVIOUS
<1> DEFINE sets == {p_validas, p_usadas} \union {jogador_palavras_validas(jogadores[j]) : j \in Players}
                     \union {jogador_palavras_invalidas(jogadores[j]) : j \in Players}
<1>1. \A conj \in sets : Tidy(conj)
  BY DEF TidyInv, Honest, jogador_palavras_validas, jogador_palavras_invalidas
<1> HIDE DEF sets
<1>2. \A conj, other \in sets :
        Words(other) = Words(conj) => conjuntos_palavras_iguais(other, conj)
  BY <1>1, OneTidy DEF conjuntos_palavras_iguais
<1>3. \A conj \in sets :
        LET cadeia == conjunto_palavras_para_cadeia(conj)
        IN /\ \A i \in 1 .. Len(cadeia) - 1 : cadeia[i][1] < cadeia[i + 1][1]
           /\ \A i \in DOMAIN cadeia :
                LET lista == cadeia[i][2]
                IN /\ \A w \in Elements(lista) : palavra_tamanho(w) = cadeia[i][1]
                   /\ \A a, b \in DOMAIN lista : a < b => palavra_potencial_menor(lista[a], lista[b])
           /\ UNION {Elements(cadeia[i][2]) : i \in DOMAIN cadeia} = Words(conj)
           /\ numero_palavras(conj) = Cardinality(Words(conj))
           /\ \A other \in sets : Words(other) = Words(conj) => conjuntos_palavras_iguais(other, conj)
  <2> TAKE conj \in sets
  <2>1. Tidy(conj)
    BY <1>1
  <2> QED BY <1>2, <2>1, TidyWritten
<1> QED BY <1>3 DEF WrittenInOrder, sets

(***************************************************************************)
(* The winners.                                                            *)
(***************************************************************************)
Standing == [max_pontuacao : Int, vencedores : Seq(Nat)]

\* What player i makes of a standing.
Step(i, s) ==
  LET so_far    == s.vencedores
      pontuacao == jogador_pontuacao(jogadores[i])
      max_      == Maximum(s.max_pontuacao, pontuacao)
  IN [max_pontuacao |-> max_,
      vencedores |-> IF pontuacao # max_ THEN so_far
                     ELSE IF /\ so_far # <<>>
                             /\ jogador_pontuacao(jogadores[so_far[1]]) = max_
                          THEN Append(so_far, i)
                          ELSE <<i>>]

AfterEqn(start, f) ==
  f = [i \in 0 .. Len(jogadores) |->
         IF i = 0 THEN [max_pontuacao |-> start, vencedores |-> <<>>]
         ELSE LET so_far    == f[i - 1].vencedores
                  pontuacao == jogador_pontuacao(jogadores[i])
                  max_      == Maximum(f[i - 1].max_pontuacao, pontuacao)
              IN [max_pontuacao |-> max_,
                  vencedores |-> IF pontuacao # max_ THEN so_far
                                 ELSE IF /\ so_far # <<>>
                                         /\ jogador_pontuacao(jogadores[so_far[1]]) = max_
                                      THEN Append(so_far, i)
                                      ELSE <<i>>]]

AfterOf(start) == CHOOSE f : AfterEqn(start, f)

LEMMA StepType ==
  ASSUME jogadores \in Seq(Jogadores), NEW i \in 1 .. Len(jogadores), NEW s \in Standing
  PROVE  Step(i, s) \in Standing
<1>1. jogador_pontuacao(jogadores[i]) \in Int
  <2>1. jogadores[i] \in Jogadores
    OBVIOUS
  <2> QED BY <2>1 DEF jogador_pontuacao, Jogadores
<1>2. s.max_pontuacao \in Int /\ s.vencedores \in Seq(Nat) /\ i \in Nat
  BY DEF Standing
<1>3. Append(s.vencedores, i) \in Seq(Nat) /\ <<i>> \in Seq(Nat)
  BY <1>2
<1>4. Maximum(s.max_pontuacao, jogador_pontuacao(jogadores[i])) \in Int
  BY <1>1, <1>2 DEF Maximum
<1> QED BY <1>2, <1>3, <1>4 DEF Step, Standing

LEMMA AfterIs ==
  ASSUME jogadores \in Seq(Jogadores), NEW start \in Int
  PROVE  /\ WinnersFrom(start) = AfterOf(start)[Len(jogadores)].vencedores
         /\ AfterOf(start)[0] = [max_pontuacao |-> start, vencedores |-> <<>>]
         /\ \A i \in 1 .. Len(jogadores) : AfterOf(start)[i] = Step(i, AfterOf(start)[i - 1])
         /\ \A i \in 0 .. Len(jogadores) : AfterOf(start)[i] \in Standing
<1> DEFINE n     == Len(jogadores)
           first == [max_pontuacao |-> start, vencedores |-> <<>>]
           F     == [i \in Nat |-> [s \in Standing |-> IF i + 1 \in 1 .. n THEN Step(i + 1, s) ELSE s]]
<1>1. n \in Nat
  OBVIOUS
<1>2. F \in [Nat -> [Standing -> Standing]]
  BY StepType
<1>3. \A i \in Nat : \A s \in Standing : F[i][s] = IF i + 1 \in 1 .. n THEN Step(i + 1, s) ELSE s
  OBVIOUS
<1>4. PICK a \in Standing : a = first
  <2>1. <<>> \in Seq(Nat)
    OBVIOUS
  <2>2. first \in Standing
    BY <2>1 DEF Standing
  <2> QED BY <2>2
<1> HIDE DEF F, n
<1>5. PICK g \in [Nat -> Standing] : g[0] = a /\ \A i \in Nat : g[i + 1] = F[i][g[i]]
  <2>1. Recurses(Standing, a, F, Recursed(Standing, a, F))
    BY <1>2, Recursion
  <2> QED BY <2>1 DEF Recurses
<1>6. ASSUME NEW i \in 1 .. n PROVE g[i] = Step(i, g[i - 1])
  <2>1. i - 1 \in Nat /\ (i - 1) + 1 = i /\ g[i - 1] \in Standing
    BY <1>1
  <2>2. g[i] = F[i - 1][g[i - 1]]
    BY <1>5, <2>1
  <2> QED BY <1>3, <2>1, <2>2
<1> DEFINE h == [i \in 0 .. n |-> g[i]]
<1>7. AfterEqn(start, h)
  <2>1. \A i \in 0 .. n : h[i] = IF i = 0 THEN first ELSE Step(i, h[i - 1])
    <3> SUFFICES ASSUME NEW i \in 0 .. n PROVE h[i] = IF i = 0 THEN first ELSE Step(i, h[i - 1])
      OBVIOUS
    <3>1. CASE i = 0
      BY <1>4, <1>5, <3>1
    <3>2. CASE i # 0
      <4>1. i \in 1 .. n /\ i - 1 \in 0 .. n
        BY <1>1, <3>2
      <4>2. h[i] = g[i] /\ h[i - 1] = g[i - 1]
        BY <4>1
      <4> HIDE DEF h
      <4> QED BY <1>6, <3>2, <4>1, <4>2
    <3> QED BY <3>1, <3>2
  <2>2. h = [i \in 0 .. n |-> h[i]]
    OBVIOUS
  <2> HIDE DEF h
  <2>3. h = [i \in 0 .. n |-> IF i = 0 THEN first ELSE Step(i, h[i - 1])]
    BY <2>1, <2>2
  <2> QED BY <2>3 DEF AfterEqn, Step, n
<1>8. AfterEqn(start, AfterOf(start))
  BY <1>7 DEF AfterOf
<1>9. \A i \in 0 .. n : AfterOf(start)[i] = IF i = 0 THEN first ELSE Step(i, AfterOf(start)[i - 1])
  <2> DEFINE f == AfterOf(start)
  <2> HIDE DEF f
  <2>1. f = [i \in 0 .. n |-> IF i = 0 THEN first ELSE Step(i, f[i - 1])]
    BY <1>8 DEF AfterEqn, Step, f, n
  <2> HIDE DEF first
  <2>2. \A i \in 0 .. n : f[i] = IF i = 0 THEN first ELSE Step(i, f[i - 1])
    BY <2>1
  <2> QED BY <2>2 DEF f
<1>10. /\ AfterOf(start)[0] = first
       /\ \A i \in 1 .. n : AfterOf(start)[i] = Step(i, AfterOf(start)[i - 1])
  <2>1. \A i \in 1 .. n : i \in 0 .. n /\ i # 0
    BY <1>1
  <2>2. 0 \in 0 .. n
    BY <1>1
  <2> HIDE DEF first
  <2> QED BY <1>9, <2>1, <2>2
<1>11. \A i \in 0 .. n : AfterOf(start)[i] \in Standing
  <2> DEFINE S == {i \in 0 .. n : AfterOf(start)[i] \in Standing}
  <2>1. 0 \in S
    BY <1>1, <1>4, <1>10
  <2>2. ASSUME NEW i \in 1 .. n, i - 1 \in S PROVE i \in S
    BY <1>1, <1>10, <2>2, StepType DEF n
  <2> HIDE DEF S
  <2>3. 0 .. n \subseteq S
    BY <1>1, <2>1, <2>2, BoundedInduct
  <2> QED BY <2>3 DEF S
<1>12. WinnersFrom(start) = AfterOf(start)[n].vencedores
  BY DEF WinnersFrom, AfterOf, AfterEqn, n
<1> QED BY <1>10, <1>11, <1>12 DEF n

\* What the standing says of the first i players.
Score(j) == jogador_pontuacao(jogadores[j])

Fair(i, s) ==
  /\ s.max_pontuacao >= -1 /\ \A j \in 1 .. i : Score(j) <= s.max_pontuacao
  /\ s.max_pontuacao = -1 \/ \E j \in 1 .. i : Score(j) = s.max_pontuacao
  /\ Elements(s.vencedores) = {j \in 1 .. i : Score(j) = s.max_pontuacao}
  /\ \A a, b \in 1 .. Len(s.vencedores) : a # b => s.vencedores[a] # s.vencedores[b]

LEMMA FairStep ==
  ASSUME jogadores \in Seq(Jogadores), NEW i \in 1 .. Len(jogadores), NEW s \in Standing,
         Fair(i - 1, s)
  PROVE  Fair(i, Step(i, s))
<1> DEFINE so_far == s.vencedores
           old    == s.max_pontuacao
           max_   == Maximum(old, Score(i))
           new    == Step(i, s)
<1>1. \A j \in 1 .. Len(jogadores) : Score(j) \in Int
  <2>1. \A j \in 1 .. Len(jogadores) : jogadores[j] \in Jogadores
    OBVIOUS
  <2> QED BY <2>1 DEF Score, jogador_pontuacao, Jogadores
<1>2. old \in Int /\ so_far \in Seq(Nat) /\ Len(so_far) \in Nat
  BY DEF Standing
<1>3. Len(jogadores) \in Nat
  OBVIOUS
<1>4. \A j \in 1 .. i : j \in 1 .. Len(jogadores) /\ (j \in 1 .. i - 1 \/ j = i)
  BY <1>3
<1>5. \A j \in 1 .. i - 1 : j \in 1 .. i /\ j # i
  BY <1>3
<1>6. max_ \in Int /\ max_ >= old /\ max_ >= Score(i) /\ (max_ = old \/ max_ = Score(i))
  BY <1>1, <1>2 DEF Maximum
<1>7. /\ old >= -1 /\ \A j \in 1 .. i - 1 : Score(j) <= old
      /\ old = -1 \/ \E j \in 1 .. i - 1 : Score(j) = old
      /\ Elements(so_far) = {j \in 1 .. i - 1 : Score(j) = old}
      /\ \A a, b \in 1 .. Len(so_far) : a # b => so_far[a] # so_far[b]
  BY DEF Fair
<1>8. new.max_pontuacao = max_
      /\ new.vencedores = IF Score(i) # max_ THEN so_far
                          ELSE IF so_far # <<>> /\ Score(so_far[1]) = max_
                               THEN Append(so_far, i) ELSE <<i>>
  BY DEF Step, Score
<1> HIDE DEF so_far, old, max_, new
<1>9. max_ >= -1 /\ \A j \in 1 .. i : Score(j) <= max_
  <2>1. ASSUME NEW j \in 1 .. i PROVE Score(j) <= max_
    <3>1. CASE j = i
      BY <1>6, <3>1
    <3>2. CASE j \in 1 .. i - 1
      <4>1. Score(j) <= old /\ Score(j) \in Int
        BY <1>1, <1>4, <1>7, <3>2
      <4> QED BY <1>2, <1>6, <4>1
    <3> QED BY <1>4, <3>1, <3>2
  <2>2. max_ >= -1
    BY <1>2, <1>6, <1>7
  <2> QED BY <2>1, <2>2
<1>10. i \in 1 .. i
  BY <1>3
<1>11. max_ = -1 \/ \E j \in 1 .. i : Score(j) = max_
  <2>1. CASE max_ = Score(i)
    BY <1>10, <2>1
  <2>2. CASE max_ = old
    BY <1>5, <1>7, <2>2
  <2> QED BY <1>6, <2>1, <2>2
<1>12. /\ Elements(new.vencedores) = {j \in 1 .. i : Score(j) = max_}
       /\ \A a, b \in 1 .. Len(new.vencedores) : a # b => new.vencedores[a] # new.vencedores[b]
  <2>1. CASE Score(i) # max_
    <3>1. max_ = old /\ new.vencedores = so_far
      BY <1>6, <1>8, <2>1
    <3>2. {j \in 1 .. i : Score(j) = max_} = {j \in 1 .. i - 1 : Score(j) = old}
      BY <1>4, <1>5, <2>1, <3>1
    <3> QED BY <1>7, <3>1, <3>2
  <2>2. CASE Score(i) = max_ /\ so_far # <<>> /\ Score(so_far[1]) = max_
    <3>1. new.vencedores = Append(so_far, i)
      BY <1>8, <2>2
    <3>2. 1 \in 1 .. Len(so_far)
      <4>1. Len(so_far) # 0
        BY <1>2, <2>2, EmptySeq
      <4> QED BY <1>2, <4>1
    <3>3. max_ = old
      <4>1. so_far[1] \in Elements(so_far)
        BY <1>2, <3>2, ElementsOf
      <4> QED BY <1>7, <2>2, <4>1
    <3>4. /\ Len(new.vencedores) = Len(so_far) + 1 /\ new.vencedores[Len(so_far) + 1] = i
          /\ \A a \in 1 .. Len(so_far) : new.vencedores[a] = so_far[a]
          /\ new.vencedores \in Seq(Nat)
      BY <1>2, <3>1
    <3>5. \A a \in 1 .. Len(so_far) : so_far[a] \in Elements(so_far)
      BY <1>2, ElementsOf
    <3>6. \A a \in 1 .. Len(so_far) : so_far[a] # i
      BY <1>5, <1>7, <3>5
    <3>7. \A a \in 1 .. Len(new.vencedores) : a \in 1 .. Len(so_far) \/ a = Len(so_far) + 1
      BY <1>2, <3>4
    <3>8. \A a, b \in 1 .. Len(new.vencedores) : a # b => new.vencedores[a] # new.vencedores[b]
      BY <1>7, <3>4, <3>6, <3>7
    <3>9. Elements(new.vencedores) = Elements(so_far) \union {i}
      <4>1. ASSUME NEW x \in Elements(new.vencedores) PROVE x \in Elements(so_far) \union {i}
        <5>1. PICK a \in 1 .. Len(new.vencedores) : new.vencedores[a] = x
          BY <3>4, <4>1, ElementsOf
        <5> QED BY <3>4, <3>5, <3>7, <5>1
      <4>2. ASSUME NEW x \in Elements(so_far) PROVE x \in Elements(new.vencedores)
        <5>1. PICK a \in 1 .. Len(so_far) : so_far[a] = x
          BY <1>2, <4>2, ElementsOf
        <5>2. a \in 1 .. Len(new.vencedores)
          BY <1>2, <3>4
        <5>3. new.vencedores[a] = x
          BY <3>4, <5>1
        <5> QED BY <3>4, <5>2, <5>3, ElementsOf
      <4>3. i \in Elements(new.vencedores)
        <5>1. Len(so_far) + 1 \in 1 .. Len(new.vencedores)
          BY <1>2, <3>4
        <5> QED BY <3>4, <5>1, ElementsOf
      <4> QED BY <4>1, <4>2, <4>3
    <3>10. {j \in 1 .. i : Score(j) = max_} = {j \in 1 .. i - 1 : Score(j) = old} \union {i}
      BY <1>4, <1>5, <1>10, <2>2, <3>3
    <3> QED BY <1>7, <3>8, <3>9, <3>10
  <2>3. CASE Score(i) = max_ /\ ~ (so_far # <<>> /\ Score(so_far[1]) = max_)
    <3>1. new.vencedores = <<i>>
      BY <1>8, <2>3
    <3>2. Elements(<<i>>) = {i} /\ \A a, b \in 1 .. Len(<<i>>) : a = b
      BY DEF Elements
    <3>3. ASSUME NEW j \in 1 .. i - 1, Score(j) = max_ PROVE FALSE
      <4>1. max_ = old
        BY <1>2, <1>6, <1>7, <3>3
      <4>2. j \in Elements(so_far)
        BY <1>7, <3>3, <4>1
      <4>3. PICK a \in 1 .. Len(so_far) : so_far[a] = j
        BY <1>2, <4>2, ElementsOf
      <4>4. 1 \in 1 .. Len(so_far) /\ so_far # <<>>
        BY <1>2, <4>3
      <4>5. so_far[1] \in Elements(so_far)
        BY <1>2, <4>4, ElementsOf
      <4>6. Score(so_far[1]) = old
        BY <1>7, <4>5
      <4> QED BY <2>3, <4>1, <4>4, <4>6
    <3>4. {j \in 1 .. i : Score(j) = max_} = {i}
      BY <1>4, <1>10, <2>3, <3>3
    <3> QED BY <3>1, <3>2, <3>4
  <2> QED BY <2>1, <2>2, <2>3
<1>13. Fair(i, new)
  BY <1>8, <1>9, <1>11, <1>12 DEF Fair
<1> QED BY <1>13 DEF new

LEMMA FairResult ==
  ASSUME jogadores \in Seq(Jogadores)
  PROVE  \E s \in Standing : Fair(Len(jogadores), s) /\ Selected = s.vencedores
<1> DEFINE n == Len(jogadores)
           f == AfterOf(-1)
           S == {i \in 0 .. n : Fair(i, f[i])}
<1>1. n \in Nat /\ -1 \in Int
  OBVIOUS
<1>2. /\ WinnersFrom(-1) = f[n].vencedores /\ f[0] = [max_pontuacao |-> -1, vencedores |-> <<>>]
      /\ \A i \in 1 .. n : f[i] = Step(i, f[i - 1])
      /\ \A i \in 0 .. n : f[i] \in Standing
  BY <1>1, AfterIs
<1> HIDE DEF f
<1>3. 0 \in S
  <2>1. f[0].max_pontuacao = -1 /\ f[0].vencedores = <<>>
    BY <1>2
  <2>2. Elements(<<>>) = {} /\ Len(<<>>) = 0 /\ 1 .. 0 = {}
    BY DEF Elements
  <2>3. Fair(0, f[0])
    BY <2>1, <2>2 DEF Fair
  <2> QED BY <1>1, <2>3
<1>4. ASSUME NEW i \in 1 .. n, i - 1 \in S PROVE i \in S
  <2>1. Fair(i - 1, f[i - 1]) /\ f[i - 1] \in Standing /\ i \in 0 .. n
    BY <1>1, <1>2, <1>4
  <2>2. Fair(i, Step(i, f[i - 1]))
    BY <2>1, FairStep
  <2> QED BY <1>2, <2>1, <2>2
<1>5. n \in S
  <2> HIDE DEF S
  <2>1. 0 .. n \subseteq S
    BY <1>1, <1>3, <1>4, BoundedInduct
  <2> QED BY <1>1, <2>1
<1>6. Fair(n, f[n]) /\ f[n] \in Standing /\ Selected = f[n].vencedores
  BY <1>1, <1>2, <1>5 DEF Selected
<1> QED BY <1>6

\* The players with the best score are as many as the list of them says.
LEMMA Listed ==
  ASSUME NEW l \in Seq(Nat), \A a, b \in 1 .. Len(l) : a # b => l[a] # l[b]
  PROVE  Cardinality(Elements(l)) = Len(l)
<1> DEFINE f == [i \in 1 .. Len(l) |-> l[i]]
<1>1. Len(l) \in Nat /\ DOMAIN l = 1 .. Len(l)
  OBVIOUS
<1>2. f \in Bijection(1 .. Len(l), Elements(l))
  <2>1. f \in [1 .. Len(l) -> Elements(l)]
    BY <1>1 DEF Elements
  <2>2. IsInjective(f)
    BY DEF IsInjective
  <2>3. \A x \in Elements(l) : \E i \in 1 .. Len(l) : f[i] = x
    BY <1>1 DEF Elements
  <2> HIDE DEF f
  <2> QED BY <2>1, <2>2, <2>3 DEF Bijection, Injection, Surjection
<1> HIDE DEF f
<1>3. Cardinality(1 .. Len(l)) = Len(l) /\ IsFiniteSet(1 .. Len(l))
  <2>1. 1 \in Int /\ Len(l) \in Int
    BY <1>1
  <2>2. Cardinality(1 .. Len(l)) = (IF 1 > Len(l) THEN 0 ELSE Len(l) - 1 + 1) /\ IsFiniteSet(1 .. Len(l))
    BY <2>1, FS_Interval
  <2> QED BY <1>1, <2>2
<1>4. ExistsBijection(1 .. Len(l), Elements(l))
  BY <1>2 DEF ExistsBijection
<1> QED BY <1>3, <1>4, FS_Bijection

\* How the game ends.
LEMMA WinnersChosen == GInv /\ termina_jogo => WinnersAreBest'
<1> SUFFICES ASSUME GInv, termina_jogo PROVE WinnersAreBest'
  OBVIOUS
<1>1. jogadores \in Seq(Jogadores) /\ Players = 1 .. Len(jogadores) /\ Len(jogadores) \in Nat
  <2>1. jogadores \in Seq(Jogadores)
    BY TypedIsTypeOK DEF GInv, Typed
  <2> QED BY <2>1 DEF Players
<1>2. /\ faltam = 0 /\ vencedores' = Selected /\ jogadores' = jogadores /\ faltam' = faltam
      /\ fase' = IF Len(Selected) > 1 THEN "empate"
                 ELSE IF Selected # <<>> THEN "vitoria" ELSE "IndexError"
  BY DEF termina_jogo
<1>3. PICK s \in Standing : Fair(Len(jogadores), s) /\ Selected = s.vencedores
  BY <1>1, FairResult
<1> DEFINE win  == Selected
           best == {j \in Players : \A k \in Players : Score(k) <= Score(j)}
<1>4. win \in Seq(Nat) /\ Len(win) \in Nat
  BY <1>3 DEF Standing
<1>5. /\ s.max_pontuacao >= -1 /\ \A j \in Players : Score(j) <= s.max_pontuacao
      /\ s.max_pontuacao = -1 \/ \E j \in Players : Score(j) = s.max_pontuacao
      /\ Elements(win) = {j \in Players : Score(j) = s.max_pontuacao}
      /\ \A a, b \in 1 .. Len(win) : a # b => win[a] # win[b]
  BY <1>1, <1>3 DEF Fair
<1>6. s.max_pontuacao \in Int /\ \A j \in Players : Score(j) \in Int
  <2>1. \A j \in Players : jogadores[j] \in Jogadores
    BY <1>1
  <2> QED BY <2>1 DEF Standing, Score, jogador_pontuacao, Jogadores
<1>7. Cardinality(Elements(win)) = Len(win)
  BY <1>4, <1>5, Listed
<1> HIDE DEF win
<1>8. ASSUME win # <<>> PROVE Elements(win) = best
  <2>1. Len(win) # 0
    BY <1>4, <1>8, EmptySeq
  <2>2. 1 \in 1 .. Len(win)
    BY <1>4, <2>1
  <2>3. win[1] \in Elements(win)
    BY <1>4, <2>2, ElementsOf
  <2>4. PICK w \in Players : Score(w) = s.max_pontuacao
    BY <1>5, <2>3
  <2>5. ASSUME NEW j \in Players PROVE j \in best <=> Score(j) = s.max_pontuacao
    <3>1. ASSUME j \in best PROVE Score(j) = s.max_pontuacao
      <4>1. Score(w) <= Score(j) /\ Score(j) <= s.max_pontuacao
        BY <1>5, <3>1
      <4> QED BY <1>6, <2>4, <4>1
    <3>2. ASSUME Score(j) = s.max_pontuacao PROVE j \in best
      BY <1>5, <3>2
    <3> QED BY <3>1, <3>2
  <2> QED BY <1>5, <2>5
<1>9. ASSUME win = <<>> PROVE \A j \in Players : Score(j) < -1
  <2>1. Elements(win) = {}
    BY <1>9 DEF Elements
  <2>2. \A j \in Players : Score(j) # s.max_pontuacao
    BY <1>5, <2>1
  <2>3. s.max_pontuacao = -1
    BY <1>5, <2>2
  <2> SUFFICES ASSUME NEW j \in Players PROVE Score(j) < -1
    OBVIOUS
  <2>4. Score(j) <= -1 /\ Score(j) # -1 /\ Score(j) \in Int
    BY <1>5, <1>6, <2>2, <2>3
  <2> QED BY <2>4
<1>10. Players' = Players /\ Elements(vencedores') = Elements(win) /\ faltam' = 0
  BY <1>2 DEF Players, win
<1>11. \A j \in Players : jogador_pontuacao(jogadores'[j]) = Score(j)
  BY <1>2 DEF Score
<1>12. best = {j \in Players : \A k \in Players :
                 jogador_pontuacao(jogadores'[k]) <= jogador_pontuacao(jogadores'[j])}
  BY <1>11
<1> HIDE DEF best
<1>13. CASE fase' = "empate"
  <2>1. Len(win) > 1
    BY <1>2, <1>13 DEF win
  <2>2. win # <<>>
    BY <2>1
  <2>3. Elements(win) = best /\ Cardinality(best) > 1
    BY <1>7, <1>8, <2>1, <2>2
  <2> QED BY <1>10, <1>12, <1>13, <2>3 DEF WinnersAreBest
<1>14. CASE fase' = "vitoria"
  <2>1. ~ (Len(win) > 1) /\ win # <<>>
    BY <1>2, <1>14 DEF win
  <2>2. Len(win) # 0
    BY <1>4, <2>1, EmptySeq
  <2>3. Len(win) = 1
    <3>1. \A k \in Nat : ~ (k > 1) /\ k # 0 => k = 1
      OBVIOUS
    <3> QED BY <1>4, <2>1, <2>2, <3>1
  <2>4. Elements(win) = best /\ Cardinality(best) = 1
    BY <1>7, <1>8, <2>1, <2>3
  <2> QED BY <1>10, <1>12, <1>14, <2>4 DEF WinnersAreBest
<1>15. CASE fase' = "IndexError"
  <2>1. win = <<>>
    BY <1>2, <1>15 DEF win
  <2>2. \A j \in Players : jogador_pontuacao(jogadores'[j]) < -1
    BY <1>9, <1>11, <2>1
  <2> QED BY <1>10, <1>15, <2>2 DEF WinnersAreBest
<1> QED BY <1>2, <1>13, <1>14, <1>15

LEMMA WinnersInit == Init => WinnersAreBest
BY DEF Init, WinnersAreBest

LEMMA WinnersNext == GInv /\ WinnersAreBest /\ [Next]_vars => WinnersAreBest'
<1> SUFFICES ASSUME GInv, WinnersAreBest, [Next]_vars PROVE WinnersAreBest'
  OBVIOUS
<1>1. ASSUME fase' \notin {"empate", "vitoria", "IndexError"} PROVE WinnersAreBest'
  BY <1>1 DEF WinnersAreBest
<1>2. CASE termina_jogo
  BY <1>2, WinnersChosen
<1>3. CASE NobodyPlays
  <2>1. fase' = "IndexError" /\ jogadores' = <<>>
    BY <1>3 DEF NobodyPlays, Raise
  <2>2. Players' = {}
    BY <2>1 DEF Players
  <2> QED BY <2>1, <2>2 DEF WinnersAreBest
<1>4. CASE UNCHANGED vars
  BY <1>4 DEF vars, WinnersAreBest, Players
<1>5. CASE inscrever_jogadores \/ StartGenerating \/ gera_todas_palavras_validas \/ StartGame
  BY <1>1, <1>5 DEF inscrever_jogadores, StartGenerating, gera_todas_palavras_validas, StartGame
<1>6. CASE \E t \in Attempts : NewWord(t) \/ KnownWord(t) \/ WrongWord(t)
  BY <1>1, <1>6 DEF NewWord, KnownWord, WrongWord, Turn
<1>7. CASE \E t \in Attempts : BadAttempt(t)
  BY <1>1, <1>7 DEF BadAttempt, Raise
<1> QED BY <1>2, <1>3, <1>4, <1>5, <1>6, <1>7 DEF Next

\* The winners announced are the players with the highest score (proj.py:391-422).
THEOREM GuruWinnersAreBest == Spec => []WinnersAreBest
<1>1. Init => GInv /\ WinnersAreBest
  BY GuruInit, WinnersInit
<1>2. GInv /\ WinnersAreBest /\ [Next]_vars => (GInv /\ WinnersAreBest)'
  BY GuruNext, WinnersNext
<1>3. GInv /\ WinnersAreBest => WinnersAreBest
  OBVIOUS
<1> QED BY <1>1, <1>2, <1>3, PTL DEF Spec

\* What a game announces is true, whatever the letters, the words and the players:
\* the winners, the scores, and under them the words that earned them, in order
\* (proj.py:144-216, 289-345, 391-422).
THEOREM GuruResultIsTrue == Spec => []ResultIsTrue
<1>1. GInv /\ TidyInv => ScoreIsEarned /\ WrittenInOrder
  BY ScoreEarned, AllWritten
<1>2. ScoreIsEarned /\ WrittenInOrder /\ WinnersAreBest => ResultIsTrue
  BY DEF ResultIsTrue
<1> QED BY <1>1, <1>2, TidyInvariance, GuruWinnersAreBest, PTL

(***************************************************************************)
(* The grammar's syllables, letter by letter.  A language whose strings    *)
(* all have one length is cut at one place only.                           *)
(***************************************************************************)
Chars ==
  STRING \union {"A", "B", "C", "D", "E", "F", "G", "H", "I", "J", "L", "M", "N", "O", "P", "Q", "R",
                 "S", "T", "U", "V", "X", "Z"}

Sized(A, m) == A \subseteq Seq(Chars) /\ \A a \in A : Len(a) = m

LEMMA OneLetter == ASSUME NEW S, NEW c \in S PROVE <<c>> \in Seq(S) /\ Len(<<c>>) = 1 /\ <<c>>[1] = c
  OBVIOUS

LEMMA CatOf ==
  ASSUME NEW A, NEW B, NEW t
  PROVE  t \in Language!Cat(A, B) <=> \E a \in A : \E b \in B : t = a \o b
  BY DEF Language!Cat

LEMMA OneIs ==
  ASSUME NEW S \in SUBSET Chars
  PROVE  /\ Sized(Language!One(S), 1)
         /\ \A t \in Seq(Chars) : t \in Language!One(S) <=> Len(t) = 1 /\ t[1] \in S
<1>1. ASSUME NEW c \in S PROVE <<c>> \in Seq(Chars) /\ Len(<<c>>) = 1 /\ <<c>>[1] = c
  <2>1. c \in Chars
    OBVIOUS
  <2> QED BY <2>1, OneLetter, Zenon
<1>2. ASSUME NEW t \in Seq(Chars), Len(t) = 1 PROVE t = <<t[1]>>
  BY <1>2
<1> QED BY <1>1, <1>2 DEF Language!One, Sized

LEMMA CatIs ==
  ASSUME NEW A, NEW B, NEW m \in Nat, NEW n \in Nat, Sized(A, m), Sized(B, n)
  PROVE  /\ Sized(Language!Cat(A, B), m + n)
         /\ \A t \in Seq(Chars) :
              t \in Language!Cat(A, B) <=>
                Len(t) = m + n /\ SubSeq(t, 1, m) \in A /\ SubSeq(t, m + 1, m + n) \in B
<1>1. ASSUME NEW a \in A, NEW b \in B
      PROVE  /\ a \o b \in Seq(Chars) /\ Len(a \o b) = m + n
             /\ SubSeq(a \o b, 1, m) = a /\ SubSeq(a \o b, m + 1, m + n) = b
  <2>1. a \in Seq(Chars) /\ b \in Seq(Chars) /\ Len(a) = m /\ Len(b) = n
    BY DEF Sized
  <2>2. a \o b \in Seq(Chars) /\ Len(a \o b) = m + n
    BY <2>1
  <2>3. SubSeq(a \o b, 1, m) = a
    <3>1. SubSeq(a \o b, 1, m) \in Seq(Chars) /\ Len(SubSeq(a \o b, 1, m)) = m
      BY <2>1, <2>2
    <3>2. \A i \in 1 .. m : SubSeq(a \o b, 1, m)[i] = a[i]
      BY <2>1, <2>2
    <3> QED BY <2>1, <3>1, <3>2, SeqEqual
  <2>4. SubSeq(a \o b, m + 1, m + n) = b
    <3>1. SubSeq(a \o b, m + 1, m + n) \in Seq(Chars) /\ Len(SubSeq(a \o b, m + 1, m + n)) = n
      BY <2>1, <2>2
    <3>2. \A i \in 1 .. n : SubSeq(a \o b, m + 1, m + n)[i] = b[i]
      BY <2>1, <2>2
    <3> QED BY <2>1, <3>1, <3>2, SeqEqual
  <2> QED BY <2>2, <2>3, <2>4
<1>2. ASSUME NEW t \in Seq(Chars), Len(t) = m + n
      PROVE  t = SubSeq(t, 1, m) \o SubSeq(t, m + 1, m + n)
  <2>1. /\ SubSeq(t, 1, m) \in Seq(Chars) /\ Len(SubSeq(t, 1, m)) = m
        /\ SubSeq(t, m + 1, m + n) \in Seq(Chars) /\ Len(SubSeq(t, m + 1, m + n)) = n
    BY <1>2
  <2>2. /\ SubSeq(t, 1, m) \o SubSeq(t, m + 1, m + n) \in Seq(Chars)
        /\ Len(SubSeq(t, 1, m) \o SubSeq(t, m + 1, m + n)) = m + n
    BY <2>1
  <2>3. \A i \in 1 .. m + n : (SubSeq(t, 1, m) \o SubSeq(t, m + 1, m + n))[i] = t[i]
    BY <1>2, <2>1
  <2> QED BY <1>2, <2>2, <2>3, SeqEqual
<1>3. ASSUME NEW t \in Language!Cat(A, B)
      PROVE  /\ t \in Seq(Chars) /\ Len(t) = m + n
             /\ SubSeq(t, 1, m) \in A /\ SubSeq(t, m + 1, m + n) \in B
  <2>1. PICK a \in A, b \in B : t = a \o b
    BY CatOf
  <2> QED BY <1>1, <2>1
<1>4. ASSUME NEW t \in Seq(Chars), Len(t) = m + n,
             SubSeq(t, 1, m) \in A, SubSeq(t, m + 1, m + n) \in B
      PROVE  t \in Language!Cat(A, B)
  <2>1. \E a \in A, b \in B : t = a \o b
    BY <1>2, <1>4
  <2> QED BY <2>1, CatOf, Zenon
<1> QED BY <1>3, <1>4 DEF Sized

\* Languages of up to five letters, cut into letters and pairs of letters.
LEMMA LetterFirst ==
  ASSUME NEW S \in SUBSET Chars, NEW B, NEW n \in Nat, Sized(B, n)
  PROVE  /\ Sized(Language!Cat(Language!One(S), B), n + 1)
         /\ \A t \in Seq(Chars) :
              t \in Language!Cat(Language!One(S), B) <=>
                Len(t) = n + 1 /\ t[1] \in S /\ SubSeq(t, 2, n + 1) \in B
<1>1. /\ Sized(Language!One(S), 1)
      /\ \A u \in Seq(Chars) : u \in Language!One(S) <=> Len(u) = 1 /\ u[1] \in S
  BY OneIs
<1>2. /\ Sized(Language!Cat(Language!One(S), B), 1 + n)
      /\ \A t \in Seq(Chars) :
           t \in Language!Cat(Language!One(S), B) <=>
             Len(t) = 1 + n /\ SubSeq(t, 1, 1) \in Language!One(S) /\ SubSeq(t, 1 + 1, 1 + n) \in B
  <2>1. 1 \in Nat
    OBVIOUS
  <2> QED BY <1>1, <2>1, CatIs, Zenon
<1>3. ASSUME NEW t \in Seq(Chars), Len(t) = n + 1
      PROVE  SubSeq(t, 1, 1) \in Seq(Chars) /\ Len(SubSeq(t, 1, 1)) = 1 /\ SubSeq(t, 1, 1)[1] = t[1]
  BY <1>3
<1>4. 1 + n = n + 1 /\ 1 + 1 = 2
  OBVIOUS
<1> QED BY <1>1, <1>2, <1>3, <1>4

LEMMA LetterLast ==
  ASSUME NEW A, NEW S \in SUBSET Chars, NEW m \in Nat, Sized(A, m)
  PROVE  /\ Sized(Language!Cat(A, Language!One(S)), m + 1)
         /\ \A t \in Seq(Chars) :
              t \in Language!Cat(A, Language!One(S)) <=>
                Len(t) = m + 1 /\ SubSeq(t, 1, m) \in A /\ t[m + 1] \in S
<1>1. /\ Sized(Language!One(S), 1)
      /\ \A u \in Seq(Chars) : u \in Language!One(S) <=> Len(u) = 1 /\ u[1] \in S
  BY OneIs
<1>2. /\ Sized(Language!Cat(A, Language!One(S)), m + 1)
      /\ \A t \in Seq(Chars) :
           t \in Language!Cat(A, Language!One(S)) <=>
             Len(t) = m + 1 /\ SubSeq(t, 1, m) \in A /\ SubSeq(t, m + 1, m + 1) \in Language!One(S)
  <2>1. 1 \in Nat
    OBVIOUS
  <2> QED BY <1>1, <2>1, CatIs, Zenon
<1>3. ASSUME NEW t \in Seq(Chars), Len(t) = m + 1
      PROVE  /\ SubSeq(t, m + 1, m + 1) \in Seq(Chars) /\ Len(SubSeq(t, m + 1, m + 1)) = 1
             /\ SubSeq(t, m + 1, m + 1)[1] = t[m + 1]
  BY <1>3
<1> QED BY <1>1, <1>2, <1>3

LEMMA PairIs ==
  ASSUME NEW S \in SUBSET Chars, NEW T \in SUBSET Chars
  PROVE  /\ Sized(Language!Pairs(S, T), 2)
         /\ \A t \in Seq(Chars) : t \in Language!Pairs(S, T) <=> Len(t) = 2 /\ t[1] \in S /\ t[2] \in T
<1>1. /\ Sized(Language!One(T), 1)
      /\ \A u \in Seq(Chars) : u \in Language!One(T) <=> Len(u) = 1 /\ u[1] \in T
  BY OneIs
<1>2. /\ Sized(Language!Pairs(S, T), 1 + 1)
      /\ \A t \in Seq(Chars) :
           t \in Language!Pairs(S, T) <=>
             Len(t) = 1 + 1 /\ t[1] \in S /\ SubSeq(t, 2, 1 + 1) \in Language!One(T)
  <2>1. 1 \in Nat
    OBVIOUS
  <2> QED BY <1>1, <2>1, LetterFirst, Zenon DEF Language!Pairs
<1>3. ASSUME NEW t \in Seq(Chars), Len(t) = 2
      PROVE  SubSeq(t, 2, 2) \in Seq(Chars) /\ Len(SubSeq(t, 2, 2)) = 1 /\ SubSeq(t, 2, 2)[1] = t[2]
  BY <1>3
<1>4. 1 + 1 = 2
  OBVIOUS
<1> QED BY <1>1, <1>2, <1>3, <1>4

(***************************************************************************)
(* The letters and the pairs, in the grammar and in the recognisers.       *)
(***************************************************************************)
VogaisPalavra == {"A", "O", "E"}
Vogais        == {"I", "U"} \union VogaisPalavra
Frequentes    == {"D", "L", "M", "N", "P", "R", "S", "T", "V"}
Terminais     == {"L", "M", "R", "S", "X", "Z"}
Finais        == {"N", "P"} \union Terminais
Consoantes    ==
  {"B", "C", "D", "F", "G", "H", "J", "L", "M", "N", "P", "Q", "R", "S", "T", "V", "X", "Z"}

LEMMA OneUnion ==
  ASSUME NEW S, NEW T
  PROVE  Language!One(S) \union Language!One(T) = Language!One(S \union T)
BY DEF Language!One

LEMMA LettersAre ==
  /\ Language!vogal_palavra = Language!One(VogaisPalavra)
  /\ Language!vogal = Language!One(Vogais)
  /\ Language!consoante_freq = Language!One(Frequentes)
  /\ Language!consoante_terminal = Language!One(Terminais)
  /\ Language!consoante_final = Language!One(Finais)
  /\ Language!consoante = Language!One(Consoantes)
<1>1. Language!vogal_palavra = Language!One(VogaisPalavra)
  BY DEF Language!vogal_palavra, VogaisPalavra
<1>2. Language!consoante_terminal = Language!One(Terminais)
  BY DEF Language!consoante_terminal, Terminais
<1>3. Language!vogal = Language!One(Vogais)
  BY <1>1, OneUnion, Zenon DEF Language!vogal, Vogais
<1>4. Language!consoante_final = Language!One(Finais)
  BY <1>2, OneUnion, Zenon DEF Language!consoante_final, Finais
<1>5. Language!consoante_freq = Language!One(Frequentes)
  BY DEF Language!consoante_freq, Frequentes
<1>6. Language!consoante = Language!One(Consoantes)
  BY DEF Language!consoante, Consoantes
<1> QED BY <1>1, <1>2, <1>3, <1>4, <1>5, <1>6

LEMMA LettersAreStrings ==
  /\ VogaisPalavra \in SUBSET Chars /\ Vogais \in SUBSET Chars /\ Frequentes \in SUBSET Chars
  /\ Terminais \in SUBSET Chars /\ Finais \in SUBSET Chars /\ Consoantes \in SUBSET Chars
BY DEF VogaisPalavra, Vogais, Frequentes, Terminais, Finais, Consoantes, Chars

\* What the recognisers of letters say.
LEMMA LettersTold ==
  ASSUME NEW c
  PROVE  /\ e_vogal_palavra(c) <=> c \in VogaisPalavra
         /\ e_vogal(c) <=> c \in Vogais
         /\ e_consoante_freq(c) <=> c \in Frequentes
         /\ e_consoante_terminal(c) <=> c \in Terminais
         /\ e_consoante_final(c) <=> c \in Finais
         /\ e_consoante(c) <=> c \in Consoantes
         /\ Teacher!vogal_palavra(c) <=> c \in VogaisPalavra
         /\ Teacher!vogal(c) <=> c \in Vogais
         /\ Teacher!consoante_freq(c) <=> c \in Frequentes
         /\ Teacher!consoante_terminal(c) <=> c \in Terminais
         /\ Teacher!consoante_final(c) <=> c \in Finais
         /\ Teacher!consoante(c) <=> c \in Consoantes
<1>1. /\ e_vogal_palavra(c) <=> c \in VogaisPalavra
      /\ e_vogal(c) <=> c \in Vogais
      /\ Teacher!vogal_palavra(c) <=> c \in VogaisPalavra
      /\ Teacher!vogal(c) <=> c \in Vogais
  BY DEF e_vogal_palavra, e_vogal, e_artigo_def, Teacher!vogal_palavra, Teacher!vogal,
         Teacher!artigo_def, VogaisPalavra, Vogais
<1>2. /\ e_consoante_terminal(c) <=> c \in Terminais
      /\ e_consoante_final(c) <=> c \in Finais
      /\ Teacher!consoante_terminal(c) <=> c \in Terminais
      /\ Teacher!consoante_final(c) <=> c \in Finais
  BY DEF e_consoante_terminal, e_consoante_final, Teacher!consoante_terminal,
         Teacher!consoante_final, Terminais, Finais
<1>3. /\ e_consoante_freq(c) <=> c \in Frequentes
      /\ Teacher!consoante_freq(c) <=> c \in Frequentes
      /\ e_consoante(c) <=> c \in Consoantes
      /\ Teacher!consoante(c) <=> c \in Consoantes
  BY DEF e_consoante_freq, Teacher!consoante_freq, Frequentes, e_consoante, Teacher!consoante,
         Consoantes
<1> QED BY <1>1, <1>2, <1>3

\* Strings of two letters.
LEMMA TwoLetters ==
  ASSUME NEW a \in Chars, NEW b \in Chars
  PROVE  <<a, b>> \in Seq(Chars) /\ Len(<<a, b>>) = 2
OBVIOUS

LEMMA PairsAre ==
  /\ Sized(Language!ditongo_palavra, 2) /\ Sized(Language!ditongo, 2)
  /\ Sized(Language!par_vogais, 2) /\ Sized(Language!par_consoantes, 2)
  /\ Sized(Language!NS, 2) /\ Sized({<<"I", "S">>}, 2)
<1>1. Sized(Language!ditongo_palavra, 2)
  BY TwoLetters DEF Language!ditongo_palavra, Sized, Chars
<1>2. Sized(Language!ditongo, 2)
  <2>1. Sized({<<"A", "E">>, <<"A", "U">>, <<"E", "I">>, <<"O", "E">>, <<"O", "I">>, <<"I", "U">>}, 2)
    BY TwoLetters, SMTT(30) DEF Sized, Chars
  <2> QED BY <1>1, <2>1 DEF Language!ditongo, Sized
<1>3. Sized(Language!par_vogais, 2)
  BY <1>2, TwoLetters DEF Language!par_vogais, Sized, Chars
<1>4. Sized(Language!par_consoantes, 2)
  <2>1. /\ Sized(Language!Pairs({"B", "C", "F", "G", "P", "T", "V"}, {"R"}), 2)
        /\ Sized(Language!Pairs({"B", "C", "F", "G", "P"}, {"L"}), 2)
    <3>1. /\ {"B", "C", "F", "G", "P", "T", "V"} \in SUBSET Chars /\ {"R"} \in SUBSET Chars
          /\ {"B", "C", "F", "G", "P"} \in SUBSET Chars /\ {"L"} \in SUBSET Chars
      BY DEF Chars
    <3> QED BY <3>1, PairIs, Zenon
  <2> QED BY <2>1 DEF Language!par_consoantes, Sized
<1>5. Sized(Language!NS, 2) /\ Sized({<<"I", "S">>}, 2)
  BY TwoLetters DEF Language!NS, Sized, Chars
<1> QED BY <1>1, <1>2, <1>3, <1>4, <1>5

\* What the recognisers of pairs say.
LEMMA PairsTold ==
  ASSUME NEW t \in Seq(Chars)
  PROVE  /\ e_ditongo_palavra(t) <=> t \in Language!ditongo_palavra
         /\ e_ditongo(t) <=> t \in Language!ditongo
         /\ e_par_vogais(t) <=> t \in Language!par_vogais
         /\ e_par_consoantes(t) <=> t \in Language!par_consoantes
         /\ Teacher!ditongo_palavra(t) <=> t \in Language!ditongo_palavra
         /\ Teacher!ditongo(t) <=> t \in Language!ditongo
         /\ Teacher!par_vogais(t) <=> t \in Language!par_vogais
         /\ Teacher!par_consoantes(t) <=> t \in Language!par_consoantes
<1>1. /\ e_ditongo_palavra(t) <=> t \in Language!ditongo_palavra
      /\ e_ditongo(t) <=> t \in Language!ditongo
      /\ e_par_vogais(t) <=> t \in Language!par_vogais
  BY DEF e_ditongo_palavra, e_ditongo, e_par_vogais,
         Language!ditongo_palavra, Language!ditongo, Language!par_vogais
<1>2. /\ Teacher!ditongo_palavra(t) <=> t \in Language!ditongo_palavra
      /\ Teacher!ditongo(t) <=> t \in Language!ditongo
      /\ Teacher!par_vogais(t) <=> t \in Language!par_vogais
  BY DEF Teacher!ditongo_palavra, Teacher!ditongo, Teacher!par_vogais,
         Language!ditongo_palavra, Language!ditongo, Language!par_vogais
<1>3. t \in Language!par_consoantes <=>
        /\ Len(t) = 2
        /\ \/ t[1] \in {"B", "C", "F", "G", "P", "T", "V"} /\ t[2] \in {"R"}
           \/ t[1] \in {"B", "C", "F", "G", "P"} /\ t[2] \in {"L"}
  <2>1. /\ {"B", "C", "F", "G", "P", "T", "V"} \in SUBSET Chars /\ {"R"} \in SUBSET Chars
        /\ {"B", "C", "F", "G", "P"} \in SUBSET Chars /\ {"L"} \in SUBSET Chars
    BY DEF Chars
  <2>2. /\ t \in Language!Pairs({"B", "C", "F", "G", "P", "T", "V"}, {"R"}) <=>
             Len(t) = 2 /\ t[1] \in {"B", "C", "F", "G", "P", "T", "V"} /\ t[2] \in {"R"}
        /\ t \in Language!Pairs({"B", "C", "F", "G", "P"}, {"L"}) <=>
             Len(t) = 2 /\ t[1] \in {"B", "C", "F", "G", "P"} /\ t[2] \in {"L"}
    BY <2>1, PairIs, Zenon
  <2> QED BY <2>2 DEF Language!par_consoantes
<1>4. ASSUME NEW A, NEW B PROVE t \in A \X B <=> Len(t) = 2 /\ t[1] \in A /\ t[2] \in B
  OBVIOUS
<1>5. e_par_consoantes(t) <=> t \in Language!par_consoantes
  BY <1>3, <1>4 DEF e_par_consoantes
<1>6. ASSUME NEW a, NEW b PROVE t = <<a, b>> <=> Len(t) = 2 /\ t[1] = a /\ t[2] = b
  OBVIOUS
<1>7. Teacher!par_consoantes(t) <=> t \in Language!par_consoantes
  <2>1. Teacher!par_consoantes(t) <=>
          \/ \E a \in {"B", "C", "F", "G", "P", "T", "V"} : t = <<a, "R">>
          \/ \E a \in {"B", "C", "F", "G", "P"} : t = <<a, "L">>
    BY DEF Teacher!par_consoantes
  <2> QED BY <1>3, <1>6, <2>1
<1> QED BY <1>1, <1>2, <1>5, <1>7

(***************************************************************************)
(* Syllables and monosyllables.                                            *)
(***************************************************************************)
LEMMA LettersFormPairs ==
  ASSUME NEW S \in SUBSET Chars, NEW T \in SUBSET Chars
  PROVE  /\ Sized(Language!Cat(Language!One(S), Language!One(T)), 2)
         /\ \A t \in Seq(Chars) :
              t \in Language!Cat(Language!One(S), Language!One(T)) <=> Len(t) = 2 /\ t[1] \in S /\ t[2] \in T
BY PairIs, Zenon DEF Language!Pairs

\* Three letters one by one.
LEMMA LettersFormTriples ==
  ASSUME NEW S \in SUBSET Chars, NEW T \in SUBSET Chars, NEW U \in SUBSET Chars
  PROVE  \A t \in Seq(Chars) :
           t \in Language!Cat(Language!Cat(Language!One(S), Language!One(T)), Language!One(U)) <=>
             Len(t) = 3 /\ t[1] \in S /\ t[2] \in T /\ t[3] \in U
<1>1. 2 \in Nat /\ 2 + 1 = 3
  OBVIOUS
<1>2. \A t \in Seq(Chars) :
        t \in Language!Cat(Language!Cat(Language!One(S), Language!One(T)), Language!One(U)) <=>
          Len(t) = 3 /\ SubSeq(t, 1, 2) \in Language!Cat(Language!One(S), Language!One(T)) /\ t[3] \in U
  <2>1. \A t \in Seq(Chars) :
          t \in Language!Cat(Language!Cat(Language!One(S), Language!One(T)), Language!One(U)) <=>
            /\ Len(t) = 2 + 1
            /\ SubSeq(t, 1, 2) \in Language!Cat(Language!One(S), Language!One(T)) /\ t[2 + 1] \in U
    <3> DEFINE A == Language!Cat(Language!One(S), Language!One(T))
    <3>1. Sized(A, 2)
      BY LettersFormPairs, Zenon
    <3> HIDE DEF A
    <3>2. \A t \in Seq(Chars) :
            t \in Language!Cat(A, Language!One(U)) <=> Len(t) = 2 + 1 /\ SubSeq(t, 1, 2) \in A /\ t[2 + 1] \in U
      BY <1>1, <3>1, LetterLast, Zenon
    <3> QED BY <3>2, Zenon DEF A
  <2> QED BY <1>1, <2>1
<1>3. ASSUME NEW t \in Seq(Chars), Len(t) = 3
      PROVE  /\ SubSeq(t, 1, 2) \in Seq(Chars) /\ Len(SubSeq(t, 1, 2)) = 2
             /\ SubSeq(t, 1, 2)[1] = t[1] /\ SubSeq(t, 1, 2)[2] = t[2]
  BY <1>3
<1>4. \A u \in Seq(Chars) :
        u \in Language!Cat(Language!One(S), Language!One(T)) <=> Len(u) = 2 /\ u[1] \in S /\ u[2] \in T
  BY LettersFormPairs, Zenon
<1> QED BY <1>2, <1>3, <1>4

\* A letter before a pair, and after one.
LEMMA LetterThenPair ==
  ASSUME NEW S \in SUBSET Chars, NEW P, Sized(P, 2)
  PROVE  /\ Sized(Language!Cat(Language!One(S), P), 3)
         /\ \A t \in Seq(Chars) :
              t \in Language!Cat(Language!One(S), P) <=> Len(t) = 3 /\ t[1] \in S /\ SubSeq(t, 2, 3) \in P
<1>1. 2 \in Nat /\ 2 + 1 = 3
  OBVIOUS
<1>2. /\ Sized(Language!Cat(Language!One(S), P), 2 + 1)
      /\ \A t \in Seq(Chars) :
           t \in Language!Cat(Language!One(S), P) <=>
             Len(t) = 2 + 1 /\ t[1] \in S /\ SubSeq(t, 2, 2 + 1) \in P
  BY <1>1, LetterFirst, Zenon
<1> QED BY <1>1, <1>2

LEMMA PairThenLetter ==
  ASSUME NEW P, NEW S \in SUBSET Chars, Sized(P, 2)
  PROVE  /\ Sized(Language!Cat(P, Language!One(S)), 3)
         /\ \A t \in Seq(Chars) :
              t \in Language!Cat(P, Language!One(S)) <=> Len(t) = 3 /\ SubSeq(t, 1, 2) \in P /\ t[3] \in S
<1>1. 2 \in Nat /\ 2 + 1 = 3
  OBVIOUS
<1>2. /\ Sized(Language!Cat(P, Language!One(S)), 2 + 1)
      /\ \A t \in Seq(Chars) :
           t \in Language!Cat(P, Language!One(S)) <=>
             Len(t) = 2 + 1 /\ SubSeq(t, 1, 2) \in P /\ t[2 + 1] \in S
  BY <1>1, LetterLast, Zenon
<1> QED BY <1>1, <1>2

\* Two pairs; a letter, a pair and a letter; a pair, a letter and a pair.
LEMMA PairThenPair ==
  ASSUME NEW P, NEW Q, Sized(P, 2), Sized(Q, 2)
  PROVE  \A t \in Seq(Chars) :
           t \in Language!Cat(P, Q) <=> Len(t) = 4 /\ SubSeq(t, 1, 2) \in P /\ SubSeq(t, 3, 4) \in Q
<1>1. 2 \in Nat /\ 2 + 1 = 3 /\ 2 + 2 = 4
  OBVIOUS
<1>2. \A t \in Seq(Chars) :
        t \in Language!Cat(P, Q) <=>
          Len(t) = 2 + 2 /\ SubSeq(t, 1, 2) \in P /\ SubSeq(t, 2 + 1, 2 + 2) \in Q
  BY <1>1, CatIs, Zenon
<1> QED BY <1>1, <1>2

LEMMA LetterPairLetter ==
  ASSUME NEW S \in SUBSET Chars, NEW P, NEW U \in SUBSET Chars, Sized(P, 2)
  PROVE  \A t \in Seq(Chars) :
           t \in Language!Cat(Language!Cat(Language!One(S), P), Language!One(U)) <=>
             Len(t) = 4 /\ t[1] \in S /\ SubSeq(t, 2, 3) \in P /\ t[4] \in U
<1>1. 3 \in Nat /\ 3 + 1 = 4
  OBVIOUS
<1>2. \A t \in Seq(Chars) :
        t \in Language!Cat(Language!Cat(Language!One(S), P), Language!One(U)) <=>
          Len(t) = 3 + 1 /\ SubSeq(t, 1, 3) \in Language!Cat(Language!One(S), P) /\ t[3 + 1] \in U
  <2> DEFINE A == Language!Cat(Language!One(S), P)
  <2>1. Sized(A, 3)
    BY LetterThenPair, Zenon
  <2> HIDE DEF A
  <2>2. \A t \in Seq(Chars) :
          t \in Language!Cat(A, Language!One(U)) <=> Len(t) = 3 + 1 /\ SubSeq(t, 1, 3) \in A /\ t[3 + 1] \in U
    <3>1. ASSUME NEW m \in Nat, Sized(A, m)
          PROVE  \A t \in Seq(Chars) :
                   t \in Language!Cat(A, Language!One(U)) <=>
                     Len(t) = m + 1 /\ SubSeq(t, 1, m) \in A /\ t[m + 1] \in U
      BY <3>1, LetterLast, Zenon
    <3>2. 3 \in Nat
      OBVIOUS
    <3> QED BY <2>1, <3>1, <3>2
  <2> QED BY <2>2, Zenon DEF A
<1>3. ASSUME NEW t \in Seq(Chars), Len(t) = 4
      PROVE  /\ SubSeq(t, 1, 3) \in Seq(Chars) /\ Len(SubSeq(t, 1, 3)) = 3
             /\ SubSeq(t, 1, 3)[1] = t[1] /\ SubSeq(SubSeq(t, 1, 3), 2, 3) = SubSeq(t, 2, 3)
  <2>1. SubSeq(t, 1, 3) \in Seq(Chars) /\ Len(SubSeq(t, 1, 3)) = 3
        /\ \A i \in 1 .. 3 : SubSeq(t, 1, 3)[i] = t[i]
    BY <1>3, SMTT(30)
  <2>2. SubSeq(SubSeq(t, 1, 3), 2, 3) = SubSeq(t, 2, 3)
    BY <1>3, <2>1, SubSeqOfSubSeq
  <2> QED BY <2>1, <2>2
<1>4. \A u \in Seq(Chars) :
        u \in Language!Cat(Language!One(S), P) <=> Len(u) = 3 /\ u[1] \in S /\ SubSeq(u, 2, 3) \in P
  BY LetterThenPair, Zenon
<1> QED BY <1>1, <1>2, <1>3, <1>4

LEMMA PairLetterPair ==
  ASSUME NEW P, NEW S \in SUBSET Chars, NEW Q, Sized(P, 2), Sized(Q, 2)
  PROVE  \A t \in Seq(Chars) :
           t \in Language!Cat(Language!Cat(P, Language!One(S)), Q) <=>
             Len(t) = 5 /\ SubSeq(t, 1, 2) \in P /\ t[3] \in S /\ SubSeq(t, 4, 5) \in Q
<1>1. 3 \in Nat /\ 3 + 1 = 4 /\ 2 \in Nat /\ 3 + 2 = 5
  OBVIOUS
<1>2. \A t \in Seq(Chars) :
        t \in Language!Cat(Language!Cat(P, Language!One(S)), Q) <=>
          /\ Len(t) = 3 + 2
          /\ SubSeq(t, 1, 3) \in Language!Cat(P, Language!One(S)) /\ SubSeq(t, 3 + 1, 3 + 2) \in Q
  <2> DEFINE A == Language!Cat(P, Language!One(S))
  <2>1. Sized(A, 3)
    BY PairThenLetter, Zenon
  <2> HIDE DEF A
  <2>2. \A t \in Seq(Chars) :
          t \in Language!Cat(A, Q) <=>
            Len(t) = 3 + 2 /\ SubSeq(t, 1, 3) \in A /\ SubSeq(t, 3 + 1, 3 + 2) \in Q
    <3>1. ASSUME NEW m \in Nat, NEW n \in Nat, Sized(A, m), Sized(Q, n)
          PROVE  \A t \in Seq(Chars) :
                   t \in Language!Cat(A, Q) <=>
                     Len(t) = m + n /\ SubSeq(t, 1, m) \in A /\ SubSeq(t, m + 1, m + n) \in Q
      BY <3>1, CatIs, Zenon
    <3>2. 3 \in Nat /\ 2 \in Nat
      OBVIOUS
    <3> QED BY <2>1, <3>1, <3>2
  <2> QED BY <2>2, Zenon DEF A
<1>3. ASSUME NEW t \in Seq(Chars), Len(t) = 5
      PROVE  /\ SubSeq(t, 1, 3) \in Seq(Chars) /\ Len(SubSeq(t, 1, 3)) = 3
             /\ SubSeq(t, 1, 3)[3] = t[3] /\ SubSeq(SubSeq(t, 1, 3), 1, 2) = SubSeq(t, 1, 2)
  <2>1. SubSeq(t, 1, 3) \in Seq(Chars) /\ Len(SubSeq(t, 1, 3)) = 3
        /\ \A i \in 1 .. 3 : SubSeq(t, 1, 3)[i] = t[i]
    BY <1>3
  <2>2. SubSeq(SubSeq(t, 1, 3), 1, 2) = SubSeq(t, 1, 2)
    BY <1>3, <2>1, SubSeqOfSubSeq
  <2> QED BY <2>1, <2>2
<1>4. \A u \in Seq(Chars) :
        u \in Language!Cat(P, Language!One(S)) <=> Len(u) = 3 /\ SubSeq(u, 1, 2) \in P /\ u[3] \in S
  BY PairThenLetter, Zenon
<1> QED BY <1>1, <1>2, <1>3, <1>4

\* The clauses of the grammar, by length.
LEMMA ClausesOfTwo ==
  ASSUME NEW t \in Seq(Chars)
  PROVE  /\ t \in Language!monossilabo_2 <=>
              \/ t \in {<<"A", "R">>, <<"I", "R">>, <<"E", "M">>, <<"U", "M">>}
              \/ t \in Language!ditongo_palavra
              \/ Len(t) = 2 /\ t[1] \in VogaisPalavra /\ t[2] = "S"
              \/ Len(t) = 2 /\ t[1] \in Frequentes /\ t[2] \in Vogais
         /\ t \in Language!silaba_2 <=>
              \/ t \in Language!par_vogais
              \/ Len(t) = 2 /\ t[1] \in Consoantes /\ t[2] \in Vogais
              \/ Len(t) = 2 /\ t[1] \in Vogais /\ t[2] \in Finais
<1>1. {"S"} \in SUBSET Chars
  BY DEF Chars
<1>2. t \in Language!Cat(Language!vogal_palavra, Language!One({"S"})) <=>
        Len(t) = 2 /\ t[1] \in VogaisPalavra /\ t[2] \in {"S"}
  BY <1>1, LettersAre, LettersAreStrings, LettersFormPairs, Zenon
<1>3. t \in Language!Cat(Language!consoante_freq, Language!vogal) <=>
        Len(t) = 2 /\ t[1] \in Frequentes /\ t[2] \in Vogais
  BY LettersAre, LettersAreStrings, LettersFormPairs, Zenon
<1>4. t \in Language!Cat(Language!consoante, Language!vogal) <=>
        Len(t) = 2 /\ t[1] \in Consoantes /\ t[2] \in Vogais
  BY LettersAre, LettersAreStrings, LettersFormPairs, Zenon
<1>5. t \in Language!Cat(Language!vogal, Language!consoante_final) <=>
        Len(t) = 2 /\ t[1] \in Vogais /\ t[2] \in Finais
  BY LettersAre, LettersAreStrings, LettersFormPairs, Zenon
<1>6. t \in Language!monossilabo_2 <=>
        \/ t \in {<<"A", "R">>, <<"I", "R">>, <<"E", "M">>, <<"U", "M">>}
        \/ t \in Language!Cat(Language!vogal_palavra, Language!One({"S"}))
        \/ t \in Language!ditongo_palavra
        \/ t \in Language!Cat(Language!consoante_freq, Language!vogal)
  BY DEF Language!monossilabo_2
<1>7. t \in Language!silaba_2 <=>
        \/ t \in Language!par_vogais
        \/ t \in Language!Cat(Language!consoante, Language!vogal)
        \/ t \in Language!Cat(Language!vogal, Language!consoante_final)
  BY DEF Language!silaba_2
<1> QED BY <1>2, <1>3, <1>4, <1>5, <1>6, <1>7

LEMMA ClausesOfThree ==
  ASSUME NEW t \in Seq(Chars)
  PROVE  /\ t \in Language!monossilabo_3 <=>
              /\ Len(t) = 3
              /\ \/ t[1] \in Consoantes /\ t[2] \in Vogais /\ t[3] \in Terminais
                 \/ t[1] \in Consoantes /\ SubSeq(t, 2, 3) \in Language!ditongo
                 \/ SubSeq(t, 1, 2) \in Language!par_vogais /\ t[3] \in Terminais
         /\ t \in Language!silaba_3 <=>
              /\ Len(t) = 3
              /\ \/ t[1] = "Q" /\ t[2] = "U" /\ t[3] \in {"A", "E", "I"}
                 \/ t[1] = "G" /\ t[2] = "U" /\ t[3] \in {"E", "I"}
                 \/ t[1] \in Vogais /\ SubSeq(t, 2, 3) \in Language!NS
                 \/ t[1] \in Consoantes /\ SubSeq(t, 2, 3) \in Language!par_vogais
                 \/ t[1] \in Consoantes /\ t[2] \in Vogais /\ t[3] \in Finais
                 \/ SubSeq(t, 1, 2) \in Language!par_vogais /\ t[3] \in Finais
                 \/ SubSeq(t, 1, 2) \in Language!par_consoantes /\ t[3] \in Vogais
<1>1. t \in Language!Cat(Language!Cat(Language!consoante, Language!vogal), Language!consoante_terminal) <=>
        Len(t) = 3 /\ t[1] \in Consoantes /\ t[2] \in Vogais /\ t[3] \in Terminais
  BY LettersAre, LettersAreStrings, LettersFormTriples, Zenon
<1>2. t \in Language!Cat(Language!consoante, Language!ditongo) <=>
        Len(t) = 3 /\ t[1] \in Consoantes /\ SubSeq(t, 2, 3) \in Language!ditongo
  BY LettersAre, LettersAreStrings, PairsAre, LetterThenPair, Zenon
<1>3. t \in Language!Cat(Language!par_vogais, Language!consoante_terminal) <=>
        Len(t) = 3 /\ SubSeq(t, 1, 2) \in Language!par_vogais /\ t[3] \in Terminais
  BY LettersAre, LettersAreStrings, PairsAre, PairThenLetter, Zenon
<1>4. t \in Language!Cat(Language!Pairs({"Q"}, {"U"}), Language!One({"A", "E", "I"})) <=>
        Len(t) = 3 /\ t[1] \in {"Q"} /\ t[2] \in {"U"} /\ t[3] \in {"A", "E", "I"}
  <2>1. {"Q"} \in SUBSET Chars /\ {"U"} \in SUBSET Chars /\ {"A", "E", "I"} \in SUBSET Chars
    BY DEF Chars
  <2>2. Language!Pairs({"Q"}, {"U"}) = Language!Cat(Language!One({"Q"}), Language!One({"U"}))
    BY DEF Language!Pairs
  <2> DEFINE S == {"Q"}
             T == {"U"}
             U == {"A", "E", "I"}
  <2>3. S \in SUBSET Chars /\ T \in SUBSET Chars /\ U \in SUBSET Chars
    BY <2>1
  <2> HIDE DEF S, T, U
  <2>4. t \in Language!Cat(Language!Cat(Language!One(S), Language!One(T)), Language!One(U)) <=>
          Len(t) = 3 /\ t[1] \in S /\ t[2] \in T /\ t[3] \in U
    BY <2>3, LettersFormTriples, Zenon
  <2> QED BY <2>2, <2>4, Zenon DEF S, T, U
<1>5. t \in Language!Cat(Language!Pairs({"G"}, {"U"}), Language!One({"E", "I"})) <=>
        Len(t) = 3 /\ t[1] \in {"G"} /\ t[2] \in {"U"} /\ t[3] \in {"E", "I"}
  <2>1. {"G"} \in SUBSET Chars /\ {"U"} \in SUBSET Chars /\ {"E", "I"} \in SUBSET Chars
    BY DEF Chars
  <2>2. Language!Pairs({"G"}, {"U"}) = Language!Cat(Language!One({"G"}), Language!One({"U"}))
    BY DEF Language!Pairs
  <2> DEFINE S == {"G"}
             T == {"U"}
             U == {"E", "I"}
  <2>3. S \in SUBSET Chars /\ T \in SUBSET Chars /\ U \in SUBSET Chars
    BY <2>1
  <2> HIDE DEF S, T, U
  <2>4. t \in Language!Cat(Language!Cat(Language!One(S), Language!One(T)), Language!One(U)) <=>
          Len(t) = 3 /\ t[1] \in S /\ t[2] \in T /\ t[3] \in U
    BY <2>3, LettersFormTriples, Zenon
  <2> QED BY <2>2, <2>4, Zenon DEF S, T, U
<1>6. t \in Language!Cat(Language!vogal, Language!NS) <=>
        Len(t) = 3 /\ t[1] \in Vogais /\ SubSeq(t, 2, 3) \in Language!NS
  BY LettersAre, LettersAreStrings, PairsAre, LetterThenPair, Zenon
<1>7. t \in Language!Cat(Language!consoante, Language!par_vogais) <=>
        Len(t) = 3 /\ t[1] \in Consoantes /\ SubSeq(t, 2, 3) \in Language!par_vogais
  BY LettersAre, LettersAreStrings, PairsAre, LetterThenPair, Zenon
<1>8. t \in Language!Cat(Language!Cat(Language!consoante, Language!vogal), Language!consoante_final) <=>
        Len(t) = 3 /\ t[1] \in Consoantes /\ t[2] \in Vogais /\ t[3] \in Finais
  BY LettersAre, LettersAreStrings, LettersFormTriples, Zenon
<1>9. t \in Language!Cat(Language!par_vogais, Language!consoante_final) <=>
        Len(t) = 3 /\ SubSeq(t, 1, 2) \in Language!par_vogais /\ t[3] \in Finais
  BY LettersAre, LettersAreStrings, PairsAre, PairThenLetter, Zenon
<1>10. t \in Language!Cat(Language!par_consoantes, Language!vogal) <=>
        Len(t) = 3 /\ SubSeq(t, 1, 2) \in Language!par_consoantes /\ t[3] \in Vogais
  BY LettersAre, LettersAreStrings, PairsAre, PairThenLetter, Zenon
<1>11. t \in Language!monossilabo_3 <=>
         \/ t \in Language!Cat(Language!Cat(Language!consoante, Language!vogal), Language!consoante_terminal)
         \/ t \in Language!Cat(Language!consoante, Language!ditongo)
         \/ t \in Language!Cat(Language!par_vogais, Language!consoante_terminal)
  BY DEF Language!monossilabo_3
<1>12. t \in Language!silaba_3 <=>
         \/ t \in Language!Cat(Language!Pairs({"Q"}, {"U"}), Language!One({"A", "E", "I"}))
         \/ t \in Language!Cat(Language!Pairs({"G"}, {"U"}), Language!One({"E", "I"}))
         \/ t \in Language!Cat(Language!vogal, Language!NS)
         \/ t \in Language!Cat(Language!consoante, Language!par_vogais)
         \/ t \in Language!Cat(Language!Cat(Language!consoante, Language!vogal), Language!consoante_final)
         \/ t \in Language!Cat(Language!par_vogais, Language!consoante_final)
         \/ t \in Language!Cat(Language!par_consoantes, Language!vogal)
  BY DEF Language!silaba_3
<1>13. (t[1] \in {"Q"} <=> t[1] = "Q") /\ (t[1] \in {"G"} <=> t[1] = "G") /\ (t[2] \in {"U"} <=> t[2] = "U")
  OBVIOUS
<1>14. t \in Language!monossilabo_3 <=>
         /\ Len(t) = 3
         /\ \/ t[1] \in Consoantes /\ t[2] \in Vogais /\ t[3] \in Terminais
            \/ t[1] \in Consoantes /\ SubSeq(t, 2, 3) \in Language!ditongo
            \/ SubSeq(t, 1, 2) \in Language!par_vogais /\ t[3] \in Terminais
  BY <1>1, <1>2, <1>3, <1>11, Zenon
<1> QED BY <1>4, <1>5, <1>6, <1>7, <1>8, <1>9, <1>10, <1>12, <1>13, <1>14, Zenon

LEMMA ClausesOfFour ==
  ASSUME NEW t \in Seq(Chars)
  PROVE  t \in Language!silaba_4 <=>
           /\ Len(t) = 4
           /\ \/ SubSeq(t, 1, 2) \in Language!par_vogais /\ SubSeq(t, 3, 4) \in Language!NS
              \/ t[1] \in Consoantes /\ t[2] \in Vogais /\ SubSeq(t, 3, 4) \in Language!NS
              \/ t[1] \in Consoantes /\ t[2] \in Vogais /\ SubSeq(t, 3, 4) \in {<<"I", "S">>}
              \/ SubSeq(t, 1, 2) \in Language!par_consoantes /\ SubSeq(t, 3, 4) \in Language!par_vogais
              \/ t[1] \in Consoantes /\ SubSeq(t, 2, 3) \in Language!par_vogais /\ t[4] \in Finais
<1> DEFINE CV == Language!Cat(Language!consoante, Language!vogal)
<1>1. Sized(CV, 2) /\ \A u \in Seq(Chars) : u \in CV <=> Len(u) = 2 /\ u[1] \in Consoantes /\ u[2] \in Vogais
  BY LettersAre, LettersAreStrings, LettersFormPairs, Zenon
<1> HIDE DEF CV
<1>2. t \in Language!Cat(Language!par_vogais, Language!NS) <=>
        Len(t) = 4 /\ SubSeq(t, 1, 2) \in Language!par_vogais /\ SubSeq(t, 3, 4) \in Language!NS
  BY PairsAre, PairThenPair, Zenon
<1>3. t \in Language!Cat(CV, Language!NS) <=>
        Len(t) = 4 /\ SubSeq(t, 1, 2) \in CV /\ SubSeq(t, 3, 4) \in Language!NS
  BY <1>1, PairsAre, PairThenPair, Zenon
<1>4. t \in Language!Cat(CV, {<<"I", "S">>}) <=>
        Len(t) = 4 /\ SubSeq(t, 1, 2) \in CV /\ SubSeq(t, 3, 4) \in {<<"I", "S">>}
  BY <1>1, PairsAre, PairThenPair, Zenon
<1>5. t \in Language!Cat(Language!par_consoantes, Language!par_vogais) <=>
        Len(t) = 4 /\ SubSeq(t, 1, 2) \in Language!par_consoantes /\ SubSeq(t, 3, 4) \in Language!par_vogais
  BY PairsAre, PairThenPair, Zenon
<1>6. t \in Language!Cat(Language!Cat(Language!consoante, Language!par_vogais), Language!consoante_final) <=>
        Len(t) = 4 /\ t[1] \in Consoantes /\ SubSeq(t, 2, 3) \in Language!par_vogais /\ t[4] \in Finais
  BY LettersAre, LettersAreStrings, PairsAre, LetterPairLetter, Zenon
<1>7. ASSUME Len(t) = 4
      PROVE  SubSeq(t, 1, 2) \in CV <=> t[1] \in Consoantes /\ t[2] \in Vogais
  <2>1. /\ SubSeq(t, 1, 2) \in Seq(Chars) /\ Len(SubSeq(t, 1, 2)) = 2
        /\ SubSeq(t, 1, 2)[1] = t[1] /\ SubSeq(t, 1, 2)[2] = t[2]
    BY <1>7, SMTT(30)
  <2> QED BY <1>1, <2>1
<1>8. t \in Language!silaba_4 <=>
        \/ t \in Language!Cat(Language!par_vogais, Language!NS)
        \/ t \in Language!Cat(CV, Language!NS)
        \/ t \in Language!Cat(CV, {<<"I", "S">>})
        \/ t \in Language!Cat(Language!par_consoantes, Language!par_vogais)
        \/ t \in Language!Cat(Language!Cat(Language!consoante, Language!par_vogais), Language!consoante_final)
  BY DEF Language!silaba_4, CV
<1> QED BY <1>2, <1>3, <1>4, <1>5, <1>6, <1>7, <1>8, Zenon

LEMMA ClausesOfFive ==
  ASSUME NEW t \in Seq(Chars)
  PROVE  t \in Language!silaba_5 <=>
           /\ Len(t) = 5
           /\ SubSeq(t, 1, 2) \in Language!par_consoantes /\ t[3] \in Vogais
           /\ SubSeq(t, 4, 5) \in Language!NS
BY LettersAre, LettersAreStrings, PairsAre, PairLetterPair, Zenon DEF Language!silaba_5

LEMMA ClausesOfOne ==
  ASSUME NEW t \in Seq(Chars)
  PROVE  /\ t \in Language!vogal_palavra <=> Len(t) = 1 /\ t[1] \in VogaisPalavra
         /\ t \in Language!vogal <=> Len(t) = 1 /\ t[1] \in Vogais
BY LettersAre, LettersAreStrings, OneIs, Zenon

(***************************************************************************)
(* The recognisers of syllables.                                           *)
(***************************************************************************)
LEMMA TwoAre ==
  ASSUME NEW t \in Seq(Chars)
  PROVE  /\ e_monossilabo_2(t) <=> t \in Language!monossilabo_2
         /\ Teacher!monossilabo_2(t) <=> t \in Language!monossilabo_2
         /\ e_silaba_2(t) <=> t \in Language!silaba_2
         /\ Teacher!silaba_2(t) <=> t \in Language!silaba_2
<1>1. /\ t \in Language!ditongo_palavra => Len(t) = 2
      /\ t \in Language!par_vogais => Len(t) = 2
  BY PairsAre DEF Sized
<1>2. t \in {<<"A", "R">>, <<"I", "R">>, <<"E", "M">>, <<"U", "M">>} => Len(t) = 2
  OBVIOUS
<1>3. /\ e_monossilabo_2(t) <=> t \in Language!monossilabo_2
      /\ Teacher!monossilabo_2(t) <=> t \in Language!monossilabo_2
  BY <1>1, <1>2, ClausesOfTwo, PairsTold, LettersTold, Zenon DEF e_monossilabo_2, Teacher!monossilabo_2
<1>4. /\ e_silaba_2(t) <=> t \in Language!silaba_2
      /\ Teacher!silaba_2(t) <=> t \in Language!silaba_2
  BY <1>1, ClausesOfTwo, PairsTold, LettersTold, Zenon DEF e_silaba_2, Teacher!silaba_2
<1> QED BY <1>3, <1>4

\* The ends of a string.
LEMMA EndsAre ==
  ASSUME NEW t \in Seq(Chars), NEW k \in Nat, k <= Len(t)
  PROVE  /\ SubSeq(t, k + 1, Len(t)) \in Seq(Chars) /\ SubSeq(t, 1, k) \in Seq(Chars)
         /\ Teacher!From(t, k) = SubSeq(t, k + 1, Len(t)) /\ Teacher!Upto(t, k) = SubSeq(t, 1, k)
<1>1. k >= 0
  OBVIOUS
<1>3. Teacher!From(t, k) = SubSeq(t, k + 1, Len(t)) /\ Teacher!Upto(t, k) = SubSeq(t, 1, k)
  BY <1>1, Zenon DEF Teacher!From, Teacher!Upto, Teacher!Position
<1>4. SubSeq(t, k + 1, Len(t)) \in Seq(Chars) /\ SubSeq(t, 1, k) \in Seq(Chars)
  OBVIOUS
<1> QED BY <1>3, <1>4

LEMMA ThreeAre ==
  ASSUME NEW t \in Seq(Chars)
  PROVE  /\ e_monossilabo_3(t) <=> t \in Language!monossilabo_3
         /\ Teacher!monossilabo_3(t) <=> t \in Language!monossilabo_3
         /\ e_silaba_3(t) <=> t \in Language!silaba_3
         /\ Teacher!silaba_3(t) <=> t \in Language!silaba_3
<1>1. CASE Len(t) # 3
  BY <1>1, ClausesOfThree, Zenon DEF e_monossilabo_3, Teacher!monossilabo_3, e_silaba_3, Teacher!silaba_3
<1>2. CASE Len(t) = 3
  <2>1. /\ SubSeq(t, 1, 2) \in Seq(Chars) /\ SubSeq(t, 2, 3) \in Seq(Chars)
        /\ Teacher!From(t, 1) = SubSeq(t, 2, 3) /\ Teacher!Upto(t, 2) = SubSeq(t, 1, 2)
        /\ Ending(t, 2) = SubSeq(t, 2, 3)
    <3>1. /\ Teacher!From(t, 1) = SubSeq(t, 1 + 1, 3) /\ SubSeq(t, 1 + 1, 3) \in Seq(Chars)
          /\ Teacher!Upto(t, 2) = SubSeq(t, 1, 2) /\ SubSeq(t, 1, 2) \in Seq(Chars)
      <4>1. 1 \in Nat /\ 2 \in Nat /\ 1 <= 3 /\ 2 <= 3
        OBVIOUS
      <4> QED BY <1>2, <4>1, EndsAre, Zenon
    <3>2. Ending(t, 2) = SubSeq(t, 2, 3)
      <4>1. 3 - 2 + 1 = 2
        OBVIOUS
      <4> QED BY <1>2, <4>1, Zenon DEF Ending
    <3>3. 1 + 1 = 2
      OBVIOUS
    <3> QED BY <3>1, <3>2, <3>3
  <2>2. ASSUME NEW u PROVE u \in Language!NS <=> u = <<"N", "S">>
    BY DEF Language!NS
  <2>3. /\ e_monossilabo_3(t) <=> t \in Language!monossilabo_3
        /\ Teacher!monossilabo_3(t) <=> t \in Language!monossilabo_3
    BY <1>2, <2>1, ClausesOfThree, PairsTold, LettersTold, Zenon DEF e_monossilabo_3, Teacher!monossilabo_3
  <2>4. ASSUME NEW a, NEW b, NEW c PROVE t = <<a, b, c>> <=> t[1] = a /\ t[2] = b /\ t[3] = c
    BY <1>2
  <2>5. t \in {<<"Q", "U", "A">>, <<"Q", "U", "E">>, <<"Q", "U", "I">>, <<"G", "U", "E">>, <<"G", "U", "I">>} <=>
          \/ t[1] = "Q" /\ t[2] = "U" /\ t[3] \in {"A", "E", "I"}
          \/ t[1] = "G" /\ t[2] = "U" /\ t[3] \in {"E", "I"}
    BY <2>4
  <2>6. t \in ({"Q"} \X {"U"} \X {"A", "E", "I"}) \union ({"G"} \X {"U"} \X {"E", "I"}) <=>
          \/ t[1] = "Q" /\ t[2] = "U" /\ t[3] \in {"A", "E", "I"}
          \/ t[1] = "G" /\ t[2] = "U" /\ t[3] \in {"E", "I"}
    <3>1. ASSUME NEW A, NEW B, NEW C PROVE t \in A \X B \X C <=> t[1] \in A /\ t[2] \in B /\ t[3] \in C
      BY <1>2
    <3> QED BY <3>1
  <2>7. Teacher!silaba_3(t) <=> t \in Language!silaba_3
    BY <1>2, <2>1, <2>2, <2>5, ClausesOfThree, PairsTold, LettersTold, Zenon DEF Teacher!silaba_3
  <2>8. e_silaba_3(t) <=> t \in Language!silaba_3
    <3>1. e_silaba_3(t) <=>
            \/ t[1] = "Q" /\ t[2] = "U" /\ t[3] \in {"A", "E", "I"}
            \/ t[1] = "G" /\ t[2] = "U" /\ t[3] \in {"E", "I"}
            \/ e_vogal(t[1]) /\ Ending(t, 2) = <<"N", "S">>
            \/ e_consoante(t[1]) /\ e_par_vogais(Ending(t, 2))
            \/ e_consoante(t[1]) /\ e_vogal(t[2]) /\ e_consoante_final(t[3])
            \/ e_par_vogais(SubSeq(t, 1, 2)) /\ e_consoante_final(t[3])
            \/ e_par_consoantes(SubSeq(t, 1, 2)) /\ e_vogal(t[3])
      BY <1>2, <2>6 DEF e_silaba_3
    <3> QED BY <1>2, <2>1, <2>2, <3>1, ClausesOfThree, PairsTold, LettersTold, Zenon
  <2> QED BY <2>3, <2>7, <2>8
<1> QED BY <1>1, <1>2

LEMMA FourAre ==
  ASSUME NEW t \in Seq(Chars)
  PROVE  /\ e_silaba_4(t) <=> t \in Language!silaba_4
         /\ Teacher!silaba_4(t) <=> t \in Language!silaba_4
<1>1. CASE Len(t) # 4
  BY <1>1, ClausesOfFour, Zenon DEF e_silaba_4, Teacher!silaba_4
<1>2. CASE Len(t) = 4
  <2>1. /\ SubSeq(t, 1, 2) \in Seq(Chars) /\ SubSeq(t, 2, 3) \in Seq(Chars) /\ SubSeq(t, 3, 4) \in Seq(Chars)
        /\ Teacher!From(t, 2) = SubSeq(t, 3, 4) /\ Teacher!Upto(t, 2) = SubSeq(t, 1, 2)
        /\ Ending(t, 2) = SubSeq(t, 3, 4)
    <3>1. /\ Teacher!From(t, 2) = SubSeq(t, 2 + 1, 4) /\ SubSeq(t, 2 + 1, 4) \in Seq(Chars)
          /\ Teacher!Upto(t, 2) = SubSeq(t, 1, 2) /\ SubSeq(t, 1, 2) \in Seq(Chars)
      <4>1. 2 \in Nat /\ 2 <= 4
        OBVIOUS
      <4> QED BY <1>2, <4>1, EndsAre, Zenon
    <3>2. Ending(t, 2) = SubSeq(t, 3, 4)
      <4>1. 4 - 2 + 1 = 3
        OBVIOUS
      <4> QED BY <1>2, <4>1, Zenon DEF Ending
    <3>3. SubSeq(t, 2, 3) \in Seq(Chars)
      BY <1>2
    <3>4. 2 + 1 = 3
      OBVIOUS
    <3> QED BY <3>1, <3>2, <3>3, <3>4
  <2>2. ASSUME NEW u
        PROVE  /\ u \in Language!NS <=> u = <<"N", "S">>
               /\ u \in {<<"I", "S">>} <=> u = <<"I", "S">>
               /\ u \in {<<"N", "S">>, <<"I", "S">>} <=> u = <<"N", "S">> \/ u = <<"I", "S">>
    BY DEF Language!NS
  <2>3. Teacher!silaba_4(t) <=> t \in Language!silaba_4
    BY <1>2, <2>1, <2>2, ClausesOfFour, PairsTold, LettersTold, Zenon DEF Teacher!silaba_4
  <2>4. e_silaba_4(t) <=> t \in Language!silaba_4
    BY <1>2, <2>1, <2>2, ClausesOfFour, PairsTold, LettersTold, Zenon DEF e_silaba_4
  <2> QED BY <2>3, <2>4
<1> QED BY <1>1, <1>2

LEMMA FiveAre ==
  ASSUME NEW t \in Seq(Chars)
  PROVE  /\ e_silaba_5(t) <=> t \in Language!silaba_5
         /\ Teacher!silaba_5(t) <=> t \in Language!silaba_5
<1>1. ASSUME NEW u PROVE u \in Language!NS <=> u = <<"N", "S">>
  BY DEF Language!NS
<1>2. CASE Len(t) = 5
  <2>1. /\ SubSeq(t, 1, 2) \in Seq(Chars)
        /\ Teacher!From(t, 3) = SubSeq(t, 4, 5) /\ Teacher!Upto(t, 2) = SubSeq(t, 1, 2)
        /\ Ending(t, 2) = SubSeq(t, 4, 5) /\ Len(t) >= 5
    <3>1. /\ Teacher!From(t, 3) = SubSeq(t, 3 + 1, 5)
          /\ Teacher!Upto(t, 2) = SubSeq(t, 1, 2) /\ SubSeq(t, 1, 2) \in Seq(Chars)
      <4>1. 2 \in Nat /\ 3 \in Nat /\ 2 <= 5 /\ 3 <= 5
        OBVIOUS
      <4> QED BY <1>2, <4>1, EndsAre, Zenon
    <3>2. Ending(t, 2) = SubSeq(t, 4, 5)
      <4>1. 5 - 2 + 1 = 4
        OBVIOUS
      <4> QED BY <1>2, <4>1, Zenon DEF Ending
    <3>3. 3 + 1 = 4
      OBVIOUS
    <3> QED BY <1>2, <3>1, <3>2, <3>3
  <2> QED BY <1>1, <1>2, <2>1, ClausesOfFive, PairsTold, LettersTold, Zenon DEF e_silaba_5, Teacher!silaba_5
<1>3. CASE Len(t) # 5
  <2>1. ASSUME Len(t) >= 5 PROVE Teacher!From(t, 3) # <<"N", "S">>
    <3>1. Teacher!From(t, 3) = SubSeq(t, 4, Len(t))
      <4>1. 3 \in Nat /\ 3 <= Len(t) /\ 3 + 1 = 4
        BY <2>1
      <4> QED BY <4>1, EndsAre
    <3>2. Len(SubSeq(t, 4, Len(t))) = Len(t) - 3 /\ Len(t) - 3 # 2 /\ Len(<<"N", "S">>) = 2
      BY <1>3, <2>1
    <3> QED BY <3>1, <3>2
  <2> QED BY <1>3, <2>1, ClausesOfFive, Zenon DEF e_silaba_5, Teacher!silaba_5
<1> QED BY <1>2, <1>3

LEMMA SyllablesAre ==
  ASSUME NEW t \in Seq(Chars)
  PROVE  /\ e_silaba(t) <=> t \in Language!silaba
         /\ Teacher!silaba(t) <=> t \in Language!silaba
         /\ e_monossilabo(t) <=> t \in Language!monossilabo
         /\ Teacher!monossilabo(t) <=> t \in Language!monossilabo
         /\ e_silaba_final(t) <=> t \in Language!silaba_final
         /\ Teacher!silaba_final(t) <=> t \in Language!silaba_final
<1>1. /\ t \in Language!silaba <=>
           \/ t \in Language!vogal \/ t \in Language!silaba_2 \/ t \in Language!silaba_3
           \/ t \in Language!silaba_4 \/ t \in Language!silaba_5
      /\ t \in Language!monossilabo <=>
           t \in Language!vogal_palavra \/ t \in Language!monossilabo_2 \/ t \in Language!monossilabo_3
      /\ t \in Language!silaba_final <=>
           \/ t \in Language!monossilabo_2 \/ t \in Language!monossilabo_3
           \/ t \in Language!silaba_4 \/ t \in Language!silaba_5
  BY DEF Language!silaba, Language!monossilabo, Language!silaba_final
<1>2. /\ e_silaba(t) <=> t \in Language!silaba
      /\ Teacher!silaba(t) <=> t \in Language!silaba
  BY <1>1, TwoAre, ThreeAre, FourAre, FiveAre, ClausesOfOne, LettersTold, Zenon DEF e_silaba, Teacher!silaba
<1>3. /\ e_monossilabo(t) <=> t \in Language!monossilabo
      /\ Teacher!monossilabo(t) <=> t \in Language!monossilabo
  BY <1>1, TwoAre, ThreeAre, ClausesOfOne, LettersTold, Zenon DEF e_monossilabo, Teacher!monossilabo
<1>4. /\ e_silaba_final(t) <=> t \in Language!silaba_final
      /\ Teacher!silaba_final(t) <=> t \in Language!silaba_final
  BY <1>1, TwoAre, ThreeAre, FourAre, FiveAre, Zenon DEF e_silaba_final, Teacher!silaba_final
<1> QED BY <1>2, <1>3, <1>4

\* How long they are.
LEMMA SyllablesAreShort ==
  ASSUME NEW t \in Seq(Chars)
  PROVE  /\ t \in Language!silaba => Len(t) \in 1 .. 5
         /\ t \in Language!silaba_final => Len(t) \in 2 .. 5
<1>1. /\ t \in Language!vogal => Len(t) = 1
      /\ t \in Language!silaba_3 \/ t \in Language!monossilabo_3 => Len(t) = 3
      /\ t \in Language!silaba_4 => Len(t) = 4
      /\ t \in Language!silaba_5 => Len(t) = 5
  BY ClausesOfOne, ClausesOfThree, ClausesOfFour, ClausesOfFive, Zenon
<1>2. t \in Language!silaba_2 \/ t \in Language!monossilabo_2 => Len(t) = 2
  BY TwoAre, Zenon DEF e_monossilabo_2, e_silaba_2
<1>3. t \in Language!silaba =>
        \/ t \in Language!vogal \/ t \in Language!silaba_2 \/ t \in Language!silaba_3
        \/ t \in Language!silaba_4 \/ t \in Language!silaba_5
  BY DEF Language!silaba
<1>4. t \in Language!silaba_final =>
        \/ t \in Language!monossilabo_2 \/ t \in Language!monossilabo_3
        \/ t \in Language!silaba_4 \/ t \in Language!silaba_5
  BY DEF Language!silaba_final
<1> QED BY <1>1, <1>2, <1>3, <1>4

(***************************************************************************)
(* Cutting a string into syllables.                                        *)
(***************************************************************************)
Piece(t, a, b) == SubSeq(t, a + 1, b) \in Language!silaba
Next2(ends, c, d) == c < d /\ \A e \in ends : e <= c \/ d <= e
CutAt(t, ends) == \A c, d \in ends : Next2(ends, c, d) => Piece(t, c, d)
Cut(t, a, b) == \E cuts \in SUBSET (a + 1 .. b - 1) : CutAt(t, cuts \union {a, b})

LEMMA SilabasIs ==
  ASSUME NEW t \in Seq(Chars), NEW k \in 0 .. Len(t)
  PROVE  Language!Silabas(SubSeq(t, 1, k)) <=> Cut(t, 0, k)
<1>1. Len(SubSeq(t, 1, k)) = k
  OBVIOUS
<1>2. ASSUME NEW c \in 0 .. k, NEW d \in 0 .. k, c < d
      PROVE  SubSeq(SubSeq(t, 1, k), c + 1, d) = SubSeq(t, c + 1, d)
  <2>1. /\ k \in 1 .. Len(t) /\ 1 \in 1 .. Len(t)
        /\ c + 1 \in 1 .. k - 1 + 1 /\ d \in 1 .. k - 1 + 1
    BY <1>2
  <2>2. SubSeq(SubSeq(t, 1, k), c + 1, d) = SubSeq(t, 1 + (c + 1) - 1, 1 + d - 1)
    BY <2>1, SubSeqOfSubSeq
  <2> QED BY <2>2
<1>3. ASSUME NEW cuts \in SUBSET (1 .. k - 1)
      PROVE  (\A a, b \in cuts \union {0, k} :
                (a < b /\ \A c \in cuts \union {0, k} : c <= a \/ b <= c) =>
                   SubSeq(SubSeq(t, 1, k), a + 1, b) \in Language!silaba)
             <=> CutAt(t, cuts \union {0, k})
  <2>1. cuts \union {0, k} \subseteq 0 .. k
    OBVIOUS
  <2> QED BY <1>2, <2>1 DEF CutAt, Next2, Piece
<1>4. 0 + 1 = 1
  OBVIOUS
<1> DEFINE u == SubSeq(t, 1, k)
<1>5. Language!Silabas(u) <=>
        \E cuts \in SUBSET (1 .. k - 1) :
          \A a, b \in cuts \union {0, k} :
            (a < b /\ \A c \in cuts \union {0, k} : c <= a \/ b <= c) => SubSeq(u, a + 1, b) \in Language!silaba
  <2>1. Len(u) = k
    BY <1>1
  <2> HIDE DEF u
  <2> QED BY <2>1, Zenon DEF Language!Silabas
<1>6. Cut(t, 0, k) <=> \E cuts \in SUBSET (1 .. k - 1) : CutAt(t, cuts \union {0, k})
  BY <1>4, Zenon DEF Cut
<1> QED BY <1>3, <1>5, <1>6, Zenon

LEMMA CutEmpty == ASSUME NEW t, NEW a \in Nat PROVE Cut(t, a, a)
<1>1. CutAt(t, {} \union {a, a})
  BY DEF CutAt, Next2
<1>2. {} \in SUBSET (a + 1 .. a - 1)
  OBVIOUS
<1> QED BY <1>1, <1>2, Zenon DEF Cut

\* A set of numbers within bounds has a greatest element.
LEMMA GreatestNumber ==
  ASSUME NEW a \in Nat, NEW b \in Nat, NEW E \in SUBSET (a .. b), E # {}
  PROVE  \E m \in E : \A e \in E : e <= m
<1> DEFINE B == {b - e : e \in E}
<1>1. B \in SUBSET Nat /\ B # {}
  <2>1. \A e \in E : b - e \in Nat
    OBVIOUS
  <2>2. B \in SUBSET Nat
    BY <2>1
  <2>3. B # {}
    <3>1. PICK e \in E : TRUE
      OBVIOUS
    <3>2. b - e \in B
      BY <3>1
    <3> QED BY <3>2
  <2> QED BY <2>2, <2>3
<1>2. PICK k \in B : \A l \in B : k <= l
  <2> HIDE DEF B
  <2> QED BY <1>1, LeastNumber
<1>3. PICK m \in E : k = b - m
  BY <1>2
<1>4. ASSUME NEW e \in E PROVE e <= m
  <2>1. b - e \in B
    OBVIOUS
  <2>2. k <= b - e
    BY <1>2, <2>1
  <2> QED BY <1>3, <2>2
<1> QED BY <1>4

\* The last syllable of a cut, and the first.
LEMMA CutLast ==
  ASSUME NEW t, NEW a \in Nat, NEW b \in Nat, a < b
  PROVE  Cut(t, a, b) <=> \E i \in a .. b - 1 : Cut(t, a, i) /\ Piece(t, i, b)
<1>1. ASSUME Cut(t, a, b) PROVE \E i \in a .. b - 1 : Cut(t, a, i) /\ Piece(t, i, b)
  <2>1. PICK cuts \in SUBSET (a + 1 .. b - 1) : CutAt(t, cuts \union {a, b})
    BY <1>1 DEF Cut
  <2> DEFINE E == cuts \union {a}
  <2>2. E \in SUBSET (a .. b - 1) /\ E # {} /\ b - 1 \in Nat
    OBVIOUS
  <2>3. PICK i \in E : \A e \in E : e <= i
    <3> HIDE DEF E
    <3> QED BY <2>2, GreatestNumber
  <2>4. i \in a .. b - 1
    BY <2>2, <2>3
  <2>5. Piece(t, i, b)
    <3>1. Next2(cuts \union {a, b}, i, b)
      <4>1. \A e \in cuts \union {a, b} : e <= i \/ b <= e
        BY <2>3
      <4> QED BY <2>4, <4>1 DEF Next2
    <3> QED BY <2>1, <2>3, <3>1 DEF CutAt
  <2>6. Cut(t, a, i)
    <3> DEFINE D == E \ {a, i}
    <3>1. D \in SUBSET (a + 1 .. i - 1) /\ D \union {a, i} = E
      BY <2>2, <2>3
    <3>2. CutAt(t, E)
      <4>1. ASSUME NEW c \in E, NEW d \in E, Next2(E, c, d) PROVE Piece(t, c, d)
        <5>1. Next2(cuts \union {a, b}, c, d)
          <6>1. d <= b
            BY <2>2
          <6> QED BY <4>1, <6>1 DEF Next2
        <5> QED BY <2>1, <5>1 DEF CutAt
      <4> QED BY <4>1 DEF CutAt
    <3> HIDE DEF D, E
    <3> QED BY <3>1, <3>2, Zenon DEF Cut
  <2> QED BY <2>4, <2>5, <2>6
<1>2. ASSUME NEW i \in a .. b - 1, Cut(t, a, i), Piece(t, i, b) PROVE Cut(t, a, b)
  <2>1. PICK cuts \in SUBSET (a + 1 .. i - 1) : CutAt(t, cuts \union {a, i})
    BY <1>2 DEF Cut
  <2> DEFINE E == cuts \union {a, i}
             D == E \ {a}
  <2>2. D \in SUBSET (a + 1 .. b - 1) /\ D \union {a, b} = E \union {b} /\ E \subseteq a .. i
    OBVIOUS
  <2>3. CutAt(t, E \union {b})
    <3>1. ASSUME NEW c \in E \union {b}, NEW d \in E \union {b}, Next2(E \union {b}, c, d)
          PROVE  Piece(t, c, d)
      <4>1. CASE d = b
        <5>1. c \in E /\ c < d
          BY <2>2, <3>1, <4>1 DEF Next2
        <5>2. i <= c \/ b <= i
          BY <3>1, <4>1 DEF Next2
        <5>3. c = i
          BY <2>2, <5>1, <5>2
        <5> QED BY <1>2, <4>1, <5>3
      <4>2. CASE d # b
        <5>1. d \in E /\ c \in E
          BY <2>2, <3>1, <4>2 DEF Next2
        <5>2. Next2(E, c, d)
          BY <3>1 DEF Next2
        <5> QED BY <2>1, <5>1, <5>2 DEF CutAt
      <4> QED BY <4>1, <4>2
    <3> QED BY <3>1 DEF CutAt
  <2> HIDE DEF D, E
  <2> QED BY <2>2, <2>3, Zenon DEF Cut
<1> QED BY <1>1, <1>2

LEMMA CutFirst ==
  ASSUME NEW t, NEW a \in Nat, NEW b \in Nat, a < b
  PROVE  Cut(t, a, b) <=> \E i \in a + 1 .. b : Piece(t, a, i) /\ Cut(t, i, b)
<1>1. ASSUME Cut(t, a, b) PROVE \E i \in a + 1 .. b : Piece(t, a, i) /\ Cut(t, i, b)
  <2>1. PICK cuts \in SUBSET (a + 1 .. b - 1) : CutAt(t, cuts \union {a, b})
    BY <1>1 DEF Cut
  <2> DEFINE E == cuts \union {b}
  <2>2. E \in SUBSET (a + 1 .. b) /\ E # {} /\ E \in SUBSET Nat
    OBVIOUS
  <2>3. PICK i \in E : \A e \in E : i <= e
    <3> HIDE DEF E
    <3> QED BY <2>2, LeastNumber
  <2>4. i \in a + 1 .. b
    BY <2>2, <2>3
  <2>5. Piece(t, a, i)
    <3>1. Next2(cuts \union {a, b}, a, i)
      <4>1. \A e \in cuts \union {a, b} : e <= a \/ i <= e
        BY <2>3
      <4> QED BY <2>4, <4>1 DEF Next2
    <3> QED BY <2>1, <2>3, <3>1 DEF CutAt
  <2>6. Cut(t, i, b)
    <3> DEFINE D == E \ {i, b}
    <3>1. D \in SUBSET (i + 1 .. b - 1) /\ D \union {i, b} = E
      BY <2>2, <2>3
    <3>2. CutAt(t, E)
      <4>1. ASSUME NEW c \in E, NEW d \in E, Next2(E, c, d) PROVE Piece(t, c, d)
        <5>1. Next2(cuts \union {a, b}, c, d)
          <6>1. a <= c
            BY <2>2
          <6> QED BY <4>1, <6>1 DEF Next2
        <5> QED BY <2>1, <5>1 DEF CutAt
      <4> QED BY <4>1 DEF CutAt
    <3> HIDE DEF D, E
    <3> QED BY <3>1, <3>2, Zenon DEF Cut
  <2> QED BY <2>4, <2>5, <2>6
<1>2. ASSUME NEW i \in a + 1 .. b, Piece(t, a, i), Cut(t, i, b) PROVE Cut(t, a, b)
  <2>1. PICK cuts \in SUBSET (i + 1 .. b - 1) : CutAt(t, cuts \union {i, b})
    BY <1>2 DEF Cut
  <2> DEFINE E == cuts \union {i, b}
             D == E \ {b}
  <2>2. D \in SUBSET (a + 1 .. b - 1) /\ D \union {a, b} = E \union {a} /\ E \subseteq i .. b
    OBVIOUS
  <2>3. CutAt(t, E \union {a})
    <3>1. ASSUME NEW c \in E \union {a}, NEW d \in E \union {a}, Next2(E \union {a}, c, d)
          PROVE  Piece(t, c, d)
      <4>1. CASE c = a
        <5>1. d \in E /\ c < d
          BY <2>2, <3>1, <4>1 DEF Next2
        <5>2. i <= a \/ d <= i
          BY <3>1, <4>1 DEF Next2
        <5>3. d = i
          BY <2>2, <5>1, <5>2
        <5> QED BY <1>2, <4>1, <5>3
      <4>2. CASE c # a
        <5>1. d \in E /\ c \in E
          BY <2>2, <3>1, <4>2 DEF Next2
        <5>2. Next2(E, c, d)
          BY <3>1 DEF Next2
        <5> QED BY <2>1, <5>1, <5>2 DEF CutAt
      <4> QED BY <4>1, <4>2
    <3> QED BY <3>1 DEF CutAt
  <2> HIDE DEF D, E
  <2> QED BY <2>2, <2>3, Zenon DEF Cut
<1> QED BY <1>1, <1>2

\* A word of the grammar: a monosyllable, or syllables and a last one.
LEMMA WordIs ==
  ASSUME NEW t \in Seq(Chars)
  PROVE  Language!palavra(t) <=>
           \/ t \in Language!monossilabo
           \/ \E k \in 0 .. Len(t) : SubSeq(t, k + 1, Len(t)) \in Language!silaba_final /\ Cut(t, 0, k)
BY SilabasIs DEF Language!palavra

(***************************************************************************)
(* The student's recursion, from the end.                                  *)
(***************************************************************************)
Whole(t, n) == n >= 1 /\ Cut(t, 0, n)

LEMMA PieceIs ==
  ASSUME NEW t \in Seq(Chars), NEW a \in 0 .. Len(t), NEW b \in 0 .. Len(t), a <= b
  PROVE  /\ SubSeq(t, a + 1, b) \in Seq(Chars) /\ Len(SubSeq(t, a + 1, b)) = b - a
         /\ e_silaba(SubSeq(t, a + 1, b)) <=> Piece(t, a, b)
         /\ Teacher!silaba(SubSeq(t, a + 1, b)) <=> Piece(t, a, b)
         /\ Piece(t, a, b) => b - a \in 1 .. 5
<1>1. SubSeq(t, a + 1, b) \in Seq(Chars) /\ Len(SubSeq(t, a + 1, b)) = b - a
  OBVIOUS
<1> DEFINE u == SubSeq(t, a + 1, b)
<1> HIDE DEF u
<1>2. u \in Seq(Chars) /\ Len(u) = b - a
  BY <1>1 DEF u
<1>3. (e_silaba(u) <=> u \in Language!silaba) /\ (Teacher!silaba(u) <=> u \in Language!silaba)
  BY <1>2, SyllablesAre, Zenon
<1>4. u \in Language!silaba => b - a \in 1 .. 5
  BY <1>2, SyllablesAreShort
<1> QED BY <1>2, <1>3, <1>4, Zenon DEF Piece, u

LEMMA WholeIs ==
  ASSUME NEW t \in Seq(Chars), NEW n \in 0 .. Len(t)
  PROVE  Whole(t, n) <=>
           \/ e_silaba(SubSeq(t, 1, n))
           \/ \E i \in 1 .. Minimum(n, 5) : e_silaba(SubSeq(t, n - i + 1, n)) /\ Whole(t, n - i)
<1>1. /\ e_silaba(SubSeq(t, 1, n)) <=> Piece(t, 0, n)
      /\ Piece(t, 0, n) => n >= 1
  <2>1. 0 \in 0 .. Len(t) /\ 0 <= n /\ 0 + 1 = 1 /\ n - 0 = n
    OBVIOUS
  <2>2. /\ e_silaba(SubSeq(t, 0 + 1, n)) <=> Piece(t, 0, n)
        /\ Piece(t, 0, n) => n - 0 \in 1 .. 5
    BY <2>1, PieceIs, Zenon
  <2> QED BY <2>1, <2>2
<1>2. ASSUME NEW j \in 0 .. n - 1
      PROVE  /\ e_silaba(SubSeq(t, j + 1, n)) <=> Piece(t, j, n)
             /\ Piece(t, j, n) => n - j \in 1 .. 5
  <2>1. j \in 0 .. Len(t) /\ j <= n
    OBVIOUS
  <2> QED BY <2>1, PieceIs, Zenon
<1>3. ASSUME Whole(t, n)
      PROVE  \/ e_silaba(SubSeq(t, 1, n))
             \/ \E i \in 1 .. Minimum(n, 5) : e_silaba(SubSeq(t, n - i + 1, n)) /\ Whole(t, n - i)
  <2>1. PICK j \in 0 .. n - 1 : Cut(t, 0, j) /\ Piece(t, j, n)
    <3>1. 0 \in Nat /\ n \in Nat /\ 0 < n /\ Cut(t, 0, n)
      BY <1>3 DEF Whole
    <3> QED BY <3>1, CutLast, Zenon
  <2>2. CASE j = 0
    BY <1>1, <2>1, <2>2
  <2>3. CASE j # 0
    <3>1. n - j \in 1 .. Minimum(n, 5)
      BY <1>2, <2>1 DEF Minimum
    <3>2. n - (n - j) = j /\ n - (n - j) + 1 = j + 1 /\ j >= 1
      BY <2>3
    <3>3. e_silaba(SubSeq(t, n - (n - j) + 1, n)) /\ Whole(t, n - (n - j))
      BY <1>2, <2>1, <3>2 DEF Whole
    <3> QED BY <3>1, <3>3
  <2> QED BY <2>2, <2>3
<1>4. ASSUME e_silaba(SubSeq(t, 1, n)) PROVE Whole(t, n)
  <2>1. Piece(t, 0, n) /\ n >= 1 /\ Cut(t, 0, 0)
    BY <1>1, <1>4, CutEmpty
  <2>2. 0 \in Nat /\ n \in Nat /\ 0 < n /\ 0 \in 0 .. n - 1
    BY <2>1
  <2>3. Cut(t, 0, n)
    BY <2>1, <2>2, CutLast, Zenon
  <2> QED BY <2>1, <2>3 DEF Whole
<1>5. ASSUME NEW i \in 1 .. Minimum(n, 5), e_silaba(SubSeq(t, n - i + 1, n)), Whole(t, n - i)
      PROVE  Whole(t, n)
  <2>1. n - i \in 0 .. n - 1 /\ n >= 1
    BY DEF Minimum
  <2>2. Piece(t, n - i, n) /\ Cut(t, 0, n - i)
    BY <1>2, <1>5, <2>1 DEF Whole
  <2>3. 0 \in Nat /\ n \in Nat /\ 0 < n
    BY <2>1
  <2>4. Cut(t, 0, n)
    BY <2>1, <2>2, <2>3, CutLast, Zenon
  <2> QED BY <2>1, <2>4 DEF Whole
<1> QED BY <1>3, <1>4, <1>5

SilabasEqn(t, f) ==
  f = [n \in 0 .. Len(t) |->
        \/ e_silaba(SubSeq(t, 1, n))
        \/ \E i \in 1 .. Minimum(n, 5) : e_silaba(SubSeq(t, n - i + 1, n)) /\ f[n - i]]
SilabasOf(t) == CHOOSE f : SilabasEqn(t, f)

LEMMA SilabasExist ==
  ASSUME NEW t \in Seq(Chars)
  PROVE  SilabasEqn(t, SilabasOf(t))
<1> DEFINE h == [n \in 0 .. Len(t) |-> Whole(t, n)]
<1>1. ASSUME NEW n \in 0 .. Len(t)
      PROVE  h[n] = \/ e_silaba(SubSeq(t, 1, n))
                    \/ \E i \in 1 .. Minimum(n, 5) : e_silaba(SubSeq(t, n - i + 1, n)) /\ h[n - i]
  <2>1. \A i \in 1 .. Minimum(n, 5) : n - i \in 0 .. Len(t)
    BY DEF Minimum
  <2>2. \A i \in 1 .. Minimum(n, 5) : h[n - i] <=> Whole(t, n - i)
    BY <2>1
  <2>3. h[n] = Whole(t, n)
    OBVIOUS
  <2> HIDE DEF h
  <2>4. Whole(t, n) <=>
          \/ e_silaba(SubSeq(t, 1, n))
          \/ \E i \in 1 .. Minimum(n, 5) : e_silaba(SubSeq(t, n - i + 1, n)) /\ h[n - i]
    BY <2>2, WholeIs, Zenon
  <2>5. Whole(t, n) \in BOOLEAN
    BY DEF Whole
  <2> QED BY <2>3, <2>4, <2>5, Zenon
<1>2. h = [n \in 0 .. Len(t) |-> h[n]]
  OBVIOUS
<1> HIDE DEF h
<1>3. SilabasEqn(t, h)
  BY <1>1, <1>2 DEF SilabasEqn
<1> QED BY <1>3, Zenon DEF SilabasOf

LEMMA SilabasAre ==
  ASSUME NEW t \in Seq(Chars)
  PROVE  \A n \in 0 .. Len(t) : SilabasOf(t)[n] <=> Whole(t, n)
<1> DEFINE f == SilabasOf(t)
<1>1. SilabasEqn(t, f)
  BY SilabasExist, Zenon
<1> HIDE DEF f
<1>2. \A n \in 0 .. Len(t) :
        f[n] <=> \/ e_silaba(SubSeq(t, 1, n))
                 \/ \E i \in 1 .. Minimum(n, 5) : e_silaba(SubSeq(t, n - i + 1, n)) /\ f[n - i]
  BY <1>1, Zenon DEF SilabasEqn
<1> DEFINE B == {n \in 0 .. Len(t) : ~(f[n] <=> Whole(t, n))}
<1>3. B = {}
  <2> SUFFICES ASSUME B # {} PROVE FALSE
    OBVIOUS
  <2>1. B \in SUBSET Nat
    OBVIOUS
  <2>2. PICK n \in B : \A m \in B : n <= m
    <3> HIDE DEF B
    <3> QED BY <2>1, LeastNumber
  <2>3. \A i \in 1 .. Minimum(n, 5) : f[n - i] <=> Whole(t, n - i)
    <3>1. \A i \in 1 .. Minimum(n, 5) : n - i \in 0 .. Len(t) /\ n - i < n
      BY DEF Minimum
    <3>2. \A i \in 1 .. Minimum(n, 5) : n - i \notin B
      <4> HIDE DEF B
      <4> QED BY <2>1, <2>2, <3>1
    <3> QED BY <3>1, <3>2
  <2>4. n \in 0 .. Len(t)
    OBVIOUS
  <2>5. f[n] <=> Whole(t, n)
    <3> HIDE DEF B
    <3> QED BY <1>2, <2>3, <2>4, WholeIs, Zenon
  <2> QED BY <2>5
<1> QED BY <1>3 DEF f

\* The first recursion ends in a last syllable.
LEMMA StudentAuxIs ==
  ASSUME NEW t \in Seq(Chars)
  PROVE  e_palavra_aux(t) <=>
           \E k \in 0 .. Len(t) : SubSeq(t, k + 1, Len(t)) \in Language!silaba_final /\ Cut(t, 0, k)
<1> DEFINE L == Len(t)
           final(k) == SubSeq(t, k + 1, L) \in Language!silaba_final
<1>1. e_palavra_aux(t) <=>
        \/ e_silaba_final(t)
        \/ \E i \in 1 .. Minimum(L, 5) : e_silaba_final(Ending(t, i)) /\ SilabasOf(t)[L - i]
  BY DEF e_palavra_aux, SilabasOf, SilabasEqn
<1>2. e_silaba_final(t) <=> final(0)
  <2>1. SubSeq(t, 0 + 1, L) = t
    BY SubSeqFull
  <2> QED BY <2>1, SyllablesAre
<1>3. ASSUME NEW i \in 1 .. Minimum(L, 5)
      PROVE  /\ L - i \in 0 .. L
             /\ e_silaba_final(Ending(t, i)) <=> final(L - i)
             /\ SilabasOf(t)[L - i] <=> Whole(t, L - i)
  <2>1. L - i \in 0 .. L
    BY DEF Minimum
  <2>2. Ending(t, i) = SubSeq(t, L - i + 1, L) /\ Ending(t, i) \in Seq(Chars)
    BY <2>1 DEF Ending
  <2> QED BY <2>1, <2>2, SyllablesAre, SilabasAre
<1>4. ASSUME NEW k \in 0 .. L, final(k) PROVE L - k \in 2 .. 5
  <2>1. SubSeq(t, k + 1, L) \in Seq(Chars) /\ Len(SubSeq(t, k + 1, L)) = L - k
    OBVIOUS
  <2> QED BY <1>4, <2>1, SyllablesAreShort
<1>5. ASSUME NEW k \in 0 .. L, final(k), Cut(t, 0, k) PROVE e_palavra_aux(t)
  <2>1. CASE k = 0
    BY <1>1, <1>2, <1>5, <2>1
  <2>2. CASE k # 0
    <3>1. L - k \in 1 .. Minimum(L, 5) /\ L - (L - k) = k /\ k >= 1
      BY <1>4, <1>5, <2>2 DEF Minimum
    <3>2. Whole(t, L - (L - k)) /\ final(L - (L - k))
      BY <1>5, <3>1 DEF Whole
    <3> HIDE DEF final, L
    <3> QED BY <1>1, <1>3, <3>1, <3>2
  <2> QED BY <2>1, <2>2
<1>6. ASSUME e_palavra_aux(t) PROVE \E k \in 0 .. L : final(k) /\ Cut(t, 0, k)
  <2>1. CASE e_silaba_final(t)
    <3>1. Cut(t, 0, 0) /\ 0 \in 0 .. L
      BY CutEmpty
    <3> QED BY <1>2, <2>1, <3>1
  <2>2. CASE \E i \in 1 .. Minimum(L, 5) : e_silaba_final(Ending(t, i)) /\ SilabasOf(t)[L - i]
    <3>1. PICK i \in 1 .. Minimum(L, 5) : e_silaba_final(Ending(t, i)) /\ SilabasOf(t)[L - i]
      BY <2>2
    <3>2. final(L - i) /\ Cut(t, 0, L - i) /\ L - i \in 0 .. L
      <4> HIDE DEF final, L
      <4> QED BY <1>3, <3>1 DEF Whole
    <3> QED BY <3>2
  <2> QED BY <1>1, <1>6, <2>1, <2>2
<1> QED BY <1>5, <1>6

(***************************************************************************)
(* The second version's, with the bound on the syllable as an argument.    *)
(***************************************************************************)
Tried(t, n, i) ==
  /\ i >= 1 /\ n >= 1
  /\ \/ Piece(t, 0, n)
     \/ \E j \in 1 .. i : Piece(t, n - j, n) /\ Whole(t, n - j)

Calls2(t) == {call \in (0 .. Len(t)) \X (0 .. 5) : call[2] <= call[1]}

Silabas2Eqn(t, f) ==
  f = [call \in Calls2(t) |->
        LET n == call[1]
            i == call[2]
        IN /\ i # 0
           /\ \/ e_silaba(SubSeq(t, 1, n))
              \/ e_silaba(SubSeq(t, n - i + 1, n)) /\ f[<<n - i, Minimum(5, n - i)>>]
              \/ f[<<n, i - 1>>]]
Silabas2Of(t) == CHOOSE f : Silabas2Eqn(t, f)

\* With the largest bound all syllables have been tried.
LEMMA TriedAll ==
  ASSUME NEW t \in Seq(Chars), NEW n \in 0 .. Len(t)
  PROVE  Tried(t, n, Minimum(5, n)) <=> Whole(t, n)
<1>1. ASSUME NEW i \in 0 .. n, i <= 5
      PROVE  n - i \in 0 .. Len(t) /\ (e_silaba(SubSeq(t, n - i + 1, n)) <=> Piece(t, n - i, n))
  <2>1. n - i \in 0 .. Len(t) /\ n - i <= n
    BY <1>1
  <2> QED BY <2>1, PieceIs, Zenon
<1>2. e_silaba(SubSeq(t, 1, n)) <=> Piece(t, 0, n)
  <2>1. 0 \in 0 .. Len(t) /\ 0 <= n /\ 0 + 1 = 1
    OBVIOUS
  <2>2. e_silaba(SubSeq(t, 0 + 1, n)) <=> Piece(t, 0, n)
    BY <2>1, PieceIs, Zenon
  <2> QED BY <2>1, <2>2
<1>3. Minimum(5, n) = Minimum(n, 5) /\ (Minimum(n, 5) >= 1 <=> n >= 1)
      /\ \A i \in 1 .. Minimum(n, 5) : i \in 0 .. n /\ i <= 5
  BY DEF Minimum
<1>4. Whole(t, n) <=>
        \/ Piece(t, 0, n)
        \/ \E i \in 1 .. Minimum(n, 5) : Piece(t, n - i, n) /\ Whole(t, n - i)
  BY <1>1, <1>2, <1>3, WholeIs
<1>5. Whole(t, n) => n >= 1
  BY DEF Whole
<1> QED BY <1>3, <1>4, <1>5 DEF Tried

LEMMA TriedIs ==
  ASSUME NEW t \in Seq(Chars), NEW n \in 0 .. Len(t), NEW i \in 0 .. 5, i <= n
  PROVE  Tried(t, n, i) <=>
           /\ i # 0
           /\ \/ e_silaba(SubSeq(t, 1, n))
              \/ e_silaba(SubSeq(t, n - i + 1, n)) /\ Tried(t, n - i, Minimum(5, n - i))
              \/ Tried(t, n, i - 1)
<1>1. n - i \in 0 .. Len(t) /\ (e_silaba(SubSeq(t, n - i + 1, n)) <=> Piece(t, n - i, n))
  <2>1. n - i \in 0 .. Len(t) /\ n - i <= n
    OBVIOUS
  <2> QED BY <2>1, PieceIs, Zenon
<1>2. e_silaba(SubSeq(t, 1, n)) <=> Piece(t, 0, n)
  <2>1. 0 \in 0 .. Len(t) /\ 0 <= n /\ 0 + 1 = 1
    OBVIOUS
  <2>2. e_silaba(SubSeq(t, 0 + 1, n)) <=> Piece(t, 0, n)
    BY <2>1, PieceIs, Zenon
  <2> QED BY <2>1, <2>2
<1>3. Tried(t, n - i, Minimum(5, n - i)) <=> Whole(t, n - i)
  BY <1>1, TriedAll, Zenon
<1>4. CASE i = 0
  BY <1>4 DEF Tried
<1>5. CASE i # 0
  <2>1. i >= 1 /\ n >= 1 /\ \A j \in 1 .. i : j = i \/ (i - 1 >= 1 /\ j \in 1 .. i - 1)
    BY <1>5
  <2>2. \A j \in 1 .. i - 1 : j \in 1 .. i
    OBVIOUS
  <2>3. Tried(t, n, i) <=> Piece(t, 0, n) \/ \E j \in 1 .. i : Piece(t, n - j, n) /\ Whole(t, n - j)
    BY <2>1 DEF Tried
  <2>4. Tried(t, n, i - 1) =>
          Piece(t, 0, n) \/ \E j \in 1 .. i : Piece(t, n - j, n) /\ Whole(t, n - j)
    BY <2>2 DEF Tried
  <2>5. ASSUME NEW j \in 1 .. i, Piece(t, n - j, n), Whole(t, n - j), j # i PROVE Tried(t, n, i - 1)
    <3>1. i - 1 >= 1 /\ j \in 1 .. i - 1
      BY <2>1, <2>5
    <3> QED BY <2>1, <2>5, <3>1 DEF Tried
  <2>6. i \in 1 .. i
    BY <2>1
  <2> QED BY <1>1, <1>2, <1>3, <1>5, <2>3, <2>4, <2>5, <2>6
<1> QED BY <1>4, <1>5

LEMMA CallsAre ==
  ASSUME NEW t \in Seq(Chars)
  PROVE  /\ \A n \in 0 .. Len(t) : \A i \in 0 .. 5 : i <= n => <<n, i>> \in Calls2(t)
         /\ \A call \in Calls2(t) :
              /\ call = <<call[1], call[2]>>
              /\ call[1] \in 0 .. Len(t) /\ call[2] \in 0 .. 5 /\ call[2] <= call[1]
BY DEF Calls2

\* The calls that a call makes.
LEMMA CallsMade ==
  ASSUME NEW t \in Seq(Chars), NEW n \in 0 .. Len(t), NEW i \in 0 .. 5, i <= n, i # 0
  PROVE  /\ <<n - i, Minimum(5, n - i)>> \in Calls2(t)
         /\ <<n, i - 1>> \in Calls2(t)
<1>1. n - i \in 0 .. Len(t) /\ Minimum(5, n - i) \in 0 .. 5 /\ Minimum(5, n - i) <= n - i
  BY DEF Minimum
<1>2. i - 1 \in 0 .. 5 /\ i - 1 <= n
  OBVIOUS
<1> QED BY <1>1, <1>2, CallsAre, Zenon

LEMMA Silabas2Exist ==
  ASSUME NEW t \in Seq(Chars)
  PROVE  Silabas2Eqn(t, Silabas2Of(t))
<1> DEFINE h == [call \in Calls2(t) |-> Tried(t, call[1], call[2])]
           body(n, i) == /\ i # 0
                         /\ \/ e_silaba(SubSeq(t, 1, n))
                            \/ e_silaba(SubSeq(t, n - i + 1, n)) /\ h[<<n - i, Minimum(5, n - i)>>]
                            \/ h[<<n, i - 1>>]
<1>1. ASSUME NEW call \in Calls2(t)
      PROVE  h[call] = body(call[1], call[2])
  <2> DEFINE n == call[1]
             i == call[2]
  <2>1. n \in 0 .. Len(t) /\ i \in 0 .. 5 /\ i <= n
    BY CallsAre, Zenon
  <2>2. h[call] = Tried(t, n, i)
    OBVIOUS
  <2>3. ASSUME NEW m, NEW j, <<m, j>> \in Calls2(t) PROVE h[<<m, j>>] = Tried(t, m, j)
    BY <2>3
  <2>4. Tried(t, n, i) \in BOOLEAN
    BY DEF Tried
  <2> HIDE DEF h, n, i
  <2>5. i # 0 => /\ h[<<n - i, Minimum(5, n - i)>>] = Tried(t, n - i, Minimum(5, n - i))
                 /\ h[<<n, i - 1>>] = Tried(t, n, i - 1)
    BY <2>1, <2>3, CallsMade, Zenon
  <2>6. Tried(t, n, i) <=> body(n, i)
    BY <2>1, <2>5, TriedIs, Zenon
  <2> QED BY <2>2, <2>4, <2>6, Zenon DEF n, i
<1>2. h = [call \in Calls2(t) |-> h[call]]
  OBVIOUS
<1> HIDE DEF h
<1>3. h = [call \in Calls2(t) |-> body(call[1], call[2])]
  BY <1>1, <1>2
<1>4. Silabas2Eqn(t, h)
  BY <1>3, Zenon DEF Silabas2Eqn
<1> QED BY <1>4, Zenon DEF Silabas2Of

LEMMA Silabas2Are ==
  ASSUME NEW t \in Seq(Chars)
  PROVE  \A call \in Calls2(t) : Silabas2Of(t)[call] <=> Tried(t, call[1], call[2])
<1> DEFINE f == Silabas2Of(t)
<1>1. Silabas2Eqn(t, f)
  BY Silabas2Exist, Zenon
<1> HIDE DEF f
<1>2. \A call \in Calls2(t) :
        f[call] <=>
          /\ call[2] # 0
          /\ \/ e_silaba(SubSeq(t, 1, call[1]))
             \/ /\ e_silaba(SubSeq(t, call[1] - call[2] + 1, call[1]))
                /\ f[<<call[1] - call[2], Minimum(5, call[1] - call[2])>>]
             \/ f[<<call[1], call[2] - 1>>]
  BY <1>1, Zenon DEF Silabas2Eqn
\* A call comes after those it makes.
<1> DEFINE rank(call) == (6 * call[1]) + call[2]
           B == {call \in Calls2(t) : ~(f[call] <=> Tried(t, call[1], call[2]))}
           R == {rank(call) : call \in B}
<1>3. B = {}
  <2> SUFFICES ASSUME B # {} PROVE FALSE
    OBVIOUS
  <2>1. R \in SUBSET Nat /\ R # {}
    <3>1. \A call \in B : rank(call) \in Nat
      <4>1. \A call \in B : call[1] \in 0 .. Len(t) /\ call[2] \in 0 .. 5
        BY CallsAre
      <4> QED BY <4>1, SMTT(30)
    <3> HIDE DEF B, rank
    <3>2. PICK call \in B : TRUE
      OBVIOUS
    <3>3. rank(call) \in R
      BY <3>2
    <3> QED BY <3>1, <3>3
  <2>2. PICK r \in R : \A s \in R : r <= s
    <3> HIDE DEF R
    <3> QED BY <2>1, LeastNumber
  <2>3. PICK call \in B : r = rank(call)
    <3> HIDE DEF B, rank
    <3> QED BY <2>2
  <2> DEFINE n == call[1]
             i == call[2]
  <2>4. call \in Calls2(t) /\ n \in 0 .. Len(t) /\ i \in 0 .. 5 /\ i <= n
    BY CallsAre
  <2>5. ASSUME NEW other \in Calls2(t), rank(other) < rank(call)
        PROVE  f[other] <=> Tried(t, other[1], other[2])
    <3>1. other \notin B
      <4> HIDE DEF B
      <4>1. rank(other) \in Nat /\ rank(call) \in Nat
        <5>1. \A c \in Calls2(t) : c[1] \in 0 .. Len(t) /\ c[2] \in 0 .. 5
          BY CallsAre, Zenon
        <5>2. \A c \in Calls2(t) : (6 * c[1]) + c[2] \in Nat
          BY <5>1, SMTT(30)
        <5> QED BY <2>4, <5>2, Zenon
      <4> SUFFICES ASSUME other \in B PROVE FALSE
        OBVIOUS
      <4>2. rank(other) \in R
        OBVIOUS
      <4>3. rank(call) <= rank(other)
        <5> HIDE DEF rank, R
        <5> QED BY <2>2, <2>3, <4>2
      <4> QED BY <2>5, <4>1, <4>3
    <3> QED BY <3>1
  <2>6. i # 0 => /\ f[<<n - i, Minimum(5, n - i)>>] <=> Tried(t, n - i, Minimum(5, n - i))
                 /\ f[<<n, i - 1>>] <=> Tried(t, n, i - 1)
    <3> SUFFICES ASSUME i # 0
                 PROVE  /\ f[<<n - i, Minimum(5, n - i)>>] <=> Tried(t, n - i, Minimum(5, n - i))
                        /\ f[<<n, i - 1>>] <=> Tried(t, n, i - 1)
      OBVIOUS
    <3>1. ASSUME NEW m, NEW j, <<m, j>> \in Calls2(t), (6 * m) + j < (6 * n) + i
          PROVE  f[<<m, j>>] <=> Tried(t, m, j)
      <4>1. rank(<<m, j>>) < rank(call)
        BY <3>1
      <4> HIDE DEF rank, B, R
      <4>2. f[<<m, j>>] <=> Tried(t, <<m, j>>[1], <<m, j>>[2])
        BY <2>5, <3>1, <4>1, Zenon
      <4> QED BY <4>2
    <3>2. <<n - i, Minimum(5, n - i)>> \in Calls2(t) /\ <<n, i - 1>> \in Calls2(t)
      <4> HIDE DEF n, i
      <4> QED BY <2>4, CallsMade, Zenon
    <3>3. (6 * (n - i)) + Minimum(5, n - i) < (6 * n) + i /\ (6 * n) + (i - 1) < (6 * n) + i
      <4> HIDE DEF n, i
      <4> QED BY <2>4 DEF Minimum
    <3> HIDE DEF n, i, rank, B, R
    <3> QED BY <3>1, <3>2, <3>3, Zenon
  <2>7. f[call] <=> Tried(t, n, i)
    <3>1. f[call] <=>
            /\ i # 0
            /\ \/ e_silaba(SubSeq(t, 1, n))
               \/ e_silaba(SubSeq(t, n - i + 1, n)) /\ f[<<n - i, Minimum(5, n - i)>>]
               \/ f[<<n, i - 1>>]
      BY <1>2, <2>4, Zenon
    <3> HIDE DEF n, i, B
    <3> QED BY <2>4, <2>6, <3>1, TriedIs, Zenon
  <2> QED BY <2>7
<1> QED BY <1>3 DEF f

FinalEqn(t, first, f) ==
  f = [i \in 0 .. first |->
        /\ i # 0
        /\ \/ e_silaba_final(t)
           \/ e_silaba_final(SubSeq(t, Len(t) - i + 1, Len(t)))
                /\ Silabas2Of(t)[<<Len(t) - i, Minimum(5, Len(t) - i)>>]
           \/ f[i - 1]]
FinalOf(t, first) == CHOOSE f : FinalEqn(t, first, f)

\* What the first call tries.
Ends(t, i) ==
  /\ i >= 1
  /\ \/ e_silaba_final(t)
     \/ \E j \in 1 .. i : e_silaba_final(Ending(t, j)) /\ Whole(t, Len(t) - j)

LEMMA EndsIs ==
  ASSUME NEW t \in Seq(Chars), NEW i \in Nat, i <= Len(t), i # 0
  PROVE  Ends(t, i) <=>
           \/ e_silaba_final(t)
           \/ e_silaba_final(SubSeq(t, Len(t) - i + 1, Len(t)))
                /\ Silabas2Of(t)[<<Len(t) - i, Minimum(5, Len(t) - i)>>]
           \/ Ends(t, i - 1)
<1>1. Silabas2Of(t)[<<Len(t) - i, Minimum(5, Len(t) - i)>>] <=> Whole(t, Len(t) - i)
  <2> DEFINE n == Len(t) - i
             m == Minimum(5, n)
  <2>1. n \in 0 .. Len(t) /\ m \in 0 .. 5 /\ m <= n
    BY DEF Minimum
  <2> HIDE DEF n
  <2>2. <<n, m>> \in Calls2(t)
    <3> HIDE DEF m
    <3> QED BY <2>1, CallsAre, Zenon
  <2>3. Silabas2Of(t)[<<n, m>>] <=> Tried(t, <<n, m>>[1], <<n, m>>[2])
    <3> HIDE DEF m
    <3> QED BY <2>2, Silabas2Are, Zenon
  <2>4. Tried(t, n, m) <=> Whole(t, n)
    BY <2>1, TriedAll, Zenon
  <2>5. <<n, m>>[1] = n /\ <<n, m>>[2] = m
    OBVIOUS
  <2> HIDE DEF m
  <2>6. Silabas2Of(t)[<<n, m>>] <=> Whole(t, n)
    BY <2>3, <2>4, <2>5
  <2> QED BY <2>6 DEF n, m
<1>2. Ending(t, i) = SubSeq(t, Len(t) - i + 1, Len(t))
  BY DEF Ending
<1>3. i >= 1 /\ i \in 1 .. i /\ \A j \in 1 .. i - 1 : j \in 1 .. i
  OBVIOUS
<1>4. Ends(t, i) <=>
        \/ e_silaba_final(t)
        \/ \E j \in 1 .. i : e_silaba_final(Ending(t, j)) /\ Whole(t, Len(t) - j)
  BY <1>3 DEF Ends
<1>5. Ends(t, i - 1) => Ends(t, i)
  BY <1>3, <1>4 DEF Ends
<1>6. ASSUME NEW j \in 1 .. i, e_silaba_final(Ending(t, j)), Whole(t, Len(t) - j), j # i
      PROVE  Ends(t, i - 1)
  <2>1. i - 1 >= 1 /\ j \in 1 .. i - 1
    BY <1>6
  <2> QED BY <1>6, <2>1 DEF Ends
<1> QED BY <1>1, <1>2, <1>3, <1>4, <1>5, <1>6

LEMMA FinalExists ==
  ASSUME NEW t \in Seq(Chars), NEW first \in Nat, first <= Len(t)
  PROVE  FinalEqn(t, first, FinalOf(t, first))
<1> DEFINE h == [i \in 0 .. first |-> Ends(t, i)]
           body(i) == /\ i # 0
                      /\ \/ e_silaba_final(t)
                         \/ e_silaba_final(SubSeq(t, Len(t) - i + 1, Len(t)))
                              /\ Silabas2Of(t)[<<Len(t) - i, Minimum(5, Len(t) - i)>>]
                         \/ h[i - 1]
<1>1. ASSUME NEW i \in 0 .. first PROVE h[i] = body(i)
  <2>1. h[i] = Ends(t, i) /\ (i # 0 => h[i - 1] = Ends(t, i - 1))
    OBVIOUS
  <2>2. Ends(t, i) \in BOOLEAN
    BY DEF Ends
  <2> HIDE DEF h
  <2>3. CASE i = 0
    <3>1. ~Ends(t, i)
      BY <2>3 DEF Ends
    <3> QED BY <2>1, <2>2, <2>3, <3>1, Zenon
  <2>4. CASE i # 0
    <3>1. i \in Nat /\ i <= Len(t)
      OBVIOUS
    <3>2. Ends(t, i) <=> body(i)
      BY <2>1, <2>4, <3>1, EndsIs, Zenon
    <3> HIDE DEF body
    <3>3. body(i) \in BOOLEAN
      BY DEF body
    <3> QED BY <2>1, <2>2, <3>2, <3>3, Zenon
  <2> QED BY <2>3, <2>4
<1>2. h = [i \in 0 .. first |-> h[i]]
  OBVIOUS
<1> HIDE DEF h
<1>3. h = [i \in 0 .. first |-> body(i)]
  BY <1>1, <1>2
<1>4. FinalEqn(t, first, h)
  BY <1>3, Zenon DEF FinalEqn
<1> QED BY <1>4, Zenon DEF FinalOf

LEMMA FinalIs ==
  ASSUME NEW t \in Seq(Chars), NEW first \in Nat, first <= Len(t)
  PROVE  \A i \in 0 .. first : FinalOf(t, first)[i] <=> Ends(t, i)
<1> DEFINE f == FinalOf(t, first)
<1>1. FinalEqn(t, first, f)
  BY FinalExists, Zenon
<1> HIDE DEF f
<1>2. \A i \in 0 .. first :
        f[i] <=> /\ i # 0
                 /\ \/ e_silaba_final(t)
                    \/ e_silaba_final(SubSeq(t, Len(t) - i + 1, Len(t)))
                         /\ Silabas2Of(t)[<<Len(t) - i, Minimum(5, Len(t) - i)>>]
                    \/ f[i - 1]
  BY <1>1, Zenon DEF FinalEqn
<1> DEFINE S == {i \in Nat : i <= first => (f[i] <=> Ends(t, i))}
<1>3. 0 \in S
  <2>1. 0 \in 0 .. first /\ ~Ends(t, 0)
    BY DEF Ends
  <2> QED BY <1>2, <2>1
<1>4. ASSUME NEW i \in Nat, i \in S PROVE i + 1 \in S
  <2> SUFFICES ASSUME i + 1 <= first PROVE f[i + 1] <=> Ends(t, i + 1)
    OBVIOUS
  <2>1. i + 1 \in 0 .. first /\ i + 1 # 0 /\ (i + 1) - 1 = i /\ i + 1 \in Nat /\ i + 1 <= Len(t)
    OBVIOUS
  <2>2. f[i] <=> Ends(t, i)
    BY <1>4
  <2> DEFINE m == i + 1
  <2>3. m \in 0 .. first /\ m # 0 /\ m - 1 = i /\ m \in Nat /\ m <= Len(t)
    BY <2>1
  <2> HIDE DEF m, S
  <2>4. f[m] <=> Ends(t, m)
    BY <1>2, <2>2, <2>3, EndsIs, Zenon
  <2> QED BY <2>4 DEF m
<1>5. Nat \subseteq S
  <2> HIDE DEF S
  <2> QED BY <1>3, <1>4, NatInduct
<1> QED BY <1>5 DEF f

\* The versions call each other's syllables with one bound.
LEMMA VersionsAreOne ==
  ASSUME NEW t \in Seq(Chars)
  PROVE  e_palavra_aux_2(t, Minimum(5, Len(t))) <=> e_palavra_aux(t)
<1> DEFINE first == Minimum(5, Len(t))
<1>1. e_palavra_aux_2(t, first) <=> FinalOf(t, first)[first]
  BY DEF e_palavra_aux_2, FinalOf, FinalEqn, Silabas2Of, Silabas2Eqn, Calls2
<1>2. first \in Nat /\ first <= Len(t) /\ first \in 0 .. first /\ first = Minimum(Len(t), 5)
      /\ (first >= 1 <=> Len(t) >= 1)
  BY DEF Minimum
<1> HIDE DEF first
<1>3. FinalOf(t, first)[first] <=> Ends(t, first)
  BY <1>2, FinalIs, Zenon
<1>4. e_palavra_aux(t) <=>
        \/ e_silaba_final(t)
        \/ \E i \in 1 .. first : e_silaba_final(Ending(t, i)) /\ Whole(t, Len(t) - i)
  <2>1. e_palavra_aux(t) <=>
          \/ e_silaba_final(t)
          \/ \E i \in 1 .. first : e_silaba_final(Ending(t, i)) /\ SilabasOf(t)[Len(t) - i]
    BY <1>2 DEF e_palavra_aux, SilabasOf, SilabasEqn
  <2>2. \A i \in 1 .. first : Len(t) - i \in 0 .. Len(t)
    BY <1>2
  <2> QED BY <2>1, <2>2, SilabasAre
<1>5. e_silaba_final(t) => Len(t) >= 1
  BY SyllablesAre, SyllablesAreShort
<1>6. Ends(t, first) <=> e_palavra_aux(t)
  <2>1. (\E i \in 1 .. first : e_silaba_final(Ending(t, i)) /\ Whole(t, Len(t) - i)) => first >= 1
    BY <1>2
  <2> QED BY <1>2, <1>4, <1>5, <2>1, Zenon DEF Ends
<1> QED BY <1>1, <1>3, <1>6, Zenon DEF first

(***************************************************************************)
(* The teacher's recursion, from the front.                                *)
(***************************************************************************)
LEMMA FrontIs ==
  ASSUME NEW t \in Seq(Chars), NEW n \in 0 .. Len(t)
  PROVE  Cut(t, n, Len(t)) <=>
           \/ n = Len(t) \/ Teacher!silaba(Teacher!From(t, n))
           \/ \E i \in n + 1 .. Len(t) - 1 : Teacher!silaba(SubSeq(t, n + 1, i)) /\ Cut(t, i, Len(t))
<1> DEFINE L == Len(t)
<1>1. L \in Nat /\ n \in Nat /\ n \in 0 .. L /\ L \in 0 .. L /\ n <= L /\ L <= L
  OBVIOUS
<1>2. Teacher!silaba(Teacher!From(t, n)) <=> Piece(t, n, L)
  <2>1. Teacher!From(t, n) = SubSeq(t, n + 1, L)
    BY <1>1, EndsAre
  <2>2. Teacher!silaba(SubSeq(t, n + 1, L)) <=> Piece(t, n, L)
    BY <1>1, PieceIs, Zenon
  <2> QED BY <2>1, <2>2, Zenon
<1>3. ASSUME NEW i \in n + 1 .. L - 1 PROVE Teacher!silaba(SubSeq(t, n + 1, i)) <=> Piece(t, n, i)
  <2>1. i \in 0 .. L /\ n <= i
    BY <1>1
  <2> QED BY <1>1, <2>1, PieceIs, Zenon
<1>4. Cut(t, L, L)
  BY <1>1, CutEmpty
<1>5. CASE n = L
  BY <1>4, <1>5
<1>6. CASE n # L
  <2>1. ~Piece(t, L, L) /\ n < L /\ n + 1 .. L = (n + 1 .. L - 1) \union {L}
    <3>1. Piece(t, L, L) => L - L \in 1 .. 5
      BY <1>1, PieceIs, Zenon
    <3>2. n < L /\ n + 1 .. L = (n + 1 .. L - 1) \union {L}
      BY <1>1, <1>6
    <3> QED BY <1>1, <3>1, <3>2
  <2>2. Cut(t, n, L) <=> \E i \in n + 1 .. L : Piece(t, n, i) /\ Cut(t, i, L)
    BY <1>1, <2>1, CutFirst, Zenon
  <2>3. (\E i \in n + 1 .. L : Piece(t, n, i) /\ Cut(t, i, L)) <=>
          Piece(t, n, L) \/ \E i \in n + 1 .. L - 1 : Piece(t, n, i) /\ Cut(t, i, L)
    <3> HIDE DEF L
    <3> QED BY <1>4, <2>1
  <2> HIDE DEF L
  <2> QED BY <1>2, <1>3, <1>6, <2>2, <2>3, Zenon DEF L
<1> QED BY <1>5, <1>6

RestoEqn(t, f) ==
  f = [n \in 0 .. Len(t) |->
        \/ n = Len(t) \/ Teacher!silaba(Teacher!From(t, n))
        \/ \E i \in n + 1 .. Len(t) - 1 : Teacher!silaba(SubSeq(t, n + 1, i)) /\ f[i]]
RestoOf(t) == CHOOSE f : RestoEqn(t, f)

LEMMA RestoExists ==
  ASSUME NEW t \in Seq(Chars)
  PROVE  RestoEqn(t, RestoOf(t))
<1> DEFINE h == [n \in 0 .. Len(t) |-> Cut(t, n, Len(t))]
           body(n) == \/ n = Len(t) \/ Teacher!silaba(Teacher!From(t, n))
                      \/ \E i \in n + 1 .. Len(t) - 1 : Teacher!silaba(SubSeq(t, n + 1, i)) /\ h[i]
<1>1. ASSUME NEW n \in 0 .. Len(t) PROVE h[n] = body(n)
  <2>1. \A i \in n + 1 .. Len(t) - 1 : i \in 0 .. Len(t)
    OBVIOUS
  <2>2. \A i \in n + 1 .. Len(t) - 1 : h[i] <=> Cut(t, i, Len(t))
    BY <2>1
  <2>3. h[n] = Cut(t, n, Len(t))
    OBVIOUS
  <2> HIDE DEF h
  <2>4. Cut(t, n, Len(t)) <=> body(n)
    BY <2>2, FrontIs, Zenon
  <2>5. Cut(t, n, Len(t)) \in BOOLEAN
    BY DEF Cut
  <2> HIDE DEF body
  <2>6. body(n) \in BOOLEAN
    BY DEF body
  <2> QED BY <2>3, <2>4, <2>5, <2>6, Zenon
<1>2. h = [n \in 0 .. Len(t) |-> h[n]]
  OBVIOUS
<1> HIDE DEF h
<1>3. h = [n \in 0 .. Len(t) |-> body(n)]
  BY <1>1, <1>2
<1>4. RestoEqn(t, h)
  BY <1>3, Zenon DEF RestoEqn
<1> QED BY <1>4, Zenon DEF RestoOf

LEMMA RestoIs ==
  ASSUME NEW t \in Seq(Chars)
  PROVE  \A n \in 0 .. Len(t) : RestoOf(t)[n] <=> Cut(t, n, Len(t))
<1> DEFINE f == RestoOf(t)
<1>1. RestoEqn(t, f)
  BY RestoExists, Zenon
<1> HIDE DEF f
<1>2. \A n \in 0 .. Len(t) :
        f[n] <=> \/ n = Len(t) \/ Teacher!silaba(Teacher!From(t, n))
                 \/ \E i \in n + 1 .. Len(t) - 1 : Teacher!silaba(SubSeq(t, n + 1, i)) /\ f[i]
  BY <1>1, Zenon DEF RestoEqn
<1> DEFINE B == {n \in 0 .. Len(t) : ~(f[n] <=> Cut(t, n, Len(t)))}
<1>3. B = {}
  <2> SUFFICES ASSUME B # {} PROVE FALSE
    OBVIOUS
  <2>1. 0 \in Nat /\ Len(t) \in Nat /\ B \in SUBSET (0 .. Len(t))
    OBVIOUS
  <2>2. PICK n \in B : \A m \in B : m <= n
    <3> HIDE DEF B
    <3> QED BY <2>1, GreatestNumber, Zenon
  <2>3. n \in 0 .. Len(t)
    OBVIOUS
  <2>4. \A i \in n + 1 .. Len(t) - 1 : f[i] <=> Cut(t, i, Len(t))
    <3>1. \A i \in n + 1 .. Len(t) - 1 : i \in 0 .. Len(t) /\ i > n
      BY <2>3
    <3>2. \A i \in n + 1 .. Len(t) - 1 : i \notin B
      <4> HIDE DEF B
      <4> QED BY <2>1, <2>2, <3>1
    <3> QED BY <3>1, <3>2
  <2>5. f[n] <=> Cut(t, n, Len(t))
    <3> HIDE DEF B
    <3> QED BY <1>2, <2>3, <2>4, FrontIs, Zenon
  <2> QED BY <2>5
<1> QED BY <1>3 DEF f

\* It takes what can be cut.
LEMMA AuxiliarIs ==
  ASSUME NEW t \in Seq(Chars)
  PROVE  Teacher!palavra_auxilar(t) <=> Cut(t, 0, Len(t))
<1>1. Teacher!palavra_auxilar(t) <=> RestoOf(t)[0]
  BY DEF Teacher!palavra_auxilar, RestoOf, RestoEqn
<1>2. 0 \in 0 .. Len(t)
  OBVIOUS
<1> QED BY <1>1, <1>2, RestoIs, Zenon

\* What is in front of a place is cut as it is in the string.
LEMMA FrontOf ==
  ASSUME NEW t \in Seq(Chars), NEW k \in 0 .. Len(t)
  PROVE  /\ SubSeq(t, 1, k) \in Seq(Chars)
         /\ Cut(SubSeq(t, 1, k), 0, Len(SubSeq(t, 1, k))) <=> Cut(t, 0, k)
<1> DEFINE u == SubSeq(t, 1, k)
<1>1. u \in Seq(Chars) /\ Len(u) = k /\ k \in 0 .. Len(u)
  OBVIOUS
<1>2. Language!Silabas(u) <=> Cut(t, 0, k)
  BY SilabasIs
<1> HIDE DEF u
<1>3. SubSeq(u, 1, k) = u
  BY <1>1, SubSeqFull
<1>4. Language!Silabas(u) <=> Cut(u, 0, k)
  <2>1. Language!Silabas(SubSeq(u, 1, k)) <=> Cut(u, 0, k)
    BY <1>1, SilabasIs, Zenon
  <2> QED BY <1>3, <2>1
<1>5. u \in Seq(Chars) /\ (Cut(u, 0, Len(u)) <=> Cut(t, 0, k))
  BY <1>1, <1>2, <1>4
<1> QED BY <1>5 DEF u

\* The loop over the last syllable: of a short string it starts in front of it,
\* where it looks at a place counted from the end, or at the whole.
LEMMA TeacherLoopIs ==
  ASSUME NEW t \in Seq(Chars)
  PROVE  (\/ Teacher!silaba_final(t)
          \/ \E i \in Len(t) - 5 .. Len(t) - 2 :
               Teacher!silaba_final(Teacher!From(t, i)) /\ Teacher!palavra_auxilar(Teacher!Upto(t, i)))
         <=> \E k \in 0 .. Len(t) : SubSeq(t, k + 1, Len(t)) \in Language!silaba_final /\ Cut(t, 0, k)
<1> DEFINE L == Len(t)
           final(k) == SubSeq(t, k + 1, L) \in Language!silaba_final
           loop(i) == Teacher!silaba_final(Teacher!From(t, i)) /\ Teacher!palavra_auxilar(Teacher!Upto(t, i))
<1>1. L \in Nat
  OBVIOUS
<1>2. ASSUME NEW k \in 0 .. L
      PROVE  /\ final(k) => L - k \in 2 .. 5
             /\ Teacher!silaba_final(SubSeq(t, k + 1, L)) <=> final(k)
             /\ Teacher!palavra_auxilar(SubSeq(t, 1, k)) <=> Cut(t, 0, k)
  <2>1. SubSeq(t, k + 1, L) \in Seq(Chars) /\ Len(SubSeq(t, k + 1, L)) = L - k
    OBVIOUS
  <2>2. final(k) => L - k \in 2 .. 5
    BY <2>1, SyllablesAreShort
  <2>3. Teacher!silaba_final(SubSeq(t, k + 1, L)) <=> final(k)
    BY <2>1, SyllablesAre, Zenon
  <2>4. Teacher!palavra_auxilar(SubSeq(t, 1, k)) <=> Cut(t, 0, k)
    BY FrontOf, AuxiliarIs, Zenon
  <2> QED BY <2>2, <2>3, <2>4
<1>3. ASSUME NEW i \in L - 5 .. L - 2
      PROVE  \E k \in 0 .. L : Teacher!From(t, i) = SubSeq(t, k + 1, L) /\ Teacher!Upto(t, i) = SubSeq(t, 1, k)
  <2> DEFINE k == Teacher!Position(t, i)
  <2>1. k \in 0 .. L
    BY <1>1 DEF Teacher!Position
  <2>2. Teacher!From(t, i) = SubSeq(t, k + 1, L) /\ Teacher!Upto(t, i) = SubSeq(t, 1, k)
    BY DEF Teacher!From, Teacher!Upto
  <2> QED BY <2>1, <2>2
<1>4. ASSUME NEW i \in L - 5 .. L - 2, loop(i) PROVE \E k \in 0 .. L : final(k) /\ Cut(t, 0, k)
  <2>1. PICK k \in 0 .. L : Teacher!From(t, i) = SubSeq(t, k + 1, L) /\ Teacher!Upto(t, i) = SubSeq(t, 1, k)
    BY <1>3
  <2>2. Teacher!silaba_final(SubSeq(t, k + 1, L)) /\ Teacher!palavra_auxilar(SubSeq(t, 1, k))
    BY <1>4, <2>1
  <2> HIDE DEF final
  <2> QED BY <1>2, <2>2
<1>5. Teacher!silaba_final(t) <=> final(0)
  <2>1. SubSeq(t, 0 + 1, L) = t
    BY SubSeqFull
  <2> QED BY <2>1, SyllablesAre
<1>6. ASSUME NEW k \in 0 .. L, final(k), Cut(t, 0, k)
      PROVE  k \in L - 5 .. L - 2 /\ loop(k)
  <2>1. k \in L - 5 .. L - 2 /\ k \in Nat /\ k <= L
    BY <1>1, <1>2, <1>6
  <2>2. Teacher!From(t, k) = SubSeq(t, k + 1, L) /\ Teacher!Upto(t, k) = SubSeq(t, 1, k)
    BY <2>1, EndsAre
  <2>3. Teacher!silaba_final(SubSeq(t, k + 1, L)) /\ Teacher!palavra_auxilar(SubSeq(t, 1, k))
    BY <1>2, <1>6
  <2> QED BY <2>1, <2>2, <2>3
<1>7. Cut(t, 0, 0) /\ 0 \in 0 .. L
  BY <1>1, CutEmpty
<1> HIDE DEF final, loop
<1>8. (Teacher!silaba_final(t) \/ \E i \in L - 5 .. L - 2 : loop(i))
      <=> \E k \in 0 .. L : final(k) /\ Cut(t, 0, k)
  BY <1>4, <1>5, <1>6, <1>7, Zenon
<1> QED BY <1>8, Zenon DEF final, loop

\* The three recognisers are right about every string.
THEOREM GrammarIsRecognised == texto \in Seq(STRING) => RecognisersAreRight
<1> SUFFICES ASSUME texto \in Seq(STRING) PROVE RecognisersAreRight
  OBVIOUS
<1>1. texto \in Seq(Chars)
  <2>1. ASSUME NEW S, NEW T, S \subseteq T PROVE Seq(S) \subseteq Seq(T)
    BY <2>1
  <2>2. STRING \subseteq Chars
    BY DEF Chars
  <2>3. Seq(STRING) \subseteq Seq(Chars)
    <3> HIDE DEF Chars
    <3> QED BY <2>1, <2>2, Zenon
  <2> QED BY <2>3, Zenon
<1>2. /\ e_silaba(texto) <=> texto \in Language!silaba
      /\ Teacher!silaba(texto) <=> texto \in Language!silaba
      /\ e_monossilabo(texto) <=> texto \in Language!monossilabo
      /\ Teacher!monossilabo(texto) <=> texto \in Language!monossilabo
  BY <1>1, SyllablesAre, Zenon
<1>3. e_palavra(texto) <=> Language!palavra(texto)
  BY <1>1, <1>2, StudentAuxIs, WordIs, Zenon DEF e_palavra
<1>4. Teacher!palavra(texto) <=> Language!palavra(texto)
  <2>1. Teacher!palavra(texto) <=>
          \/ Teacher!monossilabo(texto)
          \/ (\/ Teacher!silaba_final(texto)
              \/ \E i \in Len(texto) - 5 .. Len(texto) - 2 :
                   Teacher!silaba_final(Teacher!From(texto, i)) /\ Teacher!palavra_auxilar(Teacher!Upto(texto, i)))
    BY Zenon DEF Teacher!palavra
  <2> QED BY <1>1, <1>2, <2>1, TeacherLoopIs, WordIs, Zenon
<1>5. e_palavra_2(texto) <=> e_palavra(texto)
  BY <1>1, VersionsAreOne, Zenon DEF e_palavra_2, e_palavra
<1>6. StudentIsRight
  BY <1>2, <1>3, Zenon DEF StudentIsRight
<1>7. TeacherIsRight
  BY <1>2, <1>4, Zenon DEF TeacherIsRight, Teacher!e_silaba, Teacher!e_monossilabo, Teacher!e_palavra
<1> QED BY <1>5, <1>6, <1>7, Zenon DEF RecognisersAreRight, VersionsAgree
===============================================================================
