-------------------------- MODULE SearchProblemProofs --------------------------
(***************************************************************************)
(* For every map, every number of agents, any tickets and limits: the      *)
(* tables are distances, A* expands in order, what it returns is a         *)
(* shortest way, it returns nothing only if there is none, and the checker *)
(* of the script agrees.                                                   *)
(***************************************************************************)
EXTENDS SearchProblem, FiniteSetTheorems, TLAPS

(***************************************************************************)
(* Induction over numbers, and functions defined by recursion, stated with *)
(* sets and functions only, so that the provers can use them.              *)
(***************************************************************************)

\* A nonempty set of numbers has a least element.
LEMMA LeastNumber ==
  ASSUME NEW B \in SUBSET Nat, B # {}
  PROVE  \E m \in B : \A k \in B : m <= k
<1> DEFINE upto(n) == 1 .. n
           T == {upto(n) : n \in B}
           R == StrictSubsetOrdering(Nat)
<1>1. T \subseteq FiniteSubsetsOf(Nat)
  <2>1. \A n \in B : IsFiniteSet(upto(n)) /\ upto(n) \in SUBSET Nat
    BY FS_Interval
  <2> QED BY <2>1 DEF FiniteSubsetsOf
<1>2. T # {}
  OBVIOUS
<1>3. \E x \in T : \A y \in T : <<y, x>> \notin R
  <2> HIDE DEF T, R
  <2>1. IsWellFoundedOn(R, FiniteSubsetsOf(Nat))
    BY FS_StrictSubsetOrderingWellFounded DEF R
  <2> QED BY <1>1, <1>2, <2>1, WFMin
<1>4. PICK m \in B : \A k \in B : <<upto(k), upto(m)>> \notin R
  BY <1>3
<1>5. ASSUME NEW k \in B, k < m PROVE FALSE
  <2>1. upto(k) \subseteq upto(m) /\ upto(k) # upto(m)
    BY <1>5
  <2>2. <<upto(k), upto(m)>> \in R
    BY <1>5, <2>1 DEF StrictSubsetOrdering
  <2> QED BY <1>4, <2>2
<1> QED BY <1>5

\* Induction, over the set of the numbers that have the property.
LEMMA NatInduct ==
  ASSUME NEW S, 0 \in S, \A n \in Nat : n \in S => n + 1 \in S
  PROVE  Nat \subseteq S
<1> DEFINE B == Nat \ S
<1> SUFFICES ASSUME B # {} PROVE FALSE
  OBVIOUS
<1>1. PICK m \in B : \A k \in B : m <= k
  BY LeastNumber
<1>2. m # 0 /\ m - 1 \in Nat /\ m - 1 \notin B
  BY <1>1
<1> QED BY <1>1, <1>2

\* Recursed(A, a, F): the function that starts with a and goes on as F says.
Recurses(A, a, F, f) ==
  f \in [Nat -> A] /\ f[0] = a /\ \A n \in Nat : f[n + 1] = F[n][f[n]]
Recursed(A, a, F) == CHOOSE f \in [Nat -> A] : Recurses(A, a, F, f)

\* There is one: what a recursive definition over Nat says of its function is
\* said of a function that exists.
LEMMA Recursion ==
  ASSUME NEW A, NEW a \in A, NEW F \in [Nat -> [A -> A]]
  PROVE  Recurses(A, a, F, Recursed(A, a, F))
<1> DEFINE Good(n, f) == /\ f \in [0 .. n -> A] /\ f[0] = a
                         /\ \A k \in 1 .. n : f[k] = F[k - 1][f[k - 1]]
           E == {n \in Nat : \E f \in [0 .. n -> A] : Good(n, f)}
<1>1. 0 \in E
  <2>1. Good(0, [k \in 0 .. 0 |-> a])
    OBVIOUS
  <2> QED BY <2>1
<1>2. ASSUME NEW n \in Nat, n \in E PROVE n + 1 \in E
  <2>1. PICK f \in [0 .. n -> A] : Good(n, f)
    BY <1>2
  <2>2. n \in 0 .. n /\ 0 \in 0 .. n /\ F[n][f[n]] \in A
    BY <2>1
  <2> DEFINE g == [k \in 0 .. n + 1 |-> IF k = n + 1 THEN F[n][f[n]] ELSE f[k]]
  <2>3. /\ g \in [0 .. n + 1 -> A] /\ g[n + 1] = F[n][f[n]]
        /\ \A k \in 0 .. n : g[k] = f[k]
    BY <2>2
  <2> HIDE DEF g
  <2>4. ASSUME NEW k \in 1 .. n + 1 PROVE g[k] = F[k - 1][g[k - 1]]
    <3>1. k - 1 \in 0 .. n /\ g[k - 1] = f[k - 1]
      BY <2>3
    <3>2. CASE k = n + 1
      <4>1. k - 1 = n
        BY <3>2
      <4> QED BY <2>3, <3>1, <3>2, <4>1
    <3>3. CASE k # n + 1
      <4>1. k \in 1 .. n /\ k \in 0 .. n
        BY <3>3
      <4> QED BY <2>1, <2>3, <3>1, <4>1
    <3> QED BY <3>2, <3>3
  <2>5. Good(n + 1, g)
    BY <2>1, <2>2, <2>3, <2>4
  <2> QED BY <2>3, <2>5
<1>3. Nat \subseteq E
  <2> HIDE DEF E
  <2> QED BY <1>1, <1>2, NatInduct
<1> DEFINE G == [n \in Nat |-> CHOOSE f \in [0 .. n -> A] : Good(n, f)]
<1>4. \A n \in Nat : Good(n, G[n])
  BY <1>3
<1> HIDE DEF G, E
<1>5. \A n \in Nat : \A k \in 0 .. n : G[n + 1][k] = G[n][k]
  <2> SUFFICES ASSUME NEW n \in Nat PROVE \A k \in 0 .. n : G[n + 1][k] = G[n][k]
    OBVIOUS
  <2> DEFINE S == {k \in Nat : k <= n => G[n + 1][k] = G[n][k]}
  <2>1. 0 \in S
    BY <1>4
  <2>2. ASSUME NEW k \in Nat, k \in S PROVE k + 1 \in S
    <3>1. CASE k + 1 <= n
      <4>1. G[n + 1][k] = G[n][k]
        BY <2>2, <3>1
      <4>2. G[n + 1][k + 1] = F[k][G[n + 1][k]] /\ G[n][k + 1] = F[k][G[n][k]]
        <5>1. k + 1 \in 1 .. n + 1 /\ k + 1 \in 1 .. n /\ (k + 1) - 1 = k
          BY <3>1
        <5> QED BY <1>4, <5>1
      <4> QED BY <4>1, <4>2
    <3> QED BY <3>1
  <2>3. Nat \subseteq S
    <3> HIDE DEF S
    <3> QED BY <2>1, <2>2, NatInduct
  <2> QED BY <2>3
<1> DEFINE h == [n \in Nat |-> G[n][n]]
<1>6. h \in [Nat -> A] /\ h[0] = a
  BY <1>4
<1>7. ASSUME NEW n \in Nat PROVE h[n + 1] = F[n][h[n]]
  <2>1. G[n + 1][n + 1] = F[n][G[n + 1][n]]
    <3>1. n + 1 \in 1 .. n + 1 /\ (n + 1) - 1 = n
      OBVIOUS
    <3> QED BY <1>4, <3>1
  <2>2. G[n + 1][n] = G[n][n]
    BY <1>5
  <2> QED BY <2>1, <2>2
<1>8. Recurses(A, a, F, h)
  <2> HIDE DEF h
  <2> QED BY <1>6, <1>7 DEF Recurses
<1>9. \E f \in [Nat -> A] : Recurses(A, a, F, f)
  <2> HIDE DEF h
  <2> QED BY <1>6, <1>8
<1> QED BY <1>9, Zenon DEF Recursed

\* The same up to a bound.
LEMMA BoundedInduct ==
  ASSUME NEW n \in Nat, NEW S, 0 \in S, \A i \in 1 .. n : i - 1 \in S => i \in S
  PROVE  0 .. n \subseteq S
<1> DEFINE T == {k \in Nat : k <= n => k \in S}
<1>1. ASSUME NEW k \in Nat, k \in T PROVE k + 1 \in T
  <2>1. CASE k + 1 <= n
    <3>1. k + 1 \in 1 .. n /\ (k + 1) - 1 = k /\ k \in S
      BY <1>1, <2>1
    <3> QED BY <3>1
  <2> QED BY <2>1
<1>2. 0 \in T
  OBVIOUS
<1>3. Nat \subseteq T
  <2> HIDE DEF T
  <2> QED BY <1>1, <1>2, NatInduct
<1> QED BY <1>3
\* A function defined by recursion up to a bound.
RecursesTo(N, A, a, F, f) ==
  f \in [0 .. N -> A] /\ f[0] = a /\ \A k \in 1 .. N : f[k] = F[k][f[k - 1]]

LEMMA BoundedRecursion ==
  ASSUME NEW N \in Nat, NEW A, NEW a \in A, NEW F \in [1 .. N -> [A -> A]]
  PROVE  \E f : RecursesTo(N, A, a, F, f)
<1> DEFINE G == [k \in Nat |-> IF k < N THEN F[k + 1] ELSE [x \in A |-> x]]
           h == Recursed(A, a, G)
           f == [k \in 0 .. N |-> h[k]]
<1>1. G \in [Nat -> [A -> A]]
  <2>1. ASSUME NEW k \in Nat, k < N PROVE F[k + 1] \in [A -> A]
    <3>1. k + 1 \in 1 .. N
      BY <2>1
    <3> QED BY <3>1
  <2>2. [x \in A |-> x] \in [A -> A]
    OBVIOUS
  <2> QED BY <2>1, <2>2
<1>2. \A k \in 1 .. N : k - 1 \in Nat /\ (k - 1) + 1 = k /\ G[k - 1] = F[k]
  <2> SUFFICES ASSUME NEW k \in 1 .. N PROVE k - 1 \in Nat /\ (k - 1) + 1 = k /\ G[k - 1] = F[k]
    OBVIOUS
  <2>1. k - 1 \in Nat /\ (k - 1) + 1 = k /\ k - 1 < N
    OBVIOUS
  <2> QED BY <2>1
<1> HIDE DEF G
<1>3. Recurses(A, a, G, h)
  BY <1>1, Recursion
<1> HIDE DEF h
<1>4. h \in [Nat -> A] /\ h[0] = a /\ \A n \in Nat : h[n + 1] = G[n][h[n]]
  BY <1>3 DEF Recurses
<1>5. f \in [0 .. N -> A] /\ f[0] = a
  BY <1>4
<1>6. ASSUME NEW k \in 1 .. N PROVE f[k] = F[k][f[k - 1]]
  <2>1. f[k] = h[k] /\ f[k - 1] = h[k - 1]
    BY <1>4
  <2>2. h[k] = G[k - 1][h[k - 1]]
    BY <1>2, <1>4
  <2> QED BY <1>2, <2>1, <2>2
<1>7. RecursesTo(N, A, a, F, f)
  <2> HIDE DEF f
  <2> QED BY <1>5, <1>6 DEF RecursesTo
<1> QED BY <1>7

-------------------------------------------------------------------------------
(***************************************************************************)
(* The map.                                                                *)
(***************************************************************************)
Edge(n, m) == \E i \in DOMAIN Model[n] : Model[n][i][2] = m

LEMMA EdgeIs ==
  ASSUME NEW n \in Nodes
  PROVE  /\ Model[n] \in Seq(Transports \X Nodes) /\ Len(Model[n]) \in Nat
         /\ DOMAIN Model[n] = 1 .. Len(Model[n])
         /\ \A i \in DOMAIN Model[n] :
              /\ Model[n][i] = <<Model[n][i][1], Model[n][i][2]>>
              /\ Model[n][i][1] \in Transports /\ Model[n][i][2] \in Nodes
<1>1. Model[n] \in Seq(Transports \X Nodes)
  BY ModelAssumption
<1>2. Len(Model[n]) \in Nat /\ DOMAIN Model[n] = 1 .. Len(Model[n])
      /\ \A i \in DOMAIN Model[n] : Model[n][i] \in Transports \X Nodes
  BY <1>1
<1> QED BY <1>1, <1>2

LEMMA EdgeSymmetric ==
  ASSUME NEW n \in Nodes, NEW m \in Nodes, Edge(n, m)
  PROVE  Edge(m, n)
<1>1. PICK i \in DOMAIN Model[n] : Model[n][i][2] = m
  BY DEF Edge
<1>2. Model[n][i] = <<Model[n][i][1], m>> /\ Model[n][i][1] \in Transports
  BY <1>1, EdgeIs
<1> DEFINE t == Model[n][i][1]
<1> HIDE DEF t
<1>3. <<t, m>> \in ToSet(Model[n])
  BY <1>2 DEF ToSet, t
<1>4. <<t, n>> \in ToSet(Model[m])
  BY <1>2, <1>3, ModelAssumption DEF t
<1>5. PICK j \in DOMAIN Model[m] : Model[m][j] = <<t, n>>
  BY <1>4 DEF ToSet
<1> QED BY <1>5 DEF Edge

\* The distances to g, said locally: they go down to g one by one, and no move
\* makes a difference of more than one.
Distances(T, g) ==
  /\ g \in Nodes /\ T \in [Nodes -> Nat]
  /\ T[g] = 0 /\ \A n \in Nodes : T[n] = 0 => n = g
  /\ \A n, m \in Nodes : Edge(n, m) => T[n] <= T[m] + 1
  /\ \A n \in Nodes \ {g} : \E m \in Nodes : Edge(n, m) /\ T[n] = T[m] + 1

(***************************************************************************)
(* Breadth-first search.                                                   *)
(***************************************************************************)
FreshEqn(table, n, f) ==
  f = [k \in 0 .. Len(Model[n]) |->
         IF k = 0 THEN <<>>
         ELSE LET m      == Model[n][k][2]
                  so_far == f[k - 1]
              IN IF m \in DOMAIN table \union ToSet(so_far) THEN so_far ELSE Append(so_far, m)]

FreshOf(table, n) == CHOOSE f : FreshEqn(table, n, f)

\* One place more, unless it is there.
Noted(table, s, m) == IF m \in DOMAIN table \union ToSet(s) THEN s ELSE Append(s, m)

LEMMA FreshIs ==
  ASSUME NEW table, NEW n \in Nodes
  PROVE  /\ Fresh(table, n) = FreshOf(table, n)[Len(Model[n])]
         /\ FreshOf(table, n)[0] = <<>>
         /\ FreshOf(table, n) \in [0 .. Len(Model[n]) -> Seq(Nodes)]
         /\ \A k \in 1 .. Len(Model[n]) :
              FreshOf(table, n)[k] = Noted(table, FreshOf(table, n)[k - 1], Model[n][k][2])
<1> DEFINE N == Len(Model[n])
           F == [k \in 1 .. N |-> [s \in Seq(Nodes) |-> Noted(table, s, Model[n][k][2])]]
<1>1. N \in Nat /\ DOMAIN Model[n] = 1 .. N /\ \A k \in 1 .. N : Model[n][k][2] \in Nodes
  BY EdgeIs
<1> HIDE DEF N
<1>2. F \in [1 .. N -> [Seq(Nodes) -> Seq(Nodes)]]
  BY <1>1 DEF Noted
<1>3. \A k \in 1 .. N : \A s \in Seq(Nodes) : F[k][s] = Noted(table, s, Model[n][k][2])
  OBVIOUS
<1> HIDE DEF F
<1>4. PICK f \in [0 .. N -> Seq(Nodes)] :
        f[0] = <<>> /\ \A k \in 1 .. N : f[k] = F[k][f[k - 1]]
  <2>1. <<>> \in Seq(Nodes)
    OBVIOUS
  <2>2. \E f : RecursesTo(N, Seq(Nodes), <<>>, F, f)
    BY <1>1, <1>2, <2>1, BoundedRecursion
  <2> QED BY <2>2 DEF RecursesTo
<1>5. \A k \in 1 .. N : k - 1 \in 0 .. N /\ f[k - 1] \in Seq(Nodes)
  BY <1>1
<1>6. \A k \in 1 .. N : f[k] = Noted(table, f[k - 1], Model[n][k][2])
  BY <1>3, <1>4, <1>5
<1>7. FreshEqn(table, n, f)
  <2>1. f = [k \in 0 .. N |-> IF k = 0 THEN <<>> ELSE Noted(table, f[k - 1], Model[n][k][2])]
    <3>1. \A k \in 0 .. N : f[k] = IF k = 0 THEN <<>> ELSE Noted(table, f[k - 1], Model[n][k][2])
      BY <1>1, <1>4, <1>6
    <3>2. f = [k \in 0 .. N |-> f[k]]
      OBVIOUS
    <3> QED BY <3>1, <3>2
  <2> QED BY <2>1 DEF FreshEqn, Noted, N
<1>8. FreshEqn(table, n, FreshOf(table, n))
  BY <1>7 DEF FreshOf
<1>9. FreshOf(table, n) = f
  <2> DEFINE h == FreshOf(table, n)
             S == {k \in 0 .. N : h[k] = f[k]}
  <2> HIDE DEF h
  <2>1. h = [k \in 0 .. N |-> IF k = 0 THEN <<>> ELSE Noted(table, h[k - 1], Model[n][k][2])]
    BY <1>8 DEF FreshEqn, Noted, N, h
  <2>2. h[0] = <<>> /\ \A k \in 1 .. N : h[k] = Noted(table, h[k - 1], Model[n][k][2])
    <3>1. \A k \in 0 .. N : h[k] = IF k = 0 THEN <<>> ELSE Noted(table, h[k - 1], Model[n][k][2])
      BY <2>1
    <3>2. 0 \in 0 .. N /\ \A k \in 1 .. N : k \in 0 .. N /\ k # 0
      BY <1>1
    <3> QED BY <3>1, <3>2
  <2>3. 0 \in S
    BY <1>1, <1>4, <2>2
  <2>4. \A k \in 1 .. N : k - 1 \in S => k \in S
    BY <1>1, <1>6, <2>2
  <2> HIDE DEF S
  <2>5. 0 .. N \subseteq S
    BY <1>1, <2>3, <2>4, BoundedInduct
  <2>6. \A k \in 0 .. N : h[k] = f[k]
    BY <2>5 DEF S
  <2>7. h = [k \in 0 .. N |-> h[k]]
    BY <2>1
  <2> QED BY <2>6, <2>7 DEF h
<1>10. Fresh(table, n) = FreshOf(table, n)[N]
  BY DEF Fresh, FreshOf, FreshEqn, N
<1> QED BY <1>1, <1>4, <1>6, <1>9, <1>10 DEF N

\* The places beside n that the table lacks.
LEMMA FreshFacts ==
  ASSUME NEW table, NEW n \in Nodes
  PROVE  /\ Fresh(table, n) \in Seq(Nodes)
         /\ ToSet(Fresh(table, n)) = {m \in Nodes : Edge(n, m) /\ m \notin DOMAIN table}
<1> DEFINE N == Len(Model[n])
           f == FreshOf(table, n)
           M(k) == {Model[n][i][2] : i \in 1 .. k}
           S == {k \in 0 .. N : ToSet(f[k]) = M(k) \ DOMAIN table}
<1>1. N \in Nat /\ DOMAIN Model[n] = 1 .. N /\ \A k \in 1 .. N : Model[n][k][2] \in Nodes
  BY EdgeIs
<1>2. /\ Fresh(table, n) = f[N] /\ f[0] = <<>> /\ f \in [0 .. N -> Seq(Nodes)]
      /\ \A k \in 1 .. N : f[k] = Noted(table, f[k - 1], Model[n][k][2])
  BY FreshIs
<1>3. M(N) = {m \in Nodes : Edge(n, m)}
  BY <1>1 DEF Edge
<1> HIDE DEF N, f
<1>4. 0 \in S
  BY <1>1, <1>2 DEF ToSet
<1>5. ASSUME NEW k \in 1 .. N, k - 1 \in S PROVE k \in S
  <2>1. f[k - 1] \in Seq(Nodes) /\ Model[n][k][2] \in Nodes
    BY <1>1, <1>2
  <2>2. ToSet(f[k]) = (ToSet(f[k - 1]) \union {Model[n][k][2]}) \ DOMAIN table
    <3>1. ToSet(f[k - 1]) = M(k - 1) \ DOMAIN table
      BY <1>5
    <3>2. \A s \in Seq(Nodes), m \in Nodes : ToSet(Append(s, m)) = ToSet(s) \union {m}
      <4> SUFFICES ASSUME NEW s \in Seq(Nodes), NEW m \in Nodes
                   PROVE  ToSet(Append(s, m)) = ToSet(s) \union {m}
        OBVIOUS
      <4>1. /\ Len(Append(s, m)) = Len(s) + 1 /\ Append(s, m)[Len(s) + 1] = m /\ Len(s) \in Nat
            /\ \A i \in 1 .. Len(s) : Append(s, m)[i] = s[i]
        OBVIOUS
      <4>2. DOMAIN s = 1 .. Len(s) /\ DOMAIN Append(s, m) = 1 .. Len(s) + 1
        OBVIOUS
      <4> QED BY <4>1, <4>2 DEF ToSet
    <3> HIDE DEF M
    <3> QED BY <1>2, <2>1, <3>1, <3>2 DEF Noted
  <2>3. M(k) = M(k - 1) \union {Model[n][k][2]}
    BY <1>1
  <2> HIDE DEF M
  <2> QED BY <1>5, <2>2, <2>3
<1>6. N \in S
  <2> HIDE DEF S
  <2>1. 0 .. N \subseteq S
    BY <1>1, <1>4, <1>5, BoundedInduct
  <2> QED BY <1>1, <2>1
<1> QED BY <1>1, <1>2, <1>3, <1>6

\* What bfs has done of the table for g: it has the distances of the places it
\* has come to, those in the queue are the farthest, and of the others all places
\* beside them are in the table.
Wave(T, q, g) ==
  /\ g \in Nodes /\ DOMAIN T \subseteq Nodes /\ T \in [DOMAIN T -> Nat]
  /\ g \in DOMAIN T /\ T[g] = 0 /\ \A n \in DOMAIN T : T[n] = 0 => n = g
  /\ \A n \in DOMAIN T \ {g} : \E m \in DOMAIN T : Edge(n, m) /\ T[n] = T[m] + 1
  /\ q \in Seq(Nodes \X Nat)
  /\ \A k \in 1 .. Len(q) : q[k][1] \in DOMAIN T /\ T[q[k][1]] = q[k][2]
  /\ \A j, k \in 1 .. Len(q) : j <= k => q[j][2] <= q[k][2]
  /\ q # <<>> => \A n \in DOMAIN T : T[n] <= q[1][2] + 1
  /\ \A n \in DOMAIN T :
       \/ \E k \in 1 .. Len(q) : q[k][1] = n
       \/ \A m \in Nodes : Edge(n, m) => m \in DOMAIN T /\ T[m] <= T[n] + 1

LEMMA WaveStarts ==
  ASSUME NEW g \in Nodes
  PROVE  Wave([n \in {g} |-> 0], <<<<g, 0>>>>, g)
<1> DEFINE T == [n \in {g} |-> 0]
           q == <<<<g, 0>>>>
<1>1. DOMAIN T = {g} /\ T[g] = 0
  OBVIOUS
<1>2. q \in Seq(Nodes \X Nat) /\ Len(q) = 1 /\ q[1] = <<g, 0>> /\ q # <<>>
  OBVIOUS
<1>3. T \in [DOMAIN T -> Nat]
  OBVIOUS
<1> HIDE DEF T, q
<1>4. q[1][1] = g /\ q[1][2] = 0 /\ 1 .. Len(q) = {1}
  BY <1>2
<1> QED BY <1>1, <1>2, <1>3, <1>4 DEF Wave, T, q

LEMMA WaveEnds ==
  ASSUME NEW T, NEW g, Wave(T, <<>>, g)
  PROVE  Distances(T, g)
<1>1. \A n \in DOMAIN T : \A m \in Nodes : Edge(n, m) => m \in DOMAIN T /\ T[m] <= T[n] + 1
  BY DEF Wave
<1>2. DOMAIN T = Nodes
  <2>1. DOMAIN T \in (SUBSET Nodes) \ {{}}
    BY DEF Wave
  <2>2. \A n \in DOMAIN T : \A k \in DOMAIN Model[n] : Model[n][k][2] \in DOMAIN T
    <3> SUFFICES ASSUME NEW n \in DOMAIN T, NEW k \in DOMAIN Model[n]
                 PROVE  Model[n][k][2] \in DOMAIN T
      OBVIOUS
    <3>1. n \in Nodes /\ Model[n][k][2] \in Nodes
      BY <2>1, EdgeIs
    <3>2. Edge(n, Model[n][k][2])
      BY DEF Edge
    <3> QED BY <1>1, <3>1, <3>2
  <2> QED BY <2>1, <2>2, ModelAssumption
<1>3. \A n, m \in Nodes : Edge(n, m) => T[n] <= T[m] + 1
  BY <1>1, <1>2, EdgeSymmetric
<1> QED BY <1>2, <1>3 DEF Wave, Distances

\* The table and the queue after a place of the queue was visited.
Visited(T, fresh, c) ==
  [m \in DOMAIN T \union ToSet(fresh) |-> IF m \in DOMAIN T THEN T[m] ELSE c + 1]
Queued(q, fresh, c) == Tail(q) \o [k \in DOMAIN fresh |-> <<fresh[k], c + 1>>]

LEMMA ConcatFacts ==
  ASSUME NEW S, NEW s \in Seq(S), NEW t \in Seq(S)
  PROVE  /\ s \o t \in Seq(S) /\ Len(s \o t) = Len(s) + Len(t)
         /\ \A k \in 1 .. Len(s) : (s \o t)[k] = s[k]
         /\ \A k \in 1 .. Len(t) : (s \o t)[Len(s) + k] = t[k]
OBVIOUS

\* What is in a queue that lost its head and grew at the end.
IsQueued(P, q, fresh, c, r) ==
  /\ r \in Seq(P) /\ Len(r) = Len(q) - 1 + Len(fresh)
  /\ Len(q) \in Nat \ {0} /\ Len(fresh) \in Nat
  /\ \A k \in 1 .. Len(q) - 1 : r[k] = q[k + 1]
  /\ \A k \in 1 .. Len(fresh) : r[Len(q) - 1 + k] = <<fresh[k], c + 1>>

LEMMA QueuedFacts ==
  ASSUME NEW P, \A m \in Nodes, d \in Nat : <<m, d>> \in P, NEW q \in Seq(P), q # <<>>,
         NEW fresh \in Seq(Nodes), NEW c \in Nat
  PROVE  IsQueued(P, q, fresh, c, Queued(q, fresh, c))
<1> DEFINE t == Tail(q)
           u == [k \in DOMAIN fresh |-> <<fresh[k], c + 1>>]
<1>1. /\ t \in Seq(P) /\ Len(t) = Len(q) - 1 /\ Len(q) \in Nat \ {0}
      /\ \A k \in 1 .. Len(q) - 1 : t[k] = q[k + 1]
  OBVIOUS
<1>2. /\ u \in Seq(P) /\ Len(u) = Len(fresh) /\ Len(fresh) \in Nat
      /\ \A k \in 1 .. Len(fresh) : u[k] = <<fresh[k], c + 1>>
  <2>1. DOMAIN fresh = 1 .. Len(fresh) /\ Len(fresh) \in Nat /\ \A k \in 1 .. Len(fresh) : fresh[k] \in Nodes
    OBVIOUS
  <2>2. u \in [1 .. Len(fresh) -> P]
    BY <2>1
  <2> QED BY <2>1, <2>2
<1> HIDE DEF t, u
<1>3. /\ t \o u \in Seq(P) /\ Len(t \o u) = Len(t) + Len(u)
      /\ \A k \in 1 .. Len(t) : (t \o u)[k] = t[k]
      /\ \A k \in 1 .. Len(u) : (t \o u)[Len(t) + k] = u[k]
  <2>1. t \in Seq(P) /\ u \in Seq(P)
    BY <1>1, <1>2
  <2> QED BY <2>1, ConcatFacts
<1>4. Queued(q, fresh, c) = t \o u
  BY DEF Queued, t, u
<1> QED BY <1>1, <1>2, <1>3, <1>4 DEF IsQueued

LEMMA WaveGoesOn ==
  ASSUME NEW T, NEW q, NEW g, Wave(T, q, g), q # <<>>
  PROVE  LET n == q[1][1]
             c == q[1][2]
             fresh == Fresh(T, n)
         IN Wave(Visited(T, fresh, c), Queued(q, fresh, c), g)
<1> DEFINE n == q[1][1]
           c == q[1][2]
           fresh == Fresh(T, n)
           U == Visited(T, fresh, c)
           r == Queued(q, fresh, c)
           N == Len(q)
           L == Len(fresh)
<1>1. /\ q \in Seq(Nodes \X Nat) /\ N \in Nat \ {0}
      /\ \A k \in 1 .. N : q[k] \in Nodes \X Nat
  BY DEF Wave
<1>2. n \in DOMAIN T /\ n \in Nodes /\ c \in Nat /\ T[n] = c
  <2>1. 1 \in 1 .. N
    BY <1>1
  <2> QED BY <1>1, <2>1 DEF Wave
<1>3. fresh \in Seq(Nodes) /\ ToSet(fresh) = {m \in Nodes : Edge(n, m) /\ m \notin DOMAIN T}
  BY <1>2, FreshFacts
<1> HIDE DEF n, c, fresh
<1>4. /\ r \in Seq(Nodes \X Nat) /\ Len(r) = N - 1 + L /\ L \in Nat
      /\ \A k \in 1 .. N - 1 : r[k] = q[k + 1]
      /\ \A k \in 1 .. L : r[N - 1 + k] = <<fresh[k], c + 1>>
  <2> DEFINE P == Nodes \X Nat
  <2>1. (\A m \in Nodes, d \in Nat : <<m, d>> \in P) /\ q \in Seq(P) /\ q # <<>> /\ fresh \in Seq(Nodes) /\ c \in Nat
    BY <1>1, <1>2, <1>3
  <2> HIDE DEF N, L, r, P
  <2>2. IsQueued(P, q, fresh, c, Queued(q, fresh, c))
    BY <2>1, QueuedFacts
  <2> QED BY <2>2 DEF N, L, r, P, IsQueued
<1>5. /\ \A k \in 1 .. L : fresh[k] \in ToSet(fresh)
      /\ \A m \in ToSet(fresh) : \E k \in 1 .. L : fresh[k] = m
  <2>1. DOMAIN fresh = 1 .. L
    BY <1>3
  <2> QED BY <2>1 DEF ToSet
<1>6. /\ DOMAIN T \subseteq Nodes /\ \A m \in DOMAIN T : T[m] \in Nat /\ T[m] <= c + 1
  BY DEF Wave, c
<1>7. /\ DOMAIN U = DOMAIN T \union ToSet(fresh)
      /\ \A m \in DOMAIN T : U[m] = T[m]
      /\ \A m \in ToSet(fresh) : U[m] = c + 1 /\ m \notin DOMAIN T
  BY <1>3 DEF Visited
<1> HIDE DEF U, r, N, L
<1>8. /\ DOMAIN U \subseteq Nodes /\ \A m \in DOMAIN U : U[m] \in Nat /\ U[m] <= c + 1
  BY <1>2, <1>3, <1>6, <1>7
<1>9. U \in [DOMAIN U -> Nat]
  <2>1. U = [m \in DOMAIN U |-> U[m]]
    BY DEF U, Visited
  <2> QED BY <1>8, <2>1
<1>10. g \in Nodes /\ g \in DOMAIN U /\ U[g] = 0 /\ \A m \in DOMAIN U : U[m] = 0 => m = g
  <2>1. g \in Nodes /\ g \in DOMAIN T /\ T[g] = 0 /\ \A m \in DOMAIN T : T[m] = 0 => m = g
    BY DEF Wave
  <2> QED BY <1>2, <1>7, <2>1
<1>11. ASSUME NEW m \in DOMAIN U \ {g} PROVE \E p \in DOMAIN U : Edge(m, p) /\ U[m] = U[p] + 1
  <2>1. CASE m \in DOMAIN T
    <3>1. PICK p \in DOMAIN T : Edge(m, p) /\ T[m] = T[p] + 1
      BY <1>11, <2>1 DEF Wave
    <3> QED BY <1>7, <2>1, <3>1
  <2>2. CASE m \notin DOMAIN T
    <3>1. m \in ToSet(fresh) /\ m \in Nodes /\ Edge(n, m)
      BY <1>3, <1>7, <1>11, <2>2
    <3>2. Edge(m, n) /\ U[m] = U[n] + 1 /\ n \in DOMAIN U
      BY <1>2, <1>7, <3>1, EdgeSymmetric
    <3> QED BY <3>2
  <2> QED BY <2>1, <2>2
\* The elements of r.
<1>12. ASSUME NEW k \in 1 .. Len(r)
       PROVE  \/ k \in 1 .. N - 1 /\ k + 1 \in 1 .. N /\ r[k] = q[k + 1]
              \/ \E j \in 1 .. L : k = N - 1 + j /\ r[k] = <<fresh[j], c + 1>>
  <2>1. CASE k <= N - 1
    BY <1>1, <1>4, <2>1
  <2>2. CASE k > N - 1
    <3>1. k - (N - 1) \in 1 .. L /\ k = N - 1 + (k - (N - 1))
      BY <1>1, <1>4, <2>2
    <3> QED BY <1>4, <3>1
  <2> QED BY <1>1, <1>4, <2>1, <2>2
<1>13. \A k \in 1 .. N : q[k][1] \in DOMAIN T /\ T[q[k][1]] = q[k][2] /\ q[k][2] \in Nat
  BY <1>1 DEF Wave, N
<1>14. ASSUME NEW k \in 1 .. Len(r) PROVE r[k][1] \in DOMAIN U /\ U[r[k][1]] = r[k][2]
  <2>1. CASE k \in 1 .. N - 1 /\ k + 1 \in 1 .. N /\ r[k] = q[k + 1]
    BY <1>7, <1>13, <2>1
  <2>2. ASSUME NEW j \in 1 .. L, r[k] = <<fresh[j], c + 1>>
        PROVE  r[k][1] \in DOMAIN U /\ U[r[k][1]] = r[k][2]
    BY <1>5, <1>7, <2>2
  <2> QED BY <1>12, <2>1, <2>2
<1>15. \A j, k \in 1 .. N : j <= k => q[j][2] <= q[k][2]
  BY DEF Wave, N
<1>16. ASSUME NEW j \in 1 .. Len(r), NEW k \in 1 .. Len(r), j <= k PROVE r[j][2] <= r[k][2]
  <2>1. r[j][2] \in Nat /\ r[j][2] <= c + 1
    BY <1>8, <1>14
  <2>2. CASE k \in 1 .. N - 1 /\ k + 1 \in 1 .. N /\ r[k] = q[k + 1]
    <3>1. j \in 1 .. N - 1 /\ j + 1 \in 1 .. N /\ j + 1 <= k + 1
      BY <1>1, <1>16, <2>2
    <3>2. r[j] = q[j + 1]
      BY <1>4, <3>1
    <3> QED BY <1>15, <2>2, <3>1, <3>2
  <2>3. CASE \E i \in 1 .. L : r[k] = <<fresh[i], c + 1>>
    BY <2>1, <2>3
  <2> QED BY <1>12, <2>2, <2>3
<1>17. ASSUME r # <<>>, NEW m \in DOMAIN U PROVE U[m] <= r[1][2] + 1
  <2>1. 1 \in 1 .. Len(r)
    BY <1>4, <1>17
  <2>2. r[1][2] \in Nat /\ c <= r[1][2]
    <3>1. CASE 1 + 1 \in 1 .. N /\ r[1] = q[1 + 1]
      <4>1. q[1][2] <= q[1 + 1][2]
        BY <1>1, <1>15, <3>1
      <4> QED BY <1>13, <3>1, <4>1 DEF c
    <3>2. CASE \E j \in 1 .. L : r[1] = <<fresh[j], c + 1>>
      BY <1>2, <3>2
    <3> QED BY <1>12, <2>1, <3>1, <3>2
  <2> QED BY <1>2, <1>8, <2>2
<1>18. ASSUME NEW m \in DOMAIN U
       PROVE  \/ \E k \in 1 .. Len(r) : r[k][1] = m
              \/ \A p \in Nodes : Edge(m, p) => p \in DOMAIN U /\ U[p] <= U[m] + 1
  <2>1. CASE m \in ToSet(fresh)
    <3>1. PICK j \in 1 .. L : fresh[j] = m
      BY <1>5, <2>1
    <3>2. N - 1 + j \in 1 .. Len(r) /\ r[N - 1 + j][1] = m
      BY <1>1, <1>4, <3>1, SMTT(30)
    <3> QED BY <3>2
  <2>2. CASE m = n
    <3>1. ASSUME NEW p \in Nodes, Edge(m, p) PROVE p \in DOMAIN U /\ U[p] <= U[m] + 1
      <4>1. p \in DOMAIN U
        BY <1>3, <1>7, <2>2, <3>1
      <4> QED BY <1>2, <1>7, <1>8, <2>2, <4>1
    <3> QED BY <3>1
  <2>3. CASE m \in DOMAIN T /\ m # n
    <3>1. \/ \E k \in 1 .. N : q[k][1] = m
          \/ \A p \in Nodes : Edge(m, p) => p \in DOMAIN T /\ T[p] <= T[m] + 1
      BY <2>3 DEF Wave, N
    <3>2. ASSUME NEW k \in 1 .. N, q[k][1] = m PROVE \E j \in 1 .. Len(r) : r[j][1] = m
      <4>1. k # 1
        BY <2>3, <3>2 DEF n
      <4>2. k - 1 \in 1 .. N - 1 /\ (k - 1) + 1 = k /\ k - 1 \in 1 .. Len(r)
        BY <1>1, <1>4, <4>1
      <4>3. r[k - 1] = q[k]
        BY <1>4, <4>2
      <4> QED BY <3>2, <4>2, <4>3
    <3> QED BY <1>7, <2>3, <3>1, <3>2
  <2> QED BY <1>7, <2>1, <2>2, <2>3
<1>19. r \in Seq(Nodes \X Nat)
  BY <1>4
<1>20. Wave(U, r, g)
  BY <1>8, <1>9, <1>10, <1>11, <1>14, <1>16, <1>17, <1>18, <1>19 DEF Wave
<1> QED BY <1>20 DEF U, r, n, c, fresh

-------------------------------------------------------------------------------
(***************************************************************************)
(* The tables.  That of the last goal begun is being filled; the others    *)
(* are whole.                                                              *)
(***************************************************************************)
Tables ==
  /\ exercise \in Exercises /\ goals \in 0 .. Len(exercise.goal)
  /\ DOMAIN heur = {exercise.goal[k] : k \in 1 .. goals}
  /\ goals = 0 => queue = <<>>
  /\ \A g \in DOMAIN heur :
       IF g = exercise.goal[goals] THEN Wave(heur[g], queue, g) ELSE Distances(heur[g], g)
  /\ pc # "bfs" => queue = <<>> /\ goals = Len(exercise.goal)

LEMMA ExerciseIs ==
  ASSUME NEW e \in Exercises
  PROVE  /\ e.init \in Seq(Nodes) /\ e.goal \in Seq(Nodes) /\ Len(e.goal) = Len(e.init)
         /\ Len(e.init) \in Nat \ {0} /\ DOMAIN e.init = 1 .. Len(e.init)
         /\ DOMAIN e.goal = 1 .. Len(e.init)
         /\ \A k \in 1 .. Len(e.init) : e.init[k] \in Nodes /\ e.goal[k] \in Nodes
         /\ e.limitexp \in Nat /\ e.limitdepth \in Nat /\ e.anyorder \in BOOLEAN
         /\ e.tickets \in [Transports -> Nat \union {Inf}]
         /\ e.checked \in [Transports -> Nat]
<1>1. /\ e.init \in Seq(Nodes) /\ e.goal \in Seq(Nodes) /\ Len(e.goal) = Len(e.init) /\ e.init # <<>>
      /\ e.limitexp \in Nat /\ e.limitdepth \in Nat /\ e.anyorder \in BOOLEAN
      /\ e.tickets \in [Transports -> Nat \union {Inf}]
      /\ e.checked \in [Transports -> Nat]
  BY ExercisesAssumption
<1> QED BY <1>1

LEMMA TablesStart ==
  ASSUME Init
  PROVE  Tables
<1>1. goals = 0 /\ heur = <<>> /\ queue = <<>> /\ exercise \in Exercises /\ pc = "bfs"
  BY DEF Init
<1>2. 0 \in 0 .. Len(exercise.goal)
  BY <1>1, ExerciseIs
<1>3. DOMAIN heur = {} /\ {exercise.goal[k] : k \in 1 .. goals} = {}
  BY <1>1
<1> QED BY <1>1, <1>2, <1>3 DEF Tables

LEMMA StartGoalTables ==
  ASSUME Tables, StartGoal
  PROVE  Tables'
<1> DEFINE goal == exercise.goal[goals + 1]
<1>1. /\ pc = "bfs" /\ pc' = "bfs" /\ queue = <<>> /\ exercise' = exercise /\ exercise \in Exercises
      /\ goals \in Nat /\ goals + 1 \in 1 .. Len(exercise.goal) /\ goals' = goals + 1
  BY ExerciseIs DEF Tables, StartGoal
<1>2. goal \in Nodes
  BY <1>1, ExerciseIs
<1>3. /\ DOMAIN heur' = DOMAIN heur \union {goal}
      /\ heur'[goal] = [n \in {goal} |-> 0]
      /\ \A g \in DOMAIN heur \ {goal} : heur'[g] = heur[g]
      /\ queue' = <<<<goal, 0>>>>
  BY DEF StartGoal
<1> HIDE DEF goal
<1>4. DOMAIN heur' = {exercise'.goal[k] : k \in 1 .. goals'}
  <2>1. DOMAIN heur = {exercise.goal[k] : k \in 1 .. goals}
    BY DEF Tables
  <2>2. 1 .. goals' = (1 .. goals) \union {goals + 1}
    BY <1>1
  <2> QED BY <1>1, <1>3, <2>1, <2>2 DEF goal
<1>5. ASSUME NEW g \in DOMAIN heur'
      PROVE  IF g = exercise'.goal[goals'] THEN Wave(heur'[g], queue', g) ELSE Distances(heur'[g], g)
  <2>1. CASE g = goal
    <3>1. Wave(heur'[g], queue', g)
      BY <1>2, <1>3, <2>1, WaveStarts
    <3> QED BY <1>1, <2>1, <3>1 DEF goal
  <2>2. CASE g # goal
    <3>1. g \in DOMAIN heur /\ heur'[g] = heur[g]
      BY <1>3, <1>5, <2>2
    <3>2. IF g = exercise.goal[goals] THEN Wave(heur[g], <<>>, g) ELSE Distances(heur[g], g)
      BY <1>1, <3>1 DEF Tables
    <3>3. Distances(heur[g], g)
      BY <3>2, WaveEnds
    <3> QED BY <1>1, <2>2, <3>1, <3>3 DEF goal
  <2> QED BY <2>1, <2>2
<1>6. exercise' \in Exercises /\ goals' \in 0 .. Len(exercise'.goal) /\ goals' # 0
  BY <1>1, ExerciseIs
<1> QED BY <1>1, <1>4, <1>5, <1>6 DEF Tables

LEMMA VisitTables ==
  ASSUME Tables, Visit
  PROVE  Tables'
<1> DEFINE goal == exercise.goal[goals]
           n == queue[1][1]
           c == queue[1][2]
           fresh == Fresh(heur[goal], n)
<1>1. /\ pc = "bfs" /\ pc' = "bfs" /\ queue # <<>> /\ exercise' = exercise /\ exercise \in Exercises
      /\ goals' = goals /\ goals \in Nat /\ goals # 0 /\ goals \in 0 .. Len(exercise.goal)
  <2>1. pc = "bfs" /\ pc' = "bfs" /\ queue # <<>> /\ exercise' = exercise /\ goals' = goals
    BY DEF Visit
  <2>2. exercise \in Exercises /\ goals # 0 /\ goals \in 0 .. Len(exercise.goal)
    BY <2>1 DEF Tables
  <2>3. goals \in Nat
    BY <2>2, ExerciseIs
  <2> QED BY <2>1, <2>2, <2>3
<1>2. goal \in DOMAIN heur
  <2>1. goals \in 1 .. goals
    BY <1>1
  <2> QED BY <2>1 DEF Tables
<1>3. Wave(heur[goal], queue, goal)
  BY <1>2 DEF Tables
<1>4. Head(queue) = queue[1]
  <2>1. queue \in Seq(Nodes \X Nat)
    BY <1>3 DEF Wave
  <2> QED BY <1>1, <2>1
<1>5. /\ DOMAIN heur' = DOMAIN heur
      /\ heur'[goal] = Visited(heur[goal], fresh, c)
      /\ \A g \in DOMAIN heur \ {goal} : heur'[g] = heur[g]
      /\ queue' = Queued(queue, fresh, c)
  BY <1>2, <1>4 DEF Visit, Visited, Queued
<1>6. Wave(heur'[goal], queue', goal)
  <2>1. Wave(Visited(heur[goal], fresh, c), Queued(queue, fresh, c), goal)
    BY <1>1, <1>3, WaveGoesOn
  <2> QED BY <1>5, <2>1
<1>7. \A g \in DOMAIN heur : g # goal => Distances(heur[g], g)
  BY DEF Tables
<1> HIDE DEF goal, fresh, n, c
<1>8. ASSUME NEW g \in DOMAIN heur'
      PROVE  IF g = exercise'.goal[goals'] THEN Wave(heur'[g], queue', g) ELSE Distances(heur'[g], g)
  <2>1. exercise'.goal[goals'] = goal
    BY <1>1 DEF goal
  <2> QED BY <1>5, <1>6, <1>7, <2>1
<1>9. DOMAIN heur' = {exercise'.goal[k] : k \in 1 .. goals'}
  BY <1>1, <1>5 DEF Tables
<1> QED BY <1>1, <1>8, <1>9 DEF Tables

LEMMA TablesGoOn ==
  ASSUME Tables, [Next]_vars
  PROVE  Tables'
<1>1. CASE StartGoal
  BY <1>1, StartGoalTables
<1>2. CASE Visit
  BY <1>2, VisitTables
<1>3. CASE StartSearch
  BY <1>3 DEF StartSearch, Tables
<1>4. CASE Return
  BY <1>4 DEF Return, Tables
<1>5. CASE Expand
  BY <1>5 DEF Expand, Tables
<1>6. CASE Exhausted
  BY <1>6 DEF Exhausted, Tables
<1>7. CASE Validate
  BY <1>7 DEF Validate, Tables
<1>8. CASE UNCHANGED vars
  BY <1>8 DEF vars, Tables
<1> QED BY <1>1, <1>2, <1>3, <1>4, <1>5, <1>6, <1>7, <1>8 DEF Next, Terminated

\* When bfs is done, every table is whole.
LEMMA TablesWhole ==
  ASSUME Tables, queue = <<>>, goals = Len(exercise.goal)
  PROVE  /\ exercise \in Exercises /\ DOMAIN heur = ToSet(exercise.goal)
         /\ \A k \in 1 .. Len(exercise.init) : exercise.goal[k] \in DOMAIN heur
         /\ \A g \in DOMAIN heur : Distances(heur[g], g)
<1>1. exercise \in Exercises
  BY DEF Tables
<1>2. DOMAIN heur = ToSet(exercise.goal)
  <2>1. DOMAIN exercise.goal = 1 .. goals
    BY <1>1, ExerciseIs
  <2> QED BY <2>1 DEF Tables, ToSet
<1>3. \A k \in 1 .. Len(exercise.init) : exercise.goal[k] \in DOMAIN heur
  BY <1>1, <1>2, ExerciseIs DEF ToSet
<1>4. ASSUME NEW g \in DOMAIN heur PROVE Distances(heur[g], g)
  BY <1>1, WaveEnds DEF Tables
<1> QED BY <1>1, <1>2, <1>3, <1>4

-------------------------------------------------------------------------------
(***************************************************************************)
(* The tables hold distances, said with the moves of the map.              *)
(***************************************************************************)
Wider(X) == X \union {n \in Nodes : \E i \in DOMAIN Model[n] : Model[n][i][2] \in X}

LEMMA BallIs ==
  ASSUME NEW g \in Nodes
  PROVE  /\ Cardinality(Nodes) \in Nat /\ Ball(g)[0] = {g}
         /\ \A k \in 1 .. Cardinality(Nodes) : Ball(g)[k] = Wider(Ball(g)[k - 1])
<1> DEFINE N == Cardinality(Nodes)
           F == [k \in 1 .. N |-> [X \in SUBSET Nodes |-> Wider(X)]]
           Eqn(f) == f = [k \in 0 .. N |-> IF k = 0 THEN {g} ELSE Wider(f[k - 1])]
<1>1. N \in Nat
  BY ModelAssumption, FS_CardinalityType
<1> HIDE DEF N
<1>2. F \in [1 .. N -> [SUBSET Nodes -> SUBSET Nodes]]
  BY DEF Wider
<1>3. \A k \in 1 .. N : \A X \in SUBSET Nodes : F[k][X] = Wider(X)
  OBVIOUS
<1> HIDE DEF F
<1>4. PICK f : RecursesTo(N, SUBSET Nodes, {g}, F, f)
  <2>1. {g} \in SUBSET Nodes
    OBVIOUS
  <2> QED BY <1>1, <1>2, <2>1, BoundedRecursion
<1>5. f \in [0 .. N -> SUBSET Nodes] /\ f[0] = {g} /\ \A k \in 1 .. N : f[k] = F[k][f[k - 1]]
  BY <1>4 DEF RecursesTo
<1>6. Eqn(f)
  <2>1. \A k \in 1 .. N : k - 1 \in 0 .. N /\ f[k] = Wider(f[k - 1])
    BY <1>1, <1>3, <1>5
  <2>2. \A k \in 0 .. N : f[k] = IF k = 0 THEN {g} ELSE Wider(f[k - 1])
    BY <1>1, <1>5, <2>1
  <2>3. f = [k \in 0 .. N |-> f[k]]
    BY <1>5
  <2> QED BY <2>2, <2>3
<1> DEFINE b == CHOOSE h : Eqn(h)
<1>7. Ball(g) = b
  BY DEF Ball, Wider, N
<1>8. Eqn(b)
  BY <1>6
<1> HIDE DEF b
<1>9. b[0] = {g}
  BY <1>1, <1>8
<1>10. ASSUME NEW k \in 1 .. N PROVE b[k] = Wider(b[k - 1])
  <2>1. k \in 0 .. N /\ k # 0
    BY <1>1
  <2> QED BY <1>8, <2>1
<1> QED BY <1>1, <1>7, <1>9, <1>10 DEF N

\* No distance is greater than the number of places: the places on the way have
\* different distances.
LEMMA DistancesAreShort ==
  ASSUME NEW T, NEW g, Distances(T, g), NEW n \in Nodes
  PROVE  T[n] \in Nat /\ T[n] <= Cardinality(Nodes)
<1> DEFINE N == T[n]
           S == {k \in 0 .. N : \E m \in Nodes : T[m] = N - k}
           I == {T[m] : m \in Nodes}
<1>1. N \in Nat /\ \A m \in Nodes : T[m] \in Nat
  BY DEF Distances
<1>2. 0 \in S
  BY <1>1
<1>3. ASSUME NEW k \in 1 .. N, k - 1 \in S PROVE k \in S
  <2>1. PICK m \in Nodes : T[m] = N - (k - 1)
    BY <1>3
  <2>2. m # g
    BY <1>1, <2>1 DEF Distances
  <2>3. PICK p \in Nodes : T[m] = T[p] + 1
    BY <2>2 DEF Distances
  <2>4. T[p] = N - k
    BY <1>1, <2>1, <2>3
  <2> QED BY <1>1, <2>4
<1>4. 0 .. N \subseteq S
  <2> HIDE DEF N, S
  <2> QED BY <1>1, <1>2, <1>3, BoundedInduct
<1>5. 1 .. N \subseteq I
  <2> SUFFICES ASSUME NEW k \in 1 .. N PROVE k \in I
    OBVIOUS
  <2>1. N - k \in 0 .. N /\ N - (N - k) = k
    BY <1>1
  <2>2. PICK m \in Nodes : T[m] = N - (N - k)
    BY <1>4, <2>1
  <2> QED BY <2>1, <2>2
<1>6. IsFiniteSet(I) /\ Cardinality(I) <= Cardinality(Nodes)
  <2>1. T \in [Nodes -> I] /\ \A k \in I : \E m \in Nodes : T[m] = k
    BY DEF Distances
  <2> HIDE DEF I
  <2>2. T \in Surjection(Nodes, I)
    BY <2>1 DEF Surjection
  <2> QED BY <2>2, ModelAssumption, FS_Surjection
<1>7. Cardinality(1 .. N) = N /\ Cardinality(1 .. N) <= Cardinality(I)
  <2> HIDE DEF N, I
  <2>1. Cardinality(1 .. N) = N
    BY <1>1, FS_Interval
  <2>2. Cardinality(1 .. N) <= Cardinality(I)
    BY <1>5, <1>6, FS_Subset
  <2> QED BY <2>1, <2>2
<1>8. Cardinality(I) \in Nat /\ Cardinality(Nodes) \in Nat
  BY <1>6, ModelAssumption, FS_CardinalityType
<1> HIDE DEF N, I
<1>9. N <= Cardinality(Nodes)
  BY <1>1, <1>6, <1>7, <1>8
<1> QED BY <1>1, <1>9 DEF N

LEMMA BallIsNear ==
  ASSUME NEW T, NEW g, Distances(T, g), NEW k \in 0 .. Cardinality(Nodes)
  PROVE  Ball(g)[k] = {n \in Nodes : T[n] <= k}
<1> DEFINE N == Cardinality(Nodes)
           B == Ball(g)
           S == {i \in 0 .. N : B[i] = {n \in Nodes : T[n] <= i}}
<1>1. /\ g \in Nodes /\ T[g] = 0 /\ \A n \in Nodes : T[n] \in Nat
      /\ \A n \in Nodes : T[n] = 0 => n = g
      /\ \A n, m \in Nodes : Edge(n, m) => T[n] <= T[m] + 1
      /\ \A n \in Nodes \ {g} : \E m \in Nodes : Edge(n, m) /\ T[n] = T[m] + 1
  BY DEF Distances
<1>2. N \in Nat /\ B[0] = {g} /\ \A i \in 1 .. N : B[i] = Wider(B[i - 1])
  BY <1>1, BallIs
<1> HIDE DEF N, B
<1>3. 0 \in S
  BY <1>1, <1>2
<1>4. ASSUME NEW i \in 1 .. N, i - 1 \in S PROVE i \in S
  <2>1. B[i - 1] = {n \in Nodes : T[n] <= i - 1}
    BY <1>4
  <2>2. ASSUME NEW n \in Nodes, T[n] <= i PROVE n \in B[i]
    <3>1. CASE n = g
      <4>1. n \in B[i - 1]
        BY <1>1, <2>1, <3>1
      <4> QED BY <1>2, <4>1 DEF Wider
    <3>2. CASE n # g
      <4>1. PICK m \in Nodes : Edge(n, m) /\ T[n] = T[m] + 1
        BY <1>1, <3>2
      <4>2. m \in B[i - 1]
        BY <1>1, <2>1, <2>2, <4>1
      <4> QED BY <1>2, <4>1, <4>2 DEF Wider, Edge
    <3> QED BY <3>1, <3>2
  <2>3. ASSUME NEW n \in B[i] PROVE n \in Nodes /\ T[n] <= i
    <3>1. CASE n \in B[i - 1]
      BY <1>1, <2>1, <3>1
    <3>2. ASSUME n \in Nodes, NEW j \in DOMAIN Model[n], Model[n][j][2] \in B[i - 1]
          PROVE  T[n] <= i
      <4>1. Model[n][j][2] \in Nodes /\ Edge(n, Model[n][j][2]) /\ T[Model[n][j][2]] <= i - 1
        BY <2>1, <3>2 DEF Edge
      <4> QED BY <1>1, <3>2, <4>1
    <3>3. \/ n \in B[i - 1]
          \/ n \in Nodes /\ \E j \in DOMAIN Model[n] : Model[n][j][2] \in B[i - 1]
      <4>1. B[i] = Wider(B[i - 1])
        BY <1>2
      <4>2. n \in Wider(B[i - 1])
        BY <2>3, <4>1
      <4> QED BY <4>2, Zenon DEF Wider
    <3> QED BY <3>1, <3>2, <3>3
  <2>4. B[i] = {n \in Nodes : T[n] <= i} /\ i \in 0 .. N
    BY <2>2, <2>3, <1>2
  <2> QED BY <2>4
<1>5. 0 .. N \subseteq S
  <2> HIDE DEF S
  <2> QED BY <1>2, <1>3, <1>4, BoundedInduct
<1> QED BY <1>5 DEF N, B

LEMMA TablesAreRight ==
  ASSUME Tables
  PROVE  HeurIsDistance
<1> SUFFICES ASSUME pc # "bfs", NEW g \in ToSet(exercise.goal), NEW n \in Nodes
             PROVE  /\ n \in Ball(g)[heur[g][n]]
                    /\ heur[g][n] > 0 => n \notin Ball(g)[heur[g][n] - 1]
  BY DEF HeurIsDistance
<1>1. Distances(heur[g], g)
  BY TablesWhole DEF Tables
<1> DEFINE d == heur[g][n]
<1>2. d \in Nat /\ d \in 0 .. Cardinality(Nodes) /\ (d > 0 => d - 1 \in 0 .. Cardinality(Nodes))
  <2>1. Cardinality(Nodes) \in Nat
    BY ModelAssumption, FS_CardinalityType
  <2>2. heur[g][n] \in Nat /\ heur[g][n] <= Cardinality(Nodes)
    BY <1>1, DistancesAreShort
  <2> QED BY <2>1, <2>2
<1>3. Ball(g)[d] = {m \in Nodes : heur[g][m] <= d}
  BY <1>1, <1>2, BallIsNear
<1>4. d > 0 => Ball(g)[d - 1] = {m \in Nodes : heur[g][m] <= d - 1}
  BY <1>1, <1>2, BallIsNear
<1> QED BY <1>2, <1>3, <1>4

\* The tables that the search uses hold the length of the shortest way from every
\* place of the map to each goal (SearchProblem.bfs, A013.py:63-75).
THEOREM SearchTablesAreDistances == Spec => []HeurIsDistance
<1>1. Init => Tables
  BY TablesStart
<1>2. Tables /\ [Next]_vars => Tables'
  BY TablesGoOn
<1>3. Tables => HeurIsDistance
  BY TablesAreRight
<1> QED BY <1>1, <1>2, <1>3, PTL DEF Spec

-------------------------------------------------------------------------------
(***************************************************************************)
(* The heuristic, for an exercise and its tables.                          *)
(***************************************************************************)
LEMMA LeastIs ==
  ASSUME NEW B \in SUBSET Nat, B # {}
  PROVE  LeastOf(B) \in B /\ \A k \in B : LeastOf(B) <= k
BY LeastNumber, Zenon DEF LeastOf

LEMMA MostIs ==
  ASSUME NEW B \in SUBSET Nat, B # {}, NEW N \in Nat, \A k \in B : k <= N
  PROVE  MostOf(B) \in B /\ \A k \in B : MostOf(B) >= k
<1> DEFINE C == {N - k : k \in B}
<1>1. C \in SUBSET Nat /\ C # {}
  <2>1. \A k \in B : k \in Nat /\ k <= N
    OBVIOUS
  <2>2. PICK k \in B : TRUE
    OBVIOUS
  <2>3. N - k \in C
    OBVIOUS
  <2> QED BY <2>1, <2>3
<1>2. PICK c \in C : \A k \in C : c <= k
  <2> HIDE DEF C
  <2> QED BY <1>1, LeastNumber
<1>3. PICK m \in B : c = N - m
  BY <1>2
<1>4. ASSUME NEW k \in B PROVE m >= k
  <2>1. c <= N - k
    BY <1>2
  <2>2. k \in Nat /\ m \in Nat
    OBVIOUS
  <2> QED BY <1>3, <2>1, <2>2
<1>5. \E x \in B : \A y \in B : x >= y
  BY <1>4
<1> QED BY <1>5, Zenon DEF MostOf

Positions(e) == [1 .. Len(e.init) -> Nodes]

\* The tables of e are whole.
Prepared(e, H) ==
  e \in Exercises /\ \A k \in 1 .. Len(e.init) : Distances(H[e.goal[k]], e.goal[k])

AuxOf(H, src, dst) == MostOf({H[dst[a]][src[a]] : a \in DOMAIN src})
HeurOf(H, e, pos)  == LeastOf({AuxOf(H, pos, dst) : dst \in GoalsOf(e)})

LEMMA HeuristicIs ==
  ASSUME NEW pos
  PROVE  heuristic(pos, GoalsOf(exercise)) = HeurOf(heur, exercise, pos)
BY DEF heuristic, heuristic_aux, HeurOf, AuxOf

LEMMA GoalsAre ==
  ASSUME NEW e \in Exercises
  PROVE  /\ GoalsOf(e) # {}
         /\ \A dst \in GoalsOf(e) :
              /\ DOMAIN dst = 1 .. Len(e.init)
              /\ \A a \in 1 .. Len(e.init) : \E k \in 1 .. Len(e.init) : dst[a] = e.goal[k]
<1> DEFINE p == Len(e.goal)
           I == {f \in [1 .. p -> 1 .. p] : IsInjective(f)}
<1>1. p = Len(e.init) /\ p \in Nat /\ DOMAIN e.goal = 1 .. p
  BY ExerciseIs
<1> HIDE DEF p
<1>2. [a \in 1 .. p |-> a] \in I
  BY DEF IsInjective
<1>3. CASE e.anyorder
  <2>1. GoalsOf(e) = {[a \in 1 .. p |-> e.goal[f[a]]] : f \in I}
    BY <1>3 DEF GoalsOf, p
  <2>2. ASSUME NEW f \in I, NEW a \in 1 .. p PROVE f[a] \in 1 .. p
    OBVIOUS
  <2> HIDE DEF I
  <2>3. PICK g \in I : TRUE
    BY <1>2
  <2>4. ASSUME NEW dst \in GoalsOf(e)
        PROVE  DOMAIN dst = 1 .. p /\ \A a \in 1 .. p : \E k \in 1 .. p : dst[a] = e.goal[k]
    <3>1. PICK f \in I : dst = [a \in 1 .. p |-> e.goal[f[a]]]
      BY <2>1, Zenon
    <3>2. DOMAIN dst = 1 .. p /\ \A a \in 1 .. p : dst[a] = e.goal[f[a]]
      BY <3>1
    <3> QED BY <2>2, <3>2
  <2>5. [a \in 1 .. p |-> e.goal[g[a]]] \in GoalsOf(e)
    BY <2>1, <2>3
  <2> QED BY <1>1, <2>4, <2>5
<1>4. CASE ~ e.anyorder
  BY <1>1, <1>4 DEF GoalsOf
<1> QED BY <1>3, <1>4

LEMMA AuxIs ==
  ASSUME NEW e, NEW H, Prepared(e, H), NEW dst \in GoalsOf(e), NEW pos \in Positions(e)
  PROVE  /\ AuxOf(H, pos, dst) \in Nat
         /\ \E a \in 1 .. Len(e.init) : AuxOf(H, pos, dst) = H[dst[a]][pos[a]]
         /\ \A a \in 1 .. Len(e.init) :
              H[dst[a]][pos[a]] \in Nat /\ AuxOf(H, pos, dst) >= H[dst[a]][pos[a]]
<1> DEFINE p == Len(e.init)
           B == {H[dst[a]][pos[a]] : a \in 1 .. p}
<1>1. p \in Nat \ {0} /\ DOMAIN pos = 1 .. p /\ \A a \in 1 .. p : pos[a] \in Nodes
  BY ExerciseIs DEF Prepared, Positions
<1>2. ASSUME NEW a \in 1 .. p
      PROVE  H[dst[a]][pos[a]] \in Nat /\ H[dst[a]][pos[a]] <= Cardinality(Nodes)
  <2>1. PICK k \in 1 .. p : dst[a] = e.goal[k]
    BY GoalsAre DEF Prepared
  <2>2. Distances(H[dst[a]], dst[a])
    BY <2>1 DEF Prepared
  <2> QED BY <1>1, <2>2, DistancesAreShort
<1>3. Cardinality(Nodes) \in Nat
  BY ModelAssumption, FS_CardinalityType
<1>4. B \in SUBSET Nat /\ \A k \in B : k <= Cardinality(Nodes)
  BY <1>2
<1>5. B # {}
  <2>1. 1 \in 1 .. p
    BY <1>1
  <2>2. H[dst[1]][pos[1]] \in B
    BY <2>1
  <2> QED BY <2>2
<1>6. AuxOf(H, pos, dst) = MostOf(B)
  BY <1>1 DEF AuxOf
<1>7. MostOf(B) \in B /\ \A k \in B : MostOf(B) >= k
  <2> HIDE DEF B
  <2> QED BY <1>3, <1>4, <1>5, MostIs
<1> QED BY <1>2, <1>4, <1>6, <1>7

\* The heuristic is a number, no greater than for any way of assigning the goals.
LEMMA HeurIs ==
  ASSUME NEW e, NEW H, Prepared(e, H), NEW pos \in Positions(e)
  PROVE  /\ HeurOf(H, e, pos) \in Nat
         /\ \E dst \in GoalsOf(e) : HeurOf(H, e, pos) = AuxOf(H, pos, dst)
         /\ \A dst \in GoalsOf(e) : HeurOf(H, e, pos) <= AuxOf(H, pos, dst)
<1> DEFINE B == {AuxOf(H, pos, dst) : dst \in GoalsOf(e)}
<1>1. B \in SUBSET Nat
  BY AuxIs
<1>2. B # {}
  BY GoalsAre DEF Prepared
<1>3. LeastOf(B) \in B /\ \A k \in B : LeastOf(B) <= k
  <2> HIDE DEF B
  <2> QED BY <1>1, <1>2, LeastIs
<1>4. HeurOf(H, e, pos) = LeastOf(B)
  BY DEF HeurOf
<1> QED BY <1>1, <1>3, <1>4

\* It is 0 at a goal.
LEMMA HeurAtGoal ==
  ASSUME NEW e, NEW H, Prepared(e, H), NEW pos \in Positions(e), pos \in GoalsOf(e)
  PROVE  HeurOf(H, e, pos) = 0
<1>1. PICK a \in 1 .. Len(e.init) : AuxOf(H, pos, pos) = H[pos[a]][pos[a]]
  BY AuxIs
<1>2. PICK k \in 1 .. Len(e.init) : pos[a] = e.goal[k]
  BY GoalsAre DEF Prepared
<1>3. H[pos[a]][pos[a]] = 0
  BY <1>2 DEF Prepared, Distances
<1>4. HeurOf(H, e, pos) \in Nat /\ HeurOf(H, e, pos) <= AuxOf(H, pos, pos)
  BY HeurIs
<1> QED BY <1>1, <1>3, <1>4

\* It is consistent: a move of all agents makes it smaller by one at most.
LEMMA HeurConsistent ==
  ASSUME NEW e, NEW H, Prepared(e, H), NEW pos \in Positions(e), NEW next \in Positions(e),
         \A a \in 1 .. Len(e.init) : Edge(pos[a], next[a])
  PROVE  HeurOf(H, e, pos) <= HeurOf(H, e, next) + 1
<1>1. PICK dst \in GoalsOf(e) : HeurOf(H, e, next) = AuxOf(H, next, dst)
  BY HeurIs
<1>2. PICK a \in 1 .. Len(e.init) : AuxOf(H, pos, dst) = H[dst[a]][pos[a]]
  BY AuxIs
<1>3. H[dst[a]][pos[a]] <= H[dst[a]][next[a]] + 1
  <2>1. PICK k \in 1 .. Len(e.init) : dst[a] = e.goal[k]
    BY GoalsAre DEF Prepared
  <2>2. pos[a] \in Nodes /\ next[a] \in Nodes
    BY DEF Positions
  <2> QED BY <2>1, <2>2 DEF Prepared, Distances
<1>4. H[dst[a]][next[a]] \in Nat /\ AuxOf(H, next, dst) >= H[dst[a]][next[a]]
      /\ AuxOf(H, next, dst) \in Nat
  BY AuxIs
<1>5. HeurOf(H, e, pos) \in Nat /\ HeurOf(H, e, pos) <= AuxOf(H, pos, dst)
      /\ H[dst[a]][pos[a]] \in Nat
  BY HeurIs, AuxIs
<1> QED BY <1>1, <1>2, <1>3, <1>4, <1>5

-------------------------------------------------------------------------------
(***************************************************************************)
(* The moves of all agents at once.                                        *)
(***************************************************************************)
LEMMA DivMod1 ==
  ASSUME NEW N \in Nat, NEW M \in Nat, NEW k \in 1 .. N * M
  PROVE  /\ ((k - 1) \div M) + 1 \in 1 .. N
         /\ ((k - 1) % M) + 1 \in 1 .. M
<1>1. M \in Nat \ {0}
  OBVIOUS
<1> DEFINE d == (k - 1) \div M
           r == (k - 1) % M
<1>0. N * M \in Int /\ k \in Int /\ 1 <= k /\ k <= N * M
  OBVIOUS
<1>2. d \in Int /\ r \in Int /\ k - 1 = M * d + r /\ 0 <= r /\ r < M
  BY <1>1, <1>0
<1> HIDE DEF d, r
<1>3. d >= 0
  <2> SUFFICES ASSUME d <= -1 PROVE FALSE
    BY <1>2
  <2>1. M * d <= -M
    BY <1>1, <1>2
  <2> QED BY <1>0, <1>1, <1>2, <2>1
<1>4. d < N
  <2> SUFFICES ASSUME d >= N PROVE FALSE
    BY <1>2
  <2>1. M * d >= N * M
    BY <1>1, <1>2
  <2> QED BY <1>0, <1>1, <1>2, <2>1
<1> QED BY <1>1, <1>2, <1>3, <1>4 DEF d, r

Picks(N, M, i, j, k) == k \in 1 .. N * M /\ ((k - 1) \div M) + 1 = i /\ ((k - 1) % M) + 1 = j

LEMMA DivMod2 ==
  ASSUME NEW N \in Nat, NEW M \in Nat, NEW i \in 1 .. N, NEW j \in 1 .. M
  PROVE  \E k : Picks(N, M, i, j, k)
<1>1. M \in Nat \ {0} /\ i - 1 \in Nat /\ j \in Nat /\ (i - 1) * M \in Nat /\ N * M \in Nat
  OBVIOUS
<1>2. (i - 1) * M + M <= N * M
  <2>1. (i - 1) * M + M = i * M
    OBVIOUS
  <2>2. i * M <= N * M
    OBVIOUS
  <2> QED BY <2>1, <2>2
<1>3. (i - 1) * M + j \in 1 .. N * M
  BY <1>1, <1>2
<1> DEFINE x == ((i - 1) * M + j) - 1
           d == x \div M
           r == x % M
<1>4. x \in Nat /\ x = M * (i - 1) + (j - 1) /\ 0 <= j - 1 /\ j - 1 < M
  BY <1>1
<1>5. d \in Int /\ r \in Int /\ x = M * d + r /\ 0 <= r /\ r < M
  <2> HIDE DEF x
  <2> QED BY <1>1, <1>4
<1> HIDE DEF d, r, x
<1>6. d = i - 1
  <2>1. M * (d - (i - 1)) = (j - 1) - r
    BY <1>1, <1>4, <1>5
  <2>2. CASE d >= (i - 1) + 1
    <3>1. M * (d - (i - 1)) >= M
      BY <1>1, <1>5, <2>2
    <3> QED BY <1>1, <1>4, <1>5, <2>1, <3>1
  <2>3. CASE d <= (i - 1) - 1
    <3>1. M * (d - (i - 1)) <= -M
      BY <1>1, <1>5, <2>3
    <3> QED BY <1>1, <1>4, <1>5, <2>1, <3>1
  <2> QED BY <1>1, <1>5, <2>2, <2>3
<1>7. r = j - 1
  BY <1>1, <1>4, <1>5, <1>6
<1> DEFINE k == (i - 1) * M + j
<1>8. ((k - 1) \div M) + 1 = i /\ ((k - 1) % M) + 1 = j
  BY <1>1, <1>6, <1>7 DEF x, d, r
<1> QED BY <1>3, <1>8 DEF Picks

MoveSet == [trans : Seq(Transports), pos : Seq(Nodes)]

Joined(x, y) == [trans |-> Append(x.trans, y[1]), pos |-> Append(x.pos, y[2])]

Joins(X, Y) == {Joined(x, y) : x \in X, y \in Y}

Product(s, adj) ==
  [k \in 1 .. Len(s) * Len(adj) |->
     Joined(s[((k - 1) \div Len(adj)) + 1], adj[((k - 1) % Len(adj)) + 1])]

LEMMA ProductIs ==
  ASSUME NEW s \in Seq(MoveSet), NEW n \in Nodes
  PROVE  /\ Product(s, Model[n]) \in Seq(MoveSet)
         /\ ToSet(Product(s, Model[n])) = Joins(ToSet(s), ToSet(Model[n]))
<1> DEFINE adj == Model[n]
           N == Len(s)
           M == Len(adj)
           r == Product(s, adj)
<1>1. /\ N \in Nat /\ M \in Nat /\ DOMAIN s = 1 .. N /\ DOMAIN adj = 1 .. M
      /\ \A i \in 1 .. N : s[i] \in MoveSet
      /\ \A j \in 1 .. M : adj[j][1] \in Transports /\ adj[j][2] \in Nodes
  BY EdgeIs
<1> HIDE DEF adj
<1>2. ASSUME NEW x \in MoveSet, NEW y, y[1] \in Transports, y[2] \in Nodes
      PROVE  Joined(x, y) \in MoveSet
  BY <1>2 DEF Joined, MoveSet
<1>3. N * M \in Nat /\ DOMAIN r = 1 .. N * M
  BY <1>1 DEF Product
<1>4. ASSUME NEW k \in 1 .. N * M
      PROVE  \E i \in 1 .. N, j \in 1 .. M : r[k] = Joined(s[i], adj[j])
  <2>1. r[k] = Joined(s[((k - 1) \div M) + 1], adj[((k - 1) % M) + 1])
    BY DEF Product
  <2>2. ((k - 1) \div M) + 1 \in 1 .. N /\ ((k - 1) % M) + 1 \in 1 .. M
    BY <1>1, DivMod1
  <2> QED BY <2>1, <2>2
<1>5. ASSUME NEW i \in 1 .. N, NEW j \in 1 .. M
      PROVE  \E k \in 1 .. N * M : r[k] = Joined(s[i], adj[j])
  <2> HIDE DEF N, M, r
  <2>1. PICK k \in 1 .. N * M : ((k - 1) \div M) + 1 = i /\ ((k - 1) % M) + 1 = j
    <3>1. \E k : Picks(N, M, i, j, k)
      BY <1>1, DivMod2
    <3> QED BY <3>1 DEF Picks
  <2>2. r[k] = Joined(s[((k - 1) \div M) + 1], adj[((k - 1) % M) + 1])
    BY <2>1 DEF Product, r, N, M
  <2> QED BY <2>1, <2>2
<1> HIDE DEF r, N, M
<1>6. r \in Seq(MoveSet)
  <2>1. ASSUME NEW k \in 1 .. N * M PROVE r[k] \in MoveSet
    <3>1. PICK i \in 1 .. N, j \in 1 .. M : r[k] = Joined(s[i], adj[j])
      BY <1>4
    <3>2. s[i] \in MoveSet /\ adj[j][1] \in Transports /\ adj[j][2] \in Nodes
      BY <1>1
    <3> QED BY <1>2, <3>1, <3>2
  <2>2. r = [k \in 1 .. N * M |-> r[k]]
    BY <1>3 DEF r, Product, N, M
  <2>3. r \in [1 .. N * M -> MoveSet]
    BY <2>1, <2>2
  <2> QED BY <1>3, <2>3
<1>7. ToSet(r) = Joins(ToSet(s), ToSet(adj))
  <2>1. /\ ToSet(r) = {r[k] : k \in 1 .. N * M} /\ ToSet(s) = {s[i] : i \in 1 .. N}
        /\ ToSet(adj) = {adj[j] : j \in 1 .. M}
    BY <1>1, <1>3 DEF ToSet
  <2>2. ASSUME NEW z \in ToSet(r) PROVE z \in Joins(ToSet(s), ToSet(adj))
    <3>1. PICK k \in 1 .. N * M : z = r[k]
      BY <2>1
    <3>2. PICK i \in 1 .. N, j \in 1 .. M : r[k] = Joined(s[i], adj[j])
      BY <1>4
    <3> QED BY <2>1, <3>1, <3>2 DEF Joins
  <2>3. ASSUME NEW z \in Joins(ToSet(s), ToSet(adj)) PROVE z \in ToSet(r)
    <3>1. PICK x \in ToSet(s), y \in ToSet(adj) : z = Joined(x, y)
      BY DEF Joins
    <3>2. PICK i \in 1 .. N, j \in 1 .. M : x = s[i] /\ y = adj[j]
      BY <2>1
    <3>3. PICK k \in 1 .. N * M : r[k] = Joined(s[i], adj[j])
      BY <1>5
    <3> QED BY <2>1, <3>1, <3>2, <3>3
  <2> QED BY <2>2, <2>3
<1> QED BY <1>6, <1>7 DEF r, adj

\* The moves of the first a agents.
Partial(pos, a) ==
  {m \in MoveSet :
     /\ Len(m.trans) = a /\ Len(m.pos) = a
     /\ \A b \in 1 .. a : <<m.trans[b], m.pos[b]>> \in ToSet(Model[pos[b]])}

LEMMA AppendIs ==
  ASSUME NEW S, NEW s \in Seq(S), NEW x \in S
  PROVE  /\ Append(s, x) \in Seq(S) /\ Len(Append(s, x)) = Len(s) + 1 /\ Len(s) \in Nat
         /\ Append(s, x)[Len(s) + 1] = x
         /\ \A k \in 1 .. Len(s) : Append(s, x)[k] = s[k]
OBVIOUS

WithoutLast(S, s, a, t) ==
  t \in Seq(S) /\ Len(t) = a - 1 /\ s = Append(t, s[a]) /\ \A b \in 1 .. a - 1 : t[b] = s[b]

LEMMA LessLast ==
  ASSUME NEW S, NEW s \in Seq(S), NEW a \in Nat \ {0}, Len(s) = a
  PROVE  \E t : WithoutLast(S, s, a, t)
<1> DEFINE t == [b \in 1 .. a - 1 |-> s[b]]
<1>1. s \in [1 .. a -> S] /\ a - 1 \in Nat
  OBVIOUS
<1>2. t \in Seq(S) /\ Len(t) = a - 1 /\ \A b \in 1 .. a - 1 : t[b] = s[b]
  <2>1. t \in [1 .. a - 1 -> S]
    BY <1>1
  <2> QED BY <1>1, <2>1
<1> HIDE DEF t
<1>3. s[a] \in S
  BY <1>1
<1> DEFINE u == Append(t, s[a])
<1>4. u \in Seq(S) /\ Len(u) = a /\ u[a] = s[a] /\ \A b \in 1 .. a - 1 : u[b] = s[b]
  <2>1. /\ u \in Seq(S) /\ Len(u) = Len(t) + 1 /\ u[Len(t) + 1] = s[a]
        /\ \A k \in 1 .. Len(t) : u[k] = t[k]
    BY <1>2, <1>3, AppendIs
  <2> QED BY <1>1, <1>2, <2>1
<1> HIDE DEF u
<1>5. u \in [1 .. a -> S] /\ \A b \in 1 .. a : u[b] = s[b]
  <2>1. \A b \in 1 .. a : b = a \/ b \in 1 .. a - 1
    OBVIOUS
  <2> QED BY <1>4, <2>1
<1>6. u = s
  BY <1>1, <1>5
<1> QED BY <1>2, <1>6 DEF u, WithoutLast

LEMMA PartialGrows ==
  ASSUME NEW pos, NEW a \in Nat \ {0}, pos[a] \in Nodes
  PROVE  Partial(pos, a) = Joins(Partial(pos, a - 1), ToSet(Model[pos[a]]))
<1> DEFINE A == ToSet(Model[pos[a]])
<1>1. \A y \in A : y = <<y[1], y[2]>> /\ y[1] \in Transports /\ y[2] \in Nodes
  BY EdgeIs DEF ToSet
<1> HIDE DEF A
<1>2. ASSUME NEW x \in Partial(pos, a - 1), NEW y \in A PROVE Joined(x, y) \in Partial(pos, a)
  <2> DEFINE m == Joined(x, y)
  <2>1. x \in MoveSet /\ Len(x.trans) = a - 1 /\ Len(x.pos) = a - 1
        /\ \A b \in 1 .. a - 1 : <<x.trans[b], x.pos[b]>> \in ToSet(Model[pos[b]])
    BY DEF Partial
  <2>2. x.trans \in Seq(Transports) /\ x.pos \in Seq(Nodes)
    BY <2>1 DEF MoveSet
  <2>3. m.trans = Append(x.trans, y[1]) /\ m.pos = Append(x.pos, y[2])
        /\ m = [trans |-> m.trans, pos |-> m.pos]
    BY DEF Joined
  <2> HIDE DEF m
  <2>4. m.trans \in Seq(Transports) /\ Len(m.trans) = a /\ m.trans[a] = y[1]
        /\ \A b \in 1 .. a - 1 : m.trans[b] = x.trans[b]
    BY <1>1, <2>1, <2>2, <2>3, AppendIs
  <2>5. m.pos \in Seq(Nodes) /\ Len(m.pos) = a /\ m.pos[a] = y[2]
        /\ \A b \in 1 .. a - 1 : m.pos[b] = x.pos[b]
    BY <1>1, <2>1, <2>2, <2>3, AppendIs
  <2>6. m \in MoveSet
    BY <2>3, <2>4, <2>5 DEF MoveSet
  <2>7. ASSUME NEW b \in 1 .. a PROVE <<m.trans[b], m.pos[b]>> \in ToSet(Model[pos[b]])
    <3>1. CASE b = a
      <4>1. <<m.trans[b], m.pos[b]>> = y
        BY <1>1, <2>4, <2>5, <3>1
      <4> QED BY <3>1, <4>1 DEF A
    <3>2. CASE b # a
      <4>1. b \in 1 .. a - 1
        BY <3>2
      <4> QED BY <2>1, <2>4, <2>5, <4>1
    <3> QED BY <3>1, <3>2
  <2> QED BY <2>4, <2>5, <2>6, <2>7 DEF Partial, m
<1>3. ASSUME NEW m \in Partial(pos, a)
      PROVE  \E x \in Partial(pos, a - 1), y \in A : m = Joined(x, y)
  <2>1. m \in MoveSet /\ Len(m.trans) = a /\ Len(m.pos) = a
        /\ \A b \in 1 .. a : <<m.trans[b], m.pos[b]>> \in ToSet(Model[pos[b]])
    BY DEF Partial
  <2>2. m.trans \in Seq(Transports) /\ m.pos \in Seq(Nodes) /\ m = [trans |-> m.trans, pos |-> m.pos]
    BY <2>1 DEF MoveSet
  <2>8. (\E t : WithoutLast(Transports, m.trans, a, t)) /\ \E u : WithoutLast(Nodes, m.pos, a, u)
    BY <2>1, <2>2, LessLast
  <2>3. PICK t \in Seq(Transports) : Len(t) = a - 1 /\ m.trans = Append(t, m.trans[a])
                                     /\ \A b \in 1 .. a - 1 : t[b] = m.trans[b]
    BY <2>8 DEF WithoutLast
  <2>4. PICK u \in Seq(Nodes) : Len(u) = a - 1 /\ m.pos = Append(u, m.pos[a])
                                /\ \A b \in 1 .. a - 1 : u[b] = m.pos[b]
    BY <2>8 DEF WithoutLast
  <2> DEFINE x == [trans |-> t, pos |-> u]
             y == <<m.trans[a], m.pos[a]>>
  <2>5. x \in Partial(pos, a - 1)
    <3>1. \A b \in 1 .. a - 1 : b \in 1 .. a /\ t[b] = m.trans[b] /\ u[b] = m.pos[b]
      BY <2>3, <2>4
    <3>2. x \in MoveSet /\ x.trans = t /\ x.pos = u
      BY DEF MoveSet
    <3> QED BY <2>1, <2>3, <2>4, <3>1, <3>2 DEF Partial
  <2>6. y \in A
    <3>1. a \in 1 .. a
      OBVIOUS
    <3> QED BY <2>1, <3>1 DEF A
  <2>7. m = Joined(x, y)
    BY <2>2, <2>3, <2>4 DEF Joined
  <2> QED BY <2>5, <2>6, <2>7
<1>4. Partial(pos, a) = Joins(Partial(pos, a - 1), A)
  BY <1>2, <1>3 DEF Joins
<1> QED BY <1>4 DEF A

MovesEqn(pos, f) ==
  f = [a \in 0 .. Len(pos) |->
         IF a = 0 THEN <<[trans |-> <<>>, pos |-> <<>>]>>
         ELSE Product(f[a - 1], Model[pos[a]])]

\* Moves(pos) is every way in which all agents can move from pos.
LEMMA MovesAre ==
  ASSUME NEW pos \in Seq(Nodes)
  PROVE  Moves(pos) \in Seq(MoveSet) /\ ToSet(Moves(pos)) = Partial(pos, Len(pos))
<1> DEFINE p == Len(pos)
           start == <<[trans |-> <<>>, pos |-> <<>>]>>
           F == [a \in 1 .. p |-> [s \in Seq(MoveSet) |-> Product(s, Model[pos[a]])]]
           U == CHOOSE f : MovesEqn(pos, f)
           S == {a \in 0 .. p : U[a] \in Seq(MoveSet) /\ ToSet(U[a]) = Partial(pos, a)}
<1>1. p \in Nat /\ \A a \in 1 .. p : pos[a] \in Nodes
  OBVIOUS
<1> HIDE DEF p
<1>2. F \in [1 .. p -> [Seq(MoveSet) -> Seq(MoveSet)]]
  BY <1>1, ProductIs
<1>3. \A a \in 1 .. p : \A s \in Seq(MoveSet) : F[a][s] = Product(s, Model[pos[a]])
  OBVIOUS
<1> HIDE DEF F
<1>4. start \in Seq(MoveSet) /\ ToSet(start) = {[trans |-> <<>>, pos |-> <<>>]}
  BY DEF MoveSet, ToSet
<1> HIDE DEF start
<1>5. PICK f : RecursesTo(p, Seq(MoveSet), start, F, f)
  BY <1>1, <1>2, <1>4, BoundedRecursion
<1>6. f \in [0 .. p -> Seq(MoveSet)] /\ f[0] = start /\ \A a \in 1 .. p : f[a] = F[a][f[a - 1]]
  BY <1>5 DEF RecursesTo
<1>7. MovesEqn(pos, f)
  <2>1. ASSUME NEW a \in 1 .. p PROVE f[a] = Product(f[a - 1], Model[pos[a]])
    <3>1. a - 1 \in 0 .. p
      BY <1>1
    <3>2. f[a - 1] \in Seq(MoveSet) /\ f[a] = F[a][f[a - 1]]
      BY <1>6, <3>1
    <3> QED BY <1>3, <3>2
  <2>2. \A a \in 0 .. p : f[a] = IF a = 0 THEN start ELSE Product(f[a - 1], Model[pos[a]])
    BY <1>1, <1>6, <2>1
  <2>3. f = [a \in 0 .. p |-> f[a]]
    BY <1>6
  <2> QED BY <2>2, <2>3 DEF MovesEqn, p, start
<1>8. MovesEqn(pos, U)
  BY <1>7
<1>9. Moves(pos) = U[p]
  BY DEF Moves, MovesEqn, Product, Joined, p
<1> HIDE DEF U
<1>10. U[0] = start /\ \A a \in 1 .. p : U[a] = Product(U[a - 1], Model[pos[a]])
  <2>1. U = [a \in 0 .. p |-> IF a = 0 THEN start ELSE Product(U[a - 1], Model[pos[a]])]
    BY <1>8 DEF MovesEqn, p, start
  <2>2. 0 \in 0 .. p /\ \A a \in 1 .. p : a \in 0 .. p /\ a # 0
    BY <1>1
  <2> QED BY <2>1, <2>2
<1>11. 0 \in S
  <2>1. Partial(pos, 0) = {[trans |-> <<>>, pos |-> <<>>]}
    <3>1. \A m \in Partial(pos, 0) : m = [trans |-> <<>>, pos |-> <<>>]
      <4> SUFFICES ASSUME NEW m \in Partial(pos, 0) PROVE m = [trans |-> <<>>, pos |-> <<>>]
        OBVIOUS
      <4>1. m \in MoveSet /\ Len(m.trans) = 0 /\ Len(m.pos) = 0
        BY DEF Partial
      <4>2. m.trans \in Seq(Transports) /\ m.pos \in Seq(Nodes) /\ m = [trans |-> m.trans, pos |-> m.pos]
        BY <4>1 DEF MoveSet
      <4>3. m.trans = <<>> /\ m.pos = <<>>
        BY <4>1, <4>2
      <4> QED BY <4>2, <4>3
    <3>2. [trans |-> <<>>, pos |-> <<>>] \in Partial(pos, 0)
      BY DEF Partial, MoveSet
    <3> QED BY <3>1, <3>2
  <2>2. U[0] \in Seq(MoveSet) /\ ToSet(U[0]) = Partial(pos, 0)
    BY <1>4, <1>10, <2>1
  <2> QED BY <1>1, <2>2
<1>12. ASSUME NEW a \in 1 .. p, a - 1 \in S PROVE a \in S
  <2>1. U[a - 1] \in Seq(MoveSet) /\ ToSet(U[a - 1]) = Partial(pos, a - 1)
    BY <1>12
  <2>2. pos[a] \in Nodes /\ a \in Nat \ {0} /\ a \in 0 .. p /\ U[a] = Product(U[a - 1], Model[pos[a]])
    BY <1>1, <1>10
  <2>3. /\ U[a] \in Seq(MoveSet)
        /\ ToSet(U[a]) = Joins(ToSet(U[a - 1]), ToSet(Model[pos[a]]))
    BY <2>1, <2>2, ProductIs
  <2>4. ToSet(U[a]) = Partial(pos, a)
    BY <2>1, <2>2, <2>3, PartialGrows
  <2> QED BY <2>2, <2>3, <2>4
<1>13. p \in S
  <2> HIDE DEF S
  <2>1. 0 .. p \subseteq S
    BY <1>1, <1>11, <1>12, BoundedInduct
  <2> QED BY <1>1, <2>1
<1> QED BY <1>9, <1>13 DEF p

-------------------------------------------------------------------------------
(***************************************************************************)
(* The states that are opened, for an exercise and its tables.             *)
(***************************************************************************)
TicketSet == [Transports -> Int \union {Inf}]

PathIs(e, p) ==
  /\ p \in Seq(MoveSet) /\ p # <<>> /\ p[1].pos = e.init
  /\ \A k \in 1 .. Len(p) : Len(p[k].pos) = Len(e.init)
  /\ \A k \in 2 .. Len(p) : p[k] \in Partial(p[k - 1].pos, Len(e.init)) /\ allDifferent(p[k].pos)

StateSet == [path : Seq(MoveSet), tickets : TicketSet, depth : Nat, heuristic : Nat]

PosOf(s) == Last(s.path).pos

StateIs(e, H, s) ==
  /\ s \in StateSet /\ PathIs(e, s.path) /\ s.depth = Len(s.path)
  /\ s.depth = 1 \/ s.depth <= e.limitdepth
  /\ s.heuristic = HeurOf(H, e, PosOf(s))

LEMMA SeqPosition ==
  ASSUME NEW e \in Exercises, NEW pos \in Seq(Nodes), Len(pos) = Len(e.init)
  PROVE  pos \in Positions(e) /\ DOMAIN pos = 1 .. Len(e.init)
<1>1. Len(e.init) \in Nat
  BY ExerciseIs
<1> QED BY <1>1 DEF Positions

LEMMA PathEnd ==
  ASSUME NEW e \in Exercises, NEW p, PathIs(e, p)
  PROVE  /\ Len(p) \in Nat \ {0} /\ Last(p) = p[Len(p)] /\ Last(p) \in MoveSet
         /\ Last(p).pos \in Seq(Nodes) /\ Len(Last(p).pos) = Len(e.init)
         /\ Last(p).pos \in Positions(e)
<1>1. p \in Seq(MoveSet) /\ Len(p) \in Nat \ {0} /\ Len(p) \in 1 .. Len(p) /\ p[Len(p)] \in MoveSet
  <2>1. p \in Seq(MoveSet) /\ p # <<>>
    BY DEF PathIs
  <2>2. Len(p) \in Nat \ {0}
    BY <2>1
  <2>3. Len(p) \in 1 .. Len(p)
    BY <2>2
  <2> QED BY <2>1, <2>2, <2>3
<1>2. Last(p) = p[Len(p)]
  BY DEF Last
<1>3. Last(p).pos \in Seq(Nodes) /\ Len(Last(p).pos) = Len(e.init)
  BY <1>1, <1>2 DEF PathIs, MoveSet
<1> QED BY <1>1, <1>2, <1>3, SeqPosition

LEMMA StateFacts ==
  ASSUME NEW e \in Exercises, NEW H, NEW s, StateIs(e, H, s)
  PROVE  /\ PosOf(s) \in Seq(Nodes) /\ Len(PosOf(s)) = Len(e.init) /\ PosOf(s) \in Positions(e)
         /\ s.depth \in Nat \ {0} /\ s.heuristic \in Nat /\ Cost(s) = s.depth + s.heuristic
         /\ Cost(s) \in Nat /\ s.path \in Seq(MoveSet) /\ s.tickets \in TicketSet
         /\ s.path # <<>>
<1>1. s \in StateSet /\ PathIs(e, s.path) /\ s.depth = Len(s.path)
  BY DEF StateIs
<1>2. /\ s.path \in Seq(MoveSet) /\ s.tickets \in TicketSet /\ s.depth \in Nat /\ s.heuristic \in Nat
  BY <1>1 DEF StateSet
<1>3. Cost(s) = s.depth + s.heuristic /\ Cost(s) \in Nat
  BY <1>2 DEF Cost
<1>4. PosOf(s) = Last(s.path).pos
  BY DEF PosOf
<1>5. s.path # <<>>
  BY <1>1 DEF PathIs
<1> QED BY <1>1, <1>2, <1>3, <1>4, <1>5, PathEnd

Expanded(e, H, s, m) ==
  [path |-> Append(s.path, m), tickets |-> Spend(s.tickets, m.trans),
   depth |-> Len(Append(s.path, m)), heuristic |-> HeurOf(H, e, Last(Append(s.path, m)).pos)]

LEMMA ExpandIs ==
  ASSUME NEW s, NEW m
  PROVE  expand(s, m) = Expanded(exercise, heur, s, m)
<1>1. expand(s, m) = State(Append(s.path, m), Spend(s.tickets, m.trans))
  BY DEF expand
<1> DEFINE p == Append(s.path, m)
           t == Spend(s.tickets, m.trans)
           h == heuristic(Last(p).pos, GoalsOf(exercise))
<1>2. State(p, t) = [path |-> p, tickets |-> t, depth |-> Len(p), heuristic |-> h]
  BY DEF State
<1>3. h = HeurOf(heur, exercise, Last(p).pos)
  BY HeuristicIs
<1> HIDE DEF p, t, h
<1>4. expand(s, m) = [path |-> p, tickets |-> t, depth |-> Len(p), heuristic |-> HeurOf(heur, exercise, Last(p).pos)]
  BY <1>1, <1>2, <1>3 DEF p, t
<1> QED BY <1>4 DEF Expanded, p, t

LEMMA SpendIs ==
  ASSUME NEW tickets \in TicketSet, NEW trans \in Seq(Transports)
  PROVE  Spend(tickets, trans) \in TicketSet
<1>1. DOMAIN tickets = Transports /\ \A t \in Transports : tickets[t] \in Int \union {Inf}
  BY DEF TicketSet
<1>2. ASSUME NEW t \in Transports
      PROVE  Cardinality({a \in DOMAIN trans : trans[a] = t}) \in Nat
  <2>1. DOMAIN trans = 1 .. Len(trans) /\ Len(trans) \in Nat
    OBVIOUS
  <2>2. IsFiniteSet(DOMAIN trans)
    BY <2>1, FS_Interval
  <2>3. IsFiniteSet({a \in DOMAIN trans : trans[a] = t})
    BY <2>2, FS_Subset
  <2> QED BY <2>3, FS_CardinalityType
<1>3. ASSUME NEW t \in Transports
      PROVE  (IF tickets[t] = Inf THEN Inf
              ELSE tickets[t] - Cardinality({a \in DOMAIN trans : trans[a] = t})) \in Int \union {Inf}
  BY <1>1, <1>2
<1> QED BY <1>1, <1>3 DEF Spend, TicketSet

\* The states that come after s.
KidsOf(e, H, s) ==
  {x \in {Expanded(e, H, s, m) : m \in Partial(PosOf(s), Len(e.init))} :
     allDifferent(PosOf(x)) /\ isValid(x) /\ x.depth <= e.limitdepth}

LEMMA ExpandedIs ==
  ASSUME NEW e, NEW H, Prepared(e, H), NEW s, StateIs(e, H, s),
         NEW m \in Partial(PosOf(s), Len(e.init))
  PROVE  LET x == Expanded(e, H, s, m)
         IN /\ x \in StateSet /\ PosOf(x) = m.pos /\ m.pos \in Positions(e) /\ DOMAIN m.pos = 1 .. Len(e.init)
            /\ x.depth = s.depth + 1 /\ x.tickets = Spend(s.tickets, m.trans)
            /\ x.heuristic = HeurOf(H, e, m.pos) /\ s.heuristic <= x.heuristic + 1
            /\ allDifferent(m.pos) => PathIs(e, x.path) /\ x.depth = Len(x.path)
<1> DEFINE p == Append(s.path, m)
           x == Expanded(e, H, s, m)
           N == Len(s.path)
           agents == Len(e.init)
<1>1. e \in Exercises /\ agents \in Nat \ {0}
  BY ExerciseIs DEF Prepared
<1>2. /\ PosOf(s) \in Seq(Nodes) /\ Len(PosOf(s)) = agents /\ PosOf(s) \in Positions(e)
      /\ s.path \in Seq(MoveSet) /\ s.tickets \in TicketSet
  BY <1>1, StateFacts
<1>3. PathIs(e, s.path) /\ s.depth = N /\ s.heuristic = HeurOf(H, e, PosOf(s))
  BY DEF StateIs
<1>4. /\ m \in MoveSet /\ Len(m.trans) = agents /\ Len(m.pos) = agents
      /\ \A b \in 1 .. agents : <<m.trans[b], m.pos[b]>> \in ToSet(Model[PosOf(s)[b]])
  BY DEF Partial
<1>5. m.trans \in Seq(Transports) /\ m.pos \in Seq(Nodes)
  BY <1>4 DEF MoveSet
<1>6. m.pos \in Positions(e) /\ DOMAIN m.pos = 1 .. agents
  BY <1>1, <1>4, <1>5, SeqPosition
<1>7. /\ p \in Seq(MoveSet) /\ Len(p) = N + 1 /\ N \in Nat \ {0} /\ p[N + 1] = m
      /\ \A k \in 1 .. N : p[k] = s.path[k]
  <2>1. N \in Nat \ {0}
    BY <1>1, <1>3, PathEnd
  <2> QED BY <1>2, <1>4, <2>1, AppendIs
<1>8. x = [path |-> p, tickets |-> Spend(s.tickets, m.trans), depth |-> Len(p),
           heuristic |-> HeurOf(H, e, Last(p).pos)]
  BY DEF Expanded
<1> HIDE DEF p, x, N, agents
<1>9. Last(p) = m
  BY <1>7 DEF Last
<1>10. /\ x.path = p /\ x.depth = N + 1 /\ x.tickets = Spend(s.tickets, m.trans)
       /\ x.heuristic = HeurOf(H, e, m.pos) /\ PosOf(x) = m.pos
  BY <1>7, <1>8, <1>9 DEF PosOf
<1>11. HeurOf(H, e, m.pos) \in Nat /\ HeurOf(H, e, PosOf(s)) \in Nat
  BY <1>2, <1>6, HeurIs
<1>12. x \in StateSet
  <2>1. Spend(s.tickets, m.trans) \in TicketSet
    BY <1>2, <1>5, SpendIs
  <2>2. HeurOf(H, e, Last(p).pos) \in Nat /\ Len(p) \in Nat
    BY <1>7, <1>9, <1>11
  <2> QED BY <1>7, <1>8, <2>1, <2>2 DEF StateSet
<1>13. s.heuristic <= x.heuristic + 1
  <2>1. ASSUME NEW a \in 1 .. agents PROVE Edge(PosOf(s)[a], m.pos[a])
    <3>1. <<m.trans[a], m.pos[a]>> \in ToSet(Model[PosOf(s)[a]])
      BY <1>4
    <3> QED BY <3>1 DEF ToSet, Edge
  <2>2. HeurOf(H, e, PosOf(s)) <= HeurOf(H, e, m.pos) + 1
    BY <1>2, <1>6, <2>1, HeurConsistent DEF agents
  <2> QED BY <1>3, <1>10, <2>2
<1>14. ASSUME allDifferent(m.pos) PROVE PathIs(e, p)
  <2>1. p # <<>> /\ p[1].pos = e.init
    BY <1>3, <1>7 DEF PathIs
  <2>2. ASSUME NEW k \in 1 .. Len(p) PROVE Len(p[k].pos) = agents
    <3>1. k = N + 1 \/ k \in 1 .. N
      BY <1>7
    <3> QED BY <1>3, <1>4, <1>7, <3>1 DEF PathIs, N, agents
  <2>3. ASSUME NEW k \in 2 .. Len(p)
        PROVE  p[k] \in Partial(p[k - 1].pos, agents) /\ allDifferent(p[k].pos)
    <3>1. CASE k = N + 1
      <4>1. p[k] = m /\ p[k - 1] = s.path[N]
        BY <1>7, <3>1
      <4>2. PosOf(s) = s.path[N].pos
        BY DEF PosOf, Last, N
      <4> QED BY <1>14, <4>1, <4>2 DEF agents
    <3>2. CASE k # N + 1
      <4>1. k \in 2 .. N /\ k \in 1 .. N /\ k - 1 \in 1 .. N
        BY <1>7, <3>2
      <4>2. p[k] = s.path[k] /\ p[k - 1] = s.path[k - 1]
        BY <1>7, <4>1
      <4> QED BY <1>3, <4>1, <4>2 DEF PathIs, N, agents
    <3> QED BY <3>1, <3>2
  <2> QED BY <1>7, <2>1, <2>2, <2>3 DEF PathIs, agents
<1>15. allDifferent(m.pos) => PathIs(e, x.path) /\ x.depth = Len(x.path)
  BY <1>7, <1>10, <1>14
<1>16. x.depth = s.depth + 1
  BY <1>3, <1>10
<1> QED BY <1>6, <1>10, <1>12, <1>13, <1>15, <1>16 DEF x, agents

\* They are states, one deeper, and cost no less.
LEMMA KidsAre ==
  ASSUME NEW e, NEW H, Prepared(e, H), NEW s, StateIs(e, H, s), NEW x \in KidsOf(e, H, s)
  PROVE  StateIs(e, H, x) /\ Cost(s) <= Cost(x)
<1>1. PICK m \in Partial(PosOf(s), Len(e.init)) : x = Expanded(e, H, s, m)
  BY DEF KidsOf
<1>2. allDifferent(PosOf(x)) /\ x.depth <= e.limitdepth
  BY DEF KidsOf
<1>3. /\ x \in StateSet /\ PosOf(x) = m.pos /\ x.depth = s.depth + 1
      /\ x.heuristic = HeurOf(H, e, m.pos) /\ s.heuristic <= x.heuristic + 1
      /\ allDifferent(m.pos) => PathIs(e, x.path) /\ x.depth = Len(x.path)
  BY <1>1, ExpandedIs
<1>4. StateIs(e, H, x)
  BY <1>2, <1>3 DEF StateIs
<1>5. e \in Exercises
  BY DEF Prepared
<1>6. /\ Cost(s) = s.depth + s.heuristic /\ Cost(x) = x.depth + x.heuristic
      /\ s.depth \in Nat /\ s.heuristic \in Nat /\ x.depth \in Nat /\ x.heuristic \in Nat
  BY <1>4, <1>5, StateFacts
<1> QED BY <1>3, <1>4, <1>6

-------------------------------------------------------------------------------
(***************************************************************************)
(* The states to expand.                                                   *)
(***************************************************************************)
LEMMA ConcatSet ==
  ASSUME NEW S, NEW s \in Seq(S), NEW t \in Seq(S)
  PROVE  s \o t \in Seq(S) /\ ToSet(s \o t) = ToSet(s) \union ToSet(t)
<1> DEFINE u == s \o t
           M == Len(s)
           N == Len(t)
<1>1. /\ u \in Seq(S) /\ Len(u) = M + N /\ M \in Nat /\ N \in Nat
      /\ \A k \in 1 .. M : u[k] = s[k]
      /\ \A k \in 1 .. N : u[M + k] = t[k]
  BY ConcatFacts
<1>2. DOMAIN u = 1 .. M + N /\ DOMAIN s = 1 .. M /\ DOMAIN t = 1 .. N
  <2>1. DOMAIN u = 1 .. Len(u)
    BY <1>1
  <2> QED BY <1>1, <2>1
<1> HIDE DEF u, M, N
<1>3. ASSUME NEW x \in ToSet(u) PROVE x \in ToSet(s) \union ToSet(t)
  <2>1. PICK k \in 1 .. M + N : x = u[k]
    BY <1>2 DEF ToSet
  <2>2. CASE k \in 1 .. M
    BY <1>1, <1>2, <2>1, <2>2 DEF ToSet
  <2>3. CASE k \notin 1 .. M
    <3>1. k - M \in 1 .. N /\ M + (k - M) = k
      BY <1>1, <2>3
    <3>2. x = t[k - M]
      BY <1>1, <2>1, <3>1
    <3> QED BY <1>2, <3>1, <3>2 DEF ToSet
  <2> QED BY <2>2, <2>3
<1>4. ASSUME NEW x \in ToSet(s) PROVE x \in ToSet(u)
  <2>1. PICK k \in 1 .. M : x = s[k]
    BY <1>2 DEF ToSet
  <2>2. k \in 1 .. M + N /\ u[k] = x
    BY <1>1, <2>1
  <2> QED BY <1>2, <2>2 DEF ToSet
<1>5. ASSUME NEW x \in ToSet(t) PROVE x \in ToSet(u)
  <2>1. PICK k \in 1 .. N : x = t[k]
    BY <1>2 DEF ToSet
  <2>2. M + k \in 1 .. M + N /\ u[M + k] = x
    BY <1>1, <2>1
  <2> QED BY <1>2, <2>2 DEF ToSet
<1> QED BY <1>1, <1>3, <1>4, <1>5 DEF u

LEMMA RemoveAtIs ==
  ASSUME NEW S, NEW s \in Seq(S), NEW i \in 1 .. Len(s)
  PROVE  /\ RemoveAt(s, i) \in Seq(S) /\ ToSet(RemoveAt(s, i)) \subseteq ToSet(s)
         /\ \A j \in 1 .. Len(s) : j # i => s[j] \in ToSet(RemoveAt(s, i))
<1> DEFINE N == Len(s)
           t == SubSeq(s, 1, i - 1)
           u == SubSeq(s, i + 1, N)
<1>1. N \in Nat /\ DOMAIN s = 1 .. N /\ i \in 1 .. N
  OBVIOUS
<1>2. t \in Seq(S) /\ Len(t) = i - 1 /\ \A k \in 1 .. i - 1 : t[k] = s[k]
  OBVIOUS
<1>3. u \in Seq(S) /\ Len(u) = N - i /\ \A k \in 1 .. N - i : u[k] = s[i + k]
  OBVIOUS
<1>4. RemoveAt(s, i) = t \o u
  BY DEF RemoveAt
<1> HIDE DEF t, u
<1>5. t \o u \in Seq(S) /\ ToSet(t \o u) = ToSet(t) \union ToSet(u)
  BY <1>2, <1>3, ConcatSet
<1>6. DOMAIN t = 1 .. i - 1 /\ DOMAIN u = 1 .. N - i
  BY <1>2, <1>3
<1> HIDE DEF N
<1>7. ToSet(t) = {s[k] : k \in 1 .. i - 1}
  BY <1>2, <1>6 DEF ToSet
<1>8. ToSet(u) = {s[i + k] : k \in 1 .. N - i}
  BY <1>3, <1>6 DEF ToSet
<1>9. ToSet(t) \union ToSet(u) \subseteq ToSet(s)
  <2>1. ToSet(s) = {s[k] : k \in 1 .. N}
    BY <1>1 DEF ToSet
  <2>2. \A k \in 1 .. i - 1 : k \in 1 .. N
    BY <1>1
  <2>3. \A k \in 1 .. N - i : i + k \in 1 .. N
    BY <1>1
  <2> QED BY <1>7, <1>8, <2>1, <2>2, <2>3
<1>10. ASSUME NEW j \in 1 .. N, j # i PROVE s[j] \in ToSet(t) \union ToSet(u)
  <2>1. CASE j < i
    <3>1. j \in 1 .. i - 1
      BY <1>1, <2>1
    <3> QED BY <1>7, <3>1
  <2>2. CASE ~ j < i
    <3>1. j - i \in 1 .. N - i /\ i + (j - i) = j
      BY <1>1, <1>10, <2>2
    <3>2. s[i + (j - i)] \in ToSet(u)
      BY <1>8, <3>1
    <3> QED BY <3>1, <3>2
  <2> QED BY <2>1, <2>2
<1> QED BY <1>4, <1>5, <1>9, <1>10 DEF N

OpenedIs(e, H, states) ==
  states \in Seq(StateSet) /\ \A s \in ToSet(states) : StateIs(e, H, s)

\* The state that is expanded costs least.
LEMMA FirstIs ==
  ASSUME NEW e \in Exercises, NEW H, NEW states, OpenedIs(e, H, states), states # <<>>
  PROVE  /\ First(states) \in 1 .. Len(states) /\ states[First(states)] \in ToSet(states)
         /\ \A s \in ToSet(states) : Cost(states[First(states)]) <= Cost(s)
<1> DEFINE cost == [k \in DOMAIN states |-> Cost(states[k])]
           N == Len(states)
           B == {cost[k] : k \in DOMAIN cost}
           least == LeastOf(B)
           K == {k \in 1 .. N : cost[k] = least}
<1>1. N \in Nat \ {0} /\ DOMAIN states = 1 .. N /\ DOMAIN cost = 1 .. N
  <2>1. states \in Seq(StateSet)
    BY DEF OpenedIs
  <2> QED BY <2>1
<1>2. ToSet(states) = {states[k] : k \in 1 .. N}
  BY <1>1 DEF ToSet
<1>3. \A k \in 1 .. N : cost[k] = Cost(states[k]) /\ Cost(states[k]) \in Nat
  <2>1. \A k \in 1 .. N : StateIs(e, H, states[k])
    BY <1>2 DEF OpenedIs
  <2> QED BY <1>1, <2>1, StateFacts
<1> DEFINE Chosen(k) == cost[k] = least /\ \A j \in 1 .. k - 1 : cost[j] # least
<1>10. First(states) = CHOOSE k \in DOMAIN cost : Chosen(k)
  BY DEF First
<1> HIDE DEF cost, N
<1>4. B \in SUBSET Nat /\ B # {} /\ B = {cost[k] : k \in 1 .. N}
  <2>1. 1 \in 1 .. N
    BY <1>1
  <2> QED BY <1>1, <1>3, <2>1
<1>5. least \in B /\ \A b \in B : least <= b
  <2> HIDE DEF B
  <2> QED BY <1>4, LeastIs
<1>6. PICK k \in 1 .. N : cost[k] = least
  BY <1>4, <1>5
<1>7. PICK m \in K : \A j \in K : m <= j
  <2>1. K \in SUBSET Nat /\ K # {}
    <3>1. k \in K
      BY <1>6
    <3> HIDE DEF least
    <3>2. \A i \in K : i \in Nat
      BY <1>1
    <3> QED BY <3>1, <3>2
  <2> HIDE DEF K
  <2> QED BY <2>1, LeastNumber
<1> HIDE DEF least
<1>8. m \in 1 .. N /\ cost[m] = least /\ \A j \in 1 .. m - 1 : cost[j] # least
  <2>1. ASSUME NEW j \in 1 .. m - 1, cost[j] = least PROVE FALSE
    <3>1. j \in K
      BY <1>1, <1>7, <2>1
    <3> QED BY <1>7, <3>1
  <2> QED BY <1>7, <2>1
<1>9. \E i \in DOMAIN cost : Chosen(i)
  BY <1>1, <1>8
<1>11. First(states) \in 1 .. N /\ cost[First(states)] = least
  <2> HIDE DEF Chosen
  <2>1. First(states) \in DOMAIN cost /\ Chosen(First(states))
    BY <1>9, <1>10, Zenon
  <2> QED BY <1>1, <2>1 DEF Chosen
<1>12. ASSUME NEW s \in ToSet(states) PROVE Cost(states[First(states)]) <= Cost(s)
  <2>1. PICK j \in 1 .. N : s = states[j]
    BY <1>2
  <2>2. least <= cost[j]
    BY <1>4, <1>5
  <2> QED BY <1>3, <1>11, <2>1, <2>2
<1> QED BY <1>2, <1>11, <1>12 DEF N

MayFollow(e, x) == allDifferent(PosOf(x)) /\ isValid(x) /\ x.depth <= e.limitdepth

Following(e, x) == {y \in {x} : MayFollow(e, y)}

\* A state put before the others, if it may follow.
Put(e, x, states) == IF MayFollow(e, x) THEN <<x>> \o states ELSE states

LEMMA PutIs ==
  ASSUME NEW e, NEW x \in StateSet, NEW states \in Seq(StateSet)
  PROVE  /\ Put(e, x, states) \in Seq(StateSet)
         /\ ToSet(Put(e, x, states)) = ToSet(states) \union Following(e, x)
<1> DEFINE t == <<x>>
<1>1. t \in Seq(StateSet) /\ ToSet(t) = {x}
  BY DEF ToSet
<1> HIDE DEF t
<1>2. t \o states \in Seq(StateSet) /\ ToSet(t \o states) = {x} \union ToSet(states)
  BY <1>1, ConcatSet
<1>3. Put(e, x, states) = IF MayFollow(e, x) THEN t \o states ELSE states
  BY DEF Put, t
<1> QED BY <1>2, <1>3 DEF Following

ExpansionEqn(e, H, s, moves, f) ==
  f = [k \in 0 .. Len(moves) |->
         IF k = 0 THEN <<>> ELSE Put(e, Expanded(e, H, s, moves[k]), f[k - 1])]

\* Expand puts the states that come after s on opened, and nothing else.
LEMMA ExpansionIs ==
  ASSUME Prepared(exercise, heur), NEW s, StateIs(exercise, heur, s)
  PROVE  /\ Expansion(s) \in Seq(StateSet)
         /\ ToSet(Expansion(s)) = KidsOf(exercise, heur, s)
<1> DEFINE e == exercise
           H == heur
           moves == Moves(PosOf(s))
           N == Len(moves)
           X(k) == Expanded(e, H, s, moves[k])
           F == [k \in 1 .. N |-> [states \in Seq(StateSet) |-> Put(e, X(k), states)]]
           U == CHOOSE f : ExpansionEqn(e, H, s, moves, f)
           C(k) == {x \in {X(i) : i \in 1 .. k} : MayFollow(e, x)}
           S == {k \in 0 .. N : U[k] \in Seq(StateSet) /\ ToSet(U[k]) = C(k)}
<1>1. e \in Exercises /\ PosOf(s) \in Seq(Nodes) /\ Len(PosOf(s)) = Len(e.init)
  BY StateFacts DEF Prepared
<1>2. moves \in Seq(MoveSet) /\ ToSet(moves) = Partial(PosOf(s), Len(e.init))
  BY <1>1, MovesAre
<1>3. N \in Nat /\ DOMAIN moves = 1 .. N /\ ToSet(moves) = {moves[k] : k \in 1 .. N}
  BY <1>2 DEF ToSet
<1>4. ASSUME NEW k \in 1 .. N PROVE X(k) \in StateSet /\ PosOf(X(k)) = moves[k].pos
  <2>1. moves[k] \in Partial(PosOf(s), Len(e.init))
    BY <1>2, <1>3
  <2> QED BY <2>1, ExpandedIs
<1>5. Expansion(s) = U[N]
  <2> DEFINE Eqn(f) ==
        f = [k \in 0 .. N |->
               IF k = 0 THEN <<>>
               ELSE IF allDifferent(moves[k].pos) /\ isValid(expand(s, moves[k]))
                       /\ expand(s, moves[k]).depth <= exercise.limitdepth
                    THEN <<expand(s, moves[k])>> \o f[k - 1]
                    ELSE f[k - 1]]
  <2>1. Expansion(s) = (CHOOSE f : Eqn(f))[N]
    BY DEF Expansion, PosOf
  <2>2. \A f : Eqn(f) <=> ExpansionEqn(e, H, s, moves, f)
    <3> SUFFICES ASSUME NEW f PROVE Eqn(f) <=> ExpansionEqn(e, H, s, moves, f)
      OBVIOUS
    <3>1. \A k \in 1 .. N : expand(s, moves[k]) = X(k) /\ PosOf(X(k)) = moves[k].pos
      BY <1>4, ExpandIs
    <3> HIDE DEF X, moves
    <3>2. \A k \in 0 .. N :
            (IF k = 0 THEN <<>>
             ELSE IF allDifferent(moves[k].pos) /\ isValid(expand(s, moves[k]))
                       /\ expand(s, moves[k]).depth <= exercise.limitdepth
                    THEN <<expand(s, moves[k])>> \o f[k - 1]
                    ELSE f[k - 1])
            = IF k = 0 THEN <<>> ELSE Put(e, X(k), f[k - 1])
      <4> SUFFICES ASSUME NEW k \in 1 .. N
                   PROVE  (IF allDifferent(moves[k].pos) /\ isValid(expand(s, moves[k]))
                              /\ expand(s, moves[k]).depth <= exercise.limitdepth
                           THEN <<expand(s, moves[k])>> \o f[k - 1]
                           ELSE f[k - 1])
                          = Put(e, X(k), f[k - 1])
        BY <1>3
      <4> QED BY <3>1 DEF Put, MayFollow
    <3>3. Eqn(f) <=> f = [k \in 0 .. N |-> IF k = 0 THEN <<>> ELSE Put(e, X(k), f[k - 1])]
      BY <3>2
    <3> QED BY <3>3 DEF ExpansionEqn, X
  <2> HIDE DEF Eqn
  <2>3. (CHOOSE f : Eqn(f)) = U
    BY <2>2
  <2> QED BY <2>1, <2>3
<1> HIDE DEF moves, N, U, X
<1>6. F \in [1 .. N -> [Seq(StateSet) -> Seq(StateSet)]]
  BY <1>4, PutIs
<1>7. \A k \in 1 .. N : \A states \in Seq(StateSet) : F[k][states] = Put(e, X(k), states)
  OBVIOUS
<1> HIDE DEF F
<1>8. PICK f : RecursesTo(N, Seq(StateSet), <<>>, F, f)
  <2>1. <<>> \in Seq(StateSet)
    OBVIOUS
  <2> QED BY <1>3, <1>6, <2>1, BoundedRecursion
<1>9. f \in [0 .. N -> Seq(StateSet)] /\ f[0] = <<>> /\ \A k \in 1 .. N : f[k] = F[k][f[k - 1]]
  BY <1>8 DEF RecursesTo
<1>10. ExpansionEqn(e, H, s, moves, f)
  <2>1. ASSUME NEW k \in 1 .. N PROVE f[k] = Put(e, X(k), f[k - 1])
    <3>1. k - 1 \in 0 .. N
      BY <1>3
    <3>2. f[k - 1] \in Seq(StateSet) /\ f[k] = F[k][f[k - 1]]
      BY <1>9, <3>1
    <3> QED BY <1>7, <3>2
  <2>2. \A k \in 0 .. N : f[k] = IF k = 0 THEN <<>> ELSE Put(e, X(k), f[k - 1])
    BY <1>3, <1>9, <2>1
  <2>3. f = [k \in 0 .. N |-> f[k]]
    BY <1>9
  <2> QED BY <2>2, <2>3 DEF ExpansionEqn, N, X
<1>11. ExpansionEqn(e, H, s, moves, U)
  BY <1>10 DEF U
<1>12. U[0] = <<>> /\ \A k \in 1 .. N : U[k] = Put(e, X(k), U[k - 1])
  <2>1. U = [k \in 0 .. N |-> IF k = 0 THEN <<>> ELSE Put(e, X(k), U[k - 1])]
    BY <1>11 DEF ExpansionEqn, N, X
  <2>2. 0 \in 0 .. N /\ \A k \in 1 .. N : k \in 0 .. N /\ k # 0
    BY <1>3
  <2> QED BY <2>1, <2>2
<1>13. 0 \in S
  <2>1. C(0) = {} /\ 0 \in 0 .. N
    BY <1>3
  <2>2. <<>> \in Seq(StateSet) /\ ToSet(<<>>) = {}
    BY DEF ToSet
  <2> QED BY <1>12, <2>1, <2>2
<1>14. ASSUME NEW k \in 1 .. N, k - 1 \in S PROVE k \in S
  <2>1. U[k - 1] \in Seq(StateSet) /\ ToSet(U[k - 1]) = C(k - 1)
    BY <1>14
  <2>2. X(k) \in StateSet /\ U[k] = Put(e, X(k), U[k - 1]) /\ k \in 0 .. N
    BY <1>3, <1>4, <1>12
  <2>3. /\ U[k] \in Seq(StateSet)
        /\ ToSet(U[k]) = ToSet(U[k - 1]) \union Following(e, X(k))
    <3> DEFINE x == X(k)
               states == U[k - 1]
    <3>1. x \in StateSet /\ states \in Seq(StateSet) /\ U[k] = Put(e, x, states)
      BY <2>1, <2>2
    <3> HIDE DEF x, states
    <3>2. /\ Put(e, x, states) \in Seq(StateSet)
          /\ ToSet(Put(e, x, states)) = ToSet(states) \union Following(e, x)
      BY <3>1, PutIs
    <3> QED BY <3>1, <3>2 DEF x, states
  <2>4. C(k) = C(k - 1) \union Following(e, X(k))
    <3>1. 1 .. k = (1 .. k - 1) \union {k}
      BY <1>3
    <3> QED BY <3>1 DEF Following
  <2> QED BY <2>1, <2>2, <2>3, <2>4
<1>15. N \in S
  <2> HIDE DEF S
  <2>1. 0 .. N \subseteq S
    BY <1>3, <1>13, <1>14, BoundedInduct
  <2> QED BY <1>3, <2>1
<1>16. C(N) = KidsOf(e, H, s)
  <2>1. {X(i) : i \in 1 .. N} = {Expanded(e, H, s, m) : m \in Partial(PosOf(s), Len(e.init))}
    BY <1>2, <1>3 DEF X
  <2> QED BY <2>1 DEF KidsOf, MayFollow
<1> QED BY <1>5, <1>15, <1>16

-------------------------------------------------------------------------------
(***************************************************************************)
(* The ways that the rules allow.                                          *)
(***************************************************************************)
Leads(e, pos, tickets, m, x) ==
  /\ m \in Partial(pos, Len(e.init)) /\ m.pos = x[1] /\ allDifferent(m.pos)
  /\ Spend(tickets, m.trans) = x[2]
  /\ \A t \in Transports : x[2][t] = Inf \/ x[2][t] >= 0

\* A step is a move of all agents, to different places, that is paid for.
LEMMA StepIs ==
  ASSUME NEW e \in Exercises, NEW pos \in Positions(e), NEW tickets \in TicketSet,
         NEW x \in Step(pos, tickets)
  PROVE  /\ x = <<x[1], x[2]>> /\ x[1] \in Positions(e) /\ x[2] \in TicketSet
         /\ \E m : Leads(e, pos, tickets, m, x)
<1> DEFINE N == Len(e.init)
<1>1. N \in Nat \ {0} /\ DOMAIN pos = 1 .. N /\ \A a \in 1 .. N : pos[a] \in Nodes
  BY ExerciseIs DEF Positions
<1> HIDE DEF N
<1>2. PICK f \in [DOMAIN pos -> UNION {DOMAIN Model[n] : n \in Nodes}] :
        /\ \A a \in DOMAIN pos : f[a] \in DOMAIN Model[pos[a]]
        /\ \A a, b \in DOMAIN pos : a = b \/ Model[pos[a]][f[a]][2] # Model[pos[b]][f[b]][2]
        /\ \A t \in Transports :
             tickets[t] = Inf \/ Cardinality({a \in DOMAIN pos : Model[pos[a]][f[a]][1] = t}) <= tickets[t]
        /\ x = <<[a \in DOMAIN pos |-> Model[pos[a]][f[a]][2]],
                 [t \in Transports |->
                    IF tickets[t] = Inf THEN Inf
                    ELSE tickets[t] - Cardinality({a \in DOMAIN pos : Model[pos[a]][f[a]][1] = t})]>>
  BY DEF Step
<1> DEFINE tr == [a \in 1 .. N |-> Model[pos[a]][f[a]][1]]
           ps == [a \in 1 .. N |-> Model[pos[a]][f[a]][2]]
           m  == [trans |-> tr, pos |-> ps]
<1>3. ASSUME NEW a \in 1 .. N
      PROVE  /\ Model[pos[a]][f[a]] = <<tr[a], ps[a]>> /\ tr[a] \in Transports /\ ps[a] \in Nodes
             /\ <<tr[a], ps[a]>> \in ToSet(Model[pos[a]])
  <2>1. f[a] \in DOMAIN Model[pos[a]] /\ pos[a] \in Nodes
    BY <1>1, <1>2
  <2>2. /\ Model[pos[a]][f[a]] = <<Model[pos[a]][f[a]][1], Model[pos[a]][f[a]][2]>>
        /\ Model[pos[a]][f[a]][1] \in Transports /\ Model[pos[a]][f[a]][2] \in Nodes
    BY <2>1, EdgeIs
  <2>3. Model[pos[a]][f[a]] \in ToSet(Model[pos[a]])
    BY <2>1 DEF ToSet
  <2> QED BY <2>2, <2>3
<1>4. /\ x[1] = ps
      /\ x = <<x[1], x[2]>>
      /\ x[2] = [t \in Transports |->
                   IF tickets[t] = Inf THEN Inf ELSE tickets[t] - Cardinality({a \in 1 .. N : tr[a] = t})]
  <2>1. \A t \in Transports : {a \in DOMAIN pos : Model[pos[a]][f[a]][1] = t} = {a \in 1 .. N : tr[a] = t}
    BY <1>1
  <2>2. x[2] = [t \in Transports |->
                  IF tickets[t] = Inf THEN Inf
                  ELSE tickets[t] - Cardinality({a \in DOMAIN pos : Model[pos[a]][f[a]][1] = t})]
    BY <1>2
  <2>3. x[2] = [t \in Transports |->
                   IF tickets[t] = Inf THEN Inf ELSE tickets[t] - Cardinality({a \in 1 .. N : tr[a] = t})]
    BY <2>1, <2>2
  <2>4. x[1] = ps /\ x = <<x[1], x[2]>>
    BY <1>1, <1>2
  <2> QED BY <2>3, <2>4
<1>5. \A t \in Transports : tickets[t] = Inf \/ Cardinality({a \in 1 .. N : tr[a] = t}) <= tickets[t]
  <2>1. \A t \in Transports : {a \in DOMAIN pos : Model[pos[a]][f[a]][1] = t} = {a \in 1 .. N : tr[a] = t}
    BY <1>1
  <2> QED BY <1>2, <2>1
<1>6. \A a, b \in 1 .. N : a # b => ps[a] # ps[b]
  BY <1>1, <1>2
<1> HIDE DEF tr, ps
<1>7. tr = [a \in 1 .. N |-> tr[a]] /\ ps = [a \in 1 .. N |-> ps[a]]
  BY DEF tr, ps
<1>8. tr \in [1 .. N -> Transports] /\ ps \in [1 .. N -> Nodes]
  BY <1>3, <1>7
<1>9. tr \in Seq(Transports) /\ ps \in Seq(Nodes) /\ Len(tr) = N /\ Len(ps) = N
      /\ DOMAIN tr = 1 .. N /\ DOMAIN ps = 1 .. N
  BY <1>1, <1>8
<1>10. m.trans = tr /\ m.pos = ps /\ m \in MoveSet
  BY <1>9 DEF MoveSet
<1> HIDE DEF m
<1>11. m \in Partial(pos, N)
  BY <1>3, <1>9, <1>10 DEF Partial
<1>12. allDifferent(m.pos)
  BY <1>6, <1>9, <1>10 DEF allDifferent
<1>13. Spend(tickets, m.trans) = x[2]
  <2>1. DOMAIN tickets = Transports
    BY DEF TicketSet
  <2> QED BY <1>4, <1>9, <1>10, <2>1 DEF Spend
<1>14. x[2] \in TicketSet
  BY <1>9, <1>10, <1>13, SpendIs
<1>15. ASSUME NEW t \in Transports PROVE x[2][t] = Inf \/ x[2][t] >= 0
  <2>1. x[2][t] = IF tickets[t] = Inf THEN Inf ELSE tickets[t] - Cardinality({a \in 1 .. N : tr[a] = t})
    BY <1>4
  <2>2. Cardinality({a \in 1 .. N : tr[a] = t}) \in Nat
    <3>1. IsFiniteSet(1 .. N)
      BY <1>1, FS_Interval
    <3>2. IsFiniteSet({a \in 1 .. N : tr[a] = t})
      BY <3>1, FS_Subset
    <3> QED BY <3>2, FS_CardinalityType
  <2>3. tickets[t] \in Int \union {Inf}
    BY DEF TicketSet
  <2> QED BY <1>5, <2>1, <2>2, <2>3
<1>16. Leads(e, pos, tickets, m, x)
  BY <1>4, <1>10, <1>11, <1>12, <1>13, <1>15 DEF Leads, N
<1> QED BY <1>1, <1>4, <1>8, <1>14, <1>16 DEF Positions, N

\* A way of L moves.
Walk(e, L, w) ==
  /\ w[0] = <<e.init, e.tickets>>
  /\ \A k \in 1 .. L : w[k] \in Step(w[k - 1][1], w[k - 1][2])

Reaches(e, L, w) == Walk(e, L, w) /\ w[L][1] \in GoalsOf(e)

LEMMA WalkIs ==
  ASSUME NEW e \in Exercises, NEW L \in Nat, NEW w, Walk(e, L, w), NEW k \in 0 .. L
  PROVE  w[k][1] \in Positions(e) /\ w[k][2] \in TicketSet
<1> DEFINE S == {i \in 0 .. L : w[i][1] \in Positions(e) /\ w[i][2] \in TicketSet}
<1>1. 0 \in S
  <2>1. e.init \in Positions(e)
    BY ExerciseIs, SeqPosition
  <2>2. e.tickets \in TicketSet
    <3>1. e.tickets \in [Transports -> Nat \union {Inf}]
      BY ExerciseIs
    <3> QED BY <3>1 DEF TicketSet
  <2>3. w[0][1] = e.init /\ w[0][2] = e.tickets
    BY DEF Walk
  <2> QED BY <2>1, <2>2, <2>3
<1>2. ASSUME NEW i \in 1 .. L, i - 1 \in S PROVE i \in S
  <2>1. w[i - 1][1] \in Positions(e) /\ w[i - 1][2] \in TicketSet /\ i \in 0 .. L
    BY <1>2
  <2>2. w[i] \in Step(w[i - 1][1], w[i - 1][2])
    BY DEF Walk
  <2>3. w[i][1] \in Positions(e) /\ w[i][2] \in TicketSet
    BY <2>1, <2>2, StepIs
  <2> QED BY <2>1, <2>3
<1>3. 0 .. L \subseteq S
  <2> HIDE DEF S
  <2> QED BY <1>1, <1>2, BoundedInduct
<1> QED BY <1>3

\* The heuristic is never more than what is left of a way.
LEMMA Admissible ==
  ASSUME NEW e, NEW H, Prepared(e, H), NEW L \in Nat, NEW w, Reaches(e, L, w), NEW k \in 0 .. L
  PROVE  HeurOf(H, e, w[k][1]) \in Nat /\ HeurOf(H, e, w[k][1]) <= L - k
<1> DEFINE h(i) == HeurOf(H, e, w[i][1])
           S == {i \in 0 .. L : h(L - i) <= i}
<1>1. e \in Exercises /\ Walk(e, L, w)
  BY DEF Prepared, Reaches
<1>2. ASSUME NEW i \in 0 .. L PROVE w[i][1] \in Positions(e) /\ w[i][2] \in TicketSet /\ h(i) \in Nat
  BY <1>1, WalkIs, HeurIs
<1>3. 0 \in S
  <2>1. L \in 0 .. L /\ L - 0 = L
    OBVIOUS
  <2>2. h(L) = 0
    BY <1>2, <2>1, HeurAtGoal DEF Reaches
  <2> QED BY <2>1, <2>2
<1>4. ASSUME NEW i \in 1 .. L, i - 1 \in S PROVE i \in S
  <2> DEFINE a == L - i
  <2>1. a \in 0 .. L /\ a + 1 \in 1 .. L /\ a + 1 \in 0 .. L /\ (a + 1) - 1 = a /\ L - (i - 1) = a + 1
        /\ i \in 0 .. L
    OBVIOUS
  <2>2. h(a + 1) <= i - 1
    BY <1>4, <2>1
  <2> HIDE DEF a
  <2>3. w[a + 1] \in Step(w[a][1], w[a][2])
    BY <1>1, <2>1 DEF Walk
  <2>4. PICK m : Leads(e, w[a][1], w[a][2], m, w[a + 1])
    BY <1>1, <1>2, <2>1, <2>3, StepIs
  <2>5. ASSUME NEW b \in 1 .. Len(e.init) PROVE Edge(w[a][1][b], w[a + 1][1][b])
    <3>1. /\ m.pos = w[a + 1][1]
          /\ <<m.trans[b], m.pos[b]>> \in ToSet(Model[w[a][1][b]])
      BY <2>4 DEF Leads, Partial
    <3> QED BY <3>1 DEF ToSet, Edge
  <2>6. h(a) <= h(a + 1) + 1
    BY <1>2, <2>1, <2>5, HeurConsistent
  <2>7. h(a) \in Nat /\ h(a + 1) \in Nat
    BY <1>2, <2>1
  <2> HIDE DEF h
  <2>8. h(a) <= i
    BY <2>2, <2>6, <2>7
  <2> QED BY <2>1, <2>8 DEF a
<1>5. 0 .. L \subseteq S
  <2> HIDE DEF S
  <2> QED BY <1>3, <1>4, BoundedInduct
<1>6. L - k \in 0 .. L /\ L - (L - k) = k
  OBVIOUS
<1>7. h(k) <= L - k
  BY <1>5, <1>6
<1> QED BY <1>2, <1>7

ReachEqn(e, N, f) ==
  f = [k \in 0 .. N |->
         IF k = 0 THEN {<<e.init, e.tickets>>} ELSE UNION {Step(x[1], x[2]) : x \in f[k - 1]}]

\* What the rules allow within N moves is a way of at most N moves.
LEMMA WithinIs ==
  ASSUME exercise \in Exercises, NEW N \in Nat, GoalWithin(N)
  PROVE  \E L \in 0 .. N : \E w : Reaches(exercise, L, w)
<1> DEFINE e == exercise
           start == <<e.init, e.tickets>>
           C == Positions(e) \X TicketSet
           After(X) == UNION {Step(x[1], x[2]) : x \in X}
           F == [k \in 1 .. N |-> [X \in SUBSET C |-> After(X)]]
           R == CHOOSE f : ReachEqn(e, N, f)
           S == {k \in 0 .. N : \A x \in R[k] : \E w : Walk(e, k, w) /\ w[k] = x}
<1>1. start \in C
  <2>1. e.init \in Positions(e)
    BY ExerciseIs, SeqPosition
  <2>2. e.tickets \in TicketSet
    <3>1. e.tickets \in [Transports -> Nat \union {Inf}]
      BY ExerciseIs
    <3> QED BY <3>1 DEF TicketSet
  <2> QED BY <2>1, <2>2
<1>2. ASSUME NEW X \in SUBSET C PROVE After(X) \in SUBSET C
  <2> SUFFICES ASSUME NEW x \in X, NEW y \in Step(x[1], x[2]) PROVE y \in C
    OBVIOUS
  <2>1. x[1] \in Positions(e) /\ x[2] \in TicketSet
    OBVIOUS
  <2>2. y = <<y[1], y[2]>> /\ y[1] \in Positions(e) /\ y[2] \in TicketSet
    BY <2>1, StepIs
  <2> QED BY <2>2
<1> HIDE DEF C, start
<1>3. F \in [1 .. N -> [SUBSET C -> SUBSET C]]
  BY <1>2
<1>4. \A k \in 1 .. N : \A X \in SUBSET C : F[k][X] = After(X)
  OBVIOUS
<1> HIDE DEF F
<1>5. PICK f : RecursesTo(N, SUBSET C, {start}, F, f)
  <2>1. {start} \in SUBSET C
    BY <1>1
  <2> QED BY <1>3, <2>1, BoundedRecursion
<1>6. f \in [0 .. N -> SUBSET C] /\ f[0] = {start} /\ \A k \in 1 .. N : f[k] = F[k][f[k - 1]]
  BY <1>5 DEF RecursesTo
<1>7. ReachEqn(e, N, f)
  <2>1. ASSUME NEW k \in 1 .. N PROVE f[k] = After(f[k - 1])
    <3>1. k - 1 \in 0 .. N
      OBVIOUS
    <3>2. f[k - 1] \in SUBSET C /\ f[k] = F[k][f[k - 1]]
      BY <1>6, <3>1
    <3> HIDE DEF After
    <3> QED BY <1>4, <3>2
  <2> HIDE DEF After
  <2>2. \A k \in 0 .. N : f[k] = IF k = 0 THEN {start} ELSE After(f[k - 1])
    BY <1>6, <2>1
  <2>3. f = [k \in 0 .. N |-> f[k]]
    BY <1>6
  <2> QED BY <2>2, <2>3 DEF ReachEqn, start, After
<1>8. ReachEqn(e, N, R)
  BY <1>7
<1>9. \E k \in 0 .. N : \E x \in R[k] : x[1] \in GoalsOf(e)
  BY DEF GoalWithin, ReachEqn
<1> HIDE DEF R
<1>10. R[0] = {start} /\ \A k \in 1 .. N : R[k] = After(R[k - 1])
  <2>1. R = [k \in 0 .. N |-> IF k = 0 THEN {start} ELSE After(R[k - 1])]
    BY <1>8 DEF ReachEqn, start
  <2>2. 0 \in 0 .. N /\ \A k \in 1 .. N : k \in 0 .. N /\ k # 0
    OBVIOUS
  <2> HIDE DEF After
  <2> QED BY <2>1, <2>2
<1>11. 0 \in S
  <2>1. ASSUME NEW x \in R[0] PROVE \E w : Walk(e, 0, w) /\ w[0] = x
    <3> DEFINE w == [i \in {0} |-> start]
    <3>1. w[0] = start /\ x = start
      BY <1>10
    <3> HIDE DEF w
    <3>2. Walk(e, 0, w)
      BY <3>1 DEF Walk, start
    <3> QED BY <3>1, <3>2
  <2> QED BY <2>1
<1>12. ASSUME NEW k \in 1 .. N, k - 1 \in S PROVE k \in S
  <2>1. ASSUME NEW x \in R[k] PROVE \E w : Walk(e, k, w) /\ w[k] = x
    <3>1. PICK y \in R[k - 1] : x \in Step(y[1], y[2])
      BY <1>10, <2>1
    <3>2. PICK v : Walk(e, k - 1, v) /\ v[k - 1] = y
      BY <1>12, <3>1
    <3> DEFINE w == [i \in 0 .. k |-> IF i = k THEN x ELSE v[i]]
    <3>3. w[k] = x /\ \A i \in 0 .. k - 1 : w[i] = v[i]
      OBVIOUS
    <3> HIDE DEF w
    <3>4. ASSUME NEW i \in 1 .. k PROVE w[i] \in Step(w[i - 1][1], w[i - 1][2])
      <4>1. w[i - 1] = v[i - 1]
        BY <3>3
      <4>2. CASE i = k
        BY <3>1, <3>2, <3>3, <4>1, <4>2
      <4>3. CASE i # k
        <5>1. i \in 1 .. k - 1 /\ i \in 0 .. k - 1
          BY <4>3
        <5>2. w[i] = v[i] /\ v[i] \in Step(v[i - 1][1], v[i - 1][2])
          BY <3>2, <3>3, <5>1 DEF Walk
        <5> QED BY <4>1, <5>2
      <4> QED BY <4>2, <4>3
    <3>5. w[0] = <<e.init, e.tickets>>
      <4>1. 0 \in 0 .. k - 1
        OBVIOUS
      <4> QED BY <3>2, <3>3, <4>1 DEF Walk
    <3>6. Walk(e, k, w)
      BY <3>4, <3>5 DEF Walk
    <3> QED BY <3>3, <3>6
  <2> QED BY <2>1
<1>13. 0 .. N \subseteq S
  <2> HIDE DEF S
  <2> QED BY <1>11, <1>12, BoundedInduct
<1>14. PICK k \in 0 .. N : \E x \in R[k] : x[1] \in GoalsOf(e)
  BY <1>9
<1>15. PICK x \in R[k] : x[1] \in GoalsOf(e)
  BY <1>14
<1>16. PICK w : Walk(e, k, w) /\ w[k] = x
  BY <1>13
<1>17. Reaches(e, k, w)
  BY <1>15, <1>16 DEF Reaches
<1> QED BY <1>17

\* Some state on opened is on the way, however far, for each way that limitdepth
\* lets the search find.
Kept(e, states) ==
  \A L \in Nat : \A w :
    L + 1 <= e.limitdepth /\ Reaches(e, L, w) =>
      \E s \in ToSet(states), k \in 0 .. L :
        PosOf(s) = w[k][1] /\ s.tickets = w[k][2] /\ s.depth = k + 1

LEMMA OpenedStarts ==
  ASSUME Prepared(exercise, heur)
  PROVE  LET s == State(<<[trans |-> <<>>, pos |-> exercise.init]>>, exercise.tickets)
         IN OpenedIs(exercise, heur, <<s>>) /\ Kept(exercise, <<s>>)
<1> DEFINE e == exercise
           m == [trans |-> <<>>, pos |-> e.init]
           p == <<m>>
           s == State(p, e.tickets)
           states == <<s>>
<1>1. e \in Exercises
  BY DEF Prepared
<1>2. e.init \in Seq(Nodes) /\ e.init \in Positions(e) /\ e.tickets \in TicketSet
  <2>1. e.tickets \in [Transports -> Nat \union {Inf}] /\ e.init \in Seq(Nodes)
    BY <1>1, ExerciseIs
  <2>2. e.tickets \in TicketSet
    BY <2>1 DEF TicketSet
  <2> QED BY <1>1, <2>1, <2>2, SeqPosition
<1>3. m \in MoveSet /\ m.pos = e.init
  BY <1>2 DEF MoveSet
<1> HIDE DEF m
<1>4. p \in Seq(MoveSet) /\ Len(p) = 1 /\ p[1] = m /\ p # <<>>
  BY <1>3
<1>5. Last(p) = m
  BY <1>4 DEF Last
<1> DEFINE h == heuristic(Last(p).pos, GoalsOf(exercise))
<1>6. h = HeurOf(heur, e, e.init)
  BY <1>3, <1>5, HeuristicIs
<1>7. s = [path |-> p, tickets |-> e.tickets, depth |-> Len(p), heuristic |-> h]
  BY DEF State
<1>8. HeurOf(heur, e, e.init) \in Nat
  BY <1>2, HeurIs
<1> HIDE DEF p, h, s
<1>9. /\ s.path = p /\ s.tickets = e.tickets /\ s.depth = 1 /\ s.heuristic = HeurOf(heur, e, e.init)
      /\ PosOf(s) = e.init
  BY <1>3, <1>4, <1>5, <1>6, <1>7 DEF PosOf
<1>10. s \in StateSet
  BY <1>2, <1>4, <1>6, <1>7, <1>8 DEF StateSet
<1>11. PathIs(e, p)
  BY <1>3, <1>4 DEF PathIs
<1>12. StateIs(e, heur, s)
  BY <1>4, <1>9, <1>10, <1>11 DEF StateIs
<1>13. states \in Seq(StateSet) /\ ToSet(states) = {s}
  BY <1>10 DEF ToSet
<1> HIDE DEF states
<1>14. OpenedIs(e, heur, states)
  BY <1>12, <1>13 DEF OpenedIs
<1>15. Kept(e, states)
  <2> SUFFICES ASSUME NEW L \in Nat, NEW w, Reaches(e, L, w)
               PROVE  \E x \in ToSet(states), k \in 0 .. L :
                        PosOf(x) = w[k][1] /\ x.tickets = w[k][2] /\ x.depth = k + 1
    BY DEF Kept
  <2>1. w[0][1] = e.init /\ w[0][2] = e.tickets /\ 0 \in 0 .. L
    BY DEF Reaches, Walk
  <2> QED BY <1>9, <1>13, <2>1
<1> QED BY <1>14, <1>15 DEF states, s, p, m

LEMMA OpenedGoesOn ==
  ASSUME Prepared(exercise, heur), OpenedIs(exercise, heur, opened), Kept(exercise, opened),
         opened # <<>>, ~ isGoal(opened[First(opened)])
  PROVE  LET k == First(opened)
             states == Expansion(opened[k]) \o RemoveAt(opened, k)
         IN /\ OpenedIs(exercise, heur, states) /\ Kept(exercise, states)
            /\ \A x \in ToSet(states) : Cost(opened[k]) <= Cost(x)
<1> DEFINE e == exercise
           H == heur
           i == First(opened)
           s == opened[i]
           kids == Expansion(s)
           rest == RemoveAt(opened, i)
           states == kids \o rest
<1>1. e \in Exercises
  BY DEF Prepared
<1>2. i \in 1 .. Len(opened) /\ s \in ToSet(opened) /\ \A x \in ToSet(opened) : Cost(s) <= Cost(x)
  BY <1>1, FirstIs
<1>3. opened \in Seq(StateSet) /\ \A x \in ToSet(opened) : StateIs(e, H, x)
  BY DEF OpenedIs
<1>4. StateIs(e, H, s)
  BY <1>2, <1>3
<1>5. kids \in Seq(StateSet) /\ ToSet(kids) = KidsOf(e, H, s)
  BY <1>4, ExpansionIs
<1>6. /\ rest \in Seq(StateSet) /\ ToSet(rest) \subseteq ToSet(opened)
      /\ \A j \in 1 .. Len(opened) : j # i => opened[j] \in ToSet(rest)
  BY <1>2, <1>3, RemoveAtIs
<1>7. ~ PosOf(s) \in GoalsOf(e)
  BY DEF isGoal, PosOf
<1>8. DOMAIN opened = 1 .. Len(opened)
  BY <1>3
<1> HIDE DEF kids, rest
<1>9. states \in Seq(StateSet) /\ ToSet(states) = ToSet(kids) \union ToSet(rest)
  BY <1>5, <1>6, ConcatSet
<1> HIDE DEF states, s, i
<1>10. ASSUME NEW x \in ToSet(states) PROVE StateIs(e, H, x) /\ Cost(s) <= Cost(x)
  <2>1. CASE x \in ToSet(kids)
    BY <1>4, <1>5, <2>1, KidsAre
  <2>2. CASE x \in ToSet(rest)
    BY <1>2, <1>3, <1>6, <2>2
  <2> QED BY <1>9, <2>1, <2>2
<1>11. OpenedIs(e, H, states)
  BY <1>9, <1>10 DEF OpenedIs
<1>12. Kept(e, states)
  <2> SUFFICES ASSUME NEW L \in Nat, NEW w, L + 1 <= e.limitdepth, Reaches(e, L, w)
               PROVE  \E x \in ToSet(states), k \in 0 .. L :
                        PosOf(x) = w[k][1] /\ x.tickets = w[k][2] /\ x.depth = k + 1
    BY DEF Kept
  <2>1. PICK y \in ToSet(opened), k \in 0 .. L :
          PosOf(y) = w[k][1] /\ y.tickets = w[k][2] /\ y.depth = k + 1
    BY DEF Kept
  <2>2. CASE y \in ToSet(rest)
    BY <1>9, <2>1, <2>2
  <2>3. CASE y \notin ToSet(rest)
    <3>1. y = s
      <4>1. PICK j \in 1 .. Len(opened) : y = opened[j]
        BY <1>8 DEF ToSet
      <4>2. j = i
        BY <1>6, <2>3, <4>1
      <4> QED BY <4>1, <4>2 DEF s
    <3>2. k # L
      BY <1>7, <2>1, <3>1 DEF Reaches
    <3>3. k + 1 \in 1 .. L /\ k + 1 \in 0 .. L /\ (k + 1) - 1 = k
      BY <3>2
    <3>4. w[k + 1] \in Step(w[k][1], w[k][2]) /\ w[k][1] \in Positions(e) /\ w[k][2] \in TicketSet
      <4>1. Walk(e, L, w)
        BY DEF Reaches
      <4>2. w[k + 1] \in Step(w[k][1], w[k][2])
        BY <3>3, <4>1 DEF Walk
      <4> QED BY <1>1, <4>1, <4>2, WalkIs
    <3>5. PICK m : Leads(e, w[k][1], w[k][2], m, w[k + 1])
      BY <1>1, <3>4, StepIs
    <3>6. /\ m \in Partial(PosOf(s), Len(e.init)) /\ m.pos = w[k + 1][1] /\ allDifferent(m.pos)
          /\ Spend(s.tickets, m.trans) = w[k + 1][2]
          /\ \A t \in Transports : w[k + 1][2][t] = Inf \/ w[k + 1][2][t] >= 0
      BY <2>1, <3>1, <3>5 DEF Leads
    <3> DEFINE x == Expanded(e, H, s, m)
    <3>7. /\ x \in StateSet /\ PosOf(x) = m.pos /\ x.depth = s.depth + 1
          /\ x.tickets = Spend(s.tickets, m.trans)
      BY <1>4, <3>6, ExpandedIs
    <3>8. x.tickets = w[k + 1][2] /\ PosOf(x) = w[k + 1][1] /\ x.depth = (k + 1) + 1
      BY <2>1, <3>1, <3>6, <3>7
    <3>9. x \in {Expanded(e, H, s, n) : n \in Partial(PosOf(s), Len(e.init))}
      BY <3>6
    <3> HIDE DEF x
    <3>10. isValid(x)
      <4>1. DOMAIN x.tickets = Transports
        BY <3>7 DEF StateSet, TicketSet
      <4> QED BY <3>6, <3>8, <4>1 DEF isValid
    <3>11. x.depth <= e.limitdepth
      <4>1. e.limitdepth \in Nat
        BY <1>1, ExerciseIs
      <4> QED BY <3>3, <3>8, <4>1
    <3>12. x \in ToSet(kids)
      BY <1>5, <3>6, <3>7, <3>9, <3>10, <3>11 DEF KidsOf
    <3> QED BY <1>9, <3>3, <3>8, <3>12
  <2> QED BY <2>2, <2>3
<1> QED BY <1>10, <1>11, <1>12 DEF states, kids, rest, s, i

-------------------------------------------------------------------------------
(***************************************************************************)
(* What search returns.                                                    *)
(***************************************************************************)
NoWay(e, moves) == \A L \in Nat : \A w : L <= moves => ~ Reaches(e, L, w)

AnswerIs(e, p, limit) ==
  /\ p = <<>> => NoWay(e, e.limitdepth - 1)
  /\ p # <<>> =>
       /\ PathIs(e, p)
       /\ limit = 0 \/ (Last(p).pos \in GoalsOf(e) /\ (Len(p) > 1 => NoWay(e, Len(p) - 2)))

LEMMA NothingLeftMeansNoWay ==
  ASSUME NEW e \in Exercises, NEW H, Kept(e, <<>>)
  PROVE  NoWay(e, e.limitdepth - 1)
<1> SUFFICES ASSUME NEW L \in Nat, NEW w, L <= e.limitdepth - 1, Reaches(e, L, w) PROVE FALSE
  BY DEF NoWay
<1>1. e.limitdepth \in Nat
  BY ExerciseIs
<1>2. PICK s \in ToSet(<<>>) : TRUE
  BY <1>1 DEF Kept
<1> QED BY <1>2 DEF ToSet

\* The first state that is a goal is a nearest one.
LEMMA FirstIsNearest ==
  ASSUME NEW e, NEW H, Prepared(e, H), NEW states, OpenedIs(e, H, states), Kept(e, states),
         states # <<>>, NEW limit, limit = 0 \/ PosOf(states[First(states)]) \in GoalsOf(e)
  PROVE  AnswerIs(e, states[First(states)].path, limit)
<1> DEFINE s == states[First(states)]
           p == s.path
<1>1. e \in Exercises
  BY DEF Prepared
<1>2. s \in ToSet(states) /\ \A x \in ToSet(states) : Cost(s) <= Cost(x)
  BY <1>1, FirstIs
<1>3. StateIs(e, H, s)
  BY <1>2 DEF OpenedIs
<1> HIDE DEF s
<1>4. /\ p # <<>> /\ PathIs(e, p) /\ s.depth = Len(p) /\ (s.depth = 1 \/ s.depth <= e.limitdepth)
      /\ s.depth \in Nat \ {0} /\ s.heuristic \in Nat /\ Cost(s) = s.depth + s.heuristic
  BY <1>1, <1>3, StateFacts DEF StateIs
<1>8. s.depth \in Nat /\ (s.depth = 1 \/ s.depth <= e.limitdepth)
  BY <1>4
<1>9. s.depth > 1 => s.depth <= e.limitdepth
  BY <1>8
<1>5. ASSUME s.depth > 1 PROVE NoWay(e, s.depth - 2)
  <2> SUFFICES ASSUME NEW L \in Nat, NEW w, L <= s.depth - 2, Reaches(e, L, w) PROVE FALSE
    BY DEF NoWay
  <2>1. e.limitdepth \in Nat
    BY <1>1, ExerciseIs
  <2>2. L + 1 <= e.limitdepth
    <3>1. s.depth <= e.limitdepth
      BY <1>5, <1>9
    <3> QED BY <1>4, <2>1, <3>1
  <2>3. PICK x \in ToSet(states), k \in 0 .. L :
          PosOf(x) = w[k][1] /\ x.tickets = w[k][2] /\ x.depth = k + 1
    BY <2>2 DEF Kept
  <2>4. HeurOf(H, e, w[k][1]) \in Nat /\ HeurOf(H, e, w[k][1]) <= L - k
    BY Admissible
  <2>5. StateIs(e, H, x)
    BY DEF OpenedIs
  <2>6. Cost(x) = x.depth + x.heuristic /\ x.heuristic = HeurOf(H, e, PosOf(x))
    BY <1>1, <2>5, StateFacts DEF StateIs
  <2>7. Cost(x) <= L + 1
    BY <2>3, <2>4, <2>6
  <2>8. Cost(s) <= Cost(x) /\ Cost(x) \in Nat
    BY <1>1, <1>2, <2>5, StateFacts
  <2> QED BY <1>4, <2>7, <2>8
<1>6. PosOf(s) = Last(p).pos
  BY DEF PosOf
<1>7. Len(p) > 1 => NoWay(e, Len(p) - 2)
  BY <1>4, <1>5
<1> QED BY <1>4, <1>6, <1>7 DEF AnswerIs, s

(***************************************************************************)
(* What the checker says of it.                                            *)
(***************************************************************************)
UsesOf(e, p, t) == {x \in (2 .. Len(p)) \X (1 .. Len(e.init)) : p[x[1]].trans[x[2]] = t}

Affordable(e, p) ==
  p # <<>> /\ \A t \in Transports : Cardinality(UsesOf(e, p, t)) <= e.checked[t]

LEMMA UsesAre ==
  ASSUME exercise \in Exercises, NEW p, PathIs(exercise, p), NEW t
  PROVE  /\ IsFiniteSet(UsesOf(exercise, p, t)) /\ Cardinality(UsesOf(exercise, p, t)) \in Nat
         /\ Used(p, t, Len(p), Len(exercise.init)) = Cardinality(UsesOf(exercise, p, t))
         /\ \A k \in 2 .. Len(p), a \in 1 .. Len(exercise.init) :
              Used(p, t, k, a) <= Cardinality(UsesOf(exercise, p, t))
<1> DEFINE N == Len(exercise.init)
           U == UsesOf(exercise, p, t)
           V(k, a) == {x \in (2 .. k) \X (1 .. N) : (x[1] < k \/ x[2] <= a) /\ p[x[1]].trans[x[2]] = t}
<1>1. N \in Nat /\ Len(p) \in Nat
  BY ExerciseIs, PathEnd
<1>2. \A k, a : Used(p, t, k, a) = Cardinality(V(k, a))
  BY DEF Used
<1> HIDE DEF N
<1>3. IsFiniteSet(U)
  <2>1. IsFiniteSet(2 .. Len(p)) /\ IsFiniteSet(1 .. N)
    BY <1>1, FS_Interval
  <2>2. IsFiniteSet((2 .. Len(p)) \X (1 .. N))
    BY <2>1, FS_Product
  <2>3. U \subseteq (2 .. Len(p)) \X (1 .. N)
    BY DEF UsesOf, N
  <2> QED BY <2>2, <2>3, FS_Subset
<1>4. V(Len(p), N) = U
  <2>1. \A x \in (2 .. Len(p)) \X (1 .. N) : x[1] < Len(p) \/ x[2] <= N
    BY <1>1
  <2> QED BY <2>1 DEF UsesOf, N
<1>5. ASSUME NEW k \in 2 .. Len(p), NEW a \in 1 .. N PROVE Cardinality(V(k, a)) <= Cardinality(U)
  <2>1. V(k, a) \subseteq U
    <3>1. 2 .. k \subseteq 2 .. Len(p)
      BY <1>1
    <3> QED BY <3>1 DEF UsesOf, N
  <2> HIDE DEF U, V
  <2> QED BY <1>3, <2>1, FS_Subset
<1>6. Cardinality(U) \in Nat
  BY <1>3, FS_CardinalityType
<1>7. \A k \in 2 .. Len(p), a \in 1 .. N : Used(p, t, k, a) <= Cardinality(U)
  <2> HIDE DEF U, V
  <2> QED BY <1>2, <1>5
<1>8. Used(p, t, Len(p), N) = Cardinality(U)
  <2> HIDE DEF U, V
  <2> QED BY <1>2, <1>4
<1> QED BY <1>3, <1>6, <1>7, <1>8 DEF N

\* The tickets used up to the last use of t are all.
LEMMA LastUse ==
  ASSUME exercise \in Exercises, NEW p, PathIs(exercise, p), NEW t, UsesOf(exercise, p, t) # {}
  PROVE  \E k \in 2 .. Len(p), a \in 1 .. Len(exercise.init) :
           p[k].trans[a] = t /\ Used(p, t, k, a) = Cardinality(UsesOf(exercise, p, t))
<1> DEFINE N == Len(exercise.init)
           M == Len(p)
           U == UsesOf(exercise, p, t)
           K == {x[1] : x \in U}
           k == MostOf(K)
           A == {a \in 1 .. N : <<k, a>> \in U}
           a == MostOf(A)
           V == {x \in (2 .. k) \X (1 .. N) : (x[1] < k \/ x[2] <= a) /\ p[x[1]].trans[x[2]] = t}
<1>1. N \in Nat /\ M \in Nat
  BY ExerciseIs, PathEnd
<1>2. \A x : x \in U <=> x \in (2 .. M) \X (1 .. N) /\ p[x[1]].trans[x[2]] = t
  BY DEF UsesOf
<1> HIDE DEF N, M, U
<1>3. k \in K /\ \A i \in K : k >= i
  <2>1. K \in SUBSET Nat /\ K # {} /\ \A i \in K : i <= M
    BY <1>1, <1>2 DEF U
  <2> HIDE DEF K
  <2> QED BY <1>1, <2>1, MostIs
<1>4. \A x \in U : x = <<x[1], x[2]>> /\ x[1] \in 2 .. M /\ x[2] \in 1 .. N
                   /\ p[x[1]].trans[x[2]] = t /\ x[1] <= k
  <2>1. \A x \in U : x[1] \in K
    OBVIOUS
  <2> HIDE DEF k, K
  <2> QED BY <1>2, <1>3, <2>1
<1>5. k \in 2 .. M /\ A # {}
  <2>1. PICK x \in U : k = x[1]
    BY <1>3
  <2> HIDE DEF k
  <2>2. <<k, x[2]>> \in U /\ x[2] \in 1 .. N
    BY <1>4, <2>1
  <2> QED BY <1>4, <2>1, <2>2
<1> HIDE DEF k, K
<1>6. a \in A /\ \A i \in A : a >= i
  <2>1. A \in SUBSET Nat /\ \A i \in A : i <= N
    BY <1>1
  <2> HIDE DEF A
  <2> QED BY <1>1, <1>5, <2>1, MostIs
<1>7. <<k, a>> \in U /\ a \in 1 .. N
  BY <1>6
<1>8. ASSUME NEW x \in U PROVE x[1] < k \/ x[2] <= a
  <2>1. CASE x[1] = k
    <3>1. x[2] \in A
      BY <1>4, <2>1
    <3> HIDE DEF A
    <3>2. a >= x[2]
      BY <1>6, <3>1
    <3> HIDE DEF a
    <3> QED BY <1>4, <1>7, <3>2
  <2>2. CASE x[1] # k
    BY <1>4, <1>5, <2>2
  <2> QED BY <2>1, <2>2
<1> HIDE DEF a, A
<1>9. V = U
  <2>1. ASSUME NEW x \in U PROVE x \in V
    <3>1. x[1] \in 2 .. k
      BY <1>4, <1>5
    <3> QED BY <1>4, <1>8, <3>1
  <2>2. ASSUME NEW x \in V PROVE x \in U
    <3>1. 2 .. k \subseteq 2 .. M
      BY <1>1, <1>5
    <3> QED BY <1>2, <3>1
  <2> QED BY <2>1, <2>2
<1>10. Used(p, t, k, a) = Cardinality(V)
  BY DEF Used, N
<1>11. p[k].trans[a] = t
  BY <1>2, <1>7
<1> QED BY <1>5, <1>7, <1>9, <1>10, <1>11 DEF N, M, U

LEMMA DifferentPositions ==
  ASSUME NEW pos \in Seq(Nodes), allDifferent(pos)
  PROVE  Cardinality(ToSet(pos)) = Len(pos)
<1> DEFINE N == Len(pos)
           T == ToSet(pos)
<1>1. N \in Nat /\ DOMAIN pos = 1 .. N /\ T = {pos[a] : a \in 1 .. N}
  BY DEF ToSet
<1>2. pos = [a \in 1 .. N |-> pos[a]]
  OBVIOUS
<1>3. pos \in [1 .. N -> T] /\ \A x \in T : \E a \in 1 .. N : pos[a] = x
  BY <1>1, <1>2
<1>4. \A a, b \in 1 .. N : pos[a] = pos[b] => a = b
  BY <1>1 DEF allDifferent
<1> HIDE DEF N, T
<1>5. pos \in Bijection(1 .. N, T)
  BY <1>3, <1>4 DEF Bijection, Injection, Surjection, IsInjective
<1>6. IsFiniteSet(1 .. N) /\ Cardinality(1 .. N) = N
  BY <1>1, FS_Interval
<1>7. Cardinality(T) = Cardinality(1 .. N)
  <2>1. ExistsBijection(1 .. N, T)
    BY <1>5 DEF ExistsBijection
  <2> QED BY <1>6, <2>1, FS_Bijection
<1> QED BY <1>6, <1>7 DEF N, T

\* The checker accepts a path of the search if there are tickets enough for it.
LEMMA CheckerIsRight ==
  ASSUME exercise \in Exercises, NEW p, p # <<>> => PathIs(exercise, p)
  PROVE  validatepath(p, exercise.checked) <=> Affordable(exercise, p)
<1> DEFINE e == exercise
           N == Len(e.init)
<1>1. CASE p = <<>>
  BY <1>1 DEF validatepath, Affordable
<1>2. CASE p # <<>>
  <2>1. PathIs(e, p)
    BY <1>2
  <2>2. N \in Nat \ {0} /\ e.checked \in [Transports -> Nat]
    BY ExerciseIs
  <2>3. p \in Seq(MoveSet) /\ p[1].pos = e.init /\ Len(p) \in Nat
    BY <2>1 DEF PathIs
  <2>4. ASSUME NEW k \in 2 .. Len(p)
        PROVE  /\ DOMAIN p[k].pos = 1 .. N /\ p[k].pos \in Seq(Nodes) /\ Len(p[k].pos) = N
               /\ allDifferent(p[k].pos)
               /\ \A a \in 1 .. N : <<p[k].trans[a], p[k].pos[a]>> \in ToSet(Model[p[k - 1].pos[a]])
               /\ \A a \in 1 .. N : p[k].trans[a] \in Transports
    <3>1. p[k] \in Partial(p[k - 1].pos, N) /\ allDifferent(p[k].pos)
      BY <2>1 DEF PathIs
    <3>2. /\ p[k] \in MoveSet /\ Len(p[k].trans) = N /\ Len(p[k].pos) = N
          /\ \A a \in 1 .. N : <<p[k].trans[a], p[k].pos[a]>> \in ToSet(Model[p[k - 1].pos[a]])
      BY <3>1 DEF Partial
    <3>3. p[k].trans \in Seq(Transports) /\ p[k].pos \in Seq(Nodes)
      BY <3>2 DEF MoveSet
    <3> HIDE DEF N
    <3>4. DOMAIN p[k].pos = 1 .. N /\ \A a \in 1 .. N : p[k].trans[a] \in Transports
      BY <3>2, <3>3
    <3> QED BY <3>1, <3>2, <3>3, <3>4
  <2>5. ASSUME validatepath(p, e.checked) PROVE Affordable(e, p)
    <3> SUFFICES ASSUME NEW t \in Transports PROVE Cardinality(UsesOf(e, p, t)) <= e.checked[t]
      BY <1>2 DEF Affordable
    <3>1. CASE UsesOf(e, p, t) = {}
      BY <2>2, <3>1, FS_EmptySet
    <3>2. CASE UsesOf(e, p, t) # {}
      <4>1. PICK k \in 2 .. Len(p), a \in 1 .. N :
              p[k].trans[a] = t /\ Used(p, t, k, a) = Cardinality(UsesOf(e, p, t))
        BY <2>1, <3>2, LastUse
      <4>2. a \in DOMAIN p[k].pos
        BY <2>4
      <4>3. Used(p, p[k].trans[a], k, a) <= e.checked[p[k].trans[a]]
        BY <2>5, <4>2 DEF validatepath
      <4> QED BY <4>1, <4>3
    <3> QED BY <3>1, <3>2
  <2>6. ASSUME Affordable(e, p) PROVE validatepath(p, e.checked)
    <3>1. ASSUME NEW k \in 2 .. Len(p), NEW a \in DOMAIN p[k].pos
          PROVE  /\ Used(p, p[k].trans[a], k, a) <= e.checked[p[k].trans[a]]
                 /\ <<p[k].trans[a], p[k].pos[a]>> \in ToSet(Model[p[k - 1].pos[a]])
      <4>1. a \in 1 .. N
        BY <2>4
      <4> DEFINE t == p[k].trans[a]
      <4>2. t \in Transports /\ <<t, p[k].pos[a]>> \in ToSet(Model[p[k - 1].pos[a]])
        BY <2>4, <4>1
      <4> HIDE DEF t
      <4>3. Cardinality(UsesOf(e, p, t)) <= e.checked[t] /\ e.checked[t] \in Nat
        BY <2>2, <2>6, <4>2 DEF Affordable
      <4>4. Used(p, t, k, a) <= Cardinality(UsesOf(e, p, t)) /\ Cardinality(UsesOf(e, p, t)) \in Nat
        BY <2>1, <4>1, UsesAre
      <4>5. Used(p, t, k, a) \in Int
        <5> DEFINE V == {x \in (2 .. k) \X (1 .. Len(exercise.init)) :
                           (x[1] < k \/ x[2] <= a) /\ p[x[1]].trans[x[2]] = t}
        <5>1. IsFiniteSet(2 .. k) /\ IsFiniteSet(1 .. Len(exercise.init))
          <6>1. k \in Int /\ 2 \in Int /\ 1 \in Int /\ N \in Int
            BY <2>2, <2>3
          <6> QED BY <6>1, FS_Interval
        <5>2. IsFiniteSet((2 .. k) \X (1 .. Len(exercise.init)))
          BY <5>1, FS_Product
        <5>3. IsFiniteSet(V)
          BY <5>2, FS_Subset
        <5> QED BY <5>3, FS_CardinalityType DEF Used
      <4> QED BY <4>2, <4>3, <4>4, <4>5 DEF t
    <3>2. ASSUME NEW k \in 2 .. Len(p), N = 3 PROVE Cardinality(ToSet(p[k].pos)) = 3
      BY <2>4, <3>2, DifferentPositions
    <3> QED BY <1>2, <2>3, <3>1, <3>2 DEF validatepath
  <2> QED BY <2>5, <2>6
<1> QED BY <1>1, <1>2

-------------------------------------------------------------------------------
(***************************************************************************)
(* The invariant.                                                          *)
(***************************************************************************)
Searching == pc = "search" => OpenedIs(exercise, heur, opened) /\ Kept(exercise, opened)
Answering == IF Answered THEN AnswerIs(exercise, nn, limitexp) ELSE nn = <<>>
Judging   == pc = "done" => (verdict = "path" <=> Affordable(exercise, nn))

SearchInv == Tables /\ Searching /\ Answering /\ Judging

LEMMA PreparedIs ==
  ASSUME Tables, queue = <<>>, goals = Len(exercise.goal)
  PROVE  Prepared(exercise, heur)
BY TablesWhole DEF Prepared

LEMMA AnswerPath ==
  ASSUME NEW e, NEW p, NEW limit, AnswerIs(e, p, limit)
  PROVE  p # <<>> => PathIs(e, p)
BY DEF AnswerIs

LEMMA SearchInvStart == Init => SearchInv
<1> SUFFICES ASSUME Init PROVE SearchInv
  OBVIOUS
<1>1. Tables
  BY TablesStart
<1>2. pc = "bfs" /\ nn = <<>>
  BY DEF Init
<1> QED BY <1>1, <1>2 DEF SearchInv, Searching, Answering, Judging, Answered

LEMMA SearchInvGoesOn == SearchInv /\ [Next]_vars => SearchInv'
<1> SUFFICES ASSUME SearchInv, [Next]_vars PROVE SearchInv'
  OBVIOUS
<1> USE DEF Searching, Answering, Judging, Answered
<1>1. Tables /\ Searching /\ Answering /\ Judging
  BY DEF SearchInv
<1>2. Tables'
  BY <1>1, TablesGoOn
<1>3. pc # "bfs" => Prepared(exercise, heur)
  BY <1>1, PreparedIs DEF Tables
<1>4. CASE StartGoal
  BY <1>1, <1>2, <1>4 DEF StartGoal, SearchInv
<1>5. CASE Visit
  BY <1>1, <1>2, <1>5 DEF Visit, SearchInv
<1>6. CASE StartSearch
  <2>1. Prepared(exercise, heur)
    BY <1>1, <1>6, PreparedIs DEF StartSearch
  <2>2. pc' = "search" /\ exercise' = exercise /\ heur' = heur
        /\ opened' = <<State(<<[trans |-> <<>>, pos |-> exercise.init]>>, exercise.tickets)>>
    BY <1>6 DEF StartSearch
  <2>4. nn' = nn /\ nn = <<>>
    BY <1>1, <1>6 DEF StartSearch
  <2>3. OpenedIs(exercise, heur, opened') /\ Kept(exercise, opened')
    BY <2>1, <2>2, OpenedStarts
  <2> QED BY <1>2, <2>2, <2>3, <2>4 DEF SearchInv
<1>7. CASE Return
  <2>1. /\ pc = "search" /\ opened # <<>> /\ pc' = "validate" /\ exercise' = exercise
        /\ isGoal(opened[First(opened)]) \/ limitexp' = 0
        /\ nn' = opened[First(opened)].path
    BY <1>7 DEF Return
  <2>2. limitexp' = 0 \/ PosOf(opened[First(opened)]) \in GoalsOf(exercise)
    BY <2>1 DEF isGoal, PosOf
  <2>3. AnswerIs(exercise, nn', limitexp')
    <3>1. Prepared(exercise, heur) /\ OpenedIs(exercise, heur, opened) /\ Kept(exercise, opened)
      BY <1>1, <1>3, <2>1
    <3>2. AnswerIs(exercise, opened[First(opened)].path, limitexp')
      BY <2>1, <2>2, <3>1, FirstIsNearest
    <3> QED BY <2>1, <3>2
  <2> QED BY <1>2, <2>1, <2>3 DEF SearchInv
<1>8. CASE Expand
  <2>1. /\ pc = "search" /\ opened # <<>> /\ pc' = "search" /\ exercise' = exercise /\ heur' = heur
        /\ ~ isGoal(opened[First(opened)])
        /\ opened' = Expansion(opened[First(opened)]) \o RemoveAt(opened, First(opened))
    BY <1>8 DEF Expand
  <2>4. nn' = nn /\ nn = <<>>
    BY <1>1, <1>8 DEF Expand
  <2>2. Prepared(exercise, heur) /\ OpenedIs(exercise, heur, opened) /\ Kept(exercise, opened)
    BY <1>1, <1>3, <2>1
  <2>3. OpenedIs(exercise, heur, opened') /\ Kept(exercise, opened')
    BY <2>1, <2>2, OpenedGoesOn
  <2> QED BY <1>2, <2>1, <2>3, <2>4 DEF SearchInv
<1>9. CASE Exhausted
  <2>1. /\ pc = "search" /\ opened = <<>> /\ pc' = "validate" /\ exercise' = exercise
        /\ nn' = nn /\ limitexp' = limitexp /\ exercise \in Exercises
    BY <1>1, <1>9 DEF Exhausted, Tables
  <2>2. nn = <<>>
    BY <1>1, <2>1
  <2>3. NoWay(exercise, exercise.limitdepth - 1)
    BY <1>1, <2>1, NothingLeftMeansNoWay
  <2>4. AnswerIs(exercise, nn, limitexp)
    BY <2>2, <2>3 DEF AnswerIs
  <2> QED BY <1>2, <2>1, <2>4 DEF SearchInv
<1>10. CASE Validate
  <2>1. /\ pc = "validate" /\ pc' = "done" /\ exercise' = exercise /\ nn' = nn /\ limitexp' = limitexp
        /\ verdict' = IF validatepath(nn, exercise.checked) THEN "path" ELSE "invalid path"
        /\ exercise \in Exercises
    BY <1>1, <1>10 DEF Validate, Tables
  <2>2. AnswerIs(exercise, nn, limitexp)
    BY <1>1, <2>1
  <2>3. nn # <<>> => PathIs(exercise, nn)
    BY <2>2, AnswerPath
  <2>4. validatepath(nn, exercise.checked) <=> Affordable(exercise, nn)
    BY <2>1, <2>3, CheckerIsRight
  <2>5. verdict' = "path" <=> Affordable(exercise, nn)
    BY <2>1, <2>4
  <2> QED BY <1>2, <2>1, <2>2, <2>5 DEF SearchInv
<1>11. CASE UNCHANGED vars
  BY <1>1, <1>2, <1>11 DEF vars, SearchInv
<1> QED BY <1>4, <1>5, <1>6, <1>7, <1>8, <1>9, <1>10, <1>11 DEF Next, Terminated

LEMMA SearchInvIsRight == SearchInv => SearchIsRight
<1> SUFFICES ASSUME SearchInv PROVE SearchIsRight
  OBVIOUS
<1>1. Tables /\ Answering /\ Judging /\ exercise \in Exercises
  BY DEF SearchInv, Tables
<1>2. HeurIsDistance
  BY <1>1, TablesAreRight
<1>3. Answered => AnswerIs(exercise, nn, limitexp)
  BY <1>1 DEF Answering
<1>4. ShortestUnlessCut
  <2> SUFFICES ASSUME Answered, nn # <<>>, limitexp # 0
               PROVE  /\ Last(nn).pos \in GoalsOf(exercise)
                      /\ Len(nn) > 1 => ~ GoalWithin(Len(nn) - 2)
    BY DEF ShortestUnlessCut
  <2>1. PathIs(exercise, nn) /\ Last(nn).pos \in GoalsOf(exercise)
        /\ (Len(nn) > 1 => NoWay(exercise, Len(nn) - 2))
    BY <1>3 DEF AnswerIs
  <2>2. ASSUME Len(nn) > 1, GoalWithin(Len(nn) - 2) PROVE FALSE
    <3> DEFINE N == Len(nn) - 2
    <3>1. N \in Nat
      BY <1>1, <2>1, <2>2, PathEnd
    <3>2. GoalWithin(N) /\ NoWay(exercise, N)
      BY <2>1, <2>2
    <3> HIDE DEF N
    <3>3. PICK L \in 0 .. N : \E w : Reaches(exercise, L, w)
      BY <1>1, <3>1, <3>2, WithinIs
    <3> QED BY <3>1, <3>2, <3>3 DEF NoWay
  <2> QED BY <2>1, <2>2
<1>5. NoneIfImpossible
  <2> SUFFICES ASSUME Answered, nn = <<>>, exercise.limitdepth # 0, GoalWithin(exercise.limitdepth - 1)
               PROVE  FALSE
    BY DEF NoneIfImpossible
  <2> DEFINE N == exercise.limitdepth - 1
  <2>1. N \in Nat
    BY <1>1, ExerciseIs
  <2>2. GoalWithin(N) /\ NoWay(exercise, N)
    BY <1>3 DEF AnswerIs
  <2> HIDE DEF N
  <2>3. PICK L \in 0 .. N : \E w : Reaches(exercise, L, w)
    BY <1>1, <2>1, <2>2, WithinIs
  <2> QED BY <2>1, <2>2, <2>3 DEF NoWay
<1>6. RejectedForTicketsOnly
  <2> SUFFICES ASSUME pc = "done"
               PROVE  verdict = "path" <=>
                        /\ nn # <<>>
                        /\ \A t \in Transports :
                             Used(nn, t, Len(nn), Len(exercise.init)) <= exercise.checked[t]
    BY DEF RejectedForTicketsOnly
  <2>1. verdict = "path" <=> Affordable(exercise, nn)
    BY <1>1 DEF Judging
  <2>2. nn # <<>> => PathIs(exercise, nn)
    BY <1>3 DEF AnswerIs, Answered
  <2>3. nn # <<>> => \A t \in Transports :
          Used(nn, t, Len(nn), Len(exercise.init)) = Cardinality(UsesOf(exercise, nn, t))
    BY <1>1, <2>2, UsesAre
  <2> QED BY <2>1, <2>3 DEF Affordable
<1> QED BY <1>2, <1>4, <1>5, <1>6 DEF SearchIsRight

LEMMA SearchInvariance == Spec => []SearchInv
BY SearchInvStart, SearchInvGoesOn, PTL DEF Spec

\* For every map, exercise and limits: the tables hold distances; unless limitexp
\* cuts the search short, the path returned leads to the goal and no shorter one
\* does that the tickets allow; None is returned only if there is no way within
\* limitdepth; and the checker rejects a path for its tickets only
\* (A013.py:63-109, game.py:31-69).
THEOREM SearchResultIsRight == Spec => []SearchIsRight
BY SearchInvariance, SearchInvIsRight, PTL

\* No state is opened that costs less than the one just expanded: the heuristic is
\* consistent for every number of agents and every assignment of the goals
\* (A013.py:7-17, 82-109).
THEOREM SearchExpandsInOrder == Spec => ExpandsInOrder
<1> DEFINE A == pc = "search" /\ pc' = "search" =>
                  LET cost == Cost(opened[First(opened)])
                  IN \A k \in DOMAIN opened' : Cost(opened'[k]) >= cost
<1>1. SearchInv /\ [Next]_vars => [A]_vars
  <2> SUFFICES ASSUME SearchInv, Next, pc = "search", pc' = "search", vars' # vars,
                      NEW k \in DOMAIN opened'
               PROVE  Cost(opened'[k]) >= Cost(opened[First(opened)])
    OBVIOUS
  <2>1. /\ opened # <<>> /\ ~ isGoal(opened[First(opened)])
        /\ opened' = Expansion(opened[First(opened)]) \o RemoveAt(opened, First(opened))
    BY DEF Next, StartGoal, Visit, StartSearch, Return, Expand, Exhausted, Validate, Terminated, vars
  <2>2. Prepared(exercise, heur) /\ OpenedIs(exercise, heur, opened) /\ Kept(exercise, opened)
    BY PreparedIs DEF SearchInv, Searching, Tables
  <2>3. /\ OpenedIs(exercise, heur, opened')
        /\ \A x \in ToSet(opened') : Cost(opened[First(opened)]) <= Cost(x)
    BY <2>1, <2>2, OpenedGoesOn
  <2>4. opened'[k] \in ToSet(opened') /\ exercise \in Exercises
    BY DEF ToSet, SearchInv, Tables
  <2>5. Cost(opened'[k]) \in Nat
    BY <2>3, <2>4, StateFacts DEF OpenedIs
  <2>6. Cost(opened[First(opened)]) \in Nat
    <3>1. opened[First(opened)] \in ToSet(opened)
      BY <2>1, <2>2, <2>4, FirstIs
    <3> QED BY <2>2, <2>4, <3>1, StateFacts DEF OpenedIs
  <2>7. Cost(opened[First(opened)]) <= Cost(opened'[k])
    BY <2>3, <2>4
  <2> QED BY <2>5, <2>6, <2>7
<1>2. ExpandsInOrder <=> [][A]_vars
  BY DEF ExpandsInOrder
<1> QED BY <1>1, <1>2, SearchInvariance, PTL DEF Spec
===============================================================================
