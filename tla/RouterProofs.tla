----------------------------- MODULE RouterProofs -----------------------------
(***************************************************************************)
(* Proofs about the search for a route, for grids of any size, any walls   *)
(* and any two points.                                                     *)
(***************************************************************************)
EXTENDS Router, FiniteSetTheorems, TLAPS

(***************************************************************************)
(* Induction over numbers, and functions defined by recursion, stated with *)
(* sets and functions only, so that the provers can use them.              *)
(***************************************************************************)

\* A nonempty set of numbers has a least element.
LEMMA LeastNumber ==
  ASSUME NEW B \in SUBSET Nat, B # {}
  PROVE  \E m \in B : \A k \in B : m <= k
<1> DEFINE upto(n) == 1 .. n
           T == {upto(n) : n \in B}
           R == StrictSubsetOrdering(Nat)
<1>1. T \subseteq FiniteSubsetsOf(Nat)
  <2>1. \A n \in B : IsFiniteSet(upto(n)) /\ upto(n) \in SUBSET Nat
    BY FS_Interval
  <2> QED BY <2>1 DEF FiniteSubsetsOf
<1>2. T # {}
  OBVIOUS
<1>3. \E x \in T : \A y \in T : <<y, x>> \notin R
  <2> HIDE DEF T, R
  <2>1. IsWellFoundedOn(R, FiniteSubsetsOf(Nat))
    BY FS_StrictSubsetOrderingWellFounded DEF R
  <2> QED BY <1>1, <1>2, <2>1, WFMin
<1>4. PICK m \in B : \A k \in B : <<upto(k), upto(m)>> \notin R
  BY <1>3
<1>5. ASSUME NEW k \in B, k < m PROVE FALSE
  <2>1. upto(k) \subseteq upto(m) /\ upto(k) # upto(m)
    BY <1>5
  <2>2. <<upto(k), upto(m)>> \in R
    BY <1>5, <2>1 DEF StrictSubsetOrdering
  <2> QED BY <1>4, <2>2
<1> QED BY <1>5

\* Induction, over the set of the numbers that have the property.
LEMMA NatInduct ==
  ASSUME NEW S, 0 \in S, \A n \in Nat : n \in S => n + 1 \in S
  PROVE  Nat \subseteq S
<1> DEFINE B == Nat \ S
<1> SUFFICES ASSUME B # {} PROVE FALSE
  OBVIOUS
<1>1. PICK m \in B : \A k \in B : m <= k
  BY LeastNumber
<1>2. m # 0 /\ m - 1 \in Nat /\ m - 1 \notin B
  BY <1>1
<1> QED BY <1>1, <1>2

\* Recursed(A, a, F): the function that starts with a and goes on as F says.
Recurses(A, a, F, f) ==
  f \in [Nat -> A] /\ f[0] = a /\ \A n \in Nat : f[n + 1] = F[n][f[n]]
Recursed(A, a, F) == CHOOSE f \in [Nat -> A] : Recurses(A, a, F, f)

\* There is one: what a recursive definition over Nat says of its function is
\* said of a function that exists.
LEMMA Recursion ==
  ASSUME NEW A, NEW a \in A, NEW F \in [Nat -> [A -> A]]
  PROVE  Recurses(A, a, F, Recursed(A, a, F))
<1> DEFINE Good(n, f) == /\ f \in [0 .. n -> A] /\ f[0] = a
                         /\ \A k \in 1 .. n : f[k] = F[k - 1][f[k - 1]]
           E == {n \in Nat : \E f \in [0 .. n -> A] : Good(n, f)}
<1>1. 0 \in E
  <2>1. Good(0, [k \in 0 .. 0 |-> a])
    OBVIOUS
  <2> QED BY <2>1
<1>2. ASSUME NEW n \in Nat, n \in E PROVE n + 1 \in E
  <2>1. PICK f \in [0 .. n -> A] : Good(n, f)
    BY <1>2
  <2>2. n \in 0 .. n /\ 0 \in 0 .. n /\ F[n][f[n]] \in A
    BY <2>1
  <2> DEFINE g == [k \in 0 .. n + 1 |-> IF k = n + 1 THEN F[n][f[n]] ELSE f[k]]
  <2>3. /\ g \in [0 .. n + 1 -> A] /\ g[n + 1] = F[n][f[n]]
        /\ \A k \in 0 .. n : g[k] = f[k]
    BY <2>2
  <2> HIDE DEF g
  <2>4. ASSUME NEW k \in 1 .. n + 1 PROVE g[k] = F[k - 1][g[k - 1]]
    <3>1. k - 1 \in 0 .. n /\ g[k - 1] = f[k - 1]
      BY <2>3
    <3>2. CASE k = n + 1
      <4>1. k - 1 = n
        BY <3>2
      <4> QED BY <2>3, <3>1, <3>2, <4>1
    <3>3. CASE k # n + 1
      <4>1. k \in 1 .. n /\ k \in 0 .. n
        BY <3>3
      <4> QED BY <2>1, <2>3, <3>1, <4>1
    <3> QED BY <3>2, <3>3
  <2>5. Good(n + 1, g)
    BY <2>1, <2>2, <2>3, <2>4
  <2> QED BY <2>3, <2>5
<1>3. Nat \subseteq E
  <2> HIDE DEF E
  <2> QED BY <1>1, <1>2, NatInduct
<1> DEFINE G == [n \in Nat |-> CHOOSE f \in [0 .. n -> A] : Good(n, f)]
<1>4. \A n \in Nat : Good(n, G[n])
  BY <1>3
<1> HIDE DEF G, E
<1>5. \A n \in Nat : \A k \in 0 .. n : G[n + 1][k] = G[n][k]
  <2> SUFFICES ASSUME NEW n \in Nat PROVE \A k \in 0 .. n : G[n + 1][k] = G[n][k]
    OBVIOUS
  <2> DEFINE S == {k \in Nat : k <= n => G[n + 1][k] = G[n][k]}
  <2>1. 0 \in S
    BY <1>4
  <2>2. ASSUME NEW k \in Nat, k \in S PROVE k + 1 \in S
    <3>1. CASE k + 1 <= n
      <4>1. G[n + 1][k] = G[n][k]
        BY <2>2, <3>1
      <4>2. G[n + 1][k + 1] = F[k][G[n + 1][k]] /\ G[n][k + 1] = F[k][G[n][k]]
        <5>1. k + 1 \in 1 .. n + 1 /\ k + 1 \in 1 .. n /\ (k + 1) - 1 = k
          BY <3>1
        <5> QED BY <1>4, <5>1
      <4> QED BY <4>1, <4>2
    <3> QED BY <3>1
  <2>3. Nat \subseteq S
    <3> HIDE DEF S
    <3> QED BY <2>1, <2>2, NatInduct
  <2> QED BY <2>3
<1> DEFINE h == [n \in Nat |-> G[n][n]]
<1>6. h \in [Nat -> A] /\ h[0] = a
  BY <1>4
<1>7. ASSUME NEW n \in Nat PROVE h[n + 1] = F[n][h[n]]
  <2>1. G[n + 1][n + 1] = F[n][G[n + 1][n]]
    <3>1. n + 1 \in 1 .. n + 1 /\ (n + 1) - 1 = n
      OBVIOUS
    <3> QED BY <1>4, <3>1
  <2>2. G[n + 1][n] = G[n][n]
    BY <1>5
  <2> QED BY <2>1, <2>2
<1>8. Recurses(A, a, F, h)
  <2> HIDE DEF h
  <2> QED BY <1>6, <1>7 DEF Recurses
<1>9. \E f \in [Nat -> A] : Recurses(A, a, F, f)
  <2> HIDE DEF h
  <2> QED BY <1>6, <1>8
<1> QED BY <1>9, Zenon DEF Recursed

\* The same where the step is always one.
LEMMA Iteration ==
  ASSUME NEW A, NEW a \in A, NEW F \in [A -> A]
  PROVE  \E f \in [Nat -> A] : f[0] = a /\ \A n \in Nat : f[n + 1] = F[f[n]]
<1> DEFINE G == [n \in Nat |-> F]
           f == Recursed(A, a, G)
<1>1. G \in [Nat -> [A -> A]] /\ \A n \in Nat : G[n] = F
  OBVIOUS
<1> HIDE DEF G
<1>2. Recurses(A, a, G, f)
  BY <1>1, Recursion
<1> HIDE DEF f
<1> QED BY <1>1, <1>2 DEF Recurses

\* What the defaults of the command line (1, 1, 2 and 1) satisfy: a move costs
\* something, and a bend makes nothing cheaper.
PositiveCosts == XCost > 0 /\ YCost > 0 /\ ZCost > 0 /\ BendCost >= 0

-------------------------------------------------------------------------------
(***************************************************************************)
(* Moves.                                                                  *)
(***************************************************************************)

\* A move goes one step along one axis and costs something.
LEMMA MovesTyped ==
  ASSUME PositiveCosts, NEW m \in Moves
  PROVE  /\ m \in Move /\ m.cost > 0
         /\ <<m.x, m.y, m.z>> # <<0, 0, 0>>
  BY CostAssumption DEF PositiveCosts, Moves, Move, POSX, NEGX, POSY, NEGY, POSZ, NEGZ

\* What a move does tells which move it is.
LEMMA MovesApart ==
  ASSUME NEW p \in Points, NEW m1 \in Moves, NEW m2 \in Moves,
         Beside(p, m1) = Beside(p, m2)
  PROVE  m1 = m2
<1>1. p[1] \in Int /\ p[2] \in Int /\ p[3] \in Int
  BY DEF Points
<1>2. /\ m1.x \in {-1, 0, 1} /\ m1.y \in {-1, 0, 1} /\ m1.z \in {-1, 0, 1}
      /\ m2.x \in {-1, 0, 1} /\ m2.y \in {-1, 0, 1} /\ m2.z \in {-1, 0, 1}
  BY DEF Moves, POSX, NEGX, POSY, NEGY, POSZ, NEGZ
<1>3. m1.x = m2.x /\ m1.y = m2.y /\ m1.z = m2.z
  BY <1>1, <1>2 DEF Beside
<1> QED BY <1>3 DEF Moves, POSX, NEGX, POSY, NEGY, POSZ, NEGZ

\* No move stays where it is.
LEMMA MovesAway ==
  ASSUME NEW p \in Points, NEW m \in Moves
  PROVE  Beside(p, m) # p
<1>1. p[1] \in Int /\ p[2] \in Int /\ p[3] \in Int
  BY DEF Points
<1>2. \/ m.x = 1 \/ m.x = -1 \/ m.y = 1 \/ m.y = -1 \/ m.z = 1 \/ m.z = -1
  BY DEF Moves, POSX, NEGX, POSY, NEGY, POSZ, NEGZ
<1>3. SUFFICES ASSUME Beside(p, m) = p PROVE FALSE
  OBVIOUS
<1>4. p[1] + m.x = p[1] /\ p[2] + m.y = p[2] /\ p[3] + m.z = p[3]
  BY <1>3 DEF Beside
<1> QED BY <1>1, <1>2, <1>4

\* Every move can be undone.
LEMMA AdjacentSymmetric ==
  ASSUME NEW p \in Points, NEW q \in Points, Adjacent(p, q)
  PROVE  Adjacent(q, p)
<1>1. PICK m \in Moves : q = Beside(p, m)
  BY DEF Adjacent
<1>2. PICK n \in Moves : n.x = -m.x /\ n.y = -m.y /\ n.z = -m.z
  BY DEF Moves, POSX, NEGX, POSY, NEGY, POSZ, NEGZ
<1>3. /\ p[1] \in Int /\ p[2] \in Int /\ p[3] \in Int
      /\ p = <<p[1], p[2], p[3]>>
  BY DEF Points
<1>4. m.x \in Int /\ m.y \in Int /\ m.z \in Int
  BY DEF Moves, POSX, NEGX, POSY, NEGY, POSZ, NEGZ
<1>5. q[1] = p[1] + m.x /\ q[2] = p[2] + m.y /\ q[3] = p[3] + m.z
  BY <1>1 DEF Beside
<1>6. q[1] + n.x = p[1] /\ q[2] + n.y = p[2] /\ q[3] + n.z = p[3]
  BY <1>2, <1>3, <1>4, <1>5
<1>7. Beside(q, n) = p
  BY <1>3, <1>6 DEF Beside
<1> QED BY <1>7 DEF Adjacent

\* The elements of two sequences one after the other.
LEMMA ToSetConcat ==
  ASSUME NEW S, NEW s \in Seq(S), NEW t \in Seq(S)
  PROVE  s \o t \in Seq(S) /\ ToSet(s \o t) = ToSet(s) \cup ToSet(t)
<1>1. /\ s \o t \in Seq(S) /\ Len(s \o t) = Len(s) + Len(t)
      /\ \A k \in 1 .. Len(s) : (s \o t)[k] = s[k]
      /\ \A k \in 1 .. Len(t) : (s \o t)[Len(s) + k] = t[k]
  OBVIOUS
<1>2. ASSUME NEW k \in 1 .. Len(s) + Len(t)
      PROVE  (s \o t)[k] \in ToSet(s) \cup ToSet(t)
  <2>1. CASE k <= Len(s)
    BY <1>1, <2>1 DEF ToSet
  <2>2. CASE k > Len(s)
    <3>1. k - Len(s) \in 1 .. Len(t) /\ (s \o t)[k] = t[k - Len(s)]
      BY <2>2
    <3> QED BY <3>1 DEF ToSet
  <2> QED BY <2>1, <2>2
<1>3. ASSUME NEW k \in 1 .. Len(s) PROVE s[k] \in ToSet(s \o t)
  BY <1>1 DEF ToSet
<1>4. ASSUME NEW k \in 1 .. Len(t) PROVE t[k] \in ToSet(s \o t)
  <2>1. Len(s) + k \in 1 .. Len(s \o t)
    BY <1>1
  <2> QED BY <1>1, <2>1, SMTT(30) DEF ToSet
<1>5. ToSet(s \o t) \subseteq ToSet(s) \cup ToSet(t)
  BY <1>1, <1>2 DEF ToSet
<1>6. ToSet(s) \subseteq ToSet(s \o t)
  <2>1. ToSet(s) = {s[k] : k \in 1 .. Len(s)}
    BY DEF ToSet
  <2> QED BY <1>3, <2>1
<1>7. ToSet(t) \subseteq ToSet(s \o t)
  <2>1. ToSet(t) = {t[k] : k \in 1 .. Len(t)}
    BY DEF ToSet
  <2> QED BY <1>4, <2>1
<1> QED BY <1>1, <1>5, <1>6, <1>7

-------------------------------------------------------------------------------
(***************************************************************************)
(* The inductive invariant.                                                *)
(***************************************************************************)

Shape ==
  /\ grid \in SUBSET Points /\ src \in grid /\ dst \in grid /\ src # dst
  /\ pc \in {"expand", "trace", "found", "stuck", "none"}
  /\ mine \in [Points -> Nat \cup {Empty, Full}]
  /\ queue \in Seq(Points)
  /\ next \in Place
  /\ path \in Seq(Points)

\* A point of the wave at value at most v has a neighbour closer to src, where
\* the value is 0.
Descends(v) ==
  \A p \in Points : mine[p] >= 0 /\ mine[p] <= v =>
    \/ mine[p] = 0 /\ p = src
    \/ \E q \in Points : Adjacent(p, q) /\ mine[q] >= 0 /\ mine[q] < mine[p]

\* The wave passes through free points only.
ThroughFree == \A p \in grid \ {src, dst} : mine[p] < 0

\* While doExpansion runs, and after it has failed: the walls alone are Full,
\* the queue holds points of the wave, and a point that has left the queue has
\* no neighbour that the wave could still come to.
Wave ==
  /\ \A p \in Points : mine[p] = Full <=> p \in grid \ {src, dst}
  /\ mine[src] = 0
  /\ \A p \in Points : Descends(mine[p])
  /\ \A p \in ToSet(queue) : mine[p] >= 0
  /\ mine[dst] >= 0 => dst \in ToSet(queue)
  /\ \A p, q \in Points :
       /\ mine[p] >= 0 /\ p # dst /\ p \notin ToSet(queue)
       /\ Adjacent(p, q) /\ mine[q] # Full
       => mine[q] >= 0

\* While doTraceback runs: next is a point of the wave, and the way down from
\* it is still there.
Down ==
  /\ next.value >= 0 /\ mine[next.at] = next.value
  /\ Descends(next.value)
  /\ IF path = <<>> THEN next.at = dst ELSE Adjacent(Last(path), next.at)

\* The route so far: a walk from dst, one move at a time, through free points,
\* each of which is Full now.
Walked ==
  /\ \A k \in 1 .. Len(path) : mine[path[k]] = Full
  /\ path # <<>> => path[1] = dst
  /\ IsInjective(path)
  /\ \A k \in 1 .. Len(path) - 1 : Adjacent(path[k], path[k + 1])
  /\ \A k \in 2 .. Len(path) : path[k] \notin grid \/ path[k] = src

IInv ==
  /\ Shape
  /\ ThroughFree
  /\ pc \in {"expand", "none"} => Wave /\ path = <<>>
  /\ pc = "none" => queue = <<>>
  /\ pc \in {"trace", "found"} => Walked
  /\ pc = "trace" => Down
  /\ pc = "found" => path # <<>> /\ Last(path) = src
  /\ pc # "stuck"

LEMMA InitIInv == PositiveCosts /\ Init => IInv
<1> SUFFICES ASSUME PositiveCosts, Init PROVE IInv
  OBVIOUS
<1>1. /\ grid \in SUBSET Points /\ src \in grid /\ dst \in grid /\ src # dst
      /\ pc = "expand" /\ queue = <<src>> /\ path = <<>>
      /\ next = [at |-> dst, value |-> 0, momentum |-> ZERO]
  BY RequestsAssumption DEF Init
<1>2. \A p \in Points : mine[p] = IF p = src THEN 0
                                  ELSE IF p \in grid \ {dst} THEN Full
                                  ELSE Empty
  BY DEF Init
<1>3. mine \in [Points -> Nat \cup {Empty, Full}]
  BY DEF Init
<1>4. Shape
  BY <1>1, <1>3 DEF Shape, Place
<1>5. ThroughFree
  BY <1>1, <1>2 DEF ThroughFree, Full
<1>6. Wave
  <2>1. ToSet(queue) = {src}
    BY <1>1 DEF ToSet
  <2>2. \A p \in Points : mine[p] >= 0 <=> p = src
    BY <1>2 DEF Full, Empty
  <2>3. src \in Points /\ mine[src] = 0
    BY <1>1, <1>2
  <2>4. \A p \in Points : mine[p] = Full <=> p \in grid \ {src, dst}
    BY <1>1, <1>2 DEF Full, Empty
  <2>5. \A p \in Points : Descends(mine[p])
    BY <2>2, <2>3 DEF Descends
  <2>6. dst \in Points
    BY <1>1
  <2> QED BY <1>1, <2>1, <2>2, <2>3, <2>4, <2>5, <2>6 DEF Wave
<1> QED BY <1>1, <1>4, <1>5, <1>6 DEF IInv

-------------------------------------------------------------------------------
(***************************************************************************)
(* doExpansion.                                                            *)
(***************************************************************************)

\* The points that the wave gets to from p are pushed, and no others.
LEMMA PushedPoints ==
  ASSUME NEW p \in Points
  PROVE  /\ Pushed(p) \in Seq(Points)
         /\ \A q : q \in ToSet(Pushed(p))
                   <=> \E m \in Moves : q = Beside(p, m) /\ Better(p, m)
<1> DEFINE push(m) == IF Better(p, m) THEN <<Beside(p, m)>> ELSE <<>>
<1>1. ASSUME NEW m \in Moves
      PROVE  /\ push(m) \in Seq(Points)
             /\ ToSet(push(m)) = IF Better(p, m) THEN {Beside(p, m)} ELSE {}
  <2>1. CASE Better(p, m)
    <3>1. push(m) = <<Beside(p, m)>> /\ Beside(p, m) \in Points
      BY <2>1 DEF Better
    <3> QED BY <2>1, <3>1 DEF ToSet
  <2>2. CASE ~ Better(p, m)
    BY <2>2 DEF ToSet
  <2> QED BY <2>1, <2>2
<1>2. Moves = {POSX, NEGX, POSY, NEGY, POSZ, NEGZ}
  BY DEF Moves
<1>3. Pushed(p) = push(POSX) \o push(NEGX) \o push(POSY) \o push(NEGY)
                    \o push(POSZ) \o push(NEGZ)
  BY DEF Pushed
<1> HIDE DEF push
<1>4. \A s, u \in Seq(Points) :
        s \o u \in Seq(Points) /\ ToSet(s \o u) = ToSet(s) \cup ToSet(u)
  BY ToSetConcat
<1> DEFINE two   == push(POSX) \o push(NEGX)
           three == two \o push(POSY)
           four  == three \o push(NEGY)
           five  == four \o push(POSZ)
<1>5. \A m \in Moves : push(m) \in Seq(Points)
  BY <1>1
<1>6. two \in Seq(Points) /\ ToSet(two) = ToSet(push(POSX)) \cup ToSet(push(NEGX))
  BY <1>2, <1>4, <1>5, Zenon
<1>7. three \in Seq(Points) /\ ToSet(three) = ToSet(two) \cup ToSet(push(POSY))
  <2> HIDE DEF two
  <2> QED BY <1>2, <1>4, <1>5, <1>6, Zenon
<1>8. four \in Seq(Points) /\ ToSet(four) = ToSet(three) \cup ToSet(push(NEGY))
  <2> HIDE DEF three
  <2> QED BY <1>2, <1>4, <1>5, <1>7, Zenon
<1>9. five \in Seq(Points) /\ ToSet(five) = ToSet(four) \cup ToSet(push(POSZ))
  <2> HIDE DEF four
  <2> QED BY <1>2, <1>4, <1>5, <1>8, Zenon
<1>10. /\ five \o push(NEGZ) \in Seq(Points)
       /\ ToSet(five \o push(NEGZ)) = ToSet(five) \cup ToSet(push(NEGZ))
  <2> HIDE DEF five
  <2> QED BY <1>2, <1>4, <1>5, <1>9, Zenon
<1>11. Pushed(p) = five \o push(NEGZ)
  BY <1>3
<1>12. Pushed(p) \in Seq(Points) /\ ToSet(Pushed(p)) = UNION {ToSet(push(m)) : m \in Moves}
  <2> HIDE DEF two, three, four, five
  <2>1. ToSet(Pushed(p)) =
          ToSet(push(POSX)) \cup ToSet(push(NEGX)) \cup ToSet(push(POSY))
            \cup ToSet(push(NEGY)) \cup ToSet(push(POSZ)) \cup ToSet(push(NEGZ))
    BY <1>6, <1>7, <1>8, <1>9, <1>10, <1>11, Zenon
  <2> QED BY <1>2, <1>10, <1>11, <2>1
<1> QED BY <1>1, <1>12

\* The queue holds its head and the rest.
LEMMA HeadAndTail ==
  ASSUME NEW S, NEW s \in Seq(S), s # <<>>
  PROVE  /\ Head(s) \in S /\ Tail(s) \in Seq(S)
         /\ ToSet(s) = {Head(s)} \cup ToSet(Tail(s))
<1>1. /\ Head(s) \in S /\ Tail(s) \in Seq(S) /\ Len(s) > 0
      /\ Len(Tail(s)) = Len(s) - 1 /\ Head(s) = s[1]
      /\ \A k \in 1 .. Len(s) - 1 : Tail(s)[k] = s[k + 1]
  OBVIOUS
<1>2. ToSet(s) = {s[k] : k \in 1 .. Len(s)}
  BY DEF ToSet
<1>3. ToSet(Tail(s)) = {s[k + 1] : k \in 1 .. Len(s) - 1}
  <2>1. DOMAIN Tail(s) = 1 .. Len(s) - 1
    BY <1>1
  <2>2. ToSet(Tail(s)) = {Tail(s)[k] : k \in 1 .. Len(s) - 1}
    BY <2>1 DEF ToSet
  <2> QED BY <1>1, <2>2
<1>4. ToSet(s) \subseteq {Head(s)} \cup ToSet(Tail(s))
  <2> SUFFICES ASSUME NEW k \in 1 .. Len(s), k # 1 PROVE s[k] \in ToSet(Tail(s))
    BY <1>1, <1>2
  <2>1. k - 1 \in 1 .. Len(s) - 1 /\ (k - 1) + 1 = k
    BY <1>1
  <2> QED BY <1>3, <2>1
<1>5. {Head(s)} \cup ToSet(Tail(s)) \subseteq ToSet(s)
  BY <1>1, <1>2, <1>3
<1> QED BY <1>1, <1>4, <1>5

\* The elements of a sequence of points are points.
LEMMA ToSetOfPoints ==
  ASSUME NEW s \in Seq(Points)
  PROVE  ToSet(s) \subseteq Points
  BY DEF ToSet

\* What an iteration does to the values.
LEMMA Expanded ==
  ASSUME PositiveCosts, Shape, Wave, ExpandPoint
  PROVE  LET p == Head(queue) IN
         /\ p \in Points /\ mine[p] >= 0 /\ p # dst
         /\ ToSet(queue) = {p} \cup ToSet(Tail(queue))
         /\ queue' \in Seq(Points)
         /\ ToSet(queue') = ToSet(Tail(queue)) \cup ToSet(Pushed(p))
         /\ mine' \in [Points -> Nat \cup {Empty, Full}]
         /\ \A q \in Points \ ToSet(Pushed(p)) : mine'[q] = mine[q]
         /\ \A q \in ToSet(Pushed(p)) :
              /\ q \in Points /\ Adjacent(p, q)
              /\ mine[q] # Full /\ mine'[q] > mine[p]
              /\ mine[q] < 0 \/ mine'[q] < mine[q]
         /\ \A q \in Points : Adjacent(p, q) /\ mine[q] # Full => mine'[q] >= 0
<1> DEFINE p == Head(queue)
<1>1. /\ p \in Points /\ p # dst
      /\ Tail(queue) \in Seq(Points)
      /\ ToSet(queue) = {p} \cup ToSet(Tail(queue))
  BY HeadAndTail DEF ExpandPoint, Shape
<1>2. mine[p] >= 0 /\ mine[p] \in Nat
  BY <1>1 DEF Wave, Shape, Empty, Full
<1>3. /\ queue' = Tail(queue) \o Pushed(p)
      /\ mine' = [q \in Points |->
           IF \E m \in Moves : Beside(p, m) = q /\ Better(p, m)
           THEN mine[p] + (CHOOSE m \in Moves : Beside(p, m) = q).cost
           ELSE mine[q]]
  BY DEF ExpandPoint
<1> HIDE DEF p
<1>4. /\ queue' \in Seq(Points)
      /\ ToSet(queue') = ToSet(Tail(queue)) \cup ToSet(Pushed(p))
  <2>1. Pushed(p) \in Seq(Points)
    BY <1>1, PushedPoints
  <2>2. /\ Tail(queue) \o Pushed(p) \in Seq(Points)
        /\ ToSet(Tail(queue) \o Pushed(p)) = ToSet(Tail(queue)) \cup ToSet(Pushed(p))
    <3>1. \A s, u \in Seq(Points) :
            s \o u \in Seq(Points) /\ ToSet(s \o u) = ToSet(s) \cup ToSet(u)
      BY ToSetConcat
    <3> QED BY <1>1, <2>1, <3>1, Zenon
  <2> QED BY <1>3, <2>2, Zenon
<1>5. ASSUME NEW q \in Points \ ToSet(Pushed(p)) PROVE mine'[q] = mine[q]
  BY <1>1, <1>3, PushedPoints
<1>6. ASSUME NEW q \in ToSet(Pushed(p))
      PROVE  /\ q \in Points /\ Adjacent(p, q)
             /\ mine[q] # Full /\ mine'[q] \in Nat /\ mine'[q] > mine[p]
             /\ mine[q] < 0 \/ mine'[q] < mine[q]
  <2>1. PICK m \in Moves : q = Beside(p, m) /\ Better(p, m)
    BY <1>1, PushedPoints
  <2>2. (CHOOSE n \in Moves : Beside(p, n) = q) = m
    BY <1>1, <2>1, MovesApart
  <2>3. q \in Points
    BY <2>1 DEF Better
  <2>4. mine'[q] = mine[p] + m.cost
    BY <1>3, <2>1, <2>2, <2>3
  <2>5. m.cost \in Nat /\ m.cost > 0
    BY MovesTyped DEF Move
  <2>6. mine[q] # Full /\ (mine[q] = Empty \/ mine[p] + m.cost < mine[q])
    BY <2>1 DEF Better
  <2> QED BY <1>2, <2>1, <2>3, <2>4, <2>5, <2>6 DEF Adjacent, Empty
<1>7. mine' \in [Points -> Nat \cup {Empty, Full}]
  <2>1. \A q \in Points : mine'[q] \in Nat \cup {Empty, Full}
    BY <1>5, <1>6 DEF Shape
  <2> QED BY <1>3, <2>1
<1>8. ASSUME NEW q \in Points, Adjacent(p, q), mine[q] # Full
      PROVE  mine'[q] >= 0
  <2>1. CASE q \in ToSet(Pushed(p))
    BY <1>6, <2>1
  <2>2. CASE q \notin ToSet(Pushed(p))
    <3>1. PICK m \in Moves : q = Beside(p, m)
      BY <1>8 DEF Adjacent
    <3>2. ~ Better(p, m)
      BY <1>1, <2>2, <3>1, PushedPoints
    <3>3. mine[q] # Empty
      BY <1>8, <3>1, <3>2 DEF Better
    <3>4. mine[q] \in Nat
      BY <1>8, <3>3 DEF Shape
    <3> QED BY <1>5, <2>2, <3>4
  <2> QED BY <2>1, <2>2
<1> QED BY <1>1, <1>2, <1>4, <1>5, <1>6, <1>7, <1>8 DEF p

LEMMA ExpandPointKeeps ==
  ASSUME PositiveCosts, IInv, ExpandPoint
  PROVE  IInv'
<1> DEFINE p == Head(queue)
<1>1. Shape /\ Wave /\ ThroughFree /\ path = <<>> /\ pc = "expand"
  BY DEF IInv, ExpandPoint
<1>2. UNCHANGED <<grid, src, dst, pc, next, path>>
  BY DEF ExpandPoint
<1>3. /\ p \in Points /\ mine[p] >= 0 /\ p # dst
      /\ ToSet(queue) = {p} \cup ToSet(Tail(queue))
      /\ queue' \in Seq(Points)
      /\ ToSet(queue') = ToSet(Tail(queue)) \cup ToSet(Pushed(p))
      /\ mine' \in [Points -> Nat \cup {Empty, Full}]
      /\ \A q \in Points \ ToSet(Pushed(p)) : mine'[q] = mine[q]
      /\ \A q \in ToSet(Pushed(p)) :
           /\ q \in Points /\ Adjacent(p, q)
           /\ mine[q] # Full /\ mine'[q] > mine[p]
           /\ mine[q] < 0 \/ mine'[q] < mine[q]
      /\ \A q \in Points : Adjacent(p, q) /\ mine[q] # Full => mine'[q] >= 0
  BY <1>1, Expanded
<1> HIDE DEF p
<1>4. mine \in [Points -> Nat \cup {Empty, Full}]
  BY <1>1 DEF Shape
<1>5. src \in Points /\ dst \in Points /\ grid \subseteq Points
  BY <1>1 DEF Shape
\* A point that has a value keeps one, and it is no larger.
<1>6. \A q \in Points : mine[q] >= 0 => mine'[q] >= 0 /\ mine'[q] <= mine[q]
  BY <1>3, <1>4 DEF Empty, Full
<1>7. p \notin ToSet(Pushed(p)) /\ mine'[p] = mine[p]
  BY <1>3, <1>4 DEF Empty, Full
<1>8. \A q \in Points : mine'[q] = Full <=> mine[q] = Full
  BY <1>3, <1>4 DEF Empty, Full
<1>9. Shape'
  BY <1>1, <1>2, <1>3 DEF Shape, Place
<1>10. \A q \in Points : mine[q] = Full <=> q \in grid \ {src, dst}
  BY <1>1 DEF Wave
<1>11. ThroughFree'
  BY <1>2, <1>5, <1>8, <1>10 DEF ThroughFree, Full
<1>12. Wave'
  <2>1. mine'[src] = 0
    <3>1. mine[src] = 0
      BY <1>1 DEF Wave
    <3>2. src \notin ToSet(Pushed(p))
      <4>1. mine[p] \in Nat /\ mine'[src] \in Int
        BY <1>3, <1>4, <1>5 DEF Empty, Full
      <4> QED BY <1>3, <3>1, <4>1
    <3> QED BY <1>3, <1>5, <3>1, <3>2
  <2>2. \A q \in Points : Descends(mine[q])
    BY <1>1 DEF Wave
  <2>3. ASSUME NEW q \in Points, mine'[q] >= 0
        PROVE  \/ mine'[q] = 0 /\ q = src
               \/ \E r \in Points : Adjacent(q, r) /\ mine'[r] >= 0 /\ mine'[r] < mine'[q]
    <3>1. CASE q \in ToSet(Pushed(p))
      BY <1>3, <1>7, <3>1, AdjacentSymmetric
    <3>2. CASE q \notin ToSet(Pushed(p))
      <4>1. mine'[q] = mine[q]
        BY <1>3, <3>2
      <4>2. \/ mine[q] = 0 /\ q = src
            \/ \E r \in Points : Adjacent(q, r) /\ mine[r] >= 0 /\ mine[r] < mine[q]
        <5>1. mine[q] \in Int
          BY <1>4 DEF Empty, Full
        <5> QED BY <2>2, <2>3, <4>1, <5>1 DEF Descends
      <4> QED BY <1>3, <1>4, <1>6, <4>1, <4>2 DEF Empty, Full
    <3> QED BY <3>1, <3>2
  <2>4. \A q \in Points : Descends(mine[q])'
    BY <1>2, <2>3 DEF Descends
  <2>5. \A q \in ToSet(queue') : mine'[q] >= 0
    <3>1. \A q \in ToSet(queue) : q \in Points /\ mine[q] >= 0
      BY <1>1, ToSetOfPoints DEF Wave, Shape
    <3> QED BY <1>3, <1>6, <3>1
  <2>6. mine'[dst] >= 0 => dst \in ToSet(queue')
    <3>1. mine[dst] >= 0 => dst \in ToSet(queue)
      BY <1>1 DEF Wave
    <3> QED BY <1>3, <1>5, <3>1
  <2>7. ASSUME NEW q \in Points, NEW r \in Points,
               mine'[q] >= 0, q # dst, q \notin ToSet(queue'),
               Adjacent(q, r), mine'[r] # Full
        PROVE  mine'[r] >= 0
    <3>1. mine[r] # Full
      BY <1>8, <2>7
    <3>2. CASE q = p
      BY <1>3, <2>7, <3>1, <3>2
    <3>3. CASE q # p
      <4>1. q \notin ToSet(queue) /\ mine[q] >= 0
        BY <1>3, <2>7, <3>3
      <4>2. mine[r] >= 0
        BY <1>1, <2>7, <3>1, <4>1 DEF Wave
      <4> QED BY <1>6, <4>2
    <3> QED BY <3>2, <3>3
  <2>8. \A q \in Points : mine'[q] = Full <=> q \in grid \ {src, dst}
    BY <1>8, <1>10
  <2> QED BY <1>2, <2>1, <2>4, <2>5, <2>6, <2>7, <2>8 DEF Wave, Adjacent
<1> QED BY <1>1, <1>2, <1>9, <1>11, <1>12 DEF IInv

LEMMA ReachDestinationKeeps ==
  ASSUME IInv, ReachDestination
  PROVE  IInv'
<1>1. Shape /\ Wave /\ ThroughFree /\ path = <<>> /\ pc = "expand"
  BY DEF IInv, ReachDestination
<1>2. /\ UNCHANGED <<grid, src, dst, mine, path>>
      /\ queue # <<>> /\ Head(queue) = dst /\ queue' = Tail(queue)
      /\ pc' = "trace"
      /\ next' = [at |-> dst, value |-> mine[dst], momentum |-> ZERO]
  BY DEF ReachDestination
<1>3. Tail(queue) \in Seq(Points) /\ dst \in ToSet(queue)
  BY <1>1, <1>2, HeadAndTail DEF Shape
<1>4. dst \in Points /\ mine[dst] >= 0 /\ mine[dst] \in Int
  BY <1>1, <1>3 DEF Wave, Shape, Empty, Full
<1>5. next' \in Place
  BY <1>2, <1>4 DEF Place
<1>6. Shape'
  BY <1>1, <1>2, <1>3, <1>5 DEF Shape
<1>7. ThroughFree'
  BY <1>1, <1>2 DEF ThroughFree
<1>8. Walked'
  BY <1>1, <1>2 DEF Walked, IsInjective
<1>9. Down'
  <2>1. Descends(mine[dst])
    BY <1>1, <1>4 DEF Wave
  <2>2. Descends(next.value)'
    BY <1>2, <2>1 DEF Descends, Adjacent
  <2> QED BY <1>1, <1>2, <1>4, <2>2 DEF Down
<1> QED BY <1>2, <1>6, <1>7, <1>8, <1>9 DEF IInv

LEMMA NoRouteKeeps ==
  ASSUME IInv, NoRoute
  PROVE  IInv'
<1>1. Shape /\ Wave /\ ThroughFree /\ path = <<>> /\ queue = <<>>
  BY DEF IInv, NoRoute
<1>2. UNCHANGED <<grid, src, dst, mine, queue, next, path>> /\ pc' = "none"
  BY DEF NoRoute
<1>3. Shape'
  BY <1>1, <1>2 DEF Shape
<1>4. ThroughFree'
  BY <1>1, <1>2 DEF ThroughFree
<1>5. Wave'
  BY <1>1, <1>2 DEF Wave, Descends, Adjacent
<1> QED BY <1>1, <1>2, <1>3, <1>4, <1>5 DEF IInv

-------------------------------------------------------------------------------
(***************************************************************************)
(* doTraceback.                                                            *)
(***************************************************************************)

\* What a call of traceToNeighbor may make of the place that looks best so far:
\* curr itself or a better neighbour of it.
Candidate(values, curr, best) ==
  \/ best = curr
  \/ /\ best \in Place
     /\ best.at # curr.at /\ Adjacent(curr.at, best.at)
     /\ best.value = values[best.at] /\ best.value >= 0 /\ best.value <= curr.value

\* The place is no worse than a neighbour would be.
LEMMA NearerIsCandidate ==
  ASSUME PositiveCosts,
         NEW values \in [Points -> Nat \cup {Empty, Full}],
         NEW curr \in Place, NEW m \in Moves, NEW useMomentum \in BOOLEAN,
         NEW best \in Place, Candidate(values, curr, best)
  PROVE  LET better == Nearer(values, curr, m, useMomentum, best) IN
         /\ better \in Place
         /\ Candidate(values, curr, better)
         /\ best # curr => better # curr
         /\ ~ useMomentum /\ best = curr
              /\ Beside(curr.at, m) \in Points
              /\ values[Beside(curr.at, m)] \notin {Empty, Full}
              /\ values[Beside(curr.at, m)] <= curr.value
            => better # curr
<1> DEFINE q == Beside(curr.at, m)
           b == IF useMomentum /\ curr.momentum # m THEN BendCost ELSE 0
           better == Nearer(values, curr, m, useMomentum, best)
<1>1. b \in Int /\ b >= 0
  BY CostAssumption DEF PositiveCosts
<1>2. /\ curr.at \in Points /\ curr.value \in Int
      /\ best.at \in Points /\ best.value \in Int /\ best.value <= curr.value
  BY DEF Place, Candidate
<1>3. q # curr.at
  BY <1>2, MovesAway
<1>4. better = IF /\ q \in Points /\ values[q] \notin {Empty, Full}
                  /\ values[q] + b <= best.value
               THEN [at |-> q, value |-> values[q], momentum |-> m]
               ELSE best
  BY DEF Nearer
<1>5. CASE /\ q \in Points /\ values[q] \notin {Empty, Full}
           /\ values[q] + b <= best.value
  <2>1. better = [at |-> q, value |-> values[q], momentum |-> m]
    BY <1>4, <1>5
  <2>2. values[q] \in Nat /\ values[q] <= curr.value
    BY <1>1, <1>2, <1>5
  <2>3. better.at = q /\ better.value = values[q]
    BY <2>1
  <2>4. better \in Place
    BY <1>5, <2>1, <2>2 DEF Place
  <2>5. Adjacent(curr.at, q)
    BY DEF Adjacent
  <2>6. better # curr
    BY <1>3, <2>3
  <2> HIDE DEF q, better
  <2> QED BY <1>3, <2>2, <2>3, <2>4, <2>5, <2>6 DEF Candidate, better, q
<1>6. CASE ~ (/\ q \in Points /\ values[q] \notin {Empty, Full}
              /\ values[q] + b <= best.value)
  <2>1. better = best
    BY <1>4, <1>6
  <2>2. ASSUME ~ useMomentum, best = curr, q \in Points, values[q] \notin {Empty, Full},
               values[q] <= curr.value
        PROVE  FALSE
    <3>1. b = 0 /\ values[q] \in Nat
      BY <2>2
    <3>2. values[q] + b = values[q] /\ best.value = curr.value
      BY <2>2, <3>1
    <3> QED BY <1>6, <2>2, <3>2
  <2> HIDE DEF b
  <2> QED BY <2>1, <2>2
<1> QED BY <1>5, <1>6

\* The same of the six calls: without the cost of bends, the walk moves on if
\* some neighbour is no worse than where it is.
LEMMA NearestIsCandidate ==
  ASSUME PositiveCosts,
         NEW values \in [Points -> Nat \cup {Empty, Full}],
         NEW curr \in Place, NEW useMomentum \in BOOLEAN
  PROVE  LET best == Nearest(values, curr, useMomentum) IN
         /\ best \in Place
         /\ Candidate(values, curr, best)
         /\ /\ ~ useMomentum
            /\ \E q \in Points : /\ Adjacent(curr.at, q)
                                 /\ values[q] \notin {Empty, Full}
                                 /\ values[q] <= curr.value
            => best # curr
<1> DEFINE Good(m) == /\ Beside(curr.at, m) \in Points
                      /\ values[Beside(curr.at, m)] \notin {Empty, Full}
                      /\ values[Beside(curr.at, m)] <= curr.value
           Near(m, best) == Nearer(values, curr, m, useMomentum, best)
           posx == Near(POSX, curr)
           posy == Near(POSY, posx)
           posz == Near(POSZ, posy)
           negx == Near(NEGX, posz)
           negy == Near(NEGY, negx)
           negz == Near(NEGZ, negy)
<1>1. ASSUME NEW m \in Moves, NEW best \in Place, Candidate(values, curr, best)
      PROVE  /\ Near(m, best) \in Place
             /\ Candidate(values, curr, Near(m, best))
             /\ best # curr => Near(m, best) # curr
             /\ ~ useMomentum /\ Good(m) => Near(m, best) # curr
  BY <1>1, NearerIsCandidate
<1>2. Nearest(values, curr, useMomentum) = negz
  BY DEF Nearest
<1>3. /\ POSX \in Moves /\ POSY \in Moves /\ POSZ \in Moves
      /\ NEGX \in Moves /\ NEGY \in Moves /\ NEGZ \in Moves
  BY DEF Moves
<1> HIDE DEF Good, Near
<1>4. Candidate(values, curr, curr)
  BY DEF Candidate
<1>5. /\ posx \in Place /\ Candidate(values, curr, posx)
      /\ ~ useMomentum /\ Good(POSX) => posx # curr
  BY <1>1, <1>3, <1>4
<1> HIDE DEF posx
<1>6. /\ posy \in Place /\ Candidate(values, curr, posy)
      /\ posx # curr => posy # curr
      /\ ~ useMomentum /\ Good(POSY) => posy # curr
  BY <1>1, <1>3, <1>5
<1> HIDE DEF posy
<1>7. /\ posz \in Place /\ Candidate(values, curr, posz)
      /\ posy # curr => posz # curr
      /\ ~ useMomentum /\ Good(POSZ) => posz # curr
  BY <1>1, <1>3, <1>6
<1> HIDE DEF posz
<1>8. /\ negx \in Place /\ Candidate(values, curr, negx)
      /\ posz # curr => negx # curr
      /\ ~ useMomentum /\ Good(NEGX) => negx # curr
  BY <1>1, <1>3, <1>7
<1> HIDE DEF negx
<1>9. /\ negy \in Place /\ Candidate(values, curr, negy)
      /\ negx # curr => negy # curr
      /\ ~ useMomentum /\ Good(NEGY) => negy # curr
  BY <1>1, <1>3, <1>8
<1> HIDE DEF negy
<1>10. /\ negz \in Place /\ Candidate(values, curr, negz)
       /\ negy # curr => negz # curr
       /\ ~ useMomentum /\ Good(NEGZ) => negz # curr
  BY <1>1, <1>3, <1>9
<1> HIDE DEF negz
<1>11. ASSUME ~ useMomentum, NEW m \in Moves, Good(m) PROVE negz # curr
  BY <1>5, <1>6, <1>7, <1>8, <1>9, <1>10, <1>11 DEF Moves
<1>12. ASSUME NEW q \in Points, Adjacent(curr.at, q),
              values[q] \notin {Empty, Full}, values[q] <= curr.value
       PROVE  \E m \in Moves : Good(m)
  BY <1>12 DEF Adjacent, Good
<1> QED BY <1>2, <1>10, <1>11, <1>12

\* From a point of the wave that has a neighbour closer to src, the walk goes
\* on to a neighbour that is no further than the point.
LEMMA OnwardMoves ==
  ASSUME PositiveCosts,
         NEW values \in [Points -> Nat \cup {Empty, Full}],
         NEW curr \in Place,
         \E q \in Points : /\ Adjacent(curr.at, q)
                           /\ values[q] >= 0 /\ values[q] <= curr.value
  PROVE  LET best == Onward(values, curr) IN
         /\ best \in Place
         /\ best.at # curr.at /\ Adjacent(curr.at, best.at)
         /\ best.value = values[best.at] /\ best.value >= 0 /\ best.value <= curr.value
<1> DEFINE one == Nearest(values, curr, TRUE)
           two == Nearest(values, curr, FALSE)
<1>1. one \in Place /\ Candidate(values, curr, one)
  BY NearestIsCandidate
<1>2. two \in Place /\ Candidate(values, curr, two) /\ two # curr
  <2>1. \E q \in Points : /\ Adjacent(curr.at, q)
                          /\ values[q] \notin {Empty, Full}
                          /\ values[q] <= curr.value
    BY DEF Empty, Full
  <2> QED BY <2>1, NearestIsCandidate
<1>3. Onward(values, curr) = IF one.at # curr.at THEN one ELSE two
  BY DEF Onward
<1> HIDE DEF one, two
<1> QED BY <1>1, <1>2, <1>3 DEF Candidate

\* The route with one more point is a walk as before.
LEMMA WalkedFurther ==
  ASSUME Shape, Walked, Down, ThroughFree, TracePoint
  PROVE  Walked' /\ Last(path') = next.at /\ path' # <<>>
<1> DEFINE p == next.at
           n == Len(path)
<1>1. /\ p \in Points /\ mine[p] >= 0
      /\ path \in Seq(Points) /\ n \in Nat
      /\ UNCHANGED <<grid, src, dst, queue>>
      /\ path' = Append(path, p)
      /\ mine' = [mine EXCEPT ![p] = Full]
  BY DEF Shape, Down, TracePoint, Place
<1>2. /\ path' \in Seq(Points) /\ Len(path') = n + 1
      /\ path'[n + 1] = p
      /\ \A k \in 1 .. n : path'[k] = path[k] /\ path[k] \in Points
  BY <1>1
<1>3. \A q \in Points : mine'[q] = IF q = p THEN Full ELSE mine[q]
  BY <1>1 DEF Shape
<1>4. \A k \in 1 .. n : mine[path[k]] = Full /\ path[k] # p
  BY <1>1 DEF Walked, Full
<1> HIDE DEF p, n
<1>5. \A k \in 1 .. n + 1 : mine'[path'[k]] = Full
  BY <1>1, <1>2, <1>3, <1>4
<1>6. path'[1] = dst
  <2>1. CASE n = 0
    <3>1. path = <<>>
      BY <1>1, <2>1 DEF n
    <3> QED BY <1>2, <2>1, <3>1 DEF Down, p
  <2>2. CASE n > 0
    <3>1. path # <<>>
      BY <2>2 DEF n
    <3> QED BY <1>1, <1>2, <2>2, <3>1 DEF Walked
  <2> QED BY <1>1, <2>1, <2>2
<1>7. \A j, k \in 1 .. n + 1 : path'[j] = path'[k] => j = k
  <2>1. \A j, k \in 1 .. n : path[j] = path[k] => j = k
    BY <1>1 DEF Walked, IsInjective, n
  <2> QED BY <1>1, <1>2, <1>4, <2>1
<1>8. ASSUME NEW k \in 1 .. n PROVE Adjacent(path'[k], path'[k + 1])
  <2>0. k < n \/ k = n
    BY <1>1
  <2>1. CASE k < n
    <3>1. Adjacent(path[k], path[k + 1])
      BY <1>1, <2>1 DEF Walked, n
    <3> QED BY <1>1, <1>2, <2>1, <3>1
  <2>2. CASE k = n
    <3>1. path # <<>> /\ Last(path) = path[n]
      BY <1>1, <2>2 DEF Last, n
    <3>2. Adjacent(path[n], p)
      BY <3>1 DEF Down, p
    <3>3. path'[k] = path[n] /\ path'[k + 1] = p
      BY <1>2, <2>2
    <3> QED BY <3>2, <3>3, Zenon
  <2> QED BY <2>0, <2>1, <2>2
<1>9. ASSUME NEW k \in 2 .. n + 1 PROVE path'[k] \notin grid \/ path'[k] = src
  <2>0. k <= n \/ k = n + 1
    BY <1>1
  <2>1. CASE k <= n
    BY <1>1, <1>2, <2>1 DEF Walked, n
  <2>2. CASE k = n + 1
    <3>1. n # 0 /\ n \in Nat
      BY <1>1, <2>2
    <3>2. path # <<>> /\ 1 \in 1 .. n
      BY <1>1, <3>1 DEF n
    <3>3. path[1] = dst
      BY <3>2 DEF Walked
    <3>4. p # dst
      BY <1>4, <3>2, <3>3, Zenon
    <3>5. mine[p] \in Int
      BY <1>1 DEF Shape, Empty, Full
    <3>6. p \notin grid \/ p = src
      BY <1>1, <3>4, <3>5 DEF ThroughFree
    <3> QED BY <1>2, <2>2, <3>6
  <2> QED BY <2>0, <2>1, <2>2
<1>10. Walked'
  <2>1. DOMAIN path' = 1 .. n + 1
    BY <1>2
  <2>2. IsInjective(path')
    BY <1>7, <2>1 DEF IsInjective
  <2>3. \A k \in 1 .. Len(path') : mine'[path'[k]] = Full
    BY <1>2, <1>5
  <2>4. \A k \in 1 .. Len(path') - 1 : Adjacent(path'[k], path'[k + 1])
    BY <1>1, <1>2, <1>8
  <2>5. \A k \in 2 .. Len(path') : path'[k] \notin grid' \/ path'[k] = src'
    BY <1>1, <1>2, <1>9
  <2> QED BY <1>1, <1>6, <2>2, <2>3, <2>4, <2>5 DEF Walked, Adjacent
<1>11. Last(path') = p /\ path' # <<>>
  BY <1>1, <1>2 DEF Last
<1> QED BY <1>10, <1>11 DEF p

LEMMA TracePointKeeps ==
  ASSUME PositiveCosts, IInv, TracePoint
  PROVE  IInv'
<1> DEFINE p == next.at
<1>1. Shape /\ Walked /\ Down /\ ThroughFree
  BY DEF IInv, TracePoint
<1>2. /\ UNCHANGED <<grid, src, dst, queue>>
      /\ path' = Append(path, p)
      /\ mine' = [mine EXCEPT ![p] = Full]
  BY DEF TracePoint
<1>3. /\ p \in Points /\ next.value \in Int /\ next.value >= 0 /\ mine[p] = next.value
      /\ mine \in [Points -> Nat \cup {Empty, Full}] /\ path \in Seq(Points)
  BY <1>1 DEF Shape, Down, Place
<1> HIDE DEF p
<1>4. mine' \in [Points -> Nat \cup {Empty, Full}]
  BY <1>2, <1>3
<1>5. \A q \in Points : mine'[q] = IF q = p THEN Full ELSE mine[q]
  BY <1>2, <1>3
<1>6. ThroughFree'
  BY <1>1, <1>2, <1>5 DEF ThroughFree, Full, Shape
<1>7. Walked' /\ Last(path') = p /\ path' # <<>>
  BY <1>1, WalkedFurther DEF p
<1>8. path' \in Seq(Points)
  BY <1>2, <1>3
<1>9. CASE next.value = 0
  <2>1. pc' = "found" /\ next' = next
    BY <1>9 DEF TracePoint
  <2>2. p = src
    <3>1. Descends(0) /\ mine[p] = 0
      BY <1>1, <1>3, <1>9 DEF Down
    <3> QED BY <1>3, <3>1 DEF Descends, Empty, Full
  <2>3. Shape'
    BY <1>1, <1>2, <1>4, <1>8, <2>1 DEF Shape
  <2> QED BY <1>2, <1>6, <1>7, <2>1, <2>2, <2>3 DEF IInv
<1>10. CASE next.value # 0
  <2>1. /\ next' = Onward(mine', next)
        /\ pc' = IF next'.at = next.at THEN "stuck" ELSE "trace"
    BY <1>10 DEF TracePoint
  <2>2. PICK q \in Points : Adjacent(p, q) /\ mine[q] >= 0 /\ mine[q] < mine[p]
    BY <1>1, <1>3, <1>10 DEF Down, Descends
  <2>3. mine'[q] = mine[q]
    BY <1>3, <1>5, <2>2
  <2>4. /\ next' \in Place
        /\ next'.at # p /\ Adjacent(p, next'.at)
        /\ next'.value = mine'[next'.at] /\ next'.value >= 0
        /\ next'.value <= next.value
    <3>1. next \in Place
      BY <1>1 DEF Shape
    <3>2. \E r \in Points : /\ Adjacent(next.at, r)
                            /\ mine'[r] >= 0 /\ mine'[r] <= next.value
      BY <1>3, <2>2, <2>3 DEF p, Empty, Full
    <3> QED BY <1>4, <2>1, <3>1, <3>2, OnwardMoves DEF p
  <2>5. pc' = "trace"
    BY <2>1, <2>4 DEF p
  <2>6. Shape'
    BY <1>1, <1>2, <1>4, <1>8, <2>4, <2>5 DEF Shape
  <2>7. Descends(next.value)'
    <3>1. Descends(next.value)
      BY <1>1 DEF Down
    <3>2. next'.value \in Int
      BY <2>4 DEF Place
    <3> SUFFICES ASSUME NEW r \in Points, mine'[r] >= 0, mine'[r] <= next'.value
                 PROVE  \/ mine'[r] = 0 /\ r = src
                        \/ \E s \in Points : /\ Adjacent(r, s)
                                             /\ mine'[s] >= 0 /\ mine'[s] < mine'[r]
      BY <1>2 DEF Descends, Adjacent
    <3>3. mine'[r] = mine[r] /\ mine[r] \in Nat
      BY <1>3, <1>5 DEF Empty, Full
    <3>4. CASE mine[r] = 0 /\ r = src
      BY <3>3, <3>4
    <3>5. ASSUME NEW s \in Points, Adjacent(r, s), mine[s] >= 0, mine[s] < mine[r]
          PROVE  mine'[s] >= 0 /\ mine'[s] < mine'[r]
      <4>1. s # p
        BY <1>3, <2>4, <3>2, <3>3, <3>5 DEF Empty, Full
      <4> QED BY <1>5, <3>3, <3>5, <4>1
    <3>6. mine[r] <= next.value /\ mine[r] >= 0
      BY <1>3, <2>4, <3>2, <3>3
    <3> QED BY <3>1, <3>4, <3>5, <3>6 DEF Descends
  <2>8. Down'
    BY <1>7, <2>4, <2>7 DEF Down, Adjacent
  <2> QED BY <1>6, <1>7, <2>5, <2>6, <2>8 DEF IInv
<1> QED BY <1>9, <1>10

LEMMA NextIInv == PositiveCosts /\ IInv /\ [Next]_vars => IInv'
<1> SUFFICES ASSUME PositiveCosts, IInv, [Next]_vars PROVE IInv'
  OBVIOUS
<1>1. CASE Next
  BY <1>1, ExpandPointKeeps, ReachDestinationKeeps, NoRouteKeeps, TracePointKeeps DEF Next
<1>2. CASE UNCHANGED vars
  BY <1>2 DEF vars, IInv, Shape, ThroughFree, Wave, Down, Descends, Walked, Adjacent
<1> QED BY <1>1, <1>2

\* The invariant holds throughout every search.
THEOREM Invariance ==
  ASSUME PositiveCosts
  PROVE  Spec => []IInv
<1>1. Init => IInv
  BY InitIInv
<1>2. IInv /\ [Next]_vars => IInv'
  BY NextIInv
<1> QED BY <1>1, <1>2, PTL DEF Spec

-------------------------------------------------------------------------------
(***************************************************************************)
(* The route is a trail.                                                   *)
(***************************************************************************)

LEMMA IInvTrail == IInv => RouteIsTrail
<1> SUFFICES ASSUME IInv, pc = "found"
             PROVE  /\ path[1] = dst /\ Last(path) = src
                    /\ IsInjective(path)
                    /\ \A k \in 1 .. Len(path) - 1 : Adjacent(path[k], path[k + 1])
                    /\ \A k \in 2 .. Len(path) - 1 : path[k] \notin grid
  BY DEF RouteIsTrail
<1>1. Walked /\ path # <<>> /\ Last(path) = src /\ path \in Seq(Points)
  BY DEF IInv, Shape
<1>2. ASSUME NEW k \in 2 .. Len(path) - 1 PROVE path[k] \notin grid
  <2>1. k \in DOMAIN path /\ Len(path) \in DOMAIN path /\ k # Len(path)
    BY <1>1
  <2>2. path[Len(path)] = src
    BY <1>1 DEF Last
  <2>3. path[k] # src
    BY <1>1, <2>1, <2>2 DEF Walked, IsInjective
  <2> QED BY <1>1, <2>3 DEF Walked
<1> QED BY <1>1, <1>2 DEF Walked

\* A route that is found leads from dst to src, one move at a time, visits no
\* point twice and passes through free points only, whatever the grid: what
\* tryToLock and maze_checkPaths rely on.
THEOREM RoutesAreTrails ==
  ASSUME PositiveCosts
  PROVE  Spec => []RouteIsTrail
  BY Invariance, IInvTrail, PTL

-------------------------------------------------------------------------------
(***************************************************************************)
(* A route is found if and only if there is one.                           *)
(***************************************************************************)

\* Where one move more leads from the points of a set.
Around(S) == UNION {{p} \cup Open(p) : p \in S}

\* Within is what its recursive definition says.
LEMMA WithinUnfolds ==
  ASSUME src \in Points, dst \in Points
  PROVE  /\ Within[0] = {src}
         /\ \A n \in Nat : Within[n + 1] = Around(Within[n])
         /\ \A n \in Nat : Within[n] \in SUBSET Points
<1> DEFINE F == [S \in SUBSET Points |-> Around(S)]
           Eqn(within) == within = [n \in Nat |->
                            IF n = 0 THEN {src}
                            ELSE UNION {{p} \cup Open(p) : p \in within[n - 1]}]
<1>1. F \in [SUBSET Points -> SUBSET Points]
  BY DEF Around, Open
<1>2. PICK f \in [Nat -> SUBSET Points] :
        f[0] = {src} /\ \A n \in Nat : f[n + 1] = F[f[n]]
  <2>1. {src} \in SUBSET Points
    OBVIOUS
  <2> DEFINE A == SUBSET Points
  <2> HIDE DEF F, A
  <2>2. {src} \in A /\ F \in [A -> A]
    BY <1>1, <2>1 DEF A
  <2>3. \E f \in [Nat -> A] : f[0] = {src} /\ \A n \in Nat : f[n + 1] = F[f[n]]
    BY <2>2, Iteration
  <2> QED BY <2>3 DEF A
<1>3. Eqn(f)
  <2>1. \A n \in Nat : n # 0 => f[n] = UNION {{p} \cup Open(p) : p \in f[n - 1]}
    <3> SUFFICES ASSUME NEW n \in Nat, n # 0
                 PROVE  f[n] = UNION {{p} \cup Open(p) : p \in f[n - 1]}
      OBVIOUS
    <3>1. n - 1 \in Nat /\ (n - 1) + 1 = n
      OBVIOUS
    <3>2. f[n] = F[f[n - 1]] /\ f[n - 1] \in SUBSET Points
      BY <1>2, <3>1
    <3> QED BY <3>2 DEF Around
  <2> QED BY <1>2, <2>1
<1>4. Within = CHOOSE within : Eqn(within)
  BY DEF Within
<1>5. Eqn(Within)
  <2> HIDE DEF Eqn
  <2> QED BY <1>3, <1>4
<1>6. Within[0] = {src}
  BY <1>5
<1>7. \A n \in Nat : Within[n + 1] = Around(Within[n])
  BY <1>5 DEF Around
<1>8. \A n \in Nat : Within[n] \in SUBSET Points
  <2> DEFINE S == {n \in Nat : Within[n] \in SUBSET Points}
  <2>1. 0 \in S
    BY <1>6
  <2>2. \A n \in Nat : n \in S => n + 1 \in S
    BY <1>7 DEF Around, Open
  <2>3. Nat \subseteq S
    <3> HIDE DEF S
    <3> QED BY <2>1, <2>2, NatInduct
  <2> QED BY <2>3
<1> QED BY <1>6, <1>7, <1>8

\* What is within n moves is within more moves.
LEMMA WithinGrows ==
  ASSUME src \in Points, dst \in Points, NEW n \in Nat, NEW k \in Nat
  PROVE  Within[n] \subseteq Within[n + k]
<1> DEFINE S == {j \in Nat : Within[n] \subseteq Within[n + j]}
<1>1. 0 \in S
  OBVIOUS
<1>2. ASSUME NEW j \in Nat, j \in S PROVE j + 1 \in S
  <2>1. n + j \in Nat /\ n + (j + 1) = (n + j) + 1
    OBVIOUS
  <2>2. Within[n + (j + 1)] = Around(Within[n + j])
    BY <2>1, WithinUnfolds
  <2>3. Within[n + j] \subseteq Around(Within[n + j])
    BY DEF Around
  <2> QED BY <1>2, <2>2, <2>3
<1>3. Nat \subseteq S
  <2> HIDE DEF S
  <2> QED BY <1>1, <1>2, NatInduct
<1> QED BY <1>3

\* A grid has Width * Height * Depth points.
LEMMA CountPoints ==
  IsFiniteSet(Points) /\ Cardinality(Points) = Width * Height * Depth
<1> DEFINE X == 0 .. Width - 1
           Y == 0 .. Height - 1
           Z == 0 .. Depth - 1
           Nested == (X \X Y) \X Z
           f == [p \in Nested |-> <<p[1][1], p[1][2], p[2]>>]
<1>1. /\ IsFiniteSet(X) /\ Cardinality(X) = Width
      /\ IsFiniteSet(Y) /\ Cardinality(Y) = Height
      /\ IsFiniteSet(Z) /\ Cardinality(Z) = Depth
  <2>1. \A n \in Nat \ {0} : IsFiniteSet(0 .. n - 1) /\ Cardinality(0 .. n - 1) = n
    <3> SUFFICES ASSUME NEW n \in Nat \ {0}
                 PROVE  IsFiniteSet(0 .. n - 1) /\ Cardinality(0 .. n - 1) = n
      OBVIOUS
    <3>1. n - 1 \in Int /\ ~ (0 > n - 1) /\ (n - 1) - 0 + 1 = n
      OBVIOUS
    <3> QED BY <3>1, FS_Interval
  <2> QED BY <2>1, DimensionsAssumption
<1>2. IsFiniteSet(X \X Y) /\ Cardinality(X \X Y) = Width * Height
  <2> HIDE DEF X, Y
  <2> QED BY <1>1, FS_Product
<1>3. IsFiniteSet(Nested) /\ Cardinality(Nested) = (Width * Height) * Depth
  <2> HIDE DEF X, Y, Z
  <2> QED BY <1>1, <1>2, FS_Product
<1>4. Points = X \X Y \X Z
  BY DEF Points
<1> HIDE DEF X, Y, Z
<1>5. f \in [Nested -> Points]
  BY <1>4
<1>6. \A p \in Points : \E q \in Nested : f[q] = p
  <2> SUFFICES ASSUME NEW p \in Points PROVE \E q \in Nested : f[q] = p
    OBVIOUS
  <2>1. p[1] \in X /\ p[2] \in Y /\ p[3] \in Z /\ p = <<p[1], p[2], p[3]>>
    BY <1>4
  <2>2. <<<<p[1], p[2]>>, p[3]>> \in Nested
    BY <2>1
  <2>3. f[<<<<p[1], p[2]>>, p[3]>>] = p
    BY <2>1, <2>2
  <2> QED BY <2>2, <2>3
<1>7. \A p, q \in Nested : f[p] = f[q] => p = q
  <2> SUFFICES ASSUME NEW p \in Nested, NEW q \in Nested, f[p] = f[q] PROVE p = q
    OBVIOUS
  <2>1. p = <<<<p[1][1], p[1][2]>>, p[2]>> /\ q = <<<<q[1][1], q[1][2]>>, q[2]>>
    OBVIOUS
  <2>2. p[1][1] = q[1][1] /\ p[1][2] = q[1][2] /\ p[2] = q[2]
    OBVIOUS
  <2> QED BY <2>1, <2>2
<1> HIDE DEF f, Nested
<1>8. f \in Surjection(Nested, Points)
  BY <1>5, <1>6 DEF Surjection
<1>9. f \in Injection(Nested, Points)
  BY <1>5, <1>7 DEF Injection, IsInjective
<1>10. IsFiniteSet(Points) /\ Cardinality(Points) = Cardinality(Nested)
  BY <1>3, <1>8, <1>9, FS_Surjection
<1> QED BY <1>3, <1>10

\* A route that was found shows that the points are connected, however many
\* moves it takes: it visits no point twice.
LEMMA FoundConnected ==
  ASSUME IInv, pc = "found"
  PROVE  Connected
<1> DEFINE L == Len(path)
           N == Width * Height * Depth
<1>1. /\ RouteIsTrail /\ pc = "found"
      /\ path \in Seq(Points) /\ path # <<>>
      /\ src \in Points /\ dst \in Points
  BY IInvTrail DEF IInv, Shape
<1>2. L \in Nat /\ L > 0 /\ path \in [1 .. L -> Points]
  BY <1>1
<1>3. path[1] = dst /\ path[L] = src /\ IsInjective(path)
  BY <1>1 DEF RouteIsTrail, Last
<1>4. \A k \in 1 .. L - 1 : Adjacent(path[k], path[k + 1])
  BY <1>1 DEF RouteIsTrail
<1>5. \A k \in 2 .. L - 1 : path[k] \notin grid
  BY <1>1 DEF RouteIsTrail
<1> HIDE DEF L, N
<1> DEFINE S == {n \in Nat : n < L => path[L - n] \in Within[n]}
<1>6. 0 \in S
  BY <1>1, <1>2, <1>3, WithinUnfolds
<1>7. ASSUME NEW n \in Nat, n \in S PROVE n + 1 \in S
  <2> SUFFICES ASSUME n + 1 < L PROVE path[L - (n + 1)] \in Within[n + 1]
    OBVIOUS
  <2> DEFINE k == L - (n + 1)
  <2>1. k \in 1 .. L - 1 /\ k + 1 = L - n /\ k + 1 \in 1 .. L /\ 1 \in 1 .. L
    BY <1>2
  <2> HIDE DEF k
  <2>2. path[k + 1] \in Within[n] /\ path[k] \in Points /\ path[k + 1] \in Points
    BY <1>2, <1>7, <2>1
  <2>3. Adjacent(path[k + 1], path[k])
    BY <1>4, <2>1, <2>2, AdjacentSymmetric
  <2>4. path[k + 1] # dst
    <3>1. k + 1 # 1 /\ DOMAIN path = 1 .. L
      BY <1>2, <2>1
    <3> QED BY <1>3, <2>1, <3>1 DEF IsInjective
  <2>5. path[k] \in (Points \ grid) \cup {dst}
    <3>1. k = 1 \/ k \in 2 .. L - 1
      BY <2>1, <1>2
    <3> QED BY <1>3, <1>5, <2>2, <3>1
  <2>6. path[k] \in Open(path[k + 1])
    BY <2>3, <2>4, <2>5 DEF Open
  <2>7. path[k] \in Around(Within[n])
    BY <2>2, <2>6 DEF Around
  <2> QED BY <1>1, <2>7, WithinUnfolds DEF k
<1>8. Nat \subseteq S
  <2> HIDE DEF S
  <2> QED BY <1>6, <1>7, NatInduct
<1>9. dst \in Within[L - 1]
  <2>1. L - 1 \in Nat /\ L - 1 < L /\ L - (L - 1) = 1
    BY <1>2
  <2> QED BY <1>3, <1>8, <2>1
<1>10. L <= N
  <2>1. path \in Injection(1 .. L, Points)
    BY <1>2, <1>3 DEF Injection, IsInjective
  <2>2. Cardinality(1 .. L) <= Cardinality(Points)
    BY <2>1, CountPoints, FS_Injection
  <2>3. Cardinality(1 .. L) = L
    <3>1. L \in Int /\ 1 \in Int /\ ~ (1 > L) /\ L - 1 + 1 = L
      BY <1>2
    <3> QED BY <3>1, FS_Interval
  <2> QED BY <2>2, <2>3, CountPoints DEF N
<1>11. dst \in Within[N]
  <2>1. N \in Nat
    <3>1. \A a, b \in Nat : a * b \in Nat
      OBVIOUS
    <3> QED BY <3>1, DimensionsAssumption DEF N
  <2>2. L - 1 \in Nat /\ N - (L - 1) \in Nat /\ (L - 1) + (N - (L - 1)) = N
    BY <1>2, <1>10, <2>1
  <2>3. Within[L - 1] \subseteq Within[(L - 1) + (N - (L - 1))]
    BY <1>1, <2>2, WithinGrows
  <2> QED BY <1>9, <2>2, <2>3
<1> QED BY <1>11 DEF Connected, N

\* When the queue is empty, the wave has come to every point that is connected
\* to src, and dst is none of them.
LEMMA NoneDisconnected ==
  ASSUME IInv, pc = "none"
  PROVE  ~ Connected
<1> DEFINE S == {n \in Nat : \A p \in Within[n] : p \in Points /\ mine[p] >= 0}
<1>1. /\ Wave /\ queue = <<>> /\ src \in Points /\ dst \in Points
      /\ mine \in [Points -> Nat \cup {Empty, Full}]
  BY DEF IInv, Shape
<1>2. ToSet(queue) = {}
  BY <1>1 DEF ToSet
<1>3. mine[dst] < 0
  BY <1>1, <1>2 DEF Wave, Empty, Full
<1>4. 0 \in S
  BY <1>1, WithinUnfolds DEF Wave
<1>5. ASSUME NEW n \in Nat, n \in S PROVE n + 1 \in S
  <2>1. Within[n + 1] = Around(Within[n])
    BY <1>1, WithinUnfolds
  <2>2. ASSUME NEW p \in Within[n], NEW q \in {p} \cup Open(p)
        PROVE  q \in Points /\ mine[q] >= 0
    <3>1. p \in Points /\ mine[p] >= 0 /\ p # dst
      BY <1>3, <1>5, <1>1 DEF Empty, Full
    <3>2. CASE q = p
      BY <3>1, <3>2
    <3>3. CASE q \in Open(p)
      <4>1. q \in Points /\ Adjacent(p, q) /\ q \notin grid \ {src, dst}
        BY <1>1, <3>3 DEF Open
      <4>2. mine[q] # Full
        BY <1>1, <4>1 DEF Wave
      <4> QED BY <1>1, <1>2, <3>1, <4>1, <4>2 DEF Wave
    <3> QED BY <2>2, <3>2, <3>3
  <2>3. \A q \in Around(Within[n]) : q \in Points /\ mine[q] >= 0
    BY <2>2 DEF Around
  <2> QED BY <2>1, <2>3
<1>6. Nat \subseteq S
  <2> HIDE DEF S
  <2> QED BY <1>4, <1>5, NatInduct
<1>7. Width * Height * Depth \in Nat
  <2>1. \A a, b \in Nat : a * b \in Nat
    OBVIOUS
  <2> QED BY <2>1, DimensionsAssumption
<1>8. mine[dst] \in Int
  BY <1>1 DEF Empty, Full
<1>9. dst \notin Within[Width * Height * Depth]
  BY <1>3, <1>6, <1>7, <1>8
<1> QED BY <1>9 DEF Connected

LEMMA IInvConnected == IInv => FoundIfConnected
  BY FoundConnected, NoneDisconnected DEF IInv, FoundIfConnected

\* Whatever the grid, a route is found only if free points connect the two
\* ends, the search fails only if none do, and the traceback never gets stuck.
THEOREM RoutedIfConnected ==
  ASSUME PositiveCosts
  PROVE  Spec => []FoundIfConnected
  BY Invariance, IInvConnected, PTL
===============================================================================
