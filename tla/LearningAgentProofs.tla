-------------------------- MODULE LearningAgentProofs --------------------------
(***************************************************************************)
(* For every world, every number of actions and every sequence of runs:    *)
(* the agent acts within its row, rows once cut stay private, values stay  *)
(* bounded, and only learning changes them.                                *)
(***************************************************************************)
EXTENDS LearningAgent, TLAPS

IInv == TypeOK /\ RowsPrivate /\ ActionExists /\ ValuesBounded

(***************************************************************************)
(* The update of a value stays within the bound: the old value weighs one  *)
(* half, and the reward and nine tenths of another value the rest.         *)
(***************************************************************************)
LEMMA UpdatedInBound ==
  ASSUME NEW old \in -Bound .. Bound, NEW next \in -Bound .. Bound,
         NEW r \in -MaxReward .. MaxReward
  PROVE  Updated(old, r, next) \in -Bound .. Bound
<1> DEFINE m == MaxReward * Unit
           v == r * Unit
<1>1. m \in Nat /\ v \in Int /\ Bound = 10 * m
  BY RewardsAssumption DEF Bound
<1>2. -m <= v /\ v <= m
  BY RewardsAssumption
<1>3. ASSUME NEW x \in Int, NEW p \in Nat, x \in -p .. p, NEW o \in -p .. p, p = 10 * m
      PROVE  (o + v + ((9 * x) \div 10)) \div 2 \in -p .. p
  <2> HIDE DEF m, v
  <2>1. (9 * x) \div 10 \in -(9 * m) .. 9 * m
    BY <1>1, <1>3
  <2> QED BY <1>1, <1>2, <1>3, <2>1
<1> QED BY <1>1, <1>3 DEF Updated

LEMMA Appended ==
  ASSUME NEW h \in Seq(Seq(Int)), NEW x \in Seq(Int)
  PROVE  /\ Append(h, x) \in Seq(Seq(Int)) /\ Append(h, x)[Len(h) + 1] = x
         /\ DOMAIN Append(h, x) = DOMAIN h \union {Len(h) + 1}
         /\ \A p \in DOMAIN h : p # Len(h) + 1 /\ Append(h, x)[p] = h[p]
OBVIOUS

(***************************************************************************)
(* Asking for the best action of a state replaces at most its row.         *)
(***************************************************************************)
LEMMA FittedFacts ==
  ASSUME IInv, NEW s \in States, NEW rows, rows = Fitted(s)
  PROVE  /\ rows.heap \in Seq(Seq(Int)) /\ rows.qlst \in [States -> DOMAIN rows.heap]
         /\ \A t \in States :
              /\ Len(rows.heap[rows.qlst[t]]) = IF rows.qlst[t] = 1 THEN nA ELSE Len(T[t])
              /\ \A k \in DOMAIN T[t] : rows.heap[rows.qlst[t]][k] = Q(t)[k]
         /\ \A t, u \in States : t # u /\ rows.qlst[t] = rows.qlst[u] => rows.qlst[t] = 1
         /\ \A o \in DOMAIN rows.heap : \A k \in DOMAIN rows.heap[o] :
              rows.heap[o][k] \in -Bound .. Bound
         /\ Len(rows.heap[rows.qlst[s]]) = Len(T[s])
<1>1. /\ heap \in Seq(Seq(Int)) /\ qlst \in [States -> DOMAIN heap]
      /\ \A t \in States : Len(T[t]) \in 1 .. nA /\ T[t] \in Seq(States)
      /\ \A t \in States : Q(t) \in Seq(Int) /\ Q(t) = heap[qlst[t]] /\ qlst[t] \in DOMAIN heap
  <2>1. heap \in Seq(Seq(Int)) /\ qlst \in [States -> DOMAIN heap]
    BY DEF IInv, TypeOK
  <2>2. \A t \in States : Len(T[t]) \in 1 .. nA /\ T[t] \in Seq(States)
    BY WorldAssumption
  <2>3. \A t \in States : qlst[t] \in DOMAIN heap
    BY <2>1
  <2>4. \A p \in DOMAIN heap : heap[p] \in Seq(Int)
    BY <2>1
  <2> QED BY <2>1, <2>2, <2>3, <2>4 DEF Q
<1>2. \A t \in States : DOMAIN T[t] = 1 .. Len(T[t]) /\ DOMAIN Q(t) = 1 .. Len(Q(t))
  BY <1>1
<1>3. /\ \A t \in States : DOMAIN T[t] \subseteq DOMAIN Q(t)
      /\ \A t \in States : Len(Q(t)) = IF qlst[t] = 1 THEN nA ELSE Len(T[t])
      /\ \A t, u \in States : t # u /\ qlst[t] = qlst[u] => qlst[t] = 1
      /\ \A o \in DOMAIN heap : \A k \in DOMAIN heap[o] : heap[o][k] \in -Bound .. Bound
  <2>1. /\ \A t \in States : Len(Q(t)) = IF qlst[t] = 1 THEN nA ELSE Len(T[t])
        /\ \A t, u \in States : t # u /\ qlst[t] = qlst[u] => qlst[t] = 1
    BY DEF IInv, RowsPrivate
  <2>2. \A o \in DOMAIN heap : \A k \in DOMAIN heap[o] : heap[o][k] \in -Bound .. Bound
    BY DEF IInv, ValuesBounded
  <2>3. ASSUME NEW t \in States PROVE DOMAIN T[t] \subseteq DOMAIN Q(t)
    <3>1. Len(T[t]) \in 1 .. nA /\ nA \in Nat
      BY <1>1, WorldAssumption
    <3>2. Len(T[t]) <= Len(Q(t)) /\ Len(Q(t)) \in Nat
      BY <1>1, <2>1, <3>1
    <3> QED BY <1>2, <3>1, <3>2
  <2> QED BY <2>1, <2>2, <2>3
<1>4. CASE Len(Q(s)) = Len(T[s])
  <2>1. rows = [heap |-> heap, qlst |-> qlst]
    BY <1>4 DEF Fitted
  <2>2. rows.heap = heap /\ rows.qlst = qlst
    BY <2>1
  <2>3. \A t \in States : rows.heap[rows.qlst[t]] = Q(t)
    BY <1>1, <2>2
  <2> QED BY <1>1, <1>3, <1>4, <2>2, <2>3
<1>5. CASE Len(Q(s)) # Len(T[s])
  <2> DEFINE new == SubSeq(Q(s), 1, Len(T[s]))
             o   == Len(heap) + 1
  <2>1. rows = [heap |-> Append(heap, new), qlst |-> [qlst EXCEPT ![s] = o]]
    BY <1>5 DEF Fitted
  <2>2. rows.heap = Append(heap, new) /\ rows.qlst = [qlst EXCEPT ![s] = o]
    BY <2>1
  <2>3. new \in Seq(Int) /\ Len(new) = Len(T[s]) /\ \A k \in DOMAIN T[s] : new[k] = Q(s)[k]
    <3>1. Len(T[s]) \in Nat /\ Len(Q(s)) \in Nat /\ Len(T[s]) <= Len(Q(s))
      BY <1>1, <1>2, <1>3
    <3>2. \A k \in 1 .. Len(T[s]) : k \in 1 .. Len(Q(s)) /\ Q(s)[k] \in Int
      BY <1>1, <3>1, SMTT(30)
    <3>3. new = [k \in 1 .. Len(T[s]) |-> Q(s)[k]]
      BY <1>1, <3>1
    <3> QED BY <1>2, <3>1, <3>2, <3>3
  <2>4. /\ rows.heap \in Seq(Seq(Int)) /\ rows.heap[o] = new
        /\ \A p \in DOMAIN heap : p # o /\ p \in DOMAIN rows.heap /\ rows.heap[p] = heap[p]
        /\ DOMAIN rows.heap = DOMAIN heap \union {o}
    <3> HIDE DEF new
    <3>1. /\ Append(heap, new) \in Seq(Seq(Int)) /\ Append(heap, new)[o] = new
          /\ DOMAIN Append(heap, new) = DOMAIN heap \union {o}
          /\ \A p \in DOMAIN heap : p # o /\ Append(heap, new)[p] = heap[p]
      <4>1. heap \in Seq(Seq(Int)) /\ new \in Seq(Int)
        BY <1>1, <2>3
      <4> HIDE DEF o
      <4>2. o = Len(heap) + 1
        BY DEF o
      <4> QED BY <4>1, <4>2, Appended
    <3> QED BY <2>2, <3>1, Zenon
  <2>5. rows.qlst \in [States -> DOMAIN rows.heap]
    BY <1>1, <2>2, <2>4
  <2>6. rows.qlst[s] = o /\ \A t \in States \ {s} : rows.qlst[t] = qlst[t] /\ qlst[t] \in DOMAIN heap
    BY <1>1, <2>2
  <2>7. o # 1
    BY <1>1
  <2>8. ASSUME NEW t \in States
        PROVE  /\ Len(rows.heap[rows.qlst[t]]) = IF rows.qlst[t] = 1 THEN nA ELSE Len(T[t])
               /\ \A k \in DOMAIN T[t] : rows.heap[rows.qlst[t]][k] = Q(t)[k]
    <3>1. CASE t = s
      <4>1. rows.heap[rows.qlst[t]] = new /\ rows.qlst[t] # 1
        BY <2>4, <2>6, <2>7, <3>1, Zenon
      <4> HIDE DEF new
      <4> QED BY <2>3, <3>1, <4>1
    <3>2. CASE t # s
      <4>1. rows.heap[rows.qlst[t]] = Q(t) /\ rows.qlst[t] = qlst[t]
        <5>1. t \in States \ {s}
          BY <3>2
        <5>2. rows.qlst[t] = qlst[t] /\ qlst[t] \in DOMAIN heap
          BY <2>6, <5>1, Zenon
        <5>3. rows.heap[qlst[t]] = heap[qlst[t]] /\ Q(t) = heap[qlst[t]]
          BY <1>1, <2>4, <5>2, Zenon
        <5> QED BY <5>2, <5>3, Zenon
      <4> QED BY <1>3, <4>1
    <3> QED BY <3>1, <3>2
  <2>9. ASSUME NEW t \in States, NEW u \in States, t # u, rows.qlst[t] = rows.qlst[u]
        PROVE  rows.qlst[t] = 1
    <3>1. t # s /\ u # s
      BY <2>4, <2>6, <2>9
    <3> QED BY <1>3, <2>6, <2>9, <3>1
  <2>10. ASSUME NEW p \in DOMAIN rows.heap, NEW k \in DOMAIN rows.heap[p]
         PROVE  rows.heap[p][k] \in -Bound .. Bound
    <3>1. CASE p = o
      <4>1. k \in DOMAIN T[s] /\ rows.heap[p][k] = Q(s)[k]
        <5>1. rows.heap[p] = new
          BY <2>4, <3>1, Zenon
        <5>2. DOMAIN new = DOMAIN T[s]
          <6> HIDE DEF new
          <6> QED BY <1>2, <2>3
        <5>3. k \in DOMAIN T[s]
          BY <2>10, <5>1, <5>2, Zenon
        <5> QED BY <2>3, <5>1, <5>3, Zenon
      <4>2. k \in DOMAIN heap[qlst[s]] /\ qlst[s] \in DOMAIN heap
        BY <1>1, <1>3, <4>1
      <4> QED BY <1>1, <1>3, <4>1, <4>2
    <3>2. CASE p # o
      <4>1. p \in DOMAIN heap /\ rows.heap[p] = heap[p]
        BY <2>4, <3>2
      <4> QED BY <1>3, <4>1
    <3> QED BY <3>1, <3>2
  <2> HIDE DEF new, o
  <2>11. Len(rows.heap[rows.qlst[s]]) = Len(T[s])
    BY <2>3, <2>4, <2>6
  <2> QED BY <2>4, <2>5, <2>8, <2>9, <2>10, <2>11
<1> QED BY <1>4, <1>5

-------------------------------------------------------------------------------
(***************************************************************************)
(* The invariant.                                                          *)
(***************************************************************************)
LEMMA Types ==
  ASSUME IInv
  PROVE  /\ heap \in Seq(Seq(Int)) /\ qlst \in [States -> DOMAIN heap]
         /\ \A t \in States : /\ Len(T[t]) \in 1 .. nA /\ T[t] \in Seq(States)
                              /\ Q(t) \in Seq(Int) /\ Q(t) = heap[qlst[t]] /\ qlst[t] \in DOMAIN heap
                              /\ DOMAIN T[t] = 1 .. Len(T[t])
                              /\ DOMAIN T[t] \subseteq DOMAIN Q(t)
         /\ st \in States
<1>1. heap \in Seq(Seq(Int)) /\ qlst \in [States -> DOMAIN heap] /\ st \in States
  BY DEF IInv, TypeOK
<1>2. \A t \in States : qlst[t] \in DOMAIN heap
  BY <1>1
<1>3. \A o \in DOMAIN heap : heap[o] \in Seq(Int)
  BY <1>1
<1>4. \A t \in States : Len(T[t]) \in 1 .. nA /\ T[t] \in Seq(States) /\ DOMAIN T[t] = 1 .. Len(T[t])
  BY WorldAssumption
<1>5. \A t \in States : Q(t) \in Seq(Int) /\ Q(t) = heap[qlst[t]]
  BY <1>2, <1>3 DEF Q
<1>6. ASSUME NEW t \in States PROVE DOMAIN T[t] \subseteq DOMAIN Q(t)
  <2>1. Len(Q(t)) = nA \/ Len(Q(t)) = Len(T[t])
    BY DEF IInv, RowsPrivate
  <2>2. Len(T[t]) \in 1 .. nA /\ nA \in Nat
    BY <1>4, WorldAssumption
  <2>3. DOMAIN Q(t) = 1 .. Len(Q(t))
    BY <1>5
  <2>4. Len(T[t]) <= Len(Q(t)) /\ Len(Q(t)) \in Nat
    BY <2>1, <2>2
  <2> QED BY <1>4, <2>2, <2>3, <2>4
<1> QED BY <1>1, <1>2, <1>4, <1>5, <1>6

LEMMA InvInit == Init => IInv
<1> SUFFICES ASSUME Init PROVE IInv
  OBVIOUS
<1> DEFINE row == [k \in 1 .. nA |-> 0]
<1>1. row \in Seq(Int) /\ Len(row) = nA /\ DOMAIN row = 1 .. nA /\ \A k \in 1 .. nA : row[k] = 0
  BY WorldAssumption
<1>2. heap = <<row>> /\ qlst = [s \in States |-> 1] /\ R \in Rewards /\ run = 1 /\ ii = 1
      /\ st = I /\ a = -1 /\ pc = "start"
  BY DEF Init
<1> HIDE DEF row
<1>3. heap \in Seq(Seq(Int)) /\ DOMAIN heap = {1} /\ heap[1] = row
  BY <1>1, <1>2
<1>4. \A s \in States : qlst[s] = 1 /\ Q(s) = row
  BY <1>2, <1>3 DEF Q
<1>5. TypeOK
  BY <1>2, <1>3, WorldAssumption DEF TypeOK
<1>6. RowsPrivate
  BY <1>1, <1>4 DEF RowsPrivate
<1>7. ActionExists
  BY <1>2 DEF ActionExists
<1>8. ValuesBounded
  <2>1. 0 \in -Bound .. Bound
    BY RewardsAssumption DEF Bound
  <2> QED BY <1>1, <1>3, <2>1 DEF ValuesBounded
<1> QED BY <1>5, <1>6, <1>7, <1>8 DEF IInv

\* Asking for the best action.
LEMMA InvExecute == IInv /\ selectactiontoexecute => IInv'
<1> SUFFICES ASSUME IInv, selectactiontoexecute PROVE IInv'
  OBVIOUS
<1> DEFINE rows == Fitted(st)
           row  == rows.heap[rows.qlst[st]]
<1>1. /\ rows.heap \in Seq(Seq(Int)) /\ rows.qlst \in [States -> DOMAIN rows.heap]
      /\ \A t \in States :
           Len(rows.heap[rows.qlst[t]]) = IF rows.qlst[t] = 1 THEN nA ELSE Len(T[t])
      /\ \A t, u \in States : t # u /\ rows.qlst[t] = rows.qlst[u] => rows.qlst[t] = 1
      /\ \A o \in DOMAIN rows.heap : \A k \in DOMAIN rows.heap[o] : rows.heap[o][k] \in -Bound .. Bound
      /\ Len(row) = Len(T[st])
  <2>1. st \in States /\ rows = Fitted(st)
    BY Types
  <2> HIDE DEF rows
  <2> QED BY <2>1, FittedFacts
<1>2. PICK k \in DOMAIN row : IsBest(row, k) /\ a' = k - 1
  BY DEF selectactiontoexecute
<1>3. heap' = rows.heap /\ qlst' = rows.qlst /\ pc = "select" /\ pc' = "move"
      /\ R' = R /\ run' = run /\ ii' = ii /\ st' = st
  BY DEF selectactiontoexecute
<1>4. row \in Seq(Int)
  <2>1. rows.qlst[st] \in DOMAIN rows.heap
    BY <1>1, Types
  <2> HIDE DEF rows
  <2> QED BY <1>1, <2>1
<1>5. Q(st)' = row /\ \A t \in States : Q(t)' = rows.heap[rows.qlst[t]]
  BY <1>3 DEF Q
<1> HIDE DEF rows, row
<1>6. k \in 1 .. Len(T[st]) /\ DOMAIN T[st] = DOMAIN row /\ k \in DOMAIN T[st]
      /\ Len(T[st]) \in Nat
  <2>1. DOMAIN T[st] = 1 .. Len(T[st]) /\ Len(T[st]) \in Nat
    BY Types
  <2>2. DOMAIN row = 1 .. Len(row)
    BY <1>4
  <2> QED BY <1>1, <1>2, <2>1, <2>2 DEF row
<1>7. TypeOK'
  <2>1. a' \in Nat
    BY <1>2, <1>6
  <2> QED BY <1>1, <1>3, <2>1 DEF IInv, TypeOK
<1>8. RowsPrivate'
  BY <1>1, <1>3, <1>5 DEF RowsPrivate
<1>9. ActionExists'
  <2>1. a' + 1 = k
    BY <1>2, <1>6
  <2>2. \A j \in DOMAIN T[st] : row[j] <= row[k]
    BY <1>2, <1>4, <1>6 DEF IsBest
  <2> QED BY <1>3, <1>5, <1>6, <2>1, <2>2 DEF ActionExists
<1>10. ValuesBounded'
  BY <1>1, <1>3 DEF ValuesBounded
<1> QED BY <1>7, <1>8, <1>9, <1>10 DEF IInv

\* Learning: one value of one row changes.
LEMMA LearnFacts ==
  ASSUME IInv, pc = "move", learn(T[st][a + 1])
  PROVE  /\ heap' \in Seq(Seq(Int)) /\ DOMAIN heap' = DOMAIN heap
         /\ \A o \in DOMAIN heap : Len(heap'[o]) = Len(heap[o])
         /\ \A o \in DOMAIN heap : \A k \in DOMAIN heap'[o] :
              /\ heap'[o][k] \in -Bound .. Bound /\ k \in DOMAIN heap[o]
              /\ heap'[o][k] # heap[o][k] => o = qlst[st] /\ k = a + 1
<1> DEFINE nst == T[st][a + 1]
           o == qlst[st]
<1>1. a + 1 \in DOMAIN T[st] /\ a + 1 \in DOMAIN Q(st)
  BY DEF IInv, ActionExists
<1>2. nst \in States
  BY <1>1, Types
<1>3. PICK k \in DOMAIN Q(nst) :
        heap' = [heap EXCEPT ![o][a + 1] = Updated(@, R[st], Q(nst)[k])]
  BY DEF learn
<1> DEFINE old == heap[o][a + 1]
           v   == Updated(old, R[st], Q(nst)[k])
           new == [heap[o] EXCEPT ![a + 1] = v]
<1>4. o \in DOMAIN heap /\ heap[o] \in Seq(Int) /\ a + 1 \in DOMAIN heap[o]
  BY <1>1, Types
<1>5. old \in -Bound .. Bound
  BY <1>4 DEF IInv, ValuesBounded
<1>6. Q(nst)[k] \in -Bound .. Bound
  BY <1>2, Types DEF IInv, ValuesBounded
<1>7. R[st] \in -MaxReward .. MaxReward
  BY Types, RewardsAssumption DEF IInv, TypeOK
<1>8. v \in -Bound .. Bound
  <2> HIDE DEF old
  <2> QED BY <1>5, <1>6, <1>7, UpdatedInBound
<1>9. heap' = [heap EXCEPT ![o] = new]
  BY <1>3
<1> HIDE DEF v, o
<1>10. v \in Int
  BY <1>8, RewardsAssumption DEF Bound
<1>11. new \in Seq(Int) /\ Len(new) = Len(heap[o]) /\ DOMAIN new = DOMAIN heap[o]
       /\ \A j \in DOMAIN heap[o] : new[j] = IF j = a + 1 THEN v ELSE heap[o][j]
  BY <1>4, <1>10
<1> HIDE DEF new
<1>12. heap' \in Seq(Seq(Int)) /\ DOMAIN heap' = DOMAIN heap
       /\ \A p \in DOMAIN heap : heap'[p] = IF p = o THEN new ELSE heap[p]
  <2>1. heap \in Seq(Seq(Int)) /\ o \in DOMAIN heap /\ new \in Seq(Int)
    BY <1>4, <1>11, Types
  <2> QED BY <1>9, <2>1
<1>13. ASSUME NEW p \in DOMAIN heap
       PROVE  /\ Len(heap'[p]) = Len(heap[p])
              /\ \A j \in DOMAIN heap'[p] :
                   /\ heap'[p][j] \in -Bound .. Bound /\ j \in DOMAIN heap[p]
                   /\ heap'[p][j] # heap[p][j] => p = o /\ j = a + 1
  <2>1. \A j \in DOMAIN heap[p] : heap[p][j] \in -Bound .. Bound
    BY DEF IInv, ValuesBounded
  <2>2. CASE p = o
    BY <1>8, <1>11, <1>12, <2>1, <2>2, Zenon
  <2>3. CASE p # o
    BY <1>12, <2>1, <2>3, Zenon
  <2> QED BY <2>2, <2>3
<1> QED BY <1>12, <1>13 DEF o

LEMMA InvMove == IInv /\ Move => IInv'
<1> SUFFICES ASSUME IInv, Move PROVE IInv'
  OBVIOUS
<1> DEFINE nst == T[st][a + 1]
<1>1. /\ pc = "move" /\ R' = R /\ run' = run /\ qlst' = qlst
      /\ st' \in {I, nst} /\ ii' = ii + 1 /\ a' = -1 /\ pc' \in {"select", "end"}
  BY DEF Move
<1>2. nst \in States
  BY <1>1, Types DEF IInv, ActionExists
<1>3. /\ heap' \in Seq(Seq(Int)) /\ DOMAIN heap' = DOMAIN heap
      /\ \A o \in DOMAIN heap : Len(heap'[o]) = Len(heap[o])
      /\ \A o \in DOMAIN heap : \A k \in DOMAIN heap'[o] : heap'[o][k] \in -Bound .. Bound
  <2>1. CASE learn(nst)
    BY <1>1, <2>1, LearnFacts
  <2>2. CASE heap' = heap
    BY <2>2, Types DEF IInv, ValuesBounded
  <2> QED BY <2>1, <2>2 DEF Move
<1>4. \A t \in States : Q(t)' = heap'[qlst[t]] /\ Len(Q(t)') = Len(Q(t))
  BY <1>1, <1>3, Types DEF Q
<1>5. TypeOK'
  <2>1. /\ qlst' \in [States -> DOMAIN heap'] /\ R' \in Rewards /\ run' \in Nat \ {0}
        /\ run' \in DOMAIN Runs
    BY <1>1, <1>3 DEF IInv, TypeOK
  <2>2. st' \in States
    BY <1>1, <1>2, WorldAssumption
  <2>3. ii' \in Nat \ {0}
    BY <1>1 DEF IInv, TypeOK
  <2> QED BY <1>1, <1>3, <2>1, <2>2, <2>3 DEF TypeOK
<1>6. RowsPrivate'
  BY <1>1, <1>4 DEF IInv, RowsPrivate
<1>7. ActionExists'
  BY <1>1 DEF ActionExists
<1>8. ValuesBounded'
  BY <1>3 DEF ValuesBounded
<1> QED BY <1>5, <1>6, <1>7, <1>8 DEF IInv

\* The steps that leave rows alone and select no action.
LEMMA InvQuiet ==
  ASSUME IInv, UNCHANGED <<R, heap, qlst>>, TypeOK', pc' # "move"
  PROVE  IInv'
<1>1. RowsPrivate' /\ ValuesBounded'
  BY DEF IInv, RowsPrivate, ValuesBounded, Q
<1>2. ActionExists'
  BY DEF ActionExists
<1> QED BY <1>1, <1>2 DEF IInv

LEMMA InvNext == IInv /\ [Next]_vars => IInv'
<1> SUFFICES ASSUME IInv, [Next]_vars PROVE IInv'
  OBVIOUS
<1>1. CASE Start
  <2>1. TypeOK'
    <3>1. /\ run \in Nat \ {0} /\ run <= Len(Runs) /\ st' = I /\ ii' = 1 /\ a' = -1
          /\ pc' \in {"select", "end"} /\ UNCHANGED <<R, heap, qlst, run>>
      BY <1>1 DEF Start, IInv, TypeOK
    <3>2. run \in DOMAIN Runs
      BY <3>1, RunsAssumption
    <3>3. R' \in Rewards /\ heap' \in Seq(Seq(Int)) /\ qlst' \in [States -> DOMAIN heap']
      BY <3>1 DEF IInv, TypeOK
    <3>4. a' \in Nat \union {-1} /\ st' \in States
      BY <3>1, WorldAssumption
    <3> QED BY <3>1, <3>2, <3>3, <3>4 DEF TypeOK
  <2> QED BY <1>1, <2>1, InvQuiet DEF Start
<1>2. CASE selectactiontoexecute
  BY <1>2, InvExecute
<1>3. CASE Explore
  <2>1. /\ a' \in 0 .. Len(T[st]) - 1 /\ pc = "select" /\ pc' = "move" /\ learningphase
        /\ UNCHANGED <<R, heap, qlst, run, ii, st>>
    BY <1>3 DEF Explore
  <2>2. a' \in Nat /\ a' + 1 \in 1 .. Len(T[st]) /\ DOMAIN T[st] = 1 .. Len(T[st])
    <3>1. Len(T[st]) \in Nat /\ DOMAIN T[st] = 1 .. Len(T[st])
      BY Types, WorldAssumption
    <3>2. \A l \in Nat : \A b \in 0 .. l - 1 : b \in Nat /\ b + 1 \in 1 .. l
      OBVIOUS
    <3>3. a' \in Nat /\ a' + 1 \in 1 .. Len(T[st])
      BY <2>1, <3>1, <3>2, Zenon
    <3> QED BY <3>1, <3>3
  <2>3. TypeOK'
    BY <2>1, <2>2 DEF IInv, TypeOK
  <2>4. RowsPrivate' /\ ValuesBounded'
    BY <2>1 DEF IInv, RowsPrivate, ValuesBounded, Q
  <2>5. a' + 1 \in DOMAIN T[st] /\ a' + 1 \in DOMAIN Q(st) /\ learningphase' /\ Q(st)' = Q(st)
    BY <2>1, <2>2, Types DEF Q, learningphase
  <2>6. ActionExists'
    BY <2>1, <2>5 DEF ActionExists
  <2> QED BY <2>3, <2>4, <2>6 DEF IInv
<1>4. CASE Move
  BY <1>4, InvMove
<1>5. CASE End
  <2>1. TypeOK'
    BY <1>5 DEF End, IInv, TypeOK
  <2> QED BY <1>5, <2>1, InvQuiet DEF End
<1>6. CASE UNCHANGED vars
  BY <1>6 DEF vars, IInv, TypeOK, RowsPrivate, ActionExists, ValuesBounded, Q, learningphase
<1> QED BY <1>1, <1>2, <1>3, <1>4, <1>5, <1>6 DEF Next, Terminated

\* The invariant holds.
THEOREM Invariance == Spec => []IInv
BY InvInit, InvNext, PTL DEF Spec

\* Types, for every world.
THEOREM AgentTypes == Spec => []TypeOK
<1>1. IInv => TypeOK
  BY DEF IInv
<1> QED BY <1>1, Invariance, PTL

\* A row cut for a state stays that state's own.
THEOREM AgentRowsPrivate == Spec => []RowsPrivate
<1>1. IInv => RowsPrivate
  BY DEF IInv
<1> QED BY <1>1, Invariance, PTL

\* The action selected always exists and has a value.
THEOREM AgentActionExists == Spec => []ActionExists
<1>1. IInv => ActionExists
  BY DEF IInv
<1> QED BY <1>1, Invariance, PTL

\* Values stay within ten times the largest reward.
THEOREM AgentValuesBounded == Spec => []ValuesBounded
<1>1. IInv => ValuesBounded
  BY DEF IInv
<1> QED BY <1>1, Invariance, PTL

\* The rows an agent acts on are sound.
THEOREM AgentRowsAreSound == Spec => []RowsAreSound
<1>1. IInv => RowsAreSound
  BY DEF IInv, RowsAreSound
<1> QED BY <1>1, Invariance, PTL

\* Only learning changes what an action is worth.
THEOREM AgentOnlyLearningTeaches == Spec => OnlyLearningTeaches
<1> DEFINE A == \A s \in States : \A k \in DOMAIN T[s] :
                  Q(s)'[k] # Q(s)[k] => pc = "move" /\ learningphase /\ qlst[s] = qlst[st] /\ k = a + 1
<1>1. IInv /\ [Next]_vars => [A]_vars
  <2> SUFFICES ASSUME IInv, Next, NEW s \in States, NEW k \in DOMAIN T[s], Q(s)'[k] # Q(s)[k]
               PROVE  pc = "move" /\ learningphase /\ qlst[s] = qlst[st] /\ k = a + 1
    OBVIOUS
  <2>1. ~ UNCHANGED <<heap, qlst>>
    BY DEF Q
  <2>2. CASE selectactiontoexecute
    <3> DEFINE rows == Fitted(st)
    <3>1. heap' = rows.heap /\ qlst' = rows.qlst
      BY <2>2 DEF selectactiontoexecute
    <3>2. Q(s)' = rows.heap[rows.qlst[s]]
      BY <3>1 DEF Q
    <3>3. st \in States /\ rows = Fitted(st)
      BY Types
    <3>4. rows.heap[rows.qlst[s]][k] = Q(s)[k]
      <4> HIDE DEF rows
      <4> QED BY <3>3, FittedFacts
    <3> QED BY <3>2, <3>4
  <2>3. CASE Move
    <3>1. learningphase /\ learn(T[st][a + 1]) /\ pc = "move" /\ qlst' = qlst
      BY <2>1, <2>3 DEF Move
    <3>2. Q(s)' = heap'[qlst[s]] /\ qlst[s] \in DOMAIN heap /\ Q(s) = heap[qlst[s]]
          /\ k \in DOMAIN heap[qlst[s]]
      BY <3>1, Types DEF Q
    <3>3. DOMAIN heap'[qlst[s]] = DOMAIN heap[qlst[s]]
      <4>1. heap' \in Seq(Seq(Int)) /\ DOMAIN heap' = DOMAIN heap /\ heap \in Seq(Seq(Int))
        BY <3>1, LearnFacts, Types
      <4>2. heap'[qlst[s]] \in Seq(Int) /\ heap[qlst[s]] \in Seq(Int)
        BY <3>2, <4>1
      <4>3. Len(heap'[qlst[s]]) = Len(heap[qlst[s]])
        BY <3>1, <3>2, LearnFacts
      <4> QED BY <4>2, <4>3
    <3>4. qlst[s] = qlst[st] /\ k = a + 1
      BY <3>1, <3>2, <3>3, LearnFacts
    <3> QED BY <3>1, <3>4
  <2> QED BY <2>1, <2>2, <2>3 DEF Next, Start, Explore, End, Terminated, vars
<1>2. OnlyLearningTeaches <=> [][A]_vars
  BY DEF OnlyLearningTeaches
<1> QED BY <1>1, <1>2, Invariance, PTL DEF Spec
================================================================================
