--------------------------- MODULE ParSolverProofs ---------------------------
(***************************************************************************)
(* Proofs about the parallel solver, for any number of threads, any grid   *)
(* and any requests.                                                       *)
(***************************************************************************)
EXTENDS ParSolver, FiniteSetTheorems, TLAPS

-------------------------------------------------------------------------------
(***************************************************************************)
(* Types.                                                                  *)
(***************************************************************************)

\* The locals of a thread that starts a new iteration are well typed.
LEMMA ForgetTyped ==
  ASSUME TypeOK, NEW t \in Threads, Forget(t)
  PROVE  /\ pc' \in [Threads -> {"idle", "route", "lock", "unlock", "write", "publish",
                                 "done"}]
         /\ request' \in [Threads -> Requests \cup {NoRequest}]
         /\ before' \in [Threads -> SUBSET Points]
         /\ path' \in [Threads -> Trails \cup {<<>>}]
         /\ at' \in [Threads -> Nat]
         /\ attempts' \in [Threads -> 0 .. MaxAttempts]
         /\ \A u \in Threads :
              /\ pc'[u] \in {"route", "lock", "unlock", "write"} <=> request'[u] # NoRequest
              /\ pc'[u] \in {"lock", "write"} => at'[u] \in 2 .. Len(path'[u])
              /\ pc'[u] = "unlock" => at'[u] \in 1 .. Len(path'[u]) - 1
<1>1. /\ pc' \in [Threads -> {"idle", "route", "lock", "unlock", "write", "publish",
                             "done"}]
      /\ request' \in [Threads -> Requests \cup {NoRequest}]
      /\ before' \in [Threads -> SUBSET Points]
      /\ path' \in [Threads -> Trails \cup {<<>>}]
      /\ at' \in [Threads -> Nat]
      /\ attempts' \in [Threads -> 0 .. MaxAttempts]
  BY DEF TypeOK, Forget, MaxAttempts
<1>2. pc'[t] = "idle" /\ request'[t] = NoRequest
  BY DEF TypeOK, Forget
<1>3. \A u \in Threads \ {t} :
        pc'[u] = pc[u] /\ request'[u] = request[u] /\ path'[u] = path[u] /\ at'[u] = at[u]
  BY DEF TypeOK, Forget
<1> DEFINE Fits(u) ==
             /\ pc'[u] \in {"route", "lock", "unlock", "write"} <=> request'[u] # NoRequest
             /\ pc'[u] \in {"lock", "write"} => at'[u] \in 2 .. Len(path'[u])
             /\ pc'[u] = "unlock" => at'[u] \in 1 .. Len(path'[u]) - 1
<1>4. Fits(t)
  BY <1>2
<1>5. ASSUME NEW u \in Threads \ {t} PROVE Fits(u)
  <2>1. pc'[u] = pc[u] /\ request'[u] = request[u] /\ path'[u] = path[u] /\ at'[u] = at[u]
    BY <1>3
  <2> QED BY <2>1 DEF TypeOK
<1> QED BY <1>1, <1>4, <1>5

\* A route is a sequence of at least two points.
LEMMA TrailTyped ==
  \A s \in Trails : /\ s \in Seq(Points) /\ Len(s) \in Nat /\ Len(s) >= 2
                    /\ \A k \in 1 .. Len(s) : s[k] \in Points
  BY TrailsAssumption

\* A thread in the loops over its route has one.
LEMMA PathTyped ==
  ASSUME TypeOK, NEW t \in Threads, pc[t] \in {"lock", "unlock", "write"}
  PROVE  /\ path[t] \in Trails
         /\ Len(path[t]) \in Nat /\ Len(path[t]) >= 2
         /\ at[t] \in 1 .. Len(path[t])
         /\ Here(t) \in Points
         /\ request[t] \in Requests
<1>1. at[t] \in 1 .. Len(path[t])
  BY DEF TypeOK
<1>2. path[t] # <<>>
  BY <1>1
<1>3. path[t] \in Trails
  BY <1>2 DEF TypeOK
<1>4. request[t] \in Requests
  BY DEF TypeOK
<1> QED BY <1>1, <1>3, <1>4, TrailTyped DEF Here

LEMMA TypeInit == Init => TypeOK
<1> SUFFICES ASSUME Init PROVE TypeOK
  OBVIOUS
<1>1. full \subseteq Points
  BY WallsAssumption, EndsAssumption DEF Init, Ends
<1>2. workQueue \in Seq(Requests)
  BY WorkListAssumption DEF Init
<1> QED BY <1>1, <1>2 DEF Init, TypeOK, MaxAttempts

LEMMA TypeNext == TypeOK /\ [Next]_vars => TypeOK'
<1> SUFFICES ASSUME TypeOK, [Next]_vars PROVE TypeOK'
  OBVIOUS
<1>1. ASSUME NEW t \in Threads, Take(t) PROVE TypeOK'
  <2>1. Head(workQueue) \in Requests /\ Tail(workQueue) \in Seq(Requests)
    BY <1>1 DEF Take, TypeOK
  <2> QED BY <1>1, <2>1, NobodyAssumption DEF Take, TypeOK
<1>2. ASSUME NEW t \in Threads, Leave(t) PROVE TypeOK'
  BY <1>2 DEF Leave, TypeOK, locals
<1>3. ASSUME NEW t \in Threads, Publish(t) PROVE TypeOK'
  BY <1>3 DEF Publish, TypeOK, locals
<1>4. ASSUME NEW t \in Threads, FindRoute(t) PROVE TypeOK'
  <2>1. PICK s \in Trails : path' = [path EXCEPT ![t] = s]
    BY <1>4 DEF FindRoute, Routes
  <2>2. 2 \in 2 .. Len(s)
    BY TrailTyped
  <2> QED BY <1>4, <2>1, <2>2 DEF FindRoute, TypeOK
<1>5. ASSUME NEW t \in Threads, DropRequest(t) PROVE TypeOK'
  <2>1. request[t] \in Requests
    BY <1>5 DEF DropRequest, TypeOK
  <2> QED BY <1>5, <2>1, ForgetTyped DEF DropRequest, TypeOK
<1>6. ASSUME NEW t \in Threads, LockPoint(t) PROVE TypeOK'
  BY <1>6, PathTyped, SMTT(30) DEF LockPoint, TypeOK
<1>7. ASSUME NEW t \in Threads, FindLocked(t) PROVE TypeOK'
  BY <1>7 DEF FindLocked, TypeOK, MaxAttempts
<1>8. ASSUME NEW t \in Threads, GiveUp(t) PROVE TypeOK'
  BY <1>8, PathTyped DEF GiveUp, TypeOK
<1>9. ASSUME NEW t \in Threads, UnlockPoint(t) PROVE TypeOK'
  BY <1>9, PathTyped, SMTT(30) DEF UnlockPoint, TypeOK
<1>10. ASSUME NEW t \in Threads, Requeue(t) PROVE TypeOK'
  <2>1. request[t] \in Requests
    BY <1>10 DEF Requeue, TypeOK
  <2>2. workQueue' \in Seq(Requests)
    BY <1>10, <2>1 DEF Requeue, TypeOK
  <2> QED BY <1>10, <2>2, ForgetTyped DEF Requeue, TypeOK
<1>11. ASSUME NEW t \in Threads, LockedAll(t) PROVE TypeOK'
  BY <1>11, PathTyped DEF LockedAll, TypeOK
<1>12. ASSUME NEW t \in Threads, WritePoint(t) PROVE TypeOK'
  BY <1>12, PathTyped, SMTT(30) DEF WritePoint, TypeOK
<1>13. ASSUME NEW t \in Threads, Finish(t) PROVE TypeOK'
  <2>1. path[t] \in Trails /\ request[t] \in Requests
    BY <1>13, PathTyped DEF Finish
  <2>2. myPaths' \in [Threads -> Seq(Trails)]
    BY <1>13, <2>1 DEF Finish, TypeOK
  <2> QED BY <1>13, <2>1, <2>2, ForgetTyped DEF Finish, TypeOK
<1>14. CASE Verify
  BY <1>14 DEF Verify, TypeOK, locals
<1>15. CASE UNCHANGED vars
  BY <1>15 DEF vars, locals, TypeOK
<1> QED
  BY <1>1, <1>2, <1>3, <1>4, <1>5, <1>6, <1>7, <1>8, <1>9, <1>10, <1>11, <1>12,
     <1>13, <1>14, <1>15 DEF Next, router_solve, Terminated

\* The solver's variables keep their types; no loop over a route leaves it.
THEOREM TypeCorrect == Spec => []TypeOK
<1> QED BY TypeInit, TypeNext, PTL DEF Spec

-------------------------------------------------------------------------------
(***************************************************************************)
(* Who holds which points.  The invariant says what the locks stand for: a *)
(* thread holds the points that it has locked on its current route and, for*)
(* ever, those of the routes that it has finished; nothing else is full    *)
(* but walls and ends.                                                     *)
(***************************************************************************)

\* The positions that t has locked on its current route.
Locked(t) ==
  {k \in 2 .. Len(path[t]) - 1 : \/ pc[t] = "lock" /\ k < at[t]
                                 \/ pc[t] = "unlock" /\ k <= at[t]
                                 \/ pc[t] = "write"}

\* The points of its current route that t has marked.
Written(t) ==
  {path[t][k] : k \in {l \in 2 .. Len(path[t]) - 1 : pc[t] = "write" /\ l < at[t]}}

\* The points of the routes that t has finished.
Kept(t) == UNION {Middle(s) : s \in ToSet(myPaths[t])}

OffLimits ==
  /\ Walls \cup Ends \subseteq full
  /\ \A t \in Threads :
       /\ pc[t] = "route" => Walls \cup Ends \subseteq before[t]
       /\ pc[t] \in {"lock", "unlock", "write"}
            => Middle(path[t]) \cap (Walls \cup Ends) = {}

HeldPoints ==
  \A t \in Threads : \A k \in Locked(t) :
    holder[path[t][k]] = t /\ path[t][k] \notin Kept(t)

KeptPoints == \A t \in Threads : \A p \in Kept(t) : holder[p] = t

FullPoints ==
  \A p \in full : p \in Walls \cup Ends \/ \E t \in Threads : p \in Kept(t) \cup Written(t)

IInv == TypeOK /\ OffLimits /\ HeldPoints /\ KeptPoints /\ FullPoints

LEMMA RoutePoints ==
  ASSUME TypeOK, NEW t \in Threads
  PROVE  Kept(t) \subseteq Points /\ \A k \in Locked(t) : path[t][k] \in Points
<1>1. \A s \in Trails : Middle(s) \subseteq Points
  BY TrailTyped DEF Middle
<1>2. ToSet(myPaths[t]) \subseteq Trails
  BY DEF TypeOK, ToSet
<1>3. ASSUME NEW k \in Locked(t) PROVE path[t][k] \in Points
  <2>1. pc[t] \in {"lock", "unlock", "write"} /\ k \in 2 .. Len(path[t]) - 1
    BY DEF Locked
  <2> QED BY <2>1, PathTyped, TrailTyped
<1> QED BY <1>1, <1>2, <1>3 DEF Kept

\* A step of one thread leaves the routes of the others as they are.
LEMMA OthersKeep ==
  ASSUME TypeOK, NEW t \in Threads, router_solve(t), NEW u \in Threads \ {t}
  PROVE  /\ pc'[u] = pc[u] /\ before'[u] = before[u] /\ path'[u] = path[u]
         /\ at'[u] = at[u] /\ myPaths'[u] = myPaths[u]
         /\ Locked(u)' = Locked(u) /\ Written(u)' = Written(u) /\ Kept(u)' = Kept(u)
<1>1. /\ pc'[u] = pc[u] /\ before'[u] = before[u] /\ path'[u] = path[u]
      /\ at'[u] = at[u] /\ myPaths'[u] = myPaths[u]
  BY DEF router_solve, Take, Leave, Publish, FindRoute, DropRequest, LockPoint, FindLocked,
         GiveUp, UnlockPoint, Requeue, LockedAll, WritePoint, Finish, Forget, locals, TypeOK
<1> QED BY <1>1 DEF Locked, Written, Kept

\* All steps of a thread but three leave alone what it holds and what it keeps.
LEMMA SameHeld ==
  ASSUME TypeOK, NEW t \in Threads, router_solve(t),
         ~ LockPoint(t), ~ UnlockPoint(t), ~ Finish(t)
  PROVE  /\ holder' = holder
         /\ Kept(t)' = Kept(t)
         /\ Locked(t)' # {} => Locked(t)' = Locked(t) /\ path'[t] = path[t]
<1>1. holder' = holder /\ myPaths' = myPaths
  BY DEF router_solve, Take, Leave, Publish, FindRoute, DropRequest, FindLocked,
         GiveUp, Requeue, LockedAll, WritePoint, locals
<1>2. CASE pc'[t] \notin {"lock", "unlock", "write"}
  BY <1>1, <1>2 DEF Locked, Kept
<1>3. CASE FindRoute(t)
  BY <1>1, <1>3 DEF FindRoute, Locked, Kept, TypeOK
<1>4. CASE FindLocked(t) \/ WritePoint(t)
  BY <1>1, <1>4 DEF FindLocked, WritePoint, Locked, Kept, TypeOK
<1>5. CASE GiveUp(t)
  BY <1>1, <1>5, PathTyped DEF GiveUp, Locked, Kept, TypeOK
<1>6. CASE LockedAll(t)
  BY <1>1, <1>6, PathTyped DEF LockedAll, Locked, Kept, TypeOK
<1>7. CASE Take(t) \/ Leave(t) \/ Publish(t) \/ DropRequest(t) \/ Requeue(t)
  BY <1>2, <1>7 DEF Take, Leave, Publish, DropRequest, Requeue, Forget, TypeOK
<1> QED BY <1>3, <1>4, <1>5, <1>6, <1>7 DEF router_solve

\* The step that locks a point.
LEMMA LockPointHeld ==
  ASSUME TypeOK, NEW t \in Threads, LockPoint(t)
  PROVE  /\ at[t] \in Locked(t)' /\ Locked(t)' \subseteq Locked(t) \cup {at[t]}
         /\ path' = path /\ Kept(t)' = Kept(t)
         /\ Here(t) \in Points /\ holder[Here(t)] = Nobody
         /\ holder' = [holder EXCEPT ![Here(t)] = t]
  BY PathTyped DEF LockPoint, Locked, Kept, TypeOK

\* The step that unlocks one: no other position of the route is the same point.
LEMMA UnlockPointHeld ==
  ASSUME TypeOK, NEW t \in Threads, UnlockPoint(t)
  PROVE  /\ at[t] \in Locked(t)
         /\ Locked(t)' \subseteq Locked(t)
         /\ \A k \in Locked(t)' : path[t][k] # Here(t)
         /\ path' = path /\ Kept(t)' = Kept(t)
         /\ Here(t) \in Points
         /\ holder' = [holder EXCEPT ![Here(t)] = Nobody]
<1>1. /\ path[t] \in Trails /\ Len(path[t]) \in Nat /\ at[t] \in 2 .. Len(path[t]) - 1
      /\ Here(t) \in Points /\ pc[t] = "unlock"
  BY PathTyped DEF UnlockPoint, TypeOK
<1>2. /\ path' = path /\ pc' = pc /\ myPaths' = myPaths
      /\ holder' = [holder EXCEPT ![Here(t)] = Nobody] /\ at'[t] = at[t] - 1
  BY DEF UnlockPoint, TypeOK
<1>3. Locked(t)' = {k \in 2 .. Len(path[t]) - 1 : k <= at[t] - 1}
  BY <1>1, <1>2 DEF Locked
<1>4. Locked(t) = {k \in 2 .. Len(path[t]) - 1 : k <= at[t]}
  BY <1>1 DEF Locked
<1>5. \A k \in Locked(t)' : path[t][k] # Here(t)
  <2> SUFFICES ASSUME NEW k \in 2 .. Len(path[t]) - 1, k <= at[t] - 1
               PROVE  path[t][k] # path[t][at[t]]
    BY <1>3 DEF Here
  <2>1. IsInjective(path[t]) /\ DOMAIN path[t] = 1 .. Len(path[t])
    BY <1>1, TrailsAssumption
  <2> QED BY <1>1, <2>1, SMTT(30) DEF IsInjective
<1> QED BY <1>1, <1>2, <1>3, <1>4, <1>5 DEF Kept

\* The step that ends a route.
LEMMA FinishHeld ==
  ASSUME TypeOK, NEW t \in Threads, Finish(t)
  PROVE  /\ Locked(t)' = {} /\ holder' = holder /\ full' = full
         /\ Locked(t) = 2 .. Len(path[t]) - 1
         /\ Written(t) = Middle(path[t])
         /\ Kept(t)' = Kept(t) \cup Middle(path[t])
<1>1. /\ pc[t] = "write" /\ at[t] = Len(path[t]) /\ Len(path[t]) \in Nat
      /\ path[t] \in Trails
  BY PathTyped DEF Finish
<1>2. pc'[t] = "idle" /\ holder' = holder /\ full' = full
  BY DEF Finish, Forget, TypeOK
<1>3. Locked(t) = 2 .. Len(path[t]) - 1 /\ Written(t) = Middle(path[t])
  BY <1>1 DEF Locked, Written, Middle
<1>4. myPaths[t] \in Seq(Trails) /\ myPaths'[t] = Append(myPaths[t], path[t])
  BY DEF Finish, TypeOK
<1>5. ToSet(myPaths'[t]) = ToSet(myPaths[t]) \cup {path[t]}
  BY <1>1, <1>4, SMTT(30) DEF ToSet
<1>6. Kept(t)' = Kept(t) \cup Middle(path[t])
  BY <1>5 DEF Kept
<1> QED BY <1>2, <1>3, <1>6 DEF Locked

\* Walls and ends stay out of every route.
LEMMA OffLimitsNext ==
  ASSUME IInv, NEW t \in Threads, router_solve(t)
  PROVE  OffLimits'
<1>1. full \subseteq full'
  BY DEF router_solve, Take, Leave, Publish, FindRoute, DropRequest, LockPoint, FindLocked,
         GiveUp, UnlockPoint, Requeue, LockedAll, WritePoint, Finish
<1> DEFINE Off(u) == /\ pc[u] = "route" => Walls \cup Ends \subseteq before[u]
                     /\ pc[u] \in {"lock", "unlock", "write"}
                          => Middle(path[u]) \cap (Walls \cup Ends) = {}
<1>2. ASSUME NEW u \in Threads \ {t} PROVE Off(u)'
  BY <1>2, OthersKeep DEF IInv, OffLimits
<1>3. Off(t)'
  <2>1. CASE Take(t)
    BY <2>1 DEF Take, IInv, TypeOK, OffLimits
  <2>2. CASE FindRoute(t)
    <3>0. PICK mine \in Copies(t) :
            \E s \in Routes(request[t], mine) : path' = [path EXCEPT ![t] = s]
      BY <2>2 DEF FindRoute
    <3>1. PICK s \in Routes(request[t], mine) : path' = [path EXCEPT ![t] = s]
      BY <3>0
    <3>2. Walls \cup Ends \subseteq mine
      BY <2>2, <3>0 DEF FindRoute, Copies, IInv, OffLimits
    <3>3. Middle(s) \cap mine = {} /\ path'[t] = s
      BY <3>1 DEF Routes, IInv, TypeOK
    <3> QED BY <2>2, <3>2, <3>3 DEF FindRoute, IInv, TypeOK
  <2>3. CASE LockPoint(t) \/ FindLocked(t) \/ GiveUp(t) \/ UnlockPoint(t) \/ LockedAll(t)
             \/ WritePoint(t)
    <3>1. pc[t] \in {"lock", "unlock", "write"} /\ pc'[t] # "route" /\ path' = path
      BY <2>3 DEF LockPoint, FindLocked, GiveUp, UnlockPoint, LockedAll, WritePoint, IInv,
                  TypeOK
    <3> QED BY <3>1 DEF IInv, OffLimits
  <2>4. CASE Leave(t) \/ Publish(t) \/ DropRequest(t) \/ Requeue(t) \/ Finish(t)
    BY <2>4 DEF Leave, Publish, DropRequest, Requeue, Finish, Forget, IInv, TypeOK
  <2> QED BY <2>1, <2>2, <2>3, <2>4 DEF router_solve
<1>4. \A u \in Threads : Off(u)'
  BY <1>2, <1>3
<1> QED BY <1>1, <1>4 DEF IInv, OffLimits

\* A thread goes on holding what it has locked.
LEMMA HeldPointsNext ==
  ASSUME IInv, NEW t \in Threads, router_solve(t)
  PROVE  HeldPoints' /\ KeptPoints'
<1>0. TypeOK /\ HeldPoints /\ KeptPoints /\ DOMAIN holder = Points
  BY DEF IInv, TypeOK
<1>1. ASSUME NEW u \in Threads, NEW p \in Points, holder[p] = u, u # t
      PROVE  holder'[p] = u
  <2>1. CASE LockPoint(t)
    <3>1. p # Here(t) /\ holder' = [holder EXCEPT ![Here(t)] = t]
      BY <1>0, <1>1, <2>1, LockPointHeld, NobodyAssumption
    <3> QED BY <1>0, <1>1, <3>1
  <2>2. CASE UnlockPoint(t)
    <3>1. holder[Here(t)] = t
      BY <1>0, <2>2, UnlockPointHeld DEF HeldPoints, Here
    <3>2. holder' = [holder EXCEPT ![Here(t)] = Nobody]
      BY <1>0, <2>2, UnlockPointHeld
    <3> QED BY <1>0, <1>1, <3>1, <3>2
  <2> QED BY <1>0, <1>1, <2>1, <2>2, SameHeld, FinishHeld
<1>2. ASSUME NEW u \in Threads \ {t}
      PROVE  /\ \A k \in Locked(u)' : holder'[path'[u][k]] = u /\ path'[u][k] \notin Kept(u)'
             /\ \A p \in Kept(u)' : holder'[p] = u
  BY <1>0, <1>1, <1>2, OthersKeep, RoutePoints DEF HeldPoints, KeptPoints
<1>3. /\ \A k \in Locked(t)' : holder'[path'[t][k]] = t /\ path'[t][k] \notin Kept(t)'
      /\ \A p \in Kept(t)' : holder'[p] = t
  <2>1. CASE LockPoint(t)
    <3>1. Here(t) \notin Kept(t) /\ Here(t) = path[t][at[t]]
      BY <1>0, <2>1, LockPointHeld, NobodyAssumption DEF KeptPoints, Here
    <3>2. /\ \A p \in Points : holder[p] = t => holder'[p] = t
          /\ holder'[Here(t)] = t
      BY <1>0, <2>1, LockPointHeld
    <3>3. /\ Locked(t)' \subseteq Locked(t) \cup {at[t]}
          /\ path' = path /\ Kept(t)' = Kept(t)
      BY <1>0, <2>1, LockPointHeld
    <3> QED BY <1>0, <3>1, <3>2, <3>3, RoutePoints DEF HeldPoints, KeptPoints
  <2>2. CASE UnlockPoint(t)
    <3>1. Here(t) \notin Kept(t)
      BY <1>0, <2>2, UnlockPointHeld DEF HeldPoints, Here
    <3>2. \A p \in Points : p # Here(t) => holder'[p] = holder[p]
      BY <1>0, <2>2, UnlockPointHeld
    <3>3. /\ Locked(t)' \subseteq Locked(t) /\ \A k \in Locked(t)' : path[t][k] # Here(t)
          /\ path' = path /\ Kept(t)' = Kept(t)
      BY <1>0, <2>2, UnlockPointHeld
    <3> QED BY <1>0, <3>1, <3>2, <3>3, RoutePoints DEF HeldPoints, KeptPoints
  <2>3. CASE Finish(t)
    <3>1. \A p \in Middle(path[t]) : holder[p] = t
      BY <1>0, <2>3, FinishHeld DEF HeldPoints, Middle
    <3> QED BY <1>0, <2>3, <3>1, FinishHeld DEF KeptPoints
  <2>4. CASE ~ LockPoint(t) /\ ~ UnlockPoint(t) /\ ~ Finish(t)
    BY <1>0, <2>4, SameHeld DEF HeldPoints, KeptPoints
  <2> QED BY <2>1, <2>2, <2>3, <2>4
<1> QED BY <1>2, <1>3 DEF HeldPoints, KeptPoints

\* Only the points of routes become full.
LEMMA FullPointsNext ==
  ASSUME IInv, NEW t \in Threads, router_solve(t)
  PROVE  FullPoints'
<1> USE DEF IInv
<1>1. ASSUME NEW u \in Threads \ {t}
      PROVE  Kept(u)' \cup Written(u)' = Kept(u) \cup Written(u)
  BY <1>1, OthersKeep
<1>2. /\ Kept(t) \cup Written(t) \subseteq Kept(t)' \cup Written(t)'
      /\ full' \subseteq full \cup Kept(t)' \cup Written(t)'
  <2>1. CASE WritePoint(t)
    <3>1. /\ pc[t] = "write" /\ at[t] \in 2 .. Len(path[t]) - 1 /\ Len(path[t]) \in Nat
          /\ full' = full \cup {path[t][at[t]]}
      BY <2>1, PathTyped DEF WritePoint, Here, TypeOK
    <3>2. /\ pc' = pc /\ path' = path /\ myPaths' = myPaths /\ at'[t] = at[t] + 1
      BY <2>1 DEF WritePoint, TypeOK
    <3>3. Written(t) \cup {path[t][at[t]]} \subseteq Written(t)'
      BY <3>1, <3>2 DEF Written
    <3> QED BY <3>1, <3>2, <3>3 DEF Kept
  <2>2. CASE Finish(t)
    BY <2>2, FinishHeld
  <2>3. CASE LockedAll(t)
    <3>1. Written(t) = {}
      BY <2>3 DEF LockedAll, Written
    <3> QED BY <2>3, <3>1 DEF LockedAll, Kept
  <2>4. CASE ~ WritePoint(t) /\ ~ Finish(t) /\ ~ LockedAll(t)
    <3>1. full' = full /\ myPaths' = myPaths /\ pc[t] # "write"
      BY <2>4 DEF router_solve, Take, Leave, Publish, FindRoute, DropRequest, LockPoint,
                  FindLocked, GiveUp, UnlockPoint, Requeue, locals
    <3> QED BY <3>1 DEF Written, Kept
  <2> QED BY <2>1, <2>2, <2>3, <2>4
<1>3. SUFFICES ASSUME NEW p \in full', p \notin Walls \cup Ends
               PROVE  \E u \in Threads : p \in Kept(u)' \cup Written(u)'
  BY DEF FullPoints
<1>4. CASE p \in full
  <2>1. PICK u \in Threads : p \in Kept(u) \cup Written(u)
    BY <1>3, <1>4 DEF FullPoints
  <2> QED BY <1>1, <1>2, <2>1
<1>5. CASE p \notin full
  BY <1>2, <1>3, <1>5
<1> QED BY <1>4, <1>5

LEMMA IInvInit == Init => IInv
<1> SUFFICES ASSUME Init PROVE IInv
  OBVIOUS
<1>1. \A t \in Threads : pc[t] = "idle" /\ myPaths[t] = <<>>
  BY DEF Init
<1>2. \A t \in Threads : Locked(t) = {} /\ Kept(t) = {}
  BY <1>1 DEF Locked, Kept, ToSet
<1>3. OffLimits
  BY <1>1 DEF Init, OffLimits
<1>4. HeldPoints /\ KeptPoints
  BY <1>2 DEF HeldPoints, KeptPoints
<1>5. FullPoints
  BY DEF Init, FullPoints
<1> QED BY <1>3, <1>4, <1>5, TypeInit DEF IInv

LEMMA IInvNext == IInv /\ [Next]_vars => IInv'
<1> SUFFICES ASSUME IInv, [Next]_vars PROVE IInv'
  OBVIOUS
<1>1. TypeOK'
  BY TypeNext DEF IInv
<1>2. ASSUME NEW t \in Threads, router_solve(t) PROVE IInv'
  BY <1>1, <1>2, OffLimitsNext, HeldPointsNext, FullPointsNext DEF IInv
<1>3. CASE Verify \/ UNCHANGED vars
  <2>1. UNCHANGED <<full, holder, pc, before, path, at, myPaths>>
    BY <1>3 DEF Verify, vars, locals
  <2> QED BY <1>1, <2>1 DEF IInv, OffLimits, HeldPoints, KeptPoints, FullPoints, Locked,
                            Written, Kept
<1> QED BY <1>2, <1>3 DEF Next, Terminated

\* What the locks stand for holds throughout.
THEOREM Invariance == Spec => []IInv
<1> QED BY IInvInit, IInvNext, PTL DEF Spec

-------------------------------------------------------------------------------
(***************************************************************************)
(* What follows from it.                                                   *)
(***************************************************************************)

\* A thread holds the lock of every point between the ends of its routes.
LEMMA ClaimedHeld ==
  ASSUME IInv, NEW t \in Threads, NEW s \in Claimed(t), NEW p \in Middle(s)
  PROVE  holder[p] = t
<1>1. CASE s \in ToSet(myPaths[t])
  BY <1>1 DEF Kept, KeptPoints, IInv
<1>2. CASE pc[t] = "write" /\ s = path[t]
  <2>1. PICK k \in 2 .. Len(path[t]) - 1 : p = path[t][k]
    BY <1>2 DEF Middle
  <2> QED BY <1>2, <2>1 DEF Locked, HeldPoints, IInv
<1> QED BY <1>1, <1>2 DEF Claimed

\* The routes of two threads never cross, however old or torn the copies of the
\* grid are in which they were found.
THEOREM RoutesNeverCross == Spec => []RoutesDisjoint
<1>1. IInv => RoutesDisjoint
  <2> SUFFICES ASSUME IInv, NEW t \in Threads, NEW u \in Threads, t # u,
                      NEW s \in Claimed(t), NEW w \in Claimed(u),
                      NEW p \in Middle(s), p \in Middle(w)
               PROVE  FALSE
    BY DEF RoutesDisjoint
  <2> QED BY ClaimedHeld
<1> QED BY <1>1, Invariance, PTL

\* Points are marked under their locks, and a point that is marked stays locked.
THEOREM LocksAreRespected == Spec => LocksGuardPoints
<1> DEFINE Guarded ==
      /\ \A p \in full' \ full : holder[p] # Nobody /\ pc[holder[p]] = "write"
      /\ \A p \in Points : holder[p] # holder'[p] /\ holder[p] # Nobody =>
           /\ holder'[p] = Nobody /\ p \notin full
           /\ pc[holder[p]] = "unlock"
<1>1. ASSUME IInv, NEW t \in Threads, WritePoint(t) PROVE Guarded
  <2>1. /\ pc[t] = "write" /\ at[t] \in 2 .. Len(path[t]) - 1
        /\ full' = full \cup {path[t][at[t]]} /\ holder' = holder
    BY <1>1, PathTyped DEF WritePoint, Here, IInv, TypeOK
  <2>2. at[t] \in Locked(t)
    BY <2>1 DEF Locked
  <2>3. holder[path[t][at[t]]] = t
    BY <1>1, <2>2 DEF HeldPoints, IInv
  <2> QED BY <2>1, <2>3, NobodyAssumption
<1>2. ASSUME IInv, NEW t \in Threads, LockPoint(t) PROVE Guarded
  <2>1. full' = full
    BY <1>2 DEF LockPoint
  <2> QED BY <1>2, <2>1, LockPointHeld DEF IInv, TypeOK
<1>3. ASSUME IInv, NEW t \in Threads, UnlockPoint(t) PROVE Guarded
  <2>1. full' = full /\ pc[t] = "unlock"
    BY <1>3 DEF UnlockPoint
  <2>2. /\ Here(t) \in Points /\ at[t] \in Locked(t)
        /\ holder' = [holder EXCEPT ![Here(t)] = Nobody]
    BY <1>3, UnlockPointHeld DEF IInv
  <2>3. holder[Here(t)] = t /\ Here(t) \notin Kept(t)
    BY <1>3, <2>2 DEF HeldPoints, Here, IInv
  <2>4. Here(t) \in Middle(path[t])
    BY <2>2 DEF Middle, Locked, Here
  <2>5. Here(t) \notin Walls \cup Ends
    BY <1>3, <2>1, <2>4 DEF OffLimits, IInv
  <2>6. ASSUME NEW u \in Threads, Here(t) \in Kept(u) PROVE FALSE
    BY <1>3, <2>3, <2>6 DEF KeptPoints, IInv
  <2>7. ASSUME NEW u \in Threads, Here(t) \in Written(u) PROVE FALSE
    <3>1. PICK k \in 2 .. Len(path[u]) - 1 : pc[u] = "write" /\ Here(t) = path[u][k]
      BY <2>7 DEF Written
    <3>2. k \in Locked(u)
      BY <3>1 DEF Locked
    <3>3. holder[Here(t)] = u
      BY <1>3, <3>1, <3>2 DEF HeldPoints, IInv
    <3> QED BY <2>1, <2>3, <3>1, <3>3
  <2>8. Here(t) \notin full
    BY <1>3, <2>5, <2>6, <2>7 DEF FullPoints, IInv
  <2>9. DOMAIN holder = Points
    BY <1>3 DEF IInv, TypeOK
  <2>10. /\ \A p \in Points : p # Here(t) => holder'[p] = holder[p]
         /\ holder'[Here(t)] = Nobody
    BY <2>2, <2>9
  <2> QED BY <2>1, <2>3, <2>8, <2>10
<1>4. ASSUME NEW t \in Threads, router_solve(t),
             ~ WritePoint(t), ~ LockPoint(t), ~ UnlockPoint(t)
      PROVE  Guarded
  <2>1. full' = full /\ holder' = holder
    BY <1>4 DEF router_solve, Take, Leave, Publish, FindRoute, DropRequest, FindLocked,
                GiveUp, Requeue, LockedAll, Finish
  <2> QED BY <2>1
<1>5. ASSUME Verify \/ UNCHANGED vars PROVE Guarded
  <2>1. full' = full /\ holder' = holder
    BY <1>5 DEF Verify, vars
  <2> QED BY <2>1
<1>6. IInv /\ [Next]_vars => Guarded
  BY <1>1, <1>2, <1>3, <1>4, <1>5 DEF Next, Terminated
<1> QED BY <1>6, Invariance, PTL DEF Spec, LocksGuardPoints

-------------------------------------------------------------------------------
(***************************************************************************)
(* Where the requests are.  An open request is in the queue or with a      *)
(* thread, and nowhere twice.                                              *)
(***************************************************************************)

Waiting == ToSet(workQueue)

Jobs ==
  /\ IsInjective(workQueue)
  /\ \A t \in Threads : request[t] \notin Waiting
  /\ \A t, u \in Threads : request[t] = request[u] /\ request[t] # NoRequest => t = u
  /\ \A r \in Requests :
       outcome[r] = "open" <=> r \in Waiting \/ \E t \in Threads : request[t] = r

\* queue_pop takes the first of different requests.
LEMMA PopApart ==
  ASSUME NEW q \in Seq(Requests), IsInjective(q), q # <<>>
  PROVE  /\ Head(q) \in Requests /\ Tail(q) \in Seq(Requests)
         /\ ToSet(q) = {Head(q)} \cup ToSet(Tail(q))
         /\ Head(q) \notin ToSet(Tail(q))
         /\ IsInjective(Tail(q))
<1>1. /\ Head(q) \in Requests /\ Tail(q) \in Seq(Requests) /\ Len(q) > 0
      /\ Len(Tail(q)) = Len(q) - 1 /\ Head(q) = q[1]
      /\ \A k \in 1 .. Len(q) - 1 : Tail(q)[k] = q[k + 1]
      /\ Len(q) \in Nat
  OBVIOUS
<1>2. DOMAIN q = 1 .. Len(q) /\ DOMAIN Tail(q) = 1 .. Len(q) - 1
  BY <1>1
<1>3. \A j, k \in 1 .. Len(q) : q[j] = q[k] => j = k
  BY <1>2 DEF IsInjective
<1>4. IsInjective(Tail(q))
  <2> SUFFICES ASSUME NEW j \in 1 .. Len(q) - 1, NEW k \in 1 .. Len(q) - 1,
                      Tail(q)[j] = Tail(q)[k]
               PROVE  j = k
    BY <1>2 DEF IsInjective
  <2>1. q[j + 1] = q[k + 1] /\ j + 1 \in 1 .. Len(q) /\ k + 1 \in 1 .. Len(q)
    BY <1>1
  <2>2. j + 1 = k + 1
    BY <1>3, <2>1
  <2> QED BY <2>2
<1>5. ToSet(q) = {q[k] : k \in 1 .. Len(q)}
  BY <1>2 DEF ToSet
<1>6. ToSet(Tail(q)) = {q[k + 1] : k \in 1 .. Len(q) - 1}
  <2>1. ToSet(Tail(q)) = {Tail(q)[k] : k \in 1 .. Len(q) - 1}
    BY <1>2 DEF ToSet
  <2> QED BY <1>1, <2>1
<1>7. Head(q) \notin ToSet(Tail(q))
  <2> SUFFICES ASSUME NEW k \in 1 .. Len(q) - 1, q[1] = q[k + 1] PROVE FALSE
    BY <1>1, <1>6
  <2>1. 1 \in 1 .. Len(q) /\ k + 1 \in 1 .. Len(q) /\ k + 1 # 1
    BY <1>1
  <2> QED BY <1>3, <2>1
<1>8. ToSet(q) \subseteq {Head(q)} \cup ToSet(Tail(q))
  <2> SUFFICES ASSUME NEW k \in 1 .. Len(q), k # 1 PROVE q[k] \in ToSet(Tail(q))
    BY <1>1, <1>5
  <2>1. k - 1 \in 1 .. Len(q) - 1 /\ (k - 1) + 1 = k
    BY <1>1
  <2> QED BY <1>6, <2>1
<1>9. {Head(q)} \cup ToSet(Tail(q)) \subseteq ToSet(q)
  BY <1>1, <1>5, <1>6
<1> QED BY <1>1, <1>4, <1>7, <1>8, <1>9

\* queue_push adds a request that is not in the queue.
LEMMA PushApart ==
  ASSUME NEW q \in Seq(Requests), IsInjective(q), NEW r \in Requests, r \notin ToSet(q)
  PROVE  /\ ToSet(Append(q, r)) = ToSet(q) \cup {r}
         /\ IsInjective(Append(q, r))
<1> DEFINE p == Append(q, r)
           n == Len(q)
<1>1. /\ n \in Nat /\ DOMAIN q = 1 .. n /\ DOMAIN p = 1 .. n + 1
      /\ p[n + 1] = r /\ \A k \in 1 .. n : p[k] = q[k]
  OBVIOUS
<1> HIDE DEF p, n
<1>2. \A k \in 1 .. n : q[k] # r
  BY <1>1 DEF ToSet
<1>3. \A k \in 1 .. n + 1 : k \in 1 .. n \/ k = n + 1
  BY <1>1
<1>4. ToSet(p) = ToSet(q) \cup {r}
  <2>1. ToSet(p) = {p[k] : k \in 1 .. n + 1} /\ ToSet(q) = {q[k] : k \in 1 .. n}
    BY <1>1 DEF ToSet
  <2>2. \A k \in 1 .. n : k \in 1 .. n + 1
    BY <1>1
  <2>3. n + 1 \in 1 .. n + 1
    BY <1>1
  <2> QED BY <1>1, <1>3, <2>1, <2>2, <2>3
<1>5. IsInjective(p)
  <2>1. \A j, k \in 1 .. n : q[j] = q[k] => j = k
    BY <1>1 DEF IsInjective
  <2> QED BY <1>1, <1>2, <1>3, <2>1 DEF IsInjective
<1> QED BY <1>4, <1>5 DEF p

\* There are as many requests as lines of the input file.
LEMMA RequestsFinite == IsFiniteSet(Requests)
<1>1. Len(WorkList) \in Nat /\ DOMAIN WorkList = 1 .. Len(WorkList)
  BY WorkListAssumption
<1>2. WorkList \in Surjection(1 .. Len(WorkList), Requests)
  <2>1. WorkList \in [1 .. Len(WorkList) -> Requests]
    BY WorkListAssumption
  <2>2. \A r \in Requests : \E k \in 1 .. Len(WorkList) : WorkList[k] = r
    BY <1>1, WorkListAssumption DEF ToSet
  <2> QED BY <2>1, <2>2 DEF Surjection
<1>3. IsFiniteSet(1 .. Len(WorkList))
  BY <1>1, FS_Interval
<1> QED BY <1>2, <1>3, FS_Surjection

LEMMA JobsInit == Init => Jobs
<1> SUFFICES ASSUME Init PROVE Jobs
  OBVIOUS
<1>1. workQueue = WorkList /\ Waiting = Requests
  BY WorkListAssumption DEF Init, Waiting
<1>2. \A t \in Threads : request[t] = NoRequest
  BY DEF Init
<1>3. \A r \in Requests : outcome[r] = "open"
  BY DEF Init
<1> QED BY <1>1, <1>2, <1>3, WorkListAssumption, NobodyAssumption DEF Jobs

\* A request that a thread is done with, for good or for now, was open and is
\* nobody else's.
LEMMA OwnRequest ==
  ASSUME TypeOK, Jobs, NEW t \in Threads, pc[t] \in {"route", "lock", "unlock", "write"}
  PROVE  /\ request[t] \in Requests /\ request[t] # NoRequest
         /\ outcome[request[t]] = "open"
         /\ request[t] \notin Waiting
         /\ \A u \in Threads \ {t} : request[u] # request[t]
<1>1. request[t] \in Requests /\ request[t] # NoRequest
  BY DEF TypeOK
<1> QED BY <1>1 DEF Jobs

LEMMA JobsNext ==
  ASSUME TypeOK, Jobs, NEW t \in Threads, router_solve(t)
  PROVE  Jobs'
<1> USE NobodyAssumption
<1>1. CASE Take(t)
  <2> DEFINE h == Head(workQueue)
  <2>1. /\ pc[t] = "idle" /\ request[t] = NoRequest
        /\ workQueue' = Tail(workQueue) /\ outcome' = outcome
        /\ request' = [request EXCEPT ![t] = h]
    BY <1>1 DEF Take, TypeOK
  <2>2. /\ h \in Requests /\ Waiting = {h} \cup Waiting' /\ h \notin Waiting'
        /\ IsInjective(workQueue')
    BY <1>1, <2>1, PopApart DEF Take, TypeOK, Jobs, Waiting
  <2> HIDE DEF h
  <2>3. \A u \in Threads : request'[u] = IF u = t THEN h ELSE request[u]
    BY <2>1 DEF TypeOK
  <2>4. \A u \in Threads : request[u] \notin Waiting
    BY DEF Jobs
  <2>5. \A u \in Threads : request'[u] \notin Waiting'
    BY <2>2, <2>3, <2>4
  <2>6. \A u, v \in Threads : request'[u] = request'[v] /\ request'[u] # NoRequest => u = v
    BY <2>2, <2>3, <2>4 DEF Jobs
  <2>7. ASSUME NEW r \in Requests
        PROVE  outcome'[r] = "open" <=> r \in Waiting' \/ \E u \in Threads : request'[u] = r
    <3>1. outcome'[r] = "open" <=> r \in Waiting \/ \E u \in Threads : request[u] = r
      BY <2>1 DEF Jobs
    <3>2. (\E u \in Threads : request'[u] = r) <=> r = h \/ \E u \in Threads : request[u] = r
      BY <2>1, <2>3
    <3> QED BY <2>2, <3>1, <3>2
  <2> QED BY <2>2, <2>5, <2>6, <2>7 DEF Jobs
<1>2. CASE Requeue(t)
  <2> DEFINE h == request[t]
  <2>1. /\ pc[t] = "unlock" /\ workQueue' = Append(workQueue, h) /\ outcome' = outcome
        /\ request' = [request EXCEPT ![t] = NoRequest]
    BY <1>2 DEF Requeue, Forget
  <2>2. /\ h \in Requests /\ h # NoRequest /\ outcome[h] = "open" /\ h \notin Waiting
        /\ \A u \in Threads \ {t} : request[u] # h
    BY <2>1, OwnRequest
  <2>3. Waiting' = Waiting \cup {h} /\ IsInjective(workQueue')
    BY <2>1, <2>2, PushApart DEF TypeOK, Jobs, Waiting
  <2>4. \A u \in Threads : request'[u] = IF u = t THEN NoRequest ELSE request[u]
    BY <2>1 DEF TypeOK
  <2>5. \A u \in Threads : request[u] \notin Waiting
    BY DEF Jobs
  <2>6. NoRequest \notin Waiting'
    <3>1. Waiting \subseteq Requests
      BY DEF Waiting, TypeOK, ToSet
    <3> QED BY <2>2, <2>3, <3>1
  <2>7. \A u \in Threads : request'[u] \notin Waiting'
    BY <2>2, <2>3, <2>4, <2>5, <2>6
  <2>8. \A u, v \in Threads : request'[u] = request'[v] /\ request'[u] # NoRequest => u = v
    BY <2>4 DEF Jobs
  <2>9. ASSUME NEW r \in Requests
        PROVE  outcome'[r] = "open" <=> r \in Waiting' \/ \E u \in Threads : request'[u] = r
    <3>1. outcome'[r] = "open" <=> r \in Waiting \/ \E u \in Threads : request[u] = r
      BY <2>1 DEF Jobs
    <3>2. r # h => ((\E u \in Threads : request'[u] = r) <=> \E u \in Threads : request[u] = r)
      BY <2>4
    <3> QED BY <2>2, <2>3, <3>1, <3>2
  <2> QED BY <2>3, <2>7, <2>8, <2>9 DEF Jobs
<1>3. CASE DropRequest(t) \/ Finish(t)
  <2> DEFINE h == request[t]
  <2>1. /\ pc[t] \in {"route", "write"} /\ workQueue' = workQueue
        /\ request' = [request EXCEPT ![t] = NoRequest]
        /\ \A r \in Requests : r # h => outcome'[r] = outcome[r]
    BY <1>3 DEF DropRequest, Finish, Forget, TypeOK
  <2>2. /\ h \in Requests /\ h # NoRequest /\ outcome[h] = "open" /\ h \notin Waiting
        /\ \A u \in Threads \ {t} : request[u] # h
    BY <2>1, OwnRequest
  <2>3. outcome'[h] # "open"
    BY <1>3, <2>2 DEF DropRequest, Finish, TypeOK
  <2>4. \A u \in Threads : request'[u] = IF u = t THEN NoRequest ELSE request[u]
    BY <2>1 DEF TypeOK
  <2>5. NoRequest \notin Waiting /\ Waiting' = Waiting
    BY <2>1 DEF Waiting, TypeOK, ToSet
  <2>6. \A u \in Threads : request'[u] \notin Waiting'
    BY <2>4, <2>5 DEF Jobs
  <2>7. \A u, v \in Threads : request'[u] = request'[v] /\ request'[u] # NoRequest => u = v
    BY <2>4 DEF Jobs
  <2>8. ASSUME NEW r \in Requests
        PROVE  outcome'[r] = "open" <=> r \in Waiting' \/ \E u \in Threads : request'[u] = r
    <3>1. CASE r = h
      BY <2>2, <2>3, <2>4, <2>5, <3>1
    <3>2. CASE r # h
      <4>1. outcome'[r] = "open" <=> r \in Waiting \/ \E u \in Threads : request[u] = r
        BY <2>1, <3>2 DEF Jobs
      <4>2. (\E u \in Threads : request'[u] = r) <=> \E u \in Threads : request[u] = r
        BY <2>4, <3>2
      <4> QED BY <2>5, <4>1, <4>2
    <3> QED BY <3>1, <3>2
  <2>9. IsInjective(workQueue')
    BY <2>1 DEF Jobs
  <2> QED BY <2>6, <2>7, <2>8, <2>9 DEF Jobs
<1>4. CASE ~ Take(t) /\ ~ Requeue(t) /\ ~ DropRequest(t) /\ ~ Finish(t)
  <2>1. workQueue' = workQueue /\ request' = request /\ outcome' = outcome
    BY <1>4 DEF router_solve, Leave, Publish, FindRoute, LockPoint, FindLocked, GiveUp,
                UnlockPoint, LockedAll, WritePoint, locals
  <2> QED BY <2>1 DEF Jobs, Waiting
<1> QED BY <1>1, <1>2, <1>3, <1>4

\* A place where request r is.
Places(r) == {<<"queue", k>> : k \in {l \in DOMAIN workQueue : workQueue[l] = r}}
             \cup {<<"thread", t>> : t \in {u \in Threads : request[u] = r}}

LEMMA JobsNothingLost ==
  ASSUME TypeOK, Jobs
  PROVE  NothingLost
<1> SUFFICES ASSUME NEW r \in Requests
             PROVE  Cardinality(Places(r)) = IF outcome[r] = "open" THEN 1 ELSE 0
  BY DEF NothingLost, Places
<1>1. outcome[r] = "open" <=> r \in Waiting \/ \E t \in Threads : request[t] = r
  BY DEF Jobs
<1>2. CASE r \in Waiting
  <2>1. PICK k \in DOMAIN workQueue : workQueue[k] = r
    BY <1>2 DEF Waiting, ToSet
  <2>2. \A l \in DOMAIN workQueue : workQueue[l] = r => l = k
    BY <2>1 DEF Jobs, IsInjective
  <2>3. \A t \in Threads : request[t] # r
    BY <1>2 DEF Jobs
  <2>4. Places(r) = {<<"queue", k>>}
    BY <2>1, <2>2, <2>3 DEF Places
  <2> QED BY <1>1, <1>2, <2>4, FS_Singleton
<1>3. ASSUME NEW t \in Threads, request[t] = r
      PROVE  Cardinality(Places(r)) = IF outcome[r] = "open" THEN 1 ELSE 0
  <2>1. r \notin Waiting
    BY <1>3 DEF Jobs
  <2>2. \A l \in DOMAIN workQueue : workQueue[l] # r
    BY <2>1 DEF Waiting, ToSet
  <2>3. \A u \in Threads : request[u] = r => u = t
    BY <1>3, NobodyAssumption DEF Jobs
  <2>4. Places(r) = {<<"thread", t>>}
    BY <1>3, <2>2, <2>3 DEF Places
  <2> QED BY <1>1, <1>3, <2>4, FS_Singleton
<1>4. CASE r \notin Waiting /\ \A t \in Threads : request[t] # r
  <2>1. \A l \in DOMAIN workQueue : workQueue[l] # r
    BY <1>4 DEF Waiting, ToSet
  <2>2. Places(r) = {}
    BY <1>4, <2>1 DEF Places
  <2> QED BY <1>1, <1>4, <2>2, FS_EmptySet
<1> QED BY <1>2, <1>3, <1>4

-------------------------------------------------------------------------------
(***************************************************************************)
(* What main asserts.  The invariant says which routes the threads have:   *)
(* as many as requests are routed, each between two ends, over points that *)
(* are neither wall nor end nor on another route.                          *)
(***************************************************************************)

\* Every route that is finished, handed in or not.
Finished == UNION {{<<t, k>> : k \in DOMAIN myPaths[t]} : t \in Threads}

Counted ==
  /\ IsFiniteSet(Finished)
  /\ Cardinality(Finished) = Cardinality({r \in Requests : outcome[r] = "routed"})

\* The route that a thread works on leads from one end of its request to the
\* other; one that it has finished leads between two ends.
EndsMeet ==
  \A t \in Threads :
    /\ pc[t] \in {"lock", "unlock", "write"}
         => path[t][1] = Destination[request[t]] /\ Last(path[t]) = Source[request[t]]
    /\ \A k \in DOMAIN myPaths[t] :
         LET s == myPaths[t][k] IN
         /\ s[1] \in Ends /\ Last(s) \in Ends
         /\ Middle(s) \cap (Walls \cup Ends) = {}

OwnDisjoint ==
  \A t \in Threads : \A j, k \in DOMAIN myPaths[t] :
    j # k => Middle(myPaths[t][j]) \cap Middle(myPaths[t][k]) = {}

\* The thread that leaves last has found the queue empty, and what main asserts
\* is true, if any thread was started: -t 0 is accepted, and leaves every request
\* in the queue.
Emptied ==
  Threads # {} /\ (\A t \in Threads : pc[t] \in {"publish", "done"}) => workQueue = <<>>

Passed == Threads # {} => VerificationPasses

\* What a copy began with is still full.
OnlyFuller == \A t \in Threads : before[t] \subseteq full

\* A request that is given up has no room in the grid from then on, the points of
\* half-written routes counted.
DroppedForGood ==
  \A r \in Requests : outcome[r] = "dropped" => Routes(r, full) = {}

\* A thread that has returned has handed in its routes.
HandedIn == \A t \in Threads : pc[t] = "done" => t \in pathVectorList

JInv ==
  /\ Jobs /\ Counted /\ EndsMeet /\ OwnDisjoint /\ Emptied /\ OnlyFuller
  /\ DroppedForGood /\ HandedIn /\ Passed

LEMMA JInvInit == Init => JInv
<1> SUFFICES ASSUME Init PROVE JInv
  OBVIOUS
<1>1. /\ \A t \in Threads : pc[t] = "idle" /\ myPaths[t] = <<>> /\ before[t] = {}
      /\ \A r \in Requests : outcome[r] = "open"
      /\ verdict = "none"
  BY DEF Init
<1>2. Finished = {} /\ {r \in Requests : outcome[r] = "routed"} = {}
  BY <1>1 DEF Finished
<1>3. Counted
  BY <1>2, FS_EmptySet DEF Counted
<1>4. EndsMeet /\ OwnDisjoint
  BY <1>1 DEF EndsMeet, OwnDisjoint
<1>5. Emptied /\ OnlyFuller /\ DroppedForGood /\ HandedIn /\ Passed
  BY <1>1 DEF Emptied, OnlyFuller, DroppedForGood, HandedIn, Passed, VerificationPasses
<1> QED BY <1>3, <1>4, <1>5, JobsInit DEF JInv

\* Finish adds one route and routes one request.
LEMMA CountedNext ==
  ASSUME TypeOK, Jobs, Counted, NEW t \in Threads, router_solve(t)
  PROVE  Counted'
<1>1. CASE Finish(t)
  <2> DEFINE h == request[t]
             n == Len(myPaths[t])
             routed == {r \in Requests : outcome[r] = "routed"}
  <2>1. /\ pc[t] = "write"
        /\ myPaths' = [myPaths EXCEPT ![t] = Append(myPaths[t], path[t])]
        /\ outcome' = [outcome EXCEPT ![h] = "routed"]
    BY <1>1 DEF Finish
  <2>2. h \in Requests /\ outcome[h] = "open"
    BY <2>1, OwnRequest
  <2>3. routed' = routed \cup {h} /\ h \notin routed
    BY <2>1, <2>2 DEF TypeOK
  <2>4. /\ n \in Nat /\ DOMAIN myPaths[t] = 1 .. n /\ DOMAIN myPaths'[t] = 1 .. n + 1
        /\ \A u \in Threads \ {t} : myPaths'[u] = myPaths[u]
    <3>1. myPaths[t] \in Seq(Trails) /\ myPaths'[t] = Append(myPaths[t], path[t])
      BY <2>1 DEF TypeOK
    <3>2. \A u \in Threads \ {t} : myPaths'[u] = myPaths[u]
      BY <2>1 DEF TypeOK
    <3> QED BY <3>1, <3>2
  <2> HIDE DEF n
  <2>5. 1 .. n + 1 = (1 .. n) \cup {n + 1} /\ n + 1 \notin 1 .. n
    BY <2>4
  <2>6. Finished' = Finished \cup {<<t, n + 1>>} /\ <<t, n + 1>> \notin Finished
    BY <2>4, <2>5 DEF Finished
  <2>7. routed \subseteq Requests /\ IsFiniteSet(Requests)
    BY RequestsFinite
  <2>8. IsFiniteSet(routed)
    BY <2>7, FS_Subset
  <2>9. Cardinality(routed') = Cardinality(routed) + 1
    <3> HIDE DEF routed
    <3> QED BY <2>3, <2>8, FS_AddElement
  <2>10. IsFiniteSet(Finished') /\ Cardinality(Finished') = Cardinality(Finished) + 1
    BY <2>6, FS_AddElement DEF Counted
  <2> QED BY <2>9, <2>10 DEF Counted
<1>2. CASE DropRequest(t)
  <2> DEFINE h == request[t]
  <2>1. /\ pc[t] = "route" /\ myPaths' = myPaths
        /\ outcome' = [outcome EXCEPT ![h] = "dropped"]
    BY <1>2 DEF DropRequest
  <2>2. h \in Requests /\ outcome[h] = "open"
    BY <2>1, OwnRequest
  <2>3. {r \in Requests : outcome'[r] = "routed"} = {r \in Requests : outcome[r] = "routed"}
    BY <2>1, <2>2 DEF TypeOK
  <2>4. Finished' = Finished
    BY <2>1 DEF Finished
  <2>5. Cardinality({r \in Requests : outcome'[r] = "routed"})
          = Cardinality({r \in Requests : outcome[r] = "routed"})
    BY <2>3, Zenon
  <2> QED BY <2>4, <2>5, Zenon DEF Counted
<1>3. CASE ~ Finish(t) /\ ~ DropRequest(t)
  <2>1. myPaths' = myPaths /\ outcome' = outcome
    BY <1>3 DEF router_solve, Take, Leave, Publish, FindRoute, LockPoint, FindLocked, GiveUp,
                UnlockPoint, Requeue, LockedAll, WritePoint
  <2> QED BY <2>1 DEF Counted, Finished
<1> QED BY <1>1, <1>2, <1>3

\* A route that is found leads between the ends of its request; a step of
\* another thread leaves it alone.
LEMMA EndsMeetNext ==
  ASSUME IInv, EndsMeet, NEW t \in Threads, router_solve(t)
  PROVE  EndsMeet'
<1> DEFINE Underway(u) ==
             pc[u] \in {"lock", "unlock", "write"}
               => path[u][1] = Destination[request[u]] /\ Last(path[u]) = Source[request[u]]
           Good(s) == /\ s[1] \in Ends /\ Last(s) \in Ends
                      /\ Middle(s) \cap (Walls \cup Ends) = {}
           Over(u) == \A k \in DOMAIN myPaths[u] : Good(myPaths[u][k])
<1>0. TypeOK /\ OffLimits /\ \A u \in Threads : Underway(u) /\ Over(u)
  BY DEF IInv, EndsMeet
<1>1. ASSUME NEW u \in Threads \ {t} PROVE Underway(u)' /\ Over(u)'
  <2>1. request'[u] = request[u]
    BY <1>0 DEF router_solve, Take, Leave, Publish, FindRoute, DropRequest, LockPoint,
                FindLocked, GiveUp, UnlockPoint, Requeue, LockedAll, WritePoint, Finish, Forget,
                locals, TypeOK
  <2>2. pc'[u] = pc[u] /\ path'[u] = path[u] /\ myPaths'[u] = myPaths[u]
    BY <1>0, OthersKeep
  <2> QED BY <1>0, <2>1, <2>2
<1>2. Underway(t)'
  <2>1. CASE FindRoute(t)
    <3>0. PICK mine \in Copies(t) :
            \E s \in Routes(request[t], mine) : path' = [path EXCEPT ![t] = s]
      BY <2>1 DEF FindRoute
    <3>1. PICK s \in Routes(request[t], mine) : path' = [path EXCEPT ![t] = s]
      BY <3>0
    <3>2. path'[t] = s /\ request' = request
      BY <1>0, <2>1, <3>1 DEF FindRoute, TypeOK
    <3> QED BY <3>1, <3>2 DEF Routes
  <2>2. CASE LockPoint(t) \/ FindLocked(t) \/ GiveUp(t) \/ UnlockPoint(t) \/ LockedAll(t)
             \/ WritePoint(t)
    <3>1. pc[t] \in {"lock", "unlock", "write"} /\ path' = path /\ request' = request
      BY <2>2 DEF LockPoint, FindLocked, GiveUp, UnlockPoint, LockedAll, WritePoint
    <3> QED BY <1>0, <3>1
  <2>3. CASE Take(t) \/ Leave(t) \/ Publish(t) \/ DropRequest(t) \/ Requeue(t) \/ Finish(t)
    <3>1. pc'[t] \notin {"lock", "unlock", "write"}
      BY <1>0, <2>3 DEF Take, Leave, Publish, DropRequest, Requeue, Finish, Forget, TypeOK
    <3> QED BY <3>1
  <2> QED BY <2>1, <2>2, <2>3 DEF router_solve
<1>3. Over(t)'
  <2>1. CASE Finish(t)
    <3>1. /\ pc[t] = "write" /\ request[t] \in Requests
          /\ myPaths[t] \in Seq(Trails) /\ path[t] \in Trails
          /\ myPaths'[t] = Append(myPaths[t], path[t])
      BY <1>0, <2>1, PathTyped DEF Finish, TypeOK
    <3>2. Good(path[t])
      <4>1. Destination[request[t]] \in Ends /\ Source[request[t]] \in Ends
        BY <3>1 DEF Ends
      <4> QED BY <1>0, <3>1, <4>1 DEF OffLimits
    <3>3. ASSUME NEW k \in DOMAIN myPaths'[t]
          PROVE  \/ k \in DOMAIN myPaths[t] /\ myPaths'[t][k] = myPaths[t][k]
                 \/ myPaths'[t][k] = path[t]
      BY <3>1
    <3> HIDE DEF Good
    <3>4. \A k \in DOMAIN myPaths'[t] : Good(myPaths'[t][k])
      BY <1>0, <3>2, <3>3
    <3> QED BY <3>4 DEF Good
  <2>2. CASE ~ Finish(t)
    <3>1. myPaths' = myPaths
      BY <2>2 DEF router_solve, Take, Leave, Publish, FindRoute, DropRequest, LockPoint,
                  FindLocked, GiveUp, UnlockPoint, Requeue, LockedAll, WritePoint
    <3> QED BY <1>0, <3>1
  <2> QED BY <2>1, <2>2
<1>4. \A u \in Threads : Underway(u)' /\ Over(u)'
  BY <1>1, <1>2, <1>3
<1> QED BY <1>4 DEF EndsMeet

\* The points of a route that a thread finishes are on none of those it has.
LEMMA OwnDisjointNext ==
  ASSUME IInv, OwnDisjoint, NEW t \in Threads, router_solve(t)
  PROVE  OwnDisjoint'
<1>1. CASE Finish(t)
  <2>1. /\ pc[t] = "write" /\ TypeOK
        /\ myPaths[t] \in Seq(Trails)
        /\ myPaths'[t] = Append(myPaths[t], path[t])
        /\ \A u \in Threads \ {t} : myPaths'[u] = myPaths[u]
    BY <1>1 DEF Finish, IInv, TypeOK
  <2>2. \A p \in Middle(path[t]) : p \notin Kept(t)
    <3>1. Locked(t) = 2 .. Len(path[t]) - 1
      BY <1>1, <2>1, FinishHeld
    <3> QED BY <3>1 DEF IInv, HeldPoints, Middle
  <2>3. ASSUME NEW k \in DOMAIN myPaths[t]
        PROVE  Middle(myPaths[t][k]) \cap Middle(path[t]) = {}
    BY <2>2 DEF Kept, ToSet
  <2>4. ASSUME NEW k \in DOMAIN myPaths'[t]
        PROVE  \/ k \in DOMAIN myPaths[t] /\ myPaths'[t][k] = myPaths[t][k]
               \/ k = Len(myPaths[t]) + 1 /\ myPaths'[t][k] = path[t]
    BY <2>1
  <2>5. ASSUME NEW j \in DOMAIN myPaths'[t], NEW k \in DOMAIN myPaths'[t], j # k
        PROVE  Middle(myPaths'[t][j]) \cap Middle(myPaths'[t][k]) = {}
    <3>1. \A x, y \in DOMAIN myPaths[t] :
            x # y => Middle(myPaths[t][x]) \cap Middle(myPaths[t][y]) = {}
      BY DEF OwnDisjoint
    <3>2. CASE j \in DOMAIN myPaths[t] /\ myPaths'[t][j] = myPaths[t][j]
      BY <2>3, <2>4, <2>5, <3>1, <3>2
    <3>3. CASE j = Len(myPaths[t]) + 1 /\ myPaths'[t][j] = path[t]
      <4>1. k \in DOMAIN myPaths[t] /\ myPaths'[t][k] = myPaths[t][k]
        BY <2>4, <2>5, <3>3
      <4> QED BY <2>3, <3>3, <4>1
    <3> QED BY <2>4, <3>2, <3>3
  <2>6. ASSUME NEW u \in Threads \ {t},
               NEW j \in DOMAIN myPaths'[u], NEW k \in DOMAIN myPaths'[u], j # k
        PROVE  Middle(myPaths'[u][j]) \cap Middle(myPaths'[u][k]) = {}
    BY <2>1, <2>6 DEF OwnDisjoint
  <2> QED BY <2>5, <2>6 DEF OwnDisjoint
<1>2. CASE ~ Finish(t)
  <2>1. myPaths' = myPaths
    BY <1>2 DEF router_solve, Take, Leave, Publish, FindRoute, DropRequest, LockPoint,
                FindLocked, GiveUp, UnlockPoint, Requeue, LockedAll, WritePoint
  <2> QED BY <2>1 DEF OwnDisjoint
<1> QED BY <1>1, <1>2

\* No thread leaves while a request is in the queue, and one that pushes a
\* request has not left.
LEMMA EmptiedNext ==
  ASSUME TypeOK, Emptied, NEW t \in Threads, router_solve(t)
  PROVE  Emptied'
<1>1. CASE Leave(t)
  BY <1>1 DEF Leave, Emptied
<1>2. CASE Publish(t)
  <2>1. /\ pc[t] = "publish" /\ workQueue' = workQueue
        /\ \A u \in Threads \ {t} : pc'[u] = pc[u]
    BY <1>2 DEF Publish, TypeOK
  <2> QED BY <2>1 DEF Emptied
<1>3. CASE ~ Leave(t) /\ ~ Publish(t)
  <2>1. pc'[t] \notin {"publish", "done"}
    BY <1>3 DEF router_solve, Take, FindRoute, DropRequest, LockPoint, FindLocked, GiveUp,
                UnlockPoint, Requeue, LockedAll, WritePoint, Finish, Forget, TypeOK
  <2> QED BY <2>1 DEF Emptied
<1> QED BY <1>1, <1>2, <1>3

\* A copy is taken of what is full, and nothing is ever emptied: a request that
\* cannot be routed in a copy cannot be routed in the grid, now or later.
LEMMA DroppedNext ==
  ASSUME TypeOK, OnlyFuller, DroppedForGood, NEW t \in Threads, router_solve(t)
  PROVE  OnlyFuller' /\ DroppedForGood'
<1>1. full \subseteq full'
  BY DEF router_solve, Take, Leave, Publish, FindRoute, DropRequest, LockPoint, FindLocked,
         GiveUp, UnlockPoint, Requeue, LockedAll, WritePoint, Finish
<1>2. \A r \in Requests : \A one, two : one \subseteq two => Routes(r, two) \subseteq Routes(r, one)
  BY DEF Routes
<1>3. OnlyFuller'
  <2>1. \A u \in Threads : before'[u] = before[u] \/ before'[u] = full \/ before'[u] = {}
    BY DEF router_solve, Take, Leave, Publish, FindRoute, DropRequest, LockPoint, FindLocked,
           GiveUp, UnlockPoint, Requeue, LockedAll, WritePoint, Finish, Forget, locals, TypeOK
  <2> QED BY <1>1, <2>1 DEF OnlyFuller
<1>4. CASE DropRequest(t)
  <2>1. PICK mine \in Copies(t) : Routes(request[t], mine) = {}
    BY <1>4 DEF DropRequest
  <2>2. mine \subseteq full
    BY <2>1 DEF Copies, OnlyFuller
  <2>3. request[t] \in Requests
    BY <1>4 DEF DropRequest, TypeOK
  <2>4. Routes(request[t], full') = {}
    BY <1>1, <1>2, <2>1, <2>2, <2>3
  <2>5. \A r \in Requests : r # request[t] => outcome'[r] = outcome[r]
    BY <1>4 DEF DropRequest, TypeOK
  <2>6. \A r \in Requests : outcome[r] = "dropped" => Routes(r, full') = {}
    BY <1>1, <1>2 DEF DroppedForGood
  <2>7. \A r \in Requests : outcome'[r] = "dropped" => Routes(r, full') = {}
    BY <2>4, <2>5, <2>6
  <2> QED BY <1>3, <2>7 DEF DroppedForGood, Routes
<1>5. CASE ~ DropRequest(t)
  <2>1. \A r \in Requests : outcome'[r] = "dropped" => outcome[r] = "dropped"
    BY <1>5 DEF router_solve, Take, Leave, Publish, FindRoute, LockPoint, FindLocked, GiveUp,
                UnlockPoint, Requeue, LockedAll, WritePoint, Finish, TypeOK
  <2>2. \A r \in Requests : outcome'[r] = "dropped" => Routes(r, full') = {}
    BY <1>1, <1>2, <2>1 DEF DroppedForGood
  <2> QED BY <1>3, <2>2 DEF DroppedForGood, Routes
<1> QED BY <1>4, <1>5

\* A thread returns as it hands in.
LEMMA HandedInNext ==
  ASSUME TypeOK, HandedIn, NEW t \in Threads, router_solve(t)
  PROVE  HandedIn'
<1>1. CASE Publish(t)
  BY <1>1 DEF Publish, HandedIn, TypeOK
<1>2. CASE ~ Publish(t)
  <2>1. pathVectorList' = pathVectorList /\ \A u \in Threads : pc'[u] = "done" => pc[u] = "done"
    BY <1>2 DEF router_solve, Take, Leave, FindRoute, DropRequest, LockPoint, FindLocked,
                GiveUp, UnlockPoint, Requeue, LockedAll, WritePoint, Finish, Forget, TypeOK
  <2> QED BY <2>1 DEF HandedIn
<1> QED BY <1>1, <1>2

\* When all threads have returned, no route is half written: what is full is a wall,
\* an end or a point of a route that was handed in.
LEMMA ResultIsFull ==
  ASSUME TypeOK, FullPoints, HandedIn, \A t \in Threads : pc[t] = "done"
  PROVE  full \subseteq Walls \cup Ends \cup Laid
<1> SUFFICES ASSUME NEW p \in full, p \notin Walls \cup Ends PROVE p \in Laid
  OBVIOUS
<1>1. PICK t \in Threads : p \in Kept(t) \cup Written(t)
  BY DEF FullPoints
<1>2. Written(t) = {}
  BY DEF Written
<1>3. PICK s \in ToSet(myPaths[t]) : p \in Middle(s)
  BY <1>1, <1>2 DEF Kept
<1>4. PICK k \in DOMAIN myPaths[t] : s = myPaths[t][k]
  BY DEF ToSet
<1>5. PICK x : x = <<t, k>>
  OBVIOUS
<1>6. x \in Routed /\ x[1] = t /\ x[2] = k
  BY <1>5 DEF Routed, HandedIn
<1> QED BY <1>3, <1>4, <1>6 DEF Laid

\* When all threads have returned, what they hand in passes every assertion.
LEMMA RoutesPass ==
  ASSUME IInv, JInv, Threads # {}, \A t \in Threads : pc[t] = "done"
  PROVE  /\ Cardinality(Routed) <= Cardinality(Requests)
         /\ maze_checkPaths
         /\ workQueue = <<>>
<1>1. TypeOK /\ Counted /\ EndsMeet /\ OwnDisjoint /\ Emptied
  BY DEF IInv, JInv
<1>2. Routed \subseteq Finished
  BY <1>1 DEF Routed, Finished, TypeOK
<1>3. Cardinality(Routed) <= Cardinality(Requests)
  <2> DEFINE routed == {r \in Requests : outcome[r] = "routed"}
  <2>1. IsFiniteSet(Finished) /\ Cardinality(Finished) = Cardinality(routed)
    BY <1>1 DEF Counted
  <2>2. IsFiniteSet(Routed) /\ Cardinality(Routed) <= Cardinality(Finished)
    BY <1>2, <2>1, FS_Subset
  <2>3. IsFiniteSet(routed) /\ Cardinality(routed) <= Cardinality(Requests)
    BY RequestsFinite, FS_Subset
  <2>4. /\ Cardinality(Routed) \in Nat /\ Cardinality(routed) \in Nat
        /\ Cardinality(Requests) \in Nat
    BY <2>2, <2>3, RequestsFinite, FS_CardinalityType
  <2> HIDE DEF routed
  <2> QED BY <2>1, <2>2, <2>3, <2>4
<1>4. ASSUME NEW x \in Routed
      PROVE  /\ x[1] \in Threads /\ x[2] \in DOMAIN myPaths[x[1]] /\ x = <<x[1], x[2]>>
             /\ myPaths[x[1]][x[2]] \in Trails
             /\ myPaths[x[1]][x[2]] \in Claimed(x[1])
  <2>0. PICK t \in Threads : x \in {<<t, k>> : k \in DOMAIN myPaths[t]}
    BY <1>1, <1>4 DEF Routed, TypeOK
  <2>1. PICK k \in DOMAIN myPaths[t] : x = <<t, k>>
    BY <2>0
  <2>2. myPaths[t] \in Seq(Trails)
    BY <1>1 DEF TypeOK
  <2>3. myPaths[t][k] \in Trails
    BY <2>1, <2>2
  <2> QED BY <2>1, <2>3 DEF Claimed, ToSet
<1>5. ASSUME NEW x \in Routed
      PROVE  LET s == myPaths[x[1]][x[2]] IN
             /\ s[1] \in Ends /\ Last(s) \in Ends
             /\ \A k \in 2 .. Len(s) - 1 :
                  <<s[k - 1], s[k]>> \in Links /\ s[k] \notin Walls \cup Ends
             /\ \A k, l \in 2 .. Len(s) - 1 : s[k] = s[l] => k = l
  <2> DEFINE s == myPaths[x[1]][x[2]]
  <2>1. s \in Trails
    BY <1>4
  <2>2. s[1] \in Ends /\ Last(s) \in Ends /\ Middle(s) \cap (Walls \cup Ends) = {}
    BY <1>1, <1>4 DEF EndsMeet
  <2> HIDE DEF s
  <2>3. /\ s \in Seq(Points) /\ Len(s) \in Nat /\ DOMAIN s = 1 .. Len(s)
        /\ IsInjective(s)
        /\ \A k \in 1 .. Len(s) - 1 : <<s[k], s[k + 1]>> \in Links
    BY <2>1, TrailsAssumption
  <2>4. ASSUME NEW k \in 2 .. Len(s) - 1
        PROVE  <<s[k - 1], s[k]>> \in Links /\ s[k] \notin Walls \cup Ends
    <3>1. k - 1 \in 1 .. Len(s) - 1 /\ (k - 1) + 1 = k
      BY <2>3
    <3>2. <<s[k - 1], s[(k - 1) + 1]>> \in Links
      BY <2>3, <3>1
    <3>3. s[k] \in Middle(s)
      BY DEF Middle
    <3> QED BY <2>2, <3>1, <3>2, <3>3
  <2>5. \A k, l \in 2 .. Len(s) - 1 : s[k] = s[l] => k = l
    BY <2>3 DEF IsInjective
  <2> QED BY <2>2, <2>4, <2>5 DEF s
<1>6. ASSUME NEW x \in Routed, NEW y \in Routed, x # y
      PROVE  Middle(myPaths[x[1]][x[2]]) \cap Middle(myPaths[y[1]][y[2]]) = {}
  <2>1. CASE x[1] = y[1]
    <3>1. x[2] # y[2]
      BY <1>4, <1>6, <2>1
    <3> QED BY <1>1, <1>4, <2>1, <3>1 DEF OwnDisjoint
  <2>2. CASE x[1] # y[1]
    <3>1. ASSUME NEW p \in Middle(myPaths[x[1]][x[2]]), p \in Middle(myPaths[y[1]][y[2]])
          PROVE  FALSE
      <4>1. holder[p] = x[1]
        BY <1>4, ClaimedHeld
      <4>2. holder[p] = y[1]
        BY <1>4, <3>1, ClaimedHeld
      <4> QED BY <2>2, <4>1, <4>2
    <3> QED BY <3>1
  <2> QED BY <2>1, <2>2
<1>7. workQueue = <<>>
  BY <1>1 DEF Emptied
<1> QED BY <1>3, <1>5, <1>6, <1>7 DEF maze_checkPaths

LEMMA JInvNext == IInv /\ JInv /\ [Next]_vars => JInv'
<1> SUFFICES ASSUME IInv, JInv, [Next]_vars PROVE JInv'
  OBVIOUS
<1>1. TypeOK
  BY DEF IInv
<1>2. ASSUME NEW t \in Threads, router_solve(t) PROVE JInv'
  <2>1. verdict' = verdict
    BY <1>2 DEF router_solve, Take, Leave, Publish, FindRoute, DropRequest, LockPoint,
                FindLocked, GiveUp, UnlockPoint, Requeue, LockedAll, WritePoint, Finish
  <2>2. Passed'
    BY <2>1 DEF JInv, Passed, VerificationPasses
  <2>3. Jobs' /\ Counted'
    BY <1>1, <1>2, JobsNext, CountedNext DEF JInv
  <2>4. EndsMeet' /\ OwnDisjoint'
    BY <1>2, EndsMeetNext, OwnDisjointNext DEF JInv
  <2>5. Emptied' /\ OnlyFuller' /\ DroppedForGood' /\ HandedIn'
    BY <1>1, <1>2, EmptiedNext, DroppedNext, HandedInNext DEF JInv
  <2> QED BY <2>2, <2>3, <2>4, <2>5 DEF JInv
<1>3. CASE Verify \/ UNCHANGED vars
  <2>1. UNCHANGED <<full, workQueue, pc, request, before, path, myPaths, pathVectorList, outcome>>
    BY <1>3 DEF Verify, vars, locals
  <2>2. Jobs'
    BY <2>1 DEF JInv, Jobs, Waiting
  <2>3. EndsMeet' /\ OwnDisjoint'
    BY <2>1 DEF JInv, EndsMeet, OwnDisjoint
  <2>4. Emptied' /\ OnlyFuller'
    BY <2>1 DEF JInv, Emptied, OnlyFuller
  <2>5. DroppedForGood' /\ HandedIn'
    BY <2>1 DEF JInv, DroppedForGood, HandedIn, Routes
  <2>6. Counted'
    BY <2>1 DEF JInv, Counted, Finished
  <2>7. Passed'
    <3>1. CASE Verify
      BY <3>1, RoutesPass DEF Verify, Passed, VerificationPasses
    <3>2. CASE UNCHANGED vars
      BY <3>2 DEF vars, JInv, Passed, VerificationPasses
    <3> QED BY <1>3, <3>1, <3>2
  <2> QED BY <2>2, <2>3, <2>4, <2>5, <2>6, <2>7 DEF JInv
<1> QED BY <1>2, <1>3 DEF Next, Terminated

\* The requests and the routes add up throughout.
THEOREM Accounts == Spec => [](IInv /\ JInv)
<1>1. Init => IInv /\ JInv
  BY IInvInit, JInvInit
<1>2. (IInv /\ JInv) /\ [Next]_vars => (IInv /\ JInv)'
  BY IInvNext, JInvNext
<1> QED BY <1>1, <1>2, PTL DEF Spec

\* The assertions at the end of main never fail, whatever the order in which the
\* threads took, gave back and requeued, if there was a thread.
THEOREM AssertionsHold ==
  ASSUME Threads # {}
  PROVE  Spec => []VerificationPasses
<1>1. JInv => VerificationPasses
  BY DEF JInv, Passed
<1> QED BY <1>1, Accounts, PTL

\* No request is lost, and none is worked on twice.
THEOREM RequestsAreKept == Spec => []NothingLost
<1>1. IInv /\ JInv => NothingLost
  BY JobsNothingLost DEF IInv, JInv
<1> QED BY <1>1, Accounts, PTL

\* When the threads have returned, what they hand in leaves no room for any request
\* that was given up, however stale or torn the copy and whoever's half-written route
\* was in it.
THEOREM ResultIsMaximal == Spec => []NothingRoutableLeft
<1>1. IInv /\ JInv => NothingRoutableLeft
  <2> SUFFICES ASSUME IInv, JInv, \A t \in Threads : pc[t] = "done",
                      NEW r \in Requests, outcome[r] = "dropped"
               PROVE  Routes(r, Walls \cup Ends \cup Laid) = {}
    BY DEF NothingRoutableLeft
  <2>1. full \subseteq Walls \cup Ends \cup Laid
    BY ResultIsFull DEF IInv, JInv
  <2>2. Routes(r, full) = {}
    BY DEF JInv, DroppedForGood
  <2> QED BY <2>1, <2>2 DEF Routes
<1> QED BY <1>1, Accounts, PTL
===============================================================================
