---------------------------- MODULE AdvShellProofs ----------------------------
(***************************************************************************)
(* Proofs about the shell, for any number of children, any limit and any   *)
(* number of forks that fail.                                              *)
(***************************************************************************)
EXTENDS AdvShell, FiniteSetTheorems, TLAPS

-------------------------------------------------------------------------------
(***************************************************************************)
(* Types.                                                                  *)
(***************************************************************************)
LEMMA TypeInit == Init => TypeOK
<1> SUFFICES ASSUME Init PROVE TypeOK
  OBVIOUS
<1>1. \A c \in Children : status[c] = "none" /\ process[c] = "none"
  BY DEF Init
<1>2. \A c \in Children : status[c] = "none" <=> process[c] \in {"none", "running"}
  BY <1>1
<1>3. status \in [Children -> {"none", "OK", "NOK"}]
      /\ process \in [Children -> {"none", "running", "zombie", "gone"}]
      /\ pinfoList \in [Children -> {"absent", "-1", "OK", "NOK"}]
  BY DEF Init
<1>4. /\ pc = "select" /\ command = "none" /\ errno = "none"
      /\ pid \in Children \cup {Failed} /\ register \in Int /\ children \in Int
      /\ forkFailures \in Nat
  BY DEF Init
<1>5. handling \in BOOLEAN /\ pending \in BOOLEAN
  BY DEF Init
<1> QED BY <1>2, <1>3, <1>4, <1>5 DEF TypeOK

LEMMA TypeNext == TypeOK /\ [Next]_vars => TypeOK'
<1> SUFFICES ASSUME TypeOK, [Next]_vars PROVE TypeOK'
  OBVIOUS
<1> USE DEF TypeOK, Goto, shared, signal, kernel
<1>1. CASE ReadRun
  BY <1>1 DEF ReadRun
<1>2. CASE ReadExit
  BY <1>2 DEF ReadExit
<1>3. CASE SetErrno
  BY <1>3 DEF SetErrno
<1>4. CASE CheckErrno
  BY <1>4 DEF CheckErrno
<1>5. CASE DecideToWait
  BY <1>5 DEF DecideToWait
<1>6. CASE Pause
  BY <1>6 DEF Pause
<1>7. CASE Proceed
  BY <1>7 DEF Proceed
<1>8. CASE Fork
  BY <1>8 DEF Fork
<1>9. CASE FailToFork
  BY <1>9 DEF FailToFork
<1>10. CASE LoadChildren
  BY <1>10 DEF LoadChildren
<1>11. CASE StoreChildren
  BY <1>11 DEF StoreChildren
<1>12. CASE Insert
  BY <1>12 DEF Insert
<1>13. CASE Deliver
  BY <1>13 DEF Deliver
<1>14. ASSUME NEW c \in Children, Reap(c) PROVE TypeOK'
  <2>1. status[c] \in {"OK", "NOK"}
    BY <1>14 DEF Reap
  <2> QED BY <1>14, <2>1 DEF Reap
<1>15. CASE FinishHandler
  BY <1>15 DEF FinishHandler
<1>16. ASSUME NEW c \in Children, End(c) PROVE TypeOK'
  BY <1>16 DEF End
<1>17. CASE UNCHANGED vars
  BY <1>17 DEF vars
<1> QED
  BY <1>1, <1>2, <1>3, <1>4, <1>5, <1>6, <1>7, <1>8, <1>9, <1>10, <1>11, <1>12, <1>13,
     <1>14, <1>15, <1>16, <1>17 DEF Next, main, sigchildHandler

\* Every variable has its type in every state.
THEOREM TypeCorrect == Spec => []TypeOK
<1> QED BY TypeInit, TypeNext, PTL DEF Spec

-------------------------------------------------------------------------------
(***************************************************************************)
(* The count.  It may be too high, when the handler runs between the load  *)
(* and the store of children++ or when a fork failed; it is too low only   *)
(* by the child that is being counted.                                     *)
(***************************************************************************)

\* The child that was started and is not counted yet.
Uncounted == IF pc \in {"load", "store"} /\ pid # Failed THEN 1 ELSE 0

HighEnough == Cardinality(Unreaped) <= children + Uncounted

\* What children++ has read is still no lower than the count.
ReadHighEnough == pc = "store" => register >= children

\* The loop goes on to fork only below the limit, and nothing but itself raises
\* the count.
RoomForOne == pc = "fork" /\ MaxChildren # 0 => children < MaxChildren

\* errno is not EINTR only if the handler found that there are no children.
NoChildren == pc = "check" /\ errno # "EINTR" => Unreaped = {}

IInv ==
  TypeOK /\ HighEnough /\ ReadHighEnough /\ RoomForOne /\ NoChildren /\ LimitKept
  /\ NobodyLeft

\* Sets of children are finite.
LEMMA UnreapedFinite == IsFiniteSet(Unreaped) /\ Cardinality(Unreaped) \in Nat
  BY ChildrenAssumption, FS_Subset, FS_CardinalityType DEF Unreaped

LEMMA InitIInv == Init => IInv
<1> SUFFICES ASSUME Init PROVE IInv
  OBVIOUS
<1>1. Unreaped = {}
  BY DEF Init, Unreaped
<1>2. Cardinality(Unreaped) = 0
  BY <1>1, FS_EmptySet
<1> QED
  BY <1>1, <1>2, TypeInit, MaxChildrenAssumption
  DEF Init, IInv, HighEnough, Uncounted, ReadHighEnough, RoomForOne, NoChildren,
      LimitKept, NobodyLeft

\* A step of the loop that starts no child and does not touch the count.
LEMMA QuietStep ==
  ASSUME IInv, TypeOK', UNCHANGED <<children, process, pid, handling>>,
         pc' \notin {"load", "store", "done", "failed"},
         pc \notin {"load", "store", "done", "failed"},
         pc' = "fork" => MaxChildren = 0 \/ children < MaxChildren,
         pc' = "check" => errno' = "EINTR"
  PROVE  IInv'
<1>1. Unreaped' = Unreaped
  BY DEF Unreaped
<1> QED
  BY <1>1
  DEF IInv, HighEnough, Uncounted, ReadHighEnough, RoomForOne, NoChildren, LimitKept,
      NobodyLeft

LEMMA NextIInv == IInv /\ [Next]_vars => IInv'
<1> SUFFICES ASSUME IInv, [Next]_vars PROVE IInv'
  OBVIOUS
<1>0. TypeOK /\ TypeOK'
  BY TypeNext DEF IInv
<1> USE DEF Goto, shared, signal, kernel
<1>1. CASE ReadRun \/ ReadExit \/ SetErrno \/ DecideToWait \/ Pause
  BY <1>0, <1>1, QuietStep DEF ReadRun, ReadExit, SetErrno, DecideToWait, Pause
<1>2. CASE Insert
  BY <1>0, <1>2, QuietStep DEF Insert
<1>3. CASE CheckErrno
  <2>1. Unreaped' = Unreaped
    BY <1>3 DEF CheckErrno, Unreaped
  <2> QED
    BY <1>0, <1>3, <2>1
    DEF CheckErrno, IInv, HighEnough, Uncounted, ReadHighEnough, RoomForOne, NoChildren,
        LimitKept, NobodyLeft
<1>4. CASE Proceed
  <2>1. Unreaped' = Unreaped
    BY <1>4 DEF Proceed, Unreaped
  <2>2. CASE command = "run"
    <3>1. MaxChildren = 0 \/ children < MaxChildren
      BY <1>0, <1>4, <2>2, MaxChildrenAssumption DEF Proceed, TooMany, TypeOK
    <3> QED BY <1>0, <1>4, <2>2, <3>1, QuietStep DEF Proceed
  <2>3. CASE command # "run"
    <3>1. children = 0 /\ pc = "test" /\ pc' = "done" /\ ~ handling
          /\ UNCHANGED <<children, pid, handling>>
      BY <1>4, <2>3 DEF Proceed, TooMany
    <3>2. Cardinality(Unreaped) = 0
      BY <3>1, UnreapedFinite DEF IInv, HighEnough, Uncounted
    <3>3. Unreaped = {}
      BY <3>2, UnreapedFinite, FS_EmptySet
    <3> QED
      BY <1>0, <2>1, <3>1, <3>2, <3>3, MaxChildrenAssumption
      DEF IInv, HighEnough, Uncounted, ReadHighEnough, RoomForOne, NoChildren, LimitKept,
          NobodyLeft
  <2> QED BY <2>2, <2>3
<1>5. CASE Fork
  <2>1. PICK c \in Children :
          process[c] = "none" /\ process' = [process EXCEPT ![c] = "running"] /\ pid' = c
    BY <1>5 DEF Fork
  <2>2. c \notin Unreaped /\ Unreaped' = Unreaped \cup {c}
    BY <1>0, <2>1 DEF Unreaped, TypeOK
  <2>3. Cardinality(Unreaped') = Cardinality(Unreaped) + 1
    BY <2>2, UnreapedFinite, FS_AddElement
  <2>4. pc = "fork" /\ pc' = "load" /\ children' = children /\ pid' # Failed
    BY <1>5, <2>1, ChildrenAssumption DEF Fork
  <2>5. Cardinality(Unreaped) <= children
    BY <2>4, <1>0, UnreapedFinite DEF IInv, HighEnough, Uncounted, TypeOK
  <2>6. HighEnough' /\ LimitKept'
    BY <1>0, <2>3, <2>4, <2>5, UnreapedFinite, MaxChildrenAssumption
    DEF HighEnough, Uncounted, LimitKept, IInv, RoomForOne, TypeOK
  <2> QED
    BY <1>0, <2>4, <2>6 DEF IInv, ReadHighEnough, RoomForOne, NoChildren, NobodyLeft
<1>6. CASE FailToFork \/ LoadChildren \/ StoreChildren
  <2>1. Unreaped' = Unreaped
    BY <1>6 DEF FailToFork, LoadChildren, StoreChildren, Unreaped
  <2>2. HighEnough'
    BY <1>0, <1>6, <2>1, UnreapedFinite
    DEF FailToFork, LoadChildren, StoreChildren, IInv, HighEnough, Uncounted,
        ReadHighEnough, TypeOK
  <2>3. ReadHighEnough' /\ RoomForOne' /\ NoChildren' /\ NobodyLeft'
    BY <1>0, <1>6
    DEF FailToFork, LoadChildren, StoreChildren, ReadHighEnough, RoomForOne, NoChildren,
        NobodyLeft, TypeOK
  <2> QED BY <1>0, <2>1, <2>2, <2>3 DEF IInv, LimitKept
<1>7. CASE Deliver
  <2>1. Unreaped' = Unreaped
    BY <1>7 DEF Deliver, Unreaped
  <2> QED
    BY <1>0, <1>7, <2>1
    DEF Deliver, IInv, HighEnough, Uncounted, ReadHighEnough, RoomForOne, NoChildren,
        LimitKept, NobodyLeft
<1>8. ASSUME NEW c \in Children, Reap(c) PROVE IInv'
  <2>1. c \in Unreaped /\ Unreaped' = Unreaped \ {c}
    BY <1>0, <1>8 DEF Reap, Unreaped, TypeOK
  <2>2. Cardinality(Unreaped') = Cardinality(Unreaped) - 1
    BY <2>1, UnreapedFinite, FS_RemoveElement
  <2>3. children' = children - 1 /\ UNCHANGED <<pc, pid, register, errno, handling>>
    BY <1>8 DEF Reap
  <2>4. HighEnough' /\ LimitKept'
    BY <1>0, <2>2, <2>3, UnreapedFinite, MaxChildrenAssumption
    DEF HighEnough, Uncounted, LimitKept, IInv, TypeOK
  <2>5. ReadHighEnough' /\ RoomForOne'
    BY <1>0, <2>3, MaxChildrenAssumption DEF IInv, ReadHighEnough, RoomForOne, TypeOK
  <2>6. NoChildren' /\ NobodyLeft'
    BY <2>1, <2>3 DEF IInv, NoChildren, NobodyLeft
  <2> QED BY <1>0, <2>4, <2>5, <2>6 DEF IInv
<1>9. CASE FinishHandler
  <2>1. Unreaped' = Unreaped
    BY <1>9 DEF FinishHandler, Unreaped
  <2>2. errno' # errno => Unreaped = {}
    BY <1>9 DEF FinishHandler, Unreaped
  <2>3. /\ handling /\ UNCHANGED <<children, pid, register>>
        /\ pc' \in {pc, "test", "interrupted"}
        /\ pc' # pc => pc \in {"asleep", "select"}
    BY <1>9 DEF FinishHandler
  <2>4. pc \notin {"done", "failed"}
    BY <2>3 DEF IInv, NobodyLeft
  <2> QED
    BY <1>0, <2>1, <2>2, <2>3, <2>4
    DEF IInv, HighEnough, Uncounted, ReadHighEnough, RoomForOne, NoChildren, LimitKept,
        NobodyLeft
<1>10. ASSUME NEW c \in Children, End(c) PROVE IInv'
  <2>1. Unreaped' = Unreaped
    BY <1>0, <1>10 DEF End, Unreaped, TypeOK
  <2> QED
    BY <1>0, <1>10, <2>1
    DEF End, IInv, HighEnough, Uncounted, ReadHighEnough, RoomForOne, NoChildren,
        LimitKept, NobodyLeft
<1>11. CASE UNCHANGED vars
  <2>1. Unreaped' = Unreaped
    BY <1>11 DEF vars, Unreaped
  <2> QED
    BY <1>0, <1>11, <2>1
    DEF vars, IInv, HighEnough, Uncounted, ReadHighEnough, RoomForOne, NoChildren,
        LimitKept, NobodyLeft
<1> QED
  BY <1>1, <1>2, <1>3, <1>4, <1>5, <1>6, <1>7, <1>8, <1>9, <1>10, <1>11
  DEF Next, main, sigchildHandler

\* IInv holds in every state of every behaviour.
THEOREM Invariance == Spec => []IInv
<1> QED BY InitIInv, NextIInv, PTL DEF Spec

\* Whenever the handler runs: no more children than the limit.
THEOREM LimitIsKept == Spec => []LimitKept
<1>1. IInv => LimitKept
  BY DEF IInv
<1> QED BY <1>1, Invariance, PTL

\* However many updates of the count are lost: when the shell ends, all its
\* children have ended and been reaped.
THEOREM LeavesNobody == Spec => []NobodyLeft
<1>1. IInv => NobodyLeft
  BY DEF IInv
<1> QED BY <1>1, Invariance, PTL

-------------------------------------------------------------------------------
(***************************************************************************)
(* The list.                                                               *)
(***************************************************************************)

\* A child that has an entry that says OK was reaped and ended so; one that has
\* none was not started, or is the one that the loop is about to insert.
Entries ==
  \A c \in Children :
    /\ pinfoList[c] = "OK" => status[c] = "OK" /\ process[c] = "gone"
    /\ pinfoList[c] = "absent" /\ process[c] # "none"
         => pid = c /\ pc \in {"load", "store", "insert"}

LEMMA EntriesNext == TypeOK /\ Entries /\ [Next]_vars => Entries'
<1> SUFFICES ASSUME TypeOK, Entries, [Next]_vars, NEW d \in Children
             PROVE  /\ pinfoList'[d] = "OK" => status'[d] = "OK" /\ process'[d] = "gone"
                    /\ pinfoList'[d] = "absent" /\ process'[d] # "none"
                         => pid' = d /\ pc' \in {"load", "store", "insert"}
  BY DEF Entries
<1> USE DEF Goto, shared, signal, kernel
<1>1. CASE ReadRun \/ ReadExit \/ SetErrno \/ CheckErrno \/ DecideToWait \/ Pause
           \/ Proceed
  BY <1>1 DEF ReadRun, ReadExit, SetErrno, CheckErrno, DecideToWait, Pause, Proceed, Entries
<1>2. CASE Fork
  BY <1>2 DEF Fork, Entries, TypeOK
<1>3. CASE FailToFork \/ LoadChildren \/ StoreChildren
  BY <1>3 DEF FailToFork, LoadChildren, StoreChildren, Entries
<1>4. CASE Insert
  BY <1>4 DEF Insert, Entries, TypeOK
<1>5. CASE Deliver \/ FinishHandler
  BY <1>5 DEF Deliver, FinishHandler, Entries
<1>6. ASSUME NEW c \in Children, Reap(c)
      PROVE  /\ pinfoList'[d] = "OK" => status'[d] = "OK" /\ process'[d] = "gone"
             /\ pinfoList'[d] = "absent" /\ process'[d] # "none"
                  => pid' = d /\ pc' \in {"load", "store", "insert"}
  <2>1. status[c] # "none"
    BY <1>6 DEF Reap, TypeOK
  <2>2. CASE d = c
    BY <1>6, <2>1, <2>2 DEF Reap, Entries, TypeOK
  <2>3. CASE d # c
    BY <1>6, <2>3 DEF Reap, Entries, TypeOK
  <2> QED BY <2>2, <2>3
<1>7. ASSUME NEW c \in Children, End(c)
      PROVE  /\ pinfoList'[d] = "OK" => status'[d] = "OK" /\ process'[d] = "gone"
             /\ pinfoList'[d] = "absent" /\ process'[d] # "none"
                  => pid' = d /\ pc' \in {"load", "store", "insert"}
  BY <1>7 DEF End, Entries, TypeOK
<1>8. CASE UNCHANGED vars
  BY <1>8 DEF vars, Entries
<1> QED
  BY <1>1, <1>2, <1>3, <1>4, <1>5, <1>6, <1>7, <1>8 DEF Next, main, sigchildHandler

\* exit lists every child, and calls OK none that did not end so, although the
\* handler may look for an entry before it is there.
THEOREM ListsTheTruth == Spec => []ListIsTrue
<1>1. Init => Entries
  BY DEF Init, Entries
<1>2. Entries => ListIsTrue
  BY DEF Entries, ListIsTrue
<1> QED BY <1>1, <1>2, EntriesNext, TypeCorrect, PTL DEF Spec
===============================================================================
