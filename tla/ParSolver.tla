------------------------------ MODULE ParSolver ------------------------------
(***************************************************************************)
(* CircuitRouter-ParSolver (SO-1819): threads take requests from a work    *)
(* queue, find each a route in a private copy of the grid (Router) and     *)
(* claim its points one by one with pthread_mutex_trylock.  A thread that  *)
(* gets them all marks them in the shared grid and never unlocks them; one *)
(* that does not gives back what it got and requeues the request.          *)
(*                                                                         *)
(* The grid is copied and written without a lock.  Points only ever go     *)
(* from free to full, so a copy holds some set between the points that     *)
(* were full when the copying began and those that were when it ended.     *)
(*                                                                         *)
(* Router finds a route whenever there is one, and it is a trail; here any *)
(* trail will do.  Costs are positive, as they are by default.             *)
(***************************************************************************)
EXTENDS Integers, Sequences, FiniteSets, SequencesExt

CONSTANTS
  Threads,              \* as many as the command line's -t
  Points,               \* of the grid
  Links,                \* the pairs of adjacent points
  Walls,                \* the points of the input file's w lines
  Requests,             \* the input file's p lines
  Source, Destination,  \* the ends of each request
  WorkList,             \* the requests in the order maze_read queues them
  Trails,               \* all sequences of points that may be routes
  Nobody,               \* the holder of a lock that is free
  NoRequest             \* what a thread without a request works on

ASSUME WallsAssumption == Walls \subseteq Points

\* maze_read refuses a request from a point to itself.
ASSUME EndsAssumption ==
  /\ Source \in [Requests -> Points] /\ Destination \in [Requests -> Points]
  /\ \A r \in Requests : Source[r] # Destination[r]

ASSUME WorkListAssumption ==
  WorkList \in Seq(Requests) /\ IsInjective(WorkList) /\ ToSet(WorkList) = Requests

\* What RouteIsTrail says of the routes that Router finds.
ASSUME TrailsAssumption ==
  \A s \in Trails :
    /\ s \in Seq(Points) /\ Len(s) >= 2 /\ IsInjective(s)
    /\ \A k \in 1 .. Len(s) - 1 : <<s[k], s[k + 1]>> \in Links

ASSUME NobodyAssumption == Nobody \notin Threads /\ NoRequest \notin Requests

Ends == {Source[r] : r \in Requests} \cup {Destination[r] : r \in Requests}

\* The points that tryToLock locks and grid_addPath_Ptr marks: those between
\* the ends of a route.
Middle(s) == {s[k] : k \in 2 .. Len(s) - 1}

VARIABLES
  full,            \* the points of the shared grid that are full
  workQueue,       \* requests that wait for a thread
  holder,          \* who holds the lock of each point
  pc,              \* per thread: where it is
  request,         \* per thread: coordinatePairPtr
  before,          \* per thread: the points that were full when it started to copy
  path,            \* per thread: pointVectorPtr, from the destination
  at,              \* per thread: the position on the route its loop is at
  attempts,        \* per thread: how often it found a lock of this route taken
  myPaths,         \* per thread: myPathVectorPtr
  pathVectorList,  \* the threads whose routes main can see
  outcome,         \* history: what became of each request
  verdict          \* what main has found out about the routes

locals == <<request, before, path, at, attempts>>
vars   == <<full, workQueue, holder, pc, locals, myPaths, pathVectorList, outcome,
            verdict>>

Init ==
  /\ full = Walls \cup Ends
  /\ workQueue = WorkList
  /\ holder = [p \in Points |-> Nobody]
  /\ pc = [t \in Threads |-> "idle"]
  /\ request = [t \in Threads |-> NoRequest]
  /\ before = [t \in Threads |-> {}]
  /\ path = [t \in Threads |-> <<>>]
  /\ at = [t \in Threads |-> 1]
  /\ attempts = [t \in Threads |-> 0]
  /\ myPaths = [t \in Threads |-> <<>>]
  /\ pathVectorList = {}
  /\ outcome = [r \in Requests |-> "open"]
  /\ verdict = "none"

\* A thread at the end of an iteration: the locals are declared anew in the next.
Forget(t) ==
  /\ pc' = [pc EXCEPT ![t] = "idle"]
  /\ request' = [request EXCEPT ![t] = NoRequest]
  /\ before' = [before EXCEPT ![t] = {}]
  /\ path' = [path EXCEPT ![t] = <<>>]
  /\ at' = [at EXCEPT ![t] = 1]
  /\ attempts' = [attempts EXCEPT ![t] = 0]

(***************************************************************************)
(* The work queue.                                                         *)
(***************************************************************************)
\* queue_pop under workQueueLock; then grid_copy begins.
Take(t) ==
  /\ pc[t] = "idle" /\ workQueue # <<>>
  /\ request' = [request EXCEPT ![t] = Head(workQueue)]
  /\ workQueue' = Tail(workQueue)
  /\ before' = [before EXCEPT ![t] = full]
  /\ pc' = [pc EXCEPT ![t] = "route"]
  /\ UNCHANGED <<full, holder, path, at, attempts, myPaths, pathVectorList,
                 outcome, verdict>>

\* The queue is empty, though another thread may still requeue what it has.
Leave(t) ==
  /\ pc[t] = "idle" /\ workQueue = <<>>
  /\ pc' = [pc EXCEPT ![t] = "publish"]
  /\ UNCHANGED <<full, workQueue, holder, locals, myPaths, pathVectorList, outcome,
                 verdict>>

\* list_insert under pathVectorListLock; the thread returns.
Publish(t) ==
  /\ pc[t] = "publish"
  /\ pathVectorList' = pathVectorList \cup {t}
  /\ pc' = [pc EXCEPT ![t] = "done"]
  /\ UNCHANGED <<full, workQueue, holder, locals, myPaths, outcome, verdict>>

(***************************************************************************)
(* grid_copy, doExpansion and doTraceback.                                 *)
(***************************************************************************)
Copies(t) == {before[t] \cup new : new \in SUBSET (full \ before[t])}

Routes(r, mine) ==
  {s \in Trails :
     s[1] = Destination[r] /\ Last(s) = Source[r] /\ Middle(s) \cap mine = {}}

FindRoute(t) ==
  /\ pc[t] = "route"
  /\ \E mine \in Copies(t) : \E s \in Routes(request[t], mine) :
       path' = [path EXCEPT ![t] = s]
  /\ at' = [at EXCEPT ![t] = 2]
  /\ pc' = [pc EXCEPT ![t] = "lock"]
  /\ UNCHANGED <<full, workQueue, holder, request, before, attempts, myPaths,
                 pathVectorList, outcome, verdict>>

DropRequest(t) ==
  /\ pc[t] = "route"
  /\ \E mine \in Copies(t) : Routes(request[t], mine) = {}
  /\ outcome' = [outcome EXCEPT ![request[t]] = "dropped"]
  /\ Forget(t)
  /\ UNCHANGED <<full, workQueue, holder, myPaths, pathVectorList, verdict>>

(***************************************************************************)
(* tryToLock.  All failures on the way count together.                     *)
(***************************************************************************)
MaxAttempts == 3

Here(t) == path[t][at[t]]

LockPoint(t) ==
  /\ pc[t] = "lock" /\ at[t] < Len(path[t])
  /\ holder[Here(t)] = Nobody
  /\ holder' = [holder EXCEPT ![Here(t)] = t]
  /\ at' = [at EXCEPT ![t] = @ + 1]
  /\ UNCHANGED <<full, workQueue, pc, request, before, path, attempts, myPaths,
                 pathVectorList, outcome, verdict>>

FindLocked(t) ==
  /\ pc[t] = "lock" /\ at[t] < Len(path[t])
  /\ holder[Here(t)] # Nobody
  /\ attempts[t] < MaxAttempts
  /\ attempts' = [attempts EXCEPT ![t] = @ + 1]
  /\ UNCHANGED <<full, workQueue, holder, pc, request, before, path, at, myPaths,
                 pathVectorList, outcome, verdict>>

\* Mutant: the lock that it did not get is released as well.
GiveUpUnlockingIt(t) ==
  /\ pc[t] = "lock" /\ at[t] < Len(path[t])
  /\ holder[Here(t)] # Nobody
  /\ attempts[t] = MaxAttempts
  /\ pc' = [pc EXCEPT ![t] = "unlock"]
  /\ UNCHANGED <<full, workQueue, holder, request, before, path, at, attempts,
                 myPaths, pathVectorList, outcome, verdict>>

GiveUp(t) ==
  /\ pc[t] = "lock" /\ at[t] < Len(path[t])
  /\ holder[Here(t)] # Nobody
  /\ attempts[t] = MaxAttempts
  /\ at' = [at EXCEPT ![t] = @ - 1]
  /\ pc' = [pc EXCEPT ![t] = "unlock"]
  /\ UNCHANGED <<full, workQueue, holder, request, before, path, attempts, myPaths,
                 pathVectorList, outcome, verdict>>

UnlockPoint(t) ==
  /\ pc[t] = "unlock" /\ at[t] > 1
  /\ holder' = [holder EXCEPT ![Here(t)] = Nobody]
  /\ at' = [at EXCEPT ![t] = @ - 1]
  /\ UNCHANGED <<full, workQueue, pc, request, before, path, attempts, myPaths,
                 pathVectorList, outcome, verdict>>

\* Mutant: the request is dropped.
RequeueDropping(t) ==
  /\ pc[t] = "unlock" /\ at[t] = 1
  /\ outcome' = [outcome EXCEPT ![request[t]] = "dropped"]
  /\ Forget(t)
  /\ UNCHANGED <<full, workQueue, holder, myPaths, pathVectorList, verdict>>

\* Mutant: the request is not pushed.
RequeueForgotten(t) ==
  /\ pc[t] = "unlock" /\ at[t] = 1
  /\ Forget(t)
  /\ UNCHANGED <<full, workQueue, holder, myPaths, pathVectorList, outcome, verdict>>

\* queue_push under workQueueLock.
Requeue(t) ==
  /\ pc[t] = "unlock" /\ at[t] = 1
  /\ workQueue' = Append(workQueue, request[t])
  /\ Forget(t)
  /\ UNCHANGED <<full, holder, myPaths, pathVectorList, outcome, verdict>>

\* Mutant: the first point of the middle is not written.
LockedAllOffByOne(t) ==
  /\ pc[t] = "lock" /\ at[t] = Len(path[t]) /\ at[t] > 2
  /\ at' = [at EXCEPT ![t] = 3]
  /\ pc' = [pc EXCEPT ![t] = "write"]
  /\ UNCHANGED <<full, workQueue, holder, request, before, path, attempts, myPaths,
                 pathVectorList, outcome, verdict>>

LockedAll(t) ==
  /\ pc[t] = "lock" /\ at[t] = Len(path[t])
  /\ at' = [at EXCEPT ![t] = 2]
  /\ pc' = [pc EXCEPT ![t] = "write"]
  /\ UNCHANGED <<full, workQueue, holder, request, before, path, attempts, myPaths,
                 pathVectorList, outcome, verdict>>

(***************************************************************************)
(* grid_addPath_Ptr.                                                       *)
(***************************************************************************)
WritePoint(t) ==
  /\ pc[t] = "write" /\ at[t] < Len(path[t])
  /\ full' = full \cup {Here(t)}
  /\ at' = [at EXCEPT ![t] = @ + 1]
  /\ UNCHANGED <<workQueue, holder, pc, request, before, path, attempts, myPaths,
                 pathVectorList, outcome, verdict>>

\* Mutant: the locks are released once the route is marked.
FinishUnlocking(t) ==
  /\ pc[t] = "write" /\ at[t] = Len(path[t])
  /\ myPaths' = [myPaths EXCEPT ![t] = Append(@, path[t])]
  /\ outcome' = [outcome EXCEPT ![request[t]] = "routed"]
  /\ holder' = [p \in Points |-> IF p \in Middle(path[t]) THEN Nobody ELSE holder[p]]
  /\ Forget(t)
  /\ UNCHANGED <<full, workQueue, pathVectorList, verdict>>

\* The route is the thread's; the locks stay locked.
Finish(t) ==
  /\ pc[t] = "write" /\ at[t] = Len(path[t])
  /\ myPaths' = [myPaths EXCEPT ![t] = Append(@, path[t])]
  /\ outcome' = [outcome EXCEPT ![request[t]] = "routed"]
  /\ Forget(t)
  /\ UNCHANGED <<full, workQueue, holder, pathVectorList, verdict>>

(***************************************************************************)
(* main, once it has joined all threads: the assertions about the routes   *)
(* that they have handed in, and about the queue.                          *)
(***************************************************************************)
\* The routes handed in, by thread and position.
Routed == UNION {{<<t, k>> : k \in DOMAIN myPaths[t]} : t \in pathVectorList}

maze_checkPaths ==
  /\ \A x \in Routed :
       LET s == myPaths[x[1]][x[2]] IN
       /\ s[1] \in Ends /\ Last(s) \in Ends
       /\ \A k \in 2 .. Len(s) - 1 :
            <<s[k - 1], s[k]>> \in Links /\ s[k] \notin Walls \cup Ends
       /\ \A k, l \in 2 .. Len(s) - 1 : s[k] = s[l] => k = l
  /\ \A x, y \in Routed :
       x # y => Middle(myPaths[x[1]][x[2]]) \cap Middle(myPaths[y[1]][y[2]]) = {}

Verify ==
  /\ verdict = "none" /\ \A t \in Threads : pc[t] = "done"
  /\ verdict' = IF /\ Cardinality(Routed) <= Cardinality(Requests)
                   /\ maze_checkPaths
                   /\ workQueue = <<>>
                THEN "passed" ELSE "failed"
  /\ UNCHANGED <<full, workQueue, holder, pc, locals, myPaths, pathVectorList,
                 outcome>>

router_solve(t) ==
  \/ Take(t) \/ Leave(t) \/ Publish(t)
  \/ FindRoute(t) \/ DropRequest(t)
  \/ LockPoint(t) \/ FindLocked(t) \/ GiveUp(t) \/ UnlockPoint(t) \/ Requeue(t)
  \/ LockedAll(t) \/ WritePoint(t) \/ Finish(t)

\* The process has exited.
Terminated == verdict # "none" /\ UNCHANGED vars

Next == (\E t \in Threads : router_solve(t)) \/ Verify \/ Terminated

Spec == Init /\ [][Next]_vars

\* Threads are scheduled fairly: none of them is ever blocked.
FairSpec == Spec /\ WF_vars(Verify) /\ \A t \in Threads : WF_vars(router_solve(t))

-------------------------------------------------------------------------------
(***************************************************************************)
(* Properties.                                                             *)
(***************************************************************************)
\* The types, the bounds of the loops over a route, and that a thread has a
\* request exactly while it works on one.
TypeOK ==
  /\ full \subseteq Points
  /\ workQueue \in Seq(Requests)
  /\ holder \in [Points -> Threads \cup {Nobody}]
  /\ pc \in [Threads -> {"idle", "route", "lock", "unlock", "write", "publish", "done"}]
  /\ request \in [Threads -> Requests \cup {NoRequest}]
  /\ before \in [Threads -> SUBSET Points]
  /\ path \in [Threads -> Trails \cup {<<>>}]
  /\ at \in [Threads -> Nat]
  /\ attempts \in [Threads -> 0 .. MaxAttempts]
  /\ myPaths \in [Threads -> Seq(Trails)]
  /\ pathVectorList \subseteq Threads
  /\ outcome \in [Requests -> {"open", "routed", "dropped"}]
  /\ verdict \in {"none", "passed", "failed"}
  /\ \A t \in Threads :
       /\ pc[t] \in {"route", "lock", "unlock", "write"} <=> request[t] # NoRequest
       /\ pc[t] \in {"lock", "write"} => at[t] \in 2 .. Len(path[t])
       /\ pc[t] = "unlock" => at[t] \in 1 .. Len(path[t]) - 1

\* The routes that thread t has: those it has finished and the one whose points
\* it has all locked.
Claimed(t) == ToSet(myPaths[t]) \cup (IF pc[t] = "write" THEN {path[t]} ELSE {})

\* Although every route is found in a copy of the grid that may be stale, and
\* even torn, the routes that two threads claim never cross.
RoutesDisjoint ==
  \A t, u \in Threads : t # u =>
    \A s \in Claimed(t), w \in Claimed(u) : Middle(s) \cap Middle(w) = {}

\* The assertions at the end of main hold: the routes are contiguous, do not
\* overlap and keep off walls and ends, there are no more than were asked for,
\* and no request is left in the queue.
VerificationPasses == verdict # "failed"

\* No request is lost or worked on twice, though threads leave while others may
\* still requeue: an open request is in the queue once or with one thread, one
\* that is routed or dropped is nowhere.
NothingLost ==
  \A r \in Requests :
    LET places == {<<"queue", k>> : k \in {l \in DOMAIN workQueue : workQueue[l] = r}}
                  \cup {<<"thread", t>> : t \in {u \in Threads : request[u] = r}}
    IN  Cardinality(places) = IF outcome[r] = "open" THEN 1 ELSE 0

\* The points that the routes handed in take.
Laid == UNION {Middle(myPaths[x[1]][x[2]]) : x \in Routed}

\* When the threads have returned, no request that was given up has room beside the
\* routes handed in.  A thread may give one up because of a route that another is
\* half way through marking, or because of a copy that is torn: whatever it saw full
\* is in the result in the end.  What it found locked may be given back, and it has
\* to try again.
NothingRoutableLeft ==
  (\A t \in Threads : pc[t] = "done") =>
    \A r \in Requests : outcome[r] = "dropped" => Routes(r, Walls \cup Ends \cup Laid) = {}

\* A point is marked only by the thread that holds its lock, a lock is released
\* only by its holder, and never once the point is marked: what a thread with an
\* older copy still believes free stays out of its reach.
LocksGuardPoints ==
  [][/\ \A p \in full' \ full : holder[p] # Nobody /\ pc[holder[p]] = "write"
     /\ \A p \in Points : holder[p] # holder'[p] /\ holder[p] # Nobody =>
          /\ holder'[p] = Nobody /\ p \notin full
          /\ pc[holder[p]] = "unlock"]_vars

\* The solver may go on for ever, but not because of one thread: at least two
\* have to take locks from each other again and again.
OnlyLosersGoOn ==
  \A t \in Threads :
    (\A u \in Threads \ {t} : <>[](pc[u] # "unlock")) => <>(verdict # "none")
===============================================================================
