-------------------------------- MODULE Router --------------------------------
(***************************************************************************)
(* How the circuit routers (SO-1819, CircuitRouter-SeqSolver and           *)
(* CircuitRouter-ParSolver) find a route from src to dst in a private copy *)
(* of the grid: doExpansion floods the free points with costs, first in    *)
(* first out, until the flood reaches dst; doTraceback walks back down.    *)
(* A step is one iteration of the loop of either function.                 *)
(***************************************************************************)
EXTENDS Integers, Sequences, SequencesExt

CONSTANTS
  Width, Height, Depth,           \* the dimensions of the grid
  XCost, YCost, ZCost, BendCost,  \* the command line's -x -y -z -b
  Requests                        \* pairs <<source, destination>>

ASSUME DimensionsAssumption ==
  Width \in Nat \ {0} /\ Height \in Nat \ {0} /\ Depth \in Nat \ {0}

\* The usage message has x, y and z <UINT> and b <INT>.
ASSUME CostAssumption ==
  XCost \in Nat /\ YCost \in Nat /\ ZCost \in Nat /\ BendCost \in Int

Points == (0 .. Width - 1) \X (0 .. Height - 1) \X (0 .. Depth - 1)

\* maze_read refuses a request from a point to itself.
ASSUME RequestsAssumption ==
  /\ Requests \subseteq Points \X Points
  /\ \A request \in Requests : request[1] # request[2]

\* GRID_POINT_EMPTY and GRID_POINT_FULL; any other value is the cost at which
\* the wave got to the point.
Empty == -1
Full  == -2

Move == [x : {-1, 0, 1}, y : {-1, 0, 1}, z : {-1, 0, 1}, cost : Nat]

POSX == [x |->  1, y |->  0, z |->  0, cost |-> XCost]
NEGX == [x |-> -1, y |->  0, z |->  0, cost |-> XCost]
POSY == [x |->  0, y |->  1, z |->  0, cost |-> YCost]
NEGY == [x |->  0, y |-> -1, z |->  0, cost |-> YCost]
POSZ == [x |->  0, y |->  0, z |->  1, cost |-> ZCost]
NEGZ == [x |->  0, y |->  0, z |-> -1, cost |-> ZCost]

Moves == {POSX, NEGX, POSY, NEGY, POSZ, NEGZ}

\* The momentum of a walk that has not moved yet.
ZERO == [x |-> 0, y |-> 0, z |-> 0, cost |-> 0]

Beside(p, m) == <<p[1] + m.x, p[2] + m.y, p[3] + m.z>>

VARIABLES
  grid,   \* the points that are full in the copy: walls, ends and old routes
  src, dst,
  pc,     \* which loop is running, or how the search ended
  mine,   \* myGridPtr: the value of each point
  queue,  \* points the wave has yet to expand from
  next,   \* where the traceback is, the value there, its last move
  path    \* pointVectorPtr: the route, from dst

vars == <<grid, src, dst, pc, mine, queue, next, path>>

Place == [at : Points, value : Int, momentum : Moves \cup {ZERO}]

\* After grid_copy and the statements before the loop of doExpansion.
Init ==
  /\ \E request \in Requests : src = request[1] /\ dst = request[2]
  /\ grid \in {full \in SUBSET Points : {src, dst} \subseteq full}
  /\ mine = [p \in Points |-> IF p = src THEN 0
                              ELSE IF p \in grid \ {dst} THEN Full
                              ELSE Empty]
  /\ queue = <<src>>
  /\ pc = "expand"
  /\ next = [at |-> dst, value |-> 0, momentum |-> ZERO]
  /\ path = <<>>

(***************************************************************************)
(* doExpansion.                                                            *)
(***************************************************************************)
\* Mutants: walls are no obstacle; the cost of a point is replaced even if the
\* new one is worse.
BetterThroughWalls(p, m) ==
  /\ Beside(p, m) \in Points
  /\ mine[Beside(p, m)] < 0 \/ mine[p] + m.cost < mine[Beside(p, m)]
BetterOrWorse(p, m) ==
  /\ Beside(p, m) \in Points
  /\ mine[Beside(p, m)] # Full
  /\ mine[p] + m.cost # mine[Beside(p, m)]

\* expandToNeighbor: does a move from p reach its neighbour for the first
\* time, or at a lower cost than before?
Better(p, m) ==
  LET q == Beside(p, m) IN
  /\ q \in Points
  /\ mine[q] # Full
  /\ mine[q] = Empty \/ mine[p] + m.cost < mine[q]

\* The neighbours are looked at in this order; all are different points.
Pushed(p) ==
  LET push(m) == IF Better(p, m) THEN <<Beside(p, m)>> ELSE <<>> IN
  push(POSX) \o push(NEGX) \o push(POSY) \o push(NEGY) \o push(POSZ) \o push(NEGZ)

\* Mutant: the point that the wave expands from stays in the queue.
ExpandPointPeeked ==
  LET p == Head(queue) IN
  /\ pc = "expand" /\ queue # <<>> /\ p # dst
  /\ queue' = queue \o Pushed(p)
  /\ mine' = [q \in Points |->
       IF \E m \in Moves : Beside(p, m) = q /\ Better(p, m)
       THEN mine[p] + (CHOOSE m \in Moves : Beside(p, m) = q).cost
       ELSE mine[q]]
  /\ UNCHANGED <<grid, src, dst, pc, next, path>>

ExpandPoint ==
  LET p == Head(queue) IN
  /\ pc = "expand" /\ queue # <<>> /\ p # dst
  /\ queue' = Tail(queue) \o Pushed(p)
  /\ mine' = [q \in Points |->
       IF \E m \in Moves : Beside(p, m) = q /\ Better(p, m)
       THEN mine[p] + (CHOOSE m \in Moves : Beside(p, m) = q).cost
       ELSE mine[q]]
  /\ UNCHANGED <<grid, src, dst, pc, next, path>>

\* The wave has got to dst; the rest of the queue is left as it is.
ReachDestination ==
  /\ pc = "expand" /\ queue # <<>> /\ Head(queue) = dst
  /\ queue' = Tail(queue)
  /\ pc' = "trace"
  /\ next' = [at |-> dst, value |-> mine[dst], momentum |-> ZERO]
  /\ UNCHANGED <<grid, src, dst, mine, path>>

NoRoute ==
  /\ pc = "expand" /\ queue = <<>>
  /\ pc' = "none"
  /\ UNCHANGED <<grid, src, dst, mine, queue, next, path>>

(***************************************************************************)
(* doTraceback.                                                            *)
(***************************************************************************)
\* traceToNeighbor: the better of best and of the point that move m leads to
\* from curr, where a bend makes a point look worse.
Nearer(values, curr, m, useMomentum, best) ==
  LET q == Beside(curr.at, m)
      b == IF useMomentum /\ curr.momentum # m THEN BendCost ELSE 0 IN
  IF q \in Points /\ values[q] \notin {Empty, Full} /\ values[q] + b <= best.value
  THEN [at |-> q, value |-> values[q], momentum |-> m]
  ELSE best

\* The six calls, in their order.
Nearest(values, curr, useMomentum) ==
  LET posx == Nearer(values, curr, POSX, useMomentum, curr)
      posy == Nearer(values, curr, POSY, useMomentum, posx)
      posz == Nearer(values, curr, POSZ, useMomentum, posy)
      negx == Nearer(values, curr, NEGX, useMomentum, posz)
      negy == Nearer(values, curr, NEGY, useMomentum, negx)
  IN  Nearer(values, curr, NEGZ, useMomentum, negy)

\* Where the walk goes from curr: when bends make every neighbour look worse,
\* they are looked at again without.  It may stay where it is.
Onward(values, curr) ==
  LET best == Nearest(values, curr, TRUE) IN
  IF best.at # curr.at THEN best
  ELSE Nearest(values, curr, FALSE)

TracePoint ==
  /\ pc = "trace"
  /\ path' = Append(path, next.at)
  /\ mine' = [mine EXCEPT ![next.at] = Full]
  /\ IF next.value = 0
     THEN pc' = "found" /\ UNCHANGED next
     ELSE /\ next' = Onward(mine', next)
          /\ pc' = IF next'.at = next.at THEN "stuck" ELSE "trace"
  /\ UNCHANGED <<grid, src, dst, queue>>

Next == ExpandPoint \/ ReachDestination \/ NoRoute \/ TracePoint

Spec == Init /\ [][Next]_vars
FairSpec == Spec /\ WF_vars(Next)

-------------------------------------------------------------------------------
(***************************************************************************)
(* Properties.                                                             *)
(***************************************************************************)

Adjacent(p, q) == \E m \in Moves : q = Beside(p, m)

\* The points that can be reached from src by at most n moves through free
\* points, without passing through dst.
Open(p) == {q \in (Points \ grid) \cup {dst} : p # dst /\ Adjacent(p, q)}

Within ==
  LET within[n \in Nat] ==
        IF n = 0 THEN {src} ELSE UNION {{p} \cup Open(p) : p \in within[n - 1]}
  IN within

Connected == dst \in Within[Width * Height * Depth]

\* Whether a request is routed or dropped is right whatever the walls: a route
\* is found if and only if the free points connect dst to src.  The wave misses no
\* way, and "Cannot find path" is never said in the traceback, which can go back
\* from every point that the wave came to.
FoundIfConnected ==
  /\ pc = "found" => Connected
  /\ pc \in {"none", "stuck"} => ~ Connected

\* "Make sure path is contiguous and does not overlap": a route leads from dst
\* to src, one move at a time, visits no point twice and, between its ends, only
\* free ones.  tryToLock and maze_checkPaths rely on it.
RouteIsTrail ==
  pc = "found" =>
    /\ path[1] = dst /\ Last(path) = src
    /\ IsInjective(path)
    /\ \A k \in 1 .. Len(path) - 1 : Adjacent(path[k], path[k + 1])
    /\ \A k \in 2 .. Len(path) - 1 : path[k] \notin grid

\* Every search ends, although points are pushed again when a better way to
\* them is found.
Returns == <>(pc \in {"found", "stuck", "none"})
===============================================================================
