# Verification of LEIC

The repository collects the course projects of a computer science degree: some
concurrent or distributed programs whose correctness depends on the order in
which threads, processes or messages run, and many sequential ones. This
directory holds TLA+ modules translated from their source, TLC configurations
that check them on small instances, and proofs for TLAPS.

Covered are, of the concurrent programs, the gossip protocol of **Sauron**
(`SD-1920-Proj`), the routing algorithm of **CircuitRouter**, the threads of
**CircuitRouter-ParSolver** and the signals of **CircuitRouter-AdvShell**
(`SO-1819`), and the **forum server** of `RC-1920`; and of the sequential ones,
which are in Python, the **grammar** and the game **Palavra Guru** of `FP-1718`
with its exercises on recursion, and the **search** and the **learning agent** of
`IA-1920`. The rest is listed below, with the reasons.

Paths are relative to `src/`. `RM` stands for
`SD-1920-Proj/silo-server/src/main/java/pt/tecnico/sauron/silo/domain/ReplicaManager.java`.

## Inventory

| component | state | operations | hard behaviour | what makes it correct |
|---|---|---|---|---|
| Sauron, replica manager (`silo-server/domain`) | value (cameras, observations), executed operations, log, three kinds of vector timestamp, a data file | add, query, receiveGossip, update thread, save, load, ctrlClear, close | handlers under a lock against an update thread without one; gossip lost or handled late; causal order; removal from the log; restart | timestamps are unique and count only what was accepted; each update is executed once, after what it depends on; nothing is removed that somebody lacks; every update arrives |
| Sauron, request handling (`SiloServiceImpl`, `Sauron.java`) | none of its own | check, translate, call the replica manager | addCamera looks up and adds in two critical sections; one bad record ends the loop over a message | a camera has one place; a message is taken whole |
| Sauron, front end (`silo-client`) | timestamp, cache of answers, the replica it talks to | every request of the contract, retry at another replica | what was already done is done again; answers without a timestamp; a stale cache | a client's reads never go back |
| Sauron, eye, spotter, contract | input lines | parse, call the front end | none | |
| CircuitRouter, router and grid (`router.c`, `grid.c`) | private copy of the grid, queue of the wave, the walk back | doExpansion, doTraceback | points reached again at lower cost; ties and bends in the walk back | a route is found exactly if there is one, and leads from end to end |
| CircuitRouter-ParSolver (`router.c`, `maze.c`, main) | shared grid, work queue, a mutex per point, routes | router_solve, tryToLock, grid_addPath_Ptr, maze_checkPaths | grid copied while it is written; locks in opposite orders; retries; a thread leaves when the queue is empty | routes never cross; no request is lost |
| CircuitRouter-SeqSolver | the same grid and queue, one thread | router_solve | none beyond the router's | as above |
| CircuitRouter-AdvShell | count of children, list of processes | run, SIGCHLD handler, exit | handler against main loop; lost wake-up at `pause`; failed `fork` | exit waits for exactly the children there are |
| CircuitRouter-Client, SimpleShell | none, a count | send a line; run, wait | synchronous | |
| CircuitRouter library, makespan inputs | lists, queues, vectors | | sequential | |
| RC-1920 forum server (`FS`) | a tree of directories | propose and list topics, question, answer, list and download questions | forked handlers in one tree: numbers and limits are checked, then used; a download while uploads go on; clients that go away; descriptors that run out | answers are numbered without gaps up to a limit; what was accepted stays; a download brings it |
| RC-1920 network library and user | socket, timer | send up to three times; read and save files | late answer taken for the next; end of a connection not noticed | what a user is told is true |
| PO-1819-Proj school | the state of a project's survey | open, close, finish, cancel, answer | illegal transitions after a long sequence | the life cycle of the statement |
| ES-1920 quizzes tutor | a database | web requests | transactions of a framework outside the repository | |
| FP-1718 Project 1 (`gramatica.py`, `gramatica_2.py`) | none | recognise syllables, monosyllables, words | strings cut by position from either end | it accepts the words of the grammar |
| FP-1718 Project 2 (`parte1.py`, `proj.py`) | words to find and found, players with words and scores, a count, the turn | the same grammar; enrol, generate words, play, finish | five pieces of state kept in step by hand; sorted lists of lists; input that raises | a word is credited once, the count is true, the best players win |
| FP-1718 Week 9 (`tpc.py`) | none | numbers and sorting, by recursion and iteration | zeros, bounds of loops | each function is what its name says |
| IA-1920 P1 (`A013.py`, `game.py`) | distance tables, states to expand, tickets | breadth-first tables, A*, validation of a path | a heuristic for several agents and orders of goals; three limits | a shortest way is found if there is one |
| IA-1920 P2 (`A013.py`, `ruagomesfreiregame2.py`) | a list of values per state | select, learn, run | lists that are one object at first | an action exists; only learning changes values |
| SD-1920 labs, COM-1920, BD, CG, IPM, other FP weeks, IAED, LP, IAC, PO exercises | | | little control of their own | |

The parts interact inside a project only. In Sauron a client calls one replica
and carries the merge of the timestamps it received to the next call; replicas
call each other with gossip. In the solver the threads share the queue, the
grid, the locks and the list of results, and `main` reads the results after it
has joined them. The shell runs the solver as a child and learns of its end by
a signal or a pipe. The forum's handlers meet in the file system only. Palavra
Guru imports the grammar; the scripts of `IA-1920` call the search and the agent.

`PROJECT.json` lists every component with its status and, under `hazards`,
every place found where this code could go wrong in a way that tests hardly
reach, with the properties that watch it.

## Modules

| module | what it is |
|---|---|
| `VectorTime` | `Timestamp.java`'s vectors: merge, comparison, domination |
| `ReplicaManager` | the replica managers of Sauron and the clients they serve |
| `CausalStore` | what they promise: each replica executes each update at most once, after everything it depends on |
| `CausalStoreMapping` | the refinement mapping from `ReplicaManager` to `CausalStore` |
| `ReplicaManagerProofs` | the algebra of timestamps, the inductive invariants and theorems, and the refinement |
| `MCReplicaManager` | instances for TLC |
| `Router` | doExpansion and doTraceback for one request |
| `RouterProofs` | its inductive invariant and theorems |
| `MCRouter` | instances for TLC |
| `ParSolver` | the threads, the queue, the locks, the shared grid, main's checks |
| `ParSolverProofs` | its inductive invariant and theorems |
| `MCParSolver` | instances for TLC |
| `AdvShell` | the shell's main loop, its SIGCHLD handler and its children |
| `AdvShellProofs` | its inductive invariant and theorems |
| `MCAdvShell` | instances for TLC |
| `Forum` | the forum server, its forked handlers, its tree, and users that send datagrams again |
| `ForumProofs` | its inductive invariant and theorems |
| `MCForum` | instances for TLC |
| `Gramatica`, `Gramatica2` | the recognisers of FP-1718's first project, in both versions |
| `Parte1` | those of the second project's grammar |
| `GramaticaGuru` | the grammar itself, as sets of strings |
| `Reconhecedores` | what the three recognisers should be, for one string |
| `TpcSemana9` | the functions of week 9 |
| `MCFundamentos` | all of these on bounded inputs |
| `Guru` | the abstract types and the game of `proj.py` |
| `GuruProofs` | its inductive invariants and theorems, and the theorem about the recognisers |
| `MCGuru` | instances for TLC |
| `SearchProblem` | `A013.py` and `game.py` of IA-1920's first project |
| `SearchProblemProofs` | its inductive invariant and theorems |
| `MCSearchProblem` | instances for TLC |
| `LearningAgent` | `A013.py` and `runagent` of the second |
| `LearningAgentProofs` | its inductive invariant and theorems |
| `MCLearningAgent` | instances for TLC |

`ReplicaManager` and `CausalStore` are related by refinement. `Router` and
`ParSolver` are composed by contract: `ParSolver` lets a thread find any trail
between the ends of its request that avoids its copy, or drop the request if
there is none, and `Router`'s properties `FoundIfConnected` and
`RouteIsTrail` are what makes that choice cover everything the real search can
return. They are proved for positive costs. `Guru` uses `Parte1`'s recogniser as the
game does, and `Reconhecedores` compares `Parte1`, `Gramatica` and `Gramatica2`
with `GramaticaGuru` and with each other.

Definitions named in a comment as "Mutant" are deliberate mistakes. They are
used by no specification; each is a change of one definition of the code that
breaks the property it is listed with in `PROJECT.json`. `ReplicaManager`'s type
invariant is model-checked and proved; those of the other modules with proofs are
proved only.

## Sauron's replica managers

### Correspondence

| code | model |
|---|---|
| `valueTimestamp`, `replicaTimestamp`, `tableTimestamps`, `log`, `operationsTable` | the variables of the same names, one entry per replica. The row a replica keeps for itself in `tableTimestamps` is the very object `replicaTimestamp` (`Table`) |
| cameras and observations of the value | `cameras`, `observations` |
| `add` (addCamera, addObservations), under the lock | `Add`, `AddAgain`: one step each, since only the lock's holder and the update thread read what it changes, and the thread sees either the log before or the log after |
| `receiveGossip`, under the lock | `ReceiveGossip`, `TakeRecord`, `MergeTimestamp`, `SortLog`, `StartExecution`, `ExecuteRecord`, `StartCleanup`, `RemoveRecord`, `FinishGossip`: one step for each change that the unlocked update thread can see |
| `execute`, `executeAux` | `execute`, `executeAux` |
| the update thread's round (RM 126-147) | `StartScan`, `ScanRecord`, `FinishScan`, `SendGossip`; its sleep is any delay before the next round |
| the log's iterator | `cursor` and `fresh`: `next` throws when the log was modified since the iterator was made, and the thread ends (`Dead`) |
| `Replica.gossip` | `SendGossip` reads `replicaTimestamp` entry by entry (`Between`), leaves out empty reports and waits; `FailGossip` is a call that fails, its request lost or handled late |
| the constructor | `Init`: it starts the thread before it assigns the fields (RM 49), so a thread may be dead from the start |
| clients | whoever holds a merge of timestamps that replicas returned (`known`, `Learn`, from `SiloFrontend.updateTimestamp`) |

`accepted`, the set of all records ever made, is a history variable. A request
is its UUID; `Payload` gives its content. `failures` bounds the failing calls.

Abstractions. `sortLog`'s comparator is not an order, so all that can be said
of its result without the library's exact algorithm is that no record directly
follows one whose `prev` strictly dominates its own; `SortLog` takes any such
rearrangement, in one step. Reads change no replica and have no action:
`ValueIsKnown` says that what they return is already something a client can
know. Dates of observations are left out.

### Serial behaviours

The code has three races between the update thread and the handlers (see
Findings). They break the protocol's own properties, so those are checked of
`SerialSpec`: no thread died at the start, at most one handler or scan is active
at a time, and nothing is accepted meanwhile. Handlers of two replicas share no
state, so making them take turns hides nothing; what it excludes is a scan
together with a handler. The properties of `Spec` hold with all races.

### Fairness

`FairSerialSpec`: the lock is released by every handler, and gRPC answers a call
or reports its failure, so handlers and update threads go on. It makes threads
take turns that the code does not make them take, and therefore fairness is
strong: a thread that may run again and again does run. Clients promise nothing.

### Runs

| run | instance | what it shows |
|---|---|---|
| `core` | two replicas, a camera and a report without observations, the same request at both, or one update and a failing call; any interleaving, threads that die | `TypeOK`, `NoFuture`, `UniqueTimestamps`, `AtMostOnce`, `ValueIsKnown`, `NeverBack` |
| `serial` | a camera and two reports, or two updates and a failing call; serial | `CountedIsHere`, `RemovedIsEverywhere`, `ReadsAreComplete`, `NothingLeft`, and `ImplementsCausalStore`, although requests are lost or late |
| `delivery` | two updates, serial, fair | `Delivered` |
| `scan_race` | two updates; all races | the finding |

`MaxEvents` bounds the number of records made and calls failed together, so that
each of these instances is the union of its cases.

Bounds. Two replicas are what every race in the code needs: one thread, one
handler, one peer that is told too much. Two updates give dependent, concurrent
and same-replica records; the third of `serial` gives logs in which the sort and
the clean-up have something to decide. One camera name and place suffice since
no property compares places. One failure is enough for a message older than the
row it replaces. What these bounds leave out is a third replica, which learns of
an update from one that is not its origin.

### Proofs

For any set of replicas, updates, cameras and any number of failures, with all
races (`Spec`):

- `TypeCorrect`: types, the link between lock and message, and that a valid
  iterator is inside its log.
- `TimestampsFromThePast` (`NoFuture`), `TimestampsAreUnique`,
  `ExecutedAtMostOnce`, `ReadsTeachNothingNew` (`ValueIsKnown`), `NothingTakenBack`
  (`NeverBack`).

`NoFuture` is not inductive: a merge takes timestamps out of messages, logs being
walked and scans under way. The invariant therefore says of every record
anywhere (log, message, `todo`, `toSend`) that it was accepted (*provenance*), of
every timestamp in all these places that it is below `Origin`, of accepted
records that their own entry identifies them, and that `known` is closed under
merges; the last is what makes a replica's value a timestamp that clients can
have, as it grows by merging timestamps of records. The lemmas at the start of
`ReplicaManagerProofs` are the algebra this rests on. The assumptions are those
the module names on its constants.

For serial behaviours, the properties of the protocol depend on more than the
serial schedule, and the theorems name it as hypotheses:

- `SortedByDependency`: no record comes out of a sort before one it depends on. A
  replica executes in one pass over the log, and the comparator does not ensure
  this: with three replicas or longer logs, `[r, x, d]` may result from a sort
  although `r` depends on `d`, if `x`'s `prev` is incomparable to those beside it.
  `r` is then left in the log (`NothingLeft`), and the clean-up, which removes
  records executed or not, may take it out before another pass (`CountedIsHere`).
- `PlainRequests`: no report without observations, which peers count and are never
  sent (see Findings), and no request accepted by two replicas under one
  identifier, which has two records of which each replica executes one.

With `PlainRequests`, every behaviour of `SerialSpec` all of whose states satisfy
`SortedByDependency` has:

- `CountedIsKept` (`CountedIsHere`), `RemovedIsKnownToAll` (`RemovedIsEverywhere`),
  `ReadsReflectAll` (`ReadsAreComplete`), `OnePassIsEnough` (`NothingLeft`);
- `CausalStoreImplemented`: `ImplementsCausalStore`, the refinement.

Both hypotheses are met by behaviours in which all of it happens: the instance of
`serial` has plain requests, and given `SortedByDependency` as a further INVARIANT
of `Serial.cfg`, TLC finds that it holds there in every state, lost and late requests
included.

The theorems are for any finite set of replicas, any updates and any number of
failing calls. None of the four properties is inductive. `SerialInv` adds to
the invariant above, part by part:

- `Quiet`: one handler or scan at a time, from `Cardinality(Active') <= 1`; it is
  the one use of the assumption that `Replicas` is finite.
- `History`: what timestamps are made of. Every number a replica has given out
  belongs to a record, a record's timestamp is its `prev` but for its own entry,
  and a timestamp that counts an update *last* of its replica counts what that
  update depends on.
- `Rows`: every timestamp kept or sent as a replica's *was* that replica's (`Was`):
  it is below what the replica counts now, and with an update it counts what the
  replica had accepted when the update was made.
- `Scans`, `Brought`: the update thread collects all that the row says the peer
  lacks, so that a request brings each record that its timestamp counts, unless its
  target counts it already; this survives loss and reordering, because a row only
  moves when a request *arrives*.
- `Here`: what a replica counts is in its log, or was executed and is counted by
  all. The clean-up keeps it: a record goes when all rows count it.
- `Values`, `Pass`, `Stored`: a value reflects what was executed and nothing that is
  not counted; what a pass over the log leaves behind cannot be executed; a camera
  executed is there and a report of it stored.

`Pass` is where `SortedByDependency` is needed: what the record at the head of `todo`
depends on is not behind it (`HeadFirst`), so it was visited and executed, and the
value's timestamp reaches the record's `prev` (`HeadReady`). That `add`, which
executes its own record only, makes no other record executable rests on `NoHigher`:
a client that has heard of an update of a replica that the replica's value lacks,
has heard of a first one, and that one can be executed. It takes the least of a set
of numbers, which comes from the library's theorem on strict subsets, as induction
over the naturals is out of reach. The refinement rests on `ReadyIsExecutable`: the
comparison of `prev` with a replica's value decides exactly whether the replica
has executed the updates that the request depends on.

Only model-checked: `Delivered`, which is liveness, and `SortedByDependency` itself,
as said above.

## CircuitRouter's router

### Correspondence

`doExpansion` and `doTraceback` of one request in its private copy, one action
per iteration: `ExpandPoint`, `ReachDestination`, `NoRoute`, `TracePoint`.
`expandToNeighbor` is `Better`, `traceToNeighbor` is `Nearer`, and the six calls
keep their order, which decides ties. `Init` takes any set of full points that
contains the ends, as `grid_copy` may find it. Costs come from the command line.

### Runs

`router`: all grids of 2 by 2 by 3 points and all routes from a corner, moves of
cost 1 and 2, bends of cost 2. A bend that costs more than a move makes every
neighbour look worse at times, which is when the walk looks again without
momentum; a dearer z move makes points be reached again at a lower cost and
expanded again. `FoundIfConnected`, `RouteIsTrail` and, as the loop
of a thread runs until it returns (weak fairness), `Returns`.

### Proofs

For any grid, walls and ends, under `PositiveCosts` (a move costs something, a
bend makes nothing cheaper): `RoutesAreTrails` (`RouteIsTrail`) and
`RoutedIfConnected` (`FoundIfConnected`). The defaults of the command line satisfy
`PositiveCosts`, and Findings says what happens without it.

The wave's invariant (`Wave`) is that only the walls are full, that every visited
point but the source has a visited neighbour of lower value (`Descends`), and that
what has left the queue has no neighbour the wave could still come to; hence an
empty queue means that all that can be reached was visited. The walk back makes
its points full, so `Descends` cannot stay: what stays (`Down`) is that it holds
for all values up to the present one. With the momentum, the walk may go on to a
point of the same value, or see no neighbour that looks better; then it looks
again without, and the lower neighbour is there (`OnwardMoves`), so it is never
stuck. It ends at the value 0, which only the source has. The
route's points lie on no wall (`ThroughFree`) and differ, because each is full
once it is walked on (`Walked`).

`FoundIfConnected` speaks of `Connected`, a set grown in as many rounds as there
are points. That the rounds suffice is proved by induction: a round that adds
nothing is followed by rounds that add nothing, and one that adds something adds
a point of finitely many. The provers have no induction over an operator, so
the first lemmas state it over sets: a set of numbers with 0 and every successor
is `Nat`, from which a recursive function's equation and bounds follow.

## CircuitRouter-ParSolver

### Correspondence

| code | model |
|---|---|
| `queue_pop` under `workQueueLock`, then `grid_copy` begins | `Take`, which notes in `before` what is full |
| `grid_copy` without a lock, search | `FindRoute`, `DropRequest`: the copy is any set between `before` and `full`, for points only go from free to full and `memcpy` reads each at some time in between; the route is any that the copy allows |
| `tryToLock` | `LockPoint`, `FindLocked` (at most `MaxAttempts` = 3, counted over the whole route), `GiveUp`, `UnlockPoint` |
| `queue_push` of a request that lost | `Requeue` |
| `grid_addPath_Ptr` | `LockedAll`, `WritePoint` per point, `Finish`. Locks stay locked |
| an empty queue; `list_insert` | `Leave`, `Publish` |
| main's assertions after `pthread_join`, `maze_checkPaths` | `Verify` |

The random delay between attempts is any delay. `outcome` is a history variable.

Fairness: weak, per thread, since `pthread_mutex_trylock` never blocks and the
other locks are held for a few statements. Termination is not claimed: two
threads may take locks from each other for ever, and only the random delays
speak against it. `OnlyLosersGoOn` is what holds.

### Runs

`parallel`: three threads and two requests on a 4 by 3 grid whose shortest routes
lock two points in opposite orders; one request has a way around. Routes are
disjoint, the assertions of main hold, no request is lost though threads leave
early, points and locks change only under `LocksGuardPoints`, and under fair
scheduling the run can go on for ever only as `OnlyLosersGoOn` says.
`NothingRoutableLeft` is about the result: when all threads have returned, the routes
handed in leave no way for a request that was given up. While threads work this
need not be so, since a thread may give a request up because of a route that another
is half way through marking. Deadlock is checked: only the process's
exit ends it. Three threads are one more than the requests: a thread leaves while
both others may requeue.

`Trails` is written out; the assumption `TrailsAreAll` makes TLC compare it with
all simple walks of the grid.

### Proofs

For any number of threads, any grid, any requests and any set of trails:
`TypeCorrect`, `RoutesNeverCross` (`RoutesDisjoint`) and `LocksAreRespected`
(`LocksGuardPoints`).

However stale or torn, a copy only decides which route is tried; that it cannot
lead two routes through one point is the locks' doing. The invariant has four
parts besides types. `OffLimits`: walls and ends are full, so every copy avoids
them and no route's middle touches them. `HeldPoints`: while a thread works on a
route it holds the locks of the points it has locked so far, and none of them
belongs to a route it has finished. `KeptPoints`: it holds, for ever, those of
its finished routes. `FullPoints`: what is full is a wall, an end, or a point of
a finished route or of the written part of the current one. As a lock has one
holder, the routes of two threads have no point in common. `FullPoints` is
needed for the part of `LocksGuardPoints` that says that no lock of a full point
is given back.

A second invariant follows the requests. `Jobs`: a request that is open is once in
the queue or with one thread, never both. `Counted`: there are as many finished
routes as requests with that outcome. `EndsMeet` and `OwnDisjoint`: each finished
route leads between two ends, and those of one thread do not cross either.
`Emptied`: when all threads have left, the queue is empty, since a thread that puts a
request back goes on until it finds the queue empty. Together with the locks'
invariant they give

- `AssertionsHold` (`VerificationPasses`): main's assertions never fail. It assumes
  at least one thread. The command line accepts `-t 0`
  (`CircuitRouter-ParSolver.c:158`), and then the queue is not empty at the end;
- `RequestsAreKept` (`NothingLost`);
- `ResultIsMaximal` (`NothingRoutableLeft`). A dropped request has no route that
  avoids what is full (`DroppedForGood`), because every point of the copy is full for
  good (`OnlyFuller`); that counts points of half-written routes. When no thread is
  left, what is full is a wall, an end or a point of a finished route (`FullPoints`),
  and all finished routes have been handed in (`HandedIn`).

Only model-checked: `OnlyLosersGoOn`, which is liveness.

## CircuitRouter-AdvShell

### Correspondence

| code | model |
|---|---|
| the main loop up to the commands (177-207) | `ReadRun`, `ReadExit`: a line is read. The end of the input and a line of too many words mean exit |
| an interrupted `select` (180-187) | `FinishHandler` leaves it interrupted, `SetErrno` is the library's, `CheckErrno` the shell's; the handler's `waitpid` may set `errno` in between |
| the loops around `pause` (212, 234) | `DecideToWait`, `Pause`, `Proceed`: the test and the call are two steps |
| `fork` (215) | `Fork`, `FailToFork` |
| `children++` (228) | `LoadChildren`, `StoreChildren`: the Makefile asks for no optimisation |
| `list_insert` (229) | `Insert`: the list changes by one assignment |
| `sigchildHandler` (106-131) | `Deliver`, one `Reap` per child, `FinishHandler`. Signals do not queue; all are blocked meanwhile, and the loop stands still |
| a solver | `End` |

A child stands for its process identifier: identifiers are not used again.
Fairness: the loop and the handler run when they can, and every solver ends; the
user need not give a command.

### Runs

`shell`: three children, a limit of two, one fork that may fail. Three children
are one more than the limit and two that end for one signal. `LimitKept`: never
more children than the limit; `NobodyLeft`: an exit leaves no child behind;
`ListIsTrue` and `AllReaped`: the list says who ended, and who ended is reaped.

The comment at `CircuitRouter-AdvShell.c:231-233` promises that exit waits for the
children. It need not end: the handler's `children--` is lost when it comes
inside `children++`, and a signal between the test of `children` and `pause`
wakes nobody. `ExitsUndisturbed` is the liveness that is left: if the handler
never runs at these two places and no fork failed, exit ends.

### Proofs

For any number of children, any limit and any number of failed forks:
`LimitIsKept`, `LeavesNobody` and `ListsTheTruth`. The code has a race on
`children`, and the proof says what it cannot do. The invariant is that the count
is never lower than the number of children that are not reaped, save for the one
being counted (`HighEnough`), because only the handler lowers it and only for a
child it reaped, so what `children++` has read is never too low
(`ReadHighEnough`). Lost updates leave it too high: the shell may wait for ever,
but it never exceeds the limit and never ends too early. `Entries` relates the
list to the children for `ListIsTrue`. `AllReaped` and `ExitsUndisturbed` are
only model-checked.

## The forum of RC-1920

### Correspondence

| code | model |
|---|---|
| the tree `TOPICS/topic/question/answer` with files `user` and `data` | `owner` (topics and who proposed them), `tree` (a record of files per directory of a question, answer 0, or of an answer) |
| `select`, `accept`, `fork` (FS.c 265-283, 580-599) | `Accept`, which takes a descriptor for good, since the parent closes none; `FailToAccept` when there is none, `FailToFork` when there is no process. Both end the loop, unless `select` has seen a datagram too: its handler's result replaces theirs (`main` is then at "datagram"). `Stop` is `wait` |
| descriptors | `spare` of the main process, `free` of each handler, which starts with what the main process had left. `Leak`: `numOfDirectories` (42-61) does not close its directory, nor `sendFile` (`net.c` 320-335) its file. What is opened and closed in one step needs a descriptor and keeps none |
| `handleQus`, `handleAns` | one action per system call that others can see: `LookFound`, `CountFull`, `CountAnswers`, `CheckNew`, `OpenDirectory`, `MakeDirectory`, `OpenUser`, `CloseUser`, `OpenData`, `CloseData` and the ways out of them |
| `handleGqu`, `sendUserDataAndImage` | `SendUser`, `SendSize` (`stat`), `SendData`, `CountToSend`, `NextItem`; `Skip` is a file that is missing or cannot be opened for want of a descriptor, which ends the download at the question and is ignored at an answer (111); `FailToCount` is a directory that cannot be |
| `readTCP` and `readAndSave`, a client that goes away | `BreakOff`: a reset ends the handler, a connection that is closed makes it spin |
| `handleReg` | `Register`, the one datagram that is answered without opening anything |
| `handleLtp`, `handlePtp` | `ListTopics`, `Propose`: one step, as only the main process touches topics. Each fails without descriptors, and each proposal leaks one |
| `handleLqu` | `ListQuestions`, `ListQuestion`, `FinishListing`: questions may come to be meanwhile. `CrashListing` is `readdir` of a directory that could not be opened (458-460) |
| `sendWithReplyUDP`, `receiveUDP` (net.c 93-143) | `Ask`, `TakeReply`, `Miss`, `TryAgain`, `GiveUp`; the sleeps are any delay |

Datagrams can be lost; the network between them and the two system calls
`sendto` and `recvfrom` are external. `before` and `late` are history variables.

### Runs

`forum` has scenes of two kinds (`MCForum`). With plenty of descriptors: three answers
to one question, one below the limit; two answers and a download, which leaves out the oldest when
both are there (`Window` = 2 for the code's 10); two clients that create one question, the last
below the limit, and an answer to it; a question and its download with one handler
more than can be started (`MaxServed` = 3); a question that comes while questions
are listed; two users who propose, one topic more than there is room for, and have
to ask again. With few: an answer and a download, which gets to none, some or all of
the answers with 3 to 8 descriptors; a connection and a datagram of each kind, with 0
to 4. One datagram is lost and one connection breaks off in each. Limits are 2 topics,
2 questions and 3 answers for the code's 99, so that each can be reached and passed,
and three answers are enough for two to share a number and one to be next.

- `NumberedWithoutGaps`, `LimitsKept`, `EarlierIsSafe` say what the unguarded
  choice of a number cannot break.
- `DownloadHasEarlier`: an answer that was accepted before a download began is in
  it, whole, with the three exceptions named there: newer ones pushed it out of the
  last ten, a handler that ran at the same time shared its directory, or the download
  ran out of descriptors before it (`Short`). In the last case the code ends the
  download like a complete one; `Short` says that only what comes after the last
  descriptor is missing. In the run all answers that were accepted early enough are
  among the last ten, so `Pushed` is only met in the theorem. What a client makes of a size
  that is announced and not followed by the contents is not modelled.
- `ToldTrue`: replies belong to requests as long as a user did not ask twice.
- `Answered`: every accepted connection and every request ends, also when the
  server runs out of descriptors, stops or crashes. Fairness: some process that can go on does, and a client that
  connected goes on or breaks off; nobody has to connect.

### Proofs

For any number of clients, topics and questions and any limits:
`AnswersHaveNoGaps`, `LimitsAreKept`, `EarlierUploadsAreSafe`. The invariant adds
what a handler has chosen: its directory's number is at most one past the answers
that are there (`Chosen`), now and later, since directories only come to be. So
when it creates the directory, it is the next one; and if it finds it there, it
was made by a handler that chose at the same time, hence was not yet answered
when this one connected. `Holding` says that a handler that writes, or was
answered OK, has its directory.

`DownloadsBringEarlier` (`DownloadHasEarlier`) rests on the first three. `Intact`
says that a directory its handler has to itself holds that handler's files;
`Loaded`, that once a download has counted the answers, each it must bring is
brought, or below the last ten, or still to come, or out of reach because there is no
descriptor left (`Short`), and what has been read of the one being sent is its.
`Ordered` says that what was brought comes before what is being sent, so that after
the last descriptor nothing is brought any more. It assumes that clients are not named like the contents of
files (`CallsAssumption`), which is a matter of the model.

`RepliesAreTrue` (`ToldTrue`): a user that never asked twice (`late`) has one
datagram, on its way, with the server or answered, and it is the one the user
waits for (`Once`). What a reply says of topics stays true, since topics only
come to be and none comes when there is no room (`Grows`).

Only model-checked: `Answered`, which is liveness.

## The functions of FP-1718

Every function is an operator; the recursive ones are recursive functions over
the length of the string, so that one string is evaluated once. `fundamentos`
builds inputs letter by letter: all strings of up to 4 letters, and of up to 6 of
seven letters among which are the ends of all kinds of syllables; all numbers of
up to four digits; all lists of up to 6 of three numbers. Each state is one input
compared with the reference. `RecognisersAreRight` has a part for each version of
the recognisers, which are compared with `GramaticaGuru`, where a string is cut in
all ways, and with each other; `FunctionsAreRight` has one for each kind of
function of `tpc.py`. The longest syllable has 5
letters, so strings of 6 have every one with something before it.

`perfeito(0)` does not return and is left out.

`GrammarIsRecognised` proves `RecognisersAreRight` for every string, of whatever
characters and length (in `GuruProofs`, beside the game that asks one of them). A
clause of the grammar joins languages whose strings have one length each, so it
cuts a string at one place, and a syllable is in the grammar if and only if the
tests of its letters pass; that is told clause by clause, up to five letters. A
word is what can be cut into syllables (`Cut`) up to a last one. A string is cut
by its last syllable as well as by its first; so the student's recursion from the
end, the second version's, which also carries how long a syllable may still be,
and the teacher's from the front all have `Cut` as a solution, and by induction
over the length as the only one. The loop of the teacher starts at a negative
index of short strings: every index is shown to be some place in the string.

Only model-checked: `FunctionsAreRight`. `quick_sort` is a `RECURSIVE` operator,
which the provers do not accept, and what the functions on numbers say of the
digits would need an induction for each of them.

## Palavra Guru

### Correspondence

The abstract types of `proj.py` are records; `acrescenta_palavra`,
`adiciona_palavra_valida` and the others are operators that return the changed
value. `guru_mj` is the state machine: `inscrever_jogadores`,
`gera_todas_palavras_validas` (in any order of permutations), `StartGame`, a turn
as `NewWord`, `KnownWord`, `WrongWord`, and `BadAttempt` or `NobodyPlays` for the
exceptions that end the program; `termina_jogo` picks the winners.

### Runs and proofs

`guru`: three sets of letters, one with a letter twice and one without words; up
to three players and six turns; attempts that are right, wrong, empty or not
admissible. `BooksAreTrue` is that a word is credited once (`CreditedOnce`) and the
count is right (`FaltamIsTrue`); `ResultIsTrue` that winners, scores and lists are
(`WinnersAreBest`, `ScoreIsEarned`, `WrittenInOrder`). Six turns let two players find all words and repeat some. The
game may stop at any turn, for a player need not type; deadlock is not checked.

`GuruProofs` shows `GuruTypes`, `GuruBooksAreTrue` and `GuruResultIsTrue`, that is
all of the run's properties, for any letters, attempts, players and turns.

The first invariant adds to the books that `numero` counts the words of a set,
that no word is found before the game, and that the first turn is the first
player's. It rests on lemmas on insertion into a sorted list and on padding (what
elements the lists have afterwards).

The second (`TidyInv`) says that the lists of every set are in order, the last is
not empty, and a player's points are what its valid words are worth less what its
invalid ones are. That the comparison of `insort` is a strict total order on words
is proved from their first difference; then a set of words has only one ordered
list (`OneOrder`), and two sets with the same words are the same value, however
they were filled. `Total` and the loops over lists and players are recursive
functions, whose equations and properties come from the module's lemmas on
induction over sets of numbers: a word more in
one list adds its worth to the sum, `conjunto_palavras_para_cadeia` writes the
words in order, and after each player the winners so far are the best so far.

## Search

`bfs` is `StartGoal` and `Visit`; `search` is `StartSearch`, then `Expand` per
iteration until `Return` or `Exhausted`; `game.py` checks the path in `Validate`.
The sort keeps equals in order (`First`). The map is a constant: symmetric and
connected, as the pickled one (113 places) is. `Inf`, which fills the tables, is
not a number.

`search`: a map of six places and two transports; one agent between any two
places and three agents at once; tickets, depth and expansions that bind and that
do not; a check with fewer tickets than the search had. The reference
(`GoalWithin`) walks all positions by the rules. Every exercise ends in a state
that loops, so deadlock is checked.

`SearchIsRight` is that the tables are distances, the path is shortest, nothing is
returned only if there is no way, and the checker agrees; `ExpandsInOrder` that
the heuristic never misleads. `limitdepth` counts the places of a path and not its
moves, and a search that reaches `limitexp` returns the path to wherever it is:
`NoneIfImpossible` and `ShortestUnlessCut` say what is left.

### Proofs

`SearchResultIsRight` and `SearchExpandsInOrder` are both properties of the run,
for any such map, any number of agents, any tickets and limits;
`SearchTablesAreDistances` is the part about the tables. The invariant
(`SearchInv`) has one part for each phase:

- Breadth-first search: the places of a distance are found in waves (`Wave`), and
  what the table holds is right up to the present one (`Distances`). When a wave
  adds nothing, all places have been found: here the map must be connected, and
  symmetric for the table to be about the way to the goal and not from it.
- A*: a step of all agents changes no table entry by more than one, so the
  largest entry is a consistent heuristic, and for every assignment of the goals.
  Every state opened is reached by a way that the rules allow, at its cost; and
  on each allowed way within the depth some opened state lies, from which the
  rest of the way leads on (`Kept`). The first goal expanded is then a nearest
  one, and an empty list means that there is no way.
- The checker replays the path move by move. That it finds the tickets short only
  if they are rests on which move spends the last of a kind.

## The learning agent

`qlst` maps states to lists and `heap` holds the lists, for Python's
`[[0] * nA] * nS` is one list. `selectactiontoexecute`, `Explore` and `Move` (with
`learn`) are a step of `runagent`; `Start` and `End` are its calls. Values are
integers in units of 1/8, rounded down; chance is a choice.

`agent`: three states with three, two and one actions, two worlds, two phases of
learning and two of testing. `RowsAreSound` (private rows, an
action that exists, bounded values), `OnlyLearningTeaches`, and deadlock. One state has as many actions as lists are
long, which is the one that keeps the common list.

`LearningAgentProofs` proves all of them, with types (`AgentTypes`,
`AgentRowsAreSound`, `AgentOnlyLearningTeaches`), for any world, rewards,
precision and script; the properties are together inductive. The bound holds
because half of the old value and half of reward plus nine tenths of another
stay within ten times the largest reward.

## Findings

`scan_race`. The update thread collects records from the log without the lock
(RM 133-137) and reads `replicaTimestamp` afterwards (RM 139). An update accepted
in between is counted by the message and is not in it. The peer counts it, so it
ignores the record when it comes later; the origin removes it once the peer's row
covers it. `report/README.md:131` says that a record is removed when all replicas
have it.

Met while modelling, part of the modules, and listed as hazards:

- Sauron: a handler that changes the log during the scan makes the iterator throw
  and the update thread ends for good (RM 133). A report without observations is
  counted but left out of gossip (`Replica.java:51`), and what depends on it is
  never executed elsewhere. A request that two replicas accept under one
  identifier would have two records, of which a replica that executed one never
  counts the other; the front end makes a new identifier for every attempt.
- Router: with a movement cost of 0, which the usage message allows, the walk back
  stops at the first point of value 0 (`router.c:274`), which need not be the
  source. A negative bend cost can lead it into a dead end.
- AdvShell: exit may sleep for ever (see there).
- Forum: two answers at once may share a number, and both are told OK. Two
  questions at once pass the limit of 99, which is tested for equality, for good
  (`FS.c:165`). LQU that meets a question without its user file stops the server
  (474, 594). The server closes no connection, `numOfDirectories` no directory and
  `sendFile` no file: it ends when descriptors run out (594), or crashes in `readdir`
  of a directory that LQU could not open (460), and a download that runs out leaves
  answers away and ends like a complete one (111). Handlers spin when a client closes early (`net.c:211`, `375`). A
  late reply is taken for the next one.
- FP-1718: `e_capicua(1021)` is true, since a zero is lost (`tpc.py:72`). The
  docstring at `parte1.py:90` lists a form `<consoante> <vogal> <vogal>` that the
  code does not accept; the code agrees with the assignment's grammar. A game in
  which everybody does worse than -1 ends in an exception (`proj.py:417`).

## What is only model-checked

- Liveness under fairness, which is out of the provers' reach, as is `ENABLED`:
  `Delivered`, `Returns`, `OnlyLosersGoOn`, `AllReaped`, `ExitsUndisturbed`,
  `Answered`.
- `FunctionsAreRight`, the functions of FP-1718's week 9, for which see there.
- That logs come sorted by dependency, the hypothesis of the theorems about serial
  behaviours of `ReplicaManager`: it depends on the bounds, as said under its proofs.

Every other property of the passing runs is a theorem, those of `serial` under the two
hypotheses named with their proofs.

## What is not modelled, and why

- Sauron: the data file with crashes and restarts, `ctrlClear` and `close`, the
  front end's cache, the duplicate check of `addCamera`, the exact order the JDK's
  sort produces. Dates of observations, message formats and the command line
  clients are left out for good.
- AdvShell: the answer to a command that is not supported, which opens the
  client's pipe, and failures of `read` and `clock_gettime`.
- Forum: images, which are one more file written in the same way; the checks of identifiers and titles; lists longer than the
  buffers; the user's menus.
- The school's surveys: sequential, a state pattern of a few classes.
- The quizzes tutor: its concurrency is that of a database and a framework that
  are not in the repository.
- The compiler, the databases, graphics, notebooks and other exercises: sequential
  programs without protocol or state that a model checker would show more of than
  their tests do.

## Plan

Done: `VectorTime`, `ReplicaManager`, `CausalStore` and the refinement; `Router`;
`ParSolver`; `AdvShell`; `Forum`; the Python projects of FP-1718 and IA-1920; the
proofs named above. What is left, in this order:

1. `SiloCrash`: the data file written on execution only (RM 278) and in place
   (RM 99), restart from it, timestamps given out a second time. Abstract
   specification: what a replica answered it does not take back.
2. `SiloSession`: the front end on top of abstract replicas. Retry with a new
   identifier (`SiloFrontend.java:264`), empty timestamps (109), the cache (228),
   the duplicate check of `addCamera` (`Sauron.java:40`), `ctrlClear`. Properties:
   monotonic reads, own writes, one place per camera.
3. `SiloLogSort`: the library's sort with the code's comparator, against what
   execution in one pass needs; and three replicas with gossip as one step.
4. `Survey`: the life cycle of a survey against its specification.
5. Proofs: once `SiloLogSort` says when logs are sorted by dependency, that in place
   of the hypothesis of the theorems about serial behaviours.

## How to run

In this directory, with TLC and the community modules on the path:

    tlc -config Core.cfg MCReplicaManager.tla
    tlapm ReplicaManagerProofs.tla

`PROJECT.json` has the module and configuration of every run, the properties it
checks, the changed definitions that break each of them, and the source lines of
every definition. The longest run takes a few minutes, as do the proofs of `GuruProofs`
and `SearchProblemProofs`; those of `ReplicaManagerProofs` take about ten.
