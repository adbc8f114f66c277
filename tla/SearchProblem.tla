----------------------------- MODULE SearchProblem -----------------------------
(***************************************************************************)
(* IA-1920, P1: agents on a map look for the shortest way to their goals,  *)
(* all moving at once (A013.py), and the exercises of game.py that ask for *)
(* it and check the answer.  Every move of an agent costs a ticket of its  *)
(* transport, and no two agents may stand on one place.                    *)
(*                                                                         *)
(* A* with a distance table per goal: the heuristic is the largest         *)
(* distance of an agent to its goal, for the best assignment of goals.     *)
(* closed, which nothing reads, the clock and the plots are left out.      *)
(***************************************************************************)
EXTENDS Integers, Sequences, FiniteSets, SequencesExt

CONSTANTS
  Nodes,      \* the places of the map
  Model,      \* the moves from each: a sequence of pairs of a transport and a place
  Transports, \* the kinds of tickets
  Inf,        \* math.inf
  Exercises   \* the blocks of the script, which share nothing

\* What the pickled map is: moves can be undone, none is listed twice, and every
\* place can be reached from every other.
ASSUME ModelAssumption ==
  /\ IsFiniteSet(Nodes)
  /\ Model \in [Nodes -> Seq(Transports \X Nodes)]
  /\ \A n \in Nodes : IsInjective(Model[n])
  /\ \A n, m \in Nodes, t \in Transports : <<t, m>> \in ToSet(Model[n]) => <<t, n>> \in ToSet(Model[m])
  /\ \A S \in (SUBSET Nodes) \ {{}} :
       (\A n \in S : \A k \in DOMAIN Model[n] : Model[n][k][2] \in S) => S = Nodes

ASSUME InfAssumption == Inf \notin Int

ASSUME ExercisesAssumption ==
  \A e \in Exercises :
    /\ e.init \in Seq(Nodes) /\ e.goal \in Seq(Nodes) /\ Len(e.goal) = Len(e.init) /\ e.init # <<>>
    /\ e.limitexp \in Nat /\ e.limitdepth \in Nat /\ e.anyorder \in BOOLEAN
    /\ e.tickets \in [Transports -> Nat \union {Inf}]
    /\ e.checked \in [Transports -> Nat]

VARIABLES
  exercise, \* the block of the script that runs
  pc,
  goals,    \* how many goals bfs has begun with
  heur,     \* a partial distance table per goal
  queue,    \* bfs's queue
  opened,   \* the states to expand
  limitexp, \* how many more may be expanded
  nn,       \* the path that search returns; <<>> for None
  verdict   \* what the script prints

vars == <<exercise, pc, goals, heur, queue, opened, limitexp, nn, verdict>>

Init ==
  /\ exercise \in Exercises
  /\ pc = "bfs" /\ goals = 0 /\ heur = <<>> /\ queue = <<>>
  /\ opened = <<>> /\ limitexp = exercise.limitexp /\ nn = <<>> /\ verdict = ""

(***************************************************************************)
(* SearchProblem.bfs.                                                      *)
(***************************************************************************)
StartGoal ==
  LET goal == exercise.goal[goals + 1]
  IN /\ pc = "bfs" /\ queue = <<>> /\ goals < Len(exercise.goal)
     /\ goals' = goals + 1
     /\ heur' = [g \in DOMAIN heur \union {goal} |->
                   IF g = goal THEN [n \in {goal} |-> 0] ELSE heur[g]]
     /\ queue' = <<<<goal, 0>>>>
     /\ UNCHANGED <<exercise, pc, opened, limitexp, nn, verdict>>

\* The places beside n that the table lacks, in the order of the map, each once.
Fresh(table, n) ==
  LET Upto[k \in 0 .. Len(Model[n])] ==
        IF k = 0 THEN <<>>
        ELSE LET m      == Model[n][k][2]
                 so_far == Upto[k - 1]
             IN IF m \in DOMAIN table \union ToSet(so_far) THEN so_far ELSE Append(so_far, m)
  IN Upto[Len(Model[n])]

Visit ==
  LET goal  == exercise.goal[goals]
      n     == Head(queue)[1]
      cost  == Head(queue)[2]
      fresh == Fresh(heur[goal], n)
  IN /\ pc = "bfs" /\ queue # <<>>
     /\ heur' = [heur EXCEPT ![goal] =
                  [m \in DOMAIN @ \union ToSet(fresh) |-> IF m \in DOMAIN @ THEN @[m] ELSE cost + 1]]
     /\ queue' = Tail(queue) \o [k \in DOMAIN fresh |-> <<fresh[k], cost + 1>>]
     /\ UNCHANGED <<exercise, pc, goals, opened, limitexp, nn, verdict>>

(***************************************************************************)
(* State.  A path is a sequence of the transports taken and the places     *)
(* reached by each agent; it begins with the places they start from.       *)
(***************************************************************************)
\* The places that count as the goal: in any order, if that is asked for.
GoalsOf(e) ==
  LET p == Len(e.goal)
  IN IF e.anyorder
       THEN {[a \in 1 .. p |-> e.goal[f[a]]] : f \in {g \in [1 .. p -> 1 .. p] : IsInjective(g)}}
       ELSE {e.goal}

LeastOf(S) == CHOOSE x \in S : \A y \in S : x <= y
MostOf(S)  == CHOOSE x \in S : \A y \in S : x >= y

heuristic_aux(src, dst) == MostOf({heur[dst[a]][src[a]] : a \in DOMAIN src})

\* Mutant: as if each agent had to wait for the others.
heuristic_sum(src, dst_lst) ==
  LeastOf({LET Upto[a \in 0 .. Len(src)] == IF a = 0 THEN 0 ELSE Upto[a - 1] + heur[dst[a]][src[a]]
           IN Upto[Len(src)] : dst \in dst_lst})

heuristic(src, dst_lst) == LeastOf({heuristic_aux(src, dst) : dst \in dst_lst})

State(path, tickets) ==
  [path |-> path, tickets |-> tickets, depth |-> Len(path),
   heuristic |-> heuristic(Last(path).pos, GoalsOf(exercise))]

\* Spend(tickets, trans)[t]: what is left of the tickets for t.
Spend(tickets, trans) ==
  [t \in DOMAIN tickets |->
     IF tickets[t] = Inf THEN Inf ELSE tickets[t] - Cardinality({a \in DOMAIN trans : trans[a] = t})]

expand(s, move) == State(Append(s.path, move), Spend(s.tickets, move.trans))

isValid(s) == \A t \in DOMAIN s.tickets : s.tickets[t] = Inf \/ s.tickets[t] >= 0

isGoal(s) == Last(s.path).pos \in GoalsOf(exercise)

allDifferent(pos) == \A a, b \in DOMAIN pos : a # b => pos[a] # pos[b]

(***************************************************************************)
(* SearchProblem.search.                                                   *)
(***************************************************************************)
StartSearch ==
  /\ pc = "bfs" /\ queue = <<>> /\ goals = Len(exercise.goal) /\ pc' = "search"
  /\ opened' = <<State(<<[trans |-> <<>>, pos |-> exercise.init]>>, exercise.tickets)>>
  /\ UNCHANGED <<exercise, goals, heur, queue, limitexp, nn, verdict>>

\* itertools.product of the moves of each agent, in its order.
Moves(pos) ==
  LET Upto[a \in 0 .. Len(pos)] ==
        IF a = 0 THEN <<[trans |-> <<>>, pos |-> <<>>]>>
        ELSE LET so_far == Upto[a - 1]
                 adj    == Model[pos[a]]
             IN [k \in 1 .. Len(so_far) * Len(adj) |->
                   LET x == so_far[((k - 1) \div Len(adj)) + 1]
                       y == adj[((k - 1) % Len(adj)) + 1]
                   IN [trans |-> Append(x.trans, y[1]), pos |-> Append(x.pos, y[2])]]
  IN Upto[Len(pos)]

\* What is put on opened for s, the last move first.
Expansion(s) ==
  LET moves == Moves(Last(s.path).pos)
      Upto[k \in 0 .. Len(moves)] ==
        IF k = 0 THEN <<>>
        ELSE LET move == expand(s, moves[k])
             IN IF allDifferent(moves[k].pos) /\ isValid(move) /\ move.depth <= exercise.limitdepth
                  THEN <<move>> \o Upto[k - 1]
                  ELSE Upto[k - 1]
  IN Upto[Len(moves)]

\* Mutant: a state that looks nearer to the goal is expanded first, however far it is.
CostAhead(s) == s.heuristic

\* What the comparisons of states compare.
Cost(s) == s.depth + s.heuristic

\* opened.sort(); opened.pop(0).  The sort keeps equals in their order.
First(states) ==
  LET cost  == [k \in DOMAIN states |-> Cost(states[k])]
      least == LeastOf({cost[k] : k \in DOMAIN cost})
  IN CHOOSE k \in DOMAIN cost : cost[k] = least /\ \A j \in 1 .. k - 1 : cost[j] # least

Return ==
  /\ pc = "search" /\ opened # <<>>
  /\ limitexp' = limitexp - 1
  /\ LET k == First(opened)
     IN /\ isGoal(opened[k]) \/ limitexp' = 0
        /\ nn' = opened[k].path /\ opened' = RemoveAt(opened, k)
  /\ pc' = "validate"
  /\ UNCHANGED <<exercise, goals, heur, queue, verdict>>

Expand ==
  /\ pc = "search" /\ opened # <<>>
  /\ limitexp' = limitexp - 1 /\ limitexp' # 0
  /\ LET k == First(opened)
     IN /\ ~ isGoal(opened[k])
        /\ opened' = Expansion(opened[k]) \o RemoveAt(opened, k)
  /\ UNCHANGED <<exercise, pc, goals, heur, queue, nn, verdict>>

\* The loop ends and search returns nothing.
Exhausted ==
  /\ pc = "search" /\ opened = <<>> /\ pc' = "validate"
  /\ UNCHANGED <<exercise, goals, heur, queue, opened, limitexp, nn, verdict>>

(***************************************************************************)
(* validatepath, and the end of a block of the script.                     *)
(***************************************************************************)
\* How many tickets for t are used up to agent a of step k.
Used(p, t, k, a) ==
  Cardinality({x \in (2 .. k) \X (1 .. Len(exercise.init)) :
                 (x[1] < k \/ x[2] <= a) /\ p[x[1]].trans[x[2]] = t})

validatepath(p, tickets) ==
  /\ p # <<>> /\ p[1].pos = exercise.init
  /\ \A k \in 2 .. Len(p) :
       /\ \A a \in DOMAIN p[k].pos :
            /\ Used(p, p[k].trans[a], k, a) <= tickets[p[k].trans[a]]
            /\ <<p[k].trans[a], p[k].pos[a]>> \in ToSet(Model[p[k - 1].pos[a]])
       /\ Len(exercise.init) = 3 => Cardinality(ToSet(p[k].pos)) = 3

Validate ==
  /\ pc = "validate" /\ pc' = "done"
  /\ verdict' = IF validatepath(nn, exercise.checked) THEN "path" ELSE "invalid path"
  /\ UNCHANGED <<exercise, goals, heur, queue, opened, limitexp, nn>>

Terminated == pc = "done" /\ UNCHANGED vars

Next == StartGoal \/ Visit \/ StartSearch \/ Return \/ Expand \/ Exhausted \/ Validate \/ Terminated

Spec == Init /\ [][Next]_vars

-------------------------------------------------------------------------------
(***************************************************************************)
(* Properties.                                                             *)
(***************************************************************************)
\* Places from which goal can be reached in at most k moves.
Ball(goal) ==
  LET B[k \in 0 .. Cardinality(Nodes)] ==
        IF k = 0 THEN {goal}
        ELSE B[k - 1] \union {n \in Nodes : \E i \in DOMAIN Model[n] : Model[n][i][2] \in B[k - 1]}
  IN B

\* What the rules of the exercise allow, said without a search: the positions and
\* tickets after k moves.
Step(pos, tickets) ==
  LET agents  == DOMAIN pos
      choices == {f \in [agents -> UNION {DOMAIN Model[n] : n \in Nodes}] :
                    \A a \in agents : f[a] \in DOMAIN Model[pos[a]]}
      taken(f, t) == Cardinality({a \in agents : Model[pos[a]][f[a]][1] = t})
  IN {<<[a \in agents |-> Model[pos[a]][f[a]][2]],
        [t \in Transports |-> IF tickets[t] = Inf THEN Inf ELSE tickets[t] - taken(f, t)]>> :
      f \in {g \in choices :
               /\ \A a, b \in agents : a = b \/ Model[pos[a]][g[a]][2] # Model[pos[b]][g[b]][2]
               /\ \A t \in Transports : tickets[t] = Inf \/ taken(g, t) <= tickets[t]}}

GoalWithin(moves) ==
  LET Reach[k \in 0 .. moves] ==
        IF k = 0 THEN {<<exercise.init, exercise.tickets>>}
        ELSE UNION {Step(x[1], x[2]) : x \in Reach[k - 1]}
  IN \E k \in 0 .. moves : \E x \in Reach[k] : x[1] \in GoalsOf(exercise)

Answered == pc \in {"validate", "done"}

\* The tables hold the length of the shortest way from every place to the goal,
\* though they are filled from the goal (A013.py:63-75).
HeurIsDistance ==
  pc # "bfs" =>
    \A g \in ToSet(exercise.goal) : \A n \in Nodes :
      /\ n \in Ball(g)[heur[g][n]]
      /\ heur[g][n] > 0 => n \notin Ball(g)[heur[g][n] - 1]

\* The heuristic never misleads: no state is opened that should have been expanded
\* before one that was, whatever the number of agents and the order of the goals
\* (A013.py:7-17, 82-109).
ExpandsInOrder ==
  [][pc = "search" /\ pc' = "search" =>
       LET cost == Cost(opened[First(opened)])
       IN \A k \in DOMAIN opened' : Cost(opened'[k]) >= cost]_vars

\* The path returned leads to the goal, and no shorter one does that the tickets
\* allow; another path is returned only when limitexp states have been expanded
\* (A013.py:87-90).
ShortestUnlessCut ==
  Answered /\ nn # <<>> =>
    \/ limitexp = 0
    \/ /\ Last(nn).pos \in GoalsOf(exercise)
       /\ Len(nn) > 1 => ~ GoalWithin(Len(nn) - 2)

\* search returns nothing only if there is no way: limitdepth counts the places on
\* a path, the first one included, not the moves (A013.py:106).
NoneIfImpossible ==
  Answered /\ nn = <<>> => exercise.limitdepth = 0 \/ ~ GoalWithin(exercise.limitdepth - 1)

\* The checker of game.py, which replays the path, finds nothing wrong with one
\* that search returns, unless it was given fewer tickets (game.py:31-69).
RejectedForTicketsOnly ==
  pc = "done" =>
    (verdict = "path" <=>
       /\ nn # <<>>
       /\ \A t \in Transports :
            Used(nn, t, Len(nn), Len(exercise.init)) <= exercise.checked[t])
\* What search returns is right: its tables are distances, its path is shortest
\* and its refusals are justified within its limits, and the script's checker
\* agrees with it.
SearchIsRight ==
  HeurIsDistance /\ ShortestUnlessCut /\ NoneIfImpossible /\ RejectedForTicketsOnly
===============================================================================
