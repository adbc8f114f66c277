---------------------------- MODULE LearningAgent ----------------------------
(***************************************************************************)
(* IA-1920, P2: an agent that learns by Q-learning (A013.py), and runagent *)
(* of ruagomesfreiregame2.py, which lets it learn in a world and then      *)
(* tests it, twice.                                                        *)
(*                                                                         *)
(* [[0] * nA] * nS is one row nS times over.  A state gets a row of its    *)
(* own when the best of its actions is asked for, and the row is longer    *)
(* than its actions are many: rows are therefore objects here, and states  *)
(* refer to them.                                                          *)
(*                                                                         *)
(* Values are kept in units of 1 / Unit and rounded down.  Chance is a     *)
(* choice.  The mean reward that runagent returns is left out.             *)
(***************************************************************************)
EXTENDS Integers, Sequences, FiniteSets

CONSTANTS
  States,   \* of the world
  nA,       \* the most actions a state may have
  T,        \* the next state of each state and action
  Rewards,  \* the worlds: the reward of each state
  I,        \* the state in which an episode starts
  Horizon,  \* the length of an episode: 15
  Runs,     \* the calls of runagent: whether the agent learns, and how many steps
  Unit,     \* the precision of values
  MaxReward \* no reward is larger

\* nA is the maximum that the agent is told; every state has an action.
ASSUME WorldAssumption ==
  /\ nA \in Nat \ {0}
  /\ T \in [States -> Seq(States)] /\ \A s \in States : Len(T[s]) \in 1 .. nA
  /\ I \in States
ASSUME RewardsAssumption ==
  /\ Unit \in Nat \ {0} /\ MaxReward \in Nat
  /\ \A R \in Rewards : R \in [States -> -MaxReward .. MaxReward]
ASSUME RunsAssumption == Runs \in Seq([learning : BOOLEAN, n : Nat]) /\ Horizon \in Nat \ {0}

VARIABLES
  R,    \* the rewards of this world
  heap, \* the rows that were made, each the values of a state's actions
  qlst, \* the row of each state
  run,  \* which call of runagent runs
  ii,   \* its step
  st,   \* the state of the agent
  a,    \* the action selected, from 0; -1 before one is
  pc

vars == <<R, heap, qlst, run, ii, st, a, pc>>

Init ==
  /\ R \in Rewards
  /\ heap = <<[k \in 1 .. nA |-> 0]>> /\ qlst = [s \in States |-> 1]
  /\ run = 1 /\ ii = 1 /\ st = I /\ a = -1 /\ pc = "start"

learningphase == Runs[run].learning

Q(s) == heap[qlst[s]]

(***************************************************************************)
(* LearningAgent.                                                          *)
(***************************************************************************)
\* Mutant: the row is cut where it is, whoever else refers to it.
FittedInPlace(s) ==
  IF Len(Q(s)) = Len(T[s]) THEN [heap |-> heap, qlst |-> qlst]
  ELSE [heap |-> [heap EXCEPT ![qlst[s]] = SubSeq(@, 1, Len(T[s]))], qlst |-> qlst]

\* Mutant: the row is cut from the other end.
FittedFromEnd(s) ==
  IF Len(Q(s)) = Len(T[s]) THEN [heap |-> heap, qlst |-> qlst]
  ELSE [heap |-> Append(heap, SubSeq(Q(s), Len(Q(s)) - Len(T[s]) + 1, Len(Q(s)))),
        qlst |-> [qlst EXCEPT ![s] = Len(heap) + 1]]

\* The rows once s has one of the length of its actions.
Fitted(s) ==
  IF Len(Q(s)) = Len(T[s]) THEN [heap |-> heap, qlst |-> qlst]
  ELSE [heap |-> Append(heap, SubSeq(Q(s), 1, Len(T[s]))),
        qlst |-> [qlst EXCEPT ![s] = Len(heap) + 1]]

\* Of the best actions, the last.
IsBest(row, k) == \A j \in DOMAIN row : row[j] < row[k] \/ (row[j] = row[k] /\ j <= k)

selectactiontoexecute ==
  LET rows == Fitted(st)
      row  == rows.heap[rows.qlst[st]]
  IN /\ pc = "select"
     /\ heap' = rows.heap /\ qlst' = rows.qlst
     /\ \E k \in DOMAIN row : IsBest(row, k) /\ a' = k - 1
     /\ pc' = "move"
     /\ UNCHANGED <<R, run, ii, st>>

\* selectactiontolearn, when it explores.
Explore ==
  /\ pc = "select" /\ learningphase
  /\ a' \in 0 .. Len(T[st]) - 1
  /\ pc' = "move"
  /\ UNCHANGED <<R, heap, qlst, run, ii, st>>

\* alpha is 0.5, gamma 0.9.
Updated(old, r, next) == (old + (r * Unit) + ((9 * next) \div 10)) \div 2

learn(nst) ==
  \E k \in DOMAIN Q(nst) :
    /\ IsBest(Q(nst), k)
    /\ heap' = [heap EXCEPT ![qlst[st]][a + 1] = Updated(@, R[st], Q(nst)[k])]

(***************************************************************************)
(* runagent.                                                               *)
(***************************************************************************)
Start ==
  /\ pc = "start" /\ run <= Len(Runs)
  /\ st' = I /\ ii' = 1 /\ a' = -1
  /\ pc' = IF 1 < Runs[run].n THEN "select" ELSE "end"
  /\ UNCHANGED <<R, heap, qlst, run>>

\* The steps are those of range(1, n).
Move ==
  LET nst == T[st][a + 1]
  IN /\ pc = "move"
     /\ IF learningphase THEN learn(nst) ELSE UNCHANGED heap
     /\ st' = IF ii % Horizon = 0 THEN I ELSE nst
     /\ ii' = ii + 1 /\ a' = -1
     /\ pc' = IF ii + 1 < Runs[run].n THEN "select" ELSE "end"
     /\ UNCHANGED <<R, qlst, run>>

End ==
  /\ pc = "end" /\ pc' = "start"
  /\ run' = run + 1
  /\ UNCHANGED <<R, heap, qlst, ii, st, a>>

Terminated == pc = "start" /\ run > Len(Runs) /\ UNCHANGED vars

Next == Start \/ selectactiontoexecute \/ Explore \/ Move \/ End \/ Terminated

Spec == Init /\ [][Next]_vars

-------------------------------------------------------------------------------
(***************************************************************************)
(* Properties.                                                             *)
(***************************************************************************)
\* The kinds of values; every state has a row.
TypeOK ==
  /\ R \in Rewards
  /\ heap \in Seq(Seq(Int)) /\ qlst \in [States -> DOMAIN heap]
  /\ run \in Nat \ {0} /\ ii \in Nat \ {0} /\ st \in States /\ a \in Nat \union {-1}
  /\ pc \in {"start", "select", "move", "end"}
  /\ pc \in {"select", "move", "end"} => run \in DOMAIN Runs

\* All states begin with one row, and states that share one share that: a row cut
\* for a state is its own for good, and as long as its actions are many.  States
\* that share the first row are those whose best action was never asked for, and
\* those with nA actions (A013.py:12, 38-39).
RowsPrivate ==
  /\ \A s, t \in States : s # t /\ qlst[s] = qlst[t] => qlst[s] = 1
  /\ \A s \in States : Len(Q(s)) = IF qlst[s] = 1 THEN nA ELSE Len(T[s])

\* The action selected is one of the state's and has a value, though the state's
\* row may be the long one that others look into: runagent would catch the
\* IndexError and go on with the state reached before (A013.py:35-44,
\* ruagomesfreiregame2.py:21-24).  In a test no action is better.
ActionExists ==
  pc = "move" =>
    /\ a + 1 \in DOMAIN T[st] /\ a + 1 \in DOMAIN Q(st)
    /\ ~ learningphase => \A k \in DOMAIN T[st] : Q(st)[k] <= Q(st)[a + 1]

\* What an action of s is worth changes only in a learning phase, and only as the
\* agent leaves a state that has the same row; asking for the best action of a
\* state, which replaces its row, changes none (A013.py:35-54).
OnlyLearningTeaches ==
  [][\A s \in States : \A k \in DOMAIN T[s] :
       Q(s)'[k] # Q(s)[k] => pc = "move" /\ learningphase /\ qlst[s] = qlst[st] /\ k = a + 1]_vars

\* With rewards of at most MaxReward, no value leaves what an endless reward of
\* that size is worth, 1 / (1 - gamma) times it (A013.py:51-54).
Bound == 10 * MaxReward * Unit
ValuesBounded == \A o \in DOMAIN heap : \A k \in DOMAIN heap[o] : heap[o][k] \in -Bound .. Bound

\* The rows that the agent acts on are sound, whatever it has learned: they are
\* private when they have to be, hold the action selected, and are bounded.
RowsAreSound == RowsPrivate /\ ActionExists /\ ValuesBounded
===============================================================================
