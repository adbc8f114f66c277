---------------------------- MODULE MCLearningAgent ----------------------------
(***************************************************************************)
(* An instance of LearningAgent for TLC.                                   *)
(***************************************************************************)
EXTENDS LearningAgent

\* One state has as many actions as there may be, one has one.
World == <<<<2, 3>>, <<1, 3, 2>>, <<1>>>>

\* A goal, as in the script; and a world in which every step is rewarded.
Worlds == {<<-1, -1, 1>>, <<1, 1, 1>>}

Phase(learning, n) == [learning |-> learning, n |-> n]
Script == <<Phase(TRUE, 8), Phase(FALSE, 5), Phase(TRUE, 6), Phase(FALSE, 5)>>
===============================================================================
