---------------------------- MODULE MCSearchProblem ----------------------------
(***************************************************************************)
(* Instances of SearchProblem for TLC, on a map of six places and two      *)
(* transports.                                                             *)
(***************************************************************************)
EXTENDS SearchProblem

Map ==
  <<<<<<0, 2>>, <<1, 3>>>>,
    <<<<0, 1>>, <<0, 3>>, <<0, 4>>>>,
    <<<<1, 1>>, <<0, 2>>, <<1, 5>>>>,
    <<<<0, 2>>, <<0, 5>>, <<1, 5>>>>,
    <<<<0, 4>>, <<1, 4>>, <<1, 3>>, <<0, 6>>>>,
    <<<<0, 5>>>>>>

Tickets(a, b) == [t \in {0, 1} |-> IF t = 0 THEN a ELSE b]

\* The script: every exercise has one agent or three.
Exercise(init, goal, exp, depth, tickets, anyorder, checked) ==
  [init |-> init, goal |-> goal, limitexp |-> exp, limitdepth |-> depth, tickets |-> tickets,
   anyorder |-> anyorder, checked |-> checked]

One ==
  {Exercise(<<i>>, <<g>>, exp, depth, tickets, FALSE, Tickets(2, 1)) :
     i \in 1 .. 6, g \in 1 .. 6, exp \in {0, 3}, depth \in {2, 4},
     tickets \in {Tickets(Inf, Inf), Tickets(1, 1), Tickets(3, 0)}}

Three ==
  {Exercise(init, goal, exp, 4, tickets, anyorder, Tickets(5, 5)) :
     init \in {<<1, 2, 3>>, <<4, 6, 2>>}, goal \in {<<2, 3, 1>>, <<5, 4, 6>>, <<3, 5, 1>>},
     exp \in {6, 60}, tickets \in {Tickets(Inf, Inf), Tickets(3, 4)}, anyorder \in BOOLEAN}

MCExercises == One \union Three
===============================================================================
