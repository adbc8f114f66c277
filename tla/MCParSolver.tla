----------------------------- MODULE MCParSolver -----------------------------
(***************************************************************************)
(* Instances of ParSolver for TLC, on a grid of 4 by 3 points.             *)
(***************************************************************************)
EXTENDS ParSolver

CONSTANTS t1, t2, t3, a, b

Grid == (0 .. 3) \X (0 .. 2)

GridWalls == {<<0, 2>>, <<3, 0>>}

Beside(p, q) ==
  \/ p[1] = q[1] /\ (p[2] - q[2]) \in {-1, 1}
  \/ p[2] = q[2] /\ (p[1] - q[1]) \in {-1, 1}

GridLinks == {<<p, q>> \in Grid \X Grid : Beside(p, q)}

\* Two requests that compete for the points <<1, 1>> and <<2, 1>>, which their
\* shortest routes lock in opposite orders; b has a way around the first.
TwoSources      == a :> <<0, 1>> @@ b :> <<2, 0>>
TwoDestinations == a :> <<3, 1>> @@ b :> <<1, 2>>
TwoRequests     == <<a, b>>
TwoTrails ==
  {<<<<3, 1>>, <<2, 1>>, <<1, 1>>, <<0, 1>>>>,
   <<<<3, 1>>, <<2, 1>>, <<1, 1>>, <<1, 0>>, <<0, 0>>, <<0, 1>>>>,
   <<<<3, 1>>, <<3, 2>>, <<2, 2>>, <<2, 1>>, <<1, 1>>, <<0, 1>>>>,
   <<<<3, 1>>, <<3, 2>>, <<2, 2>>, <<2, 1>>, <<1, 1>>, <<1, 0>>, <<0, 0>>, <<0, 1>>>>,
   <<<<1, 2>>, <<1, 1>>, <<1, 0>>, <<2, 0>>>>,
   <<<<1, 2>>, <<1, 1>>, <<2, 1>>, <<2, 0>>>>,
   <<<<1, 2>>, <<2, 2>>, <<2, 1>>, <<1, 1>>, <<1, 0>>, <<2, 0>>>>,
   <<<<1, 2>>, <<2, 2>>, <<2, 1>>, <<2, 0>>>>}

\* Every simple walk from the destination of a request to its source that
\* keeps off the walls and the other ends.
Walks ==
  LET walks[n \in Nat] ==
        IF n = 1 THEN {<<Destination[r]>> : r \in Requests}
        ELSE UNION {{Append(w, q) : q \in {p \in Grid \ (Walls \cup ToSet(w)) :
                                             /\ Beside(p, Last(w))
                                             /\ n > 2 => Last(w) \notin Ends}}
                      : w \in walks[n - 1]}
  IN  {w \in UNION {walks[n] : n \in 2 .. 12} :
         \E r \in Requests : w[1] = Destination[r] /\ Last(w) = Source[r]}

ASSUME TrailsAreAll == Trails = Walks
===============================================================================
