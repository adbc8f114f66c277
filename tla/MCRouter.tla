------------------------------- MODULE MCRouter -------------------------------
(***************************************************************************)
(* Instances of Router for TLC: every set of walls of a small grid.        *)
(***************************************************************************)
EXTENDS Router

\* Every request, and those from one corner.
All == {r \in Points \X Points : r[1] # r[2]}
FromCorner == {r \in All : r[1] = <<0, 0, 0>>}
===============================================================================
