--------------------------- MODULE MCReplicaManager ---------------------------
(***************************************************************************)
(* Instances of ReplicaManager for TLC.                                    *)
(***************************************************************************)
EXTENDS CausalStoreMapping

CONSTANTS r1, r2, u1, u2, u3, c1, p1

Camera(p) == [kind |-> "camera", name |-> c1, place |-> p]
Report    == [kind |-> "observations", name |-> c1, place |-> NoPlace]

\* A camera and two reports of it.
OneCamera == u1 :> Camera(p1) @@ u2 :> Report @@ u3 :> Report

\* A report without observations and a camera.
EmptyReport == u1 :> [Report EXCEPT !.kind = "empty"] @@ u2 :> Camera(p1)

TwoUpdates == u1 :> Camera(p1) @@ u2 :> Report

\* The replicas run the same code; two reports have the same content.
Symmetry == Permutations(Replicas) \cup Permutations({u2, u3})
===============================================================================
