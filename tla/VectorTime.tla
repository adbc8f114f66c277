------------------------------ MODULE VectorTime ------------------------------
(***************************************************************************)
(* The vector timestamps of Sauron: List<Integer>, one entry per replica.  *)
(* An entry k counts the operations accepted by replica k.  The list is    *)
(* modelled as a function from replicas, so that no protocol decision can  *)
(* depend on the order of the entries (only the log comparator reads them  *)
(* in index order, and its result does not depend on that order).          *)
(***************************************************************************)
EXTENDS Naturals

CONSTANT Replicas   \* the instances 0 .. totalInstances - 1

Vector == [Replicas -> Nat]

\* The cleanList of the constructor; also what add() puts in place of a
\* timestamp of the wrong size (a client that has not heard from any replica).
Zero == [k \in Replicas |-> 0]

\* validTimestamp: every entry of s is reached by t.
Leq(s, t) == \A k \in Replicas : s[k] <= t[k]

\* Mutant: the other timestamp replaces this one.
MergeByReplacing(s, t) == t

\* The entry-wise maximum: execute and receiveGossip raise the entries of
\* their own timestamp one by one to those of the other.
Merge(s, t) == [k \in Replicas |-> IF s[k] < t[k] THEN t[k] ELSE s[k]]

\* s strictly dominates t.
Dominates(s, t) == Leq(t, s) /\ s # t

\* The vectors with every entry between those of s and t: what a thread may
\* read from a list whose entries go from s to t while it reads them.
Between(s, t) ==
  {v \in [Replicas -> UNION {s[k] .. t[k] : k \in Replicas}] :
      Leq(s, v) /\ Leq(v, t)}
===============================================================================
