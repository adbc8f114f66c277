-------------------------- MODULE CausalStoreMapping --------------------------
(***************************************************************************)
(* How the replica managers implement CausalStore: an update depends on    *)
(* the updates whose timestamps its client had merged into prev.           *)
(***************************************************************************)
EXTENDS ReplicaManager

Abstract ==
  INSTANCE CausalStore WITH
    Ids      <- Updates,
    updates  <- {[id   |-> r.uuid,
                  deps |-> {q.uuid : q \in {p \in accepted : Leq(p.timestamp, r.prev)}}]
                   : r \in accepted},
    executed <- operationsTable

\* Every step of the replica managers is a step of the causal store or changes
\* nothing that it has: an update that is accepted later never becomes a
\* dependency of an earlier one, no replica executes an update before what it
\* depends on, and add executes its update at once whenever that is possible.
ImplementsCausalStore == Abstract!StoreSpec
===============================================================================
