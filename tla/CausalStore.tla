----------------------------- MODULE CausalStore ------------------------------
(***************************************************************************)
(* What the replica managers promise their clients, without timestamps,    *)
(* logs or gossip: each replica executes accepted updates one at a time,   *)
(* each update at most once, and never before the updates that it may      *)
(* depend on.                                                              *)
(***************************************************************************)
EXTENDS Naturals, Sequences, SequencesExt

CONSTANTS
  Replicas,
  Ids         \* the updates' identities

VARIABLES
  updates,    \* the accepted updates: their identities and dependencies
  executed    \* per replica: identities of executed updates, in order

store == <<updates, executed>>

Update == [id : Ids, deps : SUBSET Ids]

StoreInit ==
  /\ updates  = {}
  /\ executed = [i \in Replicas |-> <<>>]

\* Where u may be executed at replica i next.
Ready(i, u) ==
  /\ u.id \notin ToSet(executed[i])
  /\ u.deps \subseteq ToSet(executed[i])

\* A replica accepts an update whose client knows of the accepted updates deps,
\* and executes it at once if it can.
Accept(i, u) ==
  /\ u.id \notin {v.id : v \in updates}
  /\ u.deps \subseteq {v.id : v \in updates}
  /\ updates' = updates \cup {u}
  /\ executed' = IF Ready(i, u)
                 THEN [executed EXCEPT ![i] = Append(@, u.id)]
                 ELSE executed

\* A replica executes an update that was accepted before, here or elsewhere.
Execute(i, u) ==
  /\ u \in updates
  /\ Ready(i, u)
  /\ executed' = [executed EXCEPT ![i] = Append(@, u.id)]
  /\ UNCHANGED updates

StoreNext ==
  \E i \in Replicas :
    \/ \E u \in Update : Accept(i, u)
    \/ \E u \in updates : Execute(i, u)

StoreSpec == StoreInit /\ [][StoreNext]_store
===============================================================================
