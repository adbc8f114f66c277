---------------------------- MODULE ReplicaManager ----------------------------
(***************************************************************************)
(* The replica managers of Sauron (SD-1920-Proj/silo-server): each accepts *)
(* updates from clients, executes those whose dependencies it has, keeps   *)
(* them in a log, and gossips the log to the other replicas.               *)
(*                                                                         *)
(* Within a replica two kinds of thread run.  The handlers of addCamera,   *)
(* addObservations and receiveGossip hold a lock, so at most one is inside *)
(* at a time; add is one step, receiveGossip is split into the steps that  *)
(* the other kind, the update thread, can tell apart.  The update thread   *)
(* takes no lock: it iterates over the log element by element and then     *)
(* reads replicaTimestamp, while handlers may be changing both.            *)
(*                                                                         *)
(* A client is anybody who learnt timestamps from replicas: it may attach  *)
(* to an update any merge of timestamps that replicas returned.  Reads     *)
(* change no replica, and what they return is known already: ValueIsKnown. *)
(***************************************************************************)
EXTENDS VectorTime, Sequences, SequencesExt

CONSTANTS
  Updates,     \* the UUIDs of the requests clients send
  Resending,   \* may one request reach more than one replica?
  Payload,     \* the content of each request
  Cameras,     \* camera names
  Places,      \* camera coordinates
  NoPlace,     \* "no such camera"
  NoMessage,   \* "no gossip is being handled"
  MaxFailures, \* bound: how many gossip calls may fail
  MaxEvents    \* bound: how many records are made and calls fail, together

\* The content of a request: a camera with its coordinates, a report with at
\* least one observation of a camera, or a report with no observation at all.
Content ==
       [kind : {"camera"}, name : Cameras, place : Places]
  \cup [kind : {"observations", "empty"}, name : Cameras, place : {NoPlace}]

ASSUME ReplicasAssumption == IsFiniteSet(Replicas)
ASSUME PayloadAssumption  == Payload \in [Updates -> Content]
ASSUME ResendingAssumption == Resending \in BOOLEAN
ASSUME NoPlaceAssumption  == NoPlace \notin Places
ASSUME FailuresAssumption == MaxFailures \in Nat

VARIABLES
  valueTimestamp,    \* per replica: the operations its value reflects
  cameras,           \* per replica: name -> coordinates
  observations,      \* per replica: the reports whose observations it stores
  operationsTable,   \* per replica: UUIDs of executed operations, in order
  replicaTimestamp,  \* per replica: the operations it has accepted or heard of
  log,               \* per replica: update records
  tableTimestamps,   \* per replica: what it last heard from each other one
  stage,             \* per replica: where the holder of the lock is
  gossip,            \* per replica: the message receiveGossip is handling
  todo,              \* per replica: records the current loop has yet to visit
  thread,            \* per replica: the update thread
  network,           \* gossip requests sent and not yet handled
  failures,          \* bound: gossip calls that failed so far
  accepted,          \* history: every update record ever created
  known              \* the timestamps a client can have

value == <<valueTimestamp, cameras, observations, operationsTable>>
lists == <<replicaTimestamp, log, tableTimestamps>>
lock  == <<stage, gossip, todo>>
wire  == <<network, failures>>
ghost == <<accepted, known>>
vars  == <<value, lists, lock, thread, wire, ghost>>

Record ==
  [instance : Replicas, prev : Vector, timestamp : Vector, uuid : Updates]

Message ==
  [source : Replicas, target : Replicas, timestamp : Vector,
   log : Seq(Record), awaited : BOOLEAN]

ASSUME NoMessageAssumption == NoMessage \notin Message

Thread ==
  [pc : {"idle", "scan", "read", "waiting", "dead"},
   round : SUBSET Replicas,   \* peers the for loop has yet to visit
   to : Replicas,             \* the peer it is gossiping to
   known : Vector,            \* thisTS
   cursor : Nat,              \* elements of the log iterated over
   fresh : BOOLEAN,           \* the log was not modified since the iterator
   toSend : Seq(Record),
   from : Vector]             \* replicaTimestamp when it starts to read it

Stages == {"free", "records", "sort", "sorted", "execute", "cleanup"}

Peers(i) == Replicas \ {i}

\* The bound on a behaviour.
WithinBound == Cardinality(accepted) + failures < MaxEvents

\* The update thread about to visit the first of the peers in round, or, once
\* it has visited all and slept, all of them again.
Idle(i, round) ==
  [pc |-> "idle", round |-> IF round = {} THEN Peers(i) ELSE round, to |-> i,
   known |-> Zero, cursor |-> 0, fresh |-> TRUE, toSend |-> <<>>, from |-> Zero]

Dead(i) == [Idle(i, {}) EXCEPT !.pc = "dead"]

\* The row that a replica keeps for itself in tableTimestamps is the very
\* list replicaTimestamp.
Table(i, k) == IF k = i THEN replicaTimestamp[i] ELSE tableTimestamps[i][k]

(***************************************************************************)
(* The constructor.  It starts the update thread before it assigns the     *)
(* lists that the thread reads: a thread that gets there first dies of a   *)
(* NullPointerException.                                                   *)
(***************************************************************************)
Init ==
  /\ valueTimestamp   = [i \in Replicas |-> Zero]
  /\ cameras          = [i \in Replicas |-> [c \in Cameras |-> NoPlace]]
  /\ observations     = [i \in Replicas |-> {}]
  /\ operationsTable  = [i \in Replicas |-> <<>>]
  /\ replicaTimestamp = [i \in Replicas |-> Zero]
  /\ log              = [i \in Replicas |-> <<>>]
  /\ tableTimestamps  = [i \in Replicas |-> [k \in Replicas |-> Zero]]
  /\ stage            = [i \in Replicas |-> "free"]
  /\ gossip           = [i \in Replicas |-> NoMessage]
  /\ todo             = [i \in Replicas |-> <<>>]
  /\ \E alive \in [Replicas -> BOOLEAN] :
       thread = [i \in Replicas |-> IF alive[i] THEN Idle(i, {}) ELSE Dead(i)]
  /\ network  = {}
  /\ failures = 0
  /\ accepted = {}
  /\ known    = {Zero}

(***************************************************************************)
(* execute: apply r to the value if what it depends on is there and it was *)
(* not applied before.  Observations of a camera that is not there are     *)
(* dropped, and so is an empty report; r counts as executed all the same.  *)
(***************************************************************************)
\* Mutants: executed again whenever it is visited; executed without waiting.
ExecutableAgain(i, r)     == Leq(r.prev, valueTimestamp[i])
ExecutableUnordered(i, r) == r.uuid \notin ToSet(operationsTable[i])

Executable(i, r) ==
  /\ Leq(r.prev, valueTimestamp[i])
  /\ r.uuid \notin ToSet(operationsTable[i])

executeAux(i, r) ==
  LET content == Payload[r.uuid] IN
  /\ cameras' = IF content.kind = "camera"
                THEN [cameras EXCEPT ![i][content.name] = content.place]
                ELSE cameras
  /\ observations' =
       IF content.kind = "observations" /\ cameras[i][content.name] # NoPlace
       THEN [observations EXCEPT ![i] = @ \cup {r.uuid}]
       ELSE observations

execute(i, r) ==
  \/ /\ Executable(i, r)
     /\ executeAux(i, r)
     /\ operationsTable' = [operationsTable EXCEPT ![i] = Append(@, r.uuid)]
     /\ valueTimestamp' = [valueTimestamp EXCEPT ![i] = Merge(@, r.timestamp)]
  \/ /\ ~ Executable(i, r)
     /\ UNCHANGED value

\* Any structural modification of the log invalidates the iterator over it.
Invalidate(i) == thread' = [thread EXCEPT ![i].fresh = (@ /\ thread[i].pc # "scan")]

(***************************************************************************)
(* addCamera, addObservations: the whole of add, under the lock.  A client *)
(* that holds timestamp prev sends update u to replica i, which answers    *)
(* with the timestamp of the new record, or, if it knows the request, with *)
(* prev itself.                                                            *)
(***************************************************************************)
\* The request is in the replica's log or was executed.
AlreadyHere(i, u) ==
  u \in ToSet(operationsTable[i]) \cup {r.uuid : r \in ToSet(log[i])}

\* Mutants: the entry counted from prev instead of replicaTimestamp; counted
\* once more after replicaTimestamp was incremented.
NewRecordFromPrev(i, u, prev) ==
  [instance |-> i, prev |-> prev, uuid |-> u,
   timestamp |-> [prev EXCEPT ![i] = @ + 1]]
NewRecordCountedTwice(i, u, prev) ==
  [instance |-> i, prev |-> prev, uuid |-> u,
   timestamp |-> [prev EXCEPT ![i] = replicaTimestamp[i][i] + 2]]

NewRecord(i, u, prev) ==
  [instance |-> i, prev |-> prev, uuid |-> u,
   timestamp |-> [prev EXCEPT ![i] = replicaTimestamp[i][i] + 1]]

\* Mutant: a client keeps only the last timestamp it heard of.
LearnByReplacing(t) == known' = known \cup {t}

\* Clients that hear of timestamp t, alone or on top of what they know.
Learn(t) == known' = known \cup {Merge(s, t) : s \in known}

Add(i, u, prev) ==
  LET r == NewRecord(i, u, prev) IN
  /\ stage[i] = "free"
  /\ ~ AlreadyHere(i, u)
  /\ replicaTimestamp' = [replicaTimestamp EXCEPT ![i][i] = @ + 1]
  /\ log' = [log EXCEPT ![i] = Append(@, r)]
  /\ Invalidate(i)
  /\ execute(i, r)
  /\ accepted' = accepted \cup {r}
  /\ Learn(r.timestamp)
  /\ UNCHANGED <<tableTimestamps, lock, wire>>

AddAgain(i, u, prev) ==
  /\ stage[i] = "free"
  /\ AlreadyHere(i, u)
  /\ Learn(prev)
  /\ UNCHANGED <<value, lists, lock, thread, wire, accepted>>

(***************************************************************************)
(* receiveGossip: handles any request that has reached the replica, oldest *)
(* or not, once the lock is free.  It replaces the row of the source.      *)
(***************************************************************************)
ReceiveGossip(i, m) ==
  /\ stage[i] = "free"
  /\ m \in network /\ m.target = i
  /\ network' = network \ {m}
  /\ tableTimestamps' = [tableTimestamps EXCEPT ![i][m.source] = m.timestamp]
  /\ gossip' = [gossip EXCEPT ![i] = m]
  /\ todo' = [todo EXCEPT ![i] = m.log]
  /\ stage' = [stage EXCEPT ![i] = "records"]
  /\ UNCHANGED <<value, replicaTimestamp, log, thread, failures, ghost>>

\* The record is news: not executed here, and replicaTimestamp does not cover
\* it.  A record that is in the log already, unexecuted, may be news again.
News(i, r) ==
  /\ r.uuid \notin ToSet(operationsTable[i])
  /\ ~ Leq(r.timestamp, replicaTimestamp[i])

TakeRecord(i) ==
  /\ stage[i] = "records" /\ todo[i] # <<>>
  /\ todo' = [todo EXCEPT ![i] = Tail(@)]
  /\ \/ /\ News(i, Head(todo[i]))
        /\ log' = [log EXCEPT ![i] = Append(@, Head(todo[i]))]
        /\ Invalidate(i)
     \/ /\ ~ News(i, Head(todo[i]))
        /\ UNCHANGED <<log, thread>>
  /\ UNCHANGED <<value, replicaTimestamp, tableTimestamps, stage, gossip, wire,
                 ghost>>

MergeTimestamp(i) ==
  /\ stage[i] = "records" /\ todo[i] = <<>>
  /\ replicaTimestamp' =
       [replicaTimestamp EXCEPT ![i] = Merge(@, gossip[i].timestamp)]
  /\ stage' = [stage EXCEPT ![i] = "sort"]
  /\ UNCHANGED <<value, log, tableTimestamps, gossip, todo, thread, wire, ghost>>

(***************************************************************************)
(* sortLog.  Its comparator is not an order: it says "less" whenever some  *)
(* entry of prev is smaller.  All that the library's sort then guarantees  *)
(* is that no record comes right after one whose prev strictly dominates   *)
(* its own; SiloLogSort has the very order that it produces.  The array is *)
(* permuted in place, and the iterator invalidated when that is done.      *)
(***************************************************************************)
Rearrangements(s) ==
  {[k \in DOMAIN s |-> s[p[k]]] :
      p \in {f \in [DOMAIN s -> DOMAIN s] : IsInjective(f)}}

\* Mutant: the log is not sorted.
AdjacentUnsorted(s) == TRUE

Adjacent(s) ==
  \A k \in DOMAIN s : k > 1 => ~ Dominates(s[k - 1].prev, s[k].prev)

SortLog(i) ==
  /\ stage[i] = "sort"
  /\ \E s \in Rearrangements(log[i]) :
       Adjacent(s) /\ log' = [log EXCEPT ![i] = s]
  /\ stage' = [stage EXCEPT ![i] = "sorted"]
  /\ UNCHANGED <<value, replicaTimestamp, tableTimestamps, gossip, todo, thread,
                 wire, ghost>>

\* The sort is over; goThroughLog starts to visit the records.
StartExecution(i) ==
  /\ stage[i] = "sorted"
  /\ Invalidate(i)
  /\ todo' = [todo EXCEPT ![i] = log[i]]
  /\ stage' = [stage EXCEPT ![i] = "execute"]
  /\ UNCHANGED <<value, lists, gossip, wire, ghost>>

ExecuteRecord(i) ==
  /\ stage[i] = "execute" /\ todo[i] # <<>>
  /\ execute(i, Head(todo[i]))
  /\ todo' = [todo EXCEPT ![i] = Tail(@)]
  /\ UNCHANGED <<lists, stage, gossip, thread, wire, ghost>>

\* Mutant: an early return, without the clean-up and without an answer.
StartCleanupSkipped(i) ==
  /\ stage[i] = "execute" /\ todo[i] = <<>>
  /\ stage' = [stage EXCEPT ![i] = "free"]
  /\ UNCHANGED <<value, lists, gossip, todo, thread, wire, ghost>>

StartCleanup(i) ==
  /\ stage[i] = "execute" /\ todo[i] = <<>>
  /\ stage' = [stage EXCEPT ![i] = "cleanup"]
  /\ UNCHANGED <<value, lists, gossip, todo, thread, wire, ghost>>

(***************************************************************************)
(* cleanupLog: one by one, the records that every row covers are removed,  *)
(* executed or not.                                                        *)
(***************************************************************************)
Removable(i, r) ==
  \A k \in Replicas : r.timestamp[r.instance] <= Table(i, k)[r.instance]

RemoveRecord(i, n) ==
  /\ stage[i] = "cleanup"
  /\ n \in DOMAIN log[i]
  /\ Removable(i, log[i][n])
  /\ \A k \in 1 .. n - 1 : ~ Removable(i, log[i][k])
  /\ log' = [log EXCEPT ![i] = RemoveAt(@, n)]
  /\ Invalidate(i)
  /\ UNCHANGED <<value, replicaTimestamp, tableTimestamps, lock, wire, ghost>>

\* The update thread of i goes on with the next peer of its round.
NextPeer(i) == Idle(i, thread[i].round \ {thread[i].to})

\* The handler releases the lock and answers; the source, if it still awaits
\* the answer, goes on.
FinishGossip(i) ==
  LET j == gossip[i].source IN
  /\ stage[i] = "cleanup"
  /\ \A n \in DOMAIN log[i] : ~ Removable(i, log[i][n])
  /\ thread' = IF gossip[i].awaited
               THEN [thread EXCEPT ![j] = NextPeer(j)]
               ELSE thread
  /\ gossip' = [gossip EXCEPT ![i] = NoMessage]
  /\ stage' = [stage EXCEPT ![i] = "free"]
  /\ UNCHANGED <<value, lists, todo, wire, ghost>>

(***************************************************************************)
(* The update thread.                                                      *)
(***************************************************************************)
StartScan(i, k) ==
  /\ thread[i].pc = "idle" /\ k \in thread[i].round
  /\ thread' = [thread EXCEPT ![i] =
       [Idle(i, @.round) EXCEPT !.pc = "scan", !.to = k,
                                !.known = tableTimestamps[i][k]]]
  /\ UNCHANGED <<value, lists, lock, wire, ghost>>

\* Mutant: one too many is taken to be known to the peer.
UnknownOffByOne(t, r) == t.known[r.instance] + 1 < r.timestamp[r.instance]

\* The peer's row does not cover the record.
Unknown(t, r) == t.known[r.instance] < r.timestamp[r.instance]

\* Replica.gossip leaves out the reports that have no observations; since that
\* depends on the record alone, the model does it when the record is collected.
Sendable(r) == Payload[r.uuid].kind # "empty"

\* The body of the loop.
Collect(t, r) ==
  [t EXCEPT !.cursor = @ + 1,
            !.toSend = IF Unknown(t, r) /\ Sendable(r) THEN Append(@, r) ELSE @]

\* One turn of the iteration.  hasNext compares the cursor with the current
\* size; next throws ConcurrentModificationException, which nobody catches, if
\* the log was modified since the iterator was created.
ScanRecord(i) ==
  LET t == thread[i]
      r == log[i][t.cursor + 1] IN
  /\ t.pc = "scan" /\ t.cursor # Len(log[i])
  /\ \/ /\ t.fresh
        /\ thread' = [thread EXCEPT ![i] = Collect(t, r)]
     \/ /\ ~ t.fresh
        /\ thread' = [thread EXCEPT ![i] = Dead(i)]
  /\ UNCHANGED <<value, lists, lock, wire, ghost>>

\* Mutant: the peer's row is updated before the peer has answered.
FinishScanMarksPeer(i) ==
  /\ thread[i].pc = "scan" /\ thread[i].cursor = Len(log[i])
  /\ thread' = [thread EXCEPT ![i].pc = "read", ![i].from = replicaTimestamp[i]]
  /\ tableTimestamps' =
       [tableTimestamps EXCEPT ![i][thread[i].to] = replicaTimestamp[i]]
  /\ UNCHANGED <<value, replicaTimestamp, log, lock, wire, ghost>>

FinishScan(i) ==
  /\ thread[i].pc = "scan" /\ thread[i].cursor = Len(log[i])
  /\ thread' = [thread EXCEPT ![i].pc = "read", ![i].from = replicaTimestamp[i]]
  /\ UNCHANGED <<value, lists, lock, wire, ghost>>

\* Replica.gossip: reads replicaTimestamp entry by entry, sends the request and
\* waits for the answer.
SendGossip(i, ts) ==
  LET t == thread[i]
      m == [source |-> i, target |-> t.to, timestamp |-> ts, awaited |-> TRUE,
            log |-> t.toSend] IN
  /\ t.pc = "read"
  /\ ts \in Between(t.from, replicaTimestamp[i])
  /\ network' = network \cup {m}
  /\ thread' = [thread EXCEPT ![i] = [Idle(i, t.round) EXCEPT !.pc = "waiting",
                                                             !.to = t.to]]
  /\ UNCHANGED <<value, lists, lock, failures, ghost>>

(***************************************************************************)
(* The call fails with a StatusRuntimeException and the thread goes on.    *)
(* The request is lost, or it is still on its way or being handled and the *)
(* answer has nobody to go to.                                             *)
(***************************************************************************)
Abandon(m) == [m EXCEPT !.awaited = FALSE]

FailGossip(i) ==
  LET mine(m) == m # NoMessage /\ m.source = i /\ m.awaited IN
  /\ thread[i].pc = "waiting"
  /\ failures < MaxFailures /\ WithinBound
  /\ failures' = failures + 1
  /\ thread' = [thread EXCEPT ![i] = NextPeer(i)]
  /\ \/ network' = {m \in network : ~ mine(m)}
     \/ network' = {IF mine(m) THEN Abandon(m) ELSE m : m \in network}
  /\ gossip' = [k \in Replicas |->
                  IF mine(gossip[k]) THEN Abandon(gossip[k]) ELSE gossip[k]]
  /\ UNCHANGED <<value, lists, stage, todo, ghost>>

-------------------------------------------------------------------------------
HandlerStep(i) ==
  \/ \E m \in network : ReceiveGossip(i, m)
  \/ TakeRecord(i)
  \/ MergeTimestamp(i)
  \/ SortLog(i)
  \/ StartExecution(i)
  \/ ExecuteRecord(i)
  \/ StartCleanup(i)
  \/ \E n \in DOMAIN log[i] : RemoveRecord(i, n)
  \/ FinishGossip(i)

ThreadStep(i) ==
  \/ \E k \in Peers(i) : StartScan(i, k)
  \/ ScanRecord(i)
  \/ FinishScan(i)
  \/ \E ts \in Between(thread[i].from, replicaTimestamp[i]) : SendGossip(i, ts)

\* The frontend makes a new UUID for every attempt.  With Resending, the same
\* request may come to several replicas (bound: to each of them once).
MaySend(i, u) ==
  /\ WithinBound
  /\ \A q \in accepted : q.uuid = u => Resending /\ q.instance # i

ClientStep(i) ==
  \E u \in Updates, prev \in known :
    MaySend(i, u) /\ (Add(i, u, prev) \/ AddAgain(i, u, prev))

Next ==
  \E i \in Replicas :
    ClientStep(i) \/ HandlerStep(i) \/ ThreadStep(i) \/ FailGossip(i)

Spec == Init /\ [][Next]_vars

-------------------------------------------------------------------------------
(***************************************************************************)
(* Properties of every behaviour.                                          *)
(***************************************************************************)

Inside(i) ==
  thread[i].pc = "scan" /\ thread[i].fresh => thread[i].cursor <= Len(log[i])

\* The types of the variables, the link between the lock and what its holder
\* works on, and that an iterator that is still valid is inside the log.
TypeOK ==
  /\ valueTimestamp \in [Replicas -> Vector]
  /\ cameras \in [Replicas -> [Cameras -> Places \cup {NoPlace}]]
  /\ observations \in [Replicas -> SUBSET Updates]
  /\ operationsTable \in [Replicas -> Seq(Updates)]
  /\ replicaTimestamp \in [Replicas -> Vector]
  /\ log \in [Replicas -> Seq(Record)]
  /\ tableTimestamps \in [Replicas -> [Replicas -> Vector]]
  /\ stage \in [Replicas -> Stages]
  /\ gossip \in [Replicas -> Message \cup {NoMessage}]
  /\ todo \in [Replicas -> Seq(Record)]
  /\ thread \in [Replicas -> Thread]
  /\ network \subseteq Message
  /\ failures \in Nat
  /\ accepted \subseteq Record
  /\ known \subseteq Vector
  /\ \A i \in Replicas : stage[i] = "free" <=> gossip[i] = NoMessage
  /\ \A i \in Replicas : Inside(i)

\* Origin(k) is how many updates replica k itself has accepted.
Origin == [k \in Replicas |-> replicaTimestamp[k][k]]

\* No timestamp counts an update that its replica has not accepted: not those
\* a replica holds, not those on the way, not those a client may come with.
\* Everything the protocol concludes from a comparison rests on this.
NoFuture ==
  /\ \A i \in Replicas :
       /\ Leq(valueTimestamp[i], Origin)
       /\ Leq(replicaTimestamp[i], Origin)
       /\ \A k \in Replicas : Leq(tableTimestamps[i][k], Origin)
       /\ \A r \in ToSet(log[i]) : Leq(r.timestamp, Origin)
  /\ \A m \in network : Leq(m.timestamp, Origin)
  /\ \A t \in known : Leq(t, Origin)

\* "Create a unique timestamp to represent the operation from now on": two
\* updates accepted anywhere, at any time, never carry the same timestamp,
\* and the entry of its own replica alone tells them apart.
UniqueTimestamps ==
  \A r, q \in accepted :
    /\ r.instance = q.instance
    /\ r.timestamp[r.instance] = q.timestamp[q.instance]
    => r = q

\* A replica executes an update at most once, although gossip repeats it until
\* the peer's row covers it and an unexecuted record can be in the log twice.
AtMostOnce == \A i \in Replicas : IsInjective(operationsTable[i])

\* What a replica has executed is always something a client can name: a read
\* returns no timestamp that mixes entries no client could have put together.
ValueIsKnown == \A i \in Replicas : valueTimestamp[i] \in known

\* A replica never takes back what it counts: neither its value nor what it
\* has accepted goes backwards, and executed operations stay executed.
NeverBack ==
  [][\A i \in Replicas :
       /\ Leq(valueTimestamp[i], valueTimestamp'[i])
       /\ Leq(replicaTimestamp[i], replicaTimestamp'[i])
       /\ IsPrefix(operationsTable[i], operationsTable'[i])]_vars

-------------------------------------------------------------------------------
(***************************************************************************)
(* Properties of the protocol, when the update thread reads the log and    *)
(* the timestamp at one moment and did not die at the start.  The code     *)
(* ensures neither.  In a serial behaviour at most one thread at a time is *)
(* handling gossip or between its scan and its request; handlers of two    *)
(* replicas share no state, so running one after the other loses nothing.  *)
(***************************************************************************)
Active ==
  {<<"handler", i>> : i \in {k \in Replicas : stage[k] # "free"}} \cup
  {<<"thread", i>> : i \in {k \in Replicas : thread[k].pc \in {"scan", "read"}}}

Serial ==
  /\ Cardinality(Active') <= 1
  /\ Active # {} => accepted' = accepted

InitAlive == Init /\ \A i \in Replicas : thread[i].pc = "idle"

SerialSpec == InitAlive /\ [][Next /\ Serial]_vars

Executed(i) == ToSet(operationsTable[i])

\* A replica that counts an update has it: executed, or in the log to be
\* executed.  Were it neither, no replica would ever send it again.
CountedIsHere ==
  \A i \in Replicas, r \in accepted :
    stage[i] = "free" /\ r.timestamp[r.instance] <= replicaTimestamp[i][r.instance]
    => r.uuid \in Executed(i) \/ r \in ToSet(log[i])

\* "The record can be safely removed from the log since all replicas already
\* received that information": once the replica that accepted an update has
\* dropped its record, no replica lacks it.
RemovedIsEverywhere ==
  \A i \in Replicas, r \in accepted :
    stage[i] = "free" /\ r \notin ToSet(log[r.instance])
    => r.uuid \in Executed(i) \/ r \in ToSet(log[i])

\* A read that a replica does not hold back reflects everything its client
\* knows of: an update covered by the value is part of the value, and "This must
\* not happen" is true: no observation is dropped whose client knew of the camera.
ReadsAreComplete ==
  /\ \A i \in Replicas, r \in accepted :
       stage[i] = "free" /\ Leq(r.timestamp, valueTimestamp[i])
       => r.uuid \in Executed(i)
  /\ \A i \in Replicas, r, q \in accepted :
       /\ r.uuid \in Executed(i) /\ Payload[r.uuid].kind = "observations"
       /\ Payload[q.uuid].kind = "camera"
       /\ Payload[q.uuid].name = Payload[r.uuid].name
       /\ Leq(q.timestamp, r.prev)
       => r.uuid \in observations[i]

\* Nothing that could be executed is left in the log when the lock is free,
\* although add executes only its own record and the log is walked once.
NothingLeft ==
  \A i \in Replicas :
    stage[i] = "free" => \A r \in ToSet(log[i]) : ~ Executable(i, r)

\* What these properties need for any number of replicas and updates: no record
\* comes out of a sort before one that it depends on, which the comparator does not
\* ensure, and no report is empty and no request sent to two replicas.
Ordered(s) == \A m, n \in DOMAIN s : m < n => ~ Leq(s[n].timestamp, s[m].prev)

SortedByDependency == \A i \in Replicas : stage[i] = "sorted" => Ordered(log[i])

PlainRequests == ~ Resending /\ \A u \in Updates : Payload[u].kind # "empty"

-------------------------------------------------------------------------------
(***************************************************************************)
(* Progress.  The server's threads are scheduled fairly and gRPC delivers  *)
(* a request or reports its failure.  Serial makes threads take turns that *)
(* the code does not make them take, so there fairness is strong: a thread *)
(* that could run again and again gets its turn.  Clients promise nothing. *)
(***************************************************************************)
FairSerialSpec ==
  /\ SerialSpec
  /\ \A i \in Replicas : /\ SF_vars(HandlerStep(i) /\ Serial)
                         /\ SF_vars(ThreadStep(i) /\ Serial)

\* "All replicas end up receiving all the information, eventually": an update
\* that a replica has accepted is in the end executed by every replica.  A
\* report without observations carries no information.
Delivered ==
  \A u \in Updates, i \in Replicas :
    u \in {r.uuid : r \in accepted} /\ Payload[u].kind # "empty"
      ~> u \in Executed(i)
===============================================================================
