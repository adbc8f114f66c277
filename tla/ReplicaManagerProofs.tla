------------------------- MODULE ReplicaManagerProofs -------------------------
(***************************************************************************)
(* Proofs about the replica managers, for any replicas and any updates:    *)
(* facts about timestamps and logs, types, the safety properties that hold *)
(* in every behaviour whatever the threads, the network and the clients    *)
(* do; then, for serial behaviours with logs sorted by dependency, the     *)
(* properties of the protocol and the refinement of CausalStore.           *)
(***************************************************************************)
EXTENDS CausalStoreMapping, SequenceTheorems, FiniteSetTheorems, WellFoundedInduction, TLAPS

-------------------------------------------------------------------------------
(***************************************************************************)
(* Vector timestamps, and the sequences that hold update records.          *)
(***************************************************************************)

\* The timestamp of a replica that has seen nothing is a timestamp.
LEMMA ZeroIsVector == Zero \in Vector
  BY DEF Zero, Vector

\* The entry-wise maximum of execute and receiveGossip is a timestamp.
LEMMA MergeIsVector ==
  ASSUME NEW s \in Vector, NEW t \in Vector
  PROVE  Merge(s, t) \in Vector
  BY DEF Merge, Vector

\* The maximum is reached by nothing that does not reach both timestamps.
LEMMA MergeIsLeast ==
  ASSUME NEW s, NEW t, NEW u, Leq(s, u), Leq(t, u)
  PROVE  Leq(Merge(s, t), u)
  BY DEF Merge, Leq

\* The maximum reaches both timestamps.
LEMMA MergeIsUpper ==
  ASSUME NEW s \in Vector, NEW t \in Vector
  PROVE  Leq(s, Merge(s, t)) /\ Leq(t, Merge(s, t))
  BY DEF Merge, Leq, Vector

\* validTimestamp compares transitively.
LEMMA LeqTransitive ==
  ASSUME NEW s \in Vector, NEW t \in Vector, NEW u \in Vector, Leq(s, t), Leq(t, u)
  PROVE  Leq(s, u)
<1> SUFFICES ASSUME NEW k \in Replicas
             PROVE  s[k] <= u[k]
  BY DEF Leq
<1>1. s[k] \in Nat /\ t[k] \in Nat /\ u[k] \in Nat
  BY DEF Vector
<1>2. s[k] <= t[k] /\ t[k] <= u[k]
  BY DEF Leq
<1> QED BY <1>1, <1>2

\* A timestamp reaches itself.
LEMMA LeqReflexive ==
  ASSUME NEW s \in Vector
  PROVE  Leq(s, s)
  BY DEF Leq, Vector

\* What is read from a list of counters while it grows is a timestamp that
\* lies between what the list was and what it has become.
LEMMA BetweenIsVector ==
  ASSUME NEW s \in Vector, NEW t \in Vector, NEW v \in Between(s, t)
  PROVE  v \in Vector /\ Leq(s, v) /\ Leq(v, t)
<1>1. UNION {s[k] .. t[k] : k \in Replicas} \subseteq Nat
  BY DEF Vector
<1>2. v \in [Replicas -> UNION {s[k] .. t[k] : k \in Replicas}]
  BY DEF Between
<1>3. v \in Vector
  BY <1>1, <1>2 DEF Vector
<1> QED BY <1>3 DEF Between

-------------------------------------------------------------------------------
\* A record appended to a list is its only new element.
LEMMA ToSetAppend ==
  ASSUME NEW S, NEW s \in Seq(S), NEW e \in S
  PROVE  ToSet(Append(s, e)) = ToSet(s) \cup {e}
<1> DEFINE a == Append(s, e)
<1>1. /\ Len(a) = Len(s) + 1
      /\ \A k \in 1 .. Len(s) : a[k] = s[k]
      /\ a[Len(s) + 1] = e
      /\ a \in Seq(S)
  BY AppendProperties
<1>2. /\ Len(s) \in Nat
      /\ DOMAIN s = 1 .. Len(s)
      /\ DOMAIN a = 1 .. Len(s) + 1
  BY <1>1, LenProperties
<1> HIDE DEF a
<1>3. ASSUME NEW x \in ToSet(a) PROVE x \in ToSet(s) \cup {e}
  BY <1>1, <1>2 DEF ToSet
<1>4. ASSUME NEW x \in ToSet(s) \cup {e} PROVE x \in ToSet(a)
  BY <1>1, <1>2 DEF ToSet
<1> QED BY <1>3, <1>4 DEF a

\* What is left of a list after its first element was in the list.
LEMMA ToSetTail ==
  ASSUME NEW S, NEW s \in Seq(S), s # <<>>
  PROVE  /\ Head(s) \in ToSet(s)
         /\ ToSet(Tail(s)) \subseteq ToSet(s)
  BY DEF ToSet

\* The elements of a list of records are records.
LEMMA ToSetTyped ==
  ASSUME NEW S, NEW s \in Seq(S)
  PROVE  ToSet(s) \subseteq S
  BY DEF ToSet

\* Nothing is in an empty list.
LEMMA ToSetEmpty == ToSet(<<>>) = {}
  BY DEF ToSet

\* What remains when an element is removed.
LEMMA RemoveAtElements ==
  ASSUME NEW S, NEW s \in Seq(S), NEW n \in DOMAIN s
  PROVE  /\ RemoveAt(s, n) \in Seq(S)
         /\ DOMAIN RemoveAt(s, n) = 1 .. Len(s) - 1
         /\ \A k \in 1 .. Len(s) - 1 : RemoveAt(s, n)[k] = IF k < n THEN s[k] ELSE s[k + 1]
         /\ Len(s) \in Nat /\ DOMAIN s = 1 .. Len(s) /\ n \in 1 .. Len(s)
<1> DEFINE a == SubSeq(s, 1, n - 1)
           b == SubSeq(s, n + 1, Len(s))
<1>1. /\ a \in Seq(S) /\ Len(a) = n - 1
      /\ b \in Seq(S) /\ Len(b) = Len(s) - n
      /\ \A k \in 1 .. n - 1 : a[k] = s[k]
      /\ \A k \in 1 .. Len(s) - n : b[k] = s[n + k]
      /\ Len(s) \in Nat /\ DOMAIN s = 1 .. Len(s) /\ n \in 1 .. Len(s)
  OBVIOUS
<1>2. RemoveAt(s, n) = a \o b
  BY DEF RemoveAt
<1> HIDE DEF a, b
<1>3. /\ Len(a \o b) = Len(a) + Len(b) /\ a \o b \in Seq(S)
      /\ \A k \in 1 .. Len(a) + Len(b) :
           (a \o b)[k] = IF k <= Len(a) THEN a[k] ELSE b[k - Len(a)]
  BY <1>1, ConcatProperties
<1>4. Len(a) + Len(b) = Len(s) - 1
  BY <1>1
<1>5. ASSUME NEW k \in 1 .. Len(s) - 1 PROVE (a \o b)[k] = IF k < n THEN s[k] ELSE s[k + 1]
  <2>1. (a \o b)[k] = IF k <= Len(a) THEN a[k] ELSE b[k - Len(a)]
    BY <1>3, <1>4
  <2>2. CASE k < n
    <3>1. k \in 1 .. n - 1 /\ k <= n - 1
      BY <1>1, <2>2
    <3> QED BY <1>1, <2>1, <2>2, <3>1
  <2>3. CASE ~ (k < n)
    <3>1. /\ k - (n - 1) \in 1 .. Len(s) - n /\ ~ (k <= n - 1)
          /\ n + (k - (n - 1)) = k + 1
      BY <1>1, <2>3
    <3>2. (a \o b)[k] = b[k - (n - 1)]
      BY <1>1, <2>1, <3>1
    <3> QED BY <1>1, <2>3, <3>1, <3>2
  <2> QED BY <2>2, <2>3
<1>6. DOMAIN (a \o b) = 1 .. Len(s) - 1
  BY <1>3, <1>4, LenProperties
<1> QED BY <1>1, <1>2, <1>3, <1>5, <1>6

\* Removing an element leaves a list of elements that were there.
LEMMA RemoveAtTyped ==
  ASSUME NEW S, NEW s \in Seq(S), NEW n \in DOMAIN s
  PROVE  /\ RemoveAt(s, n) \in Seq(S)
         /\ ToSet(RemoveAt(s, n)) \subseteq ToSet(s)
<1> DEFINE t == RemoveAt(s, n)
<1>1. /\ t \in Seq(S) /\ DOMAIN t = 1 .. Len(s) - 1
      /\ \A k \in 1 .. Len(s) - 1 : t[k] = IF k < n THEN s[k] ELSE s[k + 1]
      /\ Len(s) \in Nat /\ DOMAIN s = 1 .. Len(s)
  BY RemoveAtElements
<1> HIDE DEF t
<1>2. ASSUME NEW k \in DOMAIN t PROVE \E l \in DOMAIN s : t[k] = s[l]
  <2>1. k \in DOMAIN s /\ k + 1 \in DOMAIN s
    BY <1>1
  <2> QED BY <1>1, <2>1
<1>3. ToSet(t) \subseteq ToSet(s)
  BY <1>2 DEF ToSet
<1> QED BY <1>1, <1>3 DEF t

-------------------------------------------------------------------------------
(***************************************************************************)
(* Types.                                                                  *)
(***************************************************************************)

\* The state of an update thread between two visits is a thread state.
LEMMA IdleTyped ==
  ASSUME NEW i \in Replicas, NEW round \in SUBSET Replicas
  PROVE  /\ Idle(i, round) \in Thread
         /\ [Idle(i, round) EXCEPT !.pc = "waiting"] \in Thread
         /\ Dead(i) \in Thread
<1>1. Peers(i) \subseteq Replicas
  BY DEF Peers
<1>2. <<>> \in Seq(Record)
  OBVIOUS
<1> QED BY <1>1, <1>2, ZeroIsVector DEF Idle, Dead, Thread

\* add builds a record.
LEMMA NewRecordTyped ==
  ASSUME TypeOK, NEW i \in Replicas, NEW u \in Updates, NEW prev \in Vector
  PROVE  NewRecord(i, u, prev) \in Record
  BY DEF TypeOK, NewRecord, Record, Vector

\* execute leaves the value well typed.
LEMMA executeTyped ==
  ASSUME TypeOK, NEW i \in Replicas, NEW r \in Record, execute(i, r)
  PROVE  /\ valueTimestamp' \in [Replicas -> Vector]
         /\ cameras' \in [Replicas -> [Cameras -> Places \cup {NoPlace}]]
         /\ observations' \in [Replicas -> SUBSET Updates]
         /\ operationsTable' \in [Replicas -> Seq(Updates)]
<1>1. CASE Executable(i, r)
  <2>1. Payload[r.uuid] \in Content /\ r.uuid \in Updates /\ r.timestamp \in Vector
    BY PayloadAssumption DEF Record
  <2>2. executeAux(i, r)
    BY <1>1 DEF execute
  <2>3. cameras' \in [Replicas -> [Cameras -> Places \cup {NoPlace}]]
    <3> DEFINE content == Payload[r.uuid]
    <3>1. content.name \in Cameras /\ content.place \in Places \cup {NoPlace}
      BY <2>1 DEF Content
    <3>2. \/ cameras' = cameras
          \/ cameras' = [cameras EXCEPT ![i][content.name] = content.place]
      BY <2>2 DEF executeAux
    <3> DEFINE c == content.name  p == content.place
    <3>3. c \in Cameras /\ p \in Places \cup {NoPlace}
      BY <3>1
    <3>4. cameras' = cameras \/ cameras' = [cameras EXCEPT ![i] = [@ EXCEPT ![c] = p]]
      BY <3>2
    <3> HIDE DEF content, c, p
    <3>5. [cameras[i] EXCEPT ![c] = p] \in [Cameras -> Places \cup {NoPlace}]
      BY <3>3 DEF TypeOK
    <3> QED BY <3>4, <3>5 DEF TypeOK
  <2>4. observations' \in [Replicas -> SUBSET Updates]
    BY <2>1, <2>2 DEF TypeOK, executeAux
  <2>5. Merge(valueTimestamp[i], r.timestamp) \in Vector
    BY <2>1, MergeIsVector DEF TypeOK
  <2>6. valueTimestamp' \in [Replicas -> Vector]
    BY <1>1, <2>5 DEF TypeOK, execute
  <2>7. operationsTable' \in [Replicas -> Seq(Updates)]
    <3>1. Append(operationsTable[i], r.uuid) \in Seq(Updates)
      BY <2>1, AppendProperties DEF TypeOK
    <3> QED BY <1>1, <3>1 DEF TypeOK, execute
  <2> QED BY <2>3, <2>4, <2>6, <2>7
<1>2. CASE ~ Executable(i, r)
  BY <1>2 DEF TypeOK, execute, value
<1> QED BY <1>1, <1>2

\* Starting a scan, starting to read the timestamp and advancing the iterator
\* leave a thread state.
LEMMA ScanTyped ==
  ASSUME NEW t \in Thread, NEW k \in Replicas, NEW v \in Vector
  PROVE  /\ [t EXCEPT !.pc = "scan", !.to = k, !.known = v] \in Thread
         /\ [t EXCEPT !.pc = "scan", !.to = k, !.known = v].cursor = t.cursor
  BY DEF Thread

LEMMA ReadTyped ==
  ASSUME NEW t \in Thread, NEW v \in Vector
  PROVE  /\ [t EXCEPT !.pc = "read", !.from = v] \in Thread
         /\ [t EXCEPT !.pc = "read", !.from = v].pc = "read"
  BY DEF Thread

LEMMA CollectTyped ==
  ASSUME NEW t \in Thread, NEW r \in Record
  PROVE  /\ Collect(t, r) \in Thread
         /\ Collect(t, r).cursor = t.cursor + 1
<1> DEFINE s == IF Unknown(t, r) /\ Sendable(r) THEN Append(t.toSend, r) ELSE t.toSend
           c == t.cursor + 1
<1>1. s \in Seq(Record) /\ c \in Nat
  <2>1. t.toSend \in Seq(Record) /\ t.cursor \in Nat
    BY DEF Thread
  <2> QED BY <2>1, AppendProperties
<1>2. Collect(t, r) = [t EXCEPT !.cursor = c, !.toSend = s]
  BY DEF Collect
<1> HIDE DEF s, c
<1>3. /\ [t EXCEPT !.cursor = c, !.toSend = s] \in Thread
      /\ [t EXCEPT !.cursor = c, !.toSend = s].cursor = c
  BY <1>1 DEF Thread
<1> QED BY <1>2, <1>3 DEF c

\* An invalidated iterator leaves the thread well typed.
LEMMA InvalidateTyped ==
  ASSUME TypeOK, NEW i \in Replicas, Invalidate(i)
  PROVE  /\ thread' \in [Replicas -> Thread]
         /\ ~ (thread'[i].pc = "scan" /\ thread'[i].fresh)
         /\ \A k \in Replicas \ {i} : thread'[k] = thread[k]
<1> DEFINE b == thread[i].fresh /\ thread[i].pc # "scan"
<1>1. b \in BOOLEAN
  OBVIOUS
<1>2. thread' = [thread EXCEPT ![i] = [thread[i] EXCEPT !.fresh = b]]
  BY DEF Invalidate, TypeOK
<1>3. thread[i] \in Thread
  BY DEF TypeOK
<1> HIDE DEF b
<1>4. [thread[i] EXCEPT !.fresh = b] \in Thread
  BY <1>1, <1>3 DEF Thread
<1>5. thread' \in [Replicas -> Thread] /\ \A k \in Replicas \ {i} : thread'[k] = thread[k]
  BY <1>2, <1>4 DEF TypeOK
<1>6. thread'[i].pc = thread[i].pc /\ thread'[i].fresh = b
  BY <1>2, <1>3 DEF TypeOK, Thread
<1> QED BY <1>5, <1>6 DEF b

\* A rearranged log is a log with the same records.
LEMMA RearrangementsTyped ==
  ASSUME NEW S, NEW s \in Seq(S), NEW t \in Rearrangements(s)
  PROVE  t \in Seq(S) /\ ToSet(t) \subseteq ToSet(s) /\ Len(t) = Len(s)
<1>1. PICK p \in [DOMAIN s -> DOMAIN s] : t = [k \in DOMAIN s |-> s[p[k]]]
  BY DEF Rearrangements
<1>2. DOMAIN s = 1 .. Len(s) /\ Len(s) \in Nat
  BY LenProperties
<1>3. t \in [1 .. Len(s) -> S]
  BY <1>1, <1>2
<1>4. t \in Seq(S)
  BY <1>2, <1>3 
<1>5. ToSet(t) \subseteq ToSet(s)
  BY <1>1 DEF ToSet
<1>6. Len(t) = Len(s)
  BY <1>2, <1>3
<1> QED BY <1>4, <1>5, <1>6

\* Cursors stay inside the logs when neither changes, and when the iterator of
\* the one log that changes is no longer valid.
LEMMA InsideKept ==
  ASSUME TypeOK, NEW i \in Replicas,
         \A k \in Replicas \ {i} : log'[k] = log[k] /\ thread'[k] = thread[k],
         \/ ~ (thread'[i].pc = "scan" /\ thread'[i].fresh)
         \/ thread'[i] = thread[i] /\ Len(log'[i]) = Len(log[i])
  PROVE  \A k \in Replicas : Inside(k)'
  BY DEF TypeOK, Inside

\* The constructor creates well typed lists.
LEMMA TypeInit == Init => TypeOK
<1> SUFFICES ASSUME Init PROVE TypeOK
  OBVIOUS
<1>1. thread \in [Replicas -> Thread]
  BY IdleTyped DEF Init
<1>2. \A i \in Replicas : stage[i] = "free" /\ gossip[i] = NoMessage
  BY DEF Init
<1>3. /\ valueTimestamp \in [Replicas -> Vector]
      /\ replicaTimestamp \in [Replicas -> Vector]
      /\ tableTimestamps \in [Replicas -> [Replicas -> Vector]]
      /\ known \subseteq Vector
  BY ZeroIsVector DEF Init
<1>4. /\ cameras \in [Replicas -> [Cameras -> Places \cup {NoPlace}]]
      /\ observations \in [Replicas -> SUBSET Updates]
      /\ operationsTable \in [Replicas -> Seq(Updates)]
  BY DEF Init
<1>5. /\ log \in [Replicas -> Seq(Record)]
      /\ todo \in [Replicas -> Seq(Record)]
      /\ stage \in [Replicas -> Stages]
      /\ gossip \in [Replicas -> Message \cup {NoMessage}]
  BY DEF Init, Stages
<1>6. network \subseteq Message /\ failures \in Nat /\ accepted \subseteq Record
  BY DEF Init
<1>7. \A i \in Replicas : thread[i].pc # "scan"
  <2>1. \A i : Idle(i, {}).pc = "idle" /\ Dead(i).pc = "dead"
    BY DEF Idle, Dead
  <2> QED BY <2>1 DEF Init
<1> QED BY <1>1, <1>2, <1>3, <1>4, <1>5, <1>6, <1>7 DEF TypeOK, Inside
\* Every step leaves the lists well typed.
LEMMA TypeNext == TypeOK /\ [Next]_vars => TypeOK'
<1> SUFFICES ASSUME TypeOK, [Next]_vars PROVE TypeOK'
  OBVIOUS
<1> USE DEF value, lists, lock, wire, ghost
<1>1. ASSUME NEW i \in Replicas, NEW u \in Updates, NEW prev \in known, Add(i, u, prev)
      PROVE  TypeOK'
  <2> DEFINE r == NewRecord(i, u, prev)
  <2>1. prev \in Vector /\ r \in Record /\ r.timestamp \in Vector
    BY NewRecordTyped DEF TypeOK, Record
  <2> HIDE DEF r
  <2>2. /\ valueTimestamp' \in [Replicas -> Vector]
        /\ cameras' \in [Replicas -> [Cameras -> Places \cup {NoPlace}]]
        /\ observations' \in [Replicas -> SUBSET Updates]
        /\ operationsTable' \in [Replicas -> Seq(Updates)]
    BY <1>1, <2>1, executeTyped DEF Add, r
  <2>3. replicaTimestamp' \in [Replicas -> Vector]
    BY <1>1 DEF Add, TypeOK, Vector
  <2>4. log' \in [Replicas -> Seq(Record)]
    <3>1. Append(log[i], r) \in Seq(Record)
      BY <2>1, AppendProperties DEF TypeOK
    <3> QED BY <1>1, <3>1 DEF Add, TypeOK, r
  <2>5. thread' \in [Replicas -> Thread]
    BY <1>1, InvalidateTyped DEF Add
  <2>6. known' \subseteq Vector /\ accepted' \subseteq Record
    BY <1>1, <2>1, MergeIsVector DEF Add, Learn, TypeOK, r
  <2>9. \A k \in Replicas : Inside(k)'
    BY <1>1, InvalidateTyped, InsideKept DEF Add, TypeOK
  <2> QED BY <1>1, <2>9, <2>2, <2>3, <2>4, <2>5, <2>6 DEF Add, TypeOK
<1>17. ASSUME NEW i \in Replicas, NEW u \in Updates, NEW prev \in known, AddAgain(i, u, prev)
       PROVE  TypeOK'
  <2>1. known' \subseteq Vector
    BY <1>17, MergeIsVector DEF AddAgain, Learn, TypeOK
  <2> QED BY <1>17, <2>1 DEF AddAgain, TypeOK, Inside
<1>2. ASSUME NEW i \in Replicas, NEW m \in network, ReceiveGossip(i, m)
      PROVE  TypeOK'
  <2>1. m \in Message /\ m # NoMessage
    BY NoMessageAssumption DEF TypeOK
  <2>2. m.source \in Replicas /\ m.timestamp \in Vector /\ m.log \in Seq(Record)
    BY <2>1 DEF Message
  <2>3. tableTimestamps' \in [Replicas -> [Replicas -> Vector]]
    BY <1>2, <2>2 DEF ReceiveGossip, TypeOK
  <2>4. /\ todo' \in [Replicas -> Seq(Record)]
        /\ gossip' \in [Replicas -> Message \cup {NoMessage}]
        /\ stage' \in [Replicas -> Stages]
        /\ network' \subseteq Message
    BY <1>2, <2>1, <2>2 DEF ReceiveGossip, TypeOK, Stages
  <2>5. \A k \in Replicas : stage'[k] = "free" <=> gossip'[k] = NoMessage
    BY <1>2, <2>1 DEF ReceiveGossip, TypeOK
  <2>9. \A k \in Replicas : Inside(k)'
    BY <1>2 DEF ReceiveGossip, TypeOK, Inside
  <2> QED BY <1>2, <2>9, <2>3, <2>4, <2>5 DEF ReceiveGossip, TypeOK
<1>3. ASSUME NEW i \in Replicas, TakeRecord(i)
      PROVE  TypeOK'
  <2>1. Head(todo[i]) \in Record /\ Tail(todo[i]) \in Seq(Record)
    BY <1>3, HeadTailProperties DEF TakeRecord, TypeOK
  <2>2. todo' \in [Replicas -> Seq(Record)]
    BY <1>3, <2>1 DEF TakeRecord, TypeOK
  <2>3. log' \in [Replicas -> Seq(Record)]
    <3>1. Append(log[i], Head(todo[i])) \in Seq(Record)
      BY <2>1, AppendProperties DEF TypeOK
    <3> QED BY <1>3, <3>1 DEF TakeRecord, TypeOK
  <2>4. thread' \in [Replicas -> Thread]
    BY <1>3, InvalidateTyped DEF TakeRecord, TypeOK
  <2>9. \A k \in Replicas : Inside(k)'
    <3>1. CASE Invalidate(i)
      BY <1>3, <3>1, InvalidateTyped, InsideKept DEF TakeRecord, TypeOK
    <3>2. CASE UNCHANGED <<log, thread>>
      BY <3>2 DEF TypeOK, Inside
    <3> QED BY <1>3, <3>1, <3>2 DEF TakeRecord
  <2> QED BY <1>3, <2>9, <2>2, <2>3, <2>4 DEF TakeRecord, TypeOK
<1>4. ASSUME NEW i \in Replicas, MergeTimestamp(i)
      PROVE  TypeOK'
  <2>1. gossip[i] \in Message
    BY <1>4 DEF MergeTimestamp, TypeOK
  <2>2. Merge(replicaTimestamp[i], gossip[i].timestamp) \in Vector
    BY <2>1, MergeIsVector DEF TypeOK, Message
  <2>3. replicaTimestamp' \in [Replicas -> Vector]
    BY <1>4, <2>2 DEF MergeTimestamp, TypeOK
  <2>9. \A k \in Replicas : Inside(k)'
    BY <1>4 DEF MergeTimestamp, TypeOK, Inside
  <2> QED BY <1>4, <2>9, <2>3 DEF MergeTimestamp, TypeOK, Stages
<1>5. ASSUME NEW i \in Replicas, SortLog(i)
      PROVE  TypeOK'
  <2>1. log' \in [Replicas -> Seq(Record)]
    BY <1>5, RearrangementsTyped DEF SortLog, TypeOK
  <2>9. \A k \in Replicas : Inside(k)'
    <3>1. Len(log'[i]) = Len(log[i])
      BY <1>5, RearrangementsTyped DEF SortLog, TypeOK
    <3> QED BY <1>5, <3>1, InsideKept DEF SortLog, TypeOK
  <2> QED BY <1>5, <2>9, <2>1 DEF SortLog, TypeOK, Stages
<1>6. ASSUME NEW i \in Replicas, StartExecution(i)
      PROVE  TypeOK'
  <2>1. thread' \in [Replicas -> Thread]
    BY <1>6, InvalidateTyped DEF StartExecution
  <2>9. \A k \in Replicas : Inside(k)'
    <3>1. Invalidate(i) /\ log' = log
      BY <1>6 DEF StartExecution
    <3>2. /\ ~ (thread'[i].pc = "scan" /\ thread'[i].fresh)
          /\ \A k \in Replicas \ {i} : thread'[k] = thread[k]
      BY <3>1, InvalidateTyped
    <3> QED BY <3>1, <3>2, InsideKept
  <2> QED BY <1>6, <2>9, <2>1 DEF StartExecution, TypeOK, Stages
<1>7. ASSUME NEW i \in Replicas, ExecuteRecord(i)
      PROVE  TypeOK'
  <2>1. Head(todo[i]) \in Record /\ Tail(todo[i]) \in Seq(Record)
    BY <1>7, HeadTailProperties DEF ExecuteRecord, TypeOK
  <2>2. /\ valueTimestamp' \in [Replicas -> Vector]
        /\ cameras' \in [Replicas -> [Cameras -> Places \cup {NoPlace}]]
        /\ observations' \in [Replicas -> SUBSET Updates]
        /\ operationsTable' \in [Replicas -> Seq(Updates)]
    BY <1>7, <2>1, executeTyped DEF ExecuteRecord
  <2>9. \A k \in Replicas : Inside(k)'
    BY <1>7 DEF ExecuteRecord, TypeOK, Inside
  <2> QED BY <1>7, <2>9, <2>1, <2>2 DEF ExecuteRecord, TypeOK
<1>8. ASSUME NEW i \in Replicas, StartCleanup(i)
      PROVE  TypeOK'
  <2>9. \A k \in Replicas : Inside(k)'
    BY <1>8 DEF StartCleanup, TypeOK, Inside
  <2> QED BY <1>8, <2>9 DEF StartCleanup, TypeOK, Stages
<1>9. ASSUME NEW i \in Replicas, NEW n \in DOMAIN log[i], RemoveRecord(i, n)
      PROVE  TypeOK'
  <2>1. RemoveAt(log[i], n) \in Seq(Record)
    BY RemoveAtTyped DEF TypeOK
  <2>2. thread' \in [Replicas -> Thread]
    BY <1>9, InvalidateTyped DEF RemoveRecord
  <2>9. \A k \in Replicas : Inside(k)'
    <3>1. Invalidate(i) /\ log' = [log EXCEPT ![i] = RemoveAt(log[i], n)]
      BY <1>9 DEF RemoveRecord
    <3>2. \A k \in Replicas \ {i} : log'[k] = log[k]
      BY <3>1 DEF TypeOK
    <3> QED BY <3>1, <3>2, InvalidateTyped, InsideKept
  <2> QED BY <1>9, <2>9, <2>1, <2>2 DEF RemoveRecord, TypeOK
<1>10. ASSUME NEW i \in Replicas, FinishGossip(i)
       PROVE  TypeOK'
  <2>1. gossip[i] \in Message
    BY <1>10 DEF FinishGossip, TypeOK
  <2>2. gossip[i].source \in Replicas
    BY <2>1 DEF Message
  <2>3. NextPeer(gossip[i].source) \in Thread
    BY <2>2, IdleTyped DEF NextPeer, TypeOK, Thread
  <2>4. thread' \in [Replicas -> Thread]
    BY <1>10, <2>2, <2>3 DEF FinishGossip, TypeOK
  <2>9. \A k \in Replicas : Inside(k)'
    <3>1. thread' = thread \/ thread' = [thread EXCEPT ![gossip[i].source] = NextPeer(gossip[i].source)]
      BY <1>10 DEF FinishGossip
    <3>2. NextPeer(gossip[i].source).pc # "scan"
      BY DEF NextPeer, Idle
    <3> QED BY <1>10, <2>2, <3>1, <3>2, InsideKept DEF FinishGossip, TypeOK
  <2> QED BY <1>10, <2>9, <2>4 DEF FinishGossip, TypeOK, Stages
<1>11. ASSUME NEW i \in Replicas, NEW k \in Peers(i), StartScan(i, k)
       PROVE  TypeOK'
  <2> DEFINE idle == Idle(i, thread[i].round)
             t == [idle EXCEPT !.pc = "scan", !.to = k, !.known = tableTimestamps[i][k]]
  <2>1. idle \in Thread /\ idle.cursor = 0
    <3>1. thread[i].round \in SUBSET Replicas
      BY DEF TypeOK, Thread
    <3> QED BY <3>1, IdleTyped DEF Idle
  <2>2. thread' = [thread EXCEPT ![i] = t]
    BY <1>11 DEF StartScan
  <2> HIDE DEF idle
  <2>3. tableTimestamps[i][k] \in Vector /\ k \in Replicas
    BY DEF Peers, TypeOK
  <2>4. t \in Thread /\ t.cursor = 0
    BY <2>1, <2>3, ScanTyped
  <2> HIDE DEF t
  <2>5. thread' \in [Replicas -> Thread]
    BY <2>2, <2>4 DEF TypeOK
  <2>9. ASSUME NEW j \in Replicas PROVE Inside(j)'
    <3>1. Len(log[i]) \in Nat /\ log' = log
      BY <1>11 DEF TypeOK, StartScan
    <3>2. thread'[i].cursor = 0 /\ \A q \in Replicas \ {i} : thread'[q] = thread[q]
      BY <2>2, <2>4 DEF TypeOK
    <3>3. CASE j = i
      BY <3>1, <3>2, <3>3 DEF Inside
    <3>4. CASE j # i
      BY <3>1, <3>2, <3>4 DEF TypeOK, Inside
    <3> QED BY <3>3, <3>4
  <2> QED BY <1>11, <2>5, <2>9 DEF StartScan, TypeOK
<1>12. ASSUME NEW i \in Replicas, ScanRecord(i)
       PROVE  TypeOK'
  <2> DEFINE t == thread[i]
             r == log[i][t.cursor + 1]
  <2>1. /\ t \in Thread /\ t.cursor \in Nat
        /\ log[i] \in Seq(Record) /\ Len(log[i]) \in Nat
        /\ t.pc = "scan" /\ t.cursor # Len(log[i])
    BY <1>12 DEF TypeOK, Thread, ScanRecord
  <2>2. CASE t.fresh /\ thread' = [thread EXCEPT ![i] = Collect(t, r)]
    <3>1. t.cursor + 1 \in 1 .. Len(log[i])
      BY <2>1, <2>2 DEF TypeOK, Inside
    <3>2. r \in Record
      BY <2>1, <3>1, ElementOfSeq
    <3>3. Collect(t, r) \in Thread /\ Collect(t, r).cursor = t.cursor + 1
      BY <2>1, <3>2, CollectTyped
    <3>4. /\ thread' \in [Replicas -> Thread]
          /\ thread'[i].cursor \in 1 .. Len(log[i])
          /\ \A k \in Replicas \ {i} : thread'[k] = thread[k]
      BY <2>2, <3>1, <3>3 DEF TypeOK
    <3>5. ASSUME NEW k \in Replicas PROVE Inside(k)'
      <4>1. log' = log /\ Inside(k)
        BY <1>12 DEF ScanRecord, TypeOK
      <4>2. CASE k = i
        BY <2>1, <3>4, <4>1, <4>2 DEF Inside
      <4>3. CASE k # i
        BY <3>4, <4>1, <4>3 DEF Inside
      <4> QED BY <4>2, <4>3
    <3> QED BY <1>12, <3>4, <3>5 DEF ScanRecord, TypeOK
  <2>3. CASE thread' = [thread EXCEPT ![i] = Dead(i)]
    <3>1. thread' \in [Replicas -> Thread]
      BY <2>3, IdleTyped DEF TypeOK
    <3>2. \A k \in Replicas : Inside(k)'
      BY <1>12, <2>3 DEF TypeOK, Inside, ScanRecord, Dead, Idle
    <3> QED BY <1>12, <3>1, <3>2 DEF ScanRecord, TypeOK
  <2> QED BY <1>12, <2>2, <2>3 DEF ScanRecord
<1>13. ASSUME NEW i \in Replicas, FinishScan(i)
       PROVE  TypeOK'
  <2> DEFINE t == [thread[i] EXCEPT !.pc = "read", !.from = replicaTimestamp[i]]
  <2>1. t \in Thread /\ t.pc = "read"
    BY ReadTyped DEF TypeOK
  <2>2. thread' = [thread EXCEPT ![i] = t]
    BY <1>13 DEF FinishScan, TypeOK
  <2> HIDE DEF t
  <2>3. thread' \in [Replicas -> Thread]
    BY <2>1, <2>2 DEF TypeOK
  <2>9. \A k \in Replicas : Inside(k)'
    BY <1>13, <2>1, <2>2 DEF FinishScan, TypeOK, Inside
  <2> QED BY <1>13, <2>3, <2>9 DEF FinishScan, TypeOK
<1>14. ASSUME NEW i \in Replicas, NEW ts, SendGossip(i, ts)
       PROVE  TypeOK'
  <2> DEFINE t == thread[i]
  <2>1. /\ t.to \in Replicas /\ t.toSend \in Seq(Record)
        /\ t.round \in SUBSET Replicas /\ t.from \in Vector
    BY DEF TypeOK, Thread
  <2>2. ts \in Vector
    BY <1>14, <2>1, BetweenIsVector DEF SendGossip, TypeOK
  <2>3. [source |-> i, target |-> t.to, timestamp |-> ts, awaited |-> TRUE,
         log |-> t.toSend] \in Message
    BY <2>1, <2>2 DEF Message
  <2>4. [[Idle(i, t.round) EXCEPT !.pc = "waiting"] EXCEPT !.to = t.to] \in Thread
    <3>1. [Idle(i, t.round) EXCEPT !.pc = "waiting"] \in Thread
      BY <2>1, IdleTyped
    <3>2. ASSUME NEW w \in Thread PROVE [w EXCEPT !.to = t.to] \in Thread
      BY <2>1 DEF Thread
    <3> QED BY <3>1, <3>2
  <2>5. network' \subseteq Message /\ thread' \in [Replicas -> Thread]
    BY <1>14, <2>3, <2>4 DEF SendGossip, TypeOK
  <2>9. \A k \in Replicas : Inside(k)'
    <3>1. thread'[i].pc # "scan" /\ \A k \in Replicas \ {i} : thread'[k] = thread[k]
      BY <1>14 DEF SendGossip, TypeOK, Idle
    <3> QED BY <1>14, <3>1, InsideKept DEF SendGossip, TypeOK
  <2> QED BY <1>14, <2>9, <2>5 DEF SendGossip, TypeOK
<1>15. ASSUME NEW i \in Replicas, FailGossip(i)
       PROVE  TypeOK'
  <2>1. \A m \in Message : Abandon(m) \in Message /\ Abandon(m) # NoMessage
    BY NoMessageAssumption DEF Abandon, Message
  <2>2. network' \subseteq Message
    <3>1. \/ network' \subseteq network
          \/ \A m \in network' : \E q \in network : m = q \/ m = Abandon(q)
      BY <1>15 DEF FailGossip
    <3> QED BY <2>1, <3>1 DEF TypeOK
  <2>3. /\ gossip' \in [Replicas -> Message \cup {NoMessage}]
        /\ \A k \in Replicas : gossip'[k] = NoMessage <=> gossip[k] = NoMessage
    BY <1>15, <2>1 DEF FailGossip, TypeOK
  <2>4. thread' \in [Replicas -> Thread]
    <3>1. NextPeer(i) \in Thread
      BY IdleTyped DEF NextPeer, TypeOK, Thread
    <3> QED BY <1>15, <3>1 DEF FailGossip, TypeOK
  <2>9. \A k \in Replicas : Inside(k)'
    <3>1. thread'[i].pc # "scan" /\ \A k \in Replicas \ {i} : thread'[k] = thread[k]
      BY <1>15 DEF FailGossip, NextPeer, TypeOK, Idle
    <3> QED BY <1>15, <3>1, InsideKept DEF FailGossip, TypeOK
  <2> QED BY <1>15, <2>9, <2>2, <2>3, <2>4, FailuresAssumption DEF FailGossip, TypeOK
<1>16. CASE UNCHANGED vars
  BY <1>16 DEF vars, TypeOK, Inside
<1> QED
  BY <1>1, <1>2, <1>3, <1>4, <1>5, <1>6, <1>7, <1>8, <1>9, <1>10, <1>11, <1>12,
     <1>13, <1>14, <1>15, <1>16, <1>17
     DEF Next, ClientStep, HandlerStep, ThreadStep

\* In every behaviour the lists keep their types, the lock and the request it
\* protects go together, and a valid iterator is inside its log.
THEOREM TypeCorrect == Spec => []TypeOK
<1>1. Init => TypeOK
  BY TypeInit
<1>2. TypeOK /\ [Next]_vars => TypeOK'
  BY TypeNext
<1> QED BY <1>1, <1>2, PTL DEF Spec

-------------------------------------------------------------------------------
(***************************************************************************)
(* Where records come from.                                                *)
(***************************************************************************)

\* Every record in a log, in a loop or on its way was accepted by a replica.
Provenance ==
  /\ \A i \in Replicas :
       /\ ToSet(log[i]) \subseteq accepted
       /\ ToSet(todo[i]) \subseteq accepted
       /\ ToSet(thread[i].toSend) \subseteq accepted
  /\ \A m \in network : ToSet(m.log) \subseteq accepted

\* An invalidated iterator has collected the same records.
LEMMA InvalidateCollected ==
  ASSUME TypeOK, NEW i \in Replicas, Invalidate(i)
  PROVE  \A k \in Replicas : thread'[k].toSend = thread[k].toSend
<1> DEFINE b == thread[i].fresh /\ thread[i].pc # "scan"
<1>1. thread' = [thread EXCEPT ![i] = [thread[i] EXCEPT !.fresh = b]]
  BY DEF Invalidate, TypeOK
<1> HIDE DEF b
<1>2. thread[i] \in Thread
  BY DEF TypeOK
<1>3. [thread[i] EXCEPT !.fresh = b].toSend = thread[i].toSend
  BY <1>2 DEF Thread
<1> QED BY <1>1, <1>3 DEF TypeOK

\* A thread that is not collecting has collected nothing.
LEMMA IdleCollected ==
  \A i, round : Idle(i, round).toSend = <<>> /\ Dead(i).toSend = <<>>
  BY DEF Idle, Dead

\* At the start there are no records at all.
LEMMA ProvenanceInit == Init => Provenance
<1> SUFFICES ASSUME Init PROVE Provenance
  OBVIOUS
<1>1. network = {} /\ \A i \in Replicas : log[i] = <<>> /\ todo[i] = <<>>
  BY DEF Init
<1>2. ASSUME NEW i \in Replicas PROVE thread[i].toSend = <<>>
  <2>1. thread[i] = Idle(i, {}) \/ thread[i] = Dead(i)
    BY DEF Init
  <2> QED BY <2>1, IdleCollected
<1> QED BY <1>1, <1>2, ToSetEmpty DEF Provenance

\* Records move between lists, but only add makes one.
LEMMA ProvenanceNext == TypeOK /\ Provenance /\ [Next]_vars => Provenance'
<1> SUFFICES ASSUME TypeOK, Provenance, [Next]_vars PROVE Provenance'
  OBVIOUS
<1> USE DEF value, lists, lock, wire, ghost
<1>1. ASSUME NEW i \in Replicas, NEW u \in Updates, NEW prev \in known, Add(i, u, prev)
      PROVE  Provenance'
  <2> DEFINE r == NewRecord(i, u, prev)
  <2>1. r \in Record
    BY NewRecordTyped DEF TypeOK
  <2>2. ToSet(Append(log[i], r)) = ToSet(log[i]) \cup {r}
    BY <2>1, ToSetAppend DEF TypeOK
  <2>3. /\ log' = [log EXCEPT ![i] = Append(@, r)] /\ Invalidate(i)
        /\ accepted' = accepted \cup {r} /\ UNCHANGED <<todo, network>>
    BY <1>1 DEF Add
  <2> HIDE DEF r
  <2>4. \A k \in Replicas : ToSet(log'[k]) \subseteq accepted'
    BY <2>2, <2>3 DEF Provenance, TypeOK
  <2>5. \A k \in Replicas : thread'[k].toSend = thread[k].toSend
    BY <2>3, InvalidateCollected
  <2> QED BY <2>3, <2>4, <2>5 DEF Provenance
<1>2. ASSUME NEW i \in Replicas, NEW u \in Updates, NEW prev \in known, AddAgain(i, u, prev)
      PROVE  Provenance'
  BY <1>2 DEF AddAgain, Provenance
<1>3. ASSUME NEW i \in Replicas, NEW m \in network, ReceiveGossip(i, m)
      PROVE  Provenance'
  BY <1>3 DEF ReceiveGossip, Provenance, TypeOK
<1>4. ASSUME NEW i \in Replicas, TakeRecord(i)
      PROVE  Provenance'
  <2>1. /\ Head(todo[i]) \in ToSet(todo[i])
        /\ ToSet(Tail(todo[i])) \subseteq ToSet(todo[i])
        /\ Head(todo[i]) \in Record
    BY <1>4, ToSetTail, HeadTailProperties DEF TakeRecord, TypeOK
  <2>2. /\ todo' = [todo EXCEPT ![i] = Tail(@)]
        /\ UNCHANGED <<accepted, network>>
    BY <1>4 DEF TakeRecord
  <2>3. \A k \in Replicas : ToSet(todo'[k]) \subseteq accepted'
    BY <2>1, <2>2 DEF Provenance, TypeOK
  <2>4. CASE log' = [log EXCEPT ![i] = Append(@, Head(todo[i]))] /\ Invalidate(i)
    <3>1. ToSet(Append(log[i], Head(todo[i]))) = ToSet(log[i]) \cup {Head(todo[i])}
      BY <2>1, ToSetAppend DEF TypeOK
    <3>2. \A k \in Replicas : ToSet(log'[k]) \subseteq accepted'
      BY <2>1, <2>2, <2>4, <3>1 DEF Provenance, TypeOK
    <3>3. \A k \in Replicas : thread'[k].toSend = thread[k].toSend
      BY <2>4, InvalidateCollected
    <3> QED BY <2>2, <2>3, <3>2, <3>3 DEF Provenance
  <2>5. CASE UNCHANGED <<log, thread>>
    BY <2>2, <2>3, <2>5 DEF Provenance
  <2> QED BY <1>4, <2>4, <2>5 DEF TakeRecord
<1>5. ASSUME NEW i \in Replicas, MergeTimestamp(i)
      PROVE  Provenance'
  BY <1>5 DEF MergeTimestamp, Provenance
<1>6. ASSUME NEW i \in Replicas, SortLog(i)
      PROVE  Provenance'
  <2>1. PICK s \in Rearrangements(log[i]) : log' = [log EXCEPT ![i] = s]
    BY <1>6 DEF SortLog
  <2>2. ToSet(s) \subseteq ToSet(log[i])
    BY <2>1, RearrangementsTyped DEF TypeOK
  <2>3. \A k \in Replicas : ToSet(log'[k]) \subseteq accepted
    BY <2>1, <2>2 DEF Provenance, TypeOK
  <2> QED BY <1>6, <2>3 DEF SortLog, Provenance
<1>7. ASSUME NEW i \in Replicas, StartExecution(i)
      PROVE  Provenance'
  <2>1. \A k \in Replicas : thread'[k].toSend = thread[k].toSend
    BY <1>7, InvalidateCollected DEF StartExecution
  <2>2. \A k \in Replicas : ToSet(todo'[k]) \subseteq accepted
    BY <1>7 DEF StartExecution, Provenance, TypeOK
  <2> QED BY <1>7, <2>1, <2>2 DEF StartExecution, Provenance
<1>8. ASSUME NEW i \in Replicas, ExecuteRecord(i)
      PROVE  Provenance'
  <2>1. ToSet(Tail(todo[i])) \subseteq ToSet(todo[i])
    BY <1>8, ToSetTail DEF ExecuteRecord, TypeOK
  <2>2. \A k \in Replicas : ToSet(todo'[k]) \subseteq accepted
    BY <1>8, <2>1 DEF ExecuteRecord, Provenance, TypeOK
  <2> QED BY <1>8, <2>2 DEF ExecuteRecord, Provenance
<1>9. ASSUME NEW i \in Replicas, StartCleanup(i)
      PROVE  Provenance'
  BY <1>9 DEF StartCleanup, Provenance
<1>10. ASSUME NEW i \in Replicas, NEW n \in DOMAIN log[i], RemoveRecord(i, n)
       PROVE  Provenance'
  <2>1. ToSet(RemoveAt(log[i], n)) \subseteq ToSet(log[i])
    BY RemoveAtTyped DEF TypeOK
  <2>2. log' = [log EXCEPT ![i] = RemoveAt(@, n)] /\ Invalidate(i)
    BY <1>10 DEF RemoveRecord
  <2>3. \A k \in Replicas : ToSet(log'[k]) \subseteq accepted
    BY <2>1, <2>2 DEF Provenance, TypeOK
  <2>4. \A k \in Replicas : thread'[k].toSend = thread[k].toSend
    BY <2>2, InvalidateCollected
  <2> QED BY <1>10, <2>3, <2>4 DEF RemoveRecord, Provenance
<1>11. ASSUME NEW i \in Replicas, FinishGossip(i)
       PROVE  Provenance'
  <2> DEFINE j == gossip[i].source
  <2>1. NextPeer(j).toSend = <<>>
    BY IdleCollected DEF NextPeer
  <2>2. thread' = thread \/ thread' = [thread EXCEPT ![j] = NextPeer(j)]
    BY <1>11 DEF FinishGossip
  <2> HIDE DEF j
  <2>3. \A k \in Replicas : ToSet(thread'[k].toSend) \subseteq accepted
    BY <2>1, <2>2, ToSetEmpty DEF Provenance, TypeOK
  <2> QED BY <1>11, <2>3 DEF FinishGossip, Provenance
<1>12. ASSUME NEW i \in Replicas, NEW k \in Peers(i), StartScan(i, k)
       PROVE  Provenance'
  <2>1. thread'[i].toSend = <<>> /\ \A j \in Replicas \ {i} : thread'[j] = thread[j]
    BY <1>12 DEF StartScan, Idle, TypeOK
  <2>2. \A j \in Replicas : ToSet(thread'[j].toSend) \subseteq accepted
    BY <2>1, ToSetEmpty DEF Provenance
  <2> QED BY <1>12, <2>2 DEF StartScan, Provenance
<1>13. ASSUME NEW i \in Replicas, ScanRecord(i)
       PROVE  Provenance'
  <2> DEFINE t == thread[i]
             r == log[i][t.cursor + 1]
  <2>1. \/ t.fresh /\ thread' = [thread EXCEPT ![i] = Collect(t, r)]
        \/ thread' = [thread EXCEPT ![i] = Dead(i)]
    BY <1>13 DEF ScanRecord
  <2>2. CASE t.fresh /\ thread' = [thread EXCEPT ![i] = Collect(t, r)]
    <3>1. t \in Thread /\ log[i] \in Seq(Record) /\ t.cursor \in Nat
      BY DEF TypeOK, Thread
    <3>2. t.cursor + 1 \in 1 .. Len(log[i])
      BY <1>13, <2>2, <3>1 DEF ScanRecord, TypeOK, Inside
    <3>3. r \in ToSet(log[i]) /\ r \in Record
      BY <3>1, <3>2 DEF ToSet
    <3>4. Collect(t, r).toSend \in {t.toSend, Append(t.toSend, r)}
      BY <3>1 DEF Collect, Thread
    <3>5. ToSet(Append(t.toSend, r)) = ToSet(t.toSend) \cup {r}
      BY <3>1, <3>3, ToSetAppend DEF Thread
    <3> HIDE DEF r
    <3>6. ToSet(thread'[i].toSend) \subseteq accepted
      BY <2>2, <3>3, <3>4, <3>5 DEF Provenance, TypeOK
    <3>7. \A k \in Replicas \ {i} : thread'[k] = thread[k]
      BY <2>2 DEF TypeOK
    <3> QED BY <1>13, <3>6, <3>7 DEF ScanRecord, Provenance
  <2>3. CASE thread' = [thread EXCEPT ![i] = Dead(i)]
    <3>1. \A k \in Replicas : ToSet(thread'[k].toSend) \subseteq accepted
      BY <2>3, IdleCollected, ToSetEmpty DEF Provenance, TypeOK
    <3> QED BY <1>13, <3>1 DEF ScanRecord, Provenance
  <2> QED BY <2>1, <2>2, <2>3
<1>14. ASSUME NEW i \in Replicas, FinishScan(i)
       PROVE  Provenance'
  <2>1. thread' = [thread EXCEPT ![i] = [thread[i] EXCEPT !.pc = "read", !.from = replicaTimestamp[i]]]
    BY <1>14 DEF FinishScan, TypeOK
  <2>2. [thread[i] EXCEPT !.pc = "read", !.from = replicaTimestamp[i]].toSend = thread[i].toSend
    BY DEF TypeOK, Thread
  <2>3. \A k \in Replicas : thread'[k].toSend = thread[k].toSend
    BY <2>1, <2>2 DEF TypeOK
  <2> QED BY <1>14, <2>3 DEF FinishScan, Provenance
<1>15. ASSUME NEW i \in Replicas, NEW ts, SendGossip(i, ts)
       PROVE  Provenance'
  <2>1. thread'[i].toSend = <<>> /\ \A j \in Replicas \ {i} : thread'[j] = thread[j]
    BY <1>15 DEF SendGossip, Idle, TypeOK
  <2>2. \A j \in Replicas : ToSet(thread'[j].toSend) \subseteq accepted
    BY <2>1, ToSetEmpty DEF Provenance
  <2>3. \A m \in network' : m \in network \/ m.log = thread[i].toSend
    BY <1>15 DEF SendGossip
  <2> QED BY <1>15, <2>2, <2>3 DEF SendGossip, Provenance
<1>16. ASSUME NEW i \in Replicas, FailGossip(i)
       PROVE  Provenance'
  <2>1. \A m \in network' : \E q \in network : m = q \/ m = Abandon(q)
    BY <1>16 DEF FailGossip
  <2>2. \A q \in network : Abandon(q).log = q.log
    BY DEF Abandon, TypeOK, Message
  <2>3. NextPeer(i).toSend = <<>>
    BY IdleCollected DEF NextPeer
  <2>4. \A j \in Replicas : ToSet(thread'[j].toSend) \subseteq accepted
    BY <1>16, <2>3, ToSetEmpty DEF FailGossip, Provenance, TypeOK
  <2> QED BY <1>16, <2>1, <2>2, <2>4 DEF FailGossip, Provenance
<1>17. CASE UNCHANGED vars
  BY <1>17 DEF vars, Provenance
<1> QED
  BY <1>1, <1>2, <1>3, <1>4, <1>5, <1>6, <1>7, <1>8, <1>9, <1>10, <1>11, <1>12,
     <1>13, <1>14, <1>15, <1>16, <1>17
     DEF Next, ClientStep, HandlerStep, ThreadStep
-------------------------------------------------------------------------------
(***************************************************************************)
(* What timestamps count.                                                  *)
(***************************************************************************)

\* No timestamp anywhere counts an update that its replica has not accepted.
\* NoFuture is the part of it that a reader cares about; the records accepted,
\* wherever they are, and the request being handled make it inductive.
FromThePast ==
  /\ \A i \in Replicas :
       /\ Leq(valueTimestamp[i], Origin)
       /\ Leq(replicaTimestamp[i], Origin)
       /\ \A k \in Replicas : Leq(tableTimestamps[i][k], Origin)
       /\ gossip[i] # NoMessage => Leq(gossip[i].timestamp, Origin)
  /\ \A m \in network : Leq(m.timestamp, Origin)
  /\ \A r \in accepted : Leq(r.timestamp, Origin)
  /\ \A t \in known : Leq(t, Origin)

\* The replicas' own entries make a timestamp.
LEMMA OriginTyped == TypeOK => Origin \in Vector
  BY DEF TypeOK, Origin, Vector

\* Executing a record raises the value's timestamp no higher than the record's.
LEMMA executeBounded ==
  ASSUME TypeOK, NEW i \in Replicas, NEW r \in Record, execute(i, r), NEW v,
         Leq(r.timestamp, v), \A k \in Replicas : Leq(valueTimestamp[k], v)
  PROVE  \A k \in Replicas : Leq(valueTimestamp'[k], v)
<1>1. Leq(Merge(valueTimestamp[i], r.timestamp), v)
  BY MergeIsLeast
<1>2. \/ valueTimestamp' = [valueTimestamp EXCEPT ![i] = Merge(@, r.timestamp)]
      \/ valueTimestamp' = valueTimestamp
  BY DEF execute, value
<1> QED BY <1>1, <1>2 DEF TypeOK

\* All counters start at zero.
LEMMA PastInit == Init => FromThePast
<1> SUFFICES ASSUME Init PROVE FromThePast
  OBVIOUS
<1>1. Origin = Zero
  BY DEF Init, Origin, Zero
<1>2. Leq(Zero, Zero)
  BY ZeroIsVector, LeqReflexive
<1> QED BY <1>1, <1>2 DEF Init, FromThePast

\* Only add makes a new timestamp, and it counts what its replica now counts.
LEMMA PastNext ==
  TypeOK /\ Provenance /\ FromThePast /\ [Next]_vars => FromThePast'
<1> SUFFICES ASSUME TypeOK, Provenance, FromThePast, [Next]_vars PROVE FromThePast'
  OBVIOUS
<1> USE DEF value, lists, lock, wire, ghost
<1>1. ASSUME NEW i \in Replicas, NEW u \in Updates, NEW prev \in known, Add(i, u, prev)
      PROVE  FromThePast'
  <2> DEFINE r == NewRecord(i, u, prev)
  <2>1. r \in Record /\ prev \in Vector /\ r.timestamp \in Vector
    BY NewRecordTyped DEF TypeOK, Record
  <2>2. Origin \in Vector
    BY OriginTyped
  <2>3. /\ replicaTimestamp'[i] = [replicaTimestamp[i] EXCEPT ![i] = @ + 1]
        /\ \A k \in Replicas \ {i} : replicaTimestamp'[k] = replicaTimestamp[k]
    BY <1>1 DEF Add, TypeOK
  <2>4. Origin' = [Origin EXCEPT ![i] = @ + 1]
    <3>1. replicaTimestamp'[i][i] = replicaTimestamp[i][i] + 1
      BY <2>3 DEF TypeOK, Vector
    <3> QED BY <2>3, <3>1 DEF Origin
  <2>5. Leq(Origin, Origin') /\ Origin' \in Vector
    BY <2>2, <2>4 DEF Leq, Vector
  <2>6. \A v \in Vector : Leq(v, Origin) => Leq(v, Origin')
    BY <2>2, <2>5, LeqTransitive
  <2>7. Leq(r.timestamp, Origin')
    <3>1. r.timestamp = [prev EXCEPT ![i] = Origin[i] + 1]
      BY DEF NewRecord, Origin
    <3>2. Leq(prev, Origin')
      BY <2>1, <2>6 DEF FromThePast
    <3> QED BY <2>1, <2>2, <2>4, <3>1, <3>2 DEF Leq, Vector
  <2>8. execute(i, r) /\ accepted' = accepted \cup {r} /\ Learn(r.timestamp)
        /\ UNCHANGED <<tableTimestamps, lock, wire>>
    BY <1>1 DEF Add
  <2> HIDE DEF r
  <2>9. \A k \in Replicas : Leq(valueTimestamp'[k], Origin')
    <3>1. \A k \in Replicas : Leq(valueTimestamp[k], Origin')
      BY <2>6 DEF FromThePast, TypeOK
    <3> QED BY <2>1, <2>7, <2>8, <3>1, executeBounded
  <2>10. \A k \in Replicas : Leq(replicaTimestamp'[k], Origin')
    <3>1. ASSUME NEW k \in Replicas PROVE Leq(replicaTimestamp'[k], Origin')
      <4>1. Leq(replicaTimestamp[k], Origin')
        BY <2>6 DEF FromThePast, TypeOK
      <4>2. CASE k # i
        BY <2>3, <4>1, <4>2
      <4>3. CASE k = i
        <5>1. SUFFICES ASSUME NEW j \in Replicas
                       PROVE  replicaTimestamp'[i][j] <= Origin'[j]
          BY <4>3 DEF Leq
        <5>2. CASE j = i
          <6>1. Origin'[i] = replicaTimestamp'[i][i]
            BY DEF Origin
          <6>2. Origin'[i] \in Nat
            BY <2>5 DEF Vector
          <6> QED BY <5>2, <6>1, <6>2
        <5>3. CASE j # i
          <6>1. replicaTimestamp'[i][j] = replicaTimestamp[i][j]
            BY <2>3, <5>3 DEF TypeOK, Vector
          <6> QED BY <4>1, <4>3, <6>1 DEF Leq
        <5> QED BY <5>2, <5>3
      <4> QED BY <4>2, <4>3
    <3> QED BY <3>1
  <2>11. \A t \in known' : Leq(t, Origin')
    <3>1. \A s \in known : Leq(s, Origin')
      BY <2>6 DEF FromThePast, TypeOK
    <3>2. \A s \in known : Leq(Merge(s, r.timestamp), Origin')
      BY <2>7, <3>1, MergeIsLeast
    <3> QED BY <2>8, <3>1, <3>2 DEF Learn
  <2>12. \A q \in accepted' : Leq(q.timestamp, Origin')
    BY <2>6, <2>7, <2>8 DEF FromThePast, TypeOK, Record
  <2>13. \A k, j \in Replicas : Leq(tableTimestamps'[k][j], Origin')
    BY <2>6, <2>8 DEF FromThePast, TypeOK
  <2>14. \A m \in network' : Leq(m.timestamp, Origin')
    BY <2>6, <2>8 DEF FromThePast, TypeOK, Message
  <2>15. \A k \in Replicas : gossip'[k] # NoMessage => Leq(gossip'[k].timestamp, Origin')
    BY <2>6, <2>8 DEF FromThePast, TypeOK, Message
  <2> QED BY <2>9, <2>10, <2>11, <2>12, <2>13, <2>14, <2>15 DEF FromThePast
<1>2. ASSUME NEW i \in Replicas, NEW u \in Updates, NEW prev \in known, AddAgain(i, u, prev)
      PROVE  FromThePast'
  <2>1. \A s \in known : Leq(Merge(s, prev), Origin)
    BY MergeIsLeast DEF FromThePast
  <2>2. \A t \in known' : Leq(t, Origin)
    BY <1>2, <2>1 DEF AddAgain, Learn, FromThePast
  <2> QED BY <1>2, <2>2 DEF AddAgain, FromThePast, Origin
<1>3. ASSUME NEW i \in Replicas, NEW m \in network, ReceiveGossip(i, m)
      PROVE  FromThePast'
  <2>1. m.source \in Replicas /\ Leq(m.timestamp, Origin)
    BY DEF FromThePast, TypeOK, Message
  <2>2. \A k, j \in Replicas : Leq(tableTimestamps'[k][j], Origin)
    BY <1>3, <2>1 DEF ReceiveGossip, FromThePast, TypeOK
  <2>3. \A k \in Replicas : gossip'[k] # NoMessage => Leq(gossip'[k].timestamp, Origin)
    BY <1>3, <2>1 DEF ReceiveGossip, FromThePast, TypeOK
  <2> QED BY <1>3, <2>2, <2>3 DEF ReceiveGossip, FromThePast, Origin
<1>4. ASSUME NEW i \in Replicas, TakeRecord(i)
      PROVE  FromThePast'
  BY <1>4 DEF TakeRecord, FromThePast, Origin
<1>5. ASSUME NEW i \in Replicas, MergeTimestamp(i)
      PROVE  FromThePast'
  <2> DEFINE merged == Merge(replicaTimestamp[i], gossip[i].timestamp)
  <2>1. gossip[i] # NoMessage /\ Leq(gossip[i].timestamp, Origin)
    BY <1>5 DEF MergeTimestamp, FromThePast, TypeOK
  <2>2. gossip[i].timestamp \in Vector
    BY <2>1 DEF TypeOK, Message
  <2>3. Leq(merged, Origin)
    BY <2>1, MergeIsLeast DEF FromThePast
  <2>4. merged[i] = Origin[i]
    <3>1. gossip[i].timestamp[i] <= replicaTimestamp[i][i]
      BY <2>1 DEF Leq, Origin
    <3>2. replicaTimestamp[i][i] \in Nat /\ gossip[i].timestamp[i] \in Nat
      BY <2>2 DEF TypeOK, Vector
    <3> QED BY <3>1, <3>2 DEF Merge, Origin
  <2>5. replicaTimestamp' = [replicaTimestamp EXCEPT ![i] = merged]
    BY <1>5 DEF MergeTimestamp
  <2> HIDE DEF merged
  <2>6. Origin' = Origin
    BY <2>4, <2>5 DEF Origin, TypeOK
  <2>7. \A k \in Replicas : Leq(replicaTimestamp'[k], Origin)
    BY <2>3, <2>5 DEF FromThePast, TypeOK
  <2> QED BY <1>5, <2>6, <2>7 DEF MergeTimestamp, FromThePast
<1>6. ASSUME NEW i \in Replicas, SortLog(i) \/ StartExecution(i) \/ StartCleanup(i)
      PROVE  FromThePast'
  BY <1>6 DEF SortLog, StartExecution, StartCleanup, FromThePast, Origin
<1>7. ASSUME NEW i \in Replicas, ExecuteRecord(i)
      PROVE  FromThePast'
  <2>1. Head(todo[i]) \in ToSet(todo[i]) /\ Head(todo[i]) \in Record
    BY <1>7, ToSetTail, HeadTailProperties DEF ExecuteRecord, TypeOK
  <2>2. Leq(Head(todo[i]).timestamp, Origin)
    BY <2>1 DEF Provenance, FromThePast
  <2>3. \A k \in Replicas : Leq(valueTimestamp'[k], Origin)
    BY <1>7, <2>1, <2>2, executeBounded DEF ExecuteRecord, FromThePast
  <2> QED BY <1>7, <2>3 DEF ExecuteRecord, FromThePast, Origin
<1>8. ASSUME NEW i \in Replicas, NEW n \in DOMAIN log[i], RemoveRecord(i, n)
      PROVE  FromThePast'
  BY <1>8 DEF RemoveRecord, FromThePast, Origin
<1>9. ASSUME NEW i \in Replicas, FinishGossip(i)
      PROVE  FromThePast'
  BY <1>9 DEF FinishGossip, FromThePast, Origin, TypeOK
<1>10. ASSUME NEW i \in Replicas,
              ScanRecord(i) \/ FinishScan(i) \/ \E k \in Peers(i) : StartScan(i, k)
       PROVE  FromThePast'
  BY <1>10 DEF ScanRecord, FinishScan, StartScan, FromThePast, Origin
<1>11. ASSUME NEW i \in Replicas, NEW ts, SendGossip(i, ts)
       PROVE  FromThePast'
  <2>1. ts \in Vector /\ Leq(ts, replicaTimestamp[i])
    BY <1>11, BetweenIsVector DEF SendGossip, TypeOK, Thread
  <2>2. Leq(ts, Origin)
    BY <2>1, OriginTyped, LeqTransitive DEF FromThePast, TypeOK
  <2>3. \A m \in network' : m \in network \/ m.timestamp = ts
    BY <1>11 DEF SendGossip
  <2> QED BY <1>11, <2>2, <2>3 DEF SendGossip, FromThePast, Origin
<1>12. ASSUME NEW i \in Replicas, FailGossip(i)
       PROVE  FromThePast'
  <2>1. \A m \in network' : \E q \in network : m = q \/ m = Abandon(q)
    BY <1>12 DEF FailGossip
  <2>2. \A q \in Message : Abandon(q).timestamp = q.timestamp
    BY DEF Abandon, Message
  <2>3. ASSUME NEW m \in network' PROVE Leq(m.timestamp, Origin)
    <3>1. PICK q \in network : m = q \/ m = Abandon(q)
      BY <2>1
    <3>2. q \in Message /\ Leq(q.timestamp, Origin)
      BY DEF FromThePast, TypeOK
    <3>3. m.timestamp = q.timestamp
      BY <2>2, <3>1, <3>2
    <3> QED BY <3>2, <3>3
  <2>4. ASSUME NEW k \in Replicas, gossip'[k] # NoMessage
        PROVE  Leq(gossip'[k].timestamp, Origin)
    <3>1. \/ gossip'[k] = gossip[k]
          \/ gossip[k] # NoMessage /\ gossip'[k] = Abandon(gossip[k])
      BY <1>12, Zenon DEF FailGossip
    <3>2. gossip[k] # NoMessage => gossip[k] \in Message /\ Leq(gossip[k].timestamp, Origin)
      BY DEF FromThePast, TypeOK
    <3>3. gossip'[k].timestamp = gossip[k].timestamp
      BY <2>2, <2>4, <3>1, <3>2
    <3> QED BY <2>4, <3>1, <3>2, <3>3
  <2> QED BY <1>12, <2>3, <2>4 DEF FailGossip, FromThePast, Origin
<1>13. CASE UNCHANGED vars
  BY <1>13 DEF vars, FromThePast, Origin
<1> QED
  BY <1>1, <1>2, <1>3, <1>4, <1>5, <1>6, <1>7, <1>8, <1>9, <1>10, <1>11, <1>12,
     <1>13
     DEF Next, ClientStep, HandlerStep, ThreadStep
-------------------------------------------------------------------------------
(***************************************************************************)
(* Executions.                                                             *)
(***************************************************************************)

\* Appending something new keeps a list free of repetitions and extends it.
LEMMA AppendNew ==
  ASSUME NEW S, NEW s \in Seq(S), NEW e \in S
  PROVE  /\ IsPrefix(s, Append(s, e)) /\ IsPrefix(s, s)
         /\ IsInjective(s) /\ e \notin ToSet(s) => IsInjective(Append(s, e))
<1> DEFINE a == Append(s, e)
<1>1. /\ a \in Seq(S) /\ Len(a) = Len(s) + 1 /\ Len(s) \in Nat
      /\ \A k \in 1 .. Len(s) : a[k] = s[k]
      /\ a[Len(s) + 1] = e
      /\ DOMAIN s = 1 .. Len(s) /\ DOMAIN a = 1 .. Len(s) + 1
  BY AppendProperties, LenProperties
<1> HIDE DEF a
<1>2. SubSeq(s, 1, Len(s)) = SubSeq(a, 1, Len(s))
  BY <1>1
<1>3. ASSUME IsInjective(s), e \notin ToSet(s) PROVE IsInjective(a)
  <2> SUFFICES ASSUME NEW x \in DOMAIN a, NEW y \in DOMAIN a, a[x] = a[y]
               PROVE  x = y
    BY DEF IsInjective
  <2>1. \A k \in 1 .. Len(s) : a[k] # e
    BY <1>1, <1>3 DEF ToSet
  <2>2. CASE x \in 1 .. Len(s) /\ y \in 1 .. Len(s)
    BY <1>1, <1>3, <2>2 DEF IsInjective
  <2>3. CASE x = Len(s) + 1 \/ y = Len(s) + 1
    BY <1>1, <2>1, <2>3
  <2> QED BY <1>1, <2>2, <2>3
<1> QED BY <1>1, <1>2, <1>3 DEF a, IsPrefix

\* Steps that execute something execute one record, accepted or just created,
\* at one replica; the others leave the value alone.
LEMMA ValueNext ==
  ASSUME TypeOK, Provenance, [Next]_vars
  PROVE  \/ UNCHANGED value
         \/ \E i \in Replicas, r \in accepted' : r \in Record /\ execute(i, r)
<1> USE DEF value, lists, lock, wire, ghost
<1>1. ASSUME NEW i \in Replicas, NEW u \in Updates, NEW prev \in known, Add(i, u, prev)
      PROVE  \E r \in accepted' : r \in Record /\ execute(i, r)
  <2>1. NewRecord(i, u, prev) \in Record
    BY NewRecordTyped DEF TypeOK
  <2> QED BY <1>1, <2>1 DEF Add
<1>2. ASSUME NEW i \in Replicas, ExecuteRecord(i)
      PROVE  \E r \in accepted' : r \in Record /\ execute(i, r)
  <2>1. Head(todo[i]) \in ToSet(todo[i]) /\ Head(todo[i]) \in Record
    BY <1>2, ToSetTail, HeadTailProperties DEF ExecuteRecord, TypeOK
  <2> QED BY <1>2, <2>1 DEF ExecuteRecord, Provenance
<1>3. ASSUME NEW i \in Replicas,
             \/ \E u \in Updates, prev \in known : AddAgain(i, u, prev)
             \/ \E m \in network : ReceiveGossip(i, m)
             \/ TakeRecord(i) \/ MergeTimestamp(i) \/ SortLog(i)
             \/ StartExecution(i) \/ StartCleanup(i)
             \/ \E n \in DOMAIN log[i] : RemoveRecord(i, n)
             \/ FinishGossip(i) \/ ThreadStep(i) \/ FailGossip(i)
      PROVE  UNCHANGED value
  BY <1>3 DEF AddAgain, ReceiveGossip, TakeRecord, MergeTimestamp, SortLog,
     StartExecution, StartCleanup, RemoveRecord, FinishGossip, ThreadStep,
     StartScan, ScanRecord, FinishScan, SendGossip, FailGossip
<1>4. CASE UNCHANGED vars
  BY <1>4 DEF vars
<1>5. ASSUME Next
      PROVE  \/ UNCHANGED value
             \/ \E i \in Replicas, r \in accepted' : r \in Record /\ execute(i, r)
  <2>1. PICK i \in Replicas :
          ClientStep(i) \/ HandlerStep(i) \/ ThreadStep(i) \/ FailGossip(i)
    BY <1>5 DEF Next
  <2>2. CASE ClientStep(i)
    BY <1>1, <1>3, <2>2 DEF ClientStep
  <2>3. CASE HandlerStep(i)
    BY <1>2, <1>3, <2>3 DEF HandlerStep
  <2> QED BY <1>3, <2>1, <2>2, <2>3
<1> QED BY <1>4, <1>5

\* Executing a record appends its UUID to the table of executed operations,
\* where it was not, and raises the value's timestamp to the record's.
LEMMA executeOnce ==
  ASSUME TypeOK, NEW i \in Replicas, NEW r \in Record, execute(i, r)
  PROVE  /\ \A k \in Replicas :
              /\ Leq(valueTimestamp[k], valueTimestamp'[k])
              /\ IsPrefix(operationsTable[k], operationsTable'[k])
         /\ AtMostOnce => AtMostOnce'
<1>1. CASE UNCHANGED value
  <2>1. \A k \in Replicas : Leq(valueTimestamp[k], valueTimestamp[k])
    BY LeqReflexive DEF TypeOK
  <2>2. \A k \in Replicas : IsPrefix(operationsTable[k], operationsTable[k])
    BY DEF IsPrefix, TypeOK
  <2> QED BY <1>1, <2>1, <2>2 DEF value, AtMostOnce
<1>2. CASE /\ Executable(i, r)
           /\ operationsTable' = [operationsTable EXCEPT ![i] = Append(@, r.uuid)]
           /\ valueTimestamp' = [valueTimestamp EXCEPT ![i] = Merge(@, r.timestamp)]
  <2>1. r.uuid \in Updates /\ r.timestamp \in Vector /\ r.uuid \notin ToSet(operationsTable[i])
    BY <1>2 DEF Record, Executable
  <2>2. \A k \in Replicas : Leq(valueTimestamp[k], valueTimestamp[k])
    BY LeqReflexive DEF TypeOK
  <2>3. Leq(valueTimestamp[i], Merge(valueTimestamp[i], r.timestamp))
    BY <2>1, MergeIsUpper DEF TypeOK
  <2>4. \A k \in Replicas : Leq(valueTimestamp[k], valueTimestamp'[k])
    BY <1>2, <2>2, <2>3 DEF TypeOK
  <2>5. \A k \in Replicas : IsPrefix(operationsTable[k], operationsTable[k])
    BY DEF IsPrefix, TypeOK
  <2>6. /\ IsPrefix(operationsTable[i], Append(operationsTable[i], r.uuid))
        /\ IsInjective(operationsTable[i]) => IsInjective(Append(operationsTable[i], r.uuid))
    BY <2>1, AppendNew DEF TypeOK
  <2>7. \A k \in Replicas : IsPrefix(operationsTable[k], operationsTable'[k])
    BY <1>2, <2>5, <2>6 DEF TypeOK
  <2>8. AtMostOnce => AtMostOnce'
    BY <1>2, <2>6 DEF TypeOK, AtMostOnce
  <2> QED BY <2>4, <2>7, <2>8
<1> QED BY <1>1, <1>2 DEF execute

\* Neither the value nor what was accepted goes backwards.
LEMMA NoStepBack ==
  ASSUME TypeOK, Provenance, [Next]_vars
  PROVE  /\ \A i \in Replicas :
              /\ Leq(valueTimestamp[i], valueTimestamp'[i])
              /\ Leq(replicaTimestamp[i], replicaTimestamp'[i])
              /\ IsPrefix(operationsTable[i], operationsTable'[i])
         /\ AtMostOnce => AtMostOnce'
<1>1. /\ \A i \in Replicas : /\ Leq(valueTimestamp[i], valueTimestamp'[i])
                             /\ IsPrefix(operationsTable[i], operationsTable'[i])
      /\ AtMostOnce => AtMostOnce'
  <2>1. CASE UNCHANGED value
    <3>1. \A k \in Replicas : Leq(valueTimestamp[k], valueTimestamp[k])
      BY LeqReflexive DEF TypeOK
    <3>2. \A k \in Replicas : IsPrefix(operationsTable[k], operationsTable[k])
      BY DEF IsPrefix, TypeOK
    <3> QED BY <2>1, <3>1, <3>2 DEF value, AtMostOnce
  <2>2. CASE \E i \in Replicas, r \in accepted' : r \in Record /\ execute(i, r)
    BY <2>2, executeOnce
  <2> QED BY <2>1, <2>2, ValueNext
<1>2. \A i \in Replicas : Leq(replicaTimestamp[i], replicaTimestamp[i])
  BY LeqReflexive DEF TypeOK
<1>3. CASE UNCHANGED replicaTimestamp
  BY <1>1, <1>2, <1>3
<1>4. ASSUME NEW i \in Replicas, NEW u \in Updates, NEW prev \in known, Add(i, u, prev)
      PROVE  \A k \in Replicas : Leq(replicaTimestamp[k], replicaTimestamp'[k])
  <2>1. replicaTimestamp'[i] = [replicaTimestamp[i] EXCEPT ![i] = @ + 1]
    BY <1>4 DEF Add, TypeOK
  <2>2. Leq(replicaTimestamp[i], replicaTimestamp'[i])
    <3>1. replicaTimestamp[i] \in [Replicas -> Nat]
      BY DEF TypeOK, Vector
    <3> QED BY <2>1, <3>1 DEF Leq
  <2>3. \A k \in Replicas \ {i} : replicaTimestamp'[k] = replicaTimestamp[k]
    BY <1>4 DEF Add, TypeOK
  <2> QED BY <1>2, <2>2, <2>3
<1>5. ASSUME NEW i \in Replicas, MergeTimestamp(i)
      PROVE  \A k \in Replicas : Leq(replicaTimestamp[k], replicaTimestamp'[k])
  <2>1. gossip[i] \in Message
    BY <1>5 DEF MergeTimestamp, TypeOK
  <2>2. Leq(replicaTimestamp[i], Merge(replicaTimestamp[i], gossip[i].timestamp))
    BY <2>1, MergeIsUpper DEF TypeOK, Message
  <2> QED BY <1>2, <1>5, <2>2 DEF MergeTimestamp, TypeOK
<1>6. \/ UNCHANGED replicaTimestamp
      \/ \E i \in Replicas : MergeTimestamp(i)
      \/ \E i \in Replicas, u \in Updates, prev \in known : Add(i, u, prev)
  <2>1. ASSUME NEW i \in Replicas, HandlerStep(i) PROVE UNCHANGED replicaTimestamp \/ MergeTimestamp(i)
    BY <2>1 DEF HandlerStep, ReceiveGossip, TakeRecord, SortLog, StartExecution, ExecuteRecord,
       StartCleanup, RemoveRecord, FinishGossip, lists
  <2>2. ASSUME NEW i \in Replicas, ThreadStep(i) \/ FailGossip(i) PROVE UNCHANGED replicaTimestamp
    BY <2>2 DEF ThreadStep, StartScan, ScanRecord, FinishScan, SendGossip, FailGossip, lists
  <2>3. ASSUME NEW i \in Replicas, ClientStep(i)
        PROVE  \/ UNCHANGED replicaTimestamp
               \/ \E u \in Updates, prev \in known : Add(i, u, prev)
    BY <2>3 DEF ClientStep, AddAgain, lists
  <2>4. UNCHANGED vars => UNCHANGED replicaTimestamp
    BY DEF vars, lists
  <2> QED BY <2>1, <2>2, <2>3, <2>4 DEF Next
<1> QED BY <1>1, <1>3, <1>4, <1>5, <1>6

-------------------------------------------------------------------------------
(***************************************************************************)
(* What tells updates apart, and what clients know.                        *)
(***************************************************************************)

\* The new record's entry for its replica is higher than that of any record
\* the replica made before.
LEMMA UniqueNext ==
  TypeOK /\ FromThePast /\ UniqueTimestamps /\ [Next]_vars => UniqueTimestamps'
<1> SUFFICES ASSUME TypeOK, FromThePast, UniqueTimestamps, [Next]_vars
             PROVE  UniqueTimestamps'
  OBVIOUS
<1>1. ASSUME NEW i \in Replicas, NEW u \in Updates, NEW prev \in known, Add(i, u, prev)
      PROVE  UniqueTimestamps'
  <2> DEFINE new == NewRecord(i, u, prev)
  <2>1. /\ new.instance = i /\ accepted' = accepted \cup {new}
        /\ new.timestamp[i] = replicaTimestamp[i][i] + 1
        /\ replicaTimestamp[i][i] \in Nat
    BY <1>1 DEF Add, NewRecord, TypeOK, Vector
  <2>2. ASSUME NEW q \in accepted, q.instance = i
        PROVE  q.timestamp[i] < new.timestamp[i]
    <3>1. q.timestamp[i] <= replicaTimestamp[i][i]
      BY DEF FromThePast, Leq, Origin
    <3>2. q.timestamp[i] \in Nat
      BY DEF TypeOK, Record, Vector
    <3> QED BY <2>1, <3>1, <3>2
  <2>3. \A q \in accepted : q.timestamp[i] \in Nat
    BY DEF TypeOK, Record, Vector
  <2> HIDE DEF new
  <2>4. \A q \in accepted : q.instance = i => q.timestamp[i] # new.timestamp[i]
    BY <2>1, <2>2, <2>3
  <2> QED BY <2>1, <2>4 DEF UniqueTimestamps
<1>2. ASSUME UNCHANGED accepted PROVE UniqueTimestamps'
  BY <1>2 DEF UniqueTimestamps
<1>3. \/ UNCHANGED accepted
      \/ \E i \in Replicas, u \in Updates, prev \in known : Add(i, u, prev)
  <2>1. ASSUME NEW i \in Replicas, HandlerStep(i) PROVE UNCHANGED accepted
    BY <2>1 DEF HandlerStep, ReceiveGossip, TakeRecord, MergeTimestamp, SortLog, StartExecution,
       ExecuteRecord, StartCleanup, RemoveRecord, FinishGossip, ghost
  <2>2. ASSUME NEW i \in Replicas, ThreadStep(i) \/ FailGossip(i) PROVE UNCHANGED accepted
    BY <2>2 DEF ThreadStep, StartScan, ScanRecord, FinishScan, SendGossip, FailGossip, ghost
  <2>3. ASSUME NEW i \in Replicas, ClientStep(i)
        PROVE  UNCHANGED accepted \/ \E u \in Updates, prev \in known : Add(i, u, prev)
    BY <2>3 DEF ClientStep, AddAgain, ghost
  <2>4. UNCHANGED vars => UNCHANGED accepted
    BY DEF vars, ghost
  <2> QED BY <2>1, <2>2, <2>3, <2>4 DEF Next
<1> QED BY <1>1, <1>2, <1>3

\* A client that knows a timestamp may also have heard of any update: what
\* clients know is closed under merging, so what a replica has executed, one
\* record at a time, is something a client can know.
Closed ==
  /\ \A s \in known, r \in accepted : Merge(s, r.timestamp) \in known
  /\ ValueIsKnown

\* Merging is commutative and associative, and merging twice is merging once.
LEMMA MergeLaws ==
  ASSUME NEW s \in Vector, NEW t \in Vector, NEW u \in Vector
  PROVE  /\ Merge(Merge(s, t), u) = Merge(Merge(s, u), t)
         /\ Merge(Merge(s, t), t) = Merge(s, t)
<1>1. \A k \in Replicas : s[k] \in Nat /\ t[k] \in Nat /\ u[k] \in Nat
  BY DEF Vector
<1>2. ASSUME NEW k \in Replicas
      PROVE  Merge(Merge(s, t), u)[k] = Merge(Merge(s, u), t)[k]
  <2> DEFINE max(m, n) == IF m < n THEN n ELSE m
  <2>1. \A p, q : Merge(p, q)[k] = max(p[k], q[k])
    BY DEF Merge
  <2>2. \A m, n, o \in Nat : max(max(m, n), o) = max(max(m, o), n)
    OBVIOUS
  <2> HIDE DEF max
  <2> QED BY <1>1, <2>1, <2>2
<1>3. \A k \in Replicas : Merge(Merge(s, t), t)[k] = Merge(s, t)[k]
  BY <1>1 DEF Merge
<1>4. /\ Merge(Merge(s, t), u) \in Vector /\ Merge(Merge(s, u), t) \in Vector
      /\ Merge(Merge(s, t), t) \in Vector /\ Merge(s, t) \in Vector
  BY MergeIsVector
<1> QED BY <1>2, <1>3, <1>4 DEF Vector

\* Clients that learn a timestamp keep what they know closed under merging.
LEMMA LearnClosed ==
  ASSUME TypeOK, NEW t \in Vector, Learn(t), NEW T \in SUBSET Vector,
         \A s \in known, v \in T : Merge(s, v) \in known
  PROVE  /\ known \subseteq known'
         /\ \A s \in known', v \in T \cup {t} : Merge(s, v) \in known'
<1>1. known' = known \cup {Merge(s, t) : s \in known} /\ known \subseteq Vector
  BY DEF Learn, TypeOK
<1>2. ASSUME NEW s \in known', NEW v \in T \cup {t} PROVE Merge(s, v) \in known'
  <2>1. PICK o \in known : s = o \/ s = Merge(o, t)
    BY <1>1
  <2>2. CASE s = o
    BY <1>1, <2>2
  <2>3. CASE s = Merge(o, t) /\ v = t
    <3>1. Merge(Merge(o, t), t) = Merge(o, t)
      BY <1>1, MergeLaws
    <3> QED BY <1>1, <2>3, <3>1
  <2>4. CASE s = Merge(o, t) /\ v \in T
    <3>1. Merge(Merge(o, t), v) = Merge(Merge(o, v), t)
      BY <1>1, <2>4, MergeLaws
    <3>2. Merge(o, v) \in known
      BY <2>4
    <3> QED BY <1>1, <2>4, <3>1, <3>2
  <2> QED BY <2>1, <2>2, <2>3, <2>4
<1> QED BY <1>1, <1>2

\* Steps keep what clients know closed, and the values among it.
LEMMA ClosedNext == TypeOK /\ Provenance /\ Closed /\ [Next]_vars => Closed'
<1> SUFFICES ASSUME TypeOK, Provenance, Closed, [Next]_vars PROVE Closed'
  OBVIOUS
<1> DEFINE T == {r.timestamp : r \in accepted}
<1>1. T \in SUBSET Vector /\ \A s \in known, v \in T : Merge(s, v) \in known
  BY DEF Closed, TypeOK, Record
<1> DEFINE StillClosed ==
             /\ known \subseteq known'
             /\ \A s \in known', r \in accepted' : Merge(s, r.timestamp) \in known'
<1>2. StillClosed
  <2>1. ASSUME NEW i \in Replicas, NEW u \in Updates, NEW prev \in known, Add(i, u, prev)
        PROVE  StillClosed
    <3> DEFINE t == NewRecord(i, u, prev).timestamp
    <3>1. t \in Vector
      BY NewRecordTyped DEF TypeOK, Record
    <3>2. Learn(t) /\ accepted' = accepted \cup {NewRecord(i, u, prev)}
      BY <2>1 DEF Add
    <3> HIDE DEF T
    <3>3. known \subseteq known' /\ \A s \in known', v \in T \cup {t} : Merge(s, v) \in known'
      BY <1>1, <3>1, <3>2, LearnClosed
    <3> QED BY <3>2, <3>3 DEF T
  <2>2. ASSUME NEW i \in Replicas, NEW u \in Updates, NEW prev \in known, AddAgain(i, u, prev)
        PROVE  StillClosed
    <3>1. prev \in Vector /\ Learn(prev) /\ accepted' = accepted
      BY <2>2 DEF TypeOK, AddAgain
    <3> HIDE DEF T
    <3>2. known \subseteq known' /\ \A s \in known', v \in T \cup {prev} : Merge(s, v) \in known'
      BY <1>1, <3>1, LearnClosed
    <3> QED BY <3>1, <3>2 DEF T
  <2>3. CASE UNCHANGED ghost
    BY <2>3 DEF ghost, Closed
  <2>4. \/ UNCHANGED ghost
        \/ \E i \in Replicas, u \in Updates, prev \in known :
             Add(i, u, prev) \/ AddAgain(i, u, prev)
    <3>1. CASE UNCHANGED vars
      BY <3>1 DEF vars
    <3>2. ASSUME NEW i \in Replicas, HandlerStep(i)
          PROVE  UNCHANGED ghost
      BY <3>2 DEF HandlerStep, ReceiveGossip, TakeRecord, MergeTimestamp,
         SortLog, StartExecution, ExecuteRecord, StartCleanup, RemoveRecord,
         FinishGossip, ghost
    <3>3. ASSUME NEW i \in Replicas, ThreadStep(i)
          PROVE  UNCHANGED ghost
      BY <3>3 DEF ThreadStep, StartScan, ScanRecord, FinishScan, SendGossip,
         ghost
    <3>4. ASSUME NEW i \in Replicas, FailGossip(i)
          PROVE  UNCHANGED ghost
      BY <3>4 DEF FailGossip, ghost
    <3>5. ASSUME NEW i \in Replicas, ClientStep(i)
          PROVE  \E u \in Updates, prev \in known :
                    Add(i, u, prev) \/ AddAgain(i, u, prev)
      BY <3>5 DEF ClientStep
    <3> QED BY <3>1, <3>2, <3>3, <3>4, <3>5 DEF Next
  <2> QED BY <2>1, <2>2, <2>3, <2>4
<1>3. ValueIsKnown'
  <2>1. CASE UNCHANGED value
    BY <1>2, <2>1 DEF value, Closed, ValueIsKnown
  <2>2. ASSUME NEW i \in Replicas, NEW r \in accepted', r \in Record, execute(i, r)
        PROVE  ValueIsKnown'
    <3>1. \/ valueTimestamp' = [valueTimestamp EXCEPT ![i] = Merge(@, r.timestamp)]
          \/ valueTimestamp' = valueTimestamp
      BY <2>2 DEF execute, value
    <3>2. \A k \in Replicas : valueTimestamp[k] \in known'
      BY <1>2 DEF Closed, ValueIsKnown
    <3>3. Merge(valueTimestamp[i], r.timestamp) \in known'
      BY <1>2, <2>2, <3>2
    <3> QED BY <3>1, <3>2, <3>3 DEF ValueIsKnown, TypeOK
  <2> QED BY <2>1, <2>2, ValueNext
<1> QED BY <1>2, <1>3 DEF Closed

-------------------------------------------------------------------------------
(***************************************************************************)
(* The theorems.                                                           *)
(***************************************************************************)

\* The inductive invariant: types, where records come from, and what holds of
\* the timestamps and of the executed operations because of it.
IInv ==
  /\ TypeOK
  /\ Provenance
  /\ FromThePast
  /\ UniqueTimestamps
  /\ AtMostOnce
  /\ Closed

LEMMA InitIInv == Init => IInv
<1> SUFFICES ASSUME Init PROVE IInv
  OBVIOUS
<1>1. TypeOK /\ Provenance /\ FromThePast
  BY TypeInit, ProvenanceInit, PastInit
<1>2. UniqueTimestamps /\ AtMostOnce /\ Closed
  BY DEF Init, UniqueTimestamps, AtMostOnce, IsInjective, Closed, ValueIsKnown
<1> QED BY <1>1, <1>2 DEF IInv

LEMMA NextIInv == IInv /\ [Next]_vars => IInv'
<1> SUFFICES ASSUME IInv, [Next]_vars PROVE IInv'
  OBVIOUS
<1>1. TypeOK' /\ Provenance' /\ FromThePast'
  BY TypeNext, ProvenanceNext, PastNext DEF IInv
<1>2. UniqueTimestamps' /\ Closed'
  BY UniqueNext, ClosedNext DEF IInv
<1>3. AtMostOnce'
  BY NoStepBack DEF IInv
<1> QED BY <1>1, <1>2, <1>3 DEF IInv

\* IInv holds in every state of every behaviour.
THEOREM Invariance == Spec => []IInv
<1>1. Init => IInv
  BY InitIInv
<1>2. IInv /\ [Next]_vars => IInv'
  BY NextIInv
<1> QED BY <1>1, <1>2, PTL DEF Spec

\* No timestamp, held by a replica, on the way or known to a client, counts an
\* update that was never accepted: however late, lost or out of turn gossip is,
\* and whatever an update thread reads while a handler is at work.
THEOREM TimestampsFromThePast == Spec => []NoFuture
<1>1. IInv => NoFuture
  <2> SUFFICES ASSUME IInv PROVE NoFuture
    OBVIOUS
  <2>1. \A i \in Replicas : \A r \in ToSet(log[i]) : Leq(r.timestamp, Origin)
    BY DEF IInv, Provenance, FromThePast
  <2> QED BY <2>1 DEF IInv, FromThePast, NoFuture
<1> QED BY <1>1, Invariance, PTL

\* Two updates never get the same timestamp, although replicas assign them
\* without talking to each other and clients choose what they are based on.
THEOREM TimestampsAreUnique == Spec => []UniqueTimestamps
<1>1. IInv => UniqueTimestamps
  BY DEF IInv
<1> QED BY <1>1, Invariance, PTL

\* No replica executes an update twice, however often it receives it.
THEOREM ExecutedAtMostOnce == Spec => []AtMostOnce
<1>1. IInv => AtMostOnce
  BY DEF IInv
<1> QED BY <1>1, Invariance, PTL

\* A replica's value never has a timestamp that clients could not have put
\* together from answers to updates.
THEOREM ReadsTeachNothingNew == Spec => []ValueIsKnown
<1>1. IInv => ValueIsKnown
  BY DEF IInv, Closed
<1> QED BY <1>1, Invariance, PTL

\* No step takes back what a replica counts or has executed.
THEOREM NothingTakenBack == Spec => NeverBack
<1> DEFINE Kept == \A i \in Replicas :
                     /\ Leq(valueTimestamp[i], valueTimestamp'[i])
                     /\ Leq(replicaTimestamp[i], replicaTimestamp'[i])
                     /\ IsPrefix(operationsTable[i], operationsTable'[i])
<1>1. IInv /\ [Next]_vars => [Kept]_vars
  BY NoStepBack DEF IInv
<1>2. Spec => [][Kept]_vars
  BY <1>1, Invariance, PTL DEF Spec
<1> QED BY <1>2 DEF NeverBack

-------------------------------------------------------------------------------
(***************************************************************************)
(* Serial behaviours.  What the properties of the protocol rest on, if no  *)
(* record comes out of a sort before one that it depends on.               *)
(***************************************************************************)
\* Timestamp t counts the update of record r.
Counts(t, r) == r.timestamp[r.instance] <= t[r.instance]

Scanning(i) == thread[i].pc \in {"scan", "read"}

\* One handler or scan at a time.
Quiet == \A a, b \in Active : a = b

\* Every update that a replica accepted has a record, and no two share a request; a
\* record's timestamp is prev but for its own entry; and a timestamp that clients
\* have counts, with the last update of a replica, all that it depends on.
History ==
  /\ \A r, q \in accepted : r.uuid = q.uuid => r = q
  /\ \A k \in Replicas : \A n \in 1 .. replicaTimestamp[k][k] :
       \E q \in accepted : q.instance = k /\ q.timestamp[k] = n
  /\ \A r \in accepted :
       /\ r.prev \in known
       /\ r.prev[r.instance] < r.timestamp[r.instance]
       /\ \A k \in Replicas \ {r.instance} : r.timestamp[k] = r.prev[k]
  /\ \A t \in known, q \in accepted :
       t[q.instance] = q.timestamp[q.instance] => Leq(q.timestamp, t)

\* The timestamp t was replica j's: j counts what it did then, and t counts, with an
\* update, what j had accepted when the update was made.
Was(t, j) ==
  /\ Leq(t, replicaTimestamp[j])
  /\ \A r \in accepted : Counts(t, r) => r.timestamp[j] <= t[j]

Rows ==
  /\ \A i, k \in Replicas : Was(tableTimestamps[i][k], k)
  /\ \A i, k \in Replicas :
       \/ Leq(tableTimestamps[i][k], replicaTimestamp[i])
       \/ stage[i] = "records" /\ tableTimestamps[i][k] = gossip[i].timestamp
  /\ \A m \in network : Was(m.timestamp, m.source)
  /\ \A i \in Replicas : gossip[i] # NoMessage => Was(gossip[i].timestamp, gossip[i].source)
  /\ \A i \in Replicas : Scanning(i) => Was(thread[i].known, thread[i].to)

\* A scan goes over the log as it is, and has what the peer lacks.
Scans ==
  \A i \in Replicas :
    /\ Scanning(i) => ToSet(thread[i].toSend) \subseteq ToSet(log[i])
    /\ thread[i].pc = "scan" =>
         /\ thread[i].fresh
         /\ \A n \in 1 .. thread[i].cursor :
              Unknown(thread[i], log[i][n]) => log[i][n] \in ToSet(thread[i].toSend)
    /\ thread[i].pc = "read" =>
         /\ thread[i].from = replicaTimestamp[i]
         /\ \A r \in ToSet(log[i]) :
              Unknown(thread[i], r) => r \in ToSet(thread[i].toSend)

\* A request brings what it counts and its target does not.
Brought ==
  /\ \A m \in network :
       /\ \A r \in ToSet(m.log) : Counts(m.timestamp, r)
       /\ \A r \in accepted : Counts(m.timestamp, r) =>
            r \in ToSet(m.log) \/ Counts(replicaTimestamp[m.target], r)
  /\ \A i \in Replicas : stage[i] = "records" =>
       /\ \A r \in ToSet(todo[i]) : Counts(gossip[i].timestamp, r)
       /\ \A r \in accepted : Counts(gossip[i].timestamp, r) =>
            r \in ToSet(todo[i]) \cup ToSet(log[i]) \/ Counts(replicaTimestamp[i], r)
  /\ \A i \in Replicas : \A r \in ToSet(log[i]) :
       \/ Counts(replicaTimestamp[i], r)
       \/ stage[i] = "records" /\ Counts(gossip[i].timestamp, r)

\* What a replica counts is in its log, or it was executed and all count it.
Here ==
  \A i \in Replicas, r \in accepted : Counts(replicaTimestamp[i], r) =>
    \/ r \in ToSet(log[i])
    \/ r.uuid \in Executed(i) /\ \A k \in Replicas : Counts(replicaTimestamp[k], r)

\* A value reflects what was executed, and nothing the replica does not count.
Values ==
  \A i \in Replicas :
    /\ Leq(valueTimestamp[i], replicaTimestamp[i])
    /\ \A u \in Executed(i) : \E r \in accepted : r.uuid = u
    /\ \A r \in accepted : r.uuid \in Executed(i) => Leq(r.timestamp, valueTimestamp[i])

\* Where the pass over the log is; when it is over, all that could be executed was.
Pass ==
  \A i \in Replicas :
    /\ stage[i] = "execute" => Ordered(todo[i]) /\ ToSet(todo[i]) \subseteq ToSet(log[i])
    /\ stage[i] = "cleanup" => todo[i] = <<>>
    /\ stage[i] \in {"execute", "cleanup"} =>
         \A r \in ToSet(log[i]) \ ToSet(todo[i]) :
           Leq(r.prev, replicaTimestamp[i]) => r.uuid \in Executed(i)
    /\ stage[i] = "free" =>
         \A r \in accepted : Counts(replicaTimestamp[i], r) /\ Leq(r.prev, valueTimestamp[i])
           => r.uuid \in Executed(i)

\* A camera that was executed is there, and a report of one that its client knew of
\* was stored.
Stored ==
  \A i \in Replicas, r \in accepted : r.uuid \in Executed(i) =>
    /\ Payload[r.uuid].kind = "camera" => cameras[i][Payload[r.uuid].name] # NoPlace
    /\ \A q \in accepted :
         /\ Payload[r.uuid].kind = "observations" /\ Payload[q.uuid].kind = "camera"
         /\ Payload[q.uuid].name = Payload[r.uuid].name /\ Leq(q.timestamp, r.prev)
         => r.uuid \in observations[i]

SerialInv ==
  /\ IInv
  /\ Quiet
  /\ History
  /\ Rows
  /\ Scans
  /\ Brought
  /\ Here
  /\ Values
  /\ Pass
  /\ Stored

-------------------------------------------------------------------------------
\* At most one handler or scan is active after a step of a serial behaviour.
LEMMA QuietNext == ASSUME TypeOK', Serial PROVE Quiet'
<1> DEFINE A == Active'
           H == {<<"handler", i>> : i \in {k \in Replicas : stage'[k] # "free"}}
           T == {<<"thread", i>> : i \in {k \in Replicas : thread'[k].pc \in {"scan", "read"}}}
<1>1. A = H \cup T
  BY DEF Active
<1>2. IsFiniteSet(H) /\ IsFiniteSet(T)
  <2>1. /\ IsFiniteSet({k \in Replicas : stage'[k] # "free"})
        /\ IsFiniteSet({k \in Replicas : thread'[k].pc \in {"scan", "read"}})
    BY ReplicasAssumption, FS_Subset
  <2>2. ASSUME NEW S, IsFiniteSet(S), NEW c PROVE IsFiniteSet({<<c, i>> : i \in S})
    <3> DEFINE U == {<<c, i>> : i \in S}
               f == [i \in S |-> <<c, i>>]
    <3>1. f \in Surjection(S, U)
      BY DEF Surjection
    <3> HIDE DEF U, f
    <3>2. IsFiniteSet(U)
      BY <2>2, <3>1, FS_Surjection
    <3> QED BY <3>2 DEF U
  <2> QED BY <2>1, <2>2
<1>3. IsFiniteSet(A)
  BY <1>1, <1>2, FS_Union
<1>4. Cardinality(A) <= 1
  BY DEF Serial
<1> HIDE DEF A
<1>5. ASSUME NEW a \in A, NEW b \in A, a # b PROVE FALSE
  <2>1. {a, b} \subseteq A /\ IsFiniteSet({a, b}) /\ Cardinality({a, b}) = 2
    <3>1. IsFiniteSet({a}) /\ Cardinality({a}) = 1
      BY FS_Singleton
    <3>2. b \notin {a} /\ {a, b} = {a} \cup {b}
      BY <1>5
    <3> QED BY <3>1, <3>2, FS_AddElement
  <2>2. Cardinality({a, b}) <= Cardinality(A)
    BY <1>3, <2>1, FS_Subset
  <2>3. Cardinality(A) \in Nat
    BY <1>3, FS_CardinalityType
  <2> QED BY <1>4, <2>1, <2>2, <2>3
<1> QED BY <1>5 DEF A, Quiet

\* What being the only one active means.
LEMMA QuietMeans ==
  ASSUME Quiet
  PROVE  /\ \A i, k \in Replicas : stage[i] # "free" => ~ Scanning(k)
         /\ \A i, k \in Replicas : stage[i] # "free" /\ stage[k] # "free" => i = k
         /\ \A i, k \in Replicas : Scanning(i) /\ Scanning(k) => i = k
<1>1. /\ \A i \in Replicas : stage[i] # "free" => <<"handler", i>> \in Active
      /\ \A i \in Replicas : Scanning(i) => <<"thread", i>> \in Active
  BY DEF Active, Scanning
<1> QED BY <1>1 DEF Quiet

\* A list is its first element and the rest.
LEMMA ToSetHeadTail ==
  ASSUME NEW S, NEW s \in Seq(S), s # <<>>
  PROVE  ToSet(s) = {Head(s)} \cup ToSet(Tail(s))
<1>1. /\ Len(s) \in Nat \ {0} /\ Head(s) = s[1] /\ DOMAIN s = 1 .. Len(s)
      /\ DOMAIN Tail(s) = 1 .. Len(s) - 1 /\ \A k \in 1 .. Len(s) - 1 : Tail(s)[k] = s[k + 1]
  OBVIOUS
<1>2. ASSUME NEW x \in ToSet(s) PROVE x \in {Head(s)} \cup ToSet(Tail(s))
  <2>1. PICK k \in 1 .. Len(s) : x = s[k]
    BY <1>1 DEF ToSet
  <2>2. CASE k = 1
    BY <1>1, <2>1, <2>2
  <2>3. CASE k # 1
    <3>1. k - 1 \in 1 .. Len(s) - 1 /\ (k - 1) + 1 = k
      BY <1>1, <2>3
    <3>2. k - 1 \in DOMAIN Tail(s) /\ Tail(s)[k - 1] = x
      BY <1>1, <2>1, <3>1
    <3> QED BY <3>2 DEF ToSet
  <2> QED BY <2>2, <2>3
<1>3. Head(s) \in ToSet(s) /\ ToSet(Tail(s)) \subseteq ToSet(s)
  BY ToSetTail
<1> QED BY <1>2, <1>3

\* Removing an element leaves the others.
LEMMA RemoveAtKeeps ==
  ASSUME NEW S, NEW s \in Seq(S), NEW n \in DOMAIN s
  PROVE  \A x \in ToSet(s) : x = s[n] \/ x \in ToSet(RemoveAt(s, n))
<1> DEFINE t == RemoveAt(s, n)
<1>1. /\ DOMAIN t = 1 .. Len(s) - 1
      /\ \A k \in 1 .. Len(s) - 1 : t[k] = IF k < n THEN s[k] ELSE s[k + 1]
      /\ Len(s) \in Nat /\ DOMAIN s = 1 .. Len(s) /\ n \in 1 .. Len(s)
  BY RemoveAtElements
<1> HIDE DEF t
<1>2. ASSUME NEW k \in DOMAIN s, k # n PROVE \E l \in DOMAIN t : t[l] = s[k]
  <2>1. CASE k < n
    <3>1. k \in 1 .. Len(s) - 1
      BY <1>1, <2>1
    <3> QED BY <1>1, <2>1, <3>1
  <2>2. CASE ~ (k < n)
    <3>1. k - 1 \in 1 .. Len(s) - 1 /\ ~ (k - 1 < n) /\ (k - 1) + 1 = k
      BY <1>1, <1>2, <2>2
    <3> QED BY <1>1, <3>1
  <2> QED BY <2>1, <2>2
<1>3. \A k \in DOMAIN s : s[k] = s[n] \/ s[k] \in ToSet(t)
  BY <1>2 DEF ToSet
<1> QED BY <1>3 DEF ToSet, t

\* Sorting loses no record.
LEMMA RearrangementsKeep ==
  ASSUME NEW S, NEW s \in Seq(S), NEW t \in Rearrangements(s)
  PROVE  ToSet(t) = ToSet(s)
<1>1. PICK p \in [DOMAIN s -> DOMAIN s] : IsInjective(p) /\ t = [k \in DOMAIN s |-> s[p[k]]]
  BY DEF Rearrangements
<1>2. DOMAIN s = 1 .. Len(s) /\ Len(s) \in Nat
  BY LenProperties
<1> DEFINE D == DOMAIN s
<1>3. IsFiniteSet(D)
  BY <1>2, FS_Interval
<1>4. p \in Injection(D, D)
  BY <1>1 DEF IsInjective, Injection
<1> HIDE DEF D
<1>5. p \in Surjection(D, D)
  BY <1>3, <1>4, FS_Injection
<1>6. \A k \in D : \E l \in D : p[l] = k
  BY <1>5 DEF Surjection
<1> QED BY <1>1, <1>6 DEF D, ToSet

-------------------------------------------------------------------------------
(***************************************************************************)
(* What clients know, exactly.                                             *)
(***************************************************************************)

\* If each of two timestamps counts all that q depends on once it counts q
\* last of its replica's updates, so does their maximum.
LEMMA MergeExact ==
  ASSUME NEW q \in Record, NEW s \in Vector, NEW t \in Vector,
         s[q.instance] = q.timestamp[q.instance] => Leq(q.timestamp, s),
         t[q.instance] = q.timestamp[q.instance] => Leq(q.timestamp, t),
         Merge(s, t)[q.instance] = q.timestamp[q.instance]
  PROVE  Leq(q.timestamp, Merge(s, t))
<1>1. q.instance \in Replicas /\ q.timestamp \in Vector
  BY DEF Record
<1>2. Merge(s, t)[q.instance] \in {s[q.instance], t[q.instance]}
  BY <1>1 DEF Merge
<1>3. Leq(s, Merge(s, t)) /\ Leq(t, Merge(s, t)) /\ Merge(s, t) \in Vector
  BY MergeIsUpper, MergeIsVector
<1>4. CASE Leq(q.timestamp, s)
  BY <1>1, <1>3, <1>4, LeqTransitive
<1>5. CASE Leq(q.timestamp, t)
  BY <1>1, <1>3, <1>5, LeqTransitive
<1> QED BY <1>2, <1>4, <1>5


\* What add does to the history.
LEMMA AddMakes ==
  ASSUME IInv, NEW i \in Replicas, NEW u \in Updates, NEW prev \in known, Add(i, u, prev)
  PROVE  LET new == NewRecord(i, u, prev) IN
         /\ new \in Record /\ accepted' = accepted \cup {new}
         /\ new.instance = i /\ new.uuid = u /\ new.prev = prev /\ prev \in Vector
         /\ new.timestamp \in Vector /\ Leq(prev, new.timestamp) /\ prev[i] < new.timestamp[i]
         /\ \A k \in Replicas \ {i} : new.timestamp[k] = prev[k]
         /\ new.timestamp[i] = replicaTimestamp[i][i] + 1 /\ replicaTimestamp[i][i] \in Nat
         /\ replicaTimestamp'[i][i] = replicaTimestamp[i][i] + 1
         /\ \A k \in Replicas : k # i => replicaTimestamp'[k] = replicaTimestamp[k]
         /\ \A k \in Replicas : k # i => replicaTimestamp'[i][k] = replicaTimestamp[i][k]
         /\ \A t \in known : t[i] <= replicaTimestamp[i][i]
         /\ \A q \in accepted : q.timestamp[i] <= replicaTimestamp[i][i]
<1> DEFINE new == NewRecord(i, u, prev)
<1>1. prev \in Vector /\ new \in Record /\ TypeOK
  BY NewRecordTyped DEF IInv, TypeOK
<1>2. /\ new.instance = i /\ new.uuid = u /\ new.prev = prev
      /\ new.timestamp = [prev EXCEPT ![i] = replicaTimestamp[i][i] + 1]
  BY DEF NewRecord
<1>3. accepted' = accepted \cup {new} /\ replicaTimestamp' = [replicaTimestamp EXCEPT ![i][i] = @ + 1]
  BY DEF Add
<1>4. \A t \in known : t[i] <= replicaTimestamp[i][i]
  BY DEF IInv, FromThePast, Leq, Origin
<1>5. \A q \in accepted : q.timestamp[i] <= replicaTimestamp[i][i]
  BY DEF IInv, FromThePast, Leq, Origin
<1>6. replicaTimestamp[i][i] \in Nat /\ replicaTimestamp \in [Replicas -> Vector]
  BY <1>1 DEF TypeOK, Vector
<1>7. prev[i] <= replicaTimestamp[i][i] /\ prev[i] \in Nat
  BY <1>1, <1>4 DEF Vector
<1>8. new.timestamp[i] = replicaTimestamp[i][i] + 1 /\ \A k \in Replicas \ {i} : new.timestamp[k] = prev[k]
  BY <1>1, <1>2 DEF Vector
<1>9. new.timestamp \in Vector
  BY <1>1 DEF Record
<1> HIDE DEF new
<1>10. Leq(prev, new.timestamp) /\ prev[i] < new.timestamp[i]
  BY <1>1, <1>6, <1>7, <1>8 DEF Leq, Vector
<1>11. /\ replicaTimestamp'[i][i] = replicaTimestamp[i][i] + 1
       /\ \A k \in Replicas : k # i => replicaTimestamp'[k] = replicaTimestamp[k]
       /\ \A k \in Replicas : k # i => replicaTimestamp'[i][k] = replicaTimestamp[i][k]
  <2>1. replicaTimestamp'[i] = [replicaTimestamp[i] EXCEPT ![i] = @ + 1]
    BY <1>3, <1>6
  <2>2. replicaTimestamp[i] \in [Replicas -> Nat]
    BY <1>6 DEF Vector
  <2> QED BY <1>3, <1>6, <2>1, <2>2
<1> QED BY <1>1, <1>2, <1>3, <1>4, <1>5, <1>6, <1>8, <1>9, <1>10, <1>11 DEF new

\* What a step takes back: nothing.
LEMMA Grow ==
  ASSUME IInv, [Next]_vars
  PROVE  \A k \in Replicas :
           /\ Leq(replicaTimestamp[k], replicaTimestamp'[k])
           /\ Leq(valueTimestamp[k], valueTimestamp'[k])
           /\ Executed(k) \subseteq Executed(k)'
<1> SUFFICES ASSUME NEW k \in Replicas
             PROVE  /\ Leq(replicaTimestamp[k], replicaTimestamp'[k])
                    /\ Leq(valueTimestamp[k], valueTimestamp'[k])
                    /\ Executed(k) \subseteq Executed(k)'
  OBVIOUS
<1>1. /\ Leq(replicaTimestamp[k], replicaTimestamp'[k])
      /\ Leq(valueTimestamp[k], valueTimestamp'[k])
      /\ IsPrefix(operationsTable[k], operationsTable'[k])
  BY NoStepBack DEF IInv
<1>2. operationsTable[k] \in Seq(Updates) /\ operationsTable'[k] \in Seq(Updates)
  BY NextIInv DEF IInv, TypeOK
<1> DEFINE s == operationsTable[k]
           t == operationsTable'[k]
<1>3. /\ Len(s) <= Len(t) /\ SubSeq(s, 1, Len(s)) = SubSeq(t, 1, Len(s))
      /\ Len(s) \in Nat /\ Len(t) \in Nat /\ DOMAIN s = 1 .. Len(s) /\ DOMAIN t = 1 .. Len(t)
      /\ s \in Seq(Updates) /\ t \in Seq(Updates)
  BY <1>1, <1>2, LenProperties DEF IsPrefix
<1> HIDE DEF s, t
<1>4. \A n \in 1 .. Len(s) : SubSeq(s, 1, Len(s))[n] = s[n] /\ SubSeq(t, 1, Len(s))[n] = t[n]
  BY <1>3
<1>5. \A n \in DOMAIN s : n \in DOMAIN t /\ s[n] = t[n]
  BY <1>3, <1>4
<1>6. ToSet(s) \subseteq ToSet(t)
  BY <1>5 DEF ToSet
<1> QED BY <1>1, <1>6 DEF Executed, s, t

\* A request that a replica has a record of was accepted, so it is not sent again.
LEMMA NotAgain ==
  ASSUME IInv, Values, PlainRequests, NEW i \in Replicas, NEW u \in Updates, MaySend(i, u)
  PROVE  /\ \A q \in accepted : q.uuid # u
         /\ ~ AlreadyHere(i, u)
<1>1. \A q \in accepted : q.uuid # u
  BY DEF MaySend, PlainRequests
<1>2. \A x \in Executed(i) : \E r \in accepted : r.uuid = x
  BY DEF Values
<1>3. ToSet(log[i]) \subseteq accepted
  BY DEF IInv, Provenance
<1> QED BY <1>1, <1>2, <1>3 DEF AlreadyHere, Executed

\* A step of a serial behaviour that changes the history is an add of a request that
\* is new, when no handler and no scan is active.
LEMMA OnlyAdd ==
  ASSUME IInv, Values, PlainRequests, Next, Serial
  PROVE  \/ \E i \in Replicas, u \in Updates, prev \in known :
              /\ MaySend(i, u) /\ Add(i, u, prev)
              /\ \A k \in Replicas : stage[k] = "free" /\ ~ Scanning(k)
         \/ UNCHANGED ghost /\ \A k \in Replicas : replicaTimestamp'[k][k] = replicaTimestamp[k][k]
<1>1. ASSUME NEW i \in Replicas, NEW u \in Updates, NEW prev \in known, MaySend(i, u), Add(i, u, prev)
      PROVE  \A k \in Replicas : stage[k] = "free" /\ ~ Scanning(k)
  <2> DEFINE new == NewRecord(i, u, prev)
  <2>1. new \in accepted' /\ new.uuid = u
    BY <1>1, AddMakes
  <2>2. accepted' # accepted
    BY <1>1, <2>1, NotAgain
  <2>3. Active = {}
    BY <2>2 DEF Serial
  <2> QED BY <2>3 DEF Active, Scanning
<1>2. ASSUME NEW i \in Replicas, NEW u \in Updates, NEW prev \in known, MaySend(i, u), AddAgain(i, u, prev)
      PROVE  FALSE
  BY <1>2, NotAgain DEF AddAgain
<1>3. ASSUME NEW i \in Replicas, MergeTimestamp(i)
      PROVE  UNCHANGED ghost /\ \A k \in Replicas : replicaTimestamp'[k][k] = replicaTimestamp[k][k]
  <2>1. /\ replicaTimestamp' = [replicaTimestamp EXCEPT ![i] = Merge(@, gossip[i].timestamp)]
        /\ UNCHANGED ghost /\ gossip[i] \in Message /\ gossip[i] # NoMessage
    BY <1>3 DEF MergeTimestamp, IInv, TypeOK
  <2>2. gossip[i].timestamp[i] <= replicaTimestamp[i][i]
    BY <2>1 DEF IInv, FromThePast, Leq, Origin
  <2>3. gossip[i].timestamp[i] \in Nat /\ replicaTimestamp[i][i] \in Nat
    BY <2>1 DEF IInv, TypeOK, Message, Vector
  <2>4. Merge(replicaTimestamp[i], gossip[i].timestamp)[i] = replicaTimestamp[i][i]
    BY <2>2, <2>3 DEF Merge
  <2> QED BY <2>1, <2>4 DEF IInv, TypeOK
<1>4. ASSUME NEW i \in Replicas, HandlerStep(i), ~ MergeTimestamp(i)
      PROVE  UNCHANGED <<ghost, replicaTimestamp>>
  BY <1>4 DEF HandlerStep, ReceiveGossip, TakeRecord, SortLog, StartExecution, ExecuteRecord,
     StartCleanup, RemoveRecord, FinishGossip, lists
<1>5. ASSUME NEW i \in Replicas, ThreadStep(i) \/ FailGossip(i)
      PROVE  UNCHANGED <<ghost, replicaTimestamp>>
  BY <1>5 DEF ThreadStep, StartScan, ScanRecord, FinishScan, SendGossip, FailGossip, lists
<1>6. ASSUME NEW i \in Replicas, ClientStep(i)
      PROVE  \E u \in Updates, prev \in known : MaySend(i, u) /\ Add(i, u, prev)
  BY <1>2, <1>6 DEF ClientStep
<1> QED BY <1>1, <1>3, <1>4, <1>5, <1>6 DEF Next

-------------------------------------------------------------------------------
\* The history of a serial behaviour stays one.
LEMMA HistoryNext ==
  ASSUME IInv, History, Values, PlainRequests, Next, Serial
  PROVE  History'
<1>1. ASSUME NEW i \in Replicas, NEW u \in Updates, NEW prev \in known, MaySend(i, u), Add(i, u, prev)
      PROVE  History'
  <2> DEFINE new == NewRecord(i, u, prev)
  <2>1. /\ new \in Record /\ accepted' = accepted \cup {new}
        /\ new.instance = i /\ new.uuid = u /\ new.prev = prev /\ prev \in Vector
        /\ new.timestamp \in Vector /\ Leq(prev, new.timestamp) /\ prev[i] < new.timestamp[i]
        /\ \A k \in Replicas \ {i} : new.timestamp[k] = prev[k]
        /\ new.timestamp[i] = replicaTimestamp[i][i] + 1 /\ replicaTimestamp[i][i] \in Nat
        /\ replicaTimestamp'[i][i] = replicaTimestamp[i][i] + 1
        /\ \A k \in Replicas : k # i => replicaTimestamp'[k] = replicaTimestamp[k]
        /\ \A t \in known : t[i] <= replicaTimestamp[i][i]
        /\ \A q \in accepted : q.timestamp[i] <= replicaTimestamp[i][i]
    BY <1>1, AddMakes
  <2>2. \A q \in accepted : q.uuid # u
    BY <1>1, NotAgain
  <2>3. known' = known \cup {Merge(s, new.timestamp) : s \in known}
    BY <1>1 DEF Add, Learn
  <2>4. accepted \subseteq Record /\ known \subseteq Vector
    BY DEF IInv, TypeOK
  <2> HIDE DEF new
  <2>5. \A r, q \in accepted' : r.uuid = q.uuid => r = q
    BY <2>1, <2>2 DEF History
  <2>6. ASSUME NEW k \in Replicas, NEW n \in 1 .. replicaTimestamp'[k][k]
        PROVE  \E q \in accepted' : q.instance = k /\ q.timestamp[k] = n
    <3>1. CASE n \in 1 .. replicaTimestamp[k][k]
      BY <2>1, <3>1 DEF History
    <3>2. CASE n \notin 1 .. replicaTimestamp[k][k]
      <4>1. k = i
        BY <2>1, <3>2
      <4>2. n = new.timestamp[i]
        BY <2>1, <3>2, <4>1
      <4> QED BY <2>1, <4>1, <4>2
    <3> QED BY <3>1, <3>2
  <2>7. \A r \in accepted' :
          /\ r.prev \in known'
          /\ r.prev[r.instance] < r.timestamp[r.instance]
          /\ \A k \in Replicas \ {r.instance} : r.timestamp[k] = r.prev[k]
    BY <2>1, <2>3 DEF History
  <2>8. \A t \in known : t[i] # new.timestamp[i]
    BY <2>1, <2>4 DEF Vector
  <2>9. ASSUME NEW q \in accepted, new.timestamp[q.instance] = q.timestamp[q.instance]
        PROVE  Leq(q.timestamp, new.timestamp)
    <3>1. q.instance \in Replicas /\ q.timestamp \in Vector
      BY <2>4 DEF Record
    <3>2. q.instance # i
      <4>1. q.timestamp[i] \in Nat /\ q.timestamp[i] <= replicaTimestamp[i][i]
        BY <2>1, <3>1 DEF Vector
      <4>2. q.timestamp[i] # new.timestamp[i]
        BY <2>1, <4>1
      <4> QED BY <2>9, <4>2
    <3>3. Leq(q.timestamp, prev)
      BY <2>1, <2>9, <3>1, <3>2 DEF History
    <3> QED BY <2>1, <3>1, <3>3, LeqTransitive
  <2>10. ASSUME NEW t \in known', NEW q \in accepted', t[q.instance] = q.timestamp[q.instance]
         PROVE  Leq(q.timestamp, t)
    <3>1. CASE t \in known /\ q \in accepted
      BY <2>10, <3>1 DEF History
    <3>2. CASE t \in known /\ q = new
      BY <2>1, <2>8, <2>10, <3>2
    <3>3. ASSUME NEW s \in known, t = Merge(s, new.timestamp), q \in accepted
          PROVE  Leq(q.timestamp, t)
      <4>1. s[q.instance] = q.timestamp[q.instance] => Leq(q.timestamp, s)
        BY <3>3 DEF History
      <4>2. q \in Record /\ s \in Vector
        BY <2>4, <3>3
      <4> QED BY <2>1, <2>9, <2>10, <3>3, <4>1, <4>2, MergeExact
    <3>4. ASSUME NEW s \in known, t = Merge(s, new.timestamp), q = new
          PROVE  Leq(q.timestamp, t)
      BY <2>1, <2>4, <3>4, MergeIsUpper
    <3> QED BY <2>1, <2>3, <3>1, <3>2, <3>3, <3>4
  <2> QED BY <2>5, <2>6, <2>7, <2>10 DEF History
<1>2. CASE UNCHANGED ghost /\ \A k \in Replicas : replicaTimestamp'[k][k] = replicaTimestamp[k][k]
  BY <1>2 DEF History, ghost
<1> QED BY <1>1, <1>2, OnlyAdd

\* What a timestamp says of the replica whose it was stays true.
LEMMA WasKept ==
  ASSUME IInv, Values, PlainRequests, Next, Serial, NEW t \in Vector, NEW j \in Replicas, Was(t, j)
  PROVE  Was(t, j)'
<1>1. Leq(t, replicaTimestamp'[j])
  <2>1. replicaTimestamp[j] \in Vector /\ replicaTimestamp'[j] \in Vector
    BY NextIInv DEF IInv, TypeOK
  <2>2. Leq(replicaTimestamp[j], replicaTimestamp'[j])
    BY Grow
  <2> QED BY <2>1, <2>2, LeqTransitive DEF Was
<1>2. ASSUME NEW i \in Replicas, NEW u \in Updates, NEW prev \in known, MaySend(i, u), Add(i, u, prev)
      PROVE  \A r \in accepted' : Counts(t, r) => r.timestamp[j] <= t[j]
  <2> DEFINE new == NewRecord(i, u, prev)
  <2>1. /\ accepted' = accepted \cup {new} /\ new.instance = i
        /\ new.timestamp[i] = replicaTimestamp[i][i] + 1 /\ replicaTimestamp[i][i] \in Nat
    BY <1>2, AddMakes
  <2>2. t[i] <= replicaTimestamp[j][i] /\ replicaTimestamp[j][i] <= replicaTimestamp[i][i]
    BY DEF Was, Leq, IInv, FromThePast, Origin
  <2>3. t[i] \in Nat /\ replicaTimestamp[j][i] \in Nat
    BY DEF IInv, TypeOK, Vector
  <2>4. ~ Counts(t, new)
    BY <2>1, <2>2, <2>3 DEF Counts
  <2> QED BY <2>1, <2>4 DEF Was
<1>3. \A r \in accepted' : Counts(t, r) => r.timestamp[j] <= t[j]
  BY <1>2, OnlyAdd DEF Was, ghost
<1> QED BY <1>1, <1>3 DEF Was, Counts

\* A replica's own timestamp was its own.
LEMMA WasOwn == IInv => \A i \in Replicas : Was(replicaTimestamp[i], i)
<1> SUFFICES ASSUME IInv, NEW i \in Replicas PROVE Was(replicaTimestamp[i], i)
  OBVIOUS
<1>1. \A r \in accepted : r.timestamp[i] <= replicaTimestamp[i][i]
  BY DEF IInv, FromThePast, Leq, Origin
<1> QED BY <1>1, LeqReflexive DEF IInv, TypeOK, Was

\* A thread that is invalidated is where it was.
LEMMA InvalidateKeeps ==
  ASSUME TypeOK, NEW i \in Replicas, Invalidate(i)
  PROVE  \A k \in Replicas :
           /\ thread'[k].pc = thread[k].pc /\ thread'[k].known = thread[k].known
           /\ thread'[k].to = thread[k].to
<1> DEFINE b == thread[i].fresh /\ thread[i].pc # "scan"
<1>1. thread' = [thread EXCEPT ![i] = [thread[i] EXCEPT !.fresh = b]]
  BY DEF Invalidate, TypeOK
<1> HIDE DEF b
<1>2. thread[i] \in Thread
  BY DEF TypeOK
<1>3. /\ [thread[i] EXCEPT !.fresh = b].pc = thread[i].pc
      /\ [thread[i] EXCEPT !.fresh = b].known = thread[i].known
      /\ [thread[i] EXCEPT !.fresh = b].to = thread[i].to
  BY <1>2 DEF Thread
<1> QED BY <1>1, <1>3 DEF TypeOK

\* What threads do: only StartScan begins a scan, and all keep their peer and its row.
LEMMA ScanningNext ==
  ASSUME IInv, [Next]_vars, NEW k \in Replicas, Scanning(k)'
  PROVE  \/ /\ Scanning(k) /\ thread'[k].known = thread[k].known /\ thread'[k].to = thread[k].to
         \/ /\ thread'[k].to \in Replicas
            /\ thread'[k].known = tableTimestamps[k][thread'[k].to]
<1> USE DEF value, lists, lock, wire, ghost
<1> DEFINE Same == thread'[k].pc = thread[k].pc /\ thread'[k].known = thread[k].known /\ thread'[k].to = thread[k].to
<1>1. CASE Same
  BY <1>1 DEF Scanning
<1>2. CASE UNCHANGED vars
  BY <1>1, <1>2 DEF vars
<1>3. TypeOK
  BY DEF IInv
<1>4. ASSUME NEW i \in Replicas, Invalidate(i) PROVE Same
  BY <1>3, <1>4, InvalidateKeeps
<1>5. ASSUME NEW i \in Replicas, ClientStep(i) PROVE Same
  BY <1>4, <1>5 DEF ClientStep, Add, AddAgain
<1>6. \A i, round : Idle(i, round).pc = "idle" /\ Dead(i).pc = "dead"
  BY DEF Idle, Dead
<1>7. ASSUME NEW i \in Replicas, HandlerStep(i) PROVE Same
  <2>1. CASE FinishGossip(i)
    <3> DEFINE j == gossip[i].source
    <3>1. thread' = [thread EXCEPT ![j] = NextPeer(j)] \/ thread' = thread
      BY <2>1 DEF FinishGossip
    <3>2. CASE k = j /\ thread' = [thread EXCEPT ![j] = NextPeer(j)]
      <4>1. thread'[k].pc = "idle"
        BY <1>3, <1>6, <3>2 DEF TypeOK, NextPeer
      <4> QED BY <4>1 DEF Scanning
    <3> QED BY <1>3, <3>1, <3>2 DEF TypeOK
  <2> QED BY <1>4, <1>7, <2>1 DEF HandlerStep, ReceiveGossip, TakeRecord, MergeTimestamp, SortLog,
       StartExecution, ExecuteRecord, StartCleanup, RemoveRecord
<1>8. ASSUME NEW i \in Replicas, NEW p \in Peers(i), StartScan(i, p)
      PROVE  Same \/ (thread'[k].to \in Replicas /\ thread'[k].known = tableTimestamps[k][thread'[k].to])
  <2>1. CASE k = i
    <3> DEFINE t == Idle(i, thread[i].round)
    <3>1. t \in Thread /\ p \in Replicas
      BY <1>3, <1>8, IdleTyped DEF TypeOK, Thread, Peers
    <3>2. thread'[i] = [t EXCEPT !.pc = "scan", !.to = p, !.known = tableTimestamps[i][p]]
      BY <1>3, <1>8 DEF StartScan, TypeOK
    <3> HIDE DEF t
    <3>3. thread'[i].to = p /\ thread'[i].known = tableTimestamps[i][p]
      BY <3>1, <3>2 DEF Thread
    <3> QED BY <2>1, <3>1, <3>3
  <2>2. CASE k # i
    <3> DEFINE t == [Idle(i, thread[i].round) EXCEPT !.pc = "scan", !.to = p,
                                                     !.known = tableTimestamps[i][p]]
    <3>1. thread' = [thread EXCEPT ![i] = t]
      BY <1>3, <1>8 DEF StartScan, TypeOK
    <3> HIDE DEF t
    <3> QED BY <1>3, <2>2, <3>1 DEF TypeOK
  <2> QED BY <2>1, <2>2
<1>9. ASSUME NEW i \in Replicas, ScanRecord(i) PROVE Same
  <2>1. CASE k = i /\ thread' = [thread EXCEPT ![i] = Dead(i)]
    <3>1. thread'[k].pc = "dead"
      BY <1>3, <1>6, <2>1 DEF TypeOK
    <3> QED BY <3>1 DEF Scanning
  <2>2. CASE k = i /\ thread' = [thread EXCEPT ![i] = Collect(thread[i], log[i][thread[i].cursor + 1])]
    <3> DEFINE r == log[i][thread[i].cursor + 1]
               t == thread[i]
    <3>1. thread'[k] = Collect(t, r) /\ t \in Thread
      BY <1>3, <2>2 DEF TypeOK
    <3> HIDE DEF r, t
    <3>2. Collect(t, r).pc = t.pc /\ Collect(t, r).known = t.known /\ Collect(t, r).to = t.to
      BY <3>1 DEF Thread, Collect
    <3> QED BY <2>2, <3>1, <3>2 DEF t
  <2>3. CASE k # i
    BY <1>3, <1>9, <2>3 DEF ScanRecord, TypeOK
  <2> QED BY <1>9, <2>1, <2>2, <2>3 DEF ScanRecord
<1>10. ASSUME NEW i \in Replicas, FinishScan(i)
       PROVE  Scanning(k) /\ thread'[k].known = thread[k].known /\ thread'[k].to = thread[k].to
  <2>1. CASE k = i
    <3>1. thread'[i] = [thread[i] EXCEPT !.pc = "read", !.from = replicaTimestamp[i]] /\ thread[i] \in Thread
      BY <1>3, <1>10 DEF FinishScan, TypeOK
    <3>2. thread'[i].known = thread[i].known /\ thread'[i].to = thread[i].to
      BY <3>1 DEF Thread
    <3> QED BY <1>10, <2>1, <3>2 DEF FinishScan, Scanning
  <2>2. CASE k # i
    BY <1>3, <1>10, <2>2 DEF FinishScan, TypeOK, Scanning
  <2> QED BY <2>1, <2>2
<1>11. ASSUME NEW i \in Replicas, NEW ts, SendGossip(i, ts) PROVE Same
  <2>1. CASE k = i
    <3> DEFINE t == Idle(i, thread[i].round)
               p == thread[i].to
    <3>1. t \in Thread
      BY <1>3, IdleTyped DEF TypeOK, Thread
    <3>2. thread'[i] = [t EXCEPT !.pc = "waiting", !.to = p]
      BY <1>3, <1>11 DEF SendGossip, TypeOK
    <3> HIDE DEF t, p
    <3>3. thread'[i].pc = "waiting"
      BY <3>1, <3>2 DEF Thread
    <3> QED BY <2>1, <3>3 DEF Scanning
  <2>2. CASE k # i
    BY <1>3, <1>11, <2>2 DEF SendGossip, TypeOK
  <2> QED BY <2>1, <2>2
<1>12. ASSUME NEW i \in Replicas, FailGossip(i) PROVE Same
  <2>1. CASE k = i
    <3>1. thread'[k].pc = "idle"
      BY <1>3, <1>6, <1>12, <2>1 DEF FailGossip, NextPeer, TypeOK
    <3> QED BY <3>1 DEF Scanning
  <2>2. CASE k # i
    BY <1>3, <1>12, <2>2 DEF FailGossip, TypeOK
  <2> QED BY <2>1, <2>2
<1> HIDE DEF Same
<1> QED BY <1>1, <1>2, <1>5, <1>7, <1>8, <1>9, <1>10, <1>11, <1>12 DEF Next, ThreadStep

\* Only receiveGossip replaces a row; only it, the end of a handler and a failed call
\* touch the message that is handled.
LEMMA TableNext ==
  ASSUME TypeOK, [Next]_vars
  PROVE  /\ \/ UNCHANGED tableTimestamps
            \/ \E i \in Replicas, m \in network : ReceiveGossip(i, m)
         /\ \A k \in Replicas :
              \/ gossip'[k] = gossip[k]
              \/ gossip'[k] = NoMessage
              \/ \E m \in network : ReceiveGossip(k, m)
              \/ gossip[k] # NoMessage /\ gossip'[k] = Abandon(gossip[k])
<1> USE DEF value, lists, lock, wire, ghost
<1>1. UNCHANGED tableTimestamps \/ \E i \in Replicas, m \in network : ReceiveGossip(i, m)
  <2>1. ASSUME NEW i \in Replicas, HandlerStep(i)
        PROVE  UNCHANGED tableTimestamps \/ \E m \in network : ReceiveGossip(i, m)
    BY <2>1 DEF HandlerStep, TakeRecord, MergeTimestamp, SortLog, StartExecution, ExecuteRecord,
       StartCleanup, RemoveRecord, FinishGossip
  <2>2. ASSUME NEW i \in Replicas, ClientStep(i) \/ ThreadStep(i) \/ FailGossip(i)
        PROVE  UNCHANGED tableTimestamps
    BY <2>2 DEF ClientStep, Add, AddAgain, ThreadStep, StartScan, ScanRecord, FinishScan,
       SendGossip, FailGossip
  <2> QED BY <2>1, <2>2 DEF Next, vars
<1>2. ASSUME NEW i \in Replicas, FailGossip(i), NEW k \in Replicas
      PROVE  gossip'[k] = gossip[k] \/ (gossip[k] # NoMessage /\ gossip'[k] = Abandon(gossip[k]))
  <2> DEFINE mine(m) == m # NoMessage /\ m.source = i /\ m.awaited
  <2>1. gossip' = [l \in Replicas |-> IF mine(gossip[l]) THEN Abandon(gossip[l]) ELSE gossip[l]]
    BY <1>2 DEF FailGossip
  <2>2. CASE mine(gossip[k])
    BY <2>1, <2>2
  <2>3. CASE ~ mine(gossip[k])
    BY <2>1, <2>3
  <2> QED BY <2>2, <2>3
<1>3. ASSUME NEW i \in Replicas, FinishGossip(i), NEW k \in Replicas
      PROVE  gossip'[k] = gossip[k] \/ gossip'[k] = NoMessage
  BY <1>3 DEF FinishGossip, TypeOK
<1>4. ASSUME NEW i \in Replicas, NEW m \in network, ReceiveGossip(i, m), NEW k \in Replicas
      PROVE  gossip'[k] = gossip[k] \/ ReceiveGossip(k, m)
  BY <1>4 DEF ReceiveGossip, TypeOK
<1>5. \/ UNCHANGED gossip
      \/ \E i \in Replicas : FailGossip(i) \/ FinishGossip(i)
      \/ \E i \in Replicas, m \in network : ReceiveGossip(i, m)
  <2>1. ASSUME NEW i \in Replicas, HandlerStep(i)
        PROVE  UNCHANGED gossip \/ FinishGossip(i) \/ \E m \in network : ReceiveGossip(i, m)
    BY <2>1 DEF HandlerStep, TakeRecord, MergeTimestamp, SortLog, StartExecution, ExecuteRecord,
       StartCleanup, RemoveRecord
  <2>2. ASSUME NEW i \in Replicas, ClientStep(i) \/ ThreadStep(i) PROVE UNCHANGED gossip
    BY <2>2 DEF ClientStep, Add, AddAgain, ThreadStep, StartScan, ScanRecord, FinishScan, SendGossip
  <2> QED BY <2>1, <2>2 DEF Next, vars
<1> QED BY <1>1, <1>2, <1>3, <1>4, <1>5

\* A request on the way was on the way, its answer awaited or not, or is what a thread sends.
LEMMA NetworkNext ==
  ASSUME TypeOK, [Next]_vars
  PROVE  \A m \in network' :
           \/ m \in network
           \/ \E o \in network : m = Abandon(o)
           \/ \E i \in Replicas : \E ts \in Between(thread[i].from, replicaTimestamp[i]) :
                /\ SendGossip(i, ts)
                /\ m = [source |-> i, target |-> thread[i].to, timestamp |-> ts,
                        awaited |-> TRUE, log |-> thread[i].toSend]
<1> USE DEF value, lists, lock, wire, ghost
<1> SUFFICES ASSUME NEW m \in network', m \notin network
             PROVE  \/ \E o \in network : m = Abandon(o)
                    \/ \E i \in Replicas : \E ts \in Between(thread[i].from, replicaTimestamp[i]) :
                         /\ SendGossip(i, ts)
                         /\ m = [source |-> i, target |-> thread[i].to, timestamp |-> ts,
                                 awaited |-> TRUE, log |-> thread[i].toSend]
  OBVIOUS
<1>1. ASSUME NEW i \in Replicas, FailGossip(i) PROVE \E o \in network : m = Abandon(o)
  BY <1>1 DEF FailGossip
<1>2. ASSUME NEW i \in Replicas, NEW ts \in Between(thread[i].from, replicaTimestamp[i]), SendGossip(i, ts)
      PROVE  m = [source |-> i, target |-> thread[i].to, timestamp |-> ts,
                  awaited |-> TRUE, log |-> thread[i].toSend]
  BY <1>2 DEF SendGossip
<1>3. \/ network' \subseteq network
      \/ \E i \in Replicas : FailGossip(i)
      \/ \E i \in Replicas : \E ts \in Between(thread[i].from, replicaTimestamp[i]) : SendGossip(i, ts)
  <2>1. ASSUME NEW i \in Replicas, HandlerStep(i) PROVE network' \subseteq network
    BY <2>1 DEF HandlerStep, ReceiveGossip, TakeRecord, MergeTimestamp, SortLog, StartExecution,
       ExecuteRecord, StartCleanup, RemoveRecord, FinishGossip
  <2>2. ASSUME NEW i \in Replicas, ClientStep(i) PROVE network' \subseteq network
    BY <2>2 DEF ClientStep, Add, AddAgain
  <2>3. ASSUME NEW i \in Replicas, ThreadStep(i)
        PROVE  \/ network' \subseteq network
               \/ \E ts \in Between(thread[i].from, replicaTimestamp[i]) : SendGossip(i, ts)
    BY <2>3 DEF ThreadStep, StartScan, ScanRecord, FinishScan
  <2>4. CASE UNCHANGED vars
    BY <2>4 DEF vars
  <2> QED BY <2>1, <2>2, <2>3, <2>4 DEF Next
<1> QED BY <1>1, <1>2, <1>3

\* A request whose sender no longer waits says what it said.
LEMMA AbandonKeeps ==
  ASSUME NEW m \in Message
  PROVE  /\ Abandon(m).source = m.source /\ Abandon(m).target = m.target
         /\ Abandon(m).timestamp = m.timestamp /\ Abandon(m).log = m.log
  BY DEF Abandon, Message

\* In a serial behaviour, the timestamp that is sent is the one that was read first.
LEMMA SentAtOnce ==
  ASSUME TypeOK, Scans, NEW i \in Replicas,
         NEW ts \in Between(thread[i].from, replicaTimestamp[i]), SendGossip(i, ts)
  PROVE  ts = replicaTimestamp[i] /\ thread[i].pc = "read"
<1>1. thread[i].pc = "read" /\ thread[i].from = replicaTimestamp[i]
  BY DEF SendGossip, Scans
<1>2. replicaTimestamp[i] \in Vector
  BY DEF TypeOK
<1>3. ts \in Vector /\ Leq(replicaTimestamp[i], ts) /\ Leq(ts, replicaTimestamp[i])
  BY <1>1, <1>2, BetweenIsVector
<1>4. \A k \in Replicas : ts[k] = replicaTimestamp[i][k]
  <2>1. \A k \in Replicas :
          /\ ts[k] \in Nat /\ replicaTimestamp[i][k] \in Nat
          /\ ts[k] <= replicaTimestamp[i][k] /\ replicaTimestamp[i][k] <= ts[k]
    BY <1>2, <1>3 DEF Leq, Vector
  <2>2. \A m, n \in Nat : m <= n /\ n <= m => m = n
    OBVIOUS
  <2> QED BY <2>1, <2>2
<1> QED BY <1>1, <1>2, <1>3, <1>4 DEF Vector

\* The rows of a serial behaviour stay what they are.
LEMMA RowsNext ==
  ASSUME IInv, Rows, Scans, Values, PlainRequests, Next, Serial
  PROVE  Rows'
<1> USE DEF value, lists, lock, wire, ghost
<1>1. TypeOK /\ TypeOK'
  BY NextIInv DEF IInv
<1> DEFINE WasNow(t, j) ==
             /\ Leq(t, replicaTimestamp'[j])
             /\ \A r \in accepted' : Counts(t, r) => r.timestamp[j] <= t[j]
<1>2. \A t \in Vector, j \in Replicas : Was(t, j) => WasNow(t, j)
  BY WasKept DEF Was, Counts
<1> HIDE DEF WasNow
<1>3. /\ \A m \in network : m.timestamp \in Vector /\ m.source \in Replicas /\ Was(m.timestamp, m.source)
      /\ \A i \in Replicas : gossip[i] # NoMessage =>
           /\ gossip[i] \in Message /\ gossip[i].timestamp \in Vector /\ gossip[i].source \in Replicas
           /\ Was(gossip[i].timestamp, gossip[i].source)
      /\ \A i, k \in Replicas : tableTimestamps[i][k] \in Vector /\ Was(tableTimestamps[i][k], k)
  BY <1>1 DEF Rows, TypeOK, Message
<1>4. ASSUME NEW i \in Replicas, NEW k \in Replicas
      PROVE  WasNow(tableTimestamps'[i][k], k)
  <2>1. ASSUME NEW j \in Replicas, NEW m \in network, ReceiveGossip(j, m)
        PROVE  \/ tableTimestamps'[i][k] = tableTimestamps[i][k]
               \/ tableTimestamps'[i][k] = m.timestamp /\ k = m.source
    <3>1. tableTimestamps' = [tableTimestamps EXCEPT ![j] = [@ EXCEPT ![m.source] = m.timestamp]]
      BY <2>1 DEF ReceiveGossip
    <3>2. tableTimestamps[i] \in [Replicas -> Vector]
      BY <1>1 DEF TypeOK
    <3>3. CASE i = j
      <4>1. tableTimestamps'[i] = [tableTimestamps[i] EXCEPT ![m.source] = m.timestamp]
        BY <1>1, <3>1, <3>3 DEF TypeOK
      <4> QED BY <3>2, <4>1
    <3>4. CASE i # j
      BY <1>1, <3>1, <3>4 DEF TypeOK
    <3> QED BY <3>3, <3>4
  <2>2. \E t \in Vector : t = tableTimestamps'[i][k] /\ Was(t, k)
    BY <1>1, <1>3, <2>1, TableNext
  <2> QED BY <1>2, <2>2
<1>5. ASSUME NEW i \in Replicas, NEW k \in Replicas
      PROVE  \/ Leq(tableTimestamps'[i][k], replicaTimestamp'[i])
             \/ stage'[i] = "records" /\ tableTimestamps'[i][k] = gossip'[i].timestamp
  <2>1. /\ replicaTimestamp[i] \in Vector /\ replicaTimestamp'[i] \in Vector
        /\ tableTimestamps[i][k] \in Vector /\ Leq(replicaTimestamp[i], replicaTimestamp'[i])
    BY <1>1, Grow DEF TypeOK
  <2>2. Leq(tableTimestamps[i][k], replicaTimestamp[i]) => Leq(tableTimestamps[i][k], replicaTimestamp'[i])
    BY <2>1, LeqTransitive
  <2>3. ASSUME NEW m \in network, ReceiveGossip(i, m)
        PROVE  \/ Leq(tableTimestamps'[i][k], replicaTimestamp'[i])
               \/ stage'[i] = "records" /\ tableTimestamps'[i][k] = gossip'[i].timestamp
    <3>1. CASE k = m.source
      BY <1>1, <2>3, <3>1 DEF ReceiveGossip, TypeOK
    <3>2. CASE k # m.source
      <4>1. tableTimestamps'[i][k] = tableTimestamps[i][k] /\ stage[i] = "free"
        BY <1>1, <2>3, <3>2 DEF ReceiveGossip, TypeOK
      <4> QED BY <2>2, <4>1 DEF Rows
    <3> QED BY <3>1, <3>2
  <2>4. CASE MergeTimestamp(i)
    <3>1. stage[i] = "records" /\ gossip[i] # NoMessage /\ tableTimestamps' = tableTimestamps
      BY <1>1, <2>4 DEF MergeTimestamp, TypeOK
    <3>2. replicaTimestamp'[i] = Merge(replicaTimestamp[i], gossip[i].timestamp)
      BY <1>1, <2>4 DEF MergeTimestamp, TypeOK
    <3>3. Leq(gossip[i].timestamp, replicaTimestamp'[i])
      BY <1>3, <2>1, <3>1, <3>2, MergeIsUpper
    <3> QED BY <2>2, <3>1, <3>3 DEF Rows
  <2>5. CASE /\ tableTimestamps'[i] = tableTimestamps[i]
             /\ stage[i] = "records" => /\ stage'[i] = "records" /\ gossip[i] # NoMessage
                                        /\ gossip'[i] = gossip[i] \/ gossip'[i] = Abandon(gossip[i])
    <3>1. stage[i] = "records" => gossip'[i].timestamp = gossip[i].timestamp
      BY <1>3, <2>5, AbandonKeeps
    <3> QED BY <2>2, <2>5, <3>1 DEF Rows
  <2>6. \/ MergeTimestamp(i) \/ \E m \in network : ReceiveGossip(i, m)
        \/ /\ tableTimestamps'[i] = tableTimestamps[i]
           /\ stage[i] = "records" => stage'[i] = "records"
    <3>1. ASSUME NEW j \in Replicas, HandlerStep(j)
          PROVE  \/ MergeTimestamp(i) \/ \E m \in network : ReceiveGossip(i, m)
                 \/ /\ tableTimestamps'[i] = tableTimestamps[i]
                    /\ stage[i] = "records" => stage'[i] = "records"
      <4>1. CASE j = i
        BY <1>1, <3>1, <4>1 DEF HandlerStep, TakeRecord, SortLog, StartExecution, ExecuteRecord,
           StartCleanup, RemoveRecord, FinishGossip, TypeOK
      <4>2. CASE j # i
        <5>1. CASE \E m \in network : ReceiveGossip(j, m)
          BY <1>1, <4>2, <5>1 DEF ReceiveGossip, TypeOK
        <5> QED BY <1>1, <3>1, <4>2, <5>1 DEF HandlerStep, TakeRecord, MergeTimestamp, SortLog,
               StartExecution, ExecuteRecord, StartCleanup, RemoveRecord, FinishGossip, TypeOK
      <4> QED BY <4>1, <4>2
    <3>2. ASSUME NEW j \in Replicas, ClientStep(j) \/ ThreadStep(j) \/ FailGossip(j)
          PROVE  tableTimestamps' = tableTimestamps /\ stage' = stage
      BY <3>2 DEF ClientStep, Add, AddAgain, ThreadStep, StartScan, ScanRecord, FinishScan, SendGossip,
         FailGossip
    <3> QED BY <3>1, <3>2 DEF Next
  <2>7. stage[i] = "records" => gossip[i] # NoMessage
    BY <1>1 DEF TypeOK
  <2>8. stage'[i] = "records" => gossip'[i] # NoMessage
    BY <1>1 DEF TypeOK
  <2> QED BY <1>1, <2>3, <2>4, <2>5, <2>6, <2>7, <2>8, TableNext
<1>6. ASSUME NEW m \in network' PROVE WasNow(m.timestamp, m.source)
  <2>1. ASSUME NEW o \in network, m.timestamp = o.timestamp, m.source = o.source
        PROVE  WasNow(m.timestamp, m.source)
    BY <1>2, <1>3, <2>1
  <2>2. ASSUME NEW o \in network, m = Abandon(o) PROVE WasNow(m.timestamp, m.source)
    <3>1. o \in Message
      BY <1>1, <2>2 DEF TypeOK
    <3> QED BY <2>1, <2>2, <3>1, AbandonKeeps
  <2>3. ASSUME NEW i \in Replicas, NEW ts \in Between(thread[i].from, replicaTimestamp[i]),
               SendGossip(i, ts), m.source = i, m.timestamp = ts
        PROVE  WasNow(m.timestamp, m.source)
    <3>1. ts = replicaTimestamp[i] /\ ts \in Vector /\ Was(ts, i)
      BY <1>1, <2>3, SentAtOnce, WasOwn DEF TypeOK
    <3> QED BY <1>2, <2>3, <3>1
  <2> QED BY <1>1, <2>1, <2>2, <2>3, NetworkNext
<1>7. ASSUME NEW i \in Replicas, gossip'[i] # NoMessage
      PROVE  WasNow(gossip'[i].timestamp, gossip'[i].source)
  <2>1. CASE gossip'[i] = gossip[i]
    BY <1>2, <1>3, <1>7, <2>1
  <2>2. ASSUME NEW m \in network, ReceiveGossip(i, m)
        PROVE  WasNow(gossip'[i].timestamp, gossip'[i].source)
    <3>1. gossip'[i] = m
      BY <1>1, <2>2 DEF ReceiveGossip, TypeOK
    <3> QED BY <1>2, <1>3, <3>1
  <2>3. CASE gossip[i] # NoMessage /\ gossip'[i] = Abandon(gossip[i])
    BY <1>2, <1>3, <2>3, AbandonKeeps
  <2> QED BY <1>1, <1>7, <2>1, <2>2, <2>3, TableNext
<1>8. ASSUME NEW i \in Replicas, Scanning(i)' PROVE WasNow(thread'[i].known, thread'[i].to)
  <2>1. thread[i].known \in Vector /\ thread[i].to \in Replicas
    BY <1>1 DEF TypeOK, Thread
  <2>2. CASE Scanning(i) /\ thread'[i].known = thread[i].known /\ thread'[i].to = thread[i].to
    BY <1>2, <2>1, <2>2 DEF Rows
  <2>3. CASE thread'[i].to \in Replicas /\ thread'[i].known = tableTimestamps[i][thread'[i].to]
    BY <1>2, <1>3, <2>3
  <2> QED BY <1>8, <2>2, <2>3, ScanningNext
<1> QED BY <1>4, <1>5, <1>6, <1>7, <1>8 DEF Rows, Was, WasNow, Counts, Scanning

\* When a handler is active no thread scans, before its step or after.
LEMMA HandlerAlone ==
  ASSUME TypeOK, Quiet, Quiet', NEW i \in Replicas, HandlerStep(i)
  PROVE  \A k \in Replicas : ~ Scanning(k)'
<1> USE DEF value, lists, lock, wire, ghost
<1>1. CASE stage[i] # "free"
  <2>1. \A k \in Replicas : ~ Scanning(k)
    BY <1>1, QuietMeans
  <2>2. CASE stage'[i] # "free"
    <3>1. <<"handler", i>> \in Active' /\ \A k \in Replicas : Scanning(k)' => <<"thread", k>> \in Active'
      BY <2>2 DEF Active, Scanning
    <3> QED BY <3>1 DEF Quiet
  <2>3. CASE FinishGossip(i)
    <3> DEFINE j == gossip[i].source
    <3>1. thread' = [thread EXCEPT ![j] = NextPeer(j)] \/ thread' = thread
      BY <2>3 DEF FinishGossip
    <3>2. NextPeer(j).pc = "idle"
      BY DEF NextPeer, Idle
    <3>3. ASSUME NEW k \in Replicas PROVE thread'[k].pc = "idle" \/ thread'[k] = thread[k]
      <4> HIDE DEF j
      <4>1. CASE k = j
        BY <3>1, <3>2, <4>1 DEF TypeOK
      <4>2. CASE k # j
        BY <3>1, <4>2 DEF TypeOK
      <4> QED BY <4>1, <4>2
    <3> QED BY <2>1, <3>3 DEF Scanning
  <2>4. stage'[i] # "free" \/ FinishGossip(i)
    BY <1>1 DEF TypeOK, HandlerStep, ReceiveGossip, TakeRecord, MergeTimestamp, SortLog, StartExecution,
       ExecuteRecord, StartCleanup, RemoveRecord
  <2> QED BY <2>2, <2>3, <2>4
<1>2. CASE stage[i] = "free"
  <2>1. stage'[i] = "records"
    BY <1>2 DEF TypeOK, HandlerStep, ReceiveGossip, TakeRecord, MergeTimestamp, SortLog, StartExecution,
       ExecuteRecord, StartCleanup, RemoveRecord, FinishGossip
  <2>2. <<"handler", i>> \in Active' /\ \A k \in Replicas : Scanning(k)' => <<"thread", k>> \in Active'
    BY <2>1 DEF Active, Scanning
  <2> QED BY <2>2 DEF Quiet
<1> QED BY <1>1, <1>2

\* A scan of a serial behaviour collects what its peer lacks, and all of it.
LEMMA ScansNext ==
  ASSUME IInv, Quiet, Quiet', Values, Scans, PlainRequests, Next, Serial
  PROVE  Scans'
<1> USE DEF value, lists, lock, wire, ghost
<1> DEFINE Scan(k) ==
             /\ Scanning(k)' => ToSet(thread'[k].toSend) \subseteq ToSet(log'[k])
             /\ thread'[k].pc = "scan" =>
                  /\ thread'[k].fresh
                  /\ \A n \in 1 .. thread'[k].cursor :
                       Unknown(thread'[k], log'[k][n]) => log'[k][n] \in ToSet(thread'[k].toSend)
             /\ thread'[k].pc = "read" =>
                  /\ thread'[k].from = replicaTimestamp'[k]
                  /\ \A r \in ToSet(log'[k]) :
                       Unknown(thread'[k], r) => r \in ToSet(thread'[k].toSend)
<1>1. TypeOK
  BY DEF IInv
<1>2. ASSUME NEW k \in Replicas, thread'[k] = thread[k], log'[k] = log[k],
             replicaTimestamp'[k] = replicaTimestamp[k]
      PROVE  Scan(k)
  BY <1>2 DEF Scans, Scanning
<1>3. ASSUME NEW k \in Replicas, ~ Scanning(k)' PROVE Scan(k)
  BY <1>3 DEF Scanning
<1> HIDE DEF Scan
<1>4. ASSUME NEW i \in Replicas, HandlerStep(i), NEW k \in Replicas PROVE Scan(k)
  BY <1>1, <1>3, <1>4, HandlerAlone
<1>5. ASSUME NEW i \in Replicas, ClientStep(i), NEW k \in Replicas PROVE Scan(k)
  <2>1. PICK u \in Updates, prev \in known : MaySend(i, u) /\ (Add(i, u, prev) \/ AddAgain(i, u, prev))
    BY <1>5 DEF ClientStep
  <2>2. CASE AddAgain(i, u, prev)
    BY <1>2, <2>2 DEF AddAgain
  <2>3. CASE Add(i, u, prev)
    <3> DEFINE new == NewRecord(i, u, prev)
    <3>1. new \in accepted' /\ new.uuid = u
      BY <2>3, AddMakes
    <3>2. accepted' # accepted
      BY <2>1, <3>1, NotAgain
    <3>3. Active = {}
      BY <3>2 DEF Serial
    <3>4. thread'[k].pc = thread[k].pc
      BY <1>1, <2>3, InvalidateKeeps DEF Add
    <3>5. ~ Scanning(k)'
      BY <3>3, <3>4 DEF Active, Scanning
    <3> QED BY <1>3, <3>5
  <2> QED BY <2>1, <2>2, <2>3
<1>6. ASSUME NEW i \in Replicas, ThreadStep(i) \/ FailGossip(i), NEW k \in Replicas, k # i PROVE Scan(k)
  <2>1. UNCHANGED <<replicaTimestamp, log>>
    BY <1>6 DEF ThreadStep, StartScan, ScanRecord, FinishScan, SendGossip, FailGossip
  <2>2. \E t : thread' = [thread EXCEPT ![i] = t]
    <3>1. ASSUME NEW p \in Peers(i), StartScan(i, p) PROVE \E t : thread' = [thread EXCEPT ![i] = t]
      <4> DEFINE t == [Idle(i, thread[i].round) EXCEPT !.pc = "scan", !.to = p,
                                                       !.known = tableTimestamps[i][p]]
      <4>1. thread' = [thread EXCEPT ![i] = t]
        BY <1>1, <3>1 DEF StartScan, TypeOK
      <4> HIDE DEF t
      <4> QED BY <4>1
    <3>2. CASE ScanRecord(i)
      BY <3>2 DEF ScanRecord
    <3>3. CASE FinishScan(i)
      <4> DEFINE t == [thread[i] EXCEPT !.pc = "read", !.from = replicaTimestamp[i]]
      <4>1. thread' = [thread EXCEPT ![i] = t]
        BY <1>1, <3>3 DEF FinishScan, TypeOK
      <4> HIDE DEF t
      <4> QED BY <4>1
    <3>4. ASSUME NEW ts, SendGossip(i, ts) PROVE \E t : thread' = [thread EXCEPT ![i] = t]
      <4> DEFINE t == [Idle(i, thread[i].round) EXCEPT !.pc = "waiting", !.to = thread[i].to]
      <4>1. thread' = [thread EXCEPT ![i] = t]
        BY <1>1, <3>4 DEF SendGossip, TypeOK
      <4> HIDE DEF t
      <4> QED BY <4>1
    <3>5. CASE FailGossip(i)
      BY <3>5 DEF FailGossip
    <3> QED BY <1>6, <3>1, <3>2, <3>3, <3>4, <3>5 DEF ThreadStep
  <2>3. thread'[k] = thread[k]
    BY <1>1, <1>6, <2>2 DEF TypeOK
  <2> QED BY <1>2, <2>1, <2>3
<1>7. ASSUME NEW i \in Replicas, NEW p \in Peers(i), StartScan(i, p) PROVE Scan(i)
  <2> DEFINE t == Idle(i, thread[i].round)
             v == tableTimestamps[i][p]
  <2>1. t \in Thread /\ t.cursor = 0 /\ t.fresh /\ t.toSend = <<>>
    <3>1. t \in Thread
      BY <1>1, IdleTyped DEF TypeOK, Thread
    <3> QED BY <3>1 DEF Idle
  <2>2. thread'[i] = [t EXCEPT !.pc = "scan", !.to = p, !.known = v]
    BY <1>1, <1>7 DEF StartScan, TypeOK
  <2> HIDE DEF t, v
  <2>3. /\ thread'[i].pc = "scan" /\ thread'[i].cursor = 0 /\ thread'[i].fresh
        /\ thread'[i].toSend = <<>>
    BY <2>1, <2>2 DEF Thread
  <2> QED BY <2>3, ToSetEmpty DEF Scan
<1>8. ASSUME NEW i \in Replicas, ScanRecord(i) PROVE Scan(i)
  <2> DEFINE t == thread[i]
             n == t.cursor + 1
             r == log[i][n]
  <2>1. t \in Thread /\ t.pc = "scan" /\ t.fresh /\ t.cursor # Len(log[i])
    BY <1>1, <1>8 DEF ScanRecord, TypeOK, Scans
  <2>2. /\ thread' = [thread EXCEPT ![i] = Collect(t, r)]
        /\ UNCHANGED <<replicaTimestamp, log>>
    BY <1>8, <2>1 DEF ScanRecord
  <2>3. log[i] \in Seq(Record) /\ t.cursor \in Nat /\ t.cursor <= Len(log[i])
    BY <1>1, <2>1 DEF TypeOK, Inside, Thread
  <2>4. n \in 1 .. Len(log[i]) /\ r \in Record /\ r \in ToSet(log[i])
    <3>1. n \in 1 .. Len(log[i]) /\ DOMAIN log[i] = 1 .. Len(log[i])
      BY <2>1, <2>3
    <3> QED BY <2>3, <3>1 DEF ToSet
  <2>5. Sendable(r)
    <3>1. r.uuid \in Updates
      BY <2>4 DEF Record
    <3> QED BY <3>1 DEF PlainRequests, Sendable
  <2>6. thread'[i] = Collect(t, r)
    BY <1>1, <2>2 DEF TypeOK
  <2>7. /\ ToSet(t.toSend) \subseteq ToSet(log[i])
        /\ \A m \in 1 .. t.cursor : Unknown(t, log[i][m]) => log[i][m] \in ToSet(t.toSend)
    BY <2>1 DEF Scans, Scanning
  <2>8. t.toSend \in Seq(Record)
    BY <2>1 DEF Thread
  <2> HIDE DEF t, r
  <2>9. /\ Collect(t, r).cursor = n /\ Collect(t, r).fresh = t.fresh /\ Collect(t, r).pc = t.pc
        /\ Collect(t, r).known = t.known
        /\ Collect(t, r).toSend = IF Unknown(t, r) THEN Append(t.toSend, r) ELSE t.toSend
    BY <2>1, <2>5 DEF Thread, Collect
  <2>10. ToSet(Append(t.toSend, r)) = ToSet(t.toSend) \cup {r}
    BY <2>4, <2>8, ToSetAppend
  <2>11. ToSet(Collect(t, r).toSend) \subseteq ToSet(log[i])
    BY <2>4, <2>7, <2>9, <2>10
  <2>12. ASSUME NEW m \in 1 .. n, Unknown(Collect(t, r), log[i][m])
         PROVE  log[i][m] \in ToSet(Collect(t, r).toSend)
    <3>1. Unknown(t, log[i][m])
      BY <2>9, <2>12 DEF Unknown
    <3>2. m \in 1 .. t.cursor \/ m = n
      BY <2>3
    <3>3. CASE m \in 1 .. t.cursor
      BY <2>7, <2>9, <2>10, <3>1, <3>3
    <3>4. CASE m = n
      BY <2>9, <2>10, <3>1, <3>4 DEF r
    <3> QED BY <3>2, <3>3, <3>4
  <2> QED BY <2>1, <2>2, <2>6, <2>9, <2>11, <2>12 DEF Scan
<1>9. ASSUME NEW i \in Replicas, FinishScan(i) PROVE Scan(i)
  <2> DEFINE t == thread[i]
             v == replicaTimestamp[i]
  <2>1. t \in Thread /\ t.pc = "scan" /\ t.fresh /\ t.cursor = Len(log[i])
    BY <1>1, <1>9 DEF FinishScan, TypeOK, Scans
  <2>2. /\ thread'[i] = [t EXCEPT !.pc = "read", !.from = v]
        /\ UNCHANGED <<replicaTimestamp, log>>
    BY <1>1, <1>9 DEF FinishScan, TypeOK
  <2>3. /\ ToSet(t.toSend) \subseteq ToSet(log[i])
        /\ \A m \in 1 .. Len(log[i]) : Unknown(t, log[i][m]) => log[i][m] \in ToSet(t.toSend)
    BY <2>1 DEF Scans, Scanning
  <2>4. DOMAIN log[i] = 1 .. Len(log[i])
    BY <1>1 DEF TypeOK
  <2>5. \A r \in ToSet(log[i]) : Unknown(t, r) => r \in ToSet(t.toSend)
    BY <2>3, <2>4 DEF ToSet
  <2> HIDE DEF t
  <2>6. /\ thread'[i].pc = "read" /\ thread'[i].from = v /\ thread'[i].known = t.known
        /\ thread'[i].toSend = t.toSend
    BY <2>1, <2>2 DEF Thread
  <2> QED BY <2>2, <2>3, <2>5, <2>6 DEF Scan, Unknown
<1>10. ASSUME NEW i \in Replicas, NEW ts, SendGossip(i, ts) PROVE Scan(i)
  <2> DEFINE t == Idle(i, thread[i].round)
             p == thread[i].to
  <2>1. t \in Thread
    BY <1>1, IdleTyped DEF TypeOK, Thread
  <2>2. thread'[i] = [t EXCEPT !.pc = "waiting", !.to = p]
    BY <1>1, <1>10 DEF SendGossip, TypeOK
  <2> HIDE DEF t, p
  <2>3. thread'[i].pc = "waiting"
    BY <2>1, <2>2 DEF Thread
  <2> QED BY <1>3, <2>3 DEF Scanning
<1>11. ASSUME NEW i \in Replicas, FailGossip(i) PROVE Scan(i)
  <2>1. thread'[i].pc = "idle"
    BY <1>1, <1>11 DEF FailGossip, TypeOK, NextPeer, Idle
  <2> QED BY <1>3, <2>1 DEF Scanning
<1>12. \A k \in Replicas : Scan(k)
  BY <1>4, <1>5, <1>6, <1>7, <1>8, <1>9, <1>10, <1>11 DEF Next, ThreadStep
<1> QED BY <1>12 DEF Scans, Scan, Scanning, Unknown

-------------------------------------------------------------------------------
(***************************************************************************)
(* What a replica counts is there.                                         *)
(***************************************************************************)

\* A record that a step adds is counted by no timestamp that was there.
LEMMA NewIsNew ==
  ASSUME IInv, Values, PlainRequests, Next, Serial
  PROVE  \A r \in accepted' :
           /\ r \in Record
           /\ r \in accepted \/ \A t \in Vector : Leq(t, Origin) => ~ Counts(t, r)
<1>1. accepted' \subseteq Record
  BY NextIInv DEF IInv, TypeOK
<1>2. ASSUME NEW i \in Replicas, NEW u \in Updates, NEW prev \in known, MaySend(i, u), Add(i, u, prev)
      PROVE  \A r \in accepted' :
               r \in accepted \/ \A t \in Vector : Leq(t, Origin) => ~ Counts(t, r)
  <2> DEFINE new == NewRecord(i, u, prev)
  <2>1. /\ accepted' = accepted \cup {new} /\ new.instance = i
        /\ new.timestamp[i] = replicaTimestamp[i][i] + 1 /\ replicaTimestamp[i][i] \in Nat
    BY <1>2, AddMakes
  <2> HIDE DEF new
  <2>2. ASSUME NEW t \in Vector, Leq(t, Origin) PROVE ~ Counts(t, new)
    <3>1. t[i] \in Nat /\ t[i] <= replicaTimestamp[i][i]
      BY <2>2 DEF Vector, Leq, Origin
    <3> QED BY <2>1, <3>1 DEF Counts
  <2> QED BY <2>1, <2>2
<1> QED BY <1>1, <1>2, OnlyAdd DEF ghost

\* A replica goes on counting what it counts.
LEMMA CountsGrow ==
  ASSUME IInv, [Next]_vars, NEW k \in Replicas, NEW r \in Record, Counts(replicaTimestamp[k], r)
  PROVE  Counts(replicaTimestamp'[k], r)
<1>1. Leq(replicaTimestamp[k], replicaTimestamp'[k])
  BY Grow
<1>2. replicaTimestamp[k] \in Vector /\ replicaTimestamp'[k] \in Vector
  BY NextIInv DEF IInv, TypeOK
<1>3. r.instance \in Replicas /\ r.timestamp \in Vector
  BY DEF Record
<1> DEFINE a == r.timestamp[r.instance]
           b == replicaTimestamp[k][r.instance]
           c == replicaTimestamp'[k][r.instance]
<1>4. a \in Nat /\ b \in Nat /\ c \in Nat
  BY <1>2, <1>3 DEF Vector
<1>5. a <= b /\ b <= c
  BY <1>1, <1>3 DEF Counts, Leq
<1> HIDE DEF a, b, c
<1>6. a <= c
  BY <1>4, <1>5
<1> QED BY <1>6 DEF a, c, Counts

\* A timestamp that reaches another counts what it counts.
LEMMA CountsLeq ==
  ASSUME NEW s \in Vector, NEW t \in Vector, Leq(s, t), NEW r \in Record, Counts(s, r)
  PROVE  Counts(t, r)
<1>1. r.instance \in Replicas /\ r.timestamp \in Vector
  BY DEF Record
<1> DEFINE a == r.timestamp[r.instance]
           b == s[r.instance]
           c == t[r.instance]
<1>2. a \in Nat /\ b \in Nat /\ c \in Nat
  BY <1>1 DEF Vector
<1>3. a <= b /\ b <= c
  BY <1>1 DEF Counts, Leq
<1> HIDE DEF a, b, c
<1>4. a <= c
  BY <1>2, <1>3
<1> QED BY <1>4 DEF a, c, Counts

\* A maximum counts what one of the two counts, and nothing else.
LEMMA CountsMerge ==
  ASSUME NEW s \in Vector, NEW t \in Vector, NEW r \in Record
  PROVE  Counts(Merge(s, t), r) <=> Counts(s, r) \/ Counts(t, r)
<1>1. r.instance \in Replicas /\ r.timestamp \in Vector
  BY DEF Record
<1> DEFINE a == r.timestamp[r.instance]
           b == s[r.instance]
           c == t[r.instance]
<1>2. a \in Nat /\ b \in Nat /\ c \in Nat
  BY <1>1 DEF Vector
<1>3. Merge(s, t)[r.instance] = IF b < c THEN c ELSE b
  BY <1>1 DEF Merge
<1> HIDE DEF a, b, c
<1>4. a <= (IF b < c THEN c ELSE b) <=> a <= b \/ a <= c
  BY <1>2
<1> QED BY <1>3, <1>4 DEF a, b, c, Counts

\* A timestamp that reaches a record's own counts the record.
LEMMA CountsOwn ==
  ASSUME NEW r \in Record, NEW t, Leq(r.timestamp, t)
  PROVE  Counts(t, r)
BY DEF Record, Leq, Counts

\* Every record is counted by the replica that accepted it.
LEMMA CountedAtHome ==
  ASSUME IInv, NEW r \in accepted
  PROVE  r \in Record /\ r.instance \in Replicas /\ Counts(replicaTimestamp[r.instance], r)
BY DEF IInv, TypeOK, Record, FromThePast, Leq, Origin, Counts

\* What a step does to the lists of a replica that it does not work on.
LEMMA Elsewhere ==
  ASSUME TypeOK, NEW i \in Replicas, NEW k \in Replicas, k # i,
         HandlerStep(i) \/ ClientStep(i)
  PROVE  /\ log'[k] = log[k] /\ todo'[k] = todo[k] /\ stage'[k] = stage[k] /\ gossip'[k] = gossip[k]
         /\ replicaTimestamp'[k] = replicaTimestamp[k] /\ operationsTable'[k] = operationsTable[k]
         /\ valueTimestamp'[k] = valueTimestamp[k]
<1> USE DEF value, lists, lock, wire, ghost
<1>1. CASE ClientStep(i)
  <2>1. \/ \E u \in Updates, prev \in known : Add(i, u, prev)
        \/ \E u \in Updates, prev \in known : AddAgain(i, u, prev)
    BY <1>1 DEF ClientStep
  <2>2. CASE \E u \in Updates, prev \in known : Add(i, u, prev)
    BY <2>2 DEF TypeOK, Add, execute
  <2> QED BY <2>1, <2>2 DEF AddAgain
<1>2. CASE \E m \in network : ReceiveGossip(i, m)
  BY <1>2 DEF TypeOK, ReceiveGossip
<1>3. CASE ExecuteRecord(i)
  BY <1>3 DEF TypeOK, ExecuteRecord, execute
<1>4. CASE \E n \in DOMAIN log[i] : RemoveRecord(i, n)
  BY <1>4 DEF TypeOK, RemoveRecord
<1>5. CASE TakeRecord(i)
  BY <1>5 DEF TypeOK, TakeRecord
<1>6. CASE MergeTimestamp(i) \/ SortLog(i) \/ StartExecution(i) \/ StartCleanup(i) \/ FinishGossip(i)
  BY <1>6 DEF TypeOK, MergeTimestamp, SortLog, StartExecution, StartCleanup, FinishGossip
<1> QED BY <1>1, <1>2, <1>3, <1>4, <1>5, <1>6 DEF HandlerStep

\* What threads and failing calls do to the lists.
LEMMA ThreadsElsewhere ==
  ASSUME TypeOK, NEW i \in Replicas, ThreadStep(i) \/ FailGossip(i)
  PROVE  /\ UNCHANGED <<log, todo, stage, replicaTimestamp, value, accepted, known, tableTimestamps>>
         /\ \A k \in Replicas : gossip'[k] = gossip[k] \/ (gossip[k] # NoMessage /\ gossip'[k] = Abandon(gossip[k]))
<1> USE DEF value, lists, lock, wire, ghost
<1>1. CASE FailGossip(i)
  <2> DEFINE mine(m) == m # NoMessage /\ m.source = i /\ m.awaited
  <2>1. gossip' = [l \in Replicas |-> IF mine(gossip[l]) THEN Abandon(gossip[l]) ELSE gossip[l]]
    BY <1>1 DEF FailGossip
  <2>2. \A k \in Replicas : gossip'[k] = gossip[k] \/ (gossip[k] # NoMessage /\ gossip'[k] = Abandon(gossip[k]))
    BY <2>1
  <2> QED BY <1>1, <2>2 DEF FailGossip
<1>2. CASE ThreadStep(i)
  BY <1>2 DEF ThreadStep, StartScan, ScanRecord, FinishScan, SendGossip
<1> QED BY <1>1, <1>2

\* The records of a request are those that its target lacks.
LEMMA BroughtNext ==
  ASSUME IInv, Quiet, Rows, Scans, Brought, Here, Values, PlainRequests, Next, Serial
  PROVE  Brought'
<1> USE DEF value, lists, lock, wire, ghost
<1> DEFINE Carries(m) ==
             /\ \A r \in ToSet(m.log) : Counts(m.timestamp, r)
             /\ \A r \in accepted' : Counts(m.timestamp, r) =>
                  r \in ToSet(m.log) \/ Counts(replicaTimestamp'[m.target], r)
           Brings(k) ==
             stage'[k] = "records" =>
               /\ \A r \in ToSet(todo'[k]) : Counts(gossip'[k].timestamp, r)
               /\ \A r \in accepted' : Counts(gossip'[k].timestamp, r) =>
                    r \in ToSet(todo'[k]) \cup ToSet(log'[k]) \/ Counts(replicaTimestamp'[k], r)
           Logged(k) ==
             \A r \in ToSet(log'[k]) :
               \/ Counts(replicaTimestamp'[k], r)
               \/ stage'[k] = "records" /\ Counts(gossip'[k].timestamp, r)
<1>1. TypeOK /\ TypeOK' /\ accepted \subseteq Record /\ accepted' \subseteq Record
  BY NextIInv DEF IInv, TypeOK
<1>2. \A r \in accepted' : r \in accepted \/ \A t \in Vector : Leq(t, Origin) => ~ Counts(t, r)
  BY NewIsNew
<1>3. \A k \in Replicas, r \in Record :
        Counts(replicaTimestamp[k], r) => Counts(replicaTimestamp'[k], r)
  BY CountsGrow
<1>4. /\ \A m \in network : m \in Message /\ m.timestamp \in Vector /\ m.target \in Replicas /\ Leq(m.timestamp, Origin)
      /\ \A k \in Replicas : gossip[k] # NoMessage =>
           gossip[k] \in Message /\ gossip[k].timestamp \in Vector /\ Leq(gossip[k].timestamp, Origin)
  BY <1>1 DEF IInv, TypeOK, FromThePast, Message
<1>5. \A k \in Replicas : stage[k] = "records" => gossip[k] # NoMessage
  BY <1>1 DEF TypeOK
<1>6. \A k \in Replicas : ToSet(log[k]) \subseteq accepted /\ ToSet(todo[k]) \subseteq accepted
  BY DEF IInv, Provenance
<1>7. ASSUME NEW m \in network' PROVE Carries(m)
  <2>1. ASSUME NEW o \in network, m.log = o.log, m.timestamp = o.timestamp, m.target = o.target
        PROVE  Carries(m)
    BY <1>1, <1>2, <1>3, <1>4, <2>1 DEF Brought
  <2>2. ASSUME NEW o \in network, m = Abandon(o) PROVE Carries(m)
    BY <1>4, <2>1, <2>2, AbandonKeeps
  <2>3. ASSUME NEW i \in Replicas, NEW ts \in Between(thread[i].from, replicaTimestamp[i]),
               SendGossip(i, ts), m.target = thread[i].to, m.timestamp = ts, m.log = thread[i].toSend
        PROVE  Carries(m)
    <3>1. ts = replicaTimestamp[i] /\ thread[i].pc = "read" /\ thread[i].to \in Replicas
      BY <1>1, <2>3, SentAtOnce DEF TypeOK, Thread
    <3>2. UNCHANGED <<accepted, replicaTimestamp>>
      BY <2>3 DEF SendGossip
    <3>3. stage[i] = "free" /\ Scanning(i)
      BY <3>1, QuietMeans DEF Scanning
    <3>4. \A r \in ToSet(log[i]) : Counts(replicaTimestamp[i], r)
      BY <3>3 DEF Brought
    <3>5. ToSet(thread[i].toSend) \subseteq ToSet(log[i])
      BY <3>3 DEF Scans
    <3>6. ASSUME NEW r \in accepted, Counts(replicaTimestamp[i], r)
          PROVE  r \in ToSet(m.log) \/ Counts(replicaTimestamp[m.target], r)
      <4>1. CASE \A k \in Replicas : Counts(replicaTimestamp[k], r)
        BY <2>3, <3>1, <4>1
      <4>2. CASE r \in ToSet(log[i]) /\ Unknown(thread[i], r)
        BY <2>3, <3>1, <4>2 DEF Scans
      <4>3. CASE ~ Unknown(thread[i], r)
        <5>1. r.instance \in Replicas /\ r.timestamp \in Vector /\ thread[i].known \in Vector
          BY <1>1 DEF Record, TypeOK, Thread
        <5>2. Counts(thread[i].known, r)
          BY <4>3, <5>1 DEF Counts, Unknown, Vector
        <5>3. Leq(thread[i].known, replicaTimestamp[thread[i].to])
          BY <3>3 DEF Rows, Was
        <5>4. replicaTimestamp[thread[i].to] \in Vector /\ r \in Record
          BY <1>1, <3>1 DEF TypeOK
        <5> QED BY <2>3, <5>1, <5>2, <5>3, <5>4, CountsLeq
      <4> QED BY <3>6, <4>1, <4>2, <4>3 DEF Here
    <3> QED BY <2>3, <3>1, <3>2, <3>4, <3>5, <3>6
  <2> HIDE DEF Carries
  <2> QED BY <1>1, <2>1, <2>2, <2>3, NetworkNext
<1>8. ASSUME NEW k \in Replicas, todo'[k] = todo[k], stage'[k] = stage[k], log'[k] = log[k],
             gossip'[k] = gossip[k] \/ (gossip[k] # NoMessage /\ gossip'[k] = Abandon(gossip[k]))
      PROVE  Brings(k) /\ Logged(k)
  <2>1. stage[k] = "records" => gossip'[k].timestamp = gossip[k].timestamp
    BY <1>4, <1>5, <1>8, AbandonKeeps
  <2>2. Logged(k)
    BY <1>1, <1>3, <1>6, <1>8, <2>1 DEF Brought
  <2>3. Brings(k)
    BY <1>1, <1>2, <1>3, <1>4, <1>5, <1>8, <2>1 DEF Brought
  <2> QED BY <2>2, <2>3
<1> DEFINE Both(k) == Brings(k) /\ Logged(k)
<1>9. ASSUME NEW i \in Replicas, NEW u \in Updates, NEW prev \in known, MaySend(i, u), Add(i, u, prev)
      PROVE  Both(i)
  <2> DEFINE new == NewRecord(i, u, prev)
  <2>1. /\ new \in Record /\ new.instance = i /\ new.timestamp[i] = replicaTimestamp'[i][i]
        /\ replicaTimestamp'[i][i] \in Nat
    BY <1>9, AddMakes
  <2>2. log'[i] = Append(log[i], new) /\ stage[i] = "free" /\ stage' = stage
    BY <1>1, <1>9 DEF Add, TypeOK
  <2> HIDE DEF new
  <2>3. ToSet(log'[i]) = ToSet(log[i]) \cup {new}
    BY <1>1, <2>1, <2>2, ToSetAppend DEF TypeOK
  <2>4. Counts(replicaTimestamp'[i], new)
    BY <2>1 DEF Counts
  <2>5. Logged(i)
    BY <1>1, <1>3, <1>6, <2>2, <2>3, <2>4 DEF Brought
  <2> QED BY <2>2, <2>5
<1>10. ASSUME NEW i \in Replicas, NEW m \in network, ReceiveGossip(i, m) PROVE Both(i)
  <2>1. /\ stage[i] = "free" /\ m.target = i /\ gossip'[i] = m /\ todo'[i] = m.log
        /\ log' = log /\ replicaTimestamp' = replicaTimestamp /\ accepted' = accepted
    BY <1>1, <1>10 DEF ReceiveGossip, TypeOK
  <2> QED BY <2>1 DEF Brought
<1>11. ASSUME NEW i \in Replicas, TakeRecord(i) PROVE Both(i)
  <2> DEFINE h == Head(todo[i])
  <2>1. /\ stage[i] = "records" /\ todo[i] # <<>> /\ todo'[i] = Tail(todo[i])
        /\ stage' = stage /\ gossip' = gossip /\ replicaTimestamp' = replicaTimestamp /\ accepted' = accepted
    BY <1>1, <1>11 DEF TakeRecord, TypeOK
  <2>2. ToSet(todo[i]) = {h} \cup ToSet(todo'[i]) /\ h \in Record /\ h \in accepted
    <3>1. todo[i] \in Seq(Record)
      BY <1>1 DEF TypeOK
    <3>2. ToSet(todo[i]) = {h} \cup ToSet(todo'[i])
      BY <2>1, <3>1, ToSetHeadTail
    <3> QED BY <1>1, <1>6, <3>2
  <2>3. \/ News(i, h) /\ log'[i] = Append(log[i], h)
        \/ ~ News(i, h) /\ log'[i] = log[i]
    BY <1>1, <1>11 DEF TakeRecord, TypeOK
  <2> HIDE DEF h
  <2>4. Counts(gossip[i].timestamp, h)
    BY <2>1, <2>2 DEF Brought
  <2>5. /\ ToSet(log[i]) \subseteq ToSet(log'[i])
        /\ ToSet(log'[i]) \subseteq ToSet(log[i]) \cup {h}
        /\ News(i, h) => h \in ToSet(log'[i])
    <3>1. log[i] \in Seq(Record)
      BY <1>1 DEF TypeOK
    <3>2. ToSet(Append(log[i], h)) = ToSet(log[i]) \cup {h}
      BY <2>2, <3>1, ToSetAppend
    <3> QED BY <2>3, <3>2
  <2>6. ~ News(i, h) => Counts(replicaTimestamp[i], h)
    <3>1. Leq(h.timestamp, replicaTimestamp[i]) => Counts(replicaTimestamp[i], h)
      BY <2>2, CountsOwn
    <3>2. h.uuid \in ToSet(operationsTable[i]) => Leq(h.timestamp, valueTimestamp[i])
      BY <2>2 DEF Values, Executed
    <3>3. /\ h.timestamp \in Vector /\ valueTimestamp[i] \in Vector /\ replicaTimestamp[i] \in Vector
          /\ Leq(valueTimestamp[i], replicaTimestamp[i])
      BY <1>1, <2>2 DEF TypeOK, Record, Values
    <3>4. h.uuid \in ToSet(operationsTable[i]) => Leq(h.timestamp, replicaTimestamp[i])
      BY <3>2, <3>3, LeqTransitive
    <3> QED BY <3>1, <3>4 DEF News
  <2>7. Logged(i)
    BY <2>1, <2>4, <2>5 DEF Brought
  <2>8. Brings(i)
    BY <2>1, <2>2, <2>5, <2>6 DEF Brought
  <2> QED BY <2>7, <2>8
<1>12. ASSUME NEW i \in Replicas, MergeTimestamp(i) PROVE Both(i)
  <2>1. /\ stage[i] = "records" /\ stage'[i] = "sort" /\ log' = log
        /\ replicaTimestamp'[i] = Merge(replicaTimestamp[i], gossip[i].timestamp)
    BY <1>1, <1>12 DEF MergeTimestamp, TypeOK
  <2>2. replicaTimestamp[i] \in Vector /\ gossip[i].timestamp \in Vector
    BY <1>1, <1>4, <1>5, <2>1 DEF TypeOK
  <2>3. \A r \in ToSet(log[i]) : r \in Record
    BY <1>1, <1>6
  <2>4. Logged(i)
    BY <2>1, <2>2, <2>3, CountsMerge DEF Brought
  <2> QED BY <2>1, <2>4
<1>13. ASSUME NEW i \in Replicas, stage[i] # "records", stage'[i] # "records",
              ToSet(log'[i]) \subseteq ToSet(log[i])
       PROVE  Both(i)
  BY <1>1, <1>3, <1>6, <1>13 DEF Brought
<1>14. ASSUME NEW i \in Replicas, HandlerStep(i) PROVE Both(i)
  <2>1. CASE SortLog(i)
    <3>1. PICK s \in Rearrangements(log[i]) : log' = [log EXCEPT ![i] = s]
      BY <2>1 DEF SortLog
    <3>2. log'[i] = s /\ log[i] \in Seq(Record) /\ stage[i] = "sort" /\ stage'[i] = "sorted"
      BY <1>1, <2>1, <3>1 DEF SortLog, TypeOK
    <3>3. ToSet(log'[i]) \subseteq ToSet(log[i])
      BY <3>2, RearrangementsTyped
    <3> QED BY <1>13, <3>2, <3>3
  <2>2. ASSUME NEW n \in DOMAIN log[i], RemoveRecord(i, n) PROVE Both(i)
    <3>1. log'[i] = RemoveAt(log[i], n) /\ log[i] \in Seq(Record) /\ stage[i] = "cleanup" /\ stage' = stage
      BY <1>1, <2>2 DEF RemoveRecord, TypeOK
    <3>2. ToSet(log'[i]) \subseteq ToSet(log[i])
      BY <3>1, RemoveAtTyped
    <3> QED BY <1>13, <3>1, <3>2
  <2>3. CASE StartExecution(i) \/ ExecuteRecord(i) \/ StartCleanup(i) \/ FinishGossip(i)
    <3>1. stage[i] # "records" /\ stage'[i] # "records" /\ log' = log
      BY <1>1, <2>3 DEF TypeOK, StartExecution, ExecuteRecord, StartCleanup, FinishGossip
    <3> QED BY <1>13, <3>1
  <2> HIDE DEF Both
  <2> QED BY <1>10, <1>11, <1>12, <1>14, <2>1, <2>2, <2>3 DEF HandlerStep
<1>15. ASSUME NEW k \in Replicas PROVE Both(k)
  <2>1. ASSUME NEW i \in Replicas, HandlerStep(i) \/ ClientStep(i), k # i PROVE Both(k)
    BY <1>1, <1>8, <2>1, Elsewhere
  <2>2. ASSUME NEW i \in Replicas, ThreadStep(i) \/ FailGossip(i) PROVE Both(k)
    <3>1. /\ UNCHANGED <<log, todo, stage>>
          /\ gossip'[k] = gossip[k] \/ (gossip[k] # NoMessage /\ gossip'[k] = Abandon(gossip[k]))
      BY <1>1, <2>2, ThreadsElsewhere
    <3> QED BY <1>8, <3>1
  <2>3. ASSUME ClientStep(k) PROVE Both(k)
    <3>1. PICK u \in Updates, prev \in known : MaySend(k, u) /\ (Add(k, u, prev) \/ AddAgain(k, u, prev))
      BY <2>3 DEF ClientStep
    <3>2. ~ AddAgain(k, u, prev)
      BY <3>1, NotAgain DEF AddAgain
    <3> QED BY <1>9, <3>1, <3>2
  <2> HIDE DEF Both
  <2> QED BY <1>14, <2>1, <2>2, <2>3 DEF Next
<1> QED BY <1>7, <1>15 DEF Brought, Counts

\* What executing a record does to what is executed, counted and held.
LEMMA executeMakes ==
  ASSUME TypeOK, NEW i \in Replicas, NEW r \in Record, execute(i, r)
  PROVE  \/ /\ Executable(i, r) /\ executeAux(i, r)
            /\ Executed(i)' = Executed(i) \cup {r.uuid}
            /\ valueTimestamp'[i] = Merge(valueTimestamp[i], r.timestamp)
         \/ /\ ~ Executable(i, r)
            /\ UNCHANGED value
<1>1. CASE ~ Executable(i, r)
  BY <1>1 DEF execute
<1>2. CASE Executable(i, r)
  <2>1. /\ operationsTable'[i] = Append(operationsTable[i], r.uuid) /\ executeAux(i, r)
        /\ valueTimestamp'[i] = Merge(valueTimestamp[i], r.timestamp)
    BY <1>2 DEF execute, TypeOK
  <2>2. operationsTable[i] \in Seq(Updates) /\ r.uuid \in Updates
    BY DEF TypeOK, Record
  <2>3. ToSet(Append(operationsTable[i], r.uuid)) = ToSet(operationsTable[i]) \cup {r.uuid}
    BY <2>2, ToSetAppend
  <2> QED BY <1>2, <2>1, <2>3 DEF Executed
<1> QED BY <1>1, <1>2

\* The value reflects what was executed.
LEMMA ValuesNext ==
  ASSUME IInv, History, Brought, Pass, Values, PlainRequests, Next, Serial
  PROVE  Values'
<1> USE DEF value, lists, lock, wire, ghost
<1> DEFINE Reflects(k) ==
             /\ Leq(valueTimestamp'[k], replicaTimestamp'[k])
             /\ \A u \in Executed(k)' : \E r \in accepted' : r.uuid = u
             /\ \A r \in accepted' : r.uuid \in Executed(k)' => Leq(r.timestamp, valueTimestamp'[k])
<1>1. TypeOK /\ TypeOK' /\ accepted \subseteq Record /\ accepted' \subseteq Record
  BY NextIInv DEF IInv, TypeOK
<1>2. History'
  BY HistoryNext
<1>3. \A k \in Replicas :
        /\ valueTimestamp[k] \in Vector /\ replicaTimestamp[k] \in Vector
        /\ valueTimestamp'[k] \in Vector /\ replicaTimestamp'[k] \in Vector
        /\ Leq(replicaTimestamp[k], replicaTimestamp'[k])
        /\ Leq(valueTimestamp[k], valueTimestamp'[k])
  BY <1>1, Grow DEF TypeOK
<1>4. \A k \in Replicas : Leq(valueTimestamp[k], replicaTimestamp'[k])
  BY <1>3, LeqTransitive DEF Values
<1>5. accepted \subseteq accepted'
  BY OnlyAdd, AddMakes DEF Add
<1>6. ASSUME NEW k \in Replicas, Executed(k)' = Executed(k), valueTimestamp'[k] = valueTimestamp[k]
      PROVE  Reflects(k)
  <2>1. ASSUME NEW r \in accepted', r.uuid \in Executed(k)
        PROVE  Leq(r.timestamp, valueTimestamp[k])
    <3>1. PICK q \in accepted : q.uuid = r.uuid
      BY <2>1 DEF Values
    <3>2. q = r
      BY <1>2, <1>5, <3>1 DEF History
    <3> QED BY <2>1, <3>2 DEF Values
  <2> QED BY <1>4, <1>5, <1>6, <2>1 DEF Values
<1>7. ASSUME NEW k \in Replicas, NEW x \in accepted', execute(k, x),
             Leq(x.prev, valueTimestamp[k]) => Leq(x.timestamp, replicaTimestamp'[k])
      PROVE  Reflects(k)
  <2>1. CASE UNCHANGED value
    BY <1>6, <2>1 DEF Executed
  <2>2. CASE /\ Executable(k, x)
             /\ Executed(k)' = Executed(k) \cup {x.uuid}
             /\ valueTimestamp'[k] = Merge(valueTimestamp[k], x.timestamp)
    <3>1. Leq(valueTimestamp'[k], replicaTimestamp'[k])
      BY <1>4, <1>7, <2>2, MergeIsLeast DEF Executable
    <3>2. \A u \in Executed(k)' : \E r \in accepted' : r.uuid = u
      BY <1>5, <2>2 DEF Values
    <3>3. x.timestamp \in Vector
      BY <1>1 DEF Record
    <3>4. Leq(x.timestamp, valueTimestamp'[k])
      BY <1>3, <2>2, <3>3, MergeIsUpper
    <3>5. ASSUME NEW r \in accepted', r.uuid \in Executed(k)' PROVE Leq(r.timestamp, valueTimestamp'[k])
      <4>1. CASE r.uuid = x.uuid
        BY <1>2, <3>4, <4>1 DEF History
      <4>2. CASE r.uuid \in Executed(k)
        <5>1. PICK q \in accepted : q.uuid = r.uuid
          BY <4>2 DEF Values
        <5>2. q = r
          BY <1>2, <1>5, <5>1 DEF History
        <5>3. Leq(r.timestamp, valueTimestamp[k]) /\ r.timestamp \in Vector
          BY <1>1, <4>2, <5>2 DEF Values, Record
        <5> QED BY <1>3, <5>3, LeqTransitive
      <4> QED BY <2>2, <3>5, <4>1, <4>2
    <3> QED BY <3>1, <3>2, <3>5
  <2> QED BY <1>1, <1>7, <2>1, <2>2, executeMakes
<1> HIDE DEF Reflects
<1>8. ASSUME NEW i \in Replicas, NEW u \in Updates, NEW prev \in known, MaySend(i, u), Add(i, u, prev)
      PROVE  Reflects(i)
  <2> DEFINE new == NewRecord(i, u, prev)
  <2>1. /\ new \in Record /\ new \in accepted' /\ new.prev = prev /\ execute(i, new)
        /\ \A k \in Replicas \ {i} : new.timestamp[k] = prev[k]
        /\ new.timestamp[i] = replicaTimestamp'[i][i] /\ replicaTimestamp'[i][i] \in Nat
    <3>1. /\ new \in Record /\ new \in accepted' /\ new.prev = prev
          /\ \A k \in Replicas \ {i} : new.timestamp[k] = prev[k]
          /\ new.timestamp[i] = replicaTimestamp'[i][i] /\ replicaTimestamp'[i][i] \in Nat
      BY <1>8, AddMakes
    <3>2. execute(i, new)
      BY <1>8 DEF Add
    <3> QED BY <3>1, <3>2
  <2> HIDE DEF new
  <2>2. ASSUME Leq(prev, valueTimestamp[i]) PROVE Leq(new.timestamp, replicaTimestamp'[i])
    <3>1. Leq(prev, replicaTimestamp'[i])
      <4>1. prev \in Vector
        BY <1>1 DEF TypeOK
      <4> QED BY <1>3, <1>4, <2>2, <4>1, LeqTransitive
    <3> QED BY <2>1, <3>1 DEF Leq
  <2> QED BY <1>7, <2>1, <2>2
<1>9. ASSUME NEW i \in Replicas, ExecuteRecord(i) PROVE Reflects(i)
  <2> DEFINE h == Head(todo[i])
  <2>1. stage[i] = "execute" /\ todo[i] # <<>> /\ execute(i, h) /\ UNCHANGED <<accepted, replicaTimestamp>>
    BY <1>9 DEF ExecuteRecord
  <2>2. h \in ToSet(todo[i])
    BY <1>1, <2>1, ToSetTail DEF TypeOK
  <2> HIDE DEF h
  <2>3. h \in ToSet(log[i])
    BY <2>1, <2>2 DEF Pass
  <2>4. h \in accepted /\ Counts(replicaTimestamp[i], h) /\ h \in Record
    BY <1>1, <2>1, <2>3 DEF Brought, IInv, Provenance
  <2>5. ASSUME Leq(h.prev, valueTimestamp[i]) PROVE Leq(h.timestamp, replicaTimestamp[i])
    <3>1. Leq(h.prev, replicaTimestamp[i])
      <4>1. h.prev \in Vector
        BY <2>4 DEF Record
      <4> QED BY <1>3, <1>4, <2>1, <2>5, <4>1, LeqTransitive
    <3>2. \A k \in Replicas \ {h.instance} : h.timestamp[k] = h.prev[k]
      BY <2>4 DEF History
    <3> QED BY <2>4, <3>1, <3>2 DEF Leq, Counts
  <2> QED BY <1>5, <1>7, <2>1, <2>4, <2>5
<1>10. ASSUME NEW k \in Replicas PROVE Reflects(k)
  <2>1. ASSUME NEW i \in Replicas, HandlerStep(i) \/ ClientStep(i), k # i PROVE Reflects(k)
    <3>1. operationsTable'[k] = operationsTable[k] /\ valueTimestamp'[k] = valueTimestamp[k]
      BY <1>1, <2>1, Elsewhere
    <3> QED BY <1>6, <3>1 DEF Executed
  <2>2. CASE UNCHANGED value
    BY <1>6, <2>2 DEF Executed
  <2>3. ASSUME NEW i \in Replicas, ThreadStep(i) \/ FailGossip(i) PROVE Reflects(k)
    BY <1>1, <2>2, <2>3, ThreadsElsewhere
  <2>4. ASSUME HandlerStep(k), ~ ExecuteRecord(k) PROVE Reflects(k)
    <3>1. UNCHANGED value
      BY <2>4 DEF HandlerStep, ReceiveGossip, TakeRecord, MergeTimestamp, SortLog, StartExecution,
         StartCleanup, RemoveRecord, FinishGossip
    <3> QED BY <2>2, <3>1
  <2>5. ASSUME ClientStep(k) PROVE Reflects(k)
    <3>1. PICK u \in Updates, prev \in known : MaySend(k, u) /\ (Add(k, u, prev) \/ AddAgain(k, u, prev))
      BY <2>5 DEF ClientStep
    <3>2. ~ AddAgain(k, u, prev)
      BY <3>1, NotAgain DEF AddAgain
    <3> QED BY <1>8, <3>1, <3>2
  <2> QED BY <1>9, <2>1, <2>3, <2>4, <2>5 DEF Next
<1> QED BY <1>10 DEF Values, Reflects

\* A record's timestamp reaches what it depends on.
LEMMA PrevLeq ==
  ASSUME IInv, History, NEW r \in accepted
  PROVE  r \in Record /\ r.prev \in Vector /\ r.timestamp \in Vector /\ Leq(r.prev, r.timestamp)
<1>1. r \in Record /\ r.prev \in Vector /\ r.timestamp \in Vector /\ r.instance \in Replicas
  BY DEF IInv, TypeOK, Record
<1>2. /\ r.prev[r.instance] < r.timestamp[r.instance]
      /\ \A k \in Replicas \ {r.instance} : r.timestamp[k] = r.prev[k]
  BY DEF History
<1>3. \A k \in Replicas : r.prev[k] \in Nat /\ r.timestamp[k] \in Nat
  BY <1>1 DEF Vector
<1> QED BY <1>1, <1>2, <1>3 DEF Leq

\* What a timestamp that a replica counts depends on was executed there, unless the
\* pass has yet to visit it.
LEMMA VisitedBefore ==
  ASSUME IInv, History, Here, Pass, NEW i \in Replicas, stage[i] \in {"execute", "cleanup"},
         NEW t \in Vector, Leq(t, replicaTimestamp[i]),
         NEW q \in accepted, Leq(q.timestamp, t), q \notin ToSet(todo[i])
  PROVE  q.uuid \in Executed(i)
<1>1. /\ q \in Record /\ q.prev \in Vector /\ q.timestamp \in Vector /\ Leq(q.prev, q.timestamp)
      /\ replicaTimestamp[i] \in Vector
  BY PrevLeq DEF IInv, TypeOK
<1>2. Leq(q.timestamp, replicaTimestamp[i])
  BY <1>1, LeqTransitive
<1>3. Leq(q.prev, replicaTimestamp[i])
  BY <1>1, <1>2, LeqTransitive
<1>4. q \in ToSet(log[i]) \/ q.uuid \in Executed(i)
  BY <1>1, <1>2, CountsOwn DEF Here
<1> QED BY <1>3, <1>4 DEF Pass

\* What the first record to visit depends on is not among those to visit.
LEMMA HeadFirst ==
  ASSUME IInv, History, NEW i \in Replicas, todo[i] # <<>>, Ordered(todo[i]), NEW q \in ToSet(todo[i])
  PROVE  ~ Leq(q.timestamp, Head(todo[i]).prev)
<1>1. todo[i] \in Seq(Record) /\ Head(todo[i]) \in accepted
  BY ToSetTail DEF IInv, TypeOK, Provenance
<1>2. /\ Len(todo[i]) \in Nat \ {0} /\ DOMAIN todo[i] = 1 .. Len(todo[i]) /\ Head(todo[i]) = todo[i][1]
  BY <1>1
<1>3. PICK m \in DOMAIN todo[i] : q = todo[i][m]
  BY DEF ToSet
<1>4. CASE m = 1
  <2>1. q \in accepted /\ q = Head(todo[i])
    BY <1>1, <1>2, <1>3, <1>4
  <2>2. q.instance \in Replicas /\ q.prev \in Vector /\ q.timestamp \in Vector
    BY <2>1, PrevLeq DEF Record
  <2>3. q.prev[q.instance] < q.timestamp[q.instance]
    BY <2>1 DEF History
  <2>4. q.prev[q.instance] \in Nat /\ q.timestamp[q.instance] \in Nat
    BY <2>2 DEF Vector
  <2> QED BY <2>1, <2>2, <2>3, <2>4 DEF Leq
<1>5. CASE m # 1
  <2>1. 1 < m /\ 1 \in DOMAIN todo[i]
    BY <1>2, <1>3, <1>5
  <2> QED BY <1>2, <1>3, <2>1 DEF Ordered
<1> QED BY <1>4, <1>5

\* A value that reflects all that a timestamp counts has a timestamp that reaches it.
LEMMA Reached ==
  ASSUME IInv, History, Values, NEW i \in Replicas, NEW t \in known,
         \A q \in accepted : Leq(q.timestamp, t) => q.uuid \in Executed(i)
  PROVE  Leq(t, valueTimestamp[i])
<1> SUFFICES ASSUME NEW j \in Replicas PROVE t[j] <= valueTimestamp[i][j]
  BY DEF Leq
<1>1. t \in Vector /\ t[j] \in Nat /\ valueTimestamp[i][j] \in Nat /\ replicaTimestamp[j][j] \in Nat
  BY DEF IInv, TypeOK, Vector
<1>2. t[j] <= replicaTimestamp[j][j]
  BY DEF IInv, FromThePast, Leq, Origin
<1>3. CASE t[j] = 0
  BY <1>1, <1>3
<1>4. CASE t[j] # 0
  <2>1. t[j] \in 1 .. replicaTimestamp[j][j]
    BY <1>1, <1>2, <1>4
  <2>2. PICK q \in accepted : q.instance = j /\ q.timestamp[j] = t[j]
    BY <2>1 DEF History
  <2>3. Leq(q.timestamp, t)
    BY <2>2 DEF History
  <2>4. Leq(q.timestamp, valueTimestamp[i])
    BY <2>3 DEF Values
  <2> QED BY <2>2, <2>4 DEF Leq
<1> QED BY <1>3, <1>4

\* In the pass, what the first record depends on was executed, and the value reflects it.
LEMMA HeadReady ==
  ASSUME IInv, History, Here, Values, Pass, NEW i \in Replicas, stage[i] = "execute", todo[i] # <<>>,
         Leq(Head(todo[i]).prev, replicaTimestamp[i])
  PROVE  /\ Leq(Head(todo[i]).prev, valueTimestamp[i])
         /\ \A q \in accepted : Leq(q.timestamp, Head(todo[i]).prev) => q.uuid \in Executed(i)
<1> DEFINE h == Head(todo[i])
<1>1. h \in accepted /\ h.prev \in Vector /\ h.prev \in known
  <2>1. h \in accepted
    BY ToSetTail DEF IInv, TypeOK, Provenance
  <2> QED BY <2>1, PrevLeq DEF History
<1>2. ASSUME NEW q \in accepted, Leq(q.timestamp, h.prev) PROVE q.uuid \in Executed(i)
  <2>1. q \notin ToSet(todo[i])
    BY <1>2, HeadFirst DEF Pass
  <2> QED BY <1>1, <1>2, <2>1, VisitedBefore
<1> HIDE DEF h
<1>3. Leq(h.prev, valueTimestamp[i])
  BY <1>1, <1>2, Reached
<1> QED BY <1>2, <1>3 DEF h

\* When the lock is free, all that the value's timestamp counts was executed.
LEMMA CoveredIsExecuted ==
  ASSUME IInv, History, Values, Pass, NEW i \in Replicas, stage[i] = "free",
         NEW q \in accepted, Leq(q.timestamp, valueTimestamp[i])
  PROVE  q.uuid \in Executed(i)
<1>1. /\ q \in Record /\ q.prev \in Vector /\ q.timestamp \in Vector /\ Leq(q.prev, q.timestamp)
      /\ replicaTimestamp[i] \in Vector /\ valueTimestamp[i] \in Vector
      /\ Leq(valueTimestamp[i], replicaTimestamp[i])
  BY PrevLeq DEF IInv, TypeOK, Values
<1>2. Leq(q.timestamp, replicaTimestamp[i]) /\ Leq(q.prev, valueTimestamp[i])
  BY <1>1, LeqTransitive
<1>3. Counts(replicaTimestamp[i], q)
  BY <1>1, <1>2, CountsOwn
<1> QED BY <1>2, <1>3 DEF Pass

\* What is removed was executed, and all replicas count it.
LEMMA RemovedIsCounted ==
  ASSUME IInv, History, Rows, Pass, NEW i \in Replicas, stage[i] = "cleanup",
         NEW r \in ToSet(log[i]), Removable(i, r)
  PROVE  r.uuid \in Executed(i) /\ \A k \in Replicas : Counts(replicaTimestamp[k], r)
<1>1. /\ r \in accepted /\ r \in Record /\ r.instance \in Replicas
      /\ r.prev \in Vector /\ r.timestamp \in Vector /\ Leq(r.prev, r.timestamp)
  <2>1. r \in accepted
    BY DEF IInv, Provenance
  <2> QED BY <2>1, PrevLeq DEF Record
<1>2. \A k \in Replicas : Counts(Table(i, k), r) /\ Was(Table(i, k), k) /\ Table(i, k) \in Vector
  BY WasOwn DEF Removable, Counts, Rows, Table, IInv, TypeOK
<1>3. \A k \in Replicas : Counts(replicaTimestamp[k], r)
  BY <1>1, <1>2, CountsLeq DEF IInv, TypeOK, Was
<1>4. ASSUME NEW j \in Replicas PROVE r.timestamp[j] <= replicaTimestamp[i][j]
  <2>1. r.timestamp[j] <= Table(i, j)[j]
    BY <1>1, <1>2 DEF Was
  <2>2. Leq(Table(i, j), replicaTimestamp[i])
    <3>1. CASE j = i
      BY <3>1, LeqReflexive DEF Table, IInv, TypeOK
    <3>2. CASE j # i
      BY <3>2 DEF Table, Rows
    <3> QED BY <3>1, <3>2
  <2>3. r.timestamp[j] \in Nat /\ Table(i, j)[j] \in Nat /\ replicaTimestamp[i][j] \in Nat
    BY <1>1, <1>2 DEF Vector, IInv, TypeOK
  <2>4. Table(i, j)[j] <= replicaTimestamp[i][j]
    BY <2>2 DEF Leq
  <2> QED BY <2>1, <2>3, <2>4
<1>5. Leq(r.timestamp, replicaTimestamp[i]) /\ replicaTimestamp[i] \in Vector
  BY <1>4 DEF Leq, IInv, TypeOK
<1>6. Leq(r.prev, replicaTimestamp[i])
  BY <1>1, <1>5, LeqTransitive
<1>7. todo[i] = <<>>
  BY DEF Pass
<1>8. r \notin ToSet(todo[i])
  BY <1>7, ToSetEmpty
<1>9. r.uuid \in Executed(i)
  BY <1>6, <1>8 DEF Pass
<1> QED BY <1>3, <1>9

\* What a replica counts stays in its log until it is executed and all count it.
LEMMA HereNext ==
  ASSUME IInv, History, Rows, Brought, Here, Values, Pass, PlainRequests, Next, Serial
  PROVE  Here'
<1> USE DEF value, lists, lock, wire, ghost
<1> DEFINE Has(k, r) ==
             \/ r \in ToSet(log'[k])
             \/ r.uuid \in Executed(k)' /\ \A l \in Replicas : Counts(replicaTimestamp'[l], r)
<1>1. TypeOK /\ TypeOK' /\ accepted \subseteq Record /\ accepted' \subseteq Record
  BY NextIInv DEF IInv, TypeOK
<1>2. \A k \in Replicas, r \in Record :
        Counts(replicaTimestamp[k], r) => Counts(replicaTimestamp'[k], r)
  BY CountsGrow
<1>3. \A k \in Replicas : Executed(k) \subseteq Executed(k)'
  BY Grow
<1>4. ASSUME NEW k \in Replicas, NEW r \in accepted, Counts(replicaTimestamp[k], r),
             r \in ToSet(log[k]) => Has(k, r)
      PROVE  Has(k, r)
  BY <1>1, <1>2, <1>3, <1>4 DEF Here
<1>5. \A r \in accepted' : r \in accepted \/ \A t \in Vector : Leq(t, Origin) => ~ Counts(t, r)
  BY NewIsNew
<1> HIDE DEF Has
<1>6. ASSUME NEW i \in Replicas, NEW u \in Updates, NEW prev \in known, MaySend(i, u), Add(i, u, prev),
             NEW k \in Replicas, NEW r \in accepted', Counts(replicaTimestamp'[k], r)
      PROVE  Has(k, r)
  <2> DEFINE new == NewRecord(i, u, prev)
  <2>1. /\ new \in Record /\ new.instance = i /\ accepted' = accepted \cup {new}
        /\ new.timestamp[i] = replicaTimestamp[i][i] + 1 /\ replicaTimestamp[i][i] \in Nat
        /\ \A l \in Replicas : l # i => replicaTimestamp'[l] = replicaTimestamp[l]
        /\ \A l \in Replicas : l # i => replicaTimestamp'[i][l] = replicaTimestamp[i][l]
        /\ \A q \in accepted : q.timestamp[i] <= replicaTimestamp[i][i]
    BY <1>6, AddMakes
  <2>2. log' = [log EXCEPT ![i] = Append(@, new)]
    BY <1>6 DEF Add
  <2> HIDE DEF new
  <2>3. ToSet(Append(log[i], new)) = ToSet(log[i]) \cup {new}
    BY <1>1, <2>1, ToSetAppend DEF TypeOK
  <2>4. ToSet(log[k]) \subseteq ToSet(log'[k]) /\ new \in ToSet(log'[i])
    BY <1>1, <2>2, <2>3 DEF TypeOK
  <2>5. CASE r \in accepted
    <3>1. Counts(replicaTimestamp[k], r)
      <4>1. CASE k = i /\ r.instance = i
        BY <2>1, <2>5, <4>1 DEF Counts
      <4>2. CASE k # i \/ r.instance # i
        BY <1>1, <1>6, <2>1, <2>5, <4>2 DEF Counts, Record
      <4> QED BY <4>1, <4>2
    <3> QED BY <1>4, <2>4, <2>5, <3>1 DEF Has
  <2>6. CASE r = new
    <3>1. CASE k = i
      BY <2>4, <2>6, <3>1 DEF Has
    <3>2. CASE k # i
      <4>1. replicaTimestamp[k][i] \in Nat /\ replicaTimestamp[k][i] <= replicaTimestamp[i][i]
        BY <1>1 DEF TypeOK, Vector, IInv, FromThePast, Leq, Origin
      <4>2. ~ Counts(replicaTimestamp'[k], new)
        BY <2>1, <3>2, <4>1 DEF Counts
      <4> QED BY <1>6, <2>6, <4>2
    <3> QED BY <3>1, <3>2
  <2> QED BY <2>1, <2>5, <2>6
<1>7. ASSUME NEW i \in Replicas, MergeTimestamp(i), NEW k \in Replicas, NEW r \in accepted',
             Counts(replicaTimestamp'[k], r)
      PROVE  Has(k, r)
  <2>1. /\ stage[i] = "records" /\ todo[i] = <<>> /\ log' = log /\ accepted' = accepted
        /\ replicaTimestamp' = [replicaTimestamp EXCEPT ![i] = Merge(@, gossip[i].timestamp)]
    BY <1>7 DEF MergeTimestamp
  <2>2. r \in Record /\ replicaTimestamp[i] \in Vector /\ gossip[i].timestamp \in Vector
    BY <1>1, <2>1 DEF TypeOK, Message
  <2>3. CASE Counts(replicaTimestamp[k], r)
    BY <1>4, <2>1, <2>3 DEF Has
  <2>4. CASE ~ Counts(replicaTimestamp[k], r)
    <3>1. k = i
      BY <1>1, <1>7, <2>1, <2>4 DEF TypeOK
    <3>2. replicaTimestamp'[i] = Merge(replicaTimestamp[i], gossip[i].timestamp)
      BY <1>1, <2>1 DEF TypeOK
    <3>3. Counts(gossip[i].timestamp, r)
      BY <1>7, <2>2, <2>4, <3>1, <3>2, CountsMerge
    <3>4. r \in ToSet(log[i])
      BY <2>1, <2>4, <3>1, <3>3, ToSetEmpty DEF Brought
    <3> QED BY <2>1, <3>1, <3>4 DEF Has
  <2> QED BY <2>3, <2>4
<1>8. ASSUME NEW i \in Replicas, NEW n \in DOMAIN log[i], RemoveRecord(i, n), NEW k \in Replicas,
             NEW r \in accepted, Counts(replicaTimestamp[k], r)
      PROVE  Has(k, r)
  <2>1. /\ stage[i] = "cleanup" /\ Removable(i, log[i][n]) /\ log' = [log EXCEPT ![i] = RemoveAt(@, n)]
        /\ UNCHANGED <<replicaTimestamp, operationsTable>>
    BY <1>8 DEF RemoveRecord
  <2>2. CASE k = i /\ r = log[i][n]
    <3>1. r \in ToSet(log[i])
      BY <2>2 DEF ToSet
    <3>2. r.uuid \in Executed(i) /\ \A l \in Replicas : Counts(replicaTimestamp[l], r)
      BY <2>1, <2>2, <3>1, RemovedIsCounted
    <3> QED BY <2>1, <2>2, <3>2 DEF Has, Executed
  <2>3. CASE k = i /\ r # log[i][n]
    <3>1. log'[i] = RemoveAt(log[i], n) /\ log[i] \in Seq(Record)
      BY <1>1, <2>1 DEF TypeOK
    <3>2. r \in ToSet(log[i]) => r \in ToSet(RemoveAt(log[i], n))
      BY <2>3, <3>1, RemoveAtKeeps
    <3> QED BY <1>4, <1>8, <2>3, <3>1, <3>2 DEF Has
  <2>4. CASE k # i
    BY <1>1, <1>4, <1>8, <2>1, <2>4 DEF TypeOK, Has
  <2> QED BY <2>2, <2>3, <2>4
<1>9. ASSUME NEW k \in Replicas, NEW r \in accepted, Counts(replicaTimestamp[k], r),
             ToSet(log[k]) \subseteq ToSet(log'[k])
      PROVE  Has(k, r)
  BY <1>4, <1>9 DEF Has
<1>10. ASSUME NEW i \in Replicas, HandlerStep(i), ~ MergeTimestamp(i), NEW k \in Replicas,
              NEW r \in accepted, Counts(replicaTimestamp[k], r)
       PROVE  Has(k, r)
  <2>1. CASE SortLog(i)
    <3>1. PICK s \in Rearrangements(log[i]) : log' = [log EXCEPT ![i] = s]
      BY <2>1 DEF SortLog
    <3>2. log'[i] = s /\ log[i] \in Seq(Record) /\ (k # i => log'[k] = log[k])
      BY <1>1, <2>1, <3>1 DEF SortLog, TypeOK
    <3>3. ToSet(log'[k]) = ToSet(log[k])
      BY <3>2, RearrangementsKeep
    <3> QED BY <1>9, <1>10, <3>3
  <2>2. CASE TakeRecord(i)
    <3>1. todo[i] \in Seq(Record) /\ todo[i] # <<>> /\ Head(todo[i]) \in Record /\ log[i] \in Seq(Record)
      <4>1. todo[i] \in Seq(Record) /\ todo[i] # <<>> /\ log[i] \in Seq(Record)
        BY <1>1, <2>2 DEF TakeRecord, TypeOK
      <4> QED BY <4>1, ToSetTail, ToSetTyped
    <3>2. \/ log' = log
          \/ log' = [log EXCEPT ![i] = Append(@, Head(todo[i]))]
      BY <2>2 DEF TakeRecord
    <3>3. ToSet(Append(log[i], Head(todo[i]))) = ToSet(log[i]) \cup {Head(todo[i])}
      BY <3>1, ToSetAppend
    <3>4. ToSet(log[k]) \subseteq ToSet(log'[k])
      BY <1>1, <3>2, <3>3 DEF TypeOK
    <3> QED BY <1>9, <1>10, <3>4
  <2>3. CASE \E m \in network : ReceiveGossip(i, m)
    BY <1>9, <1>10, <2>3 DEF ReceiveGossip
  <2>4. CASE StartExecution(i) \/ ExecuteRecord(i) \/ StartCleanup(i) \/ FinishGossip(i)
    BY <1>9, <1>10, <2>4 DEF StartExecution, ExecuteRecord, StartCleanup, FinishGossip
  <2> QED BY <1>8, <1>10, <2>1, <2>2, <2>3, <2>4 DEF HandlerStep
<1>11. ASSUME NEW i \in Replicas, HandlerStep(i), ~ MergeTimestamp(i)
       PROVE  UNCHANGED <<accepted, replicaTimestamp>>
  BY <1>11 DEF HandlerStep, ReceiveGossip, TakeRecord, SortLog, StartExecution, ExecuteRecord,
     StartCleanup, RemoveRecord, FinishGossip
<1>12. ASSUME NEW k \in Replicas, NEW r \in accepted', Counts(replicaTimestamp'[k], r)
       PROVE  Has(k, r)
  <2>1. ASSUME NEW i \in Replicas, ThreadStep(i) \/ FailGossip(i) PROVE Has(k, r)
    BY <1>1, <1>9, <1>12, <2>1, ThreadsElsewhere
  <2>2. ASSUME NEW i \in Replicas, ClientStep(i) PROVE Has(k, r)
    <3>1. PICK u \in Updates, prev \in known : MaySend(i, u) /\ (Add(i, u, prev) \/ AddAgain(i, u, prev))
      BY <2>2 DEF ClientStep
    <3>2. ~ AddAgain(i, u, prev)
      BY <3>1, NotAgain DEF AddAgain
    <3> QED BY <1>6, <1>12, <3>1, <3>2
  <2>3. ASSUME NEW i \in Replicas, HandlerStep(i) PROVE Has(k, r)
    BY <1>7, <1>10, <1>11, <1>12, <2>3
  <2> QED BY <2>1, <2>2, <2>3 DEF Next
<1> QED BY <1>12 DEF Here, Has, Counts

\* A nonempty set of numbers has a least element.
LEMMA LeastNumber ==
  ASSUME NEW B \in SUBSET Nat, B # {}
  PROVE  \E m \in B : \A k \in B : m <= k
<1> DEFINE upto(n) == 1 .. n
           T == {upto(n) : n \in B}
           R == StrictSubsetOrdering(Nat)
<1>1. T \subseteq FiniteSubsetsOf(Nat)
  <2>1. \A n \in B : IsFiniteSet(upto(n)) /\ upto(n) \in SUBSET Nat
    BY FS_Interval
  <2> QED BY <2>1 DEF FiniteSubsetsOf
<1>2. T # {}
  OBVIOUS
<1>3. \E x \in T : \A y \in T : <<y, x>> \notin R
  <2> HIDE DEF T, R
  <2>1. IsWellFoundedOn(R, FiniteSubsetsOf(Nat))
    BY FS_StrictSubsetOrderingWellFounded DEF R
  <2> QED BY <1>1, <1>2, <2>1, WFMin
<1>4. PICK m \in B : \A k \in B : <<upto(k), upto(m)>> \notin R
  BY <1>3
<1>5. ASSUME NEW k \in B, k < m PROVE FALSE
  <2>1. upto(k) \subseteq upto(m) /\ upto(k) # upto(m)
    BY <1>5
  <2>2. <<upto(k), upto(m)>> \in R
    BY <1>5, <2>1 DEF StrictSubsetOrdering
  <2> QED BY <1>4, <2>2
<1> QED BY <1>5

\* A client that has heard of an update of replica i, and otherwise only of what i's
\* value reflects, has heard of nothing that it does not.
LEMMA NoHigher ==
  ASSUME IInv, History, Values, Pass, NEW i \in Replicas, stage[i] = "free", NEW t \in known,
         \A k \in Replicas : k # i => t[k] <= valueTimestamp[i][k]
  PROVE  Leq(t, valueTimestamp[i])
<1> DEFINE Above == {s \in known : /\ valueTimestamp[i][i] < s[i]
                                   /\ \A k \in Replicas : k # i => s[k] <= valueTimestamp[i][k]}
           B == {s[i] : s \in Above}
<1>1. known \subseteq Vector /\ valueTimestamp[i] \in Vector /\ replicaTimestamp[i][i] \in Nat
  BY DEF IInv, TypeOK, Vector
<1>2. \A s \in known, k \in Replicas : s[k] \in Nat /\ valueTimestamp[i][k] \in Nat
  BY <1>1 DEF Vector
<1>3. ASSUME B # {} PROVE FALSE
  <2>1. B \in SUBSET Nat
    BY <1>2
  <2>2. PICK m \in B : \A k \in B : m <= k
    <3> HIDE DEF B
    <3> QED BY <1>3, <2>1, LeastNumber
  <2>3. PICK s \in Above : s[i] = m
    OBVIOUS
  <2>4. m <= replicaTimestamp[i][i]
    BY <2>3 DEF IInv, FromThePast, Leq, Origin
  <2>5. m \in 1 .. replicaTimestamp[i][i]
    BY <1>1, <1>2, <2>3, <2>4
  <2>6. PICK q \in accepted : q.instance = i /\ q.timestamp[i] = m
    BY <2>5 DEF History
  <2>7. Leq(q.timestamp, s)
    BY <2>3, <2>6 DEF History
  <2>8. /\ q.prev \in known /\ q.prev[i] < m
        /\ \A k \in Replicas \ {i} : q.timestamp[k] = q.prev[k]
    BY <2>6 DEF History
  <2>9. \A k \in Replicas : k # i => q.prev[k] <= valueTimestamp[i][k]
    <3> SUFFICES ASSUME NEW k \in Replicas, k # i PROVE q.prev[k] <= valueTimestamp[i][k]
      OBVIOUS
    <3>1. q.prev[k] <= s[k] /\ s[k] <= valueTimestamp[i][k]
      BY <2>3, <2>7, <2>8 DEF Leq
    <3>2. q.prev[k] \in Nat /\ s[k] \in Nat /\ valueTimestamp[i][k] \in Nat
      BY <1>2, <2>3, <2>8
    <3> QED BY <3>1, <3>2
  <2>10. CASE valueTimestamp[i][i] < q.prev[i]
    <3>1. q.prev[i] \in B
      BY <2>8, <2>9, <2>10
    <3>2. m <= q.prev[i]
      BY <2>2, <3>1
    <3> QED BY <1>2, <2>5, <2>8, <3>2
  <2>11. CASE ~ (valueTimestamp[i][i] < q.prev[i])
    <3>1. Leq(q.prev, valueTimestamp[i])
      <4>1. q.prev[i] \in Nat /\ valueTimestamp[i][i] \in Nat
        BY <1>2, <2>8
      <4>2. q.prev[i] <= valueTimestamp[i][i]
        BY <2>11, <4>1
      <4> QED BY <2>9, <4>2 DEF Leq
    <3>2. Counts(replicaTimestamp[i], q)
      BY <2>4, <2>6 DEF Counts
    <3>3. q.uuid \in Executed(i)
      BY <3>1, <3>2 DEF Pass
    <3>4. m <= valueTimestamp[i][i]
      BY <2>6, <3>3 DEF Values, Leq
    <3> QED BY <1>2, <2>3, <2>5, <3>4
  <2> QED BY <2>10, <2>11
<1>4. t \notin Above
  BY <1>3
<1>5. ~ (valueTimestamp[i][i] < t[i]) /\ t[i] \in Nat /\ valueTimestamp[i][i] \in Nat
  BY <1>2, <1>4
<1>6. t[i] <= valueTimestamp[i][i]
  BY <1>5
<1> QED BY <1>6 DEF Leq

\* Where the pass is: what was visited was executed if it could be, and when the lock
\* is free nothing is left.
LEMMA PassNext ==
  ASSUME IInv, Quiet, SortedByDependency, History, Rows, Brought, Here, Values, Pass,
         PlainRequests, Next, Serial
  PROVE  Pass'
<1> USE DEF value, lists, lock, wire, ghost
<1> DEFINE Passed(k) ==
             /\ stage'[k] = "execute" => Ordered(todo'[k]) /\ ToSet(todo'[k]) \subseteq ToSet(log'[k])
             /\ stage'[k] = "cleanup" => todo'[k] = <<>>
             /\ stage'[k] \in {"execute", "cleanup"} =>
                  \A r \in ToSet(log'[k]) \ ToSet(todo'[k]) :
                    Leq(r.prev, replicaTimestamp'[k]) => r.uuid \in Executed(k)'
             /\ stage'[k] = "free" =>
                  \A r \in accepted' :
                    Counts(replicaTimestamp'[k], r) /\ Leq(r.prev, valueTimestamp'[k])
                      => r.uuid \in Executed(k)'
<1>1. TypeOK /\ TypeOK' /\ accepted \subseteq Record /\ accepted' \subseteq Record
  BY NextIInv DEF IInv, TypeOK
<1>2. \A k \in Replicas : Executed(k) \subseteq Executed(k)'
  BY Grow
<1>3. \A r \in accepted' : r \in accepted \/ \A t \in Vector : Leq(t, Origin) => ~ Counts(t, r)
  BY NewIsNew
<1>4. \A k \in Replicas : replicaTimestamp[k] \in Vector /\ Leq(replicaTimestamp[k], Origin)
  BY <1>1 DEF TypeOK, IInv, FromThePast
<1>5. ASSUME NEW k \in Replicas, todo'[k] = todo[k], stage'[k] = stage[k], log'[k] = log[k],
             replicaTimestamp'[k] = replicaTimestamp[k], valueTimestamp'[k] = valueTimestamp[k]
      PROVE  Passed(k)
  BY <1>2, <1>3, <1>4, <1>5 DEF Pass
<1>6. ASSUME NEW i \in Replicas, NEW u \in Updates, NEW prev \in known, MaySend(i, u), Add(i, u, prev)
      PROVE  Passed(i)
  <2> DEFINE new == NewRecord(i, u, prev)
  <2>1. /\ new \in Record /\ new.instance = i /\ accepted' = accepted \cup {new}
        /\ new.prev = prev /\ new.uuid = u
        /\ \A k \in Replicas \ {i} : new.timestamp[k] = prev[k]
        /\ \A l \in Replicas : l # i => replicaTimestamp'[i][l] = replicaTimestamp[i][l]
        /\ \A q \in accepted : q.timestamp[i] <= replicaTimestamp[i][i]
    BY <1>6, AddMakes
  <2>2. stage[i] = "free" /\ stage' = stage /\ execute(i, new)
    BY <1>6 DEF Add
  <2> HIDE DEF new
  <2>3. \/ /\ Executable(i, new) /\ Executed(i)' = Executed(i) \cup {u}
           /\ valueTimestamp'[i] = Merge(valueTimestamp[i], new.timestamp)
        \/ ~ Executable(i, new) /\ UNCHANGED value
    BY <1>1, <2>1, <2>2, executeMakes
  <2>4. u \notin ToSet(operationsTable[i])
    BY <1>6, NotAgain DEF AlreadyHere
  <2>5. Leq(prev, valueTimestamp'[i]) => u \in Executed(i)'
    BY <2>1, <2>3, <2>4 DEF Executable
  <2>6. \A k \in Replicas : k # i => valueTimestamp'[i][k] = valueTimestamp[i][k]
    <3>1. CASE Executable(i, new) /\ valueTimestamp'[i] = Merge(valueTimestamp[i], new.timestamp)
      <4>1. \A k \in Replicas : k # i => new.timestamp[k] <= valueTimestamp[i][k]
        BY <2>1, <3>1 DEF Executable, Leq
      <4>2. \A k \in Replicas : new.timestamp[k] \in Nat /\ valueTimestamp[i][k] \in Nat
        BY <1>1, <2>1 DEF Record, TypeOK, Vector
      <4> QED BY <3>1, <4>1, <4>2 DEF Merge
    <3> QED BY <2>3, <3>1
  <2>7. ASSUME NEW r \in accepted, Counts(replicaTimestamp'[i], r), Leq(r.prev, valueTimestamp'[i])
        PROVE  r.uuid \in Executed(i)'
    <3>1. r.prev \in known /\ r.instance \in Replicas
      BY <1>1 DEF History, Record
    <3>2. Leq(r.prev, valueTimestamp[i])
      BY <2>2, <2>6, <2>7, <3>1, NoHigher DEF Leq
    <3>3. Counts(replicaTimestamp[i], r)
      BY <2>1, <2>7, <3>1 DEF Counts
    <3> QED BY <1>2, <2>2, <3>2, <3>3 DEF Pass
  <2> QED BY <2>1, <2>2, <2>5, <2>7
<1>7. ASSUME NEW i \in Replicas, StartExecution(i) PROVE Passed(i)
  <2>1. stage[i] = "sorted" /\ stage'[i] = "execute" /\ todo'[i] = log[i] /\ log' = log
    BY <1>1, <1>7 DEF StartExecution, TypeOK
  <2> QED BY <2>1 DEF SortedByDependency
<1>8. ASSUME NEW i \in Replicas, ExecuteRecord(i) PROVE Passed(i)
  <2> DEFINE h == Head(todo[i])
  <2>1. /\ stage[i] = "execute" /\ stage' = stage /\ todo[i] # <<>> /\ todo'[i] = Tail(todo[i])
        /\ execute(i, h) /\ UNCHANGED <<log, replicaTimestamp>>
    BY <1>1, <1>8 DEF ExecuteRecord, TypeOK
  <2>2. todo[i] \in Seq(Record) /\ Ordered(todo[i]) /\ ToSet(todo[i]) \subseteq ToSet(log[i])
    BY <1>1, <2>1 DEF TypeOK, Pass
  <2>3. ToSet(todo[i]) = {h} \cup ToSet(todo'[i]) /\ h \in Record
    BY <2>1, <2>2, ToSetHeadTail, ToSetTyped
  <2>4. Ordered(Tail(todo[i]))
    <3> DEFINE s == todo[i]
               t == Tail(s)
    <3>1. /\ Len(s) \in Nat \ {0} /\ DOMAIN s = 1 .. Len(s)
          /\ DOMAIN t = 1 .. Len(s) - 1 /\ \A k \in 1 .. Len(s) - 1 : t[k] = s[k + 1]
      BY <2>1, <2>2
    <3> HIDE DEF s, t
    <3>2. ASSUME NEW m \in DOMAIN t, NEW n \in DOMAIN t, m < n PROVE ~ Leq(t[n].timestamp, t[m].prev)
      <4>1. m + 1 \in DOMAIN s /\ n + 1 \in DOMAIN s /\ m + 1 < n + 1
        BY <3>1, <3>2
      <4>2. ~ Leq(s[n + 1].timestamp, s[m + 1].prev)
        BY <2>2, <4>1 DEF Ordered, s
      <4> QED BY <3>1, <3>2, <4>2
    <3> QED BY <3>2 DEF Ordered, s, t
  <2>5. ASSUME Leq(h.prev, replicaTimestamp[i]) PROVE h.uuid \in Executed(i)'
    <3>1. Leq(h.prev, valueTimestamp[i])
      BY <2>1, <2>5, HeadReady
    <3> HIDE DEF h
    <3>2. \/ Executed(i)' = Executed(i) \cup {h.uuid}
          \/ ~ Executable(i, h)
      BY <1>1, <2>1, <2>3, executeMakes
    <3> QED BY <1>2, <3>1, <3>2 DEF Executable, Executed
  <2> HIDE DEF h
  <2>6. ASSUME NEW r \in ToSet(log[i]) \ ToSet(todo'[i]), Leq(r.prev, replicaTimestamp[i])
        PROVE  r.uuid \in Executed(i)'
    <3>1. CASE r = h
      BY <2>5, <2>6, <3>1
    <3>2. CASE r \notin ToSet(todo[i])
      BY <1>2, <2>1, <2>6, <3>2 DEF Pass
    <3> QED BY <2>3, <2>6, <3>1, <3>2
  <2> QED BY <2>1, <2>2, <2>3, <2>4, <2>6
<1>9. ASSUME NEW i \in Replicas, StartCleanup(i) PROVE Passed(i)
  <2>1. /\ stage[i] = "execute" /\ stage'[i] = "cleanup" /\ todo[i] = <<>>
        /\ UNCHANGED <<todo, log, replicaTimestamp>>
    BY <1>1, <1>9 DEF StartCleanup, TypeOK
  <2> QED BY <1>2, <2>1 DEF Pass
<1>10. ASSUME NEW i \in Replicas, NEW n \in DOMAIN log[i], RemoveRecord(i, n) PROVE Passed(i)
  <2>1. /\ stage[i] = "cleanup" /\ stage' = stage /\ log'[i] = RemoveAt(log[i], n) /\ log[i] \in Seq(Record)
        /\ UNCHANGED <<todo, replicaTimestamp>>
    BY <1>1, <1>10 DEF RemoveRecord, TypeOK
  <2>2. ToSet(log'[i]) \subseteq ToSet(log[i])
    BY <2>1, RemoveAtTyped
  <2> QED BY <1>2, <2>1, <2>2 DEF Pass
<1>11. ASSUME NEW i \in Replicas, FinishGossip(i) PROVE Passed(i)
  <2>1. /\ stage[i] = "cleanup" /\ stage'[i] = "free"
        /\ UNCHANGED <<todo, replicaTimestamp, valueTimestamp, accepted>>
    BY <1>1, <1>11 DEF FinishGossip, TypeOK
  <2>2. ASSUME NEW r \in accepted, Counts(replicaTimestamp[i], r), Leq(r.prev, valueTimestamp[i])
        PROVE  r.uuid \in Executed(i)
    <3>1. r.uuid \in Executed(i) \/ r \in ToSet(log[i])
      BY <2>2 DEF Here
    <3>2. r \notin ToSet(todo[i])
      BY <2>1, ToSetEmpty DEF Pass
    <3>3. Leq(r.prev, replicaTimestamp[i])
      <4>1. r.prev \in Vector /\ valueTimestamp[i] \in Vector /\ replicaTimestamp[i] \in Vector
        BY <1>1 DEF Record, TypeOK
      <4> QED BY <2>2, <4>1, LeqTransitive DEF Values
    <3> QED BY <2>1, <3>1, <3>2, <3>3 DEF Pass
  <2> QED BY <1>2, <2>1, <2>2
<1>12. ASSUME NEW i \in Replicas, stage'[i] \in {"records", "sort", "sorted"} PROVE Passed(i)
  BY <1>12
<1> HIDE DEF Passed
<1>13. ASSUME NEW i \in Replicas, HandlerStep(i) PROVE Passed(i)
  <2>1. CASE TakeRecord(i) \/ MergeTimestamp(i) \/ SortLog(i) \/ \E m \in network : ReceiveGossip(i, m)
    <3>1. stage'[i] \in {"records", "sort", "sorted"}
      BY <1>1, <2>1 DEF TakeRecord, MergeTimestamp, SortLog, ReceiveGossip, TypeOK
    <3> QED BY <1>12, <3>1
  <2> QED BY <1>7, <1>8, <1>9, <1>10, <1>11, <1>13, <2>1 DEF HandlerStep
<1>14. ASSUME NEW k \in Replicas PROVE Passed(k)
  <2>1. ASSUME NEW i \in Replicas, HandlerStep(i) \/ ClientStep(i), k # i PROVE Passed(k)
    BY <1>1, <1>5, <2>1, Elsewhere
  <2>2. ASSUME NEW i \in Replicas, ThreadStep(i) \/ FailGossip(i) PROVE Passed(k)
    <3>1. UNCHANGED <<log, todo, stage, replicaTimestamp, value>>
      BY <1>1, <2>2, ThreadsElsewhere
    <3> QED BY <1>5, <3>1
  <2>3. ASSUME ClientStep(k) PROVE Passed(k)
    <3>1. PICK u \in Updates, prev \in known : MaySend(k, u) /\ (Add(k, u, prev) \/ AddAgain(k, u, prev))
      BY <2>3 DEF ClientStep
    <3>2. ~ AddAgain(k, u, prev)
      BY <3>1, NotAgain DEF AddAgain
    <3> QED BY <1>6, <3>1, <3>2
  <2> QED BY <1>13, <2>1, <2>2, <2>3 DEF Next
<1> QED BY <1>14 DEF Pass, Passed, Counts

\* A camera that is executed is there, and reports find those their clients knew of.
LEMMA StoredNext ==
  ASSUME IInv, History, History', Here, Values, Values', Pass, Brought, Stored,
         PlainRequests, Next, Serial
  PROVE  Stored'
<1> USE DEF value, lists, lock, wire, ghost
<1> DEFINE Finds(k, r) ==
             \A q \in accepted' :
               /\ Payload[r.uuid].kind = "observations" /\ Payload[q.uuid].kind = "camera"
               /\ Payload[q.uuid].name = Payload[r.uuid].name /\ Leq(q.timestamp, r.prev)
               => r.uuid \in observations'[k]
           Shown(k, r) ==
             Payload[r.uuid].kind = "camera" => cameras'[k][Payload[r.uuid].name] # NoPlace
           Stores(k) ==
             \A r \in accepted' : r.uuid \in Executed(k)' => Shown(k, r) /\ Finds(k, r)
<1>1. TypeOK /\ TypeOK' /\ accepted \subseteq Record /\ accepted' \subseteq Record
  BY NextIInv DEF IInv, TypeOK
<1>2. accepted \subseteq accepted'
  BY OnlyAdd, AddMakes DEF Add
<1>3. \A r \in accepted' : r \in accepted \/ \A t \in Vector : Leq(t, Origin) => ~ Counts(t, r)
  BY NewIsNew
<1>4. \A r \in accepted : r.prev \in Vector /\ Leq(r.prev, Origin)
  BY <1>1 DEF History, IInv, FromThePast, Record
<1>5. \A r \in accepted, q \in accepted' : Leq(q.timestamp, r.prev) => q \in accepted
  BY <1>1, <1>3, <1>4, CountsOwn
<1>6. ASSUME NEW k \in Replicas, NEW r \in accepted', r.uuid \in Executed(k)
      PROVE  r \in accepted
  <2>1. PICK q \in accepted : q.uuid = r.uuid
    BY <1>6 DEF Values
  <2> QED BY <1>2, <2>1 DEF History
<1>7. ASSUME NEW k \in Replicas, NEW r \in accepted', r.uuid \in Executed(k),
             cameras'[k] = cameras[k]
             \/ \E c \in Cameras, p \in Places : cameras'[k] = [cameras[k] EXCEPT ![c] = p],
             observations[k] \subseteq observations'[k]
      PROVE  Shown(k, r) /\ Finds(k, r)
  <2>1. r \in accepted
    BY <1>6, <1>7
  <2>2. ASSUME Payload[r.uuid].kind = "camera" PROVE cameras'[k][Payload[r.uuid].name] # NoPlace
    <3>1. cameras[k][Payload[r.uuid].name] # NoPlace /\ Payload[r.uuid].name \in Cameras
      BY <1>1, <1>7, <2>1, <2>2, PayloadAssumption DEF Stored, Record, Content
    <3>2. cameras[k] \in [Cameras -> Places \cup {NoPlace}]
      BY <1>1 DEF TypeOK
    <3> QED BY <1>7, <3>1, <3>2, NoPlaceAssumption
  <2>3. Finds(k, r)
    BY <1>5, <1>7, <2>1 DEF Stored
  <2> QED BY <2>2, <2>3
<1>8. ASSUME NEW k \in Replicas, NEW x \in accepted', execute(k, x),
             Leq(x.prev, valueTimestamp[k]) =>
               \A q \in accepted' : Leq(q.timestamp, x.prev) => q \in accepted /\ q.uuid \in Executed(k)
      PROVE  Stores(k)
  <2>1. CASE UNCHANGED value
    BY <1>7, <2>1 DEF Executed
  <2>2. CASE /\ Executable(k, x) /\ executeAux(k, x)
             /\ Executed(k)' = Executed(k) \cup {x.uuid}
    <3> DEFINE content == Payload[x.uuid]
    <3>1. content \in Content /\ x.uuid \in Updates /\ content.name \in Cameras
      <4>1. x.uuid \in Updates
        BY <1>1 DEF Record
      <4>2. content \in Content
        BY <4>1, PayloadAssumption
      <4> QED BY <4>1, <4>2 DEF Content
    <3>2. content.kind = "camera" => content.place \in Places
      BY <3>1 DEF Content
    <3>3. cameras' = IF content.kind = "camera"
                     THEN [cameras EXCEPT ![k] = [@ EXCEPT ![content.name] = content.place]]
                     ELSE cameras
      BY <2>2 DEF executeAux
    <3>4. observations' = IF content.kind = "observations" /\ cameras[k][content.name] # NoPlace
                          THEN [observations EXCEPT ![k] = @ \cup {x.uuid}]
                          ELSE observations
      BY <2>2 DEF executeAux
    <3> DEFINE c == content.name  p == content.place  camera == content.kind = "camera"
    <3>5. /\ c \in Cameras /\ (camera => p \in Places)
          /\ cameras' = IF camera THEN [cameras EXCEPT ![k] = [@ EXCEPT ![c] = p]] ELSE cameras
      BY <3>1, <3>2, <3>3
    <3>6. camera => cameras'[k] = [cameras[k] EXCEPT ![c] = p]
      <4> HIDE DEF c, p, camera, content
      <4> QED BY <1>1, <3>5 DEF TypeOK
    <3>7. /\ cameras'[k] = cameras[k]
             \/ \E d \in Cameras, o \in Places : cameras'[k] = [cameras[k] EXCEPT ![d] = o]
          /\ observations[k] \subseteq observations'[k]
      <4>1. cameras'[k] = cameras[k]
             \/ \E d \in Cameras, o \in Places : cameras'[k] = [cameras[k] EXCEPT ![d] = o]
        <5> HIDE DEF c, p, camera, content
        <5> QED BY <3>5, <3>6
      <4>2. observations[k] \subseteq observations'[k]
        <5> HIDE DEF content
        <5> QED BY <1>1, <3>4 DEF TypeOK
      <4> QED BY <4>1, <4>2
    <3>8. Shown(k, x)
      <4>1. cameras[k] \in [Cameras -> Places \cup {NoPlace}]
        BY <1>1 DEF TypeOK
      <4>2. camera => cameras'[k][c] = p /\ p # NoPlace
        <5> HIDE DEF c, p, camera, content
        <5> QED BY <3>5, <3>6, <4>1, NoPlaceAssumption
      <4> QED BY <4>2
    <3>9. ASSUME NEW q \in accepted', content.kind = "observations", Payload[q.uuid].kind = "camera",
                 Payload[q.uuid].name = content.name, Leq(q.timestamp, x.prev)
          PROVE  x.uuid \in observations'[k]
      <4>1. q \in accepted /\ q.uuid \in Executed(k)
        BY <1>8, <2>2, <3>9 DEF Executable
      <4>2. cameras[k][content.name] # NoPlace
        BY <3>9, <4>1 DEF Stored
      <4> HIDE DEF content
      <4> QED BY <1>1, <3>4, <3>9, <4>2 DEF TypeOK
    <3>10. ASSUME NEW r \in accepted', r.uuid \in Executed(k)' PROVE Shown(k, r) /\ Finds(k, r)
      <4>1. CASE r.uuid = x.uuid
        <5>1. r = x
          BY <1>8, <4>1 DEF History
        <5> QED BY <3>8, <3>9, <5>1
      <4>2. CASE r.uuid \in Executed(k)
        BY <1>7, <3>7, <4>2
      <4> QED BY <2>2, <3>10, <4>1, <4>2
    <3> QED BY <3>10
  <2> QED BY <1>1, <1>8, <2>1, <2>2, executeMakes
<1>9. ASSUME NEW k \in Replicas, Executed(k)' = Executed(k), cameras'[k] = cameras[k],
             observations'[k] = observations[k]
      PROVE  Stores(k)
  BY <1>7, <1>9
<1> HIDE DEF Stores
<1>10. ASSUME NEW i \in Replicas, NEW u \in Updates, NEW prev \in known, MaySend(i, u), Add(i, u, prev)
       PROVE  Stores(i)
  <2> DEFINE new == NewRecord(i, u, prev)
  <2>1. new \in accepted' /\ new.prev = prev /\ prev \in Vector /\ Leq(prev, Origin)
    BY <1>1, <1>10, AddMakes DEF IInv, FromThePast, TypeOK
  <2>2. execute(i, new) /\ stage[i] = "free"
    BY <1>10 DEF Add
  <2> HIDE DEF new
  <2>3. ASSUME Leq(prev, valueTimestamp[i]), NEW q \in accepted', Leq(q.timestamp, prev)
        PROVE  q \in accepted /\ q.uuid \in Executed(i)
    <3>1. q \in accepted /\ q \in Record
      BY <1>1, <1>3, <2>1, <2>3, CountsOwn
    <3>2. q.timestamp \in Vector /\ valueTimestamp[i] \in Vector
      BY <1>1, <3>1 DEF Record, TypeOK
    <3>3. Leq(q.timestamp, valueTimestamp[i])
      BY <2>1, <2>3, <3>2, LeqTransitive
    <3> QED BY <2>2, <3>1, <3>3, CoveredIsExecuted
  <2> QED BY <1>8, <2>1, <2>2, <2>3
<1>11. ASSUME NEW i \in Replicas, ExecuteRecord(i) PROVE Stores(i)
  <2> DEFINE h == Head(todo[i])
  <2>1. stage[i] = "execute" /\ todo[i] # <<>> /\ execute(i, h) /\ UNCHANGED accepted
    BY <1>11 DEF ExecuteRecord
  <2>2. h \in accepted /\ h.prev \in Vector
    <3>1. todo[i] \in Seq(Record)
      BY <1>1 DEF TypeOK
    <3>2. h \in accepted
      BY <2>1, <3>1, ToSetTail DEF IInv, Provenance
    <3> QED BY <1>4, <3>2
  <2>3. ASSUME Leq(h.prev, valueTimestamp[i]), NEW q \in accepted, Leq(q.timestamp, h.prev)
        PROVE  q.uuid \in Executed(i)
    <3>1. Leq(h.prev, replicaTimestamp[i])
      BY <1>1, <2>2, <2>3, LeqTransitive DEF TypeOK, Values
    <3> QED BY <2>1, <2>3, <3>1, HeadReady
  <2> HIDE DEF h
  <2> QED BY <1>8, <2>1, <2>2, <2>3
<1>12. ASSUME NEW k \in Replicas PROVE Stores(k)
  <2>1. CASE UNCHANGED value
    BY <1>9, <2>1 DEF Executed
  <2>2. ASSUME NEW i \in Replicas, NEW r \in Record, execute(i, r), k # i PROVE Stores(k)
    <3>1. operationsTable'[k] = operationsTable[k] /\ cameras'[k] = cameras[k] /\ observations'[k] = observations[k]
      BY <1>1, <2>2 DEF TypeOK, execute, executeAux
    <3> QED BY <1>9, <3>1 DEF Executed
  <2>3. ASSUME NEW i \in Replicas, ThreadStep(i) \/ FailGossip(i) PROVE Stores(k)
    BY <1>1, <2>1, <2>3, ThreadsElsewhere
  <2>4. ASSUME NEW i \in Replicas, HandlerStep(i) PROVE Stores(k)
    <3>1. CASE ExecuteRecord(i)
      <4>1. todo[i] \in Seq(Record) /\ todo[i] # <<>> /\ execute(i, Head(todo[i]))
        BY <1>1, <3>1 DEF TypeOK, ExecuteRecord
      <4>2. Head(todo[i]) \in Record
        BY <4>1, ToSetTail, ToSetTyped
      <4> QED BY <1>11, <2>2, <3>1, <4>1, <4>2
    <3>2. CASE ~ ExecuteRecord(i)
      <4>1. UNCHANGED value
        BY <2>4, <3>2 DEF HandlerStep, ReceiveGossip, TakeRecord, MergeTimestamp, SortLog, StartExecution,
           StartCleanup, RemoveRecord, FinishGossip
      <4> QED BY <2>1, <4>1
    <3> QED BY <3>1, <3>2
  <2>5. ASSUME NEW i \in Replicas, ClientStep(i) PROVE Stores(k)
    <3>1. PICK u \in Updates, prev \in known : MaySend(i, u) /\ (Add(i, u, prev) \/ AddAgain(i, u, prev))
      BY <2>5 DEF ClientStep
    <3>2. ~ AddAgain(i, u, prev)
      BY <3>1, NotAgain DEF AddAgain
    <3>3. execute(i, NewRecord(i, u, prev)) /\ NewRecord(i, u, prev) \in Record
      BY <1>1, <3>1, <3>2, NewRecordTyped DEF TypeOK, Add
    <3> QED BY <1>10, <2>2, <3>1, <3>2, <3>3
  <2> QED BY <2>3, <2>4, <2>5 DEF Next
<1> QED BY <1>12 DEF Stored, Stores

-------------------------------------------------------------------------------
(***************************************************************************)
(* The theorems about serial behaviours.                                   *)
(***************************************************************************)

\* A serial behaviour starts with nothing to account for.
LEMMA InitSerial == InitAlive => SerialInv
<1> SUFFICES ASSUME InitAlive PROVE SerialInv
  OBVIOUS
<1>1. Init /\ IInv /\ TypeOK
  BY InitIInv DEF InitAlive, IInv
<1>2. /\ accepted = {} /\ network = {} /\ known = {Zero}
      /\ \A i \in Replicas :
           /\ stage[i] = "free" /\ gossip[i] = NoMessage /\ log[i] = <<>> /\ todo[i] = <<>>
           /\ replicaTimestamp[i] = Zero /\ valueTimestamp[i] = Zero /\ operationsTable[i] = <<>>
           /\ \A k \in Replicas : tableTimestamps[i][k] = Zero
  BY <1>1 DEF Init
<1>3. \A i \in Replicas : ~ Scanning(i) /\ thread[i].pc = "idle"
  BY DEF InitAlive, Scanning
<1>4. Quiet
  BY <1>2, <1>3 DEF Quiet, Active, Scanning
<1>5. History
  BY <1>2 DEF History, Zero
<1>6. Leq(Zero, Zero)
  BY LeqReflexive, ZeroIsVector
<1>7. Rows
  BY <1>2, <1>3, <1>6 DEF Rows, Was
<1>8. Scans
  BY <1>3 DEF Scans, Scanning
<1>9. Brought
  BY <1>2, ToSetEmpty DEF Brought
<1>10. Here
  BY <1>2 DEF Here
<1>11. Values
  BY <1>2, <1>6, ToSetEmpty DEF Values, Executed
<1>12. Pass /\ Stored
  BY <1>2 DEF Pass, Stored
<1> QED BY <1>1, <1>4, <1>5, <1>7, <1>8, <1>9, <1>10, <1>11, <1>12 DEF SerialInv

\* Steps of a serial behaviour in which the logs are sorted keep the accounts.
LEMMA NextSerial ==
  ASSUME PlainRequests
  PROVE  SerialInv /\ SortedByDependency /\ [Next /\ Serial]_vars => SerialInv'
<1> SUFFICES ASSUME SerialInv, SortedByDependency, [Next /\ Serial]_vars PROVE SerialInv'
  OBVIOUS
<1>1. IInv'
  BY NextIInv DEF SerialInv
<1>2. CASE UNCHANGED vars
  <2>1. UNCHANGED <<value, lists, lock, thread, wire, ghost>>
    BY <1>2 DEF vars
  <2>2. Quiet'
    BY <2>1 DEF SerialInv, Quiet, Active, lock
  <2>4. History' /\ Rows'
    BY <2>1 DEF SerialInv, History, Counts, Rows, Was, Scanning, lists, lock, wire, ghost
  <2>5. Scans'
    BY <2>1 DEF SerialInv, Scans, Scanning, Unknown, lists
  <2>6. Here' /\ Values'
    BY <2>1 DEF SerialInv, Counts, Here, Values, Executed, value, lists, ghost
  <2>3. Brought' /\ Pass' /\ Stored'
    BY <2>1 DEF SerialInv, Brought, Counts, Pass, Stored, Executed, value, lists, lock, wire, ghost
  <2> QED BY <1>1, <2>2, <2>3, <2>4, <2>5, <2>6 DEF SerialInv
<1>3. CASE Next /\ Serial
  <2>1. Quiet'
    BY <1>1, <1>3, QuietNext DEF IInv
  <2>2. History' /\ Rows' /\ Brought' /\ Here' /\ Values' /\ Pass'
    BY <1>3, HistoryNext, RowsNext, BroughtNext, HereNext, ValuesNext, PassNext DEF SerialInv
  <2>3. Scans'
    BY <1>3, <2>1, ScansNext DEF SerialInv
  <2>4. Stored'
    BY <1>3, <2>2, StoredNext DEF SerialInv
  <2> QED BY <1>1, <2>1, <2>2, <2>3, <2>4 DEF SerialInv
<1> QED BY <1>2, <1>3

\* SerialInv holds throughout a serial behaviour in which sortLog orders the logs by
\* dependency, without empty reports and without a request at two replicas.
THEOREM SerialInvariance ==
  ASSUME PlainRequests
  PROVE  SerialSpec /\ []SortedByDependency => []SerialInv
<1>1. InitAlive => SerialInv
  BY InitSerial
<1>2. SerialInv /\ SortedByDependency /\ [Next /\ Serial]_vars => SerialInv'
  BY NextSerial
<1> QED BY <1>1, <1>2, PTL DEF SerialSpec

\* In such behaviours no replica counts an update that it has lost, although gossip
\* requests are lost or late and the log is cleaned up.
THEOREM CountedIsKept ==
  ASSUME PlainRequests
  PROVE  SerialSpec /\ []SortedByDependency => []CountedIsHere
<1>1. SerialInv => CountedIsHere
  BY DEF SerialInv, Here, Counts, CountedIsHere
<1> QED BY <1>1, SerialInvariance, PTL

\* The record of an update leaves the log of the replica that accepted it only when
\* every replica has the update.
THEOREM RemovedIsKnownToAll ==
  ASSUME PlainRequests
  PROVE  SerialSpec /\ []SortedByDependency => []RemovedIsEverywhere
<1>1. SerialInv => RemovedIsEverywhere
  <2> SUFFICES ASSUME SerialInv, NEW i \in Replicas, NEW r \in accepted, r \notin ToSet(log[r.instance])
               PROVE  r.uuid \in Executed(i) \/ r \in ToSet(log[i])
    BY DEF RemovedIsEverywhere
  <2>1. r.instance \in Replicas /\ Counts(replicaTimestamp[r.instance], r)
    BY CountedAtHome DEF SerialInv
  <2>2. Counts(replicaTimestamp[i], r)
    BY <2>1 DEF SerialInv, Here
  <2> QED BY <2>2 DEF SerialInv, Here
<1> QED BY <1>1, SerialInvariance, PTL

\* A read reflects all that its client knows of, and no report is dropped whose
\* client knew of the camera.
THEOREM ReadsReflectAll ==
  ASSUME PlainRequests
  PROVE  SerialSpec /\ []SortedByDependency => []ReadsAreComplete
<1>1. SerialInv => ReadsAreComplete
  BY CoveredIsExecuted DEF SerialInv, Stored, ReadsAreComplete
<1> QED BY <1>1, SerialInvariance, PTL

\* One visit to each record is enough: when the lock is free nothing that could be
\* executed is left in the log.
THEOREM OnePassIsEnough ==
  ASSUME PlainRequests
  PROVE  SerialSpec /\ []SortedByDependency => []NothingLeft
<1>1. SerialInv => NothingLeft
  <2> SUFFICES ASSUME SerialInv, NEW i \in Replicas, stage[i] = "free", NEW r \in ToSet(log[i]),
                      Executable(i, r)
               PROVE  FALSE
    BY DEF NothingLeft
  <2>1. r \in accepted /\ Counts(replicaTimestamp[i], r)
    BY DEF SerialInv, IInv, Provenance, Brought
  <2>2. r.uuid \in Executed(i)
    BY <2>1 DEF SerialInv, Pass, Executable
  <2> QED BY <2>2 DEF Executable, Executed
<1> QED BY <1>1, SerialInvariance, PTL

-------------------------------------------------------------------------------
(***************************************************************************)
(* The replica managers implement the causal store.                        *)
(***************************************************************************)

\* The identities of the updates of A that t counts, and the causal store's updates.
Dependencies(A, t) == {q.uuid : q \in {p \in A : Leq(p.timestamp, t)}}
Stock(A) == {[id |-> r.uuid, deps |-> Dependencies(A, r.prev)] : r \in A}

\* The causal store's steps, by the replica managers' names.
LEMMA StoreSteps ==
  ASSUME NEW i, NEW x
  PROVE  /\ Abstract!Ready(i, x) <=> x.id \notin ToSet(operationsTable[i]) /\ x.deps \subseteq ToSet(operationsTable[i])
         /\ Abstract!Execute(i, x) <=>
              /\ x \in Stock(accepted)
              /\ Abstract!Ready(i, x)
              /\ operationsTable' = [operationsTable EXCEPT ![i] = Append(@, x.id)]
              /\ Stock(accepted)' = Stock(accepted)
         /\ Abstract!Accept(i, x) <=>
              /\ x.id \notin {v.id : v \in Stock(accepted)}
              /\ x.deps \subseteq {v.id : v \in Stock(accepted)}
              /\ Stock(accepted)' = Stock(accepted) \cup {x}
              /\ operationsTable' = IF Abstract!Ready(i, x)
                                    THEN [operationsTable EXCEPT ![i] = Append(@, x.id)]
                                    ELSE operationsTable
<1>1. Abstract!Ready(i, x) <=> x.id \notin ToSet(operationsTable[i]) /\ x.deps \subseteq ToSet(operationsTable[i])
  BY DEF Abstract!Ready, Abstract!ToSet, ToSet
<1>2. Abstract!Execute(i, x) <=>
        /\ x \in Stock(accepted)
        /\ Abstract!Ready(i, x)
        /\ operationsTable' = [operationsTable EXCEPT ![i] = Append(@, x.id)]
        /\ Stock(accepted)' = Stock(accepted)
  BY DEF Abstract!Execute, Stock, Dependencies
<1>3. Abstract!Accept(i, x) <=>
        /\ x.id \notin {v.id : v \in Stock(accepted)}
        /\ x.deps \subseteq {v.id : v \in Stock(accepted)}
        /\ Stock(accepted)' = Stock(accepted) \cup {x}
        /\ operationsTable' = IF Abstract!Ready(i, x)
                              THEN [operationsTable EXCEPT ![i] = Append(@, x.id)]
                              ELSE operationsTable
  BY DEF Abstract!Accept, Stock, Dependencies
<1> QED BY <1>1, <1>2, <1>3

\* An update may be executed where what it depends on was, and nowhere else.
LEMMA ReadyIsExecutable ==
  ASSUME SerialInv, NEW i \in Replicas, NEW t \in known
  PROVE  /\ stage[i] = "free" => (Leq(t, valueTimestamp[i]) <=> Dependencies(accepted, t) \subseteq Executed(i))
         /\ Dependencies(accepted, t) \subseteq Executed(i) => Leq(t, valueTimestamp[i])
<1>1. Dependencies(accepted, t) \subseteq Executed(i) => Leq(t, valueTimestamp[i])
  BY Reached DEF SerialInv, Dependencies
<1>2. ASSUME stage[i] = "free", Leq(t, valueTimestamp[i]), NEW q \in accepted, Leq(q.timestamp, t)
      PROVE  q.uuid \in Executed(i)
  <2>1. q.timestamp \in Vector /\ t \in Vector /\ valueTimestamp[i] \in Vector
    BY DEF SerialInv, IInv, TypeOK, Record
  <2>2. Leq(q.timestamp, valueTimestamp[i])
    BY <1>2, <2>1, LeqTransitive
  <2> QED BY <1>2, <2>2, CoveredIsExecuted DEF SerialInv
<1> QED BY <1>1, <1>2 DEF Dependencies

\* A step that executes a record of the log executes an update of the store.
LEMMA ExecuteImplements ==
  ASSUME SerialInv, NEW i \in Replicas, ExecuteRecord(i)
  PROVE  \/ UNCHANGED <<Stock(accepted), operationsTable>>
         \/ \E x \in Stock(accepted) : Abstract!Execute(i, x)
<1> USE DEF value, lists, lock, wire, ghost
<1> DEFINE h == Head(todo[i])
           x == [id |-> h.uuid, deps |-> Dependencies(accepted, h.prev)]
<1>1. TypeOK
  BY DEF SerialInv, IInv
<1>2. stage[i] = "execute" /\ todo[i] # <<>> /\ execute(i, h) /\ accepted' = accepted
  BY DEF ExecuteRecord
<1>3. h \in accepted /\ h \in Record /\ h.prev \in Vector
  <2>1. todo[i] \in Seq(Record)
    BY <1>1 DEF TypeOK
  <2>2. h \in accepted
    BY <1>2, <2>1, ToSetTail DEF SerialInv, IInv, Provenance
  <2> QED BY <1>1, <2>2 DEF TypeOK, Record
<1>4. CASE UNCHANGED value
  BY <1>2, <1>4
<1>5. CASE /\ Executable(i, h)
           /\ operationsTable' = [operationsTable EXCEPT ![i] = Append(@, h.uuid)]
  <2>1. Leq(h.prev, replicaTimestamp[i])
    BY <1>1, <1>3, <1>5, LeqTransitive DEF SerialInv, TypeOK, Values, Executable
  <2>2. \A q \in accepted : Leq(q.timestamp, h.prev) => q.uuid \in Executed(i)
    BY <1>2, <2>1, HeadReady DEF SerialInv
  <2> HIDE DEF h
  <2>3. x.id \notin ToSet(operationsTable[i]) /\ x.deps \subseteq ToSet(operationsTable[i])
    BY <1>5, <2>2 DEF Executable, Executed, Dependencies
  <2>4. x \in Stock(accepted)
    BY <1>3 DEF Stock
  <2>5. UNCHANGED Stock(accepted)
    BY <1>2
  <2>6. Abstract!Execute(i, x)
    <3>1. operationsTable' = [operationsTable EXCEPT ![i] = Append(@, x.id)]
      BY <1>5
    <3> HIDE DEF x
    <3> QED BY <2>3, <2>4, <2>5, <3>1, StoreSteps
  <2> QED BY <2>4, <2>6
<1> QED BY <1>2, <1>4, <1>5 DEF execute

\* An update that is accepted is accepted by the store, which executes it at once if it can.
LEMMA AddImplements ==
  ASSUME SerialInv, PlainRequests, Next, Serial,
         NEW i \in Replicas, NEW u \in Updates, NEW prev \in known, MaySend(i, u), Add(i, u, prev)
  PROVE  \E x \in Abstract!Update : Abstract!Accept(i, x)
<1> USE DEF value, lists, lock, wire, ghost
<1> DEFINE new == NewRecord(i, u, prev)
           x == [id |-> u, deps |-> Dependencies(accepted, prev)]
<1>1. TypeOK /\ accepted \subseteq Record
  BY DEF SerialInv, IInv, TypeOK
<1>2. /\ new \in Record /\ accepted' = accepted \cup {new} /\ new.prev = prev /\ new.uuid = u
      /\ prev \in Vector /\ new.instance = i
      /\ new.timestamp[i] = replicaTimestamp[i][i] + 1 /\ replicaTimestamp[i][i] \in Nat
      /\ \A t \in known : t[i] <= replicaTimestamp[i][i]
  BY AddMakes DEF SerialInv
<1>3. execute(i, new) /\ stage[i] = "free"
  BY DEF Add
<1> HIDE DEF new
<1>4. \A q \in accepted : q.uuid # u
  BY NotAgain DEF SerialInv
<1>5. u \notin ToSet(operationsTable[i])
  BY NotAgain DEF SerialInv, AlreadyHere
<1>6. ASSUME NEW t \in known PROVE ~ Leq(new.timestamp, t)
  <2>1. t[i] \in Nat /\ t[i] <= replicaTimestamp[i][i]
    BY <1>1, <1>2 DEF TypeOK, Vector
  <2> QED BY <1>2, <2>1 DEF Leq
<1>7. \A t \in known : Dependencies(accepted', t) = Dependencies(accepted, t)
  BY <1>2, <1>6 DEF Dependencies
<1>8. \A r \in accepted : r.prev \in known
  BY DEF SerialInv, History
<1>9. Stock(accepted') = Stock(accepted) \cup {x}
  BY <1>2, <1>7, <1>8 DEF Stock
<1>10. x \in Abstract!Update
  <2>1. Dependencies(accepted, prev) \subseteq Updates
    BY <1>1 DEF Dependencies, Record
  <2> QED BY <2>1 DEF Abstract!Update
<1>11. {v.id : v \in Stock(accepted)} = {r.uuid : r \in accepted}
  <2>1. ASSUME NEW r \in accepted PROVE r.uuid \in {v.id : v \in Stock(accepted)}
    <3>1. [id |-> r.uuid, deps |-> Dependencies(accepted, r.prev)] \in Stock(accepted)
      BY DEF Stock
    <3> QED BY <3>1
  <2>2. ASSUME NEW v \in Stock(accepted) PROVE v.id \in {r.uuid : r \in accepted}
    BY DEF Stock
  <2> QED BY <2>1, <2>2
<1>12. x.id \notin {v.id : v \in Stock(accepted)} /\ x.deps \subseteq {v.id : v \in Stock(accepted)}
  BY <1>4, <1>11 DEF Dependencies
<1>13. Executable(i, new) <=> x.id \notin ToSet(operationsTable[i]) /\ x.deps \subseteq ToSet(operationsTable[i])
  BY <1>2, <1>3, ReadyIsExecutable DEF Executable, Executed
<1>14. operationsTable' = IF x.id \notin ToSet(operationsTable[i]) /\ x.deps \subseteq ToSet(operationsTable[i])
                          THEN [operationsTable EXCEPT ![i] = Append(@, x.id)]
                          ELSE operationsTable
  BY <1>2, <1>3, <1>13 DEF execute
<1>15. Stock(accepted)' = Stock(accepted) \cup {x}
  BY <1>9
<1> HIDE DEF x
<1>16. PICK y \in Abstract!Update : y = x
  BY <1>10
<1>17. Abstract!Accept(i, y)
  <2>1. /\ y.id \notin {v.id : v \in Stock(accepted)}
        /\ y.deps \subseteq {v.id : v \in Stock(accepted)}
    BY <1>12, <1>16
  <2>2. Stock(accepted)' = Stock(accepted) \cup {y}
    BY <1>15, <1>16
  <2>3. operationsTable' = IF y.id \notin ToSet(operationsTable[i]) /\ y.deps \subseteq ToSet(operationsTable[i])
                           THEN [operationsTable EXCEPT ![i] = Append(@, y.id)]
                           ELSE operationsTable
    BY <1>14, <1>16
  <2> QED BY <2>1, <2>2, <2>3, StoreSteps
<1> QED BY <1>17

\* In such behaviours the replica managers execute updates as the causal store does: at
\* most once, and never before what they depend on.
THEOREM CausalStoreImplemented ==
  ASSUME PlainRequests
  PROVE  SerialSpec /\ []SortedByDependency => ImplementsCausalStore
<1>1. InitAlive => Abstract!StoreInit
  BY DEF InitAlive, Init, Abstract!StoreInit
<1>2. SerialInv /\ [Next /\ Serial]_vars => [Abstract!StoreNext]_(Abstract!store)
  <2> SUFFICES ASSUME SerialInv, [Next /\ Serial]_vars
               PROVE  Abstract!StoreNext \/ UNCHANGED Abstract!store
    OBVIOUS
  <2>1. ASSUME UNCHANGED <<accepted, operationsTable>> PROVE UNCHANGED Abstract!store
    BY <2>1 DEF Abstract!store
  <2>2. CASE UNCHANGED vars
    BY <2>1, <2>2 DEF vars, value, ghost
  <2>3. CASE Next /\ Serial
    <3>1. ASSUME NEW i \in Replicas, HandlerStep(i) PROVE Abstract!StoreNext \/ UNCHANGED Abstract!store
      <4>1. CASE ExecuteRecord(i)
        <5>1. CASE UNCHANGED <<Stock(accepted), operationsTable>>
          BY <5>1 DEF Abstract!store, Stock, Dependencies
        <5>2. ASSUME NEW x \in Stock(accepted), Abstract!Execute(i, x) PROVE Abstract!StoreNext
          BY <5>2 DEF Abstract!StoreNext, Stock, Dependencies
        <5> QED BY <4>1, <5>1, <5>2, ExecuteImplements
      <4>2. CASE ~ ExecuteRecord(i)
        <5>1. UNCHANGED <<accepted, operationsTable>>
          BY <3>1, <4>2 DEF HandlerStep, ReceiveGossip, TakeRecord, MergeTimestamp, SortLog, StartExecution,
             StartCleanup, RemoveRecord, FinishGossip, value, ghost
        <5> QED BY <2>1, <5>1
      <4> QED BY <4>1, <4>2
    <3>2. ASSUME NEW i \in Replicas, ThreadStep(i) \/ FailGossip(i) PROVE UNCHANGED Abstract!store
      BY <2>1, <3>2, ThreadsElsewhere DEF SerialInv, IInv, value
    <3>3. ASSUME NEW i \in Replicas, ClientStep(i) PROVE Abstract!StoreNext
      <4>1. PICK u \in Updates, prev \in known : MaySend(i, u) /\ (Add(i, u, prev) \/ AddAgain(i, u, prev))
        BY <3>3 DEF ClientStep
      <4>2. ~ AddAgain(i, u, prev)
        BY <4>1, NotAgain DEF AddAgain, SerialInv
      <4>3. PICK x \in Abstract!Update : Abstract!Accept(i, x)
        BY <2>3, <4>1, <4>2, AddImplements
      <4> QED BY <4>3 DEF Abstract!StoreNext
    <3> QED BY <2>3, <3>1, <3>2, <3>3 DEF Next
  <2> QED BY <2>2, <2>3
<1> QED BY <1>1, <1>2, SerialInvariance, PTL DEF SerialSpec, ImplementsCausalStore, Abstract!StoreSpec
===============================================================================
