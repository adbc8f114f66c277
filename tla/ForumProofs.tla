------------------------------ MODULE ForumProofs ------------------------------
(***************************************************************************)
(* However many clients upload at the same time: answers are numbered      *)
(* without gaps up to the limit, what was accepted before a client         *)
(* connected is safe from it, and a download brings it; and the replies to *)
(* datagrams are true.                                                     *)
(*                                                                         *)
(* The directory a handler has chosen is at most one past the answers that *)
(* are there, now and later, since directories only come to be.  If it is  *)
(* created, it is therefore the next one; if it is there by then, it was   *)
(* created by a handler that chose it at the same time.                    *)
(*                                                                         *)
(* A user that has sent one datagram has it on its way, in the server's    *)
(* hands or answered, and never two of these.  An upload that shares its   *)
(* directory with no other is alone in writing there, so that a download   *)
(* finds both files whole when it comes to its number.  A handler that has *)
(* no descriptor left never gets one again, and brings nothing after that. *)
(***************************************************************************)
EXTENDS Forum, FiniteSetTheorems, TLAPS

Creating == {"open", "mkdir"}
Writing == {"openUser", "closeUser", "openData", "receive"}

Shape ==
  /\ request \in [Calls -> Requests]
  /\ DOMAIN tree \subseteq Places /\ IsFiniteSet(DOMAIN tree)
  /\ IsFiniteSet(DOMAIN owner) /\ Cardinality(DOMAIN owner) <= MaxTopics
  /\ place \in [Calls -> Places \cup {Nowhere}]
  /\ pc = [c \in Calls |-> pc[c]] /\ reply = [c \in Calls |-> reply[c]]
  /\ before \in [Calls -> SUBSET Calls]

\* Every directory's number is within the limit.
Bounded == \A p \in DOMAIN tree : p.answer <= MaxAnswers

\* The directory that a handler has chosen is there or would be the next.
Following(p) == Cardinality(AnswersTo(p.topic, p.question)) + 1
Chosen ==
  \A c \in Calls : place[c] # Nowhere =>
    place[c] \in Places /\ place[c].answer <= MaxAnswers /\ place[c].answer <= Following(place[c])

\* A handler that writes has its directory, and one that was answered OK had it.
Holding ==
  \A c \in Calls :
    /\ pc[c] \in Creating => place[c] # Nowhere
    /\ pc[c] \in Writing \/ reply[c] = "OK" => place[c] \in DOMAIN tree
    /\ reply[c] # "none" => pc[c] = "ended"
    /\ pc[c] = "out" => place[c] = Nowhere
    /\ \A g \in before[c] : reply[g] = "OK"

IInv == Shape /\ NumberedWithoutGaps /\ Bounded /\ Chosen /\ Holding /\ EarlierIsSafe

(***************************************************************************)
(* Directories.                                                            *)
(***************************************************************************)
\* The answers to one question are told apart by their numbers.
LEMMA AnswersBounded ==
  ASSUME Shape, Bounded, NEW t, NEW q
  PROVE  /\ IsFiniteSet(AnswersTo(t, q))
         /\ Cardinality(AnswersTo(t, q)) \in Nat
         /\ Cardinality(AnswersTo(t, q)) <= MaxAnswers
<1> DEFINE A == AnswersTo(t, q)
           number == [p \in A |-> p.answer]
<1>1. IsFiniteSet(A)
  BY FS_Subset DEF Shape, AnswersTo, AnswersIn
<1>2. MaxAnswers \in Nat \ {0}
  BY LimitsAssumption
<1>3. number \in [A -> 1..MaxAnswers]
  BY <1>2 DEF Shape, Bounded, AnswersTo, AnswersIn, Places
<1>4. \A p, r \in A : p.answer = r.answer => p = r
  BY DEF Shape, AnswersTo, AnswersIn, Places
<1>5. number \in Injection(A, 1..MaxAnswers)
  BY <1>3, <1>4 DEF Injection, IsInjective
<1>6. IsFiniteSet(1..MaxAnswers) /\ Cardinality(1..MaxAnswers) = MaxAnswers
  BY <1>2, FS_Interval
<1>7. Cardinality(A) <= MaxAnswers
  BY <1>5, <1>6, FS_Injection
<1> QED BY <1>1, <1>7, FS_CardinalityType

LEMMA Limited == ASSUME IInv PROVE LimitsKept
  BY AnswersBounded DEF IInv, Shape, LimitsKept

\* A step that leaves the directories and the choices as they are.
LEMMA Still ==
  ASSUME IInv,
         request' = request, place' = place, before' = before,
         DOMAIN tree' = DOMAIN tree, DOMAIN owner' = DOMAIN owner,
         pc' = [c \in Calls |-> pc'[c]], reply' = [c \in Calls |-> reply'[c]],
         \A c \in Calls :
           /\ pc'[c] = "out" => pc[c] = "out"
           /\ pc'[c] \in Creating => pc[c] \in Creating
           /\ pc'[c] \in Writing => pc[c] \in Writing \/ place[c] \in DOMAIN tree
           /\ reply'[c] # "none" => pc'[c] = "ended"
           /\ reply'[c] = "OK" => pc[c] \in Writing \/ reply[c] = "OK"
           /\ reply[c] = "OK" => reply'[c] = "OK"
  PROVE  IInv'
<1>1. \A t, q : AnswersTo(t, q)' = AnswersTo(t, q)
  BY DEF AnswersTo, AnswersIn
<1>2. Shape'
  BY DEF IInv, Shape
<1>3. NumberedWithoutGaps' /\ Bounded'
  BY <1>1 DEF IInv, NumberedWithoutGaps, Bounded
<1>4. Chosen'
  BY <1>1 DEF IInv, Chosen, Following
<1>5. Holding'
  BY DEF IInv, Shape, Holding
<1>6. EarlierIsSafe'
  BY DEF IInv, EarlierIsSafe
<1> QED BY <1>2, <1>3, <1>4, <1>5, <1>6 DEF IInv

(***************************************************************************)
(* The steps that change directories, choices or histories.                *)
(***************************************************************************)
\* A directory is made where none was: it is the next one.
LEMMA DirectoryMade ==
  ASSUME IInv, NEW c \in Calls, MakeDirectory(c)
  PROVE  IInv'
<1> DEFINE p == place[c]
           A(t, q) == AnswersTo(t, q)
<1> USE DEF IInv
<1>1. /\ p \in Places /\ p.answer <= MaxAnswers /\ p.answer <= Following(p)
      /\ p \notin DOMAIN tree /\ DOMAIN tree' = DOMAIN tree \cup {p}
      /\ pc[c] = "mkdir" /\ pc' = [pc EXCEPT ![c] = "openUser"]
      /\ UNCHANGED <<owner, request, place, reply, before>>
  BY DEF MakeDirectory, Goto, mkdir, Exists, Chosen, Holding, Creating, upload
<1>2. Shape'
  <2>1. IsFiniteSet(DOMAIN tree \cup {p})
    BY FS_AddElement DEF Shape
  <2> QED BY <1>1, <2>1 DEF Shape
<1>3. \A t, q : /\ IsFiniteSet(A(t, q)) /\ Cardinality(A(t, q)) \in Nat
                /\ IsFiniteSet(A(t, q)') /\ Cardinality(A(t, q)') \in Nat
                /\ Cardinality(A(t, q)) <= Cardinality(A(t, q)')
  <2> TAKE t, q
  <2>1. A(t, q) \subseteq A(t, q)'
    BY <1>1 DEF AnswersTo, AnswersIn
  <2>2. IsFiniteSet(A(t, q)')
    BY <1>2, FS_Subset DEF Shape, AnswersTo, AnswersIn
  <2> QED BY <2>1, <2>2, FS_Subset, FS_CardinalityType
<1>4. p.answer # 0 => Cardinality(A(p.topic, p.question)') = Following(p)
  <2>1. p.answer # 0 =>
          /\ A(p.topic, p.question)' = A(p.topic, p.question) \cup {p}
          /\ p \notin A(p.topic, p.question)
    BY <1>1 DEF AnswersTo, AnswersIn
  <2> QED BY <1>3, <2>1, FS_AddElement DEF Following
<1>5. NumberedWithoutGaps'
  <2> SUFFICES ASSUME NEW t \in Topics, NEW q \in Questions, NEW r \in A(t, q)'
               PROVE  r.answer <= Cardinality(A(t, q)')
    BY DEF NumberedWithoutGaps
  <2>1. CASE r = p
    BY <1>1, <1>4, <2>1 DEF AnswersTo, AnswersIn
  <2>2. CASE r # p
    <3>1. r \in A(t, q) /\ r.answer \in Nat
      BY <1>1, <2>2 DEF AnswersTo, AnswersIn, Shape, Places
    <3>2. r.answer <= Cardinality(A(t, q))
      BY <3>1 DEF NumberedWithoutGaps
    <3> QED BY <1>3, <3>1, <3>2
  <2> QED BY <2>1, <2>2
<1>6. Bounded'
  BY <1>1 DEF Bounded
<1>7. Chosen'
  <2> SUFFICES ASSUME NEW d \in Calls, place[d] # Nowhere
               PROVE  /\ place[d] \in Places /\ place[d].answer <= MaxAnswers
                      /\ place[d].answer <= Following(place[d])'
    BY <1>1 DEF Chosen, Following
  <2>1. /\ place[d] \in Places /\ place[d].answer \in Nat
        /\ place[d].answer <= MaxAnswers /\ place[d].answer <= Following(place[d])
    BY DEF Chosen, Places
  <2>2. Following(place[d]) <= Following(place[d])' /\ Following(place[d]) \in Nat /\ Following(place[d])' \in Nat
    BY <1>1, <1>3 DEF Following
  <2> QED BY <2>1, <2>2
<1>8. Holding'
  BY <1>1 DEF Holding, Shape, Creating, Writing
<1>9. EarlierIsSafe'
  BY <1>1 DEF EarlierIsSafe
<1> QED BY <1>2, <1>5, <1>6, <1>7, <1>8, <1>9

\* A number is chosen: past every answer that is there.
LEMMA AnswerChosen ==
  ASSUME IInv, NEW c \in Calls, CountAnswers(c)
  PROVE  IInv'
<1> DEFINE p == [Subject(c) EXCEPT !.answer = NextAnswer(c)]
           A == AnswersOf(c)
<1> USE DEF IInv
<1>1. /\ c \in Commands({"ANS"}) /\ pc[c] = "count" /\ Cardinality(A) # MaxAnswers
      /\ pc' = [pc EXCEPT ![c] = "open"] /\ place' = [place EXCEPT ![c] = p]
      /\ UNCHANGED <<owner, tree, request, reply, before>>
  BY DEF CountAnswers, Goto, Full, Commands, store
<1>2. /\ Cardinality(A) \in Nat /\ Cardinality(A) <= MaxAnswers /\ MaxAnswers \in Nat
  BY AnswersBounded, LimitsAssumption DEF AnswersOf
<1>3. /\ p \in Places /\ p.topic = request[c].topic /\ p.question = request[c].question
      /\ p.answer = Cardinality(A) + 1
  BY <1>2 DEF Subject, NextAnswer, Shape, Requests, Places
<1>4. p \notin DOMAIN tree
  <2> HIDE DEF p
  <2>1. \A r \in A : r.answer <= Cardinality(A)
    BY DEF NumberedWithoutGaps, AnswersOf, Shape, Requests
  <2>2. p \in DOMAIN tree => p \in A
    BY <1>2, <1>3 DEF AnswersOf, AnswersTo, AnswersIn
  <2> QED BY <1>2, <1>3, <2>1, <2>2
<1>5. Following(p) = p.answer
  BY <1>3 DEF Following, AnswersOf
<1>6. \A t, q : AnswersTo(t, q)' = AnswersTo(t, q)
  BY <1>1 DEF AnswersTo, AnswersIn
<1>7. Shape'
  BY <1>1, <1>3 DEF Shape
<1>8. NumberedWithoutGaps' /\ Bounded'
  BY <1>1, <1>6 DEF NumberedWithoutGaps, Bounded
<1>9. Chosen'
  <2> SUFFICES ASSUME NEW d \in Calls, place'[d] # Nowhere
               PROVE  /\ place'[d] \in Places /\ place'[d].answer <= MaxAnswers
                      /\ place'[d].answer <= Cardinality(AnswersTo(place'[d].topic, place'[d].question)) + 1
    BY <1>6 DEF Chosen, Following
  <2>1. CASE d = c
    <3>1. place'[d] = p
      BY <1>1, <2>1 DEF Shape
    <3> HIDE DEF p
    <3> QED BY <1>1, <1>2, <1>3, <1>5, <3>1 DEF Following
  <2>2. CASE d # c
    <3>1. place'[d] = place[d]
      BY <1>1, <2>2 DEF Shape
    <3> HIDE DEF p
    <3> QED BY <3>1 DEF Chosen, Following
  <2> QED BY <2>1, <2>2
<1>10. Holding'
  <2>1. p # Nowhere
    BY <1>2, <1>3 DEF Nowhere
  <2> HIDE DEF p
  <2> QED BY <1>1, <2>1 DEF Holding, Shape, Creating, Writing
<1>11. EarlierIsSafe'
  <2> HIDE DEF p
  <2> QED BY <1>1, <1>4 DEF EarlierIsSafe, Holding, Shape
<1> QED BY <1>7, <1>8, <1>9, <1>10, <1>11

\* A question is chosen that is not there.
LEMMA QuestionChosen ==
  ASSUME IInv, NEW c \in Calls, CheckNew(c)
  PROVE  IInv'
<1> DEFINE p == Subject(c)
<1> USE DEF IInv
<1>1. /\ pc[c] = "check" /\ p \notin DOMAIN tree
      /\ pc' = [pc EXCEPT ![c] = "open"] /\ place' = [place EXCEPT ![c] = p]
      /\ UNCHANGED <<owner, tree, request, reply, before>>
  BY DEF CheckNew, Goto, Exists, store
<1>2. p \in Places /\ p.answer = 0 /\ p.topic # Nobody
  BY NobodyAssumption DEF Subject, Shape, Requests, Places
<1>3. \A t, q : AnswersTo(t, q)' = AnswersTo(t, q) /\ Cardinality(AnswersTo(t, q)) \in Nat
  <2>1. \A t, q : AnswersTo(t, q)' = AnswersTo(t, q)
    BY <1>1 DEF AnswersTo, AnswersIn
  <2>2. \A t, q : Cardinality(AnswersTo(t, q)) \in Nat
    BY AnswersBounded
  <2> QED BY <2>1, <2>2
<1>4. Shape'
  BY <1>1, <1>2 DEF Shape
<1>5. NumberedWithoutGaps' /\ Bounded'
  BY <1>1, <1>3 DEF NumberedWithoutGaps, Bounded
<1>6. Chosen'
  <2> SUFFICES ASSUME NEW d \in Calls, place'[d] # Nowhere
               PROVE  /\ place'[d] \in Places /\ place'[d].answer <= MaxAnswers
                      /\ place'[d].answer <= Cardinality(AnswersTo(place'[d].topic, place'[d].question)) + 1
    BY <1>3 DEF Chosen, Following
  <2>1. CASE d = c
    <3>1. place'[d] = p
      BY <1>1, <2>1 DEF Shape
    <3> HIDE DEF p
    <3> QED BY <1>2, <1>3, <3>1, LimitsAssumption
  <2>2. CASE d # c
    <3>1. place'[d] = place[d]
      BY <1>1, <2>2 DEF Shape
    <3> HIDE DEF p
    <3> QED BY <3>1 DEF Chosen, Following
  <2> QED BY <2>1, <2>2
<1>7. Holding'
  <2>1. p # Nowhere
    BY <1>2 DEF Nowhere
  <2> HIDE DEF p
  <2> QED BY <1>1, <2>1 DEF Holding, Shape, Creating, Writing
<1>8. EarlierIsSafe'
  <2> HIDE DEF p
  <2> QED BY <1>1 DEF EarlierIsSafe, Holding, Shape
<1> QED BY <1>4, <1>5, <1>6, <1>7, <1>8

\* A client connects: it has chosen nothing, and what was accepted is there.
LEMMA Connected ==
  ASSUME IInv, NEW c \in Calls, Accept(c)
  PROVE  IInv'
<1> USE DEF IInv
<1>1. /\ pc[c] = "out" /\ pc' = [pc EXCEPT ![c] = "look"]
      /\ before' = [before EXCEPT ![c] = Accepted]
      /\ UNCHANGED <<owner, tree, request, place, reply>>
  BY DEF Accept, Connects, store, upload
<1>2. Accepted \subseteq Calls /\ \A g \in Accepted : reply[g] = "OK"
  BY DEF Accepted, Commands
<1>3. \A t, q : AnswersTo(t, q)' = AnswersTo(t, q)
  BY <1>1 DEF AnswersTo, AnswersIn
<1>4. Shape'
  BY <1>1, <1>2 DEF Shape
<1>5. NumberedWithoutGaps' /\ Bounded' /\ Chosen'
  BY <1>1, <1>3 DEF NumberedWithoutGaps, Bounded, Chosen, Following
<1>6. Holding'
  BY <1>1, <1>2 DEF Holding, Shape, Creating, Writing
<1>7. EarlierIsSafe'
  BY <1>1 DEF EarlierIsSafe, Shape, Holding
<1> QED BY <1>4, <1>5, <1>6, <1>7

\* A topic is proposed: only while there are less than the limit.
LEMMA TopicProposed ==
  ASSUME IInv, Propose
  PROVE  IInv'
<1> USE DEF IInv
<1>1. /\ UNCHANGED <<tree, request, place, pc, reply, before>>
      /\ \/ owner' = owner
         \/ \E t : /\ DOMAIN owner' = DOMAIN owner \cup {t}
                   /\ Cardinality(DOMAIN owner) # MaxTopics
  BY DEF Propose, handler, upload
<1>2. IsFiniteSet(DOMAIN owner') /\ Cardinality(DOMAIN owner') <= MaxTopics
  <2>1. CASE owner' = owner
    BY <2>1 DEF Shape
  <2>2. ASSUME NEW t, DOMAIN owner' = DOMAIN owner \cup {t}, Cardinality(DOMAIN owner) # MaxTopics
        PROVE  IsFiniteSet(DOMAIN owner') /\ Cardinality(DOMAIN owner') <= MaxTopics
    <3>1. MaxTopics \in Nat /\ Cardinality(DOMAIN owner) \in Nat
      BY LimitsAssumption, FS_CardinalityType DEF Shape
    <3>2. /\ IsFiniteSet(DOMAIN owner \cup {t})
          /\ Cardinality(DOMAIN owner \cup {t}) =
               IF t \in DOMAIN owner THEN Cardinality(DOMAIN owner) ELSE Cardinality(DOMAIN owner) + 1
      BY FS_AddElement DEF Shape
    <3>3. Cardinality(DOMAIN owner) <= MaxTopics
      BY DEF Shape
    <3> QED BY <2>2, <3>1, <3>2, <3>3
  <2> QED BY <1>1, <2>1, <2>2
<1>3. \A t, q : AnswersTo(t, q)' = AnswersTo(t, q)
  BY <1>1 DEF AnswersTo, AnswersIn
<1> QED
  BY <1>1, <1>2, <1>3
  DEF Shape, NumberedWithoutGaps, Bounded, Chosen, Following, Holding, EarlierIsSafe

\* The other steps of a handler.
LEMMA Handled ==
  ASSUME IInv, NEW c \in Calls, handle(c)
  PROVE  IInv'
<1> USE DEF IInv, Goto, Answer, store, upload, transfer, Creating, Writing
<1> DEFINE Sound ==
      /\ request' = request /\ place' = place /\ before' = before
      /\ DOMAIN tree' = DOMAIN tree /\ DOMAIN owner' = DOMAIN owner
      /\ pc' = [d \in Calls |-> pc'[d]] /\ reply' = [d \in Calls |-> reply'[d]]
      /\ \A d \in Calls :
           /\ pc'[d] = "out" => pc[d] = "out"
           /\ pc'[d] \in Creating => pc[d] \in Creating
           /\ pc'[d] \in Writing => pc[d] \in Writing \/ place[d] \in DOMAIN tree
           /\ reply'[d] # "none" => pc'[d] = "ended"
           /\ reply'[d] = "OK" => pc[d] \in Writing \/ reply[d] = "OK"
           /\ reply[d] = "OK" => reply'[d] = "OK"
<1>0. Sound => IInv'
  BY Still
<1>1. CASE LookFound(c)
  <2>1. Sound
    BY <1>1 DEF LookFound, Shape, Holding
  <2> QED BY <1>0, <2>1
<1>2. CASE LookMissing(c)
  <2>1. Sound
    BY <1>2 DEF LookMissing, Shape, Holding
  <2> QED BY <1>0, <2>1
<1>3. CASE CountFull(c)
  <2>1. Sound
    BY <1>3 DEF CountFull, Shape, Holding
  <2> QED BY <1>0, <2>1
<1>4. CASE CountQuestions(c)
  <2>1. Sound
    BY <1>4 DEF CountQuestions, Shape, Holding
  <2> QED BY <1>0, <2>1
<1>5. CASE CheckDuplicate(c)
  <2>1. Sound
    BY <1>5 DEF CheckDuplicate, Shape, Holding
  <2> QED BY <1>0, <2>1
<1>6. CASE OpenDirectory(c)
  <2>1. Sound
    BY <1>6 DEF OpenDirectory, Shape, Holding, Exists
  <2> QED BY <1>0, <2>1
<1>7. CASE FailToMake(c)
  <2>1. Sound
    BY <1>7 DEF FailToMake, Shape, Holding
  <2> QED BY <1>0, <2>1
<1>8. CASE OpenUser(c)
  <2>1. Sound
    BY <1>8 DEF OpenUser, Shape, Holding, Write
  <2> QED BY <1>0, <2>1
<1>9. CASE CloseUser(c)
  <2>1. Sound
    BY <1>9 DEF CloseUser, Shape, Holding, Write
  <2> QED BY <1>0, <2>1
<1>10. CASE OpenData(c)
  <2>1. Sound
    BY <1>10 DEF OpenData, Shape, Holding, Write
  <2> QED BY <1>0, <2>1
<1>11. CASE CloseData(c)
  <2>1. Sound
    BY <1>11 DEF CloseData, Shape, Holding, Write
  <2> QED BY <1>0, <2>1
<1>12. CASE BreakOff(c)
  <2>1. Sound
    BY <1>12 DEF BreakOff, Shape, Holding, Write
  <2> QED BY <1>0, <2>1
<1>13. CASE SendUser(c)
  <2>1. Sound
    BY <1>13 DEF SendUser, Shape, Holding
  <2> QED BY <1>0, <2>1
<1>14. CASE SendSize(c)
  <2>1. Sound
    BY <1>14 DEF SendSize, Shape, Holding
  <2> QED BY <1>0, <2>1
<1>15. CASE SendData(c)
  <2>1. Sound
    BY <1>15 DEF SendData, Shape, Holding, NextItem
  <2> QED BY <1>0, <2>1
<1>16. CASE Skip(c)
  <2>1. Sound
    BY <1>16 DEF Skip, Shape, Holding, NextItem
  <2> QED BY <1>0, <2>1
<1>17. CASE CountToSend(c)
  <2>1. Sound
    BY <1>17 DEF CountToSend, Shape, Holding
  <2> QED BY <1>0, <2>1
<1>18. CASE FailToCount(c)
  <2>1. Sound
    BY <1>18 DEF FailToCount, Shape, Holding
  <2> QED BY <1>0, <2>1
<1>19. CASE CountAnswers(c)
  BY <1>19, AnswerChosen
<1>20. CASE CheckNew(c)
  BY <1>20, QuestionChosen
<1>21. CASE MakeDirectory(c)
  BY <1>21, DirectoryMade
<1> QED
  BY <1>1, <1>2, <1>3, <1>4, <1>5, <1>6, <1>7, <1>8, <1>9, <1>10, <1>11, <1>12, <1>13, <1>14, <1>15, <1>16, <1>17, <1>18, <1>19, <1>20, <1>21
  DEF handle

LEMMA InitInv == Init => IInv
<1> SUFFICES ASSUME Init PROVE IInv
  OBVIOUS
<1>1. PICK s \in Scenes : owner = s.owner /\ tree = s.tree /\ request = s.request
  BY DEF Init
<1>2. Shape
  BY <1>1, ScenesAssumption DEF Init, Shape
<1>3. NumberedWithoutGaps /\ Bounded
  <2>1. \A p \in DOMAIN tree :
          p.answer <= Cardinality(AnswersIn(tree, p.topic, p.question)) /\ p.answer <= MaxAnswers
    BY <1>1, ScenesAssumption
  <2>2. \A t, q : \A p \in AnswersIn(tree, t, q) :
          p \in DOMAIN tree /\ p.topic = t /\ p.question = q
    BY DEF AnswersIn
  <2> QED BY <2>1, <2>2 DEF NumberedWithoutGaps, Bounded, AnswersTo
<1>4. Chosen /\ Holding /\ EarlierIsSafe
  BY DEF Init, Chosen, Holding, EarlierIsSafe, Creating, Writing
<1> QED BY <1>2, <1>3, <1>4 DEF IInv

LEMMA NextInv == IInv /\ [Next]_vars => IInv'
<1> SUFFICES ASSUME IInv, [Next]_vars PROVE IInv'
  OBVIOUS
<1>0. ASSUME UNCHANGED <<store, handler>> PROVE IInv'
  BY <1>0, Still DEF IInv, Shape, Holding, store, handler, upload
<1>1. CASE \E c \in Calls : Accept(c)
  BY <1>1, Connected
<1>2. CASE \E c \in Calls : handle(c)
  BY <1>2, Handled
<1>3. CASE (\E c \in Calls : FailToAccept(c)) \/ Stop
  BY <1>0, <1>3 DEF FailToAccept, Stop
<1>4. CASE \E c \in Calls : FailToFork(c)
  <2>1. PICK c \in Calls :
          /\ pc[c] = "out" /\ pc' = [pc EXCEPT ![c] = "ended"]
          /\ UNCHANGED <<store, request, place, reply, before>>
    BY <1>4 DEF FailToFork, Connects, upload
  <2>2. \A d \in Calls : pc'[d] = pc[d] \/ (d = c /\ pc'[d] = "ended")
    BY <2>1 DEF IInv, Shape
  <2>3. pc' = [d \in Calls |-> pc'[d]] /\ reply' = [d \in Calls |-> reply'[d]]
    BY <2>1 DEF IInv, Shape
  <2>4. \A d \in Calls : reply'[d] # "none" => pc'[d] = "ended"
    BY <2>1, <2>2 DEF IInv, Holding
  <2> QED BY <2>1, <2>2, <2>3, <2>4, Still DEF Creating, Writing, store
<1>5. CASE handleUDP
  <2>1. CASE Propose
    BY <2>1, TopicProposed
  <2>2. CASE ~ Propose
    BY <1>0, <1>5, <2>2
    DEF handleUDP, Register, ListTopics, ListQuestions, ListQuestion, CrashListing, FinishListing
  <2> QED BY <2>1, <2>2
<1>6. CASE \E u \in Users : Ask(u) \/ sendWithReplyUDP(u)
  BY <1>0, <1>6 DEF Ask, sendWithReplyUDP, TakeReply, Miss, TryAgain, GiveUp
<1>7. CASE UNCHANGED vars
  BY <1>0, <1>7 DEF vars
<1> QED BY <1>1, <1>2, <1>3, <1>4, <1>5, <1>6, <1>7 DEF Next

LEMMA Invariant == Spec => []IInv
  BY InitInv, NextInv, PTL DEF Spec

\* handleGqu counts the answers and sends those from 1 to the count: they are all
\* there, however many handlers of ANS take the same number.
THEOREM AnswersHaveNoGaps == Spec => []NumberedWithoutGaps
<1>1. IInv => NumberedWithoutGaps
  BY DEF IInv
<1> QED BY <1>1, Invariant, PTL

\* handleAns tests for 99 answers before it creates one more, and still there are
\* never more; handlePtp does the same for topics.
THEOREM LimitsAreKept == Spec => []LimitsKept
<1>1. IInv => LimitsKept
  BY Limited
<1> QED BY <1>1, Invariant, PTL

\* Handlers may share a directory, but only those of clients that were connected
\* at the same time: what was accepted before stays.
THEOREM EarlierUploadsAreSafe == Spec => []EarlierIsSafe
<1>1. IInv => EarlierIsSafe
  BY DEF IInv
<1> QED BY <1>1, Invariant, PTL

(***************************************************************************)
(* Datagrams.                                                              *)
(***************************************************************************)
\* What reply r to the question says is true of the topics.
True(u, asked, r) ==
  /\ r.command = asked.command
  /\ r.command = "PTP" /\ r.code = "OK" => asked.topic \in DOMAIN owner /\ owner[asked.topic] = u
  /\ r.command = "PTP" /\ r.code = "DUP" => asked.topic \in DOMAIN owner
  /\ r.command = "PTP" /\ r.code = "FUL" => Cardinality(DOMAIN owner) = MaxTopics
  /\ r.command = "LTP" => \A x \in r.list : x[1] \in DOMAIN owner /\ owner[x[1]] = x[2]

Sent == [from : Users, command : {"REG", "LTP", "PTP", "LQU"}, topic : Topics]
Posted ==
  /\ mail \in Seq(Sent) /\ todo \in [Users -> Seq(Datagrams)]
  /\ inbox = [u \in Users |-> inbox[u]] /\ at_user = [u \in Users |-> at_user[u]]
  /\ told = [u \in Users |-> told[u]] /\ late = [u \in Users |-> late[u]]
  /\ \A u \in Users : at_user[u] \in {"first", "second"} => todo[u] # <<>>

\* Where the datagram of a user is: on its way, with the server, or answered.
Under(u) == {i \in 1..Len(mail) : mail[i].from = u}
Serving(u) == main = "listing" /\ listing.to = u

\* A user that has asked once is in one of the three places, and the question is
\* the one it waits for.
Once(u) ==
  /\ \A i, j \in Under(u) : i = j
  /\ Under(u) # {} => ~ Serving(u) /\ inbox[u] = <<>>
  /\ Serving(u) => inbox[u] = <<>> /\ Head(todo[u]).command = "LQU"
  /\ \A i \in Under(u) :
       mail[i].command = Head(todo[u]).command /\ mail[i].topic = Head(todo[u]).topic
  /\ inbox[u] # <<>> => \E r : inbox[u] = <<r>> /\ True(u, Head(todo[u]), r)
  /\ at_user[u] = "idle" => Under(u) = {} /\ ~ Serving(u) /\ inbox[u] = <<>>

Honest == \A u \in Users : ~ late[u] => Once(u)

UInv == Posted /\ Honest /\ ToldTrue

\* Topics only come to be, and none comes when there is no room.
Grows ==
  /\ DOMAIN owner \subseteq DOMAIN owner'
  /\ \A t \in DOMAIN owner : owner'[t] = owner[t]
  /\ Cardinality(DOMAIN owner) = MaxTopics => owner' = owner

LEMMA TrueStays ==
  ASSUME Grows, NEW u, NEW asked, NEW r, True(u, asked, r)
  PROVE  True(u, asked, r)'
BY DEF Grows, True

LEMMA ToldStays ==
  ASSUME UInv, Grows, told' = told, late' = late
  PROVE  ToldTrue'
<1> SUFFICES ASSUME NEW u \in Users, told[u] # <<>>, ~ late[u]
             PROVE  True(u, told[u][1], told[u][2])'
  BY DEF ToldTrue, True
<1>1. True(u, told[u][1], told[u][2])
  BY DEF UInv, ToldTrue, True
<1> QED BY <1>1, TrueStays

\* A step that neither takes nor sends a datagram.
LEMMA Silent ==
  ASSUME UInv, UNCHANGED <<owner, listing, mail, inbox, at_user, todo, told, late>>,
         main' = "listing" <=> main = "listing"
  PROVE  UInv'
<1>1. Posted'
  BY DEF UInv, Posted
<1>2. Grows
  BY DEF Grows
<1>3. Honest'
  BY DEF UInv, Honest, Once, Under, Serving, True
<1> QED BY <1>1, <1>2, <1>3, ToldStays DEF UInv

\* A reply goes to user v, or is lost; the mail moves up by k.
LEMMA Replied ==
  ASSUME UInv, NEW v \in Users, NEW r, NEW k \in {0, 1}, Grows,
         UNCHANGED <<at_user, todo, told, late>>, mail' \in Seq(Sent),
         inbox' = [inbox EXCEPT ![v] = Append(@, r)] \/ inbox' = inbox,
         \A u \in Users : Serving(u)' => Serving(u) /\ u # v,
         \A u \in Users : \A i \in Under(u)' : i + k \in Under(u) /\ mail'[i] = mail[i + k],
         ~ late[v] => /\ at_user[v] # "idle" /\ inbox[v] = <<>>
                      /\ Under(v)' = {} /\ True(v, Head(todo[v]), r)'
  PROVE  UInv'
<1>1. Posted'
  BY DEF UInv, Posted
<1>2. ASSUME NEW u \in Users, ~ late[u] PROVE Once(u)'
  <2>1. Once(u)
    BY <1>2 DEF UInv, Honest
  <2>2. Under(u)' \subseteq Nat
    BY DEF Under
  <2>3. \A i, j \in Under(u)' : i = j
    BY <2>1, <2>2 DEF Once
  <2>4. Under(u)' # {} => Under(u) # {}
    OBVIOUS
  <2>5. CASE u = v
    <3>1. inbox'[v] = <<r>> \/ inbox'[v] = <<>>
      BY <1>2, <2>5 DEF UInv, Posted
    <3> QED BY <1>2, <2>5, <3>1 DEF Once
  <2>6. CASE u # v
    <3>1. inbox'[u] = inbox[u]
      BY <2>6 DEF UInv, Posted
    <3>2. \A a : inbox[u] = <<a>> /\ True(u, Head(todo[u]), a) => True(u, Head(todo[u]), a)'
      BY TrueStays
    <3>3. inbox'[u] # <<>> => \E a : inbox'[u] = <<a>> /\ True(u, Head(todo[u]), a)'
      BY <2>1, <3>1, <3>2 DEF Once
    <3>4. \A i \in Under(u)' :
            mail'[i].command = Head(todo[u]).command /\ mail'[i].topic = Head(todo[u]).topic
      BY <2>1 DEF Once
    <3>5. Serving(u)' => Serving(u)
      OBVIOUS
    <3> QED BY <2>1, <2>3, <2>4, <3>1, <3>3, <3>4, <3>5 DEF Once
  <2> QED BY <2>5, <2>6
<1>3. Honest'
  BY <1>2 DEF Honest
<1> QED BY <1>1, <1>3, ToldStays DEF UInv

\* The server takes the first datagram: there is no other of that user, unless it
\* asked twice.
LEMMA Taken ==
  ASSUME UInv, mail # <<>>, mail' = Tail(mail), NEW v, v = Head(mail).from
  PROVE  /\ v \in Users /\ Head(mail) = mail[1] /\ 1 \in Under(v) /\ mail' \in Seq(Sent)
         /\ \A u \in Users : \A i \in Under(u)' : i + 1 \in Under(u) /\ mail'[i] = mail[i + 1]
         /\ ~ late[v] => /\ at_user[v] # "idle" /\ inbox[v] = <<>>
                         /\ Under(v)' = {} /\ ~ Serving(v)
                         /\ Head(mail).command = Head(todo[v]).command
                         /\ Head(mail).topic = Head(todo[v]).topic
<1>1. mail \in Seq(Sent)
  BY DEF UInv, Posted
<1>2. /\ v \in Users /\ Head(mail) = mail[1] /\ Len(mail) >= 1 /\ Len(mail) \in Nat
      /\ mail' \in Seq(Sent) /\ Len(mail') = Len(mail) - 1
      /\ \A i \in 1..Len(mail') : mail'[i] = mail[i + 1]
  <2>1. Len(mail) \in Nat /\ Len(mail) >= 1 /\ Head(mail) = mail[1] /\ mail[1] \in Sent
    BY <1>1
  <2>2. mail' \in Seq(Sent) /\ Len(mail') = Len(mail) - 1
    BY <1>1
  <2>3. \A i \in 1..Len(mail') : mail'[i] = mail[i + 1]
    BY <1>1
  <2> QED BY <2>1, <2>2, <2>3 DEF Sent
<1>3. 1 \in Under(v)
  BY <1>2 DEF Under
<1>4. \A u \in Users : \A i \in Under(u)' : i + 1 \in Under(u) /\ mail'[i] = mail[i + 1]
  BY <1>2 DEF Under
<1>5. ASSUME ~ late[v]
      PROVE  /\ at_user[v] # "idle" /\ inbox[v] = <<>> /\ Under(v)' = {} /\ ~ Serving(v)
             /\ Head(mail).command = Head(todo[v]).command
             /\ Head(mail).topic = Head(todo[v]).topic
  <2>1. Once(v)
    BY <1>2, <1>5 DEF UInv, Honest
  <2>2. \A i \in Under(v)' : i \in Nat \ {0} /\ i + 1 = 1
    <3>1. \A i \in Under(v)' : i \in Nat \ {0}
      BY <1>2 DEF Under
    <3>2. \A i \in Under(v)' : i + 1 = 1
      <4>1. \A i, j \in Under(v) : i = j
        BY <2>1 DEF Once
      <4>2. \A i \in Under(v)' : i + 1 \in Under(v)
        BY <1>2, <1>4
      <4> QED BY <1>3, <4>1, <4>2, Zenon
    <3> QED BY <3>1, <3>2
  <2>3. Under(v)' = {}
    <3>1. \A i \in Nat \ {0} : i + 1 # 1
      OBVIOUS
    <3> QED BY <2>2, <3>1
  <2>4. at_user[v] # "idle" /\ inbox[v] = <<>> /\ ~ Serving(v)
    BY <1>3, <2>1 DEF Once
  <2>5. Head(mail).command = Head(todo[v]).command /\ Head(mail).topic = Head(todo[v]).topic
    BY <1>2, <1>3, <2>1 DEF Once
  <2> QED BY <2>3, <2>4, <2>5
<1> QED BY <1>2, <1>3, <1>4, <1>5

\* What a user asks is on its way: it has asked nothing before.
LEMMA Asked ==
  ASSUME UInv, NEW u \in Users, Ask(u)
  PROVE  UInv'
<1> DEFINE m == [from |-> u, command |-> Head(todo[u]).command, topic |-> Head(todo[u]).topic]
<1>1. /\ at_user[u] = "idle" /\ todo[u] # <<>>
      /\ at_user' = [at_user EXCEPT ![u] = "first"]
      /\ mail' = Append(mail, m) \/ mail' = mail
      /\ UNCHANGED <<owner, main, listing, inbox, todo, told, late>>
  BY DEF Ask, Wait, Post, store, server
<1>2. mail \in Seq(Sent) /\ Len(mail) \in Nat
  BY DEF UInv, Posted
<1>3. Head(todo[u]) \in Datagrams
  BY <1>1 DEF UInv, Posted
<1>4. m \in Sent
  BY <1>3 DEF Sent, Datagrams
<1>5. /\ mail' \in Seq(Sent)
      /\ \A i \in 1..Len(mail) : mail'[i] = mail[i]
      /\ \/ Len(mail') = Len(mail)
         \/ Len(mail') = Len(mail) + 1 /\ mail'[Len(mail) + 1] = m
  <2> HIDE DEF m
  <2> QED BY <1>1, <1>2, <1>4
<1>6. Posted'
  BY <1>1, <1>5 DEF UInv, Posted
<1>7. ASSUME NEW w \in Users, w # u PROVE Under(w)' = Under(w) /\ \A i \in Under(w) : mail'[i] = mail[i]
  BY <1>2, <1>5, <1>7 DEF Under
<1>8. ASSUME Under(u) = {}
      PROVE  \A i \in Under(u)' : i = Len(mail) + 1 /\ mail'[i] = m
  BY <1>2, <1>5, <1>8 DEF Under
<1>9. ASSUME NEW w \in Users, ~ late[w] PROVE Once(w)'
  <2>1. Once(w)
    BY <1>9 DEF UInv, Honest
  <2>2. CASE w = u
    <3>1. Under(u) = {} /\ ~ Serving(u) /\ inbox[u] = <<>>
      BY <1>1, <2>1, <2>2 DEF Once
    <3>2. \A i \in Under(u)' :
            /\ i = Len(mail) + 1
            /\ mail'[i].command = Head(todo[u]).command /\ mail'[i].topic = Head(todo[u]).topic
      BY <1>8, <3>1
    <3>3. at_user'[u] # "idle" /\ ~ Serving(u)' /\ inbox'[u] = <<>> /\ todo' = todo
      BY <1>1, <3>1 DEF UInv, Posted, Serving
    <3> QED BY <2>2, <3>2, <3>3 DEF Once
  <2>3. CASE w # u
    <3>1. at_user'[w] = at_user[w]
      BY <1>1, <2>3 DEF UInv, Posted
    <3>2. \A r : True(w, Head(todo[w]), r)' = True(w, Head(todo[w]), r)
      BY <1>1 DEF True
    <3>3. Serving(w)' = Serving(w)
      BY <1>1 DEF Serving
    <3> HIDE DEF m
    <3> QED BY <1>1, <1>7, <2>1, <2>3, <3>1, <3>2, <3>3 DEF Once
  <2> QED BY <2>2, <2>3
<1>10. Honest'
  BY <1>1, <1>9 DEF Honest
<1>11. Grows
  BY <1>1 DEF Grows
<1> QED BY <1>1, <1>6, <1>10, <1>11, ToldStays DEF UInv

\* The reply that is there is the one to what was asked.
LEMMA ReplyTaken ==
  ASSUME UInv, NEW u \in Users, TakeReply(u)
  PROVE  UInv'
<1>1. /\ inbox[u] # <<>> /\ at_user' = [at_user EXCEPT ![u] = "idle"]
      /\ at_user[u] \in {"first", "second"}
      /\ inbox' = [inbox EXCEPT ![u] = Tail(@)]
      /\ told' = [told EXCEPT ![u] = <<Head(todo[u]), Head(inbox[u])>>]
      /\ todo' = [todo EXCEPT ![u] = Tail(@)]
      /\ UNCHANGED <<owner, main, listing, mail, late>>
  BY DEF TakeReply, Wait, store, server
<1>2. ASSUME ~ late[u]
      PROVE  /\ Once(u) /\ Under(u) = {} /\ ~ Serving(u) /\ Tail(inbox[u]) = <<>>
             /\ True(u, Head(todo[u]), Head(inbox[u]))
  <2>1. Once(u)
    BY <1>2 DEF UInv, Honest
  <2>2. PICK r : inbox[u] = <<r>> /\ True(u, Head(todo[u]), r)
    BY <1>1, <2>1 DEF Once
  <2>3. Head(inbox[u]) = r /\ Tail(inbox[u]) = <<>>
    BY <2>2
  <2> QED BY <1>1, <2>1, <2>2, <2>3 DEF Once
<1>3. Posted'
  <2>1. todo' \in [Users -> Seq(Datagrams)]
    <3>1. todo \in [Users -> Seq(Datagrams)] /\ todo[u] # <<>>
      BY <1>1 DEF UInv, Posted
    <3>2. Tail(todo[u]) \in Seq(Datagrams)
      BY <3>1
    <3> QED BY <1>1, <3>1, <3>2
  <2>2. \A w \in Users : at_user'[w] \in {"first", "second"} => at_user[w] = at_user'[w] /\ todo'[w] = todo[w]
    BY <1>1 DEF UInv, Posted
  <2>3. inbox' = [w \in Users |-> inbox'[w]] /\ told' = [w \in Users |-> told'[w]]
    BY <1>1 DEF UInv, Posted
  <2>4. at_user' = [w \in Users |-> at_user'[w]] /\ late' = [w \in Users |-> late'[w]]
    BY <1>1 DEF UInv, Posted
  <2> QED BY <1>1, <2>1, <2>2, <2>3, <2>4 DEF UInv, Posted
<1>4. ASSUME NEW w \in Users, ~ late[w] PROVE Once(w)'
  <2>1. CASE w = u
    BY <1>1, <1>2, <1>4, <2>1 DEF UInv, Posted, Once, Under, Serving
  <2>2. CASE w # u
    <3>1. Once(w)
      BY <1>4 DEF UInv, Honest
    <3>2. at_user'[w] = at_user[w] /\ inbox'[w] = inbox[w] /\ todo'[w] = todo[w]
      BY <1>1, <2>2 DEF UInv, Posted
    <3>3. \A r : True(w, Head(todo[w]), r)' = True(w, Head(todo[w]), r)
      BY <1>1, <3>2 DEF True
    <3>4. Under(w)' = Under(w) /\ (Serving(w)' <=> Serving(w))
      BY <1>1 DEF Under, Serving
    <3> QED BY <1>1, <3>1, <3>2, <3>3, <3>4 DEF Once
  <2> QED BY <2>1, <2>2
<1>5. \A w, a, r : True(w, a, r)' = True(w, a, r)
  BY <1>1 DEF True
<1>6. ASSUME NEW w \in Users, told'[w] # <<>>, ~ late[w]
      PROVE  True(w, told[w][1], told[w][2])'
  <2>1. CASE w = u
    <3>1. told'[w] = <<Head(todo[u]), Head(inbox[u])>>
      BY <1>1, <2>1 DEF UInv, Posted
    <3>2. told'[w][1] = Head(todo[u]) /\ told'[w][2] = Head(inbox[u])
      BY <3>1
    <3>3. True(w, Head(todo[u]), Head(inbox[u]))
      BY <1>2, <1>6, <2>1
    <3> QED BY <1>5, <3>2, <3>3
  <2>2. CASE w # u
    <3>1. told'[w] = told[w]
      BY <1>1, <2>2 DEF UInv, Posted
    <3>2. True(w, told[w][1], told[w][2])
      BY <1>6, <3>1 DEF UInv, ToldTrue, True
    <3> QED BY <1>5, <3>1, <3>2
  <2> QED BY <2>1, <2>2
<1>7. Honest'
  BY <1>1, <1>4 DEF Honest
<1>8. ToldTrue'
  BY <1>1, <1>6 DEF ToldTrue, True
<1> QED BY <1>3, <1>7, <1>8 DEF UInv

\* A user looks once more, asks once more or gives up: no claim is made of one
\* that asks again.
LEMMA Missed ==
  ASSUME UInv, NEW u \in Users, Miss(u) \/ TryAgain(u) \/ GiveUp(u)
  PROVE  UInv'
<1> DEFINE m == [from |-> u, command |-> Head(todo[u]).command, topic |-> Head(todo[u]).topic]
<1>1. /\ at_user[u] \in {"first", "second"}
      /\ \E to \in {"first", "second", "ended"} : at_user' = [at_user EXCEPT ![u] = to]
      /\ UNCHANGED <<owner, main, listing, inbox, todo, told>>
      /\ \/ UNCHANGED <<mail, late>>
         \/ late' = [late EXCEPT ![u] = TRUE] /\ (mail' = mail \/ mail' = Append(mail, m))
  <2>1. CASE Miss(u)
    BY <2>1 DEF Miss, Wait, store, server, network
  <2>2. CASE GiveUp(u)
    BY <2>2 DEF GiveUp, Wait, store, server, network
  <2>3. CASE TryAgain(u)
    BY <2>3 DEF TryAgain, Wait, store, server, Post
  <2> QED BY <2>1, <2>2, <2>3
<1>2. /\ at_user' = [w \in Users |-> at_user'[w]] /\ at_user'[u] # "idle"
      /\ \A w \in Users \ {u} : at_user'[w] = at_user[w]
  BY <1>1 DEF UInv, Posted
<1>3. todo[u] # <<>> /\ todo[u] \in Seq(Datagrams)
  BY <1>1 DEF UInv, Posted
<1>4. Head(todo[u]) \in Datagrams
  BY <1>3
<1>5. m \in Sent
  BY <1>4 DEF Sent, Datagrams
<1>6. mail \in Seq(Sent) /\ Len(mail) \in Nat
  BY DEF UInv, Posted
<1>7. /\ mail' \in Seq(Sent)
      /\ \A i \in 1..Len(mail) : mail'[i] = mail[i]
      /\ \/ mail' = mail
         \/ Len(mail') = Len(mail) + 1 /\ mail'[Len(mail) + 1] = m
  <2> HIDE DEF m
  <2> QED BY <1>1, <1>5, <1>6, SMTT(30)
<1>8. Posted'
  <2>1. late' = [w \in Users |-> late'[w]]
    BY <1>1 DEF UInv, Posted
  <2>2. \A w \in Users : at_user'[w] \in {"first", "second"} => todo[w] # <<>>
    BY <1>2, <1>3 DEF UInv, Posted
  <2> HIDE DEF m
  <2> QED BY <1>1, <1>2, <1>7, <2>1, <2>2 DEF UInv, Posted
<1>9. ASSUME NEW w \in Users, ~ late'[w] PROVE ~ late[w] /\ (w # u \/ mail' = mail)
  BY <1>1, <1>9 DEF UInv, Posted
<1>10. ASSUME NEW w \in Users, ~ late'[w] PROVE Once(w)'
  <2>1. Once(w)
    BY <1>9, <1>10 DEF UInv, Honest
  <2>2. Under(w)' = Under(w) /\ \A i \in Under(w) : mail'[i] = mail[i]
    <3>1. CASE mail' = mail
      BY <3>1 DEF Under
    <3>2. CASE mail' # mail
      BY <1>6, <1>7, <1>9, <1>10, <3>2 DEF Under
    <3> QED BY <3>1, <3>2
  <2>3. \A r : True(w, Head(todo[w]), r)' = True(w, Head(todo[w]), r)
    BY <1>1 DEF True
  <2>4. Serving(w)' = Serving(w)
    BY <1>1 DEF Serving
  <2>5. at_user'[w] = "idle" => at_user[w] = "idle"
    BY <1>2
  <2> HIDE DEF m
  <2> QED BY <1>1, <2>1, <2>2, <2>3, <2>4, <2>5 DEF Once
<1>11. Honest'
  BY <1>10 DEF Honest
<1>12. ToldTrue'
  BY <1>1, <1>9 DEF UInv, ToldTrue
<1> QED BY <1>8, <1>11, <1>12 DEF UInv

LEMMA Registered ==
  ASSUME UInv, Register
  PROVE  UInv'
<1>1. PICK v : v = Head(mail).from
  OBVIOUS
<1>2. PICK r : r = [command |-> "REG", code |-> "OK", list |-> {}]
  OBVIOUS
<1>3. /\ mail # <<>> /\ Head(mail).command = "REG" /\ mail' = Tail(mail) /\ main' = "select"
      /\ inbox' = [inbox EXCEPT ![v] = Append(@, r)] \/ inbox' = inbox
      /\ UNCHANGED <<owner, at_user, todo, told, late>>
  BY <1>1, <1>2 DEF Register, Receive, Reply, sendUDP, store, client
<1>4. /\ v \in Users /\ mail' \in Seq(Sent)
      /\ \A u \in Users : \A i \in Under(u)' : i + 1 \in Under(u) /\ mail'[i] = mail[i + 1]
      /\ ~ late[v] => /\ at_user[v] # "idle" /\ inbox[v] = <<>> /\ Under(v)' = {}
                      /\ Head(todo[v]).command = "REG"
  BY <1>1, <1>3, Taken
<1>5. ~ late[v] => True(v, Head(todo[v]), r)'
  BY <1>2, <1>3, <1>4 DEF True
<1>6. Grows /\ \A u \in Users : ~ Serving(u)'
  BY <1>3 DEF Grows, Serving
<1> QED BY <1>3, <1>4, <1>5, <1>6, Replied

LEMMA TopicsListed ==
  ASSUME UInv, ListTopics
  PROVE  UInv'
<1>1. PICK v : v = Head(mail).from
  OBVIOUS
<1>2. PICK code \in {"OK", "ERR"}, list \in {{}, {<<t, owner[t]>> : t \in DOMAIN owner}} :
        sendUDP(v, "LTP", code, list) /\ main' \in {"select", "waiting"}
  BY <1>1 DEF ListTopics, Reply, Fail
<1>3. PICK s : s = [command |-> "LTP", code |-> code, list |-> list]
  OBVIOUS
<1>4. /\ mail # <<>> /\ Head(mail).command = "LTP" /\ mail' = Tail(mail)
      /\ inbox' = [inbox EXCEPT ![v] = Append(@, s)] \/ inbox' = inbox
      /\ UNCHANGED <<owner, at_user, todo, told, late>>
  BY <1>2, <1>3 DEF ListTopics, Receive, sendUDP, store, client
<1>5. /\ v \in Users /\ mail' \in Seq(Sent)
      /\ \A u \in Users : \A i \in Under(u)' : i + 1 \in Under(u) /\ mail'[i] = mail[i + 1]
      /\ ~ late[v] => /\ at_user[v] # "idle" /\ inbox[v] = <<>> /\ Under(v)' = {}
                      /\ Head(todo[v]).command = "LTP"
  BY <1>1, <1>4, Taken
<1>6. ~ late[v] => True(v, Head(todo[v]), s)'
  BY <1>2, <1>3, <1>4, <1>5 DEF True
<1>7. Grows /\ \A u \in Users : ~ Serving(u)'
  BY <1>2, <1>4 DEF Grows, Serving
<1> QED BY <1>4, <1>5, <1>6, <1>7, Replied

\* Whatever a user hears of its proposal holds for good.
LEMMA ProposalAnswered ==
  ASSUME UInv, Propose
  PROVE  UInv'
<1>1. PICK v : v = Head(mail).from
  OBVIOUS
<1>2. PICK t : t = Head(mail).topic
  OBVIOUS
<1>3. /\ mail # <<>> /\ Head(mail).command = "PTP" /\ mail' = Tail(mail)
      /\ UNCHANGED <<at_user, todo, told, late>>
  BY DEF Propose, Receive, client
<1>4. PICK code \in {"FUL", "DUP", "OK", "ERR"} :
        /\ sendUDP(v, "PTP", code, {}) /\ main' \in {"select", "waiting"}
        /\ code = "ERR" => owner' = owner
        /\ code = "FUL" => Cardinality(DOMAIN owner) = MaxTopics /\ owner' = owner
        /\ code = "DUP" => t \in DOMAIN owner /\ owner' = owner
        /\ code = "OK" => /\ Cardinality(DOMAIN owner) # MaxTopics /\ t \notin DOMAIN owner
                          /\ owner' = [x \in DOMAIN owner \cup {t} |-> IF x = t THEN v ELSE owner[x]]
  BY <1>1, <1>2 DEF Propose, Reply, Fail
<1>5. PICK r : r = [command |-> "PTP", code |-> code, list |-> {}]
  OBVIOUS
<1>6. inbox' = [inbox EXCEPT ![v] = Append(@, r)] \/ inbox' = inbox
  BY <1>4, <1>5 DEF sendUDP
<1>7. /\ v \in Users /\ mail' \in Seq(Sent)
      /\ \A u \in Users : \A i \in Under(u)' : i + 1 \in Under(u) /\ mail'[i] = mail[i + 1]
      /\ ~ late[v] => /\ at_user[v] # "idle" /\ inbox[v] = <<>> /\ Under(v)' = {}
                      /\ Head(todo[v]).command = "PTP" /\ Head(todo[v]).topic = t
  BY <1>1, <1>2, <1>3, Taken
<1>8. ~ late[v] => True(v, Head(todo[v]), r)'
  BY <1>3, <1>4, <1>5, <1>7 DEF True
<1>9. Grows
  BY <1>4 DEF Grows
<1>10. \A u \in Users : ~ Serving(u)'
  BY <1>4 DEF Serving
<1> QED BY <1>3, <1>6, <1>7, <1>8, <1>9, <1>10, Replied

LEMMA ListingBegun ==
  ASSUME UInv, ListQuestions
  PROVE  UInv'
<1>1. PICK v : v = Head(mail).from
  OBVIOUS
<1>2. /\ mail # <<>> /\ Head(mail).command = "LQU" /\ mail' = Tail(mail)
      /\ UNCHANGED <<owner, at_user, todo, told, late>>
  BY DEF ListQuestions, Receive, store, client
<1>3. /\ v \in Users /\ mail' \in Seq(Sent)
      /\ \A u \in Users : \A i \in Under(u)' : i + 1 \in Under(u) /\ mail'[i] = mail[i + 1]
      /\ ~ late[v] => /\ at_user[v] # "idle" /\ inbox[v] = <<>> /\ Under(v)' = {}
                      /\ Head(todo[v]).command = "LQU"
  BY <1>1, <1>2, Taken
<1>4. Grows
  BY <1>2 DEF Grows
<1>5. CASE main' = "waiting"
  <2>1. PICK r : r = [command |-> "LQU", code |-> "ERR", list |-> {}]
    OBVIOUS
  <2>2. inbox' = [inbox EXCEPT ![v] = Append(@, r)] \/ inbox' = inbox
    BY <1>1, <1>5, <2>1 DEF ListQuestions, Fail, sendUDP
  <2>3. ~ late[v] => True(v, Head(todo[v]), r)'
    BY <1>2, <1>3, <2>1 DEF True
  <2>4. \A u \in Users : ~ Serving(u)'
    BY <1>5 DEF Serving
  <2> QED BY <1>2, <1>3, <1>4, <2>2, <2>3, <2>4, Replied
<1>6. CASE main' # "waiting"
  <2>1. main' = "listing" /\ listing'.to = v /\ inbox' = inbox
    BY <1>1, <1>6 DEF ListQuestions, Fail
  <2>2. Posted'
    BY <1>2, <1>3, <2>1 DEF UInv, Posted
  <2>3. ASSUME NEW u \in Users, ~ late[u] PROVE Once(u)'
    <3>1. Once(u)
      BY <2>3 DEF UInv, Honest
    <3>2. Serving(u)' <=> u = v
      BY <2>1 DEF Serving
    <3>3. \A i, j \in Under(u)' : i = j
      <4>1. \A i \in Under(u)' : i \in Nat
        BY DEF Under
      <4>2. \A i, j \in Under(u)' : i + 1 = j + 1
        BY <1>3, <3>1 DEF Once
      <4> QED BY <4>1, <4>2
    <3>4. \A i \in Under(u)' :
            mail'[i].command = Head(todo[u]).command /\ mail'[i].topic = Head(todo[u]).topic
      BY <1>3, <3>1 DEF Once
    <3>5. \A r : True(u, Head(todo[u]), r)' = True(u, Head(todo[u]), r)
      BY <1>2 DEF True
    <3>6. CASE u = v
      BY <1>2, <1>3, <2>1, <2>3, <3>2, <3>6 DEF Once
    <3>7. CASE u # v
      <4>1. Under(u)' # {} => Under(u) # {}
        BY <1>3
      <4> QED BY <1>2, <2>1, <3>1, <3>2, <3>3, <3>4, <3>5, <3>7, <4>1 DEF Once
    <3> QED BY <3>6, <3>7
  <2>4. Honest'
    BY <1>2, <2>3 DEF Honest
  <2> QED BY <1>2, <1>4, <2>2, <2>4, ToldStays DEF UInv
<1> QED BY <1>5, <1>6

\* The answer to LQU, at the end or when a question has no file yet, or none at all.
LEMMA ListingAnswered ==
  ASSUME UInv, NEW code, NEW list, main = "listing", main' # "listing",
         sendUDP(listing.to, "LQU", code, list) \/ inbox' = inbox,
         UNCHANGED <<owner, mail, at_user, todo, told, late>>
  PROVE  UInv'
<1>1. PICK v : v = listing.to
  OBVIOUS
<1>2. PICK r : r = [command |-> "LQU", code |-> code, list |-> list]
  OBVIOUS
<1>3. inbox' = [inbox EXCEPT ![v] = Append(@, r)] \/ inbox' = inbox
  BY <1>1, <1>2 DEF sendUDP
<1>4. Grows /\ mail' \in Seq(Sent)
  BY DEF Grows, UInv, Posted
<1>5. \A u \in Users : ~ Serving(u)' /\ Under(u)' = Under(u)
  BY DEF Serving, Under
<1>6. \A u \in Users : \A i \in Under(u)' : i + 0 \in Under(u) /\ mail'[i] = mail[i + 0]
  <2>1. \A u \in Users : \A i \in Under(u)' : i \in Nat /\ i + 0 = i
    BY DEF Under
  <2> QED BY <1>5, <2>1
<1>7. CASE v \in Users
  <2>1. ~ late[v] => /\ at_user[v] # "idle" /\ inbox[v] = <<>> /\ Under(v) = {}
                     /\ Head(todo[v]).command = "LQU"
    BY <1>1, <1>7 DEF UInv, Honest, Once, Serving
  <2>2. ~ late[v] => True(v, Head(todo[v]), r)'
    BY <1>2, <2>1 DEF True
  <2> QED BY <1>3, <1>4, <1>5, <1>6, <1>7, <2>1, <2>2, Replied
<1>8. CASE v \notin Users
  <2>1. inbox' = inbox
    BY <1>3, <1>8 DEF UInv, Posted
  <2>2. Posted'
    BY <2>1 DEF UInv, Posted
  <2>3. \A u, r0 : True(u, Head(todo[u]), r0)' = True(u, Head(todo[u]), r0)
    BY DEF True
  <2>4. Honest'
    BY <1>5, <2>1, <2>3 DEF UInv, Honest, Once
  <2> QED BY <1>4, <2>2, <2>4, ToldStays DEF UInv
<1> QED BY <1>7, <1>8

LEMMA InitUsers == Init => UInv
<1> SUFFICES ASSUME Init PROVE UInv
  OBVIOUS
<1>1. PICK s \in Scenes : todo = s.todo
  BY DEF Init
<1>2. mail = <<>> /\ mail \in Seq(Sent) /\ \A u : Under(u) = {}
  <2>1. mail = <<>>
    BY DEF Init
  <2>2. Len(mail) = 0 /\ mail \in Seq(Sent)
    BY <2>1
  <2>3. 1..Len(mail) = {}
    BY <2>2
  <2> QED BY <2>1, <2>2, <2>3 DEF Under
<1>3. Posted
  BY <1>1, <1>2, ScenesAssumption DEF Init, Posted
<1>4. \A u \in Users : inbox[u] = <<>> /\ told[u] = <<>> /\ ~ Serving(u)
  BY DEF Init, Serving
<1>5. Honest /\ ToldTrue
  BY <1>2, <1>4 DEF Honest, Once, ToldTrue
<1> QED BY <1>3, <1>5 DEF UInv

LEMMA NextUsers == UInv /\ [Next]_vars => UInv'
<1> SUFFICES ASSUME UInv, [Next]_vars PROVE UInv'
  OBVIOUS
<1>0. ASSUME UNCHANGED <<owner, listing, client, network>>, main' = "listing" <=> main = "listing"
      PROVE  UInv'
  BY <1>0, Silent DEF client, network
<1>1. CASE \E c \in Calls : Accept(c)
  BY <1>0, <1>1 DEF Accept, store
<1>2. CASE \E c \in Calls : handle(c)
  <2>1. PICK c \in Calls : handle(c)
    BY <1>2
  <2>2. UNCHANGED <<owner, server, client, network>>
    BY <2>1
    DEF handle, LookFound, LookMissing, CountFull, CountQuestions, CountAnswers, CheckDuplicate,
        CheckNew, OpenDirectory, MakeDirectory, FailToMake, OpenUser, CloseUser, OpenData,
        CloseData, BreakOff, SendUser, SendSize, SendData, Skip, CountToSend,
        FailToCount, store
  <2> QED BY <1>0, <2>2 DEF server
<1>3. CASE (\E c \in Calls : FailToAccept(c) \/ FailToFork(c)) \/ Stop
  BY <1>0, <1>3 DEF FailToAccept, FailToFork, Connects, FailTCP, Stop, store
<1>4. CASE handleUDP
  <2>1. CASE Register
    BY <2>1, Registered
  <2>2. CASE CrashListing
    BY <2>2, ListingAnswered DEF CrashListing, store, client, network
  <2>3. CASE ListTopics
    BY <2>3, TopicsListed
  <2>4. CASE Propose
    BY <2>4, ProposalAnswered
  <2>5. CASE ListQuestions
    BY <2>5, ListingBegun
  <2>6. CASE FinishListing
    BY <2>6, ListingAnswered DEF FinishListing, Reply, store, client
  <2>7. ASSUME NEW p \in DOMAIN tree, ListQuestion(p) PROVE UInv'
    <3>1. CASE tree[p].user = "absent"
      BY <2>7, <3>1, ListingAnswered DEF ListQuestion, Fail, store, client
    <3>2. CASE tree[p].user # "absent"
      <4>1. /\ UNCHANGED <<owner, main, mail, inbox, at_user, todo, told, late>>
            /\ \A u \in Users : Serving(u)' => Serving(u)
        BY <2>7, <3>2 DEF ListQuestion, store, client, Serving
      <4>2. listing'.to = listing.to
        BY <2>7 DEF ListQuestion
      <4>3. \A u : Serving(u)' = Serving(u)
        BY <4>1, <4>2 DEF Serving
      <4>4. Posted'
        BY <4>1 DEF UInv, Posted
      <4>5. Honest'
        BY <4>1, <4>3 DEF UInv, Honest, Once, Under, True
      <4>6. Grows
        BY <4>1 DEF Grows
      <4> QED BY <4>1, <4>4, <4>5, <4>6, ToldStays DEF UInv
    <3> QED BY <3>1, <3>2
  <2> QED BY <1>4, <2>1, <2>2, <2>3, <2>4, <2>5, <2>6, <2>7 DEF handleUDP
<1>5. CASE \E u \in Users : Ask(u)
  BY <1>5, Asked
<1>6. CASE \E u \in Users : sendWithReplyUDP(u)
  BY <1>6, ReplyTaken, Missed DEF sendWithReplyUDP
<1>7. CASE UNCHANGED vars
  BY <1>0, <1>7 DEF vars, server, store
<1> QED BY <1>1, <1>2, <1>3, <1>4, <1>5, <1>6, <1>7 DEF Next

\* What user.c shows of a reply is the truth for good, as long as no datagram was
\* sent twice: there is one question on its way, and one reply to it.
THEOREM RepliesAreTrue == Spec => []ToldTrue
<1>1. Spec => []UInv
  BY InitUsers, NextUsers, PTL DEF Spec
<1>2. UInv => ToldTrue
  BY DEF UInv
<1> QED BY <1>1, <1>2, PTL

(***************************************************************************)
(* Downloads.                                                              *)
(***************************************************************************)
Items == [answer : Nat, user : Contents, data : Contents]

Filled ==
  /\ \A p \in DOMAIN tree : tree[p] \in Files
  /\ spare \in Nat /\ free \in [Calls -> Nat]
  /\ count \in [Calls -> Nat] /\ at \in [Calls -> Nat]
  /\ item \in [Calls -> Items] /\ got \in [Calls -> SUBSET Items]

\* Who is where: only a handler of QUS or ANS chooses a directory, after it has
\* counted, and the directory is its client's.
Choosing == {"out", "look", "count", "check"}
Sending == {"user", "size", "data"}
Roles ==
  \A c \in Calls :
    /\ pc[c] \in Choosing => place[c] = Nowhere /\ at[c] = 0
    /\ pc[c] \in {"count", "check"} => c \notin Commands({"GQU"})
    /\ pc[c] \in Sending \cup {"answers"} => c \in Commands({"GQU"})
    /\ place[c] # Nowhere => c \notin Commands({"GQU"})
    /\ pc[c] = "check" => c \in Commands({"QUS"})
    /\ c \in Commands({"ANS"}) /\ place[c] # Nowhere =>
         /\ place[c].topic = request[c].topic
         /\ place[c].question = request[c].question
         /\ place[c].answer # 0

\* Answers are sent in the order of their numbers, after the question.
InOrder(c) ==
  /\ pc[c] \in Choosing => got[c] = {}
  /\ pc[c] \in Sending => \A x \in got[c] : x.answer < at[c]
  /\ pc[c] \in {"size", "data"} => item[c].answer = at[c]
  /\ pc[c] = "answers" => \A x \in got[c] : x.answer = 0
Ordered == \A c \in Calls : InOrder(c)

\* A directory that a handler has to itself holds what it has written there.
Intact ==
  \A g \in Calls : ~ Shared(g) =>
    /\ pc[g] \in {"openData", "receive"} => tree[place[g]].user = g
    /\ reply[g] = "OK" => tree[place[g]].user = g /\ tree[place[g]].data = g

\* Upload g is one that download c must bring.
Wanted(c, g) ==
  /\ c \in Commands({"GQU"}) /\ g \in Commands({"ANS"})
  /\ g \in before[c] /\ Subject(g) = Subject(c) /\ ~ Shared(g)
Brought(c, g) == [answer |-> place[g].answer, user |-> g, data |-> g] \in got[c]

\* Once the answers are counted, it is brought or it is still to come, unless the
\* descriptors ran out before.
Loading(c, g) ==
  /\ place[g].answer <= count[c]
  /\ Brought(c, g) \/ Pushed(c, g) \/ Short(c, g) \/ at[c] <= place[g].answer
  /\ at[c] = place[g].answer =>
       /\ pc[c] \in {"size", "data"} => item[c].answer = at[c] /\ item[c].user = g
       /\ pc[c] = "data" => item[c].data = g
Loaded ==
  \A c, g \in Calls : Wanted(c, g) =>
    /\ pc[c] \in Sending /\ at[c] # 0 => Loading(c, g)
    /\ reply[c] = "QGR" => Brought(c, g) \/ Pushed(c, g) \/ Short(c, g)

DInv == Filled /\ Roles /\ Ordered /\ Intact /\ Loaded

\* What was chosen is not the absence of a choice, and stays.
Kept == \A h \in Calls : place[h] # Nowhere => place'[h] = place[h]

LEMMA Chose ==
  ASSUME IInv, NEW p \in DOMAIN tree
  PROVE  p # Nowhere /\ p \in Places
BY NobodyAssumption DEF IInv, Shape, Places, Nowhere

LEMMA SharedStays ==
  ASSUME Kept, NEW g \in Calls, place[g] # Nowhere, ~ Shared(g)'
  PROVE  ~ Shared(g)
BY DEF Kept, Shared

\* A step of call c writes to its own directory, if to any.
LEMMA IntactStays ==
  ASSUME IInv, Intact, Kept, NEW c \in Calls,
         \A p \in DOMAIN tree : p # place[c] => tree'[p] = tree[p],
         \A g \in Calls \ {c} : pc'[g] = pc[g] /\ reply'[g] = reply[g],
         ~ Shared(c)' =>
           /\ pc'[c] \in {"openData", "receive"} => tree'[place'[c]].user = c
           /\ reply'[c] = "OK" => tree'[place'[c]].user = c /\ tree'[place'[c]].data = c
  PROVE  Intact'
<1> SUFFICES ASSUME NEW g \in Calls \ {c}, ~ Shared(g)', pc[g] \in Writing \/ reply[g] = "OK"
             PROVE  ~ Shared(g) /\ place'[g] = place[g] /\ tree'[place[g]] = tree[place[g]]
  BY DEF Intact, Writing
<1>1. place[g] \in DOMAIN tree
  BY DEF IInv, Holding
<1>2. place[g] # Nowhere
  BY <1>1, Chose
<1>3. ~ Shared(g) /\ place'[g] = place[g]
  BY <1>2, SharedStays DEF Kept
<1>4. place[c] # place[g]
  BY <1>3 DEF Shared
<1> QED BY <1>1, <1>3, <1>4

\* An upload that a download must bring is there, whole, under its number.
LEMMA WantedIsThere ==
  ASSUME IInv, DInv, NEW c \in Calls, NEW g \in Calls, Wanted(c, g)
  PROVE  /\ place[g] \in DOMAIN tree /\ place[g] # Nowhere
         /\ place[g] = [Subject(c) EXCEPT !.answer = place[g].answer]
         /\ place[g].answer \in Nat \ {0}
         /\ tree[place[g]].user = g /\ tree[place[g]].data = g /\ g # "absent"
         /\ Cardinality(AnswersOf(c)) \in Nat
         /\ place[g].answer <= Cardinality(AnswersOf(c))
<1>1. reply[g] = "OK"
  BY DEF IInv, Holding, Wanted
<1>2. place[g] \in DOMAIN tree
  BY <1>1 DEF IInv, Holding
<1>3. place[g] # Nowhere /\ place[g] \in Places
  BY <1>2, Chose
<1>4. /\ place[g].topic = request[g].topic /\ place[g].question = request[g].question
      /\ place[g].answer # 0
  BY <1>3 DEF DInv, Roles, Wanted
<1>5. request[g].topic = request[c].topic /\ request[g].question = request[c].question
  BY DEF Wanted, Subject
<1>6. place[g] = [Subject(c) EXCEPT !.answer = place[g].answer]
  BY <1>3, <1>4, <1>5 DEF Places, Subject
<1>7. place[g].answer \in Nat \ {0}
  BY <1>3, <1>4 DEF Places
<1>8. tree[place[g]].user = g /\ tree[place[g]].data = g
  BY <1>1 DEF DInv, Intact, Wanted
<1>9. request[c].topic \in Topics /\ request[c].question \in Questions
  BY DEF IInv, Shape, Requests
<1>10. place[g] \in AnswersOf(c)
  BY <1>2, <1>4, <1>5 DEF AnswersOf, AnswersTo, AnswersIn
<1>11. place[g].answer <= Cardinality(AnswersOf(c))
  BY <1>9, <1>10 DEF IInv, NumberedWithoutGaps, AnswersOf
<1>12. Cardinality(AnswersOf(c)) \in Nat
  BY AnswersBounded DEF IInv, AnswersOf
<1> QED BY <1>2, <1>3, <1>6, <1>7, <1>8, <1>11, <1>12, CallsAssumption

\* A step that sends nothing.
LEMMA LoadedStays ==
  ASSUME IInv, DInv, Kept, UNCHANGED <<request, count, at, item, got>>,
         \A c \in Calls :
           /\ \/ before'[c] = before[c] /\ (c \in Commands({"GQU"}) => free'[c] = free[c])
              \/ pc'[c] \notin Sending /\ reply'[c] # "QGR"
           /\ pc'[c] \in Sending => pc'[c] = pc[c] \/ at[c] = 0
           /\ reply'[c] = "QGR" => reply[c] = "QGR"
  PROVE  Loaded'
<1> SUFFICES ASSUME NEW c \in Calls, NEW g \in Calls, Wanted(c, g)'
             PROVE  /\ pc'[c] \in Sending /\ at[c] # 0 => Loading(c, g)'
                    /\ reply'[c] = "QGR" => Brought(c, g)' \/ Pushed(c, g)' \/ Short(c, g)'
  BY DEF Loaded
<1> SUFFICES ASSUME before'[c] = before[c], free'[c] = free[c]
             PROVE  /\ pc'[c] \in Sending /\ at[c] # 0 => Loading(c, g)'
                    /\ reply'[c] = "QGR" => Brought(c, g)' \/ Pushed(c, g)' \/ Short(c, g)'
  BY DEF Wanted, Commands
<1>1. g \in before[c]
  BY DEF Wanted
<1>2. place[g] \in DOMAIN tree
  BY <1>1 DEF IInv, Holding
<1>3. place[g] # Nowhere
  BY <1>2, Chose
<1>4. ~ Shared(g)
  BY <1>3, SharedStays DEF Wanted
<1>5. Wanted(c, g)
  BY <1>1, <1>4 DEF Wanted, Commands, Subject
<1>6. place'[g] = place[g]
  BY <1>3 DEF Kept
<1>7. /\ pc[c] \in Sending /\ at[c] # 0 => Loading(c, g)
      /\ reply[c] = "QGR" => Brought(c, g) \/ Pushed(c, g) \/ Short(c, g)
  BY <1>5 DEF DInv, Loaded
<1> QED BY <1>6, <1>7 DEF Loading, Brought, Pushed, Short

\* A step of download c.
LEMMA LoadedStep ==
  ASSUME IInv, DInv, NEW c \in Calls, UNCHANGED <<request, place, before>>,
         \A d \in Calls \ {c} :
           /\ pc'[d] = pc[d] /\ reply'[d] = reply[d] /\ count'[d] = count[d]
           /\ at'[d] = at[d] /\ item'[d] = item[d] /\ got'[d] = got[d] /\ free'[d] = free[d],
         \A g \in Calls : Wanted(c, g) =>
           /\ pc'[c] \in Sending /\ at'[c] # 0 => Loading(c, g)'
           /\ reply'[c] = "QGR" => Brought(c, g)' \/ Pushed(c, g)' \/ Short(c, g)'
  PROVE  Loaded'
<1> SUFFICES ASSUME NEW d \in Calls, NEW g \in Calls, Wanted(d, g)'
             PROVE  /\ pc'[d] \in Sending /\ at'[d] # 0 => Loading(d, g)'
                    /\ reply'[d] = "QGR" => Brought(d, g)' \/ Pushed(d, g)' \/ Short(d, g)'
  BY DEF Loaded
<1>1. Wanted(d, g)
  BY DEF Wanted, Commands, Subject, Shared
<1>2. CASE d = c
  BY <1>1, <1>2
<1>3. CASE d # c
  <2>1. /\ pc[d] \in Sending /\ at[d] # 0 => Loading(d, g)
        /\ reply[d] = "QGR" => Brought(d, g) \/ Pushed(d, g) \/ Short(d, g)
    BY <1>1 DEF DInv, Loaded
  <2> QED BY <1>3, <2>1 DEF Loading, Brought, Pushed, Short
<1> QED BY <1>2, <1>3

(***************************************************************************)
(* Steps of an upload.                                                     *)
(***************************************************************************)
\* A step that neither sends nor touches directories: call c goes on or is answered.
LEMMA WentOn ==
  ASSUME IInv, DInv, NEW c \in Calls,
         UNCHANGED <<tree, request, place, before, count, at, item, got>>,
         spare' \in Nat, free' \in [Calls -> Nat],
         \A d \in Commands({"GQU"}) : free'[d] = free[d],
         pc' = [pc EXCEPT ![c] = pc'[c]], reply' = [reply EXCEPT ![c] = reply'[c]],
         pc[c] \notin Sending, reply'[c] \notin {"OK", "QGR"},
         pc'[c] \notin {"openData", "receive", "size", "data", "answers"},
         pc'[c] \in Choosing => pc[c] \in Choosing,
         pc'[c] \in Sending => pc[c] \in Choosing,
         pc'[c] \in {"count", "check"} => c \notin Commands({"GQU"}),
         pc'[c] \in Sending => c \in Commands({"GQU"}),
         pc'[c] = "check" => c \in Commands({"QUS"})
  PROVE  DInv'
<1>1. \A d \in Calls \ {c} : pc'[d] = pc[d] /\ reply'[d] = reply[d]
  BY DEF IInv, Shape
<1>2. Kept
  BY DEF Kept
<1>3. Filled'
  BY DEF DInv, Filled
<1>4. Roles'
  BY <1>1 DEF DInv, Roles, Commands
<1>5. Intact'
  BY <1>1, <1>2, IntactStays DEF DInv
<1>6. Loaded'
  BY <1>1, <1>2, LoadedStays DEF DInv, Roles
<1>7. Ordered'
  BY <1>1 DEF DInv, Ordered, InOrder, Sending
<1> QED BY <1>3, <1>4, <1>5, <1>6, <1>7 DEF DInv

\* A step that writes to the directory that call c has.
LEMMA Wrote ==
  ASSUME IInv, DInv, NEW c \in Calls,
         UNCHANGED <<request, place, before, transfer, spare>>, pc[c] \in Writing,
         pc' = [pc EXCEPT ![c] = pc'[c]], reply' = [reply EXCEPT ![c] = reply'[c]],
         pc'[c] \in Writing \cup {"ended", "spins"}, reply'[c] # "QGR",
         DOMAIN tree' = DOMAIN tree,
         \A p \in DOMAIN tree : p # place[c] => tree'[p] = tree[p],
         tree'[place[c]] \in Files,
         ~ Shared(c) =>
           /\ pc'[c] \in {"openData", "receive"} => tree'[place[c]].user = c
           /\ reply'[c] = "OK" => tree'[place[c]].user = c /\ tree'[place[c]].data = c
  PROVE  DInv'
<1>1. \A d \in Calls \ {c} : pc'[d] = pc[d] /\ reply'[d] = reply[d]
  BY DEF IInv, Shape
<1>2. Kept
  BY DEF Kept
<1>3. Filled'
  <2>1. \A p \in DOMAIN tree' : tree'[p] \in Files
    BY DEF DInv, Filled
  <2> QED BY <2>1 DEF DInv, Filled, transfer
<1>4. Roles'
  BY <1>1 DEF DInv, Roles, Commands, transfer, Writing, Choosing, Sending
<1>5. Intact'
  BY <1>1, <1>2, IntactStays DEF DInv, Shared
<1>6. Loaded'
  BY <1>1, <1>2, LoadedStays DEF transfer, Writing, Sending
<1>7. Ordered'
  BY <1>1 DEF DInv, Ordered, InOrder, transfer, Writing, Choosing, Sending
<1> QED BY <1>3, <1>4, <1>5, <1>6, <1>7 DEF DInv

\* What a system call leaves in the directory.
LEMMA UserFile ==
  ASSUME DInv, NEW c, place[c] \in DOMAIN tree, NEW content \in Contents, Write(c, "user", content)
  PROVE  /\ DOMAIN tree' = DOMAIN tree
         /\ \A p \in DOMAIN tree : p # place[c] => tree'[p] = tree[p]
         /\ tree'[place[c]] \in Files /\ tree'[place[c]].user = content
<1>1. tree[place[c]] \in Files
  BY DEF DInv, Filled
<1> QED BY <1>1 DEF Write, Files

LEMMA DataFile ==
  ASSUME DInv, NEW c, place[c] \in DOMAIN tree, NEW content \in Contents, Write(c, "data", content)
  PROVE  /\ DOMAIN tree' = DOMAIN tree
         /\ \A p \in DOMAIN tree : p # place[c] => tree'[p] = tree[p]
         /\ tree'[place[c]] \in Files /\ tree'[place[c]].data = content
         /\ tree'[place[c]].user = tree[place[c]].user
<1>1. tree[place[c]] \in Files
  BY DEF DInv, Filled
<1> QED BY <1>1 DEF Write, Files

\* The directory is made.
LEMMA MadeKeeps ==
  ASSUME IInv, DInv, NEW c \in Calls, MakeDirectory(c)
  PROVE  DInv'
<1>1. /\ place[c] \notin DOMAIN tree /\ pc[c] = "mkdir"
      /\ tree' = [d \in DOMAIN tree \cup {place[c]} |->
                    IF d = place[c] THEN [user |-> "absent", data |-> "absent"] ELSE tree[d]]
      /\ pc' = [pc EXCEPT ![c] = "openUser"]
      /\ UNCHANGED <<request, place, reply, before, transfer, spare>>
  BY DEF MakeDirectory, Goto, mkdir, Exists, upload, server
<1>2. pc'[c] = "openUser" /\ \A d \in Calls \ {c} : pc'[d] = pc[d]
  BY <1>1 DEF IInv, Shape
<1>3. Kept
  BY <1>1 DEF Kept
<1>4. Filled'
  <2>1. [user |-> "absent", data |-> "absent"] \in Files
    BY DEF Files, Contents
  <2>2. \A p \in DOMAIN tree' : tree'[p] \in Files
    BY <1>1, <2>1 DEF DInv, Filled
  <2> QED BY <1>1, <2>2 DEF DInv, Filled, transfer
<1>5. Roles'
  BY <1>1, <1>2 DEF DInv, Roles, Commands, transfer, Choosing, Sending
<1>6. reply[c] # "OK"
  BY <1>1 DEF IInv, Holding
<1>7. Intact'
  BY <1>1, <1>2, <1>3, <1>6, IntactStays DEF DInv
<1>8. Loaded'
  BY <1>1, <1>2, <1>3, LoadedStays DEF transfer, Sending
<1>9. Ordered'
  BY <1>1, <1>2 DEF DInv, Ordered, InOrder, transfer, Choosing, Sending
<1> QED BY <1>4, <1>5, <1>7, <1>8, <1>9 DEF DInv

\* A directory is chosen.
LEMMA ChoiceKeeps ==
  ASSUME IInv, DInv, NEW c \in Calls, NEW p,
         UNCHANGED <<tree, request, reply, before, count, at, item, got>>,
         spare' \in Nat, free' \in [Calls -> Nat],
         \A d \in Calls \ {c} : free'[d] = free[d],
         pc[c] \in {"count", "check"}, pc' = [pc EXCEPT ![c] = "open"], place' = [place EXCEPT ![c] = p],
         c \in Commands({"ANS"}) =>
           p.topic = request[c].topic /\ p.question = request[c].question /\ p.answer # 0
  PROVE  DInv'
<1>1. /\ pc'[c] = "open" /\ place'[c] = p
      /\ \A d \in Calls \ {c} : pc'[d] = pc[d] /\ place'[d] = place[d]
  BY DEF IInv, Shape
<1>2. place[c] = Nowhere /\ at[c] = 0 /\ c \notin Commands({"GQU"})
  BY DEF DInv, Roles, Choosing
<1>3. Kept
  BY <1>1, <1>2 DEF Kept
<1>4. Filled'
  BY DEF DInv, Filled
<1>5. Roles'
  BY <1>1, <1>2 DEF DInv, Roles, Commands, Choosing, Sending
<1>6. reply[c] # "OK"
  BY DEF IInv, Holding
<1>7. Intact'
  BY <1>1, <1>3, <1>6, IntactStays DEF DInv
<1>8. Loaded'
  BY <1>1, <1>2, <1>3, LoadedStays DEF Sending
<1>9. Ordered'
  BY <1>1 DEF DInv, Ordered, InOrder, Choosing, Sending
<1> QED BY <1>4, <1>5, <1>7, <1>8, <1>9 DEF DInv

\* A client connects: nothing is sent to it yet.
LEMMA ConnectedKeeps ==
  ASSUME IInv, DInv, NEW c \in Calls, Accept(c)
  PROVE  DInv'
<1>1. /\ pc[c] = "out" /\ pc' = [pc EXCEPT ![c] = "look"]
      /\ before' = [before EXCEPT ![c] = Accepted]
      /\ spare > 0 /\ spare' = spare - 1 /\ free' = [free EXCEPT ![c] = spare - 1]
      /\ UNCHANGED <<tree, request, place, reply, count, at, item, got>>
  BY DEF Accept, Connects, store, upload
<1>2. /\ pc'[c] = "look"
      /\ \A d \in Calls \ {c} : pc'[d] = pc[d] /\ before'[d] = before[d] /\ free'[d] = free[d]
  BY <1>1 DEF IInv, Shape, DInv, Filled
<1>3. Kept
  BY <1>1 DEF Kept
<1>4. Filled'
  <2>1. spare - 1 \in Nat
    BY <1>1 DEF DInv, Filled
  <2> QED BY <1>1, <2>1 DEF DInv, Filled
<1>5. Roles'
  BY <1>1, <1>2 DEF DInv, Roles, Commands, Choosing, Sending
<1>6. reply[c] = "none"
  BY <1>1 DEF IInv, Holding
<1>7. Intact'
  BY <1>1, <1>2, <1>3, <1>6, IntactStays DEF DInv
<1>8. Loaded'
  BY <1>1, <1>2, <1>3, <1>6, LoadedStays DEF Sending
<1>9. Ordered'
  BY <1>1, <1>2 DEF DInv, Ordered, InOrder, Choosing, Sending
<1> QED BY <1>4, <1>5, <1>7, <1>8, <1>9 DEF DInv

\* No handler is started for a client.
LEMMA ForkFailed ==
  ASSUME IInv, DInv, NEW c \in Calls, FailToFork(c)
  PROVE  DInv'
<1>1. /\ pc[c] = "out" /\ pc' = [pc EXCEPT ![c] = "ended"]
      /\ spare > 0 /\ spare' = spare - 1
      /\ UNCHANGED <<tree, request, place, reply, before, transfer>>
  BY DEF FailToFork, Connects, store, upload
<1>2. pc'[c] = "ended" /\ reply[c] = "none"
  BY <1>1 DEF IInv, Shape, Holding
<1>3. spare' \in Nat /\ free' \in [Calls -> Nat] /\ free' = free
  BY <1>1 DEF DInv, Filled, transfer
<1>4. reply' = [reply EXCEPT ![c] = reply'[c]]
  BY <1>1 DEF IInv, Shape
<1> QED BY <1>1, <1>2, <1>3, <1>4, WentOn DEF transfer, Choosing, Sending

(***************************************************************************)
(* Steps of a download.                                                    *)
(***************************************************************************)
\* A step that leaves directories and choices alone, and of the calls touches c.
LEMMA Downloaded ==
  ASSUME IInv, DInv, NEW c \in Calls, UNCHANGED <<tree, request, place, before>>,
         pc[c] \in Sending \cup {"answers"},
         pc' = [pc EXCEPT ![c] = pc'[c]], reply' = [reply EXCEPT ![c] = reply'[c]],
         pc'[c] \in Sending \cup {"answers", "ended"}, reply'[c] # "OK",
         \A d \in Calls \ {c} : at'[d] = at[d] /\ item'[d] = item[d] /\ got'[d] = got[d],
         Filled', Loaded', InOrder(c)'
  PROVE  DInv'
<1>1. \A d \in Calls \ {c} : pc'[d] = pc[d] /\ reply'[d] = reply[d]
  BY DEF IInv, Shape
<1>2. c \in Commands({"GQU"})
  BY DEF DInv, Roles
<1>3. Kept
  BY DEF Kept
<1>4. Roles'
  <2>1. \A d \in Calls : pc'[d] \in Choosing => pc[d] = pc'[d] /\ d # c
    BY <1>1 DEF Choosing, Sending
  <2> QED BY <1>1, <1>2, <2>1 DEF DInv, Roles, Commands, Sending
<1>5. Intact'
  BY <1>1, <1>3, IntactStays DEF DInv, Sending
<1>6. Ordered'
  BY <1>1 DEF DInv, Ordered, InOrder
<1> QED BY <1>4, <1>5, <1>6 DEF DInv

\* A descriptor is used up: there was one, so none is amiss that came before.
LEMMA Leaked ==
  ASSUME DInv, NEW c \in Calls, Leak(c)
  PROVE  /\ free' \in [Calls -> Nat] /\ \A d \in Calls \ {c} : free'[d] = free[d]
         /\ \A g : ~ Short(c, g)
BY DEF DInv, Filled, Leak, Short

\* What is at hand when a download works on the number of a wanted upload.
LEMMA AtWanted ==
  ASSUME IInv, DInv, NEW c \in Calls, NEW g \in Calls, Wanted(c, g), at[c] = place[g].answer
  PROVE  /\ Current(c) = place[g] /\ at[c] # 0
         /\ Has(Current(c), "user") /\ Has(Current(c), "data")
         /\ tree[Current(c)].user = g /\ tree[Current(c)].data = g
<1>1. Current(c) = place[g]
  BY WantedIsThere DEF Current
<1>2. /\ place[g] \in DOMAIN tree /\ tree[place[g]].user = g /\ tree[place[g]].data = g
      /\ g # "absent" /\ at[c] # 0
  BY WantedIsThere
<1> QED BY <1>1, <1>2 DEF Has, Exists

LEMMA UserSent ==
  ASSUME IInv, DInv, NEW c \in Calls, SendUser(c)
  PROVE  DInv'
<1> DEFINE i == [answer |-> at[c], user |-> tree[Current(c)].user, data |-> "absent"]
<1>1. /\ pc[c] = "user" /\ pc' = [pc EXCEPT ![c] = "size"] /\ Has(Current(c), "user")
      /\ item' = [item EXCEPT ![c] = i]
      /\ UNCHANGED <<tree, request, place, reply, before, count, at, got, spare>>
  BY DEF SendUser, Goto, store, server, upload
<1>2. /\ free' \in [Calls -> Nat] /\ \A d \in Calls \ {c} : free'[d] = free[d]
      /\ \A g : ~ Short(c, g)
  BY Leaked DEF SendUser
<1>3. pc'[c] = "size" /\ reply' = [reply EXCEPT ![c] = reply'[c]] /\ reply'[c] \notin {"OK", "QGR"}
      /\ \A d \in Calls \ {c} : pc'[d] = pc[d]
  BY <1>1 DEF IInv, Shape, Holding
<1>4. i \in Items
  <2>1. Current(c) \in DOMAIN tree
    BY <1>1 DEF Has, Exists
  <2>2. tree[Current(c)] \in Files
    BY <2>1 DEF DInv, Filled
  <2>3. at[c] \in Nat
    BY DEF DInv, Filled
  <2> QED BY <2>2, <2>3 DEF Items, Files, Contents
<1>5. item'[c] = i /\ \A d \in Calls \ {c} : item'[d] = item[d]
  BY <1>1 DEF DInv, Filled
<1>6. Filled'
  BY <1>1, <1>2, <1>4 DEF DInv, Filled
<1>7. ASSUME NEW g \in Calls, Wanted(c, g), at[c] # 0 PROVE Loading(c, g)'
  <2>1. Loading(c, g)
    BY <1>1, <1>7 DEF DInv, Loaded, Sending
  <2>2. at[c] = place[g].answer => i.user = g
    BY <1>7, AtWanted
  <2> QED BY <1>1, <1>2, <1>3, <1>5, <2>1, <2>2 DEF Loading, Brought, Pushed
<1>8. Loaded'
  BY <1>1, <1>2, <1>3, <1>5, <1>7, LoadedStep
<1>9. InOrder(c)'
  BY <1>1, <1>3, <1>5 DEF DInv, Ordered, InOrder, Choosing, Sending
<1> QED BY <1>1, <1>3, <1>5, <1>6, <1>8, <1>9, Downloaded DEF Sending

LEMMA SizeSent ==
  ASSUME IInv, DInv, NEW c \in Calls, SendSize(c)
  PROVE  DInv'
<1>1. /\ pc[c] = "size" /\ pc' = [pc EXCEPT ![c] = "data"] /\ Has(Current(c), "data")
      /\ item' = [item EXCEPT ![c].data = tree[Current(c)].data]
      /\ UNCHANGED <<tree, request, place, reply, before, free, count, at, got, spare>>
  BY DEF SendSize, Goto, store, server, upload
<1>2. pc'[c] = "data" /\ reply' = [reply EXCEPT ![c] = reply'[c]] /\ reply'[c] \notin {"OK", "QGR"}
      /\ \A d \in Calls \ {c} : pc'[d] = pc[d]
  BY <1>1 DEF IInv, Shape, Holding
<1>3. tree[Current(c)] \in Files
  <2>1. Current(c) \in DOMAIN tree
    BY <1>1 DEF Has, Exists
  <2> QED BY <2>1 DEF DInv, Filled
<1>4. /\ item'[c] \in Items /\ item'[c].answer = item[c].answer /\ item'[c].user = item[c].user
      /\ item'[c].data = tree[Current(c)].data
      /\ \A d \in Calls \ {c} : item'[d] = item[d]
  <2>1. item \in [Calls -> Items] /\ tree[Current(c)].data \in Contents
    BY <1>3 DEF DInv, Filled, Files
  <2> QED BY <1>1, <2>1 DEF Items
<1>5. Filled'
  <2>1. item' \in [Calls -> Items]
    BY <1>1, <1>4 DEF DInv, Filled
  <2> QED BY <1>1, <2>1 DEF DInv, Filled
<1>6. ASSUME NEW g \in Calls, Wanted(c, g), at[c] # 0 PROVE Loading(c, g)'
  <2>1. Loading(c, g)
    BY <1>1, <1>6 DEF DInv, Loaded, Sending
  <2>2. at[c] = place[g].answer => tree[Current(c)].data = g
    BY <1>6, AtWanted
  <2> QED BY <1>1, <1>2, <1>4, <2>1, <2>2 DEF Loading, Brought, Pushed, Short
<1>7. Loaded'
  BY <1>1, <1>2, <1>4, <1>6, LoadedStep
<1>8. InOrder(c)'
  BY <1>1, <1>2, <1>4 DEF DInv, Ordered, InOrder, Choosing, Sending
<1> QED BY <1>1, <1>2, <1>4, <1>5, <1>7, <1>8, Downloaded DEF Sending

\* The answers are counted: the wanted one is among them.
LEMMA AnswersCounted ==
  ASSUME IInv, DInv, NEW c \in Calls, CountToSend(c)
  PROVE  DInv'
<1> DEFINE n == Cardinality(AnswersOf(c))
<1>1. /\ pc[c] = "answers" /\ count' = [count EXCEPT ![c] = n]
      /\ UNCHANGED <<tree, request, place, before, item, got, spare>>
      /\ n = 0 => /\ pc' = [pc EXCEPT ![c] = "ended"] /\ at' = at
                  /\ reply' = [reply EXCEPT ![c] = "QGR"]
      /\ n # 0 => /\ pc' = [pc EXCEPT ![c] = "user"] /\ at' = [at EXCEPT ![c] = FirstAnswer(n)]
                  /\ reply' = reply
  BY DEF CountToSend, Answer, Goto, store, server
<1>2. free' \in [Calls -> Nat] /\ \A d \in Calls \ {c} : free'[d] = free[d]
  BY Leaked DEF CountToSend
<1>3. n \in Nat /\ Window \in Nat \ {0}
  BY AnswersBounded, LimitsAssumption DEF IInv, AnswersOf
<1>4. FirstAnswer(n) \in Nat /\ 0 < FirstAnswer(n)
  BY <1>3 DEF FirstAnswer
<1>5. reply[c] = "none"
  BY <1>1 DEF IInv, Holding
<1>6. /\ pc' = [pc EXCEPT ![c] = pc'[c]] /\ reply' = [reply EXCEPT ![c] = reply'[c]]
      /\ pc'[c] \in {"user", "ended"} /\ reply'[c] # "OK"
      /\ \A d \in Calls \ {c} : pc'[d] = pc[d] /\ reply'[d] = reply[d]
  <2> HIDE DEF n
  <2> QED BY <1>1, <1>5 DEF IInv, Shape
<1>7. /\ count' \in [Calls -> Nat] /\ at' \in [Calls -> Nat] /\ count'[c] = n
      /\ \A d \in Calls \ {c} : count'[d] = count[d] /\ at'[d] = at[d]
  <2> HIDE DEF n
  <2>1. count \in [Calls -> Nat] /\ at \in [Calls -> Nat]
    BY DEF DInv, Filled
  <2> QED BY <1>1, <1>3, <1>4, <2>1
<1>8. Filled'
  BY <1>1, <1>2, <1>7 DEF DInv, Filled
<1>9. ASSUME NEW g \in Calls, Wanted(c, g)
      PROVE  n # 0 /\ Loading(c, g)' /\ reply'[c] # "QGR"
  <2>1. place[g].answer \in Nat \ {0} /\ place[g].answer <= n
    BY <1>9, WantedIsThere
  <2>2. n # 0
    BY <1>3, <2>1
  <2>3. pc'[c] = "user" /\ at'[c] = FirstAnswer(n)
    <3> HIDE DEF n
    <3> QED BY <1>1, <2>2 DEF IInv, Shape, DInv, Filled
  <2>4. FirstAnswer(n) <= place[g].answer \/ place[g].answer <= n - Window
    BY <1>3, <2>1 DEF FirstAnswer
  <2>5. Pushed(c, g)' \/ at'[c] <= place[g].answer
    <3> HIDE DEF n
    <3> QED BY <1>1, <1>7, <2>3, <2>4 DEF Pushed
  <2>6. place'[g].answer <= count'[c]
    BY <1>1, <1>7, <2>1
  <2> HIDE DEF n
  <2> QED BY <1>1, <1>5, <2>2, <2>3, <2>5, <2>6 DEF Loading
<1>10. Loaded'
  <2> HIDE DEF n
  <2> QED BY <1>1, <1>2, <1>6, <1>7, <1>9, LoadedStep
<1>11. InOrder(c)'
  <2>1. \A x \in got'[c] : x.answer = 0
    BY <1>1 DEF DInv, Ordered, InOrder
  <2>2. pc'[c] = "user" => at'[c] = FirstAnswer(n)
    <3> HIDE DEF n
    <3> QED BY <1>1 DEF IInv, Shape, DInv, Filled
  <2> HIDE DEF n
  <2> QED BY <1>4, <1>6, <2>1, <2>2 DEF InOrder, Choosing, Sending
<1> QED BY <1>1, <1>6, <1>7, <1>8, <1>10, <1>11, Downloaded DEF Sending

\* The next answer, or the end: nothing wanted is passed over that was not brought.
LEMMA MovedOn ==
  ASSUME IInv, DInv, NEW c \in Calls, NextItem(c), pc[c] \in Sending, at[c] # 0,
         UNCHANGED <<tree, request, place, before, count, item, spare>>,
         free' \in [Calls -> Nat], got' \in [Calls -> SUBSET Items], got[c] \subseteq got'[c],
         \A d \in Calls \ {c} : got'[d] = got[d] /\ free'[d] = free[d],
         free[c] = 0 => free'[c] = 0 /\ got'[c] = got[c],
         \A x \in got'[c] : x.answer <= at[c],
         \A g \in Calls : Wanted(c, g) /\ at[c] = place[g].answer => Brought(c, g)' \/ Short(c, g)'
  PROVE  DInv'
<1>1. at[c] \in Nat /\ count[c] \in Nat
  BY DEF DInv, Filled
<1>2. reply[c] = "none"
  BY DEF IInv, Holding, Sending
<1>3. /\ pc' = [pc EXCEPT ![c] = pc'[c]] /\ reply' = [reply EXCEPT ![c] = reply'[c]]
      /\ pc'[c] \in {"user", "ended"} /\ reply'[c] # "OK"
      /\ \A d \in Calls \ {c} : pc'[d] = pc[d] /\ reply'[d] = reply[d] /\ at'[d] = at[d]
      /\ at' \in [Calls -> Nat]
  BY <1>1, <1>2 DEF NextItem, IInv, Shape, DInv, Filled
<1>4. \/ at[c] < count[c] /\ pc'[c] = "user" /\ at'[c] = at[c] + 1 /\ reply'[c] = "none"
      \/ at[c] >= count[c] /\ pc'[c] = "ended" /\ reply'[c] = "QGR" /\ at' = at
  BY <1>1, <1>2 DEF NextItem, IInv, Shape, DInv, Filled
<1>5. Filled'
  BY <1>3 DEF DInv, Filled
<1>6. ASSUME NEW g \in Calls, Wanted(c, g)
      PROVE  /\ pc'[c] \in Sending => Loading(c, g)'
             /\ reply'[c] = "QGR" => Brought(c, g)' \/ Pushed(c, g)' \/ Short(c, g)'
  <2>1. Loading(c, g)
    BY <1>6 DEF DInv, Loaded
  <2>2. place[g].answer \in Nat
    BY <1>6, WantedIsThere
  <2>3. Brought(c, g)' \/ Pushed(c, g)' \/ Short(c, g)' \/ at[c] < place[g].answer
    <3>1. Brought(c, g) => Brought(c, g)'
      BY DEF Brought
    <3>2. Pushed(c, g) => Pushed(c, g)'
      BY DEF Pushed
    <3>3. Short(c, g) => Short(c, g)'
      BY DEF Short
    <3>4. Brought(c, g) \/ Pushed(c, g) \/ Short(c, g) \/ at[c] <= place[g].answer
      BY <2>1 DEF Loading
    <3>5. at[c] = place[g].answer => Brought(c, g)' \/ Short(c, g)'
      BY <1>6
    <3> QED BY <1>1, <2>2, <3>1, <3>2, <3>3, <3>4, <3>5
  <2>4. place[g].answer <= count[c]
    BY <2>1 DEF Loading
  <2>5. CASE at[c] < count[c]
    BY <1>1, <1>4, <2>2, <2>3, <2>4, <2>5 DEF Loading
  <2>6. CASE at[c] >= count[c]
    BY <1>1, <1>4, <2>2, <2>3, <2>4, <2>6 DEF Sending
  <2> QED BY <1>1, <2>5, <2>6
<1>7. Loaded'
  BY <1>3, <1>6, LoadedStep
<1>8. InOrder(c)'
  <2>1. \A x \in got'[c] : x.answer \in Nat
    BY DEF Items
  <2> QED BY <1>1, <1>3, <1>4, <2>1 DEF InOrder, Choosing, Sending
<1> QED BY <1>3, <1>5, <1>7, <1>8, Downloaded DEF Sending

LEMMA DataSent ==
  ASSUME IInv, DInv, NEW c \in Calls, SendData(c)
  PROVE  DInv'
<1> DEFINE i == [item[c] EXCEPT !.data = IF tree[Current(c)].data = @ THEN @ ELSE "part"]
<1>1. /\ pc[c] = "data" /\ got' = [got EXCEPT ![c] = @ \cup {i}]
      /\ UNCHANGED <<tree, request, place, before, count, item, spare>>
      /\ at[c] = 0 => pc' = [pc EXCEPT ![c] = "answers"] /\ UNCHANGED <<at, reply>>
      /\ at[c] # 0 => NextItem(c)
  BY DEF SendData, store, server
<1>2. /\ free[c] # 0 /\ free' \in [Calls -> Nat] /\ \A d \in Calls \ {c} : free'[d] = free[d]
  <2>1. Leak(c)
    BY DEF SendData
  <2>2. free[c] # 0
    BY <2>1 DEF Leak
  <2> QED BY <2>1, <2>2, Leaked
<1>3. item[c] \in Items
  BY DEF DInv, Filled
<1>4. /\ i \in Items /\ i.answer = item[c].answer /\ i.user = item[c].user
      /\ i.data = IF tree[Current(c)].data = item[c].data THEN item[c].data ELSE "part"
  BY <1>3 DEF Items, Contents
<1>5. /\ got' \in [Calls -> SUBSET Items] /\ got'[c] = got[c] \cup {i}
      /\ \A d \in Calls \ {c} : got'[d] = got[d]
  <2>1. got \in [Calls -> SUBSET Items]
    BY DEF DInv, Filled
  <2> HIDE DEF i
  <2> QED BY <1>1, <1>4, <2>1
<1>6. \A x \in got[c] : x.answer \in Nat /\ x.answer < at[c]
  BY <1>1 DEF DInv, Filled, Items, Ordered, InOrder, Sending
<1>7. at[c] \in Nat /\ i.answer = at[c]
  BY <1>1, <1>4 DEF DInv, Filled, Ordered, InOrder
<1>8. CASE at[c] = 0
  <2>1. /\ pc'[c] = "answers" /\ reply' = [reply EXCEPT ![c] = reply'[c]]
        /\ reply'[c] \notin {"OK", "QGR"} /\ \A d \in Calls \ {c} : pc'[d] = pc[d]
    BY <1>1, <1>8 DEF IInv, Shape, Holding
  <2>2. Filled'
    BY <1>1, <1>2, <1>5, <1>8 DEF DInv, Filled
  <2> HIDE DEF i
  <2>3. Loaded'
    BY <1>1, <1>2, <1>5, <1>8, <2>1, LoadedStep DEF Sending
  <2>4. \A x \in got'[c] : x.answer = 0
    BY <1>5, <1>6, <1>7, <1>8
  <2>5. InOrder(c)'
    BY <2>1, <2>4 DEF InOrder, Choosing, Sending
  <2> QED BY <1>1, <1>5, <1>8, <2>1, <2>2, <2>3, <2>5, Downloaded DEF Sending
<1>9. CASE at[c] # 0
  <2>1. ASSUME NEW g \in Calls, Wanted(c, g), at[c] = place[g].answer PROVE Brought(c, g)'
    <3>1. Loading(c, g)
      BY <1>1, <1>9, <2>1 DEF DInv, Loaded, Sending
    <3>2. item[c].answer = place[g].answer /\ item[c].user = g /\ item[c].data = g
      BY <1>1, <2>1, <3>1 DEF Loading
    <3>3. tree[Current(c)].data = g
      BY <2>1, AtWanted
    <3>4. i.answer = place[g].answer /\ i.user = g /\ i.data = g
      BY <1>4, <3>2, <3>3
    <3>5. i = [answer |-> place[g].answer, user |-> g, data |-> g]
      <4> HIDE DEF i
      <4> QED BY <1>4, <3>4 DEF Items
    <3> HIDE DEF i
    <3> QED BY <1>1, <1>5, <3>5 DEF Brought
  <2>2. NextItem(c) /\ pc[c] \in Sending
    BY <1>1, <1>9 DEF Sending
  <2> HIDE DEF i
  <2>3. \A x \in got'[c] : x.answer <= at[c]
    BY <1>5, <1>6, <1>7
  <2> QED BY <1>1, <1>2, <1>5, <1>9, <2>1, <2>2, <2>3, MovedOn
<1> QED BY <1>8, <1>9

\* What is left out is none that is wanted, while there are descriptors.
LEMMA Skipped ==
  ASSUME IInv, DInv, NEW c \in Calls, Skip(c)
  PROVE  DInv'
<1>1. /\ pc[c] \in Sending
      /\ free[c] = 0 \/ ~ (Has(Current(c), "user") /\ Has(Current(c), "data"))
      /\ UNCHANGED <<tree, request, place, before, free, count, item, got, spare>>
      /\ at[c] = 0 => /\ pc' = [pc EXCEPT ![c] = "ended"] /\ at' = at
                      /\ reply' = [reply EXCEPT ![c] = "ERR"]
      /\ at[c] # 0 => NextItem(c)
  BY DEF Skip, Answer, Goto, Sending, store, server
<1>2. CASE at[c] = 0
  <2>1. /\ pc'[c] = "ended" /\ reply'[c] = "ERR"
        /\ pc' = [pc EXCEPT ![c] = pc'[c]] /\ reply' = [reply EXCEPT ![c] = reply'[c]]
        /\ \A d \in Calls \ {c} : pc'[d] = pc[d] /\ reply'[d] = reply[d]
    BY <1>1, <1>2 DEF IInv, Shape
  <2>2. Filled'
    BY <1>1, <1>2 DEF DInv, Filled
  <2>3. Loaded'
    BY <1>1, <1>2, <2>1, LoadedStep DEF Sending
  <2>4. InOrder(c)'
    BY <2>1 DEF InOrder, Choosing, Sending
  <2> QED BY <1>1, <1>2, <2>1, <2>2, <2>3, <2>4, Downloaded DEF Sending
<1>3. CASE at[c] # 0
  <2>1. \A x \in got[c] : x.answer < at[c]
    BY <1>1 DEF DInv, Ordered, InOrder
  <2>2. \A g \in Calls : Wanted(c, g) /\ at[c] = place[g].answer => Short(c, g)'
    BY <1>1, <2>1, AtWanted DEF Short
  <2>3. /\ free' \in [Calls -> Nat] /\ got' \in [Calls -> SUBSET Items] /\ at[c] \in Nat
        /\ \A x \in got[c] : x.answer \in Nat
    BY <1>1 DEF DInv, Filled, Items
  <2>4. \A x \in got'[c] : x.answer <= at[c]
    BY <1>1, <2>1, <2>3
  <2> QED BY <1>1, <1>3, <2>2, <2>3, <2>4, MovedOn
<1> QED BY <1>2, <1>3

\* The answers cannot be counted: the download ends, and not as complete.
LEMMA CountFailed ==
  ASSUME IInv, DInv, NEW c \in Calls, FailToCount(c)
  PROVE  DInv'
<1>1. /\ pc[c] = "answers" /\ pc' = [pc EXCEPT ![c] = "ended"]
      /\ reply' = [reply EXCEPT ![c] = "ERR"]
      /\ UNCHANGED <<tree, request, place, before, transfer, spare>>
  BY DEF FailToCount, Answer, Goto, store, server
<1>2. /\ pc'[c] = "ended" /\ reply'[c] = "ERR"
      /\ \A d \in Calls \ {c} : pc'[d] = pc[d] /\ reply'[d] = reply[d]
  BY <1>1 DEF IInv, Shape
<1>3. Filled'
  BY <1>1 DEF DInv, Filled, transfer
<1>4. Loaded'
  BY <1>1, <1>2, LoadedStep DEF transfer, Sending
<1>5. InOrder(c)'
  BY <1>2 DEF InOrder, Choosing, Sending
<1> QED BY <1>1, <1>2, <1>3, <1>4, <1>5, Downloaded DEF transfer

\* The steps of a handler that only read or answer.
LEMMA QuietKeeps ==
  ASSUME IInv, DInv, NEW c \in Calls,
         \/ LookFound(c) \/ LookMissing(c) \/ CountFull(c) \/ CountQuestions(c)
         \/ CheckDuplicate(c) \/ OpenDirectory(c) \/ FailToMake(c)
  PROVE  DInv'
<1> DEFINE Quiet ==
      /\ UNCHANGED <<tree, request, place, before, count, at, item, got, spare>>
      /\ pc' = [pc EXCEPT ![c] = pc'[c]] /\ reply' = [reply EXCEPT ![c] = reply'[c]]
      /\ pc[c] \notin Sending /\ reply'[c] \notin {"OK", "QGR"}
      /\ pc'[c] \notin {"openData", "receive", "size", "data", "answers"}
      /\ pc'[c] \in Choosing => pc[c] \in Choosing
      /\ pc'[c] \in Sending => pc[c] \in Choosing
      /\ pc'[c] \in {"count", "check"} => c \notin Commands({"GQU"})
      /\ pc'[c] \in Sending => c \in Commands({"GQU"})
      /\ pc'[c] = "check" => c \in Commands({"QUS"})
<1>0. Quiet /\ (free' = free \/ (Leak(c) /\ c \notin Commands({"GQU"}))) => DInv'
  <2>1. spare \in Nat /\ free \in [Calls -> Nat] /\ Commands({"GQU"}) \subseteq Calls
    BY DEF DInv, Filled, Commands
  <2>2. /\ Leak(c) /\ c \notin Commands({"GQU"}) => free' \in [Calls -> Nat]
        /\ Leak(c) /\ c \notin Commands({"GQU"}) =>
             \A d \in Commands({"GQU"}) : free'[d] = free[d]
    BY <2>1, Leaked
  <2> QED BY <2>1, <2>2, WentOn
<1>1. pc[c] # "ended" => reply[c] = "none"
  BY DEF IInv, Holding
<1> USE DEF Goto, Answer, store, server, upload, transfer, Choosing, Sending, IInv, Shape
<1>2. CASE LookFound(c)
  <2>1. Quiet /\ free' = free
    BY <1>1, <1>2 DEF LookFound
  <2> QED BY <1>0, <2>1
<1>3. CASE LookMissing(c)
  <2>1. Quiet /\ free' = free
    BY <1>3 DEF LookMissing
  <2> QED BY <1>0, <2>1
<1>4. CASE CountFull(c)
  <2>1. Quiet /\ Leak(c) /\ c \notin Commands({"GQU"})
    BY <1>4 DEF CountFull, Commands
  <2> QED BY <1>0, <2>1
<1>5. CASE CountQuestions(c)
  <2>1. Quiet /\ Leak(c) /\ c \notin Commands({"GQU"})
    BY <1>1, <1>5 DEF CountQuestions, Commands
  <2> QED BY <1>0, <2>1
<1>6. CASE CheckDuplicate(c)
  <2>1. Quiet /\ free' = free
    BY <1>6 DEF CheckDuplicate
  <2> QED BY <1>0, <2>1
<1>7. CASE OpenDirectory(c)
  <2>1. Quiet /\ free' = free
    BY <1>1, <1>7 DEF OpenDirectory
  <2> QED BY <1>0, <2>1
<1>8. CASE FailToMake(c)
  <2>1. Quiet /\ free' = free
    BY <1>8 DEF FailToMake
  <2> QED BY <1>0, <2>1
<1> QED BY <1>2, <1>3, <1>4, <1>5, <1>6, <1>7, <1>8

\* The steps that open or close a file, and a client that goes away.
LEMMA WritingKeeps ==
  ASSUME IInv, DInv, NEW c \in Calls,
         OpenUser(c) \/ CloseUser(c) \/ OpenData(c) \/ CloseData(c) \/ BreakOff(c)
  PROVE  DInv'
<1> DEFINE Control ==
      /\ UNCHANGED <<request, place, before, transfer, spare>>
      /\ pc' = [pc EXCEPT ![c] = pc'[c]] /\ reply' = [reply EXCEPT ![c] = reply'[c]]
      /\ pc'[c] \in Writing \cup {"ended", "spins"} /\ reply'[c] # "QGR"
    Files0 ==
      /\ DOMAIN tree' = DOMAIN tree
      /\ \A p \in DOMAIN tree : p # place[c] => tree'[p] = tree[p]
      /\ tree'[place[c]] \in Files
      /\ ~ Shared(c) =>
           /\ pc'[c] \in {"openData", "receive"} => tree'[place[c]].user = c
           /\ reply'[c] = "OK" => tree'[place[c]].user = c /\ tree'[place[c]].data = c
<1>0. pc[c] \in Writing /\ Control /\ Files0 => DInv'
  BY Wrote
<1>1. pc[c] # "ended" => reply[c] = "none"
  BY DEF IInv, Holding
<1>2. pc[c] \in Writing => place[c] \in DOMAIN tree
  BY DEF IInv, Holding
<1>3. pc[c] \in {"openData", "receive"} /\ ~ Shared(c) => tree[place[c]].user = c
  BY DEF DInv, Intact
<1>4. {"empty", "part", c} \subseteq Contents
  BY DEF Contents
<1>5. CASE OpenUser(c)
  <2>1. pc[c] \in Writing /\ Control /\ pc'[c] = "closeUser" /\ reply'[c] = "none" /\ Write(c, "user", "empty")
    BY <1>1, <1>5 DEF OpenUser, Goto, upload, server, Writing, IInv, Shape
  <2>2. Files0
    BY <1>2, <1>4, <2>1, UserFile
  <2> QED BY <1>0, <2>1, <2>2
<1>6. CASE CloseUser(c)
  <2>1. pc[c] \in Writing /\ Control /\ pc'[c] = "openData" /\ reply'[c] = "none" /\ Write(c, "user", c)
    BY <1>1, <1>6 DEF CloseUser, Goto, upload, server, Writing, IInv, Shape
  <2>2. Files0
    BY <1>2, <1>4, <2>1, UserFile
  <2> QED BY <1>0, <2>1, <2>2
<1>7. CASE OpenData(c)
  <2>1. /\ pc[c] \in Writing /\ pc[c] = "openData" /\ Control /\ pc'[c] = "receive"
        /\ reply'[c] = "none" /\ Write(c, "data", "empty")
    BY <1>1, <1>7 DEF OpenData, Goto, upload, server, Writing, IInv, Shape
  <2>2. Files0
    BY <1>2, <1>3, <1>4, <2>1, DataFile
  <2> QED BY <1>0, <2>1, <2>2
<1>8. CASE CloseData(c)
  <2>1. /\ pc[c] \in Writing /\ pc[c] = "receive" /\ Control /\ pc'[c] = "ended"
        /\ reply'[c] = "OK" /\ Write(c, "data", c)
    BY <1>1, <1>8 DEF CloseData, Answer, Goto, server, Writing, IInv, Shape
  <2>2. Files0
    BY <1>2, <1>3, <1>4, <2>1, DataFile
  <2> QED BY <1>0, <2>1, <2>2
<1>9. CASE BreakOff(c)
  <2>1. /\ Control /\ pc'[c] \in {"ended", "spins"} /\ reply'[c] \in {"none", "ERR"}
        /\ \/ pc[c] = "look" /\ tree' = tree
           \/ pc[c] = "receive" /\ \E content \in {"empty", "part", c} : Write(c, "data", content)
    BY <1>1, <1>9 DEF BreakOff, server, Writing, IInv, Shape
  <2>2. CASE pc[c] = "look"
    BY <2>1, <2>2, WentOn DEF DInv, Filled, transfer, Choosing, Sending
  <2>3. CASE pc[c] # "look"
    <3>1. PICK content \in {"empty", "part", c} : Write(c, "data", content)
      BY <2>1, <2>3
    <3>2. pc[c] \in Writing
      BY <2>1, <2>3 DEF Writing
    <3>3. Files0
      BY <1>2, <1>4, <2>1, <3>1, <3>2, DataFile
    <3> QED BY <1>0, <2>1, <3>2, <3>3
  <2> QED BY <2>2, <2>3
<1> QED BY <1>5, <1>6, <1>7, <1>8, <1>9

LEMMA HandledKeeps ==
  ASSUME IInv, DInv, NEW c \in Calls, handle(c)
  PROVE  DInv'
<1>1. CASE CountAnswers(c)
  <2>1. Cardinality(AnswersOf(c)) + 1 # 0
    BY AnswersBounded DEF IInv, AnswersOf
  <2>2. PICK p : p = [Subject(c) EXCEPT !.answer = NextAnswer(c)]
    OBVIOUS
  <2>3. p.topic = request[c].topic /\ p.question = request[c].question /\ p.answer # 0
    BY <2>1, <2>2 DEF Subject, NextAnswer
  <2>4. /\ UNCHANGED <<tree, request, reply, before, count, at, item, got, spare>>
        /\ pc[c] = "count" /\ Leak(c)
        /\ pc' = [pc EXCEPT ![c] = "open"] /\ place' = [place EXCEPT ![c] = p]
    BY <1>1, <2>2 DEF CountAnswers, Goto, store, server
  <2>5. spare' \in Nat /\ free' \in [Calls -> Nat] /\ \A d \in Calls \ {c} : free'[d] = free[d]
    BY <2>4, Leaked DEF DInv, Filled
  <2> QED BY <2>3, <2>4, <2>5, ChoiceKeeps
<1>2. CASE CheckNew(c)
  <2>1. c \notin Commands({"ANS"})
    BY <1>2 DEF CheckNew, Goto, DInv, Roles, Commands
  <2>2. PICK p : p = Subject(c)
    OBVIOUS
  <2>3. /\ UNCHANGED <<tree, request, reply, before, transfer, spare>> /\ pc[c] = "check"
        /\ pc' = [pc EXCEPT ![c] = "open"] /\ place' = [place EXCEPT ![c] = p]
    BY <1>2, <2>2 DEF CheckNew, Goto, store, server
  <2>4. spare' \in Nat /\ free' \in [Calls -> Nat] /\ \A d \in Calls \ {c} : free'[d] = free[d]
    BY <2>3 DEF DInv, Filled, transfer
  <2> QED BY <2>1, <2>3, <2>4, ChoiceKeeps DEF transfer
<1>3. CASE MakeDirectory(c)
  BY <1>3, MadeKeeps
<1>4. CASE \/ LookFound(c) \/ LookMissing(c) \/ CountFull(c) \/ CountQuestions(c)
           \/ CheckDuplicate(c) \/ OpenDirectory(c) \/ FailToMake(c)
  BY <1>4, QuietKeeps
<1>5. CASE OpenUser(c) \/ CloseUser(c) \/ OpenData(c) \/ CloseData(c) \/ BreakOff(c)
  BY <1>5, WritingKeeps
<1>6. CASE \/ SendUser(c) \/ SendSize(c) \/ SendData(c) \/ Skip(c)
           \/ CountToSend(c) \/ FailToCount(c)
  BY <1>6, UserSent, SizeSent, DataSent, Skipped, AnswersCounted, CountFailed
<1> QED BY <1>1, <1>2, <1>3, <1>4, <1>5, <1>6 DEF handle

LEMMA InitDownloads == Init => DInv
<1> SUFFICES ASSUME Init PROVE DInv
  OBVIOUS
<1>1. PICK s \in Scenes : tree = s.tree /\ spare = s.spare
  BY DEF Init
<1>2. Filled
  <2>1. NoItem \in Items
    BY DEF NoItem, Items, Contents
  <2> QED BY <1>1, <2>1, ScenesAssumption DEF Init, Filled
<1>3. Roles
  BY DEF Init, Roles, Choosing, Sending
<1>4. Ordered /\ Intact /\ Loaded
  BY DEF Init, Ordered, InOrder, Intact, Loaded, Sending
<1> QED BY <1>2, <1>3, <1>4 DEF DInv

LEMMA NextDownloads == IInv /\ DInv /\ [Next]_vars => DInv'
<1> SUFFICES ASSUME IInv, DInv, [Next]_vars PROVE DInv'
  OBVIOUS
<1>0. ASSUME UNCHANGED <<tree, handler>>, spare' \in Nat PROVE DInv'
  <2>1. Filled' /\ Roles' /\ Ordered'
    BY <1>0 DEF DInv, Filled, Roles, Ordered, InOrder, Commands, handler, upload, transfer
  <2>2. Intact'
    BY <1>0 DEF DInv, Intact, Shared, handler, upload
  <2>3. Loaded'
    BY <1>0, LoadedStays DEF Kept, handler, upload, transfer
  <2> QED BY <2>1, <2>2, <2>3 DEF DInv
<1>1. CASE \E c \in Calls : Accept(c)
  BY <1>1, ConnectedKeeps
<1>2. CASE \E c \in Calls : handle(c)
  BY <1>2, HandledKeeps
<1>3. spare \in Nat
  BY DEF DInv, Filled
<1>4. CASE (\E c \in Calls : FailToAccept(c)) \/ Stop
  BY <1>0, <1>3, <1>4 DEF FailToAccept, Stop, store
<1>5. CASE \E c \in Calls : FailToFork(c)
  BY <1>3, <1>5, ForkFailed
<1>6. CASE handleUDP
  <2>1. Propose => spare' \in Nat
    BY <1>3 DEF Propose
  <2>2. ~ Propose => spare' \in Nat
    BY <1>3, <1>6
    DEF handleUDP, Register, ListTopics, ListQuestions, ListQuestion, CrashListing, FinishListing
  <2>3. spare' \in Nat
    BY <2>1, <2>2
  <2> QED BY <1>0, <1>6, <2>3
    DEF handleUDP, Register, ListTopics, Propose, ListQuestions, ListQuestion, CrashListing,
        FinishListing, store
<1>7. CASE \E u \in Users : Ask(u) \/ sendWithReplyUDP(u)
  BY <1>0, <1>3, <1>7 DEF Ask, sendWithReplyUDP, TakeReply, Miss, TryAgain, GiveUp, store, server
<1>8. CASE UNCHANGED vars
  BY <1>0, <1>3, <1>8 DEF vars, store, server
<1> QED BY <1>1, <1>2, <1>4, <1>5, <1>6, <1>7, <1>8 DEF Next

\* handleGqu brings every answer that was accepted before the client connected,
\* whole and under its number, but for those that newer ones push out of the last
\* ten, those whose directory two handlers of ANS share, and those that it comes to
\* after it has run out of descriptors.
THEOREM DownloadsBringEarlier == Spec => []DownloadHasEarlier
<1>1. Spec => [](IInv /\ DInv)
  BY InitInv, NextInv, InitDownloads, NextDownloads, PTL DEF Spec
<1>2. ASSUME DInv PROVE DownloadHasEarlier
  <2> SUFFICES ASSUME NEW c \in Commands({"GQU"}), NEW g \in Commands({"ANS"}),
                      g \in before[c], Subject(g) = Subject(c), reply[c] = "QGR", ~ Shared(g)
               PROVE  Brought(c, g) \/ Pushed(c, g) \/ Short(c, g)
    BY DEF DownloadHasEarlier, Brought
  <2>1. c \in Calls /\ g \in Calls
    BY DEF Commands
  <2>2. Wanted(c, g)
    BY DEF Wanted
  <2> QED BY <1>2, <2>1, <2>2 DEF DInv, Loaded
<1> QED BY <1>1, <1>2, PTL
===============================================================================
