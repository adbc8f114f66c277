--------------------------------- MODULE Forum ---------------------------------
(***************************************************************************)
(* The forum of RC-1920: FS/FS.c, the server, with lib/net.c and           *)
(* lib/dirs.c, and the part of user/user.c that talks to it by datagrams.  *)
(*                                                                         *)
(* The main process answers datagrams itself, one after the other, and     *)
(* forks a handler for every TCP connection.  Handlers share nothing but   *)
(* the tree of directories TOPICS/topic/question/answer, with the files    *)
(* user and data in each; one system call on it is one step.  A user sends *)
(* a datagram again when no reply comes, and takes whatever comes next for *)
(* the reply.                                                              *)
(*                                                                         *)
(* Descriptors run out.  The server closes none of the connections that it *)
(* accepts, numOfDirectories none of the directories that it counts and    *)
(* sendFile none of the files that it sends, and a handler starts with     *)
(* what the server had left.  Whatever opens something may fail for that.  *)
(*                                                                         *)
(* Images are left out: one more file, written and read after the data in  *)
(* the same way.  Identifiers and titles are valid, as user.c makes sure.  *)
(***************************************************************************)
EXTENDS Integers, Sequences, FiniteSets

CONSTANTS
  Topics, Questions, Users,
  Calls,         \* bound: the TCP connections that clients may make
  MaxTopics,     \* 99: topics, questions on one and answers to one
  MaxQuestions,
  MaxAnswers,
  Window,        \* 10: the answers that are sent with a question
  MaxServed,     \* how many handlers may be started: they are waited for at the end
  MaxLosses,     \* bound: datagrams that are lost
  MaxBroken,     \* bound: connections that break off
  Nobody,
  Scenes         \* the trees at the start, and what the clients ask

ASSUME LimitsAssumption ==
  {MaxTopics, MaxQuestions, MaxAnswers, Window, MaxServed} \subseteq Nat \ {0}
ASSUME NobodyAssumption == Nobody \notin Calls \cup Users \cup Topics
\* What a call sent is not mistaken for another state of a file.
ASSUME CallsAssumption == Calls \cap {"old", "part", "empty", "absent"} = {}

\* The directories: of a question, whose answer is 0, and of an answer.
Places == [topic : Topics, question : Questions, answer : Nat]

\* The contents of a file: what a call sent, part of it, nothing, or no file.
\* "old" is what was there when the server started.
Contents == Calls \cup {"old", "part", "empty", "absent"}
Files == [user : Contents, data : Contents]

Requests == [command : {"GQU", "QUS", "ANS", "none"}, topic : Topics, question : Questions]
Datagrams == [command : {"REG", "LTP", "PTP", "LQU"}, topic : Topics]

\* The answers to a question in tree T.
AnswersIn(T, t, q) == {p \in DOMAIN T : p.topic = t /\ p.question = q /\ p.answer # 0}

\* The server starts with no tree, or with one that it made before.
ASSUME ScenesAssumption == \A s \in Scenes :
  /\ DOMAIN s.owner \subseteq Topics /\ IsFiniteSet(DOMAIN s.owner)
  /\ \A t \in DOMAIN s.owner : s.owner[t] \in Users \cup {Nobody}
  /\ Cardinality(DOMAIN s.owner) <= MaxTopics
  /\ DOMAIN s.tree \subseteq Places /\ IsFiniteSet(DOMAIN s.tree)
  /\ \A p \in DOMAIN s.tree :
       /\ s.tree[p] \in Files
       /\ p.answer <= Cardinality(AnswersIn(s.tree, p.topic, p.question))
       /\ p.answer <= MaxAnswers
  /\ s.request \in [Calls -> Requests]
  /\ s.todo \in [Users -> Seq(Datagrams)]
  /\ s.spare \in Nat

VARIABLES
  owner,     \* per topic that exists: who proposed it
  tree,      \* per directory that exists: its files
  main,      \* where the main process is
  listing,   \* the LQU request it carries out
  served,    \* handlers started so far
  spare,     \* descriptors that the main process has left
  request,   \* per call: what its client asks
  pc,        \* per call: where its handler is
  free,      \* per call: descriptors that its handler has left
  place,     \* per call: the directory it writes to
  reply,     \* per call: the code it was answered
  count,     \* per call: numOfDirectories
  at,        \* per call: the answer that is sent next
  item,      \* per call: what was sent of it
  got,       \* per call: what its client was sent whole
  before,    \* history, per call: the uploads accepted when it connected
  broken,    \* bound: connections that broke off so far
  mail,      \* external: datagrams for the server
  inbox,     \* external, per user: datagrams for it
  at_user,   \* per user: where sendWithReplyUDP is
  tries,     \* per user
  todo,      \* per user: what it still asks
  told,      \* per user: the last reply and what it was taken for
  late,      \* history, per user: has it sent a datagram again?
  losses     \* bound: datagrams lost so far

store   == <<owner, tree>>
server  == <<main, listing, served, spare>>
upload  == <<place, reply, broken>>
transfer == <<free, count, at, item, got>>
handler == <<request, pc, upload, transfer, before>>
client  == <<at_user, tries, todo, told, late>>
network == <<mail, inbox, losses>>
vars    == <<store, server, handler, client, network>>

Nowhere == [topic |-> Nobody, question |-> Nobody, answer |-> 0]
NoItem == [answer |-> 0, user |-> "absent", data |-> "absent"]

Init ==
  /\ \E s \in Scenes :
       /\ owner = s.owner /\ tree = s.tree /\ request = s.request /\ todo = s.todo
       /\ spare = s.spare
  /\ main = "select" /\ served = 0
  /\ listing = [to |-> Nobody, topic |-> Nobody, left |-> {}, seen |-> {}]
  /\ pc = [c \in Calls |-> "out"] /\ free = [c \in Calls |-> 0]
  /\ place = [c \in Calls |-> Nowhere]
  /\ reply = [c \in Calls |-> "none"]
  /\ count = [c \in Calls |-> 0] /\ at = [c \in Calls |-> 0]
  /\ item = [c \in Calls |-> NoItem] /\ got = [c \in Calls |-> {}]
  /\ before = [c \in Calls |-> {}]
  /\ broken = 0
  /\ mail = <<>> /\ inbox = [u \in Users |-> <<>>] /\ losses = 0
  /\ at_user = [u \in Users |-> "idle"] /\ tries = [u \in Users |-> 0]
  /\ told = [u \in Users |-> <<>>] /\ late = [u \in Users |-> FALSE]

(***************************************************************************)
(* Directories.                                                            *)
(***************************************************************************)
QuestionsOn(t) == {p \in DOMAIN tree : p.topic = t /\ p.answer = 0}
AnswersTo(t, q) == AnswersIn(tree, t, q)

\* What call c is about: its question, and the answers to it.
Subject(c) == [topic |-> request[c].topic, question |-> request[c].question, answer |-> 0]
AnswersOf(c) == AnswersTo(request[c].topic, request[c].question)

Exists(p) == p \in DOMAIN tree
mkdir(p) ==
  tree' = [d \in DOMAIN tree \cup {p} |->
             IF d = p THEN [user |-> "absent", data |-> "absent"] ELSE tree[d]]

(***************************************************************************)
(* The main process and the connections.                                   *)
(***************************************************************************)
Commands(S) == {c \in Calls : request[c].command \in S}
Accepted == {c \in Commands({"QUS", "ANS"}) : reply[c] = "OK"}

\* A client that connects, or is about to.
Connects(c) == main = "select" /\ pc[c] = "out" /\ request[c].command # "none"

\* accept and fork.  The parent does not close the descriptor, and the handler
\* inherits all that are open.
Accept(c) ==
  /\ Connects(c) /\ spare > 0 /\ served < MaxServed
  /\ pc' = [pc EXCEPT ![c] = "look"]
  /\ served' = served + 1 /\ spare' = spare - 1
  /\ free' = [free EXCEPT ![c] = spare - 1]
  /\ before' = [before EXCEPT ![c] = Accepted]
  /\ UNCHANGED <<store, main, listing, request, upload, count, at, item, got, client, network>>

\* handleTCP fails.  The loop ends, unless select has seen a datagram as well: the
\* result of its handler takes the place of this one.
FailTCP == main' \in IF mail = <<>> THEN {"waiting"} ELSE {"waiting", "datagram"}

\* There is no descriptor for accept.
FailToAccept(c) ==
  /\ Connects(c) /\ spare = 0
  /\ FailTCP
  /\ UNCHANGED <<store, listing, served, spare, handler, client, network>>

\* There is no process for fork: the connection stays open, and nobody reads it.
FailToFork(c) ==
  /\ Connects(c) /\ spare > 0 /\ served = MaxServed
  /\ pc' = [pc EXCEPT ![c] = "ended"]
  /\ spare' = spare - 1
  /\ FailTCP
  /\ UNCHANGED <<store, listing, served, request, upload, transfer, before, client, network>>

\* wait, until there are no more children.
Stop ==
  /\ main = "waiting" /\ \A c \in Calls : pc[c] \in {"out", "ended"}
  /\ main' = "stopped"
  /\ UNCHANGED <<store, listing, served, spare, handler, client, network>>

(***************************************************************************)
(* The handlers of GQU, QUS and ANS.                                       *)
(***************************************************************************)
Goto(c, from, to) == pc[c] = from /\ pc' = [pc EXCEPT ![c] = to]

\* numOfDirectories does not close the directory, nor sendFile the file.
Leak(c) == free[c] > 0 /\ free' = [free EXCEPT ![c] = @ - 1]

\* A handler answers and ends.
Answer(c, from, code) ==
  /\ Goto(c, from, "ended")
  /\ reply' = [reply EXCEPT ![c] = code]

Found(c) ==
  IF c \in Commands({"QUS"}) THEN request[c].topic \in DOMAIN owner ELSE Exists(Subject(c))

LookFound(c) ==
  /\ free[c] > 0 /\ Found(c)
  /\ Goto(c, "look", IF c \in Commands({"GQU"}) THEN "user" ELSE "count")
  /\ UNCHANGED <<store, server, request, upload, transfer, before, client, network>>

LookMissing(c) ==
  /\ free[c] = 0 \/ ~ Found(c)
  /\ Answer(c, "look", IF c \notin Commands({"GQU"}) THEN "NOK"
                        ELSE IF free[c] = 0 THEN "ERR" ELSE "EOF")
  /\ UNCHANGED <<store, server, request, place, broken, transfer, before, client, network>>

\* Mutant: one too many.
FullPast(c) ==
  IF c \in Commands({"QUS"}) THEN Cardinality(QuestionsOn(request[c].topic)) = MaxQuestions + 1
                             ELSE Cardinality(AnswersOf(c)) = MaxAnswers + 1

Full(c) ==
  IF c \in Commands({"QUS"}) THEN Cardinality(QuestionsOn(request[c].topic)) = MaxQuestions
                             ELSE Cardinality(AnswersOf(c)) = MaxAnswers

CountFull(c) ==
  /\ Full(c) /\ c \in Commands({"QUS", "ANS"})
  /\ Answer(c, "count", "FUL") /\ Leak(c)
  /\ UNCHANGED <<store, server, request, place, broken, count, at, item, got, before, client, network>>

CountQuestions(c) ==
  /\ ~ Full(c) /\ c \in Commands({"QUS"})
  /\ Goto(c, "count", "check") /\ Leak(c)
  /\ UNCHANGED <<store, server, request, upload, count, at, item, got, before, client, network>>

\* Mutants: "." and ".." are counted; the count is not advanced.
NextAnswerDots(c) == Cardinality(AnswersOf(c)) + 3
NextAnswerLast(c) == Cardinality(AnswersOf(c))

NextAnswer(c) == Cardinality(AnswersOf(c)) + 1

CountAnswers(c) ==
  /\ ~ Full(c) /\ c \in Commands({"ANS"})
  /\ Goto(c, "count", "open") /\ Leak(c)
  /\ place' = [place EXCEPT ![c] = [Subject(c) EXCEPT !.answer = NextAnswer(c)]]
  /\ UNCHANGED <<store, server, request, reply, broken, count, at, item, got, before, client, network>>

\* Without a descriptor neither dirExists nor mkdirIfNotExists gets anywhere.
CheckDuplicate(c) ==
  /\ free[c] = 0 \/ Exists(Subject(c))
  /\ Answer(c, "check", "DUP")
  /\ UNCHANGED <<store, server, request, place, broken, transfer, before, client, network>>

CheckNew(c) ==
  /\ free[c] > 0 /\ ~ Exists(Subject(c))
  /\ Goto(c, "check", "open")
  /\ place' = [place EXCEPT ![c] = Subject(c)]
  /\ UNCHANGED <<store, server, request, reply, broken, transfer, before, client, network>>

\* mkdirIfNotExists: a directory that is there is no error, unless it comes to be
\* between opendir and mkdir.
OpenDirectory(c) ==
  /\ free[c] > 0
  /\ Goto(c, "open", IF Exists(place[c]) THEN "openUser" ELSE "mkdir")
  /\ UNCHANGED <<store, server, request, upload, transfer, before, client, network>>

MakeDirectory(c) ==
  /\ ~ Exists(place[c])
  /\ Goto(c, "mkdir", "openUser")
  /\ mkdir(place[c])
  /\ UNCHANGED <<owner, server, request, upload, transfer, before, client, network>>

FailToMake(c) ==
  /\ \/ pc[c] = "open" /\ free[c] = 0
     \/ pc[c] = "mkdir" /\ Exists(place[c])
  /\ Answer(c, pc[c], IF c \in Commands({"QUS"}) THEN "DUP" ELSE "ERR")
  /\ UNCHANGED <<store, server, request, place, broken, transfer, before, client, network>>

\* fopen leaves an empty file, and fclose writes what was put.
Write(c, file, content) == tree' = [tree EXCEPT ![place[c]][file] = content]

OpenUser(c) ==
  /\ Goto(c, "openUser", "closeUser")
  /\ Write(c, "user", "empty")
  /\ UNCHANGED <<owner, server, request, upload, transfer, before, client, network>>

CloseUser(c) ==
  /\ Goto(c, "closeUser", "openData")
  /\ Write(c, "user", c)
  /\ UNCHANGED <<owner, server, request, upload, transfer, before, client, network>>

OpenData(c) ==
  /\ Goto(c, "openData", "receive")
  /\ Write(c, "data", "empty")
  /\ UNCHANGED <<owner, server, request, upload, transfer, before, client, network>>

CloseData(c) ==
  /\ Answer(c, "receive", "OK")
  /\ Write(c, "data", c)
  /\ UNCHANGED <<owner, server, request, place, broken, transfer, before, client, network>>

\* The client goes away while the server reads.  A connection that is reset makes
\* read fail; one that is closed makes it return 0 for ever, which no loop expects.
BreakOff(c) ==
  /\ broken < MaxBroken
  /\ broken' = broken + 1
  /\ \/ /\ pc[c] = "look" /\ UNCHANGED tree
     \/ /\ pc[c] = "receive"
        /\ \E content \in {"empty", "part", c} : Write(c, "data", content)
  /\ \/ pc' = [pc EXCEPT ![c] = "spins"] /\ UNCHANGED reply
     \/ pc' = [pc EXCEPT ![c] = "ended"] /\ reply' = [reply EXCEPT ![c] = "ERR"]
  /\ UNCHANGED <<owner, server, request, place, transfer, before, client, network>>

\* The directory that a download is at.
Current(c) == [Subject(c) EXCEPT !.answer = at[c]]

Has(p, file) == Exists(p) /\ tree[p][file] # "absent"

SendUser(c) ==
  /\ Goto(c, "user", "size")
  /\ Has(Current(c), "user") /\ Leak(c)
  /\ item' = [item EXCEPT ![c] = [answer |-> at[c], user |-> tree[Current(c)].user, data |-> "absent"]]
  /\ UNCHANGED <<store, server, request, upload, count, at, got, before, client, network>>

\* stat needs no descriptor.
SendSize(c) ==
  /\ Goto(c, "size", "data")
  /\ Has(Current(c), "data")
  /\ item' = [item EXCEPT ![c].data = tree[Current(c)].data]
  /\ UNCHANGED <<store, server, request, upload, free, count, at, got, before, client, network>>

\* Mutant: an answer that cannot be sent is tried again.
NextItemStuck(c) ==
  IF at[c] < count[c]
    THEN /\ pc' = [pc EXCEPT ![c] = "user"]
         /\ at' = [at EXCEPT ![c] = IF pc[c] = "data" THEN @ + 1 ELSE @]
         /\ UNCHANGED reply
    ELSE /\ pc' = [pc EXCEPT ![c] = "ended"] /\ reply' = [reply EXCEPT ![c] = "QGR"]
         /\ UNCHANGED at

\* After the question its answers are counted; after the last answer all is sent.
NextItem(c) ==
  IF at[c] < count[c]
    THEN /\ pc' = [pc EXCEPT ![c] = "user"] /\ at' = [at EXCEPT ![c] = @ + 1]
         /\ UNCHANGED reply
    ELSE /\ pc' = [pc EXCEPT ![c] = "ended"] /\ reply' = [reply EXCEPT ![c] = "QGR"]
         /\ UNCHANGED at

\* The file's contents, which need no longer be as long as the size that was sent.
SendData(c) ==
  /\ pc[c] = "data" /\ Leak(c)
  /\ got' = [got EXCEPT ![c] = @ \cup
       {[item[c] EXCEPT !.data = IF tree[Current(c)].data = @ THEN @ ELSE "part"]}]
  /\ IF at[c] = 0 THEN pc' = [pc EXCEPT ![c] = "answers"] /\ UNCHANGED <<at, reply>>
                  ELSE NextItem(c)
  /\ UNCHANGED <<store, server, request, place, broken, count, item, before, client, network>>

\* A file is missing, or there is no descriptor to open it.  The question's ends the
\* download; that of an answer is left out, and nobody is told.
Skip(c) ==
  /\ \/ pc[c] = "user" /\ (free[c] = 0 \/ ~ Has(Current(c), "user"))
     \/ pc[c] = "size" /\ ~ Has(Current(c), "data")
     \/ pc[c] = "data" /\ free[c] = 0
  /\ IF at[c] = 0 THEN Answer(c, pc[c], "ERR") /\ UNCHANGED at ELSE NextItem(c)
  /\ UNCHANGED <<store, server, request, place, broken, free, count, item, got, before, client, network>>

\* Mutant: one of the last answers is forgotten.
FirstAnswerLate(n) == IF n <= Window THEN 1 ELSE n - Window + 2

FirstAnswer(n) == IF n <= Window THEN 1 ELSE n - Window + 1

CountToSend(c) ==
  LET n == Cardinality(AnswersOf(c)) IN
  /\ pc[c] = "answers" /\ Leak(c)
  /\ count' = [count EXCEPT ![c] = n]
  /\ IF n = 0 THEN Answer(c, "answers", "QGR") /\ UNCHANGED at
              ELSE /\ Goto(c, "answers", "user")
                   /\ at' = [at EXCEPT ![c] = FirstAnswer(n)]
                   /\ UNCHANGED reply
  /\ UNCHANGED <<store, server, request, place, broken, item, got, before, client, network>>

FailToCount(c) ==
  /\ free[c] = 0
  /\ Answer(c, "answers", "ERR")
  /\ UNCHANGED <<store, server, request, place, broken, transfer, before, client, network>>

handle(c) ==
  \/ LookFound(c) \/ LookMissing(c)
  \/ CountFull(c) \/ CountQuestions(c) \/ CountAnswers(c)
  \/ CheckDuplicate(c) \/ CheckNew(c)
  \/ OpenDirectory(c) \/ MakeDirectory(c) \/ FailToMake(c)
  \/ OpenUser(c) \/ CloseUser(c) \/ OpenData(c) \/ CloseData(c) \/ BreakOff(c)
  \/ SendUser(c) \/ SendSize(c) \/ SendData(c) \/ Skip(c)
  \/ CountToSend(c) \/ FailToCount(c)

(***************************************************************************)
(* Datagrams.  One may be lost on either way; those that arrive keep their *)
(* order, as they do between two sockets of one machine.                   *)
(***************************************************************************)
Lose == losses < MaxLosses /\ losses' = losses + 1

Post(u, m) ==
  \/ mail' = Append(mail, [from |-> u, command |-> m.command, topic |-> m.topic]) /\ UNCHANGED losses
  \/ Lose /\ UNCHANGED mail

\* sendUDP of what the server answers to user u.
sendUDP(u, m, code, list) ==
  \/ /\ inbox' = [inbox EXCEPT ![u] =
          Append(@, [command |-> m, code |-> code, list |-> list])]
     /\ UNCHANGED losses
  \/ Lose /\ UNCHANGED inbox

\* The main process takes the next datagram.
Receive(command) ==
  /\ main \in {"select", "datagram"} /\ mail # <<>> /\ Head(mail).command = command
  /\ mail' = Tail(mail)

\* It answers user u and goes on.
Reply(u, m, code, list) == main' = "select" /\ sendUDP(u, m, code, list)

\* A handler fails, so that the loop ends.
Fail(u, m) == main' = "waiting" /\ sendUDP(u, m, "ERR", {})

\* The only datagram that is answered without opening anything.
Register ==
  /\ Receive("REG")
  /\ Reply(Head(mail).from, "REG", "OK", {})
  /\ UNCHANGED <<store, listing, served, spare, handler, client>>

\* The directory of topics and, in it, the file of each are open at a time.
ListTopics ==
  LET u == Head(mail).from IN
  /\ Receive("LTP")
  /\ IF spare > 1 \/ (spare = 1 /\ DOMAIN owner = {})
       THEN Reply(u, "LTP", "OK", {<<t, owner[t]>> : t \in DOMAIN owner})
       ELSE Fail(u, "LTP")
  /\ UNCHANGED <<store, listing, served, spare, handler, client>>

\* numOfDirectories leaves one descriptor less to open the topic's directory with.
Propose ==
  LET t == Head(mail).topic
      u == Head(mail).from
      full == Cardinality(DOMAIN owner) = MaxTopics IN
  /\ Receive("PTP")
  /\ spare' = IF spare = 0 THEN 0 ELSE spare - 1
  /\ \/ /\ spare = 0 \/ (spare = 1 /\ ~ full)
        /\ Fail(u, "PTP") /\ UNCHANGED owner
     \/ /\ spare > 0 /\ full
        /\ Reply(u, "PTP", "FUL", {}) /\ UNCHANGED owner
     \/ /\ spare > 1 /\ ~ full /\ t \in DOMAIN owner
        /\ Reply(u, "PTP", "DUP", {}) /\ UNCHANGED owner
     \/ /\ spare > 1 /\ ~ full /\ t \notin DOMAIN owner
        /\ owner' = [x \in DOMAIN owner \cup {t} |-> IF x = t THEN u ELSE owner[x]]
        /\ Reply(u, "PTP", "OK", {})
  /\ UNCHANGED <<tree, listing, served, handler, client>>

\* The handler of LQU reads the tree while handlers of TCP change it.
ListQuestions ==
  LET t == Head(mail).topic
      u == Head(mail).from IN
  /\ Receive("LQU")
  /\ IF spare > 0 /\ t \in DOMAIN owner
       THEN /\ main' = "listing"
            /\ listing' = [to |-> u, topic |-> t, left |-> QuestionsOn(t), seen |-> {}]
            /\ UNCHANGED <<inbox, losses>>
       ELSE Fail(u, "LQU") /\ UNCHANGED listing
  /\ UNCHANGED <<store, served, spare, handler, client>>

Listed == {x[1] : x \in listing.seen}

\* readdir finds what was there when the directory was opened, and may find more.
ListQuestion(p) ==
  /\ main = "listing" /\ spare > 1
  /\ p \in QuestionsOn(listing.topic) /\ p.question \notin Listed
  /\ listing' = [listing EXCEPT !.left = @ \ {p}, !.seen = @ \cup
       {<<p.question, tree[p].user, Cardinality(AnswersTo(p.topic, p.question))>>}]
  /\ IF tree[p].user = "absent"
       THEN Fail(listing.to, "LQU")
       ELSE UNCHANGED <<main, inbox, losses>>
  /\ UNCHANGED <<store, served, spare, mail, handler, client>>

\* A question's directory is not opened, and readdir gets NULL all the same.
CrashListing ==
  /\ main = "listing" /\ spare = 1 /\ QuestionsOn(listing.topic) # {}
  /\ main' = "stopped"
  /\ UNCHANGED <<store, listing, served, spare, handler, client, network>>

FinishListing ==
  /\ main = "listing" /\ listing.left = {}
  /\ Reply(listing.to, "LQU", "OK", listing.seen)
  /\ UNCHANGED <<store, listing, served, spare, mail, handler, client>>

handleUDP ==
  \/ Register \/ ListTopics \/ Propose
  \/ ListQuestions \/ CrashListing \/ FinishListing
  \/ \E p \in DOMAIN tree : ListQuestion(p)

(***************************************************************************)
(* sendWithReplyUDP: up to three times, with two looks at the socket after *)
(* each, which find nothing whenever the server is slow.                   *)
(***************************************************************************)
Wait(u, from, to) == at_user[u] = from /\ at_user' = [at_user EXCEPT ![u] = to]

Ask(u) ==
  /\ todo[u] # <<>>
  /\ Wait(u, "idle", "first")
  /\ tries' = [tries EXCEPT ![u] = 0]
  /\ Post(u, Head(todo[u]))
  /\ UNCHANGED <<store, server, handler, inbox, todo, told, late>>

\* Mutant: the message that MSG_PEEK showed is not taken.
TakeReplyPeeking(u) ==
  /\ inbox[u] # <<>>
  /\ \E look \in {"first", "second"} : Wait(u, look, "idle")
  /\ told' = [told EXCEPT ![u] = <<Head(todo[u]), Head(inbox[u])>>]
  /\ todo' = [todo EXCEPT ![u] = Tail(@)]
  /\ UNCHANGED <<store, server, handler, mail, inbox, losses, tries, late>>

TakeReply(u) ==
  /\ inbox[u] # <<>>
  /\ \E look \in {"first", "second"} : Wait(u, look, "idle")
  /\ inbox' = [inbox EXCEPT ![u] = Tail(@)]
  /\ told' = [told EXCEPT ![u] = <<Head(todo[u]), Head(inbox[u])>>]
  /\ todo' = [todo EXCEPT ![u] = Tail(@)]
  /\ UNCHANGED <<store, server, handler, mail, losses, tries, late>>

Miss(u) ==
  /\ inbox[u] = <<>>
  /\ Wait(u, "first", "second")
  /\ tries' = [tries EXCEPT ![u] = @ + 1]
  /\ UNCHANGED <<store, server, handler, network, todo, told, late>>

MayTry(u) == tries[u] < 3

TryAgain(u) ==
  /\ inbox[u] = <<>> /\ MayTry(u)
  /\ Wait(u, "second", "first")
  /\ late' = [late EXCEPT ![u] = TRUE]
  /\ Post(u, Head(todo[u]))
  /\ UNCHANGED <<store, server, handler, inbox, tries, todo, told>>

GiveUp(u) ==
  /\ inbox[u] = <<>> /\ ~ MayTry(u)
  /\ Wait(u, "second", "ended")
  /\ UNCHANGED <<store, server, handler, network, tries, todo, told, late>>

sendWithReplyUDP(u) == TakeReply(u) \/ Miss(u) \/ TryAgain(u) \/ GiveUp(u)

-------------------------------------------------------------------------------
Next ==
  \/ \E c \in Calls : Accept(c) \/ FailToAccept(c) \/ FailToFork(c) \/ handle(c)
  \/ Stop \/ handleUDP
  \/ \E u \in Users : Ask(u) \/ sendWithReplyUDP(u)

Spec == Init /\ [][Next]_vars

\* Some process that can go on does, and a client that connected sends what it has
\* to say or breaks off.  Nobody has to connect or to ask.
FairSpec ==
  /\ Spec
  /\ WF_vars((\E c \in Calls : handle(c)) \/ handleUDP \/ (\E u \in Users : sendWithReplyUDP(u)))

(***************************************************************************)
(* Properties.                                                             *)
(***************************************************************************)
\* Answers are numbered from 1 without gaps, however many handlers take the same
\* number: handleGqu counts them and sends those from 1 to the count.
NumberedWithoutGaps ==
  \A t \in Topics, q \in Questions :
    \A p \in AnswersTo(t, q) : p.answer <= Cardinality(AnswersTo(t, q))

\* There are never more than 99 topics, nor 99 answers to a question, although
\* answers are counted long before the directory is made.
LimitsKept ==
  /\ Cardinality(DOMAIN owner) <= MaxTopics
  /\ \A t \in Topics, q \in Questions : Cardinality(AnswersTo(t, q)) <= MaxAnswers

\* What was accepted before a client connected is not overwritten for it.  Two
\* uploads at the same time may share a directory, and then both are told OK.
EarlierIsSafe ==
  \A c \in Calls, g \in Calls :
    g \in before[c] /\ place[c] # Nowhere => place[c] # place[g]

\* A download that ends as complete brings every answer that was accepted before, by
\* its number and whole, unless newer ones have pushed it out of the last ten,
\* somebody wrote to the same directory at the same time, or the handler ran out of
\* descriptors before it: then it has none left, and has sent none that comes later.
Pushed(c, g) == place[g].answer <= count[c] - Window
Short(c, g) == free[c] = 0 /\ \A x \in got[c] : x.answer < place[g].answer
Shared(g) == \E h \in Calls \ {g} : place[h] = place[g]

DownloadHasEarlier ==
  \A c \in Commands({"GQU"}), g \in Commands({"ANS"}) :
    g \in before[c] /\ Subject(g) = Subject(c) /\ reply[c] = "QGR" =>
      \/ [answer |-> place[g].answer, user |-> g, data |-> g] \in got[c]
      \/ Pushed(c, g) \/ Shared(g) \/ Short(c, g)

\* What a user is told is the truth, as long as it never had to ask twice: the
\* next datagram is then the reply to the last one.
ToldTrue ==
  \A u \in Users : told[u] # <<>> /\ ~ late[u] =>
    LET asked == told[u][1]
        r == told[u][2] IN
    /\ r.command = asked.command
    /\ r.command = "PTP" /\ r.code = "OK" => asked.topic \in DOMAIN owner /\ owner[asked.topic] = u
    /\ r.command = "PTP" /\ r.code = "DUP" => asked.topic \in DOMAIN owner
    /\ r.command = "PTP" /\ r.code = "FUL" => Cardinality(DOMAIN owner) = MaxTopics
    /\ r.command = "LTP" => \A x \in r.list : x[1] \in DOMAIN owner /\ owner[x[1]] = x[2]

\* Every handler and every exchange of datagrams comes to an end, also when the server
\* runs out of descriptors, stops or crashes, but for clients that leave the handler
\* spinning.
Busy ==
  \/ \E c \in Calls : pc[c] \notin {"out", "ended", "spins"}
  \/ \E u \in Users : at_user[u] \in {"first", "second"}

Answered == Busy ~> ~ Busy
===============================================================================
