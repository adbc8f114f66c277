------------------------------- MODULE AdvShell -------------------------------
(***************************************************************************)
(* CircuitRouter-AdvShell (SO-1819): a shell whose run commands start      *)
(* solvers, at most MaxChildren at a time, and whose exit waits for them   *)
(* and lists how they ended.  The main loop and the handler of SIGCHLD     *)
(* share the count of children and the list of processes: the handler may  *)
(* run between any two instructions of the loop, never the other way round.*)
(*                                                                         *)
(* Process identifiers are not used again, as on a system that counts up.  *)
(***************************************************************************)
EXTENDS Integers, FiniteSets

CONSTANTS
  Children,         \* bound: the processes that run commands may start
  MaxChildren,      \* maxChildren: the argument of the shell, 0 for no limit
  MaxForkFailures,  \* bound: how many calls of fork may fail
  Failed            \* -1, the result of such a call

ASSUME ChildrenAssumption == IsFiniteSet(Children) /\ Failed \notin Children
ASSUME MaxChildrenAssumption == MaxChildren \in Nat
ASSUME ForkFailuresAssumption == MaxForkFailures \in Nat

VARIABLES
  pc,            \* where the main loop is
  command,       \* the command that it carries out
  pid,           \* the child it started last
  register,      \* what children++ has read
  errno,
  children,      \* the count
  pinfoList,     \* per child: its entry, -1 until the handler finds it
  handling,      \* is the handler running?
  pending,       \* is a SIGCHLD pending?  Signals do not queue.
  process,       \* external, per child: the process
  status,        \* external, per child: how it ended
  forkFailures   \* bound: calls of fork that failed so far

shared == <<children, pinfoList>>
signal == <<handling, pending>>
kernel == <<process, status, forkFailures>>
vars   == <<pc, command, pid, register, errno, shared, signal, kernel>>

Init ==
  /\ pc = "select" /\ command = "none"
  /\ pid = Failed /\ register = 0 /\ errno = "none"
  /\ children = 0
  /\ pinfoList = [c \in Children |-> "absent"]
  /\ handling = FALSE /\ pending = FALSE
  /\ process = [c \in Children |-> "none"]
  /\ status = [c \in Children |-> "none"]
  /\ forkFailures = 0

(***************************************************************************)
(* The main loop.  It does not advance while the handler runs.             *)
(***************************************************************************)
Goto(from, to) == ~ handling /\ pc = from /\ pc' = to

\* A line is read: "run" with a file, or "exit", which the end of the input and
\* a line of too many words mean as well.  Other lines change nothing.
ReadRun ==
  /\ Goto("select", "test")
  /\ \E c \in Children : process[c] = "none"
  /\ command' = "run"
  /\ UNCHANGED <<pid, register, errno, shared, signal, kernel>>

ReadExit ==
  /\ Goto("select", "test")
  /\ command' = "exit"
  /\ UNCHANGED <<pid, register, errno, shared, signal, kernel>>

\* select was interrupted and sets errno; only EINTR is no error.
SetErrno ==
  /\ Goto("interrupted", "check")
  /\ errno' = "EINTR"
  /\ UNCHANGED <<command, pid, register, shared, signal, kernel>>

CheckErrno ==
  /\ Goto("check", IF errno = "EINTR" THEN "select" ELSE "failed")
  /\ UNCHANGED <<command, pid, register, errno, shared, signal, kernel>>

\* Mutant: one child too many.
TooManyByOne ==
  IF command = "run" THEN MaxChildren # 0 /\ children > MaxChildren ELSE children # 0

\* The conditions of the two loops around pause.
TooMany ==
  IF command = "run" THEN MaxChildren # 0 /\ children >= MaxChildren ELSE children # 0

\* The loop finds that it has to wait, and then calls pause.
DecideToWait ==
  /\ TooMany
  /\ Goto("test", "pause")
  /\ UNCHANGED <<command, pid, register, errno, shared, signal, kernel>>

Pause ==
  /\ Goto("pause", "asleep")
  /\ UNCHANGED <<command, pid, register, errno, shared, signal, kernel>>

\* Nothing to wait for.  exit then prints the list and returns.
Proceed ==
  /\ ~ TooMany
  /\ Goto("test", IF command = "run" THEN "fork" ELSE "done")
  /\ UNCHANGED <<command, pid, register, errno, shared, signal, kernel>>

Fork ==
  /\ Goto("fork", "load")
  /\ \E c \in Children :
       /\ process[c] = "none"
       /\ process' = [process EXCEPT ![c] = "running"]
       /\ pid' = c
  /\ UNCHANGED <<command, register, errno, shared, signal, status, forkFailures>>

\* The result of fork is not checked.
FailToFork ==
  /\ Goto("fork", "load")
  /\ forkFailures < MaxForkFailures
  /\ forkFailures' = forkFailures + 1
  /\ pid' = Failed
  /\ UNCHANGED <<command, register, errno, shared, signal, process, status>>

\* children++ is compiled without optimisation: load, add and store.
LoadChildren ==
  /\ Goto("load", "store")
  /\ register' = children
  /\ UNCHANGED <<command, pid, errno, shared, signal, kernel>>

\* Mutant: the child is not counted.
StoreChildrenUncounted ==
  /\ Goto("store", "insert")
  /\ children' = register
  /\ UNCHANGED <<command, pid, register, errno, pinfoList, signal, kernel>>

StoreChildren ==
  /\ Goto("store", "insert")
  /\ children' = register + 1
  /\ UNCHANGED <<command, pid, register, errno, pinfoList, signal, kernel>>

\* Mutant: the state of a new entry is 0, an exit with status 0.
InsertAsOk ==
  /\ Goto("insert", "select")
  /\ pinfoList' = [c \in Children |-> IF c = pid THEN "OK" ELSE pinfoList[c]]
  /\ UNCHANGED <<command, pid, register, errno, children, signal, kernel>>

\* makepinfo and list_insert, which links the new node with one assignment.
Insert ==
  /\ Goto("insert", "select")
  /\ pinfoList' = [c \in Children |-> IF c = pid THEN "-1" ELSE pinfoList[c]]
  /\ UNCHANGED <<command, pid, register, errno, children, signal, kernel>>

(***************************************************************************)
(* sigchildHandler.  All signals are blocked while it runs; one iteration  *)
(* of its loop is a step, since children may end meanwhile.                *)
(***************************************************************************)
Deliver ==
  /\ pending /\ ~ handling /\ pc \notin {"done", "failed"}
  /\ handling' = TRUE /\ pending' = FALSE
  /\ UNCHANGED <<pc, command, pid, register, errno, shared, kernel>>

\* Mutant: waitpid is called once per signal.
ReapOne(c) ==
  /\ handling /\ process[c] = "zombie"
  /\ process' = [process EXCEPT ![c] = "gone"]
  /\ children' = children - 1
  /\ pinfoList' =
       [pinfoList EXCEPT ![c] = IF @ = "absent" THEN "absent" ELSE status[c]]
  /\ handling' = FALSE
  /\ pc' = IF pc = "asleep" THEN "test" ELSE pc
  /\ UNCHANGED <<command, pid, register, errno, pending, status, forkFailures>>

\* waitpid returns a child that has ended: an entry that is not yet in the list
\* is not found.
Reap(c) ==
  /\ handling /\ process[c] = "zombie"
  /\ process' = [process EXCEPT ![c] = "gone"]
  /\ children' = children - 1
  /\ pinfoList' =
       [pinfoList EXCEPT ![c] = IF @ = "absent" THEN "absent" ELSE status[c]]
  /\ UNCHANGED <<pc, command, pid, register, errno, signal, status, forkFailures>>

\* Mutant: SA_RESTART is taken to hold for pause, which is never restarted.
FinishHandlerRestarting ==
  /\ handling /\ \A c \in Children : process[c] # "zombie"
  /\ handling' = FALSE
  /\ errno' = IF \E c \in Children : process[c] = "running" THEN errno ELSE "ECHILD"
  /\ pc' = IF pc = "select" THEN "interrupted" ELSE pc
  /\ UNCHANGED <<command, pid, register, shared, pending, kernel>>

\* waitpid has no more: 0 when there are children, -1 with ECHILD when there are
\* none.  pause returns; select returns with an error.
FinishHandler ==
  /\ handling /\ \A c \in Children : process[c] # "zombie"
  /\ handling' = FALSE
  /\ errno' = IF \E c \in Children : process[c] = "running" THEN errno ELSE "ECHILD"
  /\ pc' = CASE pc = "asleep" -> "test"
             [] pc = "select" -> "interrupted"
             [] OTHER -> pc
  /\ UNCHANGED <<command, pid, register, shared, pending, kernel>>

\* A solver ends, with exit status 0 or not, and SIGCHLD is sent.
End(c) ==
  /\ process[c] = "running"
  /\ process' = [process EXCEPT ![c] = "zombie"]
  /\ \E s \in {"OK", "NOK"} : status' = [status EXCEPT ![c] = s]
  /\ pending' = TRUE
  /\ UNCHANGED <<pc, command, pid, register, errno, shared, handling, forkFailures>>

main ==
  \/ SetErrno \/ CheckErrno
  \/ DecideToWait \/ Pause \/ Proceed
  \/ Fork \/ FailToFork \/ LoadChildren \/ StoreChildren \/ Insert

sigchildHandler == Deliver \/ (\E c \in Children : Reap(c)) \/ FinishHandler

Next ==
  \/ ReadRun \/ ReadExit \/ main \/ sigchildHandler
  \/ \E c \in Children : End(c)

Spec == Init /\ [][Next]_vars

\* The loop and the handler run unless they are blocked, and every solver ends.
\* The user need not give any command.
FairSpec ==
  /\ Spec
  /\ WF_vars(main) /\ WF_vars(sigchildHandler)
  /\ \A c \in Children : WF_vars(End(c))

-------------------------------------------------------------------------------
(***************************************************************************)
(* Properties.                                                             *)
(***************************************************************************)
\* The types, and that a child has a status once it has ended.  The count is
\* below zero when a child is reaped before it was counted.
TypeOK ==
  /\ pc \in {"select", "interrupted", "check", "test", "pause", "asleep", "fork",
             "load", "store", "insert", "done", "failed"}
  /\ command \in {"none", "run", "exit"}
  /\ pid \in Children \cup {Failed}
  /\ register \in Int /\ children \in Int
  /\ errno \in {"none", "EINTR", "ECHILD"}
  /\ pinfoList \in [Children -> {"absent", "-1", "OK", "NOK"}]
  /\ handling \in BOOLEAN /\ pending \in BOOLEAN
  /\ process \in [Children -> {"none", "running", "zombie", "gone"}]
  /\ status \in [Children -> {"none", "OK", "NOK"}]
  /\ forkFailures \in Nat
  /\ \A c \in Children : status[c] = "none" <=> process[c] \in {"none", "running"}

Unreaped == {c \in Children : process[c] \in {"running", "zombie"}}

\* "Please only provide the maximum of processes allowed": no more than that are
\* ever running, although the count is updated behind the loop's back.
LimitKept == MaxChildren # 0 => Cardinality(Unreaped) <= MaxChildren

\* The shell leaves no child behind, and frees the list only when no handler
\* will look at it again: updates of the count may be lost, but only such that
\* it is too high.
NobodyLeft == pc \in {"done", "failed"} => Unreaped = {} /\ ~ handling

\* exit lists every child; one is listed as OK only if it ended so.
ListIsTrue ==
  pc = "done" => \A c \in Children :
    /\ process[c] = "gone" => pinfoList[c] # "absent"
    /\ pinfoList[c] = "OK" => status[c] = "OK"

\* No child stays a zombie, though several may end for one signal.
AllReaped == \A c \in Children : process[c] = "zombie" ~> process[c] = "gone"

\* "wait for sigchlds...": when the user wishes to exit, the shell waits for the
\* children and then ends.  It need not, for two reasons only, besides a fork
\* that failed and was counted: the handler runs inside children++, or between
\* the test of children and pause, which then waits for a signal that was the
\* last one.
Interferes == handling /\ pc \in {"store", "pause"}

ExitsUndisturbed ==
  [](~ Interferes /\ forkFailures = 0) => (command = "exit" ~> pc = "done")
===============================================================================
