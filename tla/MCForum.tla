-------------------------------- MODULE MCForum --------------------------------
(***************************************************************************)
(* Instances of Forum for TLC.                                             *)
(***************************************************************************)
EXTENDS Forum, TLC

CONSTANTS c1, c2, c3, c4, u1, u2

Dir(q, n) == [topic |-> "t", question |-> q, answer |-> n]
Tree(places) == [p \in places |-> [user |-> "old", data |-> "old"]]
Call(command, q) == [command |-> command, topic |-> "t", question |-> q]
None == Call("none", "q")
Calling(a, b, c, d) == (c1 :> a) @@ (c2 :> b) @@ (c3 :> c) @@ (c4 :> d)
Asks(command, t) == [command |-> command, topic |-> t]

Scene(tree0, calls, first, second, spare0) ==
  [owner |-> [t \in {"t"} |-> Nobody], tree |-> Tree(tree0), request |-> calls,
   todo |-> (u1 :> first) @@ (u2 :> second), spare |-> spare0]

\* More descriptors than all calls and datagrams of a scene can use up.
Many == 20

Plenty == {
  \* Answers that race for a number, one below the limit.
  Scene({Dir("q", 0), Dir("q", 1)},
        Calling(Call("ANS", "q"), Call("ANS", "q"), Call("ANS", "q"), None), <<>>, <<>>, Many),
  \* Answers, and a download, which leaves out the oldest when both are there.
  Scene({Dir("q", 0), Dir("q", 1)},
        Calling(Call("ANS", "q"), Call("ANS", "q"), Call("GQU", "q"), None), <<>>, <<>>, Many),
  \* One question by two clients, the last below the limit, and an answer to it.
  Scene({Dir("r", 0)},
        Calling(Call("QUS", "q"), Call("QUS", "q"), Call("ANS", "q"), None), <<>>, <<>>, Many),
  \* A question and its download, and one handler more than can be started.
  Scene({Dir("r", 0)},
        Calling(Call("QUS", "q"), Call("GQU", "q"), Call("GQU", "s"), Call("ANS", "s")),
        <<>>, <<>>, Many),
  \* A question comes while questions are listed.
  Scene({Dir("r", 0)}, Calling(Call("QUS", "q"), None, None, None),
        <<Asks("LQU", "t"), Asks("LTP", "t")>>, <<>>, Many),
  \* Topics, one more than there is room for: datagrams that are sent again.
  Scene({}, [c \in Calls |-> None],
        <<Asks("PTP", "s")>>, <<Asks("PTP", "r")>>, Many) }

Scarce ==
  \* An answer and a download, which gets to some of the answers with what is left.
  {Scene({Dir("q", 0), Dir("q", 1)},
         Calling(Call("ANS", "q"), Call("GQU", "q"), None, None), <<>>, <<>>, n) : n \in {3, 4, 5, 6, 7, 8}}
  \cup
  \* A server that runs out, between a connection and a datagram of any kind.
  {Scene({Dir("r", 0)}, Calling(Call("QUS", "q"), None, None, None), <<m>>, <<>>, n) :
     m \in {Asks("REG", "t"), Asks("LTP", "t"), Asks("PTP", "t"), Asks("PTP", "s"), Asks("LQU", "t")},
     n \in 0 .. 4}

MCScenes == Plenty \cup Scarce
===============================================================================
