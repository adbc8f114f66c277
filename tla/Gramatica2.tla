------------------------------ MODULE Gramatica2 ------------------------------
(***************************************************************************)
(* FP-1718, Project 1, gramatica_2.py: a second version of gramatica.py    *)
(* that differs in the recursion of e_palavra, which has no loop.          *)
(***************************************************************************)
EXTENDS Gramatica

\* e_palavra_aux(s[:n], e_silaba, i) is Silabas[<<n, i>>], of which i <= n; the first
\* call has another recogniser of syllables, and comes back to itself with i - 1.
e_palavra_aux_2(s, first) ==
  LET Calls == {call \in (0 .. Len(s)) \X (0 .. 5) : call[2] <= call[1]}
      Silabas[call \in Calls] ==
        LET n == call[1]
            i == call[2]
        IN /\ i # 0
           /\ \/ e_silaba(SubSeq(s, 1, n))
              \/ e_silaba(SubSeq(s, n - i + 1, n)) /\ Silabas[<<n - i, Minimum(5, n - i)>>]
              \/ Silabas[<<n, i - 1>>]
      Final[i \in 0 .. first] ==
        /\ i # 0
        /\ \/ e_silaba_final(s)
           \/ e_silaba_final(SubSeq(s, Len(s) - i + 1, Len(s)))
                /\ Silabas[<<Len(s) - i, Minimum(5, Len(s) - i)>>]
           \/ Final[i - 1]
  IN Final[first]

e_palavra_2(s) == e_monossilabo(s) \/ e_palavra_aux_2(s, Minimum(5, Len(s)))
===============================================================================
