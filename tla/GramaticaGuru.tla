---------------------------- MODULE GramaticaGuru ----------------------------
(***************************************************************************)
(* The grammar that FP-1718 asks the two projects to recognise             *)
(* (Project 1/Enunciado.pdf, section 1.1), as languages: sets of strings,  *)
(* put together by union and concatenation.  It is the reference for       *)
(* Gramatica, Gramatica2 and Parte1 and models no code.                    *)
(***************************************************************************)
EXTENDS Integers, Sequences

One(S)      == {<<c>> : c \in S}
Cat(A, B)   == {a \o b : a \in A, b \in B}
NS          == {<<"N", "S">>}
Pairs(A, B) == Cat(One(A), One(B))

vogal_palavra == One({"A", "O", "E"})
vogal         == One({"I", "U"}) \union vogal_palavra

ditongo_palavra == {<<"A", "I">>, <<"A", "O">>, <<"E", "U">>, <<"O", "U">>}
ditongo == {<<"A", "E">>, <<"A", "U">>, <<"E", "I">>, <<"O", "E">>, <<"O", "I">>, <<"I", "U">>}
             \union ditongo_palavra
par_vogais == ditongo \union {<<"I", "A">>, <<"I", "O">>}

consoante_freq     == One({"D", "L", "M", "N", "P", "R", "S", "T", "V"})
consoante_terminal == One({"L", "M", "R", "S", "X", "Z"})
consoante_final    == One({"N", "P"}) \union consoante_terminal
consoante == One({"B", "C", "D", "F", "G", "H", "J", "L", "M", "N", "P", "Q", "R", "S", "T", "V", "X", "Z"})
par_consoantes == Pairs({"B", "C", "F", "G", "P", "T", "V"}, {"R"})
                    \union Pairs({"B", "C", "F", "G", "P"}, {"L"})

monossilabo_2 ==
  UNION {{<<"A", "R">>, <<"I", "R">>, <<"E", "M">>, <<"U", "M">>},
         Cat(vogal_palavra, One({"S"})), ditongo_palavra, Cat(consoante_freq, vogal)}
monossilabo_3 ==
  UNION {Cat(Cat(consoante, vogal), consoante_terminal), Cat(consoante, ditongo),
         Cat(par_vogais, consoante_terminal)}
monossilabo == UNION {vogal_palavra, monossilabo_2, monossilabo_3}

silaba_2 == UNION {par_vogais, Cat(consoante, vogal), Cat(vogal, consoante_final)}
silaba_3 ==
  UNION {Cat(Pairs({"Q"}, {"U"}), One({"A", "E", "I"})), Cat(Pairs({"G"}, {"U"}), One({"E", "I"})),
         Cat(vogal, NS), Cat(consoante, par_vogais), Cat(Cat(consoante, vogal), consoante_final),
         Cat(par_vogais, consoante_final), Cat(par_consoantes, vogal)}
silaba_4 ==
  UNION {Cat(par_vogais, NS), Cat(Cat(consoante, vogal), NS), Cat(Cat(consoante, vogal), {<<"I", "S">>}),
         Cat(par_consoantes, par_vogais), Cat(Cat(consoante, par_vogais), consoante_final)}
silaba_5 == Cat(Cat(par_consoantes, vogal), NS)

silaba_final == UNION {monossilabo_2, monossilabo_3, silaba_4, silaba_5}
silaba       == UNION {vogal, silaba_2, silaba_3, silaba_4, silaba_5}

\* <silaba>*: s can be cut into syllables.
Silabas(s) ==
  \E cuts \in SUBSET (1 .. Len(s) - 1) :
    LET ends == cuts \union {0, Len(s)}
    IN \A a, b \in ends :
         (a < b /\ \A c \in ends : c <= a \/ b <= c) => SubSeq(s, a + 1, b) \in silaba

\* <palavra> ::= <monossilabo> | <silaba>* <silaba_final>
palavra(s) ==
  \/ s \in monossilabo
  \/ \E k \in 0 .. Len(s) : SubSeq(s, k + 1, Len(s)) \in silaba_final /\ Silabas(SubSeq(s, 1, k))
===============================================================================
