------------------------------ MODULE Gramatica ------------------------------
(***************************************************************************)
(* FP-1718, Project 1, gramatica.py: recognisers of the syllables and      *)
(* words of a small grammar.  A string is a sequence of letters; where the *)
(* code calls a recogniser of letters with a whole string, the string must *)
(* have length one.  Python's s[a:b] is SubSeq(s, a + 1, b).               *)
(***************************************************************************)
EXTENDS Integers, Sequences

Minimum(a, b) == IF a <= b THEN a ELSE b
Ending(s, n)  == SubSeq(s, Len(s) - n + 1, Len(s))  \* s[-n:]

(***************************************************************************)
(* Letters and pairs of letters.                                           *)
(***************************************************************************)
e_artigo_def(c)    == c \in {"A", "O"}
e_vogal_palavra(c) == c = "E" \/ e_artigo_def(c)
e_vogal(c)         == c \in {"I", "U"} \/ e_vogal_palavra(c)

e_ditongo_palavra(s) == s \in {<<"A", "I">>, <<"A", "O">>, <<"E", "U">>, <<"O", "U">>}
e_ditongo(s) ==
  \/ s \in {<<"A", "E">>, <<"A", "U">>, <<"E", "I">>, <<"O", "E">>, <<"O", "I">>, <<"I", "U">>}
  \/ e_ditongo_palavra(s)
e_par_vogais(s) == s \in {<<"I", "A">>, <<"I", "O">>} \/ e_ditongo(s)

e_consoante_freq(c)     == c \in {"D", "L", "M", "N", "P", "R", "S", "T", "V"}
e_consoante_terminal(c) == c \in {"L", "M", "R", "S", "X", "Z"}
e_consoante_final(c)    == c \in {"N", "P"} \/ e_consoante_terminal(c)
e_consoante(c) ==
  c \in {"B", "C", "D", "F", "G", "H", "J", "L", "M", "N", "P", "Q", "R", "S", "T", "V", "X", "Z"}
e_par_consoantes(c) ==
  c \in ({"B", "C", "F", "G", "P", "T", "V"} \X {"R"}) \union ({"B", "C", "F", "G", "P"} \X {"L"})

(***************************************************************************)
(* Syllables and monosyllables, by length.                                 *)
(***************************************************************************)
e_monossilabo_2(s) ==
  /\ Len(s) = 2
  /\ \/ s \in {<<"A", "R">>, <<"I", "R">>, <<"E", "M">>, <<"U", "M">>}
     \/ e_ditongo_palavra(s)
     \/ e_vogal_palavra(s[1]) /\ s[2] = "S"
     \/ e_consoante_freq(s[1]) /\ e_vogal(s[2])

e_monossilabo_3(s) ==
  /\ Len(s) = 3
  /\ \/ e_consoante(s[1]) /\ e_vogal(s[2]) /\ e_consoante_terminal(s[3])
     \/ e_consoante(s[1]) /\ e_ditongo(Ending(s, 2))
     \/ e_par_vogais(SubSeq(s, 1, 2)) /\ e_consoante_terminal(s[3])

e_silaba_2(s) ==
  /\ Len(s) = 2
  /\ \/ e_par_vogais(s)
     \/ e_consoante(s[1]) /\ e_vogal(s[2])
     \/ e_vogal(s[1]) /\ e_consoante_final(s[2])

e_silaba_3(s) ==
  /\ Len(s) = 3
  /\ \/ s \in ({"Q"} \X {"U"} \X {"A", "E", "I"}) \union ({"G"} \X {"U"} \X {"E", "I"})
     \/ e_vogal(s[1]) /\ Ending(s, 2) = <<"N", "S">>
     \/ e_consoante(s[1]) /\ e_par_vogais(Ending(s, 2))
     \/ e_consoante(s[1]) /\ e_vogal(s[2]) /\ e_consoante_final(s[3])
     \/ e_par_vogais(SubSeq(s, 1, 2)) /\ e_consoante_final(s[3])
     \/ e_par_consoantes(SubSeq(s, 1, 2)) /\ e_vogal(s[3])

e_silaba_4(s) ==
  /\ Len(s) = 4
  /\ \/ e_par_vogais(SubSeq(s, 1, 2)) /\ Ending(s, 2) = <<"N", "S">>
     \/ e_consoante(s[1]) /\ e_vogal(s[2]) /\ Ending(s, 2) \in {<<"N", "S">>, <<"I", "S">>}
     \/ e_par_consoantes(SubSeq(s, 1, 2)) /\ e_par_vogais(Ending(s, 2))
     \/ e_consoante(s[1]) /\ e_par_vogais(SubSeq(s, 2, 3)) /\ e_consoante_final(s[4])

e_silaba_5(s) ==
  Len(s) = 5 /\ e_par_consoantes(SubSeq(s, 1, 2)) /\ e_vogal(s[3]) /\ Ending(s, 2) = <<"N", "S">>

e_silaba_final(s) == e_monossilabo_2(s) \/ e_monossilabo_3(s) \/ e_silaba_4(s) \/ e_silaba_5(s)

e_silaba(s) ==
  \/ Len(s) = 1 /\ e_vogal(s[1])
  \/ e_silaba_2(s) \/ e_silaba_3(s) \/ e_silaba_4(s) \/ e_silaba_5(s)

e_monossilabo(s) ==
  (Len(s) = 1 /\ e_vogal_palavra(s[1])) \/ e_monossilabo_2(s) \/ e_monossilabo_3(s)

(***************************************************************************)
(* Words.  All calls of e_palavra_aux but the first look at a prefix of    *)
(* the string with e_silaba: Silabas[n] is the call for s[:n].             *)
(***************************************************************************)
e_palavra_aux(s) ==
  LET Silabas[n \in 0 .. Len(s)] ==
        \/ e_silaba(SubSeq(s, 1, n))
        \/ \E i \in 1 .. Minimum(n, 5) : e_silaba(SubSeq(s, n - i + 1, n)) /\ Silabas[n - i]
  IN \/ e_silaba_final(s)
     \/ \E i \in 1 .. Minimum(Len(s), 5) : e_silaba_final(Ending(s, i)) /\ Silabas[Len(s) - i]

e_palavra(s) == e_monossilabo(s) \/ e_palavra_aux(s)

=============================================================================
