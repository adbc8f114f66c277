-------------------------------- MODULE Parte1 --------------------------------
(***************************************************************************)
(* FP-1718, Project 2, parte1.py: the teacher's recogniser of the grammar, *)
(* which the game uses.  Strings are sequences of letters, as in           *)
(* Gramatica.                                                              *)
(***************************************************************************)
EXTENDS Integers, Sequences

\* inp[i:] and inp[:i]: a negative i counts from the end, and never leaves inp.
Position(inp, i) ==
  IF i >= 0 THEN i ELSE IF Len(inp) + i < 0 THEN 0 ELSE Len(inp) + i
From(inp, i) == SubSeq(inp, Position(inp, i) + 1, Len(inp))
Upto(inp, i) == SubSeq(inp, 1, Position(inp, i))

(***************************************************************************)
(* Letters and pairs of letters.                                           *)
(***************************************************************************)
artigo_def(chr)    == chr \in {"A", "O"}
vogal_palavra(chr) == artigo_def(chr) \/ chr = "E"
vogal(chr)         == chr \in {"I", "U"} \/ vogal_palavra(chr)

ditongo_palavra(inp) == inp \in {<<"A", "I">>, <<"A", "O">>, <<"E", "U">>, <<"O", "U">>}
ditongo(inp) ==
  \/ inp \in {<<"A", "E">>, <<"A", "U">>, <<"E", "I">>, <<"O", "E">>, <<"O", "I">>, <<"I", "U">>}
  \/ ditongo_palavra(inp)
par_vogais(inp) == ditongo(inp) \/ inp \in {<<"I", "A">>, <<"I", "O">>}

consoante_freq(inp)     == inp \in {"D", "L", "M", "N", "P", "R", "S", "T", "V"}
consoante_terminal(inp) == inp \in {"L", "M", "R", "S", "X", "Z"}
consoante_final(inp)    == inp \in {"N", "P"} \/ consoante_terminal(inp)
consoante(inp) ==
  inp \in {"B", "C", "D", "F", "G", "H", "J", "L", "M", "N", "P", "Q", "R", "S", "T", "V", "X", "Z"}
par_consoantes(inp) ==
  inp \in {<<"B", "R">>, <<"C", "R">>, <<"F", "R">>, <<"G", "R">>, <<"P", "R">>, <<"T", "R">>,
           <<"V", "R">>, <<"B", "L">>, <<"C", "L">>, <<"F", "L">>, <<"G", "L">>, <<"P", "L">>}

(***************************************************************************)
(* Syllables and monosyllables, by length.                                 *)
(***************************************************************************)
monossilabo_2(inp) ==
  /\ Len(inp) = 2
  /\ \/ inp \in {<<"A", "R">>, <<"I", "R">>, <<"E", "M">>, <<"U", "M">>}
     \/ ditongo_palavra(inp)
     \/ vogal_palavra(inp[1]) /\ inp[2] = "S"
     \/ consoante_freq(inp[1]) /\ vogal(inp[2])

monossilabo_3(inp) ==
  /\ Len(inp) = 3
  /\ \/ consoante(inp[1]) /\ vogal(inp[2]) /\ consoante_terminal(inp[3])
     \/ par_vogais(Upto(inp, 2)) /\ consoante_terminal(inp[3])
     \/ consoante(inp[1]) /\ ditongo(From(inp, 1))

monossilabo(inp) ==
  (Len(inp) = 1 /\ vogal_palavra(inp[1])) \/ monossilabo_2(inp) \/ monossilabo_3(inp)

silaba_2(inp) ==
  /\ Len(inp) = 2
  /\ \/ par_vogais(inp)
     \/ consoante(inp[1]) /\ vogal(inp[2])
     \/ vogal(inp[1]) /\ consoante_final(inp[2])

silaba_3(inp) ==
  /\ Len(inp) = 3
  /\ \/ inp \in {<<"Q", "U", "A">>, <<"Q", "U", "E">>, <<"Q", "U", "I">>,
                 <<"G", "U", "E">>, <<"G", "U", "I">>}
     \/ vogal(inp[1]) /\ From(inp, 1) = <<"N", "S">>
     \/ consoante(inp[1]) /\ par_vogais(From(inp, 1))
     \/ consoante(inp[1]) /\ vogal(inp[2]) /\ consoante_final(inp[3])
     \/ par_vogais(Upto(inp, 2)) /\ consoante_final(inp[3])
     \/ par_consoantes(Upto(inp, 2)) /\ vogal(inp[3])

silaba_4(inp) ==
  /\ Len(inp) = 4
  /\ \/ par_vogais(Upto(inp, 2)) /\ From(inp, 2) = <<"N", "S">>
     \/ consoante(inp[1]) /\ vogal(inp[2]) /\ From(inp, 2) = <<"N", "S">>
     \/ consoante(inp[1]) /\ vogal(inp[2]) /\ From(inp, 2) = <<"I", "S">>
     \/ par_consoantes(Upto(inp, 2)) /\ par_vogais(From(inp, 2))
     \/ consoante(inp[1]) /\ par_vogais(SubSeq(inp, 2, 3)) /\ consoante_final(inp[4])

\* The code asks for five letters or more; what is left after three is NS.
silaba_5(inp) ==
  Len(inp) >= 5 /\ par_consoantes(Upto(inp, 2)) /\ vogal(inp[3]) /\ From(inp, 3) = <<"N", "S">>

silaba_final(inp) == monossilabo_2(inp) \/ monossilabo_3(inp) \/ silaba_4(inp) \/ silaba_5(inp)

silaba(inp) ==
  \/ Len(inp) = 1 /\ vogal(inp[1])
  \/ silaba_2(inp) \/ silaba_3(inp) \/ silaba_4(inp) \/ silaba_5(inp)

(***************************************************************************)
(* Words.                                                                  *)
(***************************************************************************)
\* The recursive calls look at suffixes of inp: Resto[n] is that of inp[n:].
palavra_auxilar(inp) ==
  LET Resto[n \in 0 .. Len(inp)] ==
        \/ n = Len(inp) \/ silaba(From(inp, n))
        \/ \E i \in n + 1 .. Len(inp) - 1 : silaba(SubSeq(inp, n + 1, i)) /\ Resto[i]
  IN Resto[0]

\* Mutant: only what is in front of a last syllable of up to four letters is tried.
palavra_four(inp) ==
  \/ monossilabo(inp) \/ silaba_final(inp)
  \/ \E i \in Len(inp) - 4 .. Len(inp) - 2 :
       silaba_final(From(inp, i)) /\ palavra_auxilar(Upto(inp, i))

palavra(inp) ==
  \/ monossilabo(inp) \/ silaba_final(inp)
  \/ \E i \in Len(inp) - 5 .. Len(inp) - 2 :
       silaba_final(From(inp, i)) /\ palavra_auxilar(Upto(inp, i))

\* What the game and the tests call, with strings.
e_silaba(string)      == silaba(string)
e_monossilabo(string) == monossilabo(string)
e_palavra(string)     == palavra(string)

===============================================================================
