----------------------------- MODULE Reconhecedores -----------------------------
(***************************************************************************)
(* FP-1718: the three recognisers, gramatica.py and gramatica_2.py of      *)
(* Project 1 and parte1.py of Project 2, against the grammar they were     *)
(* written for and against each other, on one string.                      *)
(***************************************************************************)
EXTENDS Gramatica2

Teacher  == INSTANCE Parte1
Language == INSTANCE GramaticaGuru

VARIABLE texto  \* the string

\* gramatica.py takes for syllables, monosyllables and words what the grammar does:
\* the recursion from the end misses no way to cut a string, however the last
\* syllable overlaps others that could end it.
StudentIsRight ==
  /\ e_silaba(texto) <=> texto \in Language!silaba
  /\ e_monossilabo(texto) <=> texto \in Language!monossilabo
  /\ e_palavra(texto) <=> Language!palavra(texto)

\* parte1.py does too, although its loop over the last syllable starts at a
\* negative index of short strings, its recursion goes from the front, and it
\* asks less of the length of a syllable of five letters.
TeacherIsRight ==
  /\ Teacher!e_silaba(texto) <=> texto \in Language!silaba
  /\ Teacher!e_monossilabo(texto) <=> texto \in Language!monossilabo
  /\ Teacher!e_palavra(texto) <=> Language!palavra(texto)

\* The second version of the project decides every string as the first does,
\* with its bound on the syllable carried through the recursion.
VersionsAgree == e_palavra_2(texto) <=> e_palavra(texto)

\* The three recognisers accept the words of the grammar and no others.
RecognisersAreRight == StudentIsRight /\ TeacherIsRight /\ VersionsAgree
=================================================================================
