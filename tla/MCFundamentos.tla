---------------------------- MODULE MCFundamentos ----------------------------
(***************************************************************************)
(* The functions of FP-1718 (Fundamentos da Programacao) against what they *)
(* should be and against each other, on bounded inputs:                    *)
(*   - the recognisers on every string of up to Short letters of the       *)
(*     alphabet and every string of up to Long letters of Few;             *)
(*   - the functions on numbers on every number of up to four digits, the  *)
(*     slow ones on those up to Slow;                                      *)
(*   - sorting on every list of up to Size numbers of three.               *)
(* An input grows by a letter, a digit or an element.                      *)
(***************************************************************************)
EXTENDS Reconhecedores, TpcSemana9, FiniteSets

CONSTANTS Short, Long, Slow, Size

VARIABLES n, lst

vars == <<texto, n, lst>>

Alphabet == {"A", "B", "C", "D", "E", "F", "G", "H", "I", "J", "L", "M", "N", "O", "P", "Q",
             "R", "S", "T", "U", "V", "X", "Z", "K"}
Few == {"A", "I", "U", "N", "S", "R", "B"}

ASSUME BoundsAssumption == {Short, Long, Slow, Size} \subseteq Nat

Init == texto = <<>> /\ n = 0 /\ lst = <<>>

Letter ==
  /\ n = 0 /\ lst = <<>>
  /\ \E c \in Alphabet :
       /\ \/ Len(texto) < Short
          \/ Len(texto) < Long /\ \A l \in {texto[i] : i \in 1 .. Len(texto)} \union {c} : l \in Few
       /\ texto' = Append(texto, c)
  /\ UNCHANGED <<n, lst>>

Digit ==
  /\ texto = <<>> /\ lst = <<>> /\ n < 1000
  /\ \E d \in 0 .. 9 : n' = (10 * n) + d
  /\ UNCHANGED <<texto, lst>>

Element ==
  /\ texto = <<>> /\ n = 0 /\ Len(lst) < Size
  /\ \E e \in 1 .. 3 : lst' = Append(lst, e)
  /\ UNCHANGED <<texto, n>>

Next == Letter \/ Digit \/ Element

Spec == Init /\ [][Next]_vars

\* The three ways to write a function of tpc.py compute the same: the square, the
\* number of digits (none for 0), and misterio, which is x times a triangular number.
WaysAgree ==
  /\ LET digits == CHOOSE d \in 0 .. 4 : n < 10 ^ d /\ (d > 0 => n >= 10 ^ (d - 1))
     IN {numero_digitos_rec_op_adiadas(n), numero_digitos_rec_cauda(n),
         numero_digitos_iterativo(n)} = {digits}
  /\ n <= Slow =>
       /\ {quadrado_rec_adiada(n), quadrado_rec_cauda(n), quadrado_iterativo(n)} = {n * n}
       /\ \A x \in -2 .. 2 : 2 * misterio(x, n) = x * n * (n + 1)

\* A number that reads the same backwards is taken for a capicua.  One that does not
\* may be taken for one too (1021 is), but only if it has a 0: the digits between the
\* outer ones are compared as a number, which does not begin with 0 (tpc.py:72).
CapicuaIsMirror ==
  /\ espelho(n) = n => e_capicua(n)
  /\ e_capicua(n) /\ espelho(n) # n => \E k \in 1 .. 2 : (n \div (10 ^ k)) % 10 = 0

\* perfeito, which leaves n out of the sum, and soma_divisores, which does not, agree
\* on what is perfect; perfeitos_entre lists those of an interval in order; and
\* maior_inteiro stops at the last sum that is within the limit.
DivisorsAgree ==
  (0 < n /\ n <= Slow) =>
    LET divisors == {i \in 1 .. n : n % i = 0}
        lista    == perfeitos_entre(1, n)
        m        == maior_inteiro(n)
    IN /\ num_divisores(n) = Cardinality(divisors)
       /\ perfeito(n) <=> soma_divisores(n) = 2 * n
       /\ {lista[i] : i \in DOMAIN lista} = {i \in 1 .. n : soma_divisores(i) = 2 * i}
       /\ \A i, j \in DOMAIN lista : i < j => lista[i] < lista[j]
       /\ m * (m + 1) <= 2 * n /\ 2 * n < (m + 1) * (m + 2)

\* quick_sort gives back what it was given, repeated elements included, in order.
SortIsRight ==
  LET sorted == quick_sort(lst)
  IN /\ \A i, j \in DOMAIN sorted : i < j => sorted[i] <= sorted[j]
     /\ \A e \in 1 .. 3 : Len(SelectSeq(sorted, LAMBDA x : x = e))
                            = Len(SelectSeq(lst, LAMBDA x : x = e))

\* The functions of tpc.py are what their names say, and those written in several
\* ways are one.
FunctionsAreRight == WaysAgree /\ CapicuaIsMirror /\ DivisorsAgree /\ SortIsRight
===============================================================================
