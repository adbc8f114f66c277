------------------------------ MODULE TpcSemana9 ------------------------------
(***************************************************************************)
(* FP-1718, Week 9, tpc.py: functions on natural numbers and lists, some   *)
(* of them written three times, with deferred operations, tail recursion   *)
(* and a loop.  The inner functions and the loops are recursive functions  *)
(* here; their arguments are those of the calls.                           *)
(***************************************************************************)
EXTENDS Integers, Sequences

misterio(x, n) ==
  LET misterio_aux[soma \in Int, i \in 0 .. n] ==
        IF i = 0 THEN soma ELSE misterio_aux[soma + (x * i), i - 1]
  IN misterio_aux[0, n]

(***************************************************************************)
(* The square of n, the sum of the odd numbers up to 2n.                   *)
(***************************************************************************)
quadrado_rec_adiada(n) ==
  LET aux[i \in 0 .. n + n] ==
        IF i = 0 THEN 0 ELSE IF i % 2 = 0 THEN aux[i - 1] ELSE i + aux[i - 1]
  IN aux[n + n]

quadrado_rec_cauda(n) ==
  LET aux[i \in 0 .. n + n, soma \in Nat] ==
        IF i = 0 THEN soma ELSE IF i % 2 = 0 THEN aux[i - 1, soma] ELSE aux[i - 1, soma + i]
  IN aux[n + n, 0]

quadrado_iterativo(n) ==
  LET while[i \in 0 .. n + n, quadrado \in Nat] ==
        IF i # 0 THEN while[i - 1, IF i % 2 # 0 THEN quadrado + i ELSE quadrado] ELSE quadrado
  IN while[n + n, 0]

(***************************************************************************)
(* Digits.                                                                 *)
(***************************************************************************)
numero_digitos_rec_op_adiadas(n) ==
  LET aux[i \in 0 .. n] == IF i = 0 THEN 0 ELSE 1 + aux[i \div 10]
  IN aux[n]

numero_digitos_rec_cauda(n) ==
  LET aux[i \in 0 .. n, digitos \in Nat] ==
        IF i = 0 THEN digitos ELSE aux[i \div 10, digitos + 1]
  IN aux[n, 0]

numero_digitos_iterativo(n) ==
  LET while[i \in 0 .. n, digitos \in Nat] ==
        IF i # 0 THEN while[i \div 10, digitos + 1] ELSE digitos
  IN while[n, 0]

\* Mutant: the first digit is not taken off.
e_capicua_kept(n) ==
  LET aux[i \in 0 .. n, nd \in Int] ==
        \/ i < 10
        \/ i % 10 = i \div (10 ^ nd) /\ aux[(i \div 10) % (10 ^ nd), nd - 1]
  IN aux[n, numero_digitos_iterativo(n) - 1]

\* The outer digits are compared and taken off.
e_capicua(n) ==
  LET aux[i \in 0 .. n, nd \in Int] ==
        \/ i < 10
        \/ i % 10 = i \div (10 ^ nd) /\ aux[(i \div 10) % (10 ^ (nd - 1)), nd - 2]
  IN aux[n, numero_digitos_iterativo(n) - 1]

espelho(n) ==
  LET aux[inicial \in 0 .. n, final \in Nat] ==
        IF inicial = 0 THEN final ELSE aux[inicial \div 10, (final * 10) + (inicial % 10)]
  IN aux[n, 0]

(***************************************************************************)
(* Sums and divisors.                                                      *)
(***************************************************************************)
maior_inteiro(limite) ==
  LET aux[n \in 1 .. limite + 1, soma \in 0 .. limite] ==
        IF soma - n < 0 THEN n - 1 ELSE aux[n + 1, soma - n]
  IN aux[1, limite]

num_divisores(n) ==
  LET aux[i \in 1 .. n + 1] ==
        IF i > n THEN 0 ELSE IF n % i = 0 THEN 1 + aux[i + 1] ELSE aux[i + 1]
  IN aux[1]

soma_divisores(n) ==
  LET aux[i \in 1 .. n + 1, soma \in Nat] ==
        IF i > n THEN soma ELSE IF n % i = 0 THEN aux[i + 1, soma + i] ELSE aux[i + 1, soma]
  IN aux[1, 0]

\* It stops when i is n, never for 0.
perfeito(n) ==
  LET aux[i \in 1 .. n, soma \in Nat] ==
        IF i = n THEN soma = n ELSE IF n % i = 0 THEN aux[i + 1, soma + i] ELSE aux[i + 1, soma]
  IN aux[1, 0]

perfeitos_entre(fi, la) ==
  LET entre[i \in fi .. la + 1] ==
        IF i > la THEN <<>> ELSE IF perfeito(i) THEN <<i>> \o entre[i + 1] ELSE entre[i + 1]
  IN IF fi > la THEN <<>> ELSE entre[fi]

(***************************************************************************)
(* Lists.                                                                  *)
(***************************************************************************)
RECURSIVE quick_sort(_)

quick_sort(lst) ==
  IF Len(lst) <= 1 THEN lst
  ELSE LET bigger  == SelectSeq(Tail(lst), LAMBDA el : el > lst[1])
           smaller == SelectSeq(Tail(lst), LAMBDA el : ~ el > lst[1])
       IN quick_sort(smaller) \o <<lst[1]>> \o quick_sort(bigger)
===============================================================================
