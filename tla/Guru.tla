--------------------------------- MODULE Guru ---------------------------------
(***************************************************************************)
(* FP-1718, Project 2, proj.py: the game Palavra Guru for several players. *)
(* The words of the grammar that can be put together from a tuple of       *)
(* letters are to be found.  Players take turns; a valid word nobody named *)
(* before earns its length, one that is not valid costs its length.  The   *)
(* grammar is parte1.py's.                                                 *)
(*                                                                         *)
(* Names of players, which nothing compares, and messages are left out.    *)
(* Where Python raises an exception that nobody handles, the program ends  *)
(* in a fase of the exception's name.                                      *)
(***************************************************************************)
EXTENDS Integers, Sequences, FiniteSets

CONSTANTS
  Letters,    \* the tuples of letters that the game may be started with
  Attempts,   \* what a player may type
  MaxPlayers, \* bound: how many players enrol
  MaxTurns    \* bound: how many turns are played

Alphabet == <<"A", "B", "C", "D", "E", "F", "G", "H", "I", "J", "K", "L", "M",
              "N", "O", "P", "Q", "R", "S", "T", "U", "V", "W", "X", "Y", "Z">>
Capitals == {Alphabet[i] : i \in 1 .. 26}

ASSUME LettersAssumption == Letters \subseteq Seq(Capitals)
ASSUME AttemptsAssumption == \A t \in Attempts : t \in Seq(STRING)
ASSUME BoundsAssumption == MaxPlayers \in Nat /\ MaxTurns \in Nat

VARIABLES
  letras,     \* the argument of guru_mj
  fase,       \* where guru_mj is
  combinacoes, \* the permutations that gera_todas_palavras_validas has yet to try
  jogadores,  \* the players, in the order of enrolment
  p_validas,  \* the words to find
  p_usadas,   \* the words found
  faltam,     \* how many are not found
  jogada,     \* the number of the turn
  jogador_i,  \* whose turn it is, from 0
  vencedores  \* the players that won

vars == <<letras, fase, combinacoes, jogadores, p_validas, p_usadas, faltam, jogada, jogador_i,
          vencedores>>

Grammar == INSTANCE Parte1

Elements(s) == {s[i] : i \in DOMAIN s}

(***************************************************************************)
(* The types, which e_palavra_potencial, e_conjunto_palavras and e_jogador *)
(* recognise.  The modifiers ask them first; that they never refuse is     *)
(* part of TypeOK.                                                         *)
(***************************************************************************)
Palavras  == Seq(Capitals)
Conjuntos == [palavras : Seq(Seq(Palavras)), numero : Nat]
Jogadores == [pontos : Int, validas : Conjuntos, invalidas : Conjuntos]

(***************************************************************************)
(* The type palavra_potencial.                                             *)
(***************************************************************************)
contagem_repeticoes(l) == [c \in Elements(l) |-> Cardinality({i \in DOMAIN l : l[i] = c})]

\* cria_palavra_potencial returns the word; otherwise it raises ValueError.
e_potencial(palavra, letras_) ==
  LET contagem == contagem_repeticoes(letras_)
      usadas   == contagem_repeticoes(palavra)
  IN \A c \in Elements(palavra) :
       c \in Capitals /\ c \in Elements(letras_) /\ usadas[c] <= contagem[c]

palavra_tamanho(palavra) == Len(palavra)

palavras_potenciais_iguais(p, q) == palavra_tamanho(p) = palavra_tamanho(q) /\ p = q

Place(c) == CHOOSE i \in 1 .. 26 : Alphabet[i] = c
palavra_potencial_menor(p, q) ==
  \E i \in 1 .. Len(q) :
    /\ \A j \in 1 .. i - 1 : j <= Len(p) /\ p[j] = q[j]
    /\ i > Len(p) \/ Place(p[i]) < Place(q[i])

(***************************************************************************)
(* The type conjunto_palavras: lists of words by length, the first one for *)
(* length 0, and the number of words.                                      *)
(***************************************************************************)
cria_conjunto_palavras == [palavras |-> <<>>, numero |-> 0]

numero_palavras(conj) == conj.numero

subconjunto_por_tamanho(conj, tamanho) ==
  IF Len(conj.palavras) <= tamanho THEN <<>> ELSE conj.palavras[tamanho + 1]

palavra_no_conjunto(conj, palavra) ==
  \E p \in Elements(subconjunto_por_tamanho(conj, palavra_tamanho(palavra))) :
    palavras_potenciais_iguais(palavra, p)

\* bisect.insort: after all that are not greater.
insort(lista, palavra) ==
  LET k == Cardinality({i \in DOMAIN lista : ~ palavra_potencial_menor(palavra, lista[i])})
  IN SubSeq(lista, 1, k) \o <<palavra>> \o SubSeq(lista, k + 1, Len(lista))

Padded(conj, tamanho) ==
  [i \in 1 .. IF Len(conj.palavras) <= tamanho THEN tamanho + 1 ELSE Len(conj.palavras) |->
     IF i <= Len(conj.palavras) THEN conj.palavras[i] ELSE <<>>]

acrescenta_palavra(conj, palavra) ==
  LET tamanho == palavra_tamanho(palavra)
      padded  == Padded(conj, tamanho)
  IN IF palavra_no_conjunto(conj, palavra)
       THEN [conj EXCEPT !.palavras = padded]
       ELSE [palavras |-> [padded EXCEPT ![tamanho + 1] = insort(@, palavra)],
             numero   |-> conj.numero + 1]

conjuntos_palavras_iguais(conj1, conj2) == conj1 = conj2

\* The words as they are written: the lengths that occur, each with its list.
conjunto_palavras_para_cadeia(conj) ==
  LET Upto[i \in 0 .. Len(conj.palavras)] ==
        IF i = 0 THEN <<>>
        ELSE IF conj.palavras[i] = <<>> THEN Upto[i - 1]
        ELSE Append(Upto[i - 1], <<i - 1, conj.palavras[i]>>)
  IN Upto[Len(conj.palavras)]

(***************************************************************************)
(* The type jogador.                                                       *)
(***************************************************************************)
cria_jogador ==
  [pontos |-> 0, validas |-> cria_conjunto_palavras, invalidas |-> cria_conjunto_palavras]

adiciona_palavra_valida(jogador, palavra) ==
  IF palavra_no_conjunto(jogador.validas, palavra) THEN jogador
  ELSE [jogador EXCEPT !.pontos = @ + palavra_tamanho(palavra),
                       !.validas = acrescenta_palavra(@, palavra)]

adiciona_palavra_invalida(jogador, palavra) ==
  IF palavra_no_conjunto(jogador.invalidas, palavra) THEN jogador
  ELSE [jogador EXCEPT !.pontos = @ - palavra_tamanho(palavra),
                       !.invalidas = acrescenta_palavra(@, palavra)]

jogador_pontuacao(jogador)          == jogador.pontos
jogador_palavras_validas(jogador)   == jogador.validas
jogador_palavras_invalidas(jogador) == jogador.invalidas

\* What is written of a player at the end.
jogador_para_cadeia(jogador) ==
  [PONTOS    |-> jogador_pontuacao(jogador),
   VALIDAS   |-> conjunto_palavras_para_cadeia(jogador_palavras_validas(jogador)),
   INVALIDAS |-> conjunto_palavras_para_cadeia(jogador_palavras_invalidas(jogador))]

(***************************************************************************)
(* Enrolment, and the words to find.                                       *)
(***************************************************************************)
Init ==
  /\ letras \in Letters
  /\ fase = "inscricao"
  /\ combinacoes = {}
  /\ jogadores = <<>>
  /\ p_validas = cria_conjunto_palavras /\ p_usadas = cria_conjunto_palavras
  /\ faltam = 0 /\ jogada = 1 /\ jogador_i = 0
  /\ vencedores = <<>>

inscrever_jogadores ==
  /\ fase = "inscricao" /\ Len(jogadores) < MaxPlayers
  /\ jogadores' = Append(jogadores, cria_jogador)
  /\ UNCHANGED <<letras, fase, combinacoes, p_validas, p_usadas, faltam, jogada, jogador_i,
                 vencedores>>

\* itertools.permutations: positions, so a letter that occurs twice counts twice.
permutations(n, i) == {p \in [1 .. i -> 1 .. n] : \A a, b \in 1 .. i : p[a] = p[b] => a = b}

StartGenerating ==
  /\ fase = "inscricao" /\ fase' = "gera"
  /\ combinacoes' = UNION {permutations(Len(letras), i) : i \in 1 .. Len(letras)}
  /\ UNCHANGED <<letras, jogadores, p_validas, p_usadas, faltam, jogada, jogador_i, vencedores>>

gera_todas_palavras_validas ==
  /\ fase = "gera"
  /\ \E perm \in combinacoes :
       LET combo == [i \in DOMAIN perm |-> letras[perm[i]]]
       IN /\ \A p \in combinacoes : Len(perm) <= Len(p)
          /\ combinacoes' = combinacoes \ {perm}
          /\ p_validas' = IF Grammar!e_palavra(combo) THEN acrescenta_palavra(p_validas, combo)
                          ELSE p_validas
  /\ UNCHANGED <<letras, fase, jogadores, p_usadas, faltam, jogada, jogador_i, vencedores>>

StartGame ==
  /\ fase = "gera" /\ combinacoes = {} /\ fase' = "jogo"
  /\ faltam' = numero_palavras(p_validas)
  /\ UNCHANGED <<letras, combinacoes, jogadores, p_validas, p_usadas, jogada, jogador_i, vencedores>>

(***************************************************************************)
(* Turns.                                                                  *)
(***************************************************************************)
Turn(tentativa) == fase = "jogo" /\ faltam # 0 /\ jogadores # <<>> /\ e_potencial(tentativa, letras)

NextPlayer ==
  /\ jogada <= MaxTurns
  /\ jogador_i' = jogada % Len(jogadores)
  /\ jogada' = jogada + 1

\* Mutant: only the player's own words are looked up.
NewWordAgain(palavra) ==
  /\ Turn(palavra)
  /\ palavra_no_conjunto(p_validas, palavra)
  /\ ~ palavra_no_conjunto(jogadores[jogador_i + 1].validas, palavra)
  /\ jogadores' = [jogadores EXCEPT ![jogador_i + 1] = adiciona_palavra_valida(@, palavra)]
  /\ p_usadas' = acrescenta_palavra(p_usadas, palavra)
  /\ faltam' = IF faltam = 0 THEN 0 ELSE faltam - 1
  /\ NextPlayer
  /\ UNCHANGED <<letras, fase, combinacoes, p_validas, vencedores>>

NewWord(palavra) ==
  /\ Turn(palavra)
  /\ palavra_no_conjunto(p_validas, palavra) /\ ~ palavra_no_conjunto(p_usadas, palavra)
  /\ jogadores' = [jogadores EXCEPT ![jogador_i + 1] = adiciona_palavra_valida(@, palavra)]
  /\ p_usadas' = acrescenta_palavra(p_usadas, palavra)
  /\ faltam' = faltam - 1
  /\ NextPlayer
  /\ UNCHANGED <<letras, fase, combinacoes, p_validas, vencedores>>

KnownWord(palavra) ==
  /\ Turn(palavra)
  /\ palavra_no_conjunto(p_validas, palavra) /\ palavra_no_conjunto(p_usadas, palavra)
  /\ NextPlayer
  /\ UNCHANGED <<letras, fase, combinacoes, jogadores, p_validas, p_usadas, faltam, vencedores>>

WrongWord(palavra) ==
  /\ Turn(palavra)
  /\ ~ palavra_no_conjunto(p_validas, palavra)
  /\ jogadores' = [jogadores EXCEPT ![jogador_i + 1] = adiciona_palavra_invalida(@, palavra)]
  /\ NextPlayer
  /\ UNCHANGED <<letras, fase, combinacoes, p_validas, p_usadas, faltam, vencedores>>

Raise(error) ==
  /\ fase' = error
  /\ UNCHANGED <<letras, combinacoes, jogadores, p_validas, p_usadas, faltam, jogada, jogador_i,
                 vencedores>>

\* cria_palavra_potencial refuses what was typed, and nobody handles its exception.
BadAttempt(tentativa) ==
  /\ fase = "jogo" /\ faltam # 0 /\ jogadores # <<>> /\ ~ e_potencial(tentativa, letras)
  /\ Raise("ValueError")

NobodyPlays == fase = "jogo" /\ faltam # 0 /\ jogadores = <<>> /\ Raise("IndexError")

(***************************************************************************)
(* The end.                                                                *)
(***************************************************************************)
Maximum(a, b) == IF a >= b THEN a ELSE b

\* max_pontuacao and vencedores after i players.
WinnersFrom(start) ==
  LET After[i \in 0 .. Len(jogadores)] ==
        IF i = 0 THEN [max_pontuacao |-> start, vencedores |-> <<>>]
        ELSE LET so_far    == After[i - 1].vencedores
                 pontuacao == jogador_pontuacao(jogadores[i])
                 max_      == Maximum(After[i - 1].max_pontuacao, pontuacao)
             IN [max_pontuacao |-> max_,
                 vencedores |-> IF pontuacao # max_ THEN so_far
                                ELSE IF /\ so_far # <<>>
                                        /\ jogador_pontuacao(jogadores[so_far[1]]) = max_
                                     THEN Append(so_far, i)
                                     ELSE <<i>>]
  IN After[Len(jogadores)].vencedores

\* Mutant: the search starts one higher.
SelectedFromZero == WinnersFrom(0)

Selected == WinnersFrom(-1)

termina_jogo ==
  LET winners == Selected
  IN /\ fase = "jogo" /\ faltam = 0
     /\ vencedores' = winners
     /\ fase' = IF Len(winners) > 1 THEN "empate"
                ELSE IF winners # <<>> THEN "vitoria" ELSE "IndexError"
     /\ UNCHANGED <<letras, combinacoes, jogadores, p_validas, p_usadas, faltam, jogada, jogador_i>>

Next ==
  \/ inscrever_jogadores \/ StartGenerating \/ gera_todas_palavras_validas \/ StartGame
  \/ \E t \in Attempts : NewWord(t) \/ KnownWord(t) \/ WrongWord(t) \/ BadAttempt(t)
  \/ NobodyPlays \/ termina_jogo

Spec == Init /\ [][Next]_vars

(***************************************************************************)
(* Properties.                                                             *)
(***************************************************************************)
Players == DOMAIN jogadores

Words(conj) == UNION {Elements(conj.palavras[i]) : i \in DOMAIN conj.palavras}

Lists(conj) ==
  /\ conj \in Conjuntos
  /\ \A i \in DOMAIN conj.palavras : \A w \in Elements(conj.palavras[i]) : Len(w) = i - 1

\* Values have the types that proj.py's recognisers ask for, words stand in the
\* list of their length, and the turn is some player's.
TypeOK ==
  /\ letras \in Letters
  /\ fase \in {"inscricao", "gera", "jogo", "empate", "vitoria", "ValueError", "IndexError"}
  /\ Lists(p_validas) /\ Lists(p_usadas)
  /\ jogadores \in Seq(Jogadores)
  /\ \A j \in Players : Lists(jogadores[j].validas) /\ Lists(jogadores[j].invalidas)
  /\ combinacoes \subseteq UNION {permutations(Len(letras), i) : i \in 1 .. Len(letras)}
  /\ faltam \in Nat /\ jogada \in Nat \ {0}
  /\ jogador_i \in Nat /\ (jogadores # <<>> => jogador_i < Len(jogadores))

\* A valid word is credited to one player only, whoever names it again, and the
\* words found are those credited (proj.py:438-444).
CreditedOnce ==
  /\ \A j, k \in Players :
       j # k => Words(jogadores[j].validas) \cap Words(jogadores[k].validas) = {}
  /\ Words(p_usadas) = UNION {Words(jogadores[j].validas) : j \in Players}
  /\ Words(p_usadas) \subseteq Words(p_validas)

\* faltam, which is counted down by hand and ends the game, is the number of words
\* that are not found (proj.py:430-444); a count that missed 0 would never end.
FaltamIsTrue ==
  fase \notin {"inscricao", "gera"} => faltam = Cardinality(Words(p_validas) \ Words(p_usadas))

\* What words are worth as they are written: of each length, that times their number.
Worth(cadeia) ==
  LET Upto[i \in 0 .. Len(cadeia)] ==
        IF i = 0 THEN 0 ELSE Upto[i - 1] + cadeia[i][1] * Len(cadeia[i][2])
  IN Upto[Len(cadeia)]

\* A player's score, kept apart from the words, is what the words written after
\* it are worth (proj.py:289-345): no word is paid for or fined twice.
ScoreIsEarned ==
  \A j \in Players :
    LET linha == jogador_para_cadeia(jogadores[j])
    IN linha.PONTOS = Worth(linha.VALIDAS) - Worth(linha.INVALIDAS)

\* Words are written by length and then by alphabet, each once, and numero counts
\* them; sets with the same words are equal, whatever the order in which the words
\* came and whoever named them (proj.py:144-216).
WrittenInOrder ==
  LET sets == {p_validas, p_usadas} \union {jogador_palavras_validas(jogadores[j]) : j \in Players}
                \union {jogador_palavras_invalidas(jogadores[j]) : j \in Players}
  IN \A conj \in sets :
       LET cadeia == conjunto_palavras_para_cadeia(conj)
       IN /\ \A i \in 1 .. Len(cadeia) - 1 : cadeia[i][1] < cadeia[i + 1][1]
          /\ \A i \in DOMAIN cadeia :
               LET lista == cadeia[i][2]
               IN /\ \A w \in Elements(lista) : palavra_tamanho(w) = cadeia[i][1]
                  /\ \A a, b \in DOMAIN lista : a < b => palavra_potencial_menor(lista[a], lista[b])
          /\ UNION {Elements(cadeia[i][2]) : i \in DOMAIN cadeia} = Words(conj)
          /\ numero_palavras(conj) = Cardinality(Words(conj))
          /\ \A other \in sets : Words(other) = Words(conj) => conjuntos_palavras_iguais(other, conj)

\* The winners announced are the players with the highest score.  The search for
\* them starts from -1 (proj.py:398): a game in which all do worse has no winner
\* and ends in an exception, as one without players does.
WinnersAreBest ==
  LET Score(j) == jogador_pontuacao(jogadores[j])
      best     == {j \in Players : \A k \in Players : Score(k) <= Score(j)}
  IN /\ fase \in {"empate", "vitoria"} => Elements(vencedores) = best /\ faltam = 0
     /\ fase = "empate" => Cardinality(best) > 1
     /\ fase = "vitoria" => Cardinality(best) = 1
     /\ fase = "IndexError" => \A j \in Players : Score(j) < -1

\* The game's books are true, however words are repeated: a word is credited once,
\* and the count that ends the game is right (proj.py:430-451).
BooksAreTrue == CreditedOnce /\ FaltamIsTrue

\* What the game announces is true: the winners, the scores, and under them the
\* words that earned them, in order (proj.py:335-345, 391-422).
ResultIsTrue == WinnersAreBest /\ ScoreIsEarned /\ WrittenInOrder
===============================================================================
