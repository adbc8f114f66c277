-------------------------------- MODULE MCGuru --------------------------------
(***************************************************************************)
(* Instances of Guru for TLC.                                              *)
(***************************************************************************)
EXTENDS Guru

\* Words to find: A, LA and ALA, with a letter that occurs twice; A and E; none.
MCLetters == {<<"A", "L", "A">>, <<"E", "A">>, <<"R", "L">>}

\* Valid words, words that are not, one of no letters, and what no game admits:
\* a letter too often, a small letter.
MCAttempts == {<<"A">>, <<"E">>, <<"L", "A">>, <<"A", "L", "A">>, <<"L">>, <<"A", "L">>, <<"A", "A">>,
               <<"E", "A">>, <<>>, <<"L", "L">>, <<"a">>}
===============================================================================
