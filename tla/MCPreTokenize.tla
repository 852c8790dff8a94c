---------------------------- MODULE MCPreTokenize ----------------------------
(* All short texts over a character of every kind that matters, and some     *)
(* with the longer contractions.                                             *)
EXTENDS PreTokenize

MCLetter == {"s", "l", "r", "e"}
MCNumber == {"7"}
MCBlank == {" ", "\n"}
Chars == {"s", "l", "7", " ", "\n", "'", "!"}

Samples ==
  {<<"r", "'", "l", "l", " ", "e">>, <<"r", "'", "r", "e", "'", "s">>,
   <<"'", "r", "s", "'", "l", "7">>, <<" ", " ", "'", "s", " ", "7">>}

MCTexts == UNION {[1 .. n -> Chars] : n \in 0 .. 5} \cup Samples
=============================================================================
