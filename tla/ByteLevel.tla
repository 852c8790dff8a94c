------------------------------ MODULE ByteLevel ------------------------------
(***************************************************************************)
(* The segmentation CIS-2 section 3.1.4 asks for, from its words alone:    *)
(* digits are isolated, then what lies between them is cut by the GPT-2    *)
(* expression                                                              *)
(*                                                                         *)
(*   's|'t|'re|'ve|'m|'ll|'d| ?\p{L}+| ?\p{N}+| ?[^\s\p{L}\p{N}]+          *)
(*     |\s+(?!\S)|\s+                                                      *)
(*                                                                         *)
(* The alternatives are tried in this order; the first that matches at a   *)
(* position wins, with the longest text it can match.                      *)
(*                                                                         *)
(* A text is a sequence of characters; positions count from 1, and a piece *)
(* of text is given by its first position and the one after its last.      *)
(***************************************************************************)
EXTENDS Integers, Sequences

CONSTANTS
  Letter,  \* \p{L}
  Number,  \* \p{N}, and char::is_numeric
  Blank    \* \s

ASSUME ClassesAssumption ==
  /\ Letter \cap Number = {}
  /\ Letter \cap Blank = {}
  /\ Number \cap Blank = {}
  /\ " " \in Blank
  /\ "'" \notin Letter \cup Number \cup Blank

Contractions == {<<"s">>, <<"t">>, <<"r", "e">>, <<"v", "e">>, <<"m">>, <<"l", "l">>, <<"d">>}

All(text, p, q, class) == \A k \in p .. q - 1 : text[k] \in class

\* The part of the text between digits that p is in, or the digit at p: where
\* it ends.
SegmentEnd(text, p) ==
  IF text[p] \in Number THEN p + 1
  ELSE CHOOSE q \in p + 1 .. Len(text) + 1 :
         /\ \A k \in p .. q - 1 : text[k] \notin Number
         /\ q <= Len(text) => text[q] \in Number

(* Where a match from p may end, if the segment ends before stop.           *)
Contracted(text, p, stop) ==
  {q \in p + 1 .. stop : text[p] = "'" /\ SubSeq(text, p + 1, q - 1) \in Contractions}

\* ` ?C+` for the three classes C.
Lettered(text, p, stop) ==
  {q \in p + 1 .. stop : \/ All(text, p, q, Letter)
                         \/ text[p] = " " /\ q > p + 1 /\ All(text, p + 1, q, Letter)}

Numbered(text, p, stop) ==
  {q \in p + 1 .. stop : \/ All(text, p, q, Number)
                         \/ text[p] = " " /\ q > p + 1 /\ All(text, p + 1, q, Number)}

NoneOf(text, p, q) == \A k \in p .. q - 1 : text[k] \notin Letter \cup Number \cup Blank

Punctuated(text, p, stop) ==
  {q \in p + 1 .. stop : \/ NoneOf(text, p, q)
                         \/ text[p] = " " /\ q > p + 1 /\ NoneOf(text, p + 1, q)}

\* `\s+(?!\S)`: no character, or a blank one, comes next.
Spaced(text, p, stop) ==
  {q \in p + 1 .. stop : All(text, p, q, Blank) /\ (q < stop => text[q] \in Blank)}

Blanks(text, p, stop) == {q \in p + 1 .. stop : All(text, p, q, Blank)}

Longest(ends) == CHOOSE q \in ends : \A r \in ends : r <= q

\* Where the word that starts at p ends.
WordEnd(text, p) ==
  LET stop == SegmentEnd(text, p)
      Alternatives == <<Contracted(text, p, stop), Lettered(text, p, stop),
                        Numbered(text, p, stop), Punctuated(text, p, stop),
                        Spaced(text, p, stop), Blanks(text, p, stop)>>
  IN  Longest(Alternatives[CHOOSE i \in 1 .. 6 : /\ Alternatives[i] # {}
                                                 /\ \A j \in 1 .. i - 1 : Alternatives[j] = {}])

\* The words of a text from each position on.
WordsFrom(text) ==
  LET From[p \in 1 .. Len(text) + 1] ==
        IF p > Len(text) THEN << >>
        ELSE <<SubSeq(text, p, WordEnd(text, p) - 1)>> \o From[WordEnd(text, p)]
  IN  From

Words(text) == WordsFrom(text)[1]
=============================================================================
