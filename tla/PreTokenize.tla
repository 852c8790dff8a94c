----------------------------- MODULE PreTokenize -----------------------------
(***************************************************************************)
(* The two hand-written pre-tokenizers: cis2-verify's (split_digits, then  *)
(* split_byte_level_regex on every segment) and verify3's (pretokenize,    *)
(* one pass over the bytes of the whole text, into an array of spans).     *)
(*                                                                         *)
(* The text is ASCII here, where a character is a byte: beyond ASCII       *)
(* verify3 does not claim to segment as the specification does.            *)
(***************************************************************************)
EXTENDS ByteLevel

CONSTANTS
  Texts,    \* the texts to segment
  MaxSpans  \* the length of verify3's array of spans (4096)

\* A text is a sequence of characters.
ASSUME TextsAssumption == \A t \in Texts : t \in Seq({t[j] : j \in DOMAIN t})

ASSUME MaxSpansAssumption == MaxSpans \in Nat

VARIABLES
  scanner,  \* "cis2_verify" or "verify3"
  text,     \* the input
  segments, \* what is left to cut: a sequence of [from, to]
  at,       \* the position of the scan
  words,    \* the words found
  pc        \* "split", "scan", then "done"

vars == <<scanner, text, segments, at, words, pc>>

-----------------------------------------------------------------------------
(***************************************************************************)
(* cis2-verify.                                                            *)
(***************************************************************************)
\* Mutation: what follows the last digit is forgotten.
SplitNoRest ==
  LET Piece(from, to) == IF from < to THEN <<[from |-> from, to |-> to]>> ELSE << >>
      Loop[i \in 0 .. Len(text)] ==
        IF i = 0 THEN [out |-> << >>, run_start |-> 1]
        ELSE IF text[i] \in Number
          THEN [out |-> Loop[i - 1].out \o Piece(Loop[i - 1].run_start, i) \o Piece(i, i + 1),
                run_start |-> i + 1]
        ELSE Loop[i - 1]
  IN  Loop[Len(text)].out

\* split_digits: the loop over the characters, with run_start, and the rest.
Split ==
  LET Piece(from, to) == IF from < to THEN <<[from |-> from, to |-> to]>> ELSE << >>
      Loop[i \in 0 .. Len(text)] ==
        IF i = 0 THEN [out |-> << >>, run_start |-> 1]
        ELSE IF text[i] \in Number
          THEN [out |-> Loop[i - 1].out \o Piece(Loop[i - 1].run_start, i) \o Piece(i, i + 1),
                run_start |-> i + 1]
        ELSE Loop[i - 1]
  IN  Loop[Len(text)].out \o Piece(Loop[Len(text)].run_start, Len(text) + 1)

Other(c) == c \notin Blank \cup Letter \cup Number

Holds(class, c) ==
  CASE class = "Letter" -> c \in Letter
    [] class = "Number" -> c \in Number
    [] class = "Other"  -> Other(c)
    [] class = "Blank"  -> c \in Blank

\* A loop that advances over the characters of a class, from p.
RunEnd(class, p, stop) ==
  CHOOSE q \in p .. stop :
    /\ \A k \in p .. q - 1 : Holds(class, text[k])
    /\ q < stop => ~ Holds(class, text[q])

\* The contractions at p: where they end.
ContractionEnds(p, stop) ==
  {p + 1 + Len(w) : w \in {v \in Contractions :
      text[p] = "'" /\ p + 1 + Len(v) <= stop /\ SubSeq(text, p + 1, p + Len(v)) = v}}

AfterSpace(p) == IF text[p] = " " THEN p + 1 ELSE p

\* Mutation: a run of blanks is taken whole, whatever follows.
BlankEndWhole(p, stop) == RunEnd("Blank", p, stop)

\* The last two alternatives: a blank before a word is left to the word.
BlankEnd(p, stop) ==
  LET run_end == RunEnd("Blank", p, stop)
  IN  IF run_end < stop /\ run_end - 1 > p THEN run_end - 1 ELSE run_end

\* The ends of the body of a word, which may start after one space: no class
\* of characters holds a space, and no two classes meet.
BodyEnds(p, stop) ==
  LET body == AfterSpace(p)
  IN  {RunEnd(class, body, stop) : class \in {"Letter", "Number", "Other"}} \ {body}

\* match_one: a contraction, a word with its space, or blanks.
MatchOne(p, stop) ==
  CHOOSE q \in (IF ContractionEnds(p, stop) # {} THEN ContractionEnds(p, stop)
                ELSE IF BodyEnds(p, stop) # {} THEN BodyEnds(p, stop)
                ELSE {BlankEnd(p, stop)}) : TRUE

-----------------------------------------------------------------------------
(***************************************************************************)
(* verify3.                                                                *)
(***************************************************************************)
\* Mutation: the contractions are tried last.
SpanLate(p, stop) ==
  LET blank_end == RunEnd("Blank", AfterSpace(p), stop)
  IN  CHOOSE q \in (IF BodyEnds(p, stop) # {} THEN BodyEnds(p, stop)
                    ELSE IF ContractionEnds(p, stop) # {} THEN ContractionEnds(p, stop)
                    ELSE {IF blank_end = p THEN p + 1 ELSE blank_end}) : TRUE

\* The span at p: as match_one, but every blank of a run is taken.
Span(p, stop) ==
  LET blank_end == RunEnd("Blank", AfterSpace(p), stop)
  IN  CHOOSE q \in (IF ContractionEnds(p, stop) # {} THEN ContractionEnds(p, stop)
                    ELSE IF BodyEnds(p, stop) # {} THEN BodyEnds(p, stop)
                    ELSE {IF blank_end = p THEN p + 1 ELSE blank_end}) : TRUE

-----------------------------------------------------------------------------
Init ==
  /\ scanner \in {"cis2_verify", "verify3"}
  /\ text \in Texts
  /\ segments = << >>
  /\ at = 1
  /\ words = << >>
  /\ pc = "split"

\* The segments to scan: between and around the digits, or all of the text.
Begin ==
  /\ pc = "split"
  /\ segments' = IF scanner = "cis2_verify" THEN Split
                 ELSE IF text = << >> THEN << >>
                 ELSE <<[from |-> 1, to |-> Len(text) + 1]>>
  /\ pc' = "scan"
  /\ UNCHANGED <<scanner, text, at, words>>

\* Mutation: one span more than the array has.
RoomOneMore == scanner = "cis2_verify" \/ Len(words) <= MaxSpans

\* Is there room for a word?  cis2-verify's vector grows.
Room == scanner = "cis2_verify" \/ Len(words) < MaxSpans

\* The next word, from where the scan is to q.
Take(q) ==
  /\ words' = Append(words, SubSeq(text, at, q - 1))
  /\ segments' = IF q < Head(segments).to THEN segments ELSE Tail(segments)
  /\ at' = IF q >= Head(segments).to /\ Len(segments) > 1 THEN segments[2].from ELSE q
  /\ UNCHANGED <<scanner, text, pc>>

\* One round of the loop of split_byte_level_regex, which never stands still ...
Scan ==
  /\ pc = "scan"
  /\ scanner = "cis2_verify"
  /\ segments # << >>
  /\ LET end == MatchOne(at, Head(segments).to)
     IN  Take(IF end > at THEN end ELSE at + 1)

\* ... and of pretokenize.
ScanSpan ==
  /\ pc = "scan"
  /\ scanner = "verify3"
  /\ segments # << >> /\ Room
  /\ Take(Span(at, Head(segments).to))

\* The text ends, or the array of spans is full.
Return ==
  /\ pc = "scan"
  /\ segments = << >> \/ ~ Room
  /\ pc' = "done"
  /\ UNCHANGED <<scanner, text, segments, at, words>>

Next == Begin \/ Scan \/ ScanSpan \/ Return

Spec == Init /\ [][Next]_vars

-----------------------------------------------------------------------------
(***************************************************************************)
(* Properties.                                                             *)
(***************************************************************************)
\* The scan stays in the text, and verify3 in its array.
TypeOK ==
  /\ pc \in {"split", "scan", "done"}
  /\ at \in 1 .. Len(text) + 1
  /\ scanner = "verify3" => Len(words) <= MaxSpans
  /\ \A i \in DOMAIN segments : 1 <= segments[i].from /\ segments[i].from < segments[i].to

\* The text that words make when they are put together.
Flattened(parts) ==
  LET Text[i \in 0 .. Len(parts)] == IF i = 0 THEN << >> ELSE Text[i - 1] \o parts[i]
  IN  Text[Len(parts)]

\* Segmentation loses, repeats and reorders nothing: the words are the text up
\* to where the scan is, and at the end all of it, if verify3's array was long
\* enough.
Tiles ==
  /\ Flattened(words) = SubSeq(text, 1, at - 1)
  /\ pc = "done" /\ (scanner = "verify3" => Len(words) < MaxSpans) => at = Len(text) + 1

\* cis2-verify finds the words of the specification, word for word.
FollowsRegex == pc = "done" /\ scanner = "cis2_verify" => words = Words(text)

\* A text on which verify3 is right: it has no digits, and no blank precedes the
\* last blank before a word.
Plain ==
  /\ \A i \in DOMAIN text : text[i] \notin Number
  /\ \A i \in DOMAIN text : text[i] \in Blank /\ i + 1 < Len(text) /\ text[i + 1] \in Blank
                              => \A k \in i .. Len(text) : text[k] \in Blank

\* On such texts, which the pinned prompt is one of, verify3 finds them too, and
\* when its array is full, exactly as many of the first as it has places for: the
\* rest of the text is dropped without a word (tokenizer.c:219).
\* verify3/CLEANROOM_LOG.md calls its splitter "sufficient for ASCII text", and
\* without the condition on blanks this is not so: it takes a run of blanks
\* whole, where the expression leaves the last one to the word that follows.
PlainAgrees ==
  pc = "done" /\ scanner = "verify3" /\ Plain =>
    words = IF Len(Words(text)) <= MaxSpans THEN Words(text) ELSE SubSeq(Words(text), 1, MaxSpans)
=============================================================================
