-------------------------------- MODULE Json --------------------------------
(***************************************************************************)
(* The two JSON readers on the same text, which is written symbol by       *)
(* symbol: every text that cis2-verify has not refused goes on.            *)
(***************************************************************************)
EXTENDS JsonRust, JsonC

CONSTANTS
  Alphabets  \* each: chunks of symbols that texts are made of, what they begin with,
             \* and a bound: the symbols of the longest

\* 64 and 256 in the code.
ASSUME DepthsAssumption == MAX_DEPTH \in Nat /\ JSON_MAX_DEPTH \in Nat /\ MAX_DEPTH < JSON_MAX_DEPTH

VARIABLES
  alphabet,
  text

jsonVars == <<alphabet, text>>

\* Whether it can still be JSON: the reader has accepted it, or run out of text.
Unrefused(t) == LET rust == Parse(t) IN rust.ok \/ rust.i > Len(t)

Compose ==
  /\ Unrefused(text)
  /\ \E chunk \in alphabet.chunks :
       /\ Len(text) + Len(chunk) <= alphabet.longest
       /\ text' = text \o chunk
  /\ UNCHANGED alphabet

JsonInit == alphabet \in Alphabets /\ text = alphabet.first
JsonNext == Compose

-----------------------------------------------------------------------------
JsonTypeOK == Len(text) <= alphabet.longest

\* cis2-verify accepts the subset of RFC 8259 that is nested no deeper and has no
\* greater exponents than it takes, and "rejects everything else" (json.rs:6).
ReadsRfc8259(rust) ==
  LET means == Meanings(text)
      tooGreat == \E v \in means : DOMAIN v = {"num"} /\ Decimal(Parts(v.num).exp) > MaxExponent
  IN  IF Depth(text) > MAX_DEPTH \/ tooGreat THEN ~rust.ok
      ELSE means = IF rust.ok THEN {rust.v} ELSE {}

\* What it accepts, verify3 reads as the same, but for a number that does not fit
\* its buffer.
BothRead(rust, number) ==
  rust.ok /\ Len(number) < NumBuf =>
    LET c == JsonParse(text) IN c.ok /\ c.v = rust.v

\* A number is converted to the nearest float, as atof does it, as long as its
\* significand is exact; a non-negative integer to itself, in both programs.
NumbersAreRight(number) ==
  LET float == AsF64(number)
      integer == AsU64(number)
      exact == 2 ^ (Float64.man + 1)
  IN  number # << >> =>
        /\ float # None /\ Significand(number) <= exact => float = NearestFloat(number)
        /\ integer # None => AllDigits(number) /\ integer = Significand(number)
        /\ integer # None /\ integer < exact => AsNonnegInt(number) = integer

\* Two readers that were written apart mean the same by every artifact that
\* cis2-verify accepts, and that is what the standard says it means.
JsonIsRead ==
  LET rust == Parse(text)
      number == IF rust.ok /\ DOMAIN rust.v = {"num"} THEN rust.v.num ELSE << >>
  IN  ReadsRfc8259(rust) /\ BothRead(rust, number) /\ NumbersAreRight(number)
=============================================================================
