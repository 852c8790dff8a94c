------------------------------ MODULE JsonRust ------------------------------
(***************************************************************************)
(* cis2-verify's JSON reader (json.rs): it descends, keeps what it has read *)
(* and the place it is at, and gives up at the first error.                *)
(***************************************************************************)
EXTENDS JsonGrammar

CONSTANTS
  MAX_DEPTH,    \* nesting it accepts
  MaxSigDigits, \* digits of a significand that are converted: 16
  MaxPower,     \* the greatest exact power of ten: 22
  MaxExponent,  \* the greatest exponent that is read: 10000
  MaxU64        \* the greatest u64

None == -1

Refused(i) == [ok |-> FALSE, i |-> i]
Done(v, i) == [ok |-> TRUE, v |-> v, i |-> i]
Then(r, Rest(_)) == IF r.ok THEN Rest(r) ELSE r
Prepend(v, r) == Then(r, LAMBDA rest : Done(<<v>> \o rest.v, rest.i))
As(Kind(_), r) == Then(r, LAMBDA whole : Done(Kind(whole.v), whole.i))

\* Mutation: a low half is looked for and, if it is not there, done without.
StringLone(t, i) ==
  LET chars[k \in 1 .. Len(t) + 1] ==
        CASE At(t, k) = "quote" -> Done(<< >>, k + 1)
          [] At(t, k) \in Unstringed \cup {"end", Low} -> Refused(k)
          [] At(t, k) = High ->
               IF At(t, k + 1) = Low THEN Prepend(Pair, chars[k + 2]) ELSE Prepend(High, chars[k + 1])
          [] OTHER -> Prepend(t[k], chars[k + 1])
  IN  IF At(t, i) = "quote" THEN chars[i + 1] ELSE Refused(i)

\* string: its characters from the k-th symbol on, given those from later ones on.
StringFrom(t, chars, k) ==
  CASE At(t, k) = "quote" -> Done(<< >>, k + 1)
    [] At(t, k) \in Unstringed \cup {"end", Low} -> Refused(k)
    [] At(t, k) = High ->
         IF At(t, k + 1) = Low THEN Prepend(Pair, chars[k + 2]) ELSE Refused(k + 1)
    [] OTHER -> Prepend(t[k], chars[k + 1])

String(t, i) ==
  LET chars[k \in 1 .. Len(t) + 1] == StringFrom(t, chars, k)
  IN  IF At(t, i) = "quote" THEN chars[i + 1] ELSE Refused(i)

\* number, up to the end of its exponent.
NumberExp(t, start, i) ==
  LET first == IF At(t, i + 1) \in {"+", "-"} THEN i + 2 ELSE i + 1
      last == Past(t, first, Digits)
  IN  IF At(t, i) # "e" THEN Done(SubSeq(t, start, i - 1), i)
      ELSE IF last = first THEN Refused(first)
      ELSE IF Decimal(SubSeq(t, first, last - 1)) > MaxExponent THEN Refused(first)
      ELSE Done(SubSeq(t, start, last - 1), last)

NumberFrac(t, start, i) ==
  LET last == Past(t, i + 1, Digits)
  IN  IF At(t, i) # "." THEN NumberExp(t, start, i)
      ELSE IF last = i + 1 THEN Refused(i + 1)
      ELSE NumberExp(t, start, last)

Number(t, i) ==
  LET first == IF At(t, i) = "-" THEN i + 1 ELSE i
      last == Past(t, first, Digits)
  IN  IF last = first THEN Refused(first)
      ELSE IF last > first + 1 /\ Worth[t[first]] = 0 THEN Refused(first)
      ELSE NumberFrac(t, i, last)

\* value, object and array.  The loops of the last two are read from their heads;
\* read is what is read from later places on.
Skip(t, i) == Past(t, i, Blanks)

ReadList(t, read, what, i, depth, close) ==
  LET j == Skip(t, i)
  IN  IF At(t, j) = close THEN Done(<< >>, j + 1) ELSE read[<<what, i, depth>>]

ReadValue(t, read, i, depth) ==
  CASE At(t, i) = "{" -> As(LAMBDA v : [obj |-> v], ReadList(t, read, "fields", i + 1, depth, "}"))
    [] At(t, i) = "[" -> As(LAMBDA v : [arr |-> v], ReadList(t, read, "items", i + 1, depth, "]"))
    [] At(t, i) = "quote" -> As(LAMBDA v : [str |-> v], String(t, i))
    [] At(t, i) = "true" -> Done([lit |-> "true"], i + 1)
    [] At(t, i) \in Digits \cup {"-"} -> As(LAMBDA v : [num |-> v], Number(t, i))
    [] OTHER -> Refused(i)

ReadField(t, read, key, depth) ==
  LET j == Skip(t, key.i)
  IN  IF At(t, j) # ":" THEN Refused(j)
      ELSE As(LAMBDA v : <<key.v, v>>, read[<<"value", Skip(t, j + 1), depth + 1>>])

\* r, and with a comma what follows it.
ReadOn(t, read, what, r, depth, close) ==
  LET j == Skip(t, r.i)
  IN  CASE At(t, j) = "," -> Prepend(r.v, read[<<what, j + 1, depth>>])
        [] At(t, j) = close -> Done(<<r.v>>, j + 1)
        [] OTHER -> Refused(j)

ReadItems(t, read, i, depth) ==
  Then(read[<<"value", Skip(t, i), depth + 1>>], LAMBDA r : ReadOn(t, read, "items", r, depth, "]"))

ReadFields(t, read, i, depth) ==
  Then(Then(String(t, Skip(t, i)), LAMBDA key : ReadField(t, read, key, depth)),
       LAMBDA r : ReadOn(t, read, "fields", r, depth, "}"))

ReadFrom(t, read, what, i, depth) ==
  CASE depth > MAX_DEPTH -> Refused(i)
    [] depth <= MAX_DEPTH /\ what = "value" -> ReadValue(t, read, i, depth)
    [] depth <= MAX_DEPTH /\ what = "items" -> ReadItems(t, read, i, depth)
    [] depth <= MAX_DEPTH /\ what = "fields" -> ReadFields(t, read, i, depth)

Read(t) ==
  LET read[at \in {"value", "items", "fields"} \X (1 .. Len(t) + 1) \X (0 .. MAX_DEPTH + 1)] ==
        ReadFrom(t, read, at[1], at[2], at[3])
  IN  read[<<"value", Skip(t, 1), 0>>]

\* parse
Parse(t) ==
  Then(Read(t), LAMBDA r :
         LET j == Skip(t, r.i) IN IF j = Len(t) + 1 THEN r ELSE Refused(j))

-----------------------------------------------------------------------------
\* number, the conversion: leading zeros count for nothing, digits beyond the
\* most that are converted only for the power.
IntDigit(acc, d) ==
  CASE acc.digits = 0 /\ Worth[d] = 0 -> acc
    [] acc.digits >= MaxSigDigits -> [acc EXCEPT !.inexact = TRUE, !.exp10 = @ + 1]
    [] OTHER -> [acc EXCEPT !.sig = 10 * @ + Worth[d], !.digits = @ + 1]

\* Mutation: zeros right behind the point are passed over.
FracDigitPassed(acc, d) ==
  CASE acc.digits = 0 /\ Worth[d] = 0 -> acc
    [] acc.digits >= MaxSigDigits -> [acc EXCEPT !.inexact = TRUE]
    [] OTHER -> [acc EXCEPT !.sig = 10 * @ + Worth[d], !.digits = @ + 1, !.exp10 = @ - 1]

FracDigit(acc, d) ==
  CASE acc.digits = 0 /\ Worth[d] = 0 -> [acc EXCEPT !.exp10 = @ - 1]
    [] acc.digits >= MaxSigDigits -> [acc EXCEPT !.inexact = TRUE]
    [] OTHER -> [acc EXCEPT !.sig = 10 * @ + Worth[d], !.digits = @ + 1, !.exp10 = @ - 1]

\* One multiplication or division by an exact power of ten.
Scaled10(sig, exp10) ==
  IF exp10 >= 0 THEN Ieee!Mul(Float64, Ieee!FromInt(Float64, sig), Ieee!FromInt(Float64, 10 ^ exp10))
  ELSE Ieee!Div(Float64, Ieee!FromInt(Float64, sig), Ieee!FromInt(Float64, 10 ^ (-exp10)))

\* as_f64, of a number as it is written.
AsF64(text) ==
  LET p == Parts(text)
      int == FoldLeft(IntDigit, [sig |-> 0, digits |-> 0, exp10 |-> 0, inexact |-> FALSE], p.int)
      all == FoldLeft(FracDigit, int, p.frac)
      exp10 == all.exp10 + (IF p.down THEN -Decimal(p.exp) ELSE Decimal(p.exp))
      magnitude == IF all.sig = 0 THEN 0 ELSE Scaled10(all.sig, exp10)
  IN  IF all.inexact \/ exp10 \notin -MaxPower .. MaxPower THEN None
      ELSE IF text[1] = "-" THEN Ieee!Neg(Float64, magnitude) ELSE magnitude

\* as_u64: written as an integer, and no overflow on the way.
AsU64(text) ==
  LET Digit(acc, d) ==
        IF acc = None \/ 10 * acc + Worth[d] > MaxU64 THEN None ELSE 10 * acc + Worth[d]
  IN  IF AllDigits(text) THEN FoldLeft(Digit, 0, text) ELSE None
=============================================================================
