------------------------------- MODULE JsonC -------------------------------
(***************************************************************************)
(* verify3's JSON reader (json.c), which takes a string of bytes as it is  *)
(* and leaves the form of numbers to atof.                                 *)
(***************************************************************************)
EXTENDS JsonGrammar

CONSTANTS
  JSON_MAX_DEPTH,  \* nesting it accepts
  NumBuf           \* the buffer for a number: 64

ASSUME BufferAssumption == NumBuf \in Nat

Null(i) == [ok |-> FALSE, i |-> i]
Value(v, i) == [ok |-> TRUE, v |-> v, i |-> i]
And(r, Rest(_)) == IF r.ok THEN Rest(r) ELSE r
Stored(v, r) == And(r, LAMBDA rest : Value(<<v>> \o rest.v, rest.i))
Typed(Kind(_), r) == And(r, LAMBDA whole : Value(Kind(whole.v), whole.i))

\* parse_string_raw, from the k-th symbol on: half a pair without the other is
\* kept as it is.
StringRawFrom(t, chars, k) ==
  CASE At(t, k) = "quote" -> Value(<< >>, k + 1)
    [] At(t, k) \in {"end", "bad escape"} -> Null(k)
    [] At(t, k) = High /\ At(t, k + 1) = Low -> Stored(Pair, chars[k + 2])
    [] OTHER -> Stored(t[k], chars[k + 1])

ParseStringRaw(t, i) ==
  LET chars[k \in 1 .. Len(t) + 1] == StringRawFrom(t, chars, k)
  IN  IF At(t, i) = "quote" THEN chars[i + 1] ELSE Null(i)

\* Mutation: a sign inside of a number ends it.
NumberUnsignedExp(t, i) ==
  LET first == IF At(t, i) \in {"-", "+"} THEN i + 1 ELSE i
      last == Past(t, first, Digits \cup {".", "e"})
  IN  IF last = i THEN Null(i)
      ELSE Value(SubSeq(t, i, IF last - i >= NumBuf THEN i + NumBuf - 2 ELSE last - 1), last)

\* The last branch of parse_value_inner: what fits of all that may stand in a number.
NumberBranch(t, i) ==
  LET first == IF At(t, i) \in {"-", "+"} THEN i + 1 ELSE i
      last == Past(t, first, Digits \cup Marks)
  IN  IF last = i THEN Null(i)
      ELSE Value(SubSeq(t, i, IF last - i >= NumBuf THEN i + NumBuf - 2 ELSE last - 1), last)

\* parse_value, parse_object, parse_array.  Keys are kept whole: no symbol stands
\* for the escape \u0000, at which the code, which drops a key's length, ends it.
SkipWs(t, i) == Past(t, i, Blanks)

ParseList(t, parse, what, i, depth, close) ==
  LET j == SkipWs(t, i)
  IN  IF At(t, j) = close THEN Value(<< >>, j + 1) ELSE parse[<<what, i, depth>>]

ParseInner(t, parse, i, depth) ==
  CASE At(t, i) = "quote" -> Typed(LAMBDA v : [str |-> v], ParseStringRaw(t, i))
    [] At(t, i) = "{" ->
         Typed(LAMBDA v : [obj |-> v], ParseList(t, parse, "pairs", i + 1, depth + 1, "}"))
    [] At(t, i) = "[" ->
         Typed(LAMBDA v : [arr |-> v], ParseList(t, parse, "items", i + 1, depth + 1, "]"))
    [] At(t, i) = "true" -> Value([lit |-> "true"], i + 1)
    [] OTHER -> Typed(LAMBDA v : [num |-> v], NumberBranch(t, i))

ParseMember(t, parse, key, depth) ==
  LET j == SkipWs(t, key.i)
  IN  IF At(t, j) # ":" THEN Null(j)
      ELSE Typed(LAMBDA v : <<key.v, v>>, parse[<<"value", j + 1, depth>>])

ParseOn(t, parse, what, r, depth, close) ==
  LET j == SkipWs(t, r.i)
  IN  CASE At(t, j) = "," -> Stored(r.v, parse[<<what, j + 1, depth>>])
        [] At(t, j) = close -> Value(<<r.v>>, j + 1)
        [] OTHER -> Null(j)

ParseItems(t, parse, i, depth) ==
  And(parse[<<"value", i, depth>>], LAMBDA r : ParseOn(t, parse, "items", r, depth, "]"))

ParsePairs(t, parse, i, depth) ==
  And(And(ParseStringRaw(t, SkipWs(t, i)), LAMBDA key : ParseMember(t, parse, key, depth)),
      LAMBDA r : ParseOn(t, parse, "pairs", r, depth, "}"))

ParseFrom(t, parse, what, i, depth) ==
  CASE depth >= JSON_MAX_DEPTH -> Null(i)
    [] depth < JSON_MAX_DEPTH /\ what = "value" -> ParseInner(t, parse, SkipWs(t, i), depth)
    [] depth < JSON_MAX_DEPTH /\ what = "items" -> ParseItems(t, parse, i, depth)
    [] depth < JSON_MAX_DEPTH /\ what = "pairs" -> ParsePairs(t, parse, i, depth)

ParseValue(t) ==
  LET parse[at \in {"value", "items", "pairs"} \X (1 .. Len(t) + 1) \X (0 .. JSON_MAX_DEPTH)] ==
        ParseFrom(t, parse, at[1], at[2], at[3])
  IN  parse[<<"value", 1, 0>>]

\* json_parse: what follows the first value is not looked at.
JsonParse(t) == IF Past(t, 1, Blanks) > Len(t) THEN Null(1) ELSE ParseValue(t)

\* json_as_nonneg_int (model.c), of what atof makes of a number.
AsNonnegInt(text) ==
  LET d == NearestFloat(text)
      sound == /\ Ieee!Finite(Float64, d) /\ Ieee!Sign(Float64, d) = 0
               /\ ~Ieee!HasRest(Float64, d)
               /\ Ieee!Whole(Float64, d) < 2 ^ (Float64.man + 1)
  IN  CASE Ieee!IsZero(Float64, d) -> 0
        [] ~Ieee!IsZero(Float64, d) /\ sound -> Ieee!Whole(Float64, d)
        [] OTHER -> -1
=============================================================================
