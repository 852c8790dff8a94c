---------------------------- MODULE JsonGrammar ----------------------------
(***************************************************************************)
(* What a text means by RFC 8259, as a set of values that is empty for a   *)
(* text that is not JSON.  A text is a sequence of symbols: delimiters, a  *)
(* blank, the literal true, the characters of numbers, a quote, and in     *)
(* strings one symbol for a character, an escape or half a surrogate pair. *)
(* The value of a number is apart: a number is read as it is written.      *)
(***************************************************************************)
EXTENDS Integers, Sequences, SequencesExt

CONSTANTS
  Float64,  \* the format of the f64 that numbers are converted to
  Worth     \* what each of the digits is worth

Ieee == INSTANCE SmallFloat WITH
  Single <- Float64, Double <- Float64, Env <- [isa |-> "x86_64", out |-> FALSE, in |-> FALSE]

Digits == DOMAIN Worth
Blanks == {" "}
High == "high half"   \* \uD83D and \uDE00, and the character that they make
Low == "low half"
Pair == "pair"
Unstringed == {"control", "not UTF-8", "bad escape"}  \* what no string may hold
Marks == {".", "e", "+", "-"}      \* what numbers hold besides digits

\* A digit is none of the other symbols, and none is the end.
ASSUME DigitsAssumption ==
  Digits \cap (Blanks \cup Marks \cup {"end", "{", "}", "[", "]", ",", ":", "quote", "true"}) = {}

At(t, i) == IF i <= Len(t) THEN t[i] ELSE "end"

\* The first place from i on that holds none of these symbols.
Past(t, i, symbols) ==
  CHOOSE j \in i .. Len(t) + 1 :
    At(t, j) \notin symbols /\ \A k \in i .. j - 1 : t[k] \in symbols

-----------------------------------------------------------------------------
AllDigits(s) == s # << >> /\ \A k \in DOMAIN s : s[k] \in Digits

\* A number falls into these, its sign, a point and an e apart.
Parts(s) ==
  LET int == IF At(s, 1) = "-" THEN 2 ELSE 1
      frac == Past(s, int, Digits)
      exp == IF At(s, frac) = "." THEN Past(s, frac + 1, Digits) ELSE frac
      signed == exp + (IF At(s, exp + 1) \in {"+", "-"} THEN 1 ELSE 0)
  IN  [int |-> SubSeq(s, int, frac - 1), frac |-> SubSeq(s, frac + 1, exp - 1),
       exp |-> SubSeq(s, signed + 1, Len(s)),
       down |-> At(s, exp + 1) = "-", point |-> exp > frac, e |-> At(s, exp)]

IsNumber(s) ==
  LET p == Parts(s)
  IN  /\ AllDigits(p.int)
      /\ Len(p.int) > 1 => Worth[p.int[1]] # 0
      /\ p.point => AllDigits(p.frac)
      /\ \/ p.e = "end"
         \/ p.e = "e" /\ AllDigits(p.exp)

Decimal(s) == FoldLeft(LAMBDA n, d : 10 * n + Worth[d], 0, s)

\* A number is its significand times 10 to its power.
Significand(s) == Decimal(Parts(s).int \o Parts(s).frac)
Power(s) ==
  (IF Parts(s).down THEN -Decimal(Parts(s).exp) ELSE Decimal(Parts(s).exp)) - Len(Parts(s).frac)

\* The float nearest to it, ties to even; external for the C program, which
\* asks atof.
NearestFloat(s) ==
  LET sign == IF s[1] = "-" THEN 1 ELSE 0
  IN  IF Power(s) >= 0 THEN Ieee!Pack(Float64, sign, Significand(s) * 10 ^ Power(s), 0)
      ELSE Ieee!Quotient(Float64, sign, Significand(s) * 2 ^ 17, 10 ^ (-Power(s)), -17)

-----------------------------------------------------------------------------
\* What is between the quotes: halves of a pair stand together.
IsInside(s) ==
  \A k \in DOMAIN s :
    /\ s[k] \notin Unstringed \cup {"quote"}
    /\ s[k] = High => At(s, k + 1) = Low
    /\ s[k] = Low => k > 1 /\ s[k - 1] = High

IsString(s) ==
  Len(s) >= 2 /\ s[1] = "quote" /\ s[Len(s)] = "quote" /\ IsInside(SubSeq(s, 2, Len(s) - 1))

Inside(s) ==
  LET kept == SelectSeq(SubSeq(s, 2, Len(s) - 1), LAMBDA c : c # Low)
  IN  [k \in DOMAIN kept |-> IF kept[k] = High THEN Pair ELSE kept[k]]

\* The text t, cut at its delimiters: between i and j, with blanks around it, a
\* value, the elements of an array or the members of an object.
Meanings(t) ==
  LET Trimmed(i, j) ==
        LET first == Past(t, i, Blanks)
            last == CHOOSE k \in 0 .. j : (k = 0 \/ t[k] \notin Blanks) /\ \A l \in k + 1 .. j : t[l] \in Blanks
        IN  SubSeq(t, first, last)
      Places(i, j, symbol) == {k \in i .. j : t[k] = symbol}
      between[what \in {"value", "elements", "members"}, i \in 1 .. Len(t) + 1, j \in 0 .. Len(t)] ==
        LET s == Trimmed(i, j)
            first == Past(t, i, Blanks)
            last == first + Len(s) - 1
            Enclosed(open, close) == Len(s) >= 2 /\ s[1] = open /\ s[Len(s)] = close
            Empty == Past(t, first + 1, Blanks) = last
        IN  CASE what = "value" ->
                   (IF s = <<"true">> THEN {[lit |-> "true"]} ELSE {})
                   \cup {[num |-> x] : x \in IF IsNumber(s) THEN {s} ELSE {}}
                   \cup {[str |-> x] : x \in IF IsString(s) THEN {Inside(s)} ELSE {}}
                   \cup {[arr |-> x] : x \in IF ~Enclosed("[", "]") THEN {}
                                             ELSE IF Empty THEN {<< >>}
                                             ELSE between["elements", first + 1, last - 1]}
                   \cup {[obj |-> x] : x \in IF ~Enclosed("{", "}") THEN {}
                                             ELSE IF Empty THEN {<< >>}
                                             ELSE between["members", first + 1, last - 1]}
              [] what = "elements" ->
                   {<<v>> : v \in between["value", i, j]} \cup
                   UNION {{<<v>> \o rest : v \in between["value", i, k - 1],
                                           rest \in between["elements", k + 1, j]} : k \in Places(i, j, ",")}
              [] what = "members" ->
                   UNION {
                     LET c == p[1]
                         k == p[2]
                         one == {<<Inside(Trimmed(i, c - 1)), v>> : v \in between["value", c + 1, k - 1]}
                         more == IF k > j THEN {<< >>} ELSE between["members", k + 1, j]
                     IN  {<<m>> \o rest : m \in one, rest \in more} :
                     p \in {q \in Places(i, j, ":") \X (Places(i, j, ",") \cup {j + 1}) :
                              q[1] < q[2] /\ IsString(Trimmed(i, q[1] - 1))}}
  IN  between["value", 1, Len(t)]

\* How deep the values of a text are nested.
Nesting(t, i) ==
  Cardinality({k \in 1 .. i - 1 : t[k] \in {"[", "{"}}) - Cardinality({k \in 1 .. i - 1 : t[k] \in {"]", "}"}})
Depth(t) ==
  Max({0} \cup {Nesting(t, i) : i \in {k \in DOMAIN t : t[k] \notin Blanks \cup {"]", "}", ",", ":"}}})
=============================================================================
