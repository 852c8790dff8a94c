----------------------------- MODULE SmallFloat -----------------------------
(***************************************************************************)
(* Binary floating point of two small formats, as the processors of the    *)
(* repository's two instruction sets do it: round to nearest even, with or *)
(* without flushing of subnormal results (FTZ) and inputs (DAZ).  A float  *)
(* is its bit pattern, a number: sign, exponent field, mantissa field.     *)
(* All of this is hardware and language, and stands outside the sources.   *)
(***************************************************************************)
EXTENDS Integers

CONSTANTS
  Single,  \* the format for f32: bits of the mantissa field and the exponent field
  Double,  \* the format for f64
  Env      \* the environment: isa, and whether results and inputs are flushed

Bias(f) == 2 ^ (f.exp - 1) - 1
Top(f) == 2 ^ f.exp - 1
SignBit(f) == 2 ^ (f.exp + f.man)
Words(f) == 0 .. 2 * SignBit(f) - 1

Sign(f, b) == b \div SignBit(f)
ExpField(f, b) == (b \div 2 ^ f.man) % 2 ^ f.exp
ManField(f, b) == b % 2 ^ f.man
Magnitude(f, b) == b % SignBit(f)
Word(f, sign, exp, man) == sign * SignBit(f) + exp * 2 ^ f.man + man

Inf(f, sign) == Word(f, sign, Top(f), 0)
NaN(f) == Word(f, 0, Top(f), 2 ^ (f.man - 1))
IsNaN(f, b) == ExpField(f, b) = Top(f) /\ ManField(f, b) # 0
IsInf(f, b) == ExpField(f, b) = Top(f) /\ ManField(f, b) = 0
IsSubnormal(f, b) == ExpField(f, b) = 0 /\ ManField(f, b) # 0
Finite(f, b) == ExpField(f, b) # Top(f)

\* The same float; a NaN is a NaN whatever its bits.
Same(f, a, b) == a = b \/ (IsNaN(f, a) /\ IsNaN(f, b))

\* A finite float is its significand times 2 ^ its scale.
LeastScale(f) == 1 - Bias(f) - f.man
Sig(f, b) == ManField(f, b) + IF ExpField(f, b) = 0 THEN 0 ELSE 2 ^ f.man
Scale(f, b) == LeastScale(f) + IF ExpField(f, b) = 0 THEN 0 ELSE ExpField(f, b) - 1

BitLen(n) == CHOOSE k \in 0 .. 30 : IF n = 0 THEN k = 0 ELSE n \div 2 ^ k = 0 /\ n \div 2 ^ (k - 1) = 1

\* n / 2 ^ cut, rounded to the nearest integer, ties to even.
Nearest(n, cut) ==
  IF cut <= 0 THEN n * 2 ^ (-cut)
  ELSE LET kept == n \div 2 ^ cut
           twice == 2 * (n % 2 ^ cut)
       IN  IF twice > 2 ^ cut \/ (twice = 2 ^ cut /\ kept % 2 = 1) THEN kept + 1 ELSE kept

\* The float sig * 2 ^ scale for a significand of full width; a tiny one keeps
\* the bits of n * 2 ^ q down to the least scale, or is flushed.
PackAt(f, sign, sig, scale, tiny, n, q) ==
  IF tiny
  THEN Word(f, sign, 0, IF Env.out THEN 0 ELSE Nearest(n, LeastScale(f) - q))
  ELSE IF scale - LeastScale(f) + 1 >= Top(f) THEN Inf(f, sign)
  ELSE Word(f, sign, scale - LeastScale(f) + 1, sig - 2 ^ f.man)

\* The same for a significand that rounding may have carried to the next power
\* of two.  x86-64 sees whether a result is tiny after it is rounded to the
\* width of a normal one, aarch64 before: at the scale given.
PackRounded(f, sign, sig, scale, n, q) ==
  LET carry == IF sig = 2 ^ (f.man + 1) THEN 1 ELSE 0
  IN  PackAt(f, sign, sig \div 2 ^ carry, scale + carry,
             LeastScale(f) > scale + (IF Env.isa = "x86_64" THEN carry ELSE 0), n, q)

PackCut(f, sign, n, q, cut) == PackRounded(f, sign, Nearest(n, cut), q + cut, n, q)

\* The float nearest to n * 2 ^ q.
Pack(f, sign, n, q) ==
  IF n = 0 THEN Word(f, sign, 0, 0) ELSE PackCut(f, sign, n, q, BitLen(n) - (f.man + 1))

\* An operand as the processor reads it.
Read(f, b) == IF Env.in /\ IsSubnormal(f, b) THEN Word(f, Sign(f, b), 0, 0) ELSE b

-----------------------------------------------------------------------------
Neg(f, a) == IF a >= SignBit(f) THEN a - SignBit(f) ELSE a + SignBit(f)

\* A float in units of 2 ^ low; of one that lies wholly below, the sign.
Units(f, x, scale, low) ==
  (IF Sign(f, x) = 1 THEN -1 ELSE 1) *
  IF scale >= low THEN Sig(f, x) * 2 ^ (scale - low) ELSE IF Sig(f, x) = 0 THEN 0 ELSE 1

\* A sum of n units; no units are -0 only if both addends are negative.
FromUnits(f, n, low, negative) ==
  IF n = 0 THEN Word(f, negative, 0, 0)
  ELSE Pack(f, IF n < 0 THEN 1 ELSE 0, IF n < 0 THEN -n ELSE n, low)

SumAbove(f, a, b, p, q, low) ==
  FromUnits(f, Units(f, a, p, low) + Units(f, b, q, low), low, Sign(f, a) * Sign(f, b))

\* Beyond its lowest bits and a few more, a small addend matters by its sign only.
SumScaled(f, a, b, p, q) ==
  LET far == f.man + 5
  IN  SumAbove(f, a, b, p, q,
        IF p >= q THEN (IF q >= p - far THEN q ELSE p - far)
                  ELSE (IF p >= q - far THEN p ELSE q - far))

AddRead(f, a, b) ==
  IF Finite(f, a) /\ Finite(f, b) THEN SumScaled(f, a, b, Scale(f, a), Scale(f, b))
  ELSE IF IsNaN(f, a) \/ IsNaN(f, b) \/ (IsInf(f, a) /\ IsInf(f, b) /\ a # b) THEN NaN(f)
  ELSE IF IsInf(f, a) THEN a ELSE b

Add(f, x, y) == AddRead(f, Read(f, x), Read(f, y))
Sub(f, a, b) == Add(f, a, Neg(f, b))

IsZero(f, x) == Magnitude(f, x) = 0
SignOf(f, a, b) == (Sign(f, a) + Sign(f, b)) % 2

MulRead(f, a, b, sign) ==
  IF Finite(f, a) /\ Finite(f, b)
  THEN Pack(f, sign, Sig(f, a) * Sig(f, b), Scale(f, a) + Scale(f, b))
  ELSE IF IsNaN(f, a) \/ IsNaN(f, b) \/ IsZero(f, a) \/ IsZero(f, b) THEN NaN(f)
  ELSE Inf(f, sign)

Mul(f, x, y) == MulRead(f, Read(f, x), Read(f, y), SignOf(f, x, y))

\* n / m, with more bits than a significand has and one for the remainder.
Quotient(f, sign, n, m, q) ==
  Pack(f, sign, 2 * (n \div m) + (IF n % m = 0 THEN 0 ELSE 1), q - 1)

DivRead(f, a, b, sign, up) ==
  IF Finite(f, a) /\ Finite(f, b) /\ ~IsZero(f, b)
  THEN Quotient(f, sign, Sig(f, a) * 2 ^ up, Sig(f, b), Scale(f, a) - Scale(f, b) - up)
  ELSE IF IsNaN(f, a) \/ IsNaN(f, b) \/ (IsInf(f, a) /\ IsInf(f, b))
          \/ (IsZero(f, a) /\ IsZero(f, b)) THEN NaN(f)
  ELSE IF IsInf(f, b) THEN Word(f, sign, 0, 0) ELSE Inf(f, sign)

Div(f, x, y) == DivRead(f, Read(f, x), Read(f, y), SignOf(f, x, y), 2 * f.man + 4)

\* a < b, false of NaN.
Less(f, x, y) ==
  LET Place(z) == (IF Sign(f, z) = 1 THEN -1 ELSE 1) * Magnitude(f, Read(f, z))
  IN  ~IsNaN(f, x) /\ ~IsNaN(f, y) /\ Place(x) < Place(y)

IsZeroIn(f, x) == IsZero(f, Read(f, x))

-----------------------------------------------------------------------------
\* sqrt: the float whose neighbourhood of half a unit holds the root.  The root
\* of n is taken with more bits than a significand has and one for the rest.
RootOf(f, n, q, r) == Pack(f, 0, 2 * r + (IF r * r = n THEN 0 ELSE 1), q - 1)

RootScaled(f, n, q) ==
  RootOf(f, n, q, CHOOSE k \in 0 .. 2 ^ (2 * f.man + 4) : k * k <= n /\ n < (k + 1) * (k + 1))

RootRead(f, a, scale, up) ==
  CASE IsNaN(f, a) \/ (Sign(f, a) = 1 /\ ~IsZero(f, a)) -> NaN(f)
    [] IsZero(f, a) \/ a = Inf(f, 0) -> a
    [] OTHER -> RootScaled(f, Sig(f, a) * 2 ^ (scale % 2) * 4 ^ up, (scale \div 2) - up)

Root(f, x) == RootRead(f, Read(f, x), Scale(f, Read(f, x)), f.man + 2)

\* The float of the same sign with the value m * 2 ^ q, for integers m.
OfInt(f, sign, m) == Pack(f, sign, m, 0)

\* The integer part of the magnitude, and twice what is left, compared with 1.
Whole(f, x) == IF Scale(f, x) >= 0 THEN Sig(f, x) * 2 ^ Scale(f, x)
                                  ELSE Sig(f, x) \div 2 ^ (-Scale(f, x))
HasRest(f, x) == Scale(f, x) < 0 /\ Sig(f, x) % 2 ^ (-Scale(f, x)) # 0
RestIsHalf(f, x) == Scale(f, x) < 0 /\ 2 * (Sig(f, x) % 2 ^ (-Scale(f, x))) >= 2 ^ (-Scale(f, x))

\* The greatest integer below.
Floor(f, x) ==
  IF ~Finite(f, x) THEN x
  ELSE OfInt(f, Sign(f, x), Whole(f, x) + IF Sign(f, x) = 1 /\ HasRest(f, x) THEN 1 ELSE 0)

\* The nearest integer, ties away from zero.
RoundAway(f, x) ==
  IF ~Finite(f, x) THEN x
  ELSE OfInt(f, Sign(f, x), Whole(f, x) + IF RestIsHalf(f, x) THEN 1 ELSE 0)

\* x * 2 ^ k
ScalbRead(f, a, k) ==
  IF ~Finite(f, a) \/ IsZero(f, a) THEN a ELSE Pack(f, Sign(f, a), Sig(f, a), Scale(f, a) + k)
Scalb(f, x, k) == ScalbRead(f, Read(f, x), k)

\* A normal x as m * 2 ^ e with m in [1/2, 1).
Fraction(f, x) == Pack(f, Sign(f, x), Sig(f, x), -(f.man + 1))
Exponent(f, x) == Scale(f, x) + f.man + 1

\* Conversions: f32 -> f64 is exact, f64 -> f32 rounds once.
ConvertRead(f, g, a) ==
  IF Finite(f, a) THEN Pack(g, Sign(f, a), Sig(f, a), Scale(f, a))
  ELSE IF IsNaN(f, a) THEN NaN(g) ELSE Inf(g, Sign(f, a))
Convert(f, g, x) == ConvertRead(f, g, Read(f, x))

\* A finite integral float as an integer, and an integer as a float.
ToInt(f, x) == (IF Sign(f, x) = 1 THEN -1 ELSE 1) * Whole(f, x)
FromInt(f, n) == IF n < 0 THEN OfInt(f, 1, -n) ELSE OfInt(f, 0, n)
=============================================================================
