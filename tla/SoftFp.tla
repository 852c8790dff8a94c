------------------------------- MODULE SoftFp -------------------------------
(***************************************************************************)
(* cis2-verify's own floating point, on the bits of a float: softfp.rs,    *)
(* and the two exact conversions of mathpin.rs.  The widths that the code  *)
(* has as numbers are those of the format here: 23 is Single.man, 0xff     *)
(* Top(Single), 127 Bias(Single), 52 Double.man.                           *)
(***************************************************************************)
EXTENDS SmallFloat

\* A root is worked out of 26 bits more on each side, 3 more than a mantissa
\* field has.  With 1 more, the few small floats reach the middle between two
\* roots; every number from 1 on gives the same roots.
GuardBits == 1

\* isqrt_u128: two bits of n at a time, from the highest.
Isqrt(n) ==
  LET shift == CHOOSE s \in 0 .. 30 :
                 s % 2 = 0 /\ (s = 0 \/ 2 ^ s <= n) /\ n < 2 ^ s * 4
      \* after the pair of bits i
      step[i \in 0 .. shift + 2] ==
        IF i > shift THEN [rem |-> 0, root |-> 0]
        ELSE IF i % 2 = 1 THEN step[i + 1]
        ELSE LET before == step[i + 1]
                 rem == before.rem * 4 + ((n \div 2 ^ i) % 4)
                 trial == before.root * 4 + 1
             IN  IF rem >= trial THEN [rem |-> rem - trial, root |-> before.root * 2 + 1]
                                 ELSE [rem |-> rem, root |-> before.root * 2]
  IN  IF n = 0 THEN 0 ELSE step[0].root

\* Mutation: a tie in the bits of the root is taken for a tie of the root.
RootUpNoRemainder(low, half, r, kept) == low > half

\* Whether the bits of the root that are dropped round it up: more than half of
\* a unit, half and a remainder beyond, or half and an odd root.
RootUp(low, half, r, kept) == low > half \/ (low = half /\ (r # 0 \/ kept % 2 = 1))

\* The float hi * 2 ^ e, for a hi that rounding may have carried.
RootWord(hi, e) ==
  LET over == IF hi = 2 ^ (Single.man + 1) THEN 1 ELSE 0
  IN  Word(Single, 0, e + over + Single.man + Bias(Single), (hi \div 2 ^ over) % 2 ^ Single.man)

\* q * 2 ^ half_e without its lowest drop bits.
RootRounded(q, r, half_e, drop) ==
  RootWord((q \div 2 ^ drop) +
             (IF RootUp(q % 2 ^ drop, 2 ^ (drop - 1), r, q \div 2 ^ drop) THEN 1 ELSE 0),
           half_e + drop)

RootOfScaled(scaled, q, half_e) ==
  RootRounded(q, scaled - q * q, half_e, BitLen(q) - (Single.man + 1))

\* The root of sig * 2 ^ e for an even e, from an integer root and its remainder.
RootOfSig(sig, e) ==
  LET scaled == sig * 4 ^ (Single.man + GuardBits)
  IN  RootOfScaled(scaled, Isqrt(scaled), (e \div 2) - (Single.man + GuardBits))

\* A positive finite float; an odd exponent gives one bit to the significand.
SqrtPositive(x) ==
  LET odd == Scale(Single, x) % 2
  IN  RootOfSig(Sig(Single, x) * 2 ^ odd, Scale(Single, x) - odd)

SqrtCr(x) ==
  LET exp == ExpField(Single, x)
      man == ManField(Single, x)
      negative == Sign(Single, x) = 1
  IN  CASE exp = Top(Single) -> IF man = 0 /\ negative THEN NaN(Single) ELSE x
        [] IsZero(Single, x) -> x
        [] exp # Top(Single) /\ ~IsZero(Single, x) ->
             IF negative THEN NaN(Single) ELSE SqrtPositive(x)

\* floor_f32: fraction bits are masked away; 1 less when some were there and
\* the number is negative.
FloorBits(x, exp, rest, negative) ==
  CASE exp >= Single.man -> x
    [] exp < 0 -> IF ~negative THEN 0
                  ELSE IF IsZero(Single, x) THEN x ELSE Neg(Single, FromInt(Single, 1))
    [] OTHER -> IF rest # 0 /\ negative THEN Sub(Single, x - rest, FromInt(Single, 1)) ELSE x - rest

FloorF32(x) ==
  LET exp == ExpField(Single, x) - Bias(Single)
  IN  FloorBits(x, exp, x % 2 ^ (Single.man - exp), Sign(Single, x) = 1)

\* round_ties_away_f64
RoundBits(x, exp, rest, unit, sign) ==
  CASE exp >= Double.man -> x
    [] exp < 0 -> IF Less(Double, Magnitude(Double, x), Word(Double, 0, Bias(Double) - 1, 0))
                  THEN Mul(Double, sign, 0) ELSE sign
    [] OTHER -> IF 2 * rest >= unit /\ rest # 0 THEN Add(Double, x - rest, sign) ELSE x - rest

RoundTiesAwayF64(x) ==
  LET exp == ExpField(Double, x) - Bias(Double)
      unit == 2 ^ (Double.man - exp)
  IN  RoundBits(x, exp, x % unit, unit, FromInt(Double, IF Sign(Double, x) = 1 THEN -1 ELSE 1))

\* Mutation: an exponent field of 0 is taken for that of a normal number.
LdexpExactKeepsTiny(x, k) ==
  LET exp == ExpField(Single, x) + k
  IN  CASE IsZeroIn(Single, x) -> x
        [] ~IsZeroIn(Single, x) /\ exp < 0 -> 0
        [] ~IsZeroIn(Single, x) /\ exp >= Top(Single) -> Inf(Single, Sign(Single, x))
        [] OTHER -> Word(Single, Sign(Single, x), exp, ManField(Single, x))

\* ldexp_exact: k is added to the exponent field; what would be subnormal is 0.
LdexpExact(x, k) ==
  LET exp == ExpField(Single, x) + k
  IN  CASE IsZeroIn(Single, x) -> x
        [] ~IsZeroIn(Single, x) /\ exp <= 0 -> 0
        [] ~IsZeroIn(Single, x) /\ exp >= Top(Single) -> Inf(Single, Sign(Single, x))
        [] OTHER -> Word(Single, Sign(Single, x), exp, ManField(Single, x))

\* frexp_exact: the exponent field becomes that of [1/2, 1).
FrexpMantissa(x) == Word(Single, Sign(Single, x), Bias(Single) - 1, ManField(Single, x))
FrexpExponent(x) == ExpField(Single, x) - (Bias(Single) - 1)
=============================================================================
