----------------------------- MODULE PinnedMath -----------------------------
(***************************************************************************)
(* The pinned functions: rsqrt, exp, ln, SiLU, sine and cosine, one        *)
(* rounded operation after another.  The four programs write down the same *)
(* steps.  They differ in where sqrt, floor and round come from and in     *)
(* what exp makes of a NaN.  With "meaning" for Program, scaling and       *)
(* splitting a float are what they say and not work on its bits: nothing   *)
(* computes this, it is what the programs are compared with.               *)
(***************************************************************************)
EXTENDS SoftFp, Sequences

CONSTANTS
  Program,   \* "cis2_verify", "reference", "verify2", "verify3" or "meaning"
  ExpMax, ExpMin, EXP_LOG2E, EXP_C1, EXP_C2, EXP_P,
  PI_2_F64, SIN_C, COS_C,              \* SIN_C and COS_C from the lowest power
  LOG_SQRTHF, LOG_Q1, LOG_Q2, LOG_P

Sqrt(x) == IF Program = "cis2_verify" THEN SqrtCr(x) ELSE Root(Single, x)
FloorOf(x) == IF Program = "cis2_verify" THEN FloorF32(x) ELSE Floor(Single, x)
Round(x) == IF Program = "cis2_verify" THEN RoundTiesAwayF64(x) ELSE RoundAway(Double, x)
Ldexp(x, k) == IF Program = "meaning" THEN Scalb(Single, x, k) ELSE LdexpExact(x, k)
FrexpM(x) == IF Program = "meaning" THEN Fraction(Single, x) ELSE FrexpMantissa(x)
FrexpE(x) == IF Program = "meaning" THEN Exponent(Single, x) ELSE FrexpExponent(x)
NaNOf(x) == IF Program = "cis2_verify" THEN x ELSE NaN(Single)

Num(n) == FromInt(Single, n)
Half == Word(Single, 0, Bias(Single) - 1, 0)
\* One rounded operation each, of f32.
Plus(a, b) == Add(Single, a, b)
Minus(a, b) == Sub(Single, a, b)
Times(a, b) == Mul(Single, a, b)
Over(a, b) == Div(Single, a, b)

\* (... (P[1] * x + P[2]) * x + ...) + P[Len(P)]; v is the sum before the i-th.
Horner(P, x) ==
  LET from[i \in 2 .. Len(P) + 1, v \in Words(Single)] ==
        IF i > Len(P) THEN v ELSE from[i + 1, Plus(Times(v, x), P[i])]
  IN  from[2, P[1]]

Rsqrt(x) == Over(Num(1), Sqrt(x))

-----------------------------------------------------------------------------
ExpPoly(r) ==
  Plus(Plus(Times(Horner(EXP_P, r), Times(r, r)), r), Num(1))

\* exp(x) = 2 ^ k * exp(r)
ExpAt(x, k) ==
  Ldexp(ExpPoly(Minus(Minus(x, Times(k, EXP_C1)), Times(k, EXP_C2))), ToInt(Single, k))

ExpReduced(x) == ExpAt(x, FloorOf(Plus(Times(x, EXP_LOG2E), Half)))

ExpPinned(x) ==
  CASE IsNaN(Single, x) -> NaNOf(x)
    [] Less(Single, ExpMax, x) -> Inf(Single, 0)
    [] Less(Single, x, ExpMin) -> 0
    [] OTHER -> ExpReduced(x)

SiluPinned(x) == Over(x, Plus(Num(1), ExpPinned(Neg(Single, x))))

-----------------------------------------------------------------------------
\* octant_reduce: through f64, and one rounding back.
ReduceK(xd) == Round(Div(Double, xd, PI_2_F64))
ReduceR(xd, k) == Convert(Double, Single, Sub(Double, xd, Mul(Double, k, PI_2_F64)))

SinTail(r, r2) ==
  Plus(r, Times(Plus(Times(Plus(Times(SIN_C[3], r2), SIN_C[2]), r2), SIN_C[1]), Times(r2, r)))
SinPoly(r) == SinTail(r, Times(r, r))

CosTail(r2) ==
  Plus(Minus(Num(1), Times(Half, r2)),
       Times(Plus(Times(Plus(Times(COS_C[3], r2), COS_C[2]), r2), COS_C[1]), Times(r2, r2)))
CosPoly(r) == CosTail(Times(r, r))

\* The sine in a quadrant; that of the next one is the cosine.
Negated(p, negate) == IF negate THEN Neg(Single, p) ELSE p
InQuadrant(q, r) == Negated(IF q % 2 = 0 THEN SinPoly(r) ELSE CosPoly(r), q \in {2, 3})

SinReduced(xd, k) == InQuadrant(ToInt(Double, k) % 4, ReduceR(xd, k))
SinFrom(xd) == SinReduced(xd, ReduceK(xd))
SinPinned(x) == SinFrom(Convert(Single, Double, x))

CosReduced(xd, k) == InQuadrant((ToInt(Double, k) + 1) % 4, ReduceR(xd, k))
CosFrom(xd) == CosReduced(xd, ReduceK(xd))
CosPinned(x) == CosFrom(Convert(Single, Double, x))

-----------------------------------------------------------------------------
\* y is the polynomial's tail, z the square of m.
LnSum(m, z, fe, y) == Plus(Plus(m, Minus(y, Times(Half, z))), Times(fe, LOG_Q2))

LnAt(m, z, fe) == LnSum(m, z, fe, Plus(Times(Times(Horner(LOG_P, m), m), z), Times(fe, LOG_Q1)))

LnOf(m, fe) == LnAt(m, Times(m, m), fe)

\* A mantissa below the root of a half is doubled and counts one power less.
LnSplit(m0, e0, low) ==
  LnOf(Minus(IF low THEN Plus(m0, m0) ELSE m0, Num(1)), Num(IF low THEN e0 - 1 ELSE e0))

LnReduced(x) ==
  LET m0 == FrexpM(x) IN LnSplit(m0, FrexpE(x), Less(Single, m0, LOG_SQRTHF))

LnPinned(x) ==
  CASE IsNaN(Single, x) \/ Less(Single, x, 0) -> NaN(Single)
    [] ~IsNaN(Single, x) /\ IsZeroIn(Single, x) -> Inf(Single, 1)
    [] OTHER -> LnReduced(x)

-----------------------------------------------------------------------------
\* What the program computes when it calls f with the float x.
Value(f, x) ==
  CASE f = "sqrt"  -> Sqrt(x)
    [] f = "floor" -> FloorOf(x)
    [] f = "round" -> Round(x)
    [] f = "rsqrt" -> Rsqrt(x)
    [] f = "exp"   -> ExpPinned(x)
    [] f = "silu"  -> SiluPinned(x)
    [] f = "ln"    -> LnPinned(x)
    [] f = "sin"   -> SinPinned(x)
    [] f = "cos"   -> CosPinned(x)
=============================================================================
