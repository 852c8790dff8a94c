------------------------------- MODULE Floats -------------------------------
(***************************************************************************)
(* What the forward passes share.  A 32-bit float is an element of an      *)
(* unspecified set and an operation on floats is an unspecified operator:  *)
(* nothing is assumed of addition, so two passes have the same result only *)
(* if they do the same operations, in the same order, on the same values.  *)
(* NaNs and the sign of zero are left out: Exceeds orders the values.      *)
(*                                                                         *)
(* As in the sources, vectors and positions start at 0, and a matrix is    *)
(* the vector of its rows, one after another.                              *)
(***************************************************************************)
EXTENDS Integers, FiniteSets, TLC

CONSTANTS
  Float,                                     \* the values
  MaxInt,                                    \* the largest integer
  Zero, Add(_, _), Mul(_, _), Div(_, _), Neg(_), Abs(_),
  Exceeds(_, _),                             \* a > b
  FromInt(_), Lround(_),                     \* to and from integers
  Rsqrt(_), Ln(_), Exp(_), Silu(_), Cos(_), Sin(_),   \* the pinned functions
  Unset                                      \* what memory holds before it is written

\* Operations on values give values, and of two values one exceeds the other.
ASSUME FloatsAssumption ==
  /\ MaxInt \in Nat /\ 127 <= MaxInt
  /\ Zero \in Float /\ Unset \in Float
  /\ \A n \in -MaxInt .. MaxInt : FromInt(n) \in Float
  /\ \A a \in Float :
       /\ Neg(a) \in Float /\ Abs(a) \in Float /\ Rsqrt(a) \in Float /\ Ln(a) \in Float
       /\ Exp(a) \in Float /\ Silu(a) \in Float /\ Cos(a) \in Float /\ Sin(a) \in Float
       /\ Lround(a) \in Int
       /\ ~Exceeds(a, a)
  /\ \A a, b \in Float :
       /\ Add(a, b) \in Float /\ Mul(a, b) \in Float /\ Div(a, b) \in Float
       /\ a = b \/ Exceeds(a, b) \/ Exceeds(b, a)
       /\ \A d \in Float : Exceeds(a, b) /\ Exceeds(b, d) => Exceeds(a, d)

Sub(a, b) == Add(a, Neg(b))

Size(x) == Cardinality(DOMAIN x)

\* A function, which TLC has to compute to choose it: where it is written, once,
\* and not at each use.
Array(f) == CHOOSE g \in {f} : g = g

\* The n elements of x that begin at a position.
Span(x, from, n) == Array([i \in 0 .. n - 1 |-> x[from + i]])

\* acc = 0; acc = acc + x[i] for i = 0, 1, 2, ...
LeftSum(x) ==
  LET acc[i \in 0 .. Size(x)] == IF i = 0 THEN Zero ELSE Add(acc[i - 1], x[i - 1])
  IN  acc[Size(x)]

Products(a, b) == [i \in DOMAIN a |-> Mul(a[i], b[i])]
Sums(a, b) == Array([i \in DOMAIN a |-> Add(a[i], b[i])])

\* The n-th head of x, and x with its heads replaced.
HeadSlice(x, n, hd) == Span(x, n * hd, hd)
Joined(x, hd, heads) ==
  Array([i \in DOMAIN x |->
     IF i \div hd \in DOMAIN heads THEN heads[i \div hd][i % hd] ELSE x[i]])

-----------------------------------------------------------------------------
(* A checkpoint: its sizes, the flags of config.json, "plain" (bfloat16,   *)
(* SiLU and rope_interleaved = false), and its tensors by name, each with  *)
(* a shape and data.  "pinned" is the one with the hashes of the           *)
(* specification, "overlap" one in whose file tensors share bytes.         *)

LayerShapes(c, kv) ==
  [ln1 |-> <<c.hidden>>, ln2 |-> <<c.hidden>>,
   q |-> <<c.hidden, c.hidden>>, k |-> <<kv, c.hidden>>, v |-> <<kv, c.hidden>>,
   o |-> <<c.hidden, c.hidden>>,
   gate |-> <<c.inter, c.hidden>>, up |-> <<c.inter, c.hidden>>, down |-> <<c.hidden, c.inter>>]

BiasShapes(c, kv) == [q_bias |-> <<c.hidden>>, k_bias |-> <<kv>>, v_bias |-> <<kv>>]

GlobalShapes(c) == [embed |-> <<c.vocab, c.hidden>>, norm |-> <<c.hidden>>]

\* The tensors of t are as listed: Fits of each that is there, and none missing.
AllFit(t, shapes, Fits(_, _)) ==
  \A n \in DOMAIN shapes : n \in DOMAIN t /\ Fits(t[n], shapes[n])

PresentFit(t, shapes, Fits(_, _)) ==
  \A n \in DOMAIN shapes \cap DOMAIN t : Fits(t[n], shapes[n])
=============================================================================
