---------------------------- MODULE Transformer -----------------------------
(***************************************************************************)
(* What a forward pass computes, as formulas on all positions of a text:   *)
(* no cache, no arrays, no order but that of the sums.  Num is "fp32" or   *)
(* "int8"; in the second, a matrix is applied with its rows and its        *)
(* argument rounded to multiples of a 127th of their largest magnitude,    *)
(* and so are the embeddings.                                              *)
(***************************************************************************)
EXTENDS Floats, Sequences

Magnitudes(x) == {Abs(x[i]) : i \in DOMAIN x} \cup {Zero}
Largest(S) == CHOOSE a \in S : \A b \in S : ~Exceeds(b, a)

\* The nearest of -127 .. 127.
Level(n) == IF n \in -127 .. 127 THEN n ELSE IF n > 0 THEN 127 ELSE -127

\* A vector in steps of a 127th of its largest magnitude.
Stepped(x, step) ==
  [step |-> step, levels |-> Array([i \in DOMAIN x |-> Level(Lround(Div(x[i], step)))])]
StepOf(largest) == IF largest = Zero THEN FromInt(1) ELSE Div(largest, FromInt(127))
InSteps(x) == Stepped(x, StepOf(Largest(Magnitudes(x))))

\* Both vectors rounded, the product taken of the integers.
RoundedDot(a, b) ==
  LET s[i \in 0 .. Size(a.levels)] ==
        IF i = 0 THEN 0 ELSE s[i - 1] + a.levels[i - 1] * b.levels[i - 1]
  IN  Mul(Mul(FromInt(s[Size(a.levels)]), a.step), b.step)

MatrixRow(w, o, n) == Array([i \in 0 .. n - 1 |-> w[o * n + i]])

TimesExact(w, rows, x) ==
  Array([o \in 0 .. rows - 1 |-> LeftSum(Products(MatrixRow(w, o, Size(x)), x))])
TimesRounded(w, rows, n, x) ==
  Array([o \in 0 .. rows - 1 |-> RoundedDot(InSteps(MatrixRow(w, o, n)), x)])

Times(num, w, rows, x) ==
  IF num = "fp32" THEN TimesExact(w, rows, x) ELSE TimesRounded(w, rows, Size(x), InSteps(x))

Normed(x, gain, eps) ==
  LET mean == Div(LeftSum(Products(x, x)), FromInt(Size(x)))
      inv == Rsqrt(Add(mean, eps))
  IN  Array([i \in DOMAIN x |-> Mul(Mul(x[i], inv), gain[i])])

\* Dimensions d and d + half of every head turned by an angle that grows
\* with the position.
Angle(c, hd, d, p) == Mul(FromInt(p), Exp(Neg(Mul(Div(FromInt(2 * d), FromInt(hd)), Ln(c.theta)))))
Turn(x, partner, angle) == Add(Mul(x, Cos(angle)), Mul(partner, Sin(angle)))
Turned(c, x, p) ==
  LET hd == c.hidden \div c.n_heads
      half == hd \div 2
  IN  Array([i \in DOMAIN x |->
         Turn(x[i], IF i % hd < half THEN Neg(x[i + half]) ELSE x[i - half],
              Angle(c, hd, (i % hd) % half, p))])

ExpsBelow(s, top) == Array([j \in DOMAIN s |-> Exp(Sub(s[j], top))])
Parts(e, total) == Array([j \in DOMAIN e |-> Div(e[j], total)])
Whole(e) == Parts(e, LeftSum(e))
Softmax(s) == Whole(ExpsBelow(s, Largest({s[j] : j \in DOMAIN s})))

-----------------------------------------------------------------------------
EmbeddingOf(num, c, token) ==
  LET row == MatrixRow(c.tensors["embed"].data, token, c.hidden)
      Restored(r) == Array([i \in DOMAIN r.levels |-> Mul(FromInt(r.levels[i]), r.step)])
  IN  IF num = "fp32" THEN row ELSE Restored(InSteps(row))

\* Query heads share the keys and values of a head in groups of equal size.
SharedHead(c, h) ==
  CHOOSE g \in 0 .. c.n_kv_heads - 1 :
    LET group == c.n_heads \div c.n_kv_heads IN h \in g * group .. (g + 1) * group - 1

\* xs: the residual at every position.  Q, K and V are of all positions.
Linear(num, c, w, name, bias, rows, x) ==
  LET y == Times(num, w[name].data, rows, x)
  IN  IF bias \in DOMAIN w THEN Sums(y, w[bias].data) ELSE y

Score(c, q, k, h, hd) ==
  Mul(LeftSum([d \in 0 .. hd - 1 |-> Mul(q[h * hd + d], k[SharedHead(c, h) * hd + d])]),
      Rsqrt(FromInt(hd)))

Select(c, a, V, h, hd, d) ==
  LeftSum([j \in DOMAIN a |-> Mul(a[j], V[j][SharedHead(c, h) * hd + d])])

\* What position p sees of the positions up to its own, with weights A by head.
Selected(c, A, V, hd) ==
  Array([i \in 0 .. c.hidden - 1 |-> Select(c, A[i \div hd], V, i \div hd, hd, i % hd)])

SeenFrom(c, q, K, V, p, hd) ==
  Selected(c, Array([h \in 0 .. c.n_heads - 1 |->
                Softmax(Array([j \in 0 .. p |-> Score(c, q, K[j], h, hd)]))]), V, hd)

Seeing(num, c, w, xs, Q, K, V) ==
  Array([p \in DOMAIN xs |->
    Sums(xs[p], Times(num, w["o"].data, c.hidden,
                      SeenFrom(c, Q[p], K, V, p, c.hidden \div c.n_heads)))])

FromNormed(num, c, w, xs, In) ==
  LET kv == c.n_kv_heads * (c.hidden \div c.n_heads)
  IN  Seeing(num, c, w, xs,
        Array([p \in DOMAIN xs |-> Turned(c, Linear(num, c, w, "q", "q_bias", c.hidden, In[p]), p)]),
        Array([p \in DOMAIN xs |-> Turned(c, Linear(num, c, w, "k", "k_bias", kv, In[p]), p)]),
        Array([p \in DOMAIN xs |-> Linear(num, c, w, "v", "v_bias", kv, In[p])]))

AfterAttention(num, c, w, xs) ==
  FromNormed(num, c, w, xs, Array([p \in DOMAIN xs |-> Normed(xs[p], w["ln1"].data, c.eps)]))

Gated(gate, up) == Array([i \in DOMAIN gate |-> Mul(Silu(gate[i]), up[i])])

MlpOf(num, c, w, y) ==
  Times(num, w["down"].data, c.hidden,
        Gated(Times(num, w["gate"].data, c.inter, y), Times(num, w["up"].data, c.inter, y)))

AfterMlp(num, c, w, xs) ==
  Array([p \in DOMAIN xs |-> Sums(xs[p], MlpOf(num, c, w, Normed(xs[p], w["ln2"].data, c.eps)))])

\* The residuals after 0, 1, 2, ... blocks; attention and MLP alternate.
Residuals(num, c, tokens) ==
  LET after[n \in 0 .. 2 * c.n_layers] ==
        IF n = 0 THEN Array([p \in 0 .. Len(tokens) - 1 |-> EmbeddingOf(num, c, tokens[p + 1])])
        ELSE IF n % 2 = 1 THEN AfterAttention(num, c, c.layers[(n - 1) \div 2], after[n - 1])
                          ELSE AfterMlp(num, c, c.layers[(n - 1) \div 2], after[n - 1])
  IN  Array([n \in 0 .. 2 * c.n_layers |-> after[n]])

LogitsFrom(num, c, x) ==
  LET head == IF c.tied THEN c.tensors["embed"] ELSE c.tensors["lm_head"]
  IN  Times(num, head.data, c.vocab, Normed(x, c.tensors["norm"].data, c.eps))
=============================================================================
