--------------------------- MODULE ReferenceModel ---------------------------
(***************************************************************************)
(* The forward pass of the reference: one position at a time.  The cache   *)
(* of a layer is a list with one vector per position; positions 0 to pos   *)
(* are attended to, and the angles are computed anew for every head.       *)
(* Nothing but the shapes of the tensors is checked when loading.          *)
(***************************************************************************)
EXTENDS Floats, Sequences

HeadDim(c) == c.hidden \div c.n_heads
KvWidth(c) == c.n_kv_heads * HeadDim(c)

SameShape(tensor, shape) == tensor.shape = shape

\* load_f32_tensor panics at a tensor that is missing or of another shape; an
\* lm_head.weight beside tied embeddings is not read.
Loads(c) ==
  /\ ~c.overlap
  /\ AllFit(c.tensors, GlobalShapes(c), SameShape)
  /\ \A l \in DOMAIN c.layers :
       /\ AllFit(c.layers[l], LayerShapes(c, KvWidth(c)), SameShape)
       /\ PresentFit(c.layers[l], BiasShapes(c, KvWidth(c)), SameShape)
  /\ c.tied \/ AllFit(c.tensors, [lm_head |-> <<c.vocab, c.hidden>>], SameShape)

LmHead(c) == IF c.tied THEN c.tensors["embed"].data ELSE c.tensors["lm_head"].data

InvFreq(c) ==
  Array([i \in 0 .. (HeadDim(c) \div 2) - 1 |->
     LET frac == Div(FromInt(2 * i), FromInt(HeadDim(c))) IN Exp(Neg(Mul(frac, Ln(c.theta))))])

-----------------------------------------------------------------------------
DotSeq(a, b) == LeftSum(Products(a, b))

MatVec(w, x, rows, cols) == Array([o \in 0 .. rows - 1 |-> DotSeq(Span(w, o * cols, cols), x)])

\* The squares are a vector of their own before they are summed.
InvRms(sq, eps) == Rsqrt(Add(Div(LeftSum(sq), FromInt(Size(sq))), eps))
Scaled(x, inv, weight) == Array([i \in DOMAIN x |-> Mul(Mul(x[i], inv), weight[i])])
RmsNorm(x, weight, eps) == Scaled(x, InvRms(Products(x, x), eps), weight)

MaxSeq(s) ==
  LET max[j \in DOMAIN s] ==
        IF j = 0 THEN s[0] ELSE LET m == max[j - 1] IN IF Exceeds(s[j], m) THEN s[j] ELSE m
  IN  max[Size(s) - 1]
Exps(s, top) == Array([j \in DOMAIN s |-> Exp(Sub(s[j], top))])
Shares(e, denom) == Array([j \in DOMAIN e |-> Div(e[j], denom)])
Normalised(e) == Shares(e, LeftSum(e))
SoftmaxSeq(s) == Normalised(Exps(s, MaxSeq(s)))

AddBiasOpt(x, layer, name) == IF name \in DOMAIN layer THEN Sums(x, layer[name].data) ELSE x

\* Mutation: the first half was written to the head before the second is computed.
SecondHalfInPlace(head, first, pos, inv_freq, i, half) ==
  Add(Mul(head[i + half], Cos(Mul(FromInt(pos), inv_freq[i]))),
      Mul(first[i], Sin(Mul(FromInt(pos), inv_freq[i]))))

\* The second half of a rotated head, first being the first.
SecondHalf(head, first, pos, inv_freq, i, half) ==
  Add(Mul(head[i + half], Cos(Mul(FromInt(pos), inv_freq[i]))),
      Mul(head[i], Sin(Mul(FromInt(pos), inv_freq[i]))))

\* out = x * cos + rotate_half(x) * sin, into a vector of zeros.
RopeOut(head, first, pos, inv_freq, half) ==
  Array([i \in DOMAIN head |->
     IF i < half THEN first[i]
     ELSE IF i < 2 * half THEN SecondHalf(head, first, pos, inv_freq, i - half, half) ELSE Zero])

ApplyRopeHead(head, pos, inv_freq) ==
  LET half == Size(head) \div 2
  IN  RopeOut(head, Array([i \in 0 .. half - 1 |->
                       Add(Mul(head[i], Cos(Mul(FromInt(pos), inv_freq[i]))),
                           Mul(Neg(head[i + half]), Sin(Mul(FromInt(pos), inv_freq[i]))))]),
              pos, inv_freq, half)

Rope(c, x, pos, inv_freq) ==
  Joined(x, HeadDim(c), Array([n \in 0 .. (Size(x) \div HeadDim(c)) - 1 |->
                           ApplyRopeHead(HeadSlice(x, n, HeadDim(c)), pos, inv_freq)]))

-----------------------------------------------------------------------------
NewCaches(c) == [l \in 0 .. c.n_layers - 1 |-> [k |-> << >>, v |-> << >>]]

Embed(c, token) == Span(c.tensors["embed"].data, token * c.hidden, c.hidden)

Projected(c, w, name, bias, rows, ln1) ==
  AddBiasOpt(MatVec(w[name].data, ln1, rows, c.hidden), w, bias)

KvHead(c, qh) == qh \div (c.n_heads \div c.n_kv_heads)

\* Positions 0 to pos are looked at, whatever the lists hold.
Scores(c, q, qh, pos, entry) ==
  SoftmaxSeq(Array([j \in 0 .. pos |->
    Mul(DotSeq(HeadSlice(q, qh, HeadDim(c)), HeadSlice(entry.k[j + 1], KvHead(c, qh), HeadDim(c))),
        Rsqrt(FromInt(HeadDim(c))))]))

Mixed(scores, at, entry) ==
  LeftSum([j \in DOMAIN scores |-> Mul(scores[j], entry.v[j + 1][at])])

Mix(c, scores, entry) ==
  Array([x \in 0 .. c.hidden - 1 |->
    LET qh == x \div HeadDim(c)
    IN  Mixed(scores[qh], KvHead(c, qh) * HeadDim(c) + (x % HeadDim(c)), entry)])

Attend(c, q, pos, entry) ==
  Mix(c, Array([qh \in 0 .. c.n_heads - 1 |-> Scores(c, q, qh, pos, entry)]), entry)

AfterPush(c, l, pos, h, q, caches) ==
  [h |-> Sums(h, MatVec(c.layers[l]["o"].data, Attend(c, q, pos, caches[l]), c.hidden, c.hidden)),
   cache |-> caches]

Pushed(caches, l, k, v) == [caches EXCEPT ![l] = [k |-> Append(@.k, k), v |-> Append(@.v, v)]]

FromNorm(c, l, w, pos, h, ln1, inv_freq, caches) ==
  AfterPush(c, l, pos, h, Rope(c, Projected(c, w, "q", "q_bias", c.hidden, ln1), pos, inv_freq),
            Pushed(caches, l,
                   Rope(c, Projected(c, w, "k", "k_bias", KvWidth(c), ln1), pos, inv_freq),
                   Projected(c, w, "v", "v_bias", KvWidth(c), ln1)))

Attention(c, l, pos, h, caches) ==
  FromNorm(c, l, c.layers[l], pos, h, RmsNorm(h, c.layers[l]["ln1"].data, c.eps), InvFreq(c), caches)

Hidden(gate, up) == Array([i \in DOMAIN gate |-> Mul(Silu(gate[i]), up[i])])

MlpFrom(c, w, h, ln2) ==
  Sums(h, MatVec(w["down"].data,
                 Hidden(MatVec(w["gate"].data, ln2, c.inter, c.hidden),
                        MatVec(w["up"].data, ln2, c.inter, c.hidden)),
                 c.hidden, c.inter))

Mlp(c, l, h) == MlpFrom(c, c.layers[l], h, RmsNorm(h, c.layers[l]["ln2"].data, c.eps))

Logits(c, h) ==
  MatVec(LmHead(c), RmsNorm(h, c.tensors["norm"].data, c.eps), c.vocab, c.hidden)
=============================================================================
