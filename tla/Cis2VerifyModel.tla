-------------------------- MODULE Cis2VerifyModel ---------------------------
(***************************************************************************)
(* The forward pass of cis2-verify: one position at a time.  The cache of  *)
(* a layer is one flat vector of keys and one of values that grow by a     *)
(* row per position; how many positions to attend to is their length       *)
(* divided by the width of a row.                                          *)
(***************************************************************************)
EXTENDS Floats

HeadDim(c) == c.hidden \div c.n_heads
Group(c) == c.n_heads \div c.n_kv_heads
Half(c) == HeadDim(c) \div 2
KvWidth(c) == c.n_kv_heads * HeadDim(c)

\* Without these the formulas of the specification are not defined.
Check(c) ==
  /\ c.n_heads # 0 /\ c.n_kv_heads # 0
  /\ c.hidden % c.n_heads = 0
  /\ c.n_heads % c.n_kv_heads = 0
  /\ HeadDim(c) % 2 = 0
  /\ c.plain

SameShape(tensor, shape) == tensor.shape = shape

\* Mutation: a tied checkpoint may carry lm_head.weight.
LoadsEither(c) ==
  /\ Check(c)
  /\ AllFit(c.tensors, GlobalShapes(c), SameShape)
  /\ \A l \in DOMAIN c.layers :
       /\ AllFit(c.layers[l], LayerShapes(c, KvWidth(c)), SameShape)
       /\ PresentFit(c.layers[l], BiasShapes(c, KvWidth(c)), SameShape)

\* Which of two heads wins is not specified, so neither does.
Loads(c) ==
  /\ Check(c)
  /\ AllFit(c.tensors, GlobalShapes(c), SameShape)
  /\ \A l \in DOMAIN c.layers :
       /\ AllFit(c.layers[l], LayerShapes(c, KvWidth(c)), SameShape)
       /\ PresentFit(c.layers[l], BiasShapes(c, KvWidth(c)), SameShape)
  /\ IF c.tied THEN "lm_head" \notin DOMAIN c.tensors
     ELSE AllFit(c.tensors, [lm_head |-> <<c.vocab, c.hidden>>], SameShape)

LmHead(c) == IF c.tied THEN c.tensors["embed"].data ELSE c.tensors["lm_head"].data

-----------------------------------------------------------------------------
DotSeq(a, b) == LeftSum(Products(a, b))

MatVec(w, x, rows, cols) == Array([o \in 0 .. rows - 1 |-> DotSeq(Span(w, o * cols, cols), x)])

InvRms(x, eps) == Rsqrt(Add(Div(LeftSum(Products(x, x)), FromInt(Size(x))), eps))

\* Mutation: the weight is applied to the reciprocal root first.
ScaledOther(x, inv, weight) == Array([i \in DOMAIN x |-> Mul(x[i], Mul(inv, weight[i]))])

Scaled(x, inv, weight) == Array([i \in DOMAIN x |-> Mul(Mul(x[i], inv), weight[i])])
RmsNorm(x, weight, eps) == Scaled(x, InvRms(x, eps), weight)

MaxSeq(s) ==
  LET max[j \in DOMAIN s] ==
        IF j = 0 THEN s[0] ELSE LET m == max[j - 1] IN IF Exceeds(s[j], m) THEN s[j] ELSE m
  IN  max[Size(s) - 1]
Exps(s, top) == Array([j \in DOMAIN s |-> Exp(Sub(s[j], top))])
Shares(e, denom) == Array([j \in DOMAIN e |-> Div(e[j], denom)])
Normalised(e) == Shares(e, LeftSum(e))
SoftmaxSeq(s) == Normalised(Exps(s, MaxSeq(s)))

AddBias(x, layer, name) == IF name \in DOMAIN layer THEN Sums(x, layer[name].data) ELSE x

\* The outputs go to a vector of zeros that replaces the head: the last
\* element of an odd head would be 0.
RopeRotate(head, table, half) ==
  Array([i \in DOMAIN head |->
     IF i < half
     THEN Add(Mul(head[i], table.cos[i]), Mul(Neg(head[i + half]), table.sin[i]))
     ELSE IF i < 2 * half
          THEN Add(Mul(head[i], table.cos[i - half]), Mul(head[i - half], table.sin[i - half]))
          ELSE Zero])

InvFreq(c) ==
  Array([i \in 0 .. Half(c) - 1 |->
     Exp(Neg(Mul(Div(FromInt(2 * i), FromInt(HeadDim(c))), Ln(c.theta))))])

RopeTable(c, pos) ==
  LET freq == InvFreq(c)
  IN  [cos |-> Array([i \in DOMAIN freq |-> Cos(Mul(FromInt(pos), freq[i]))]),
       sin |-> Array([i \in DOMAIN freq |-> Sin(Mul(FromInt(pos), freq[i]))])]

Rotated(c, x, table) ==
  Joined(x, HeadDim(c), Array([n \in 0 .. (Size(x) \div HeadDim(c)) - 1 |->
                           RopeRotate(HeadSlice(x, n, HeadDim(c)), table, Half(c))]))

-----------------------------------------------------------------------------
NewCache(c) == [l \in 0 .. c.n_layers - 1 |-> [keys |-> << >>, values |-> << >>, width |-> 0]]

\* Vec::extend_from_slice; an empty vector is the function on no positions.
Extend(x, y) ==
  Array([i \in 0 .. Size(x) + Size(y) - 1 |-> IF i < Size(x) THEN x[i] ELSE y[i - Size(x)]])

Push(cache, l, k, v) ==
  [cache EXCEPT ![l] =
     [keys |-> Extend(@.keys, k), values |-> Extend(@.values, v), width |-> Size(k)]]

Held(entry) == IF entry.width = 0 THEN 0 ELSE Size(entry.keys) \div entry.width

\* Mutation: the width of a row is taken for that of a head.
RowTight(x, entry, pos, kv_head, hd) == Span(x, (pos + kv_head) * hd, hd)

\* key and value
Row(x, entry, pos, kv_head, hd) == Span(x, pos * entry.width + kv_head * hd, hd)

-----------------------------------------------------------------------------
Embed(c, token) == Span(c.tensors["embed"].data, token * c.hidden, c.hidden)

Projected(c, w, name, bias, rows, ln1) ==
  AddBias(MatVec(w[name].data, ln1, rows, c.hidden), w, bias)

\* A query head's weights of the positions held, and what they select.
Scores(c, q, qh, entry) ==
  SoftmaxSeq(Array([j \in 0 .. Held(entry) - 1 |->
    Mul(DotSeq(HeadSlice(q, qh, HeadDim(c)), Row(entry.keys, entry, j, qh \div Group(c), HeadDim(c))),
        Rsqrt(FromInt(HeadDim(c))))]))

Mixed(c, scores, kv_head, d, entry) ==
  LeftSum([j \in DOMAIN scores |->
    Mul(scores[j], Row(entry.values, entry, j, kv_head, HeadDim(c))[d])])

Mix(c, scores, entry) ==
  Array([x \in 0 .. c.hidden - 1 |->
    LET qh == x \div HeadDim(c) IN Mixed(c, scores[qh], qh \div Group(c), x % HeadDim(c), entry)])

Attend(c, q, entry) ==
  Mix(c, Array([qh \in 0 .. c.n_heads - 1 |-> Scores(c, q, qh, entry)]), entry)

\* The cache holds this position's key and value by now.
AfterPush(c, l, h, q, cache) ==
  [h |-> Sums(h, MatVec(c.layers[l]["o"].data, Attend(c, q, cache[l]), c.hidden, c.hidden)),
   cache |-> cache]

FromNorm(c, l, w, h, ln1, table, cache) ==
  AfterPush(c, l, h, Rotated(c, Projected(c, w, "q", "q_bias", c.hidden, ln1), table),
            Push(cache, l, Rotated(c, Projected(c, w, "k", "k_bias", KvWidth(c), ln1), table),
                           Projected(c, w, "v", "v_bias", KvWidth(c), ln1)))

Attention(c, l, pos, h, cache) ==
  FromNorm(c, l, c.layers[l], h, RmsNorm(h, c.layers[l]["ln1"].data, c.eps),
           RopeTable(c, pos), cache)

Hidden(gate, up) == Array([i \in DOMAIN gate |-> Mul(Silu(gate[i]), up[i])])

MlpFrom(c, w, h, ln2) ==
  Sums(h, MatVec(w["down"].data,
                 Hidden(MatVec(w["gate"].data, ln2, c.inter, c.hidden),
                        MatVec(w["up"].data, ln2, c.inter, c.hidden)),
                 c.hidden, c.inter))

Mlp(c, l, h) == MlpFrom(c, c.layers[l], h, RmsNorm(h, c.layers[l]["ln2"].data, c.eps))

Logits(c, h) ==
  MatVec(LmHead(c), RmsNorm(h, c.tensors["norm"].data, c.eps), c.vocab, c.hidden)
=============================================================================
