---------------------------- MODULE Verify3Model ----------------------------
(***************************************************************************)
(* The forward pass of verify3: one position at a time.  The cache of a    *)
(* layer is an array with room for every position of the decode, allocated *)
(* and not cleared; a position writes its row and reads the rows up to its *)
(* own.  Tensors are judged by the number of their elements alone.         *)
(***************************************************************************)
EXTENDS Floats, Sequences

HeadDim(c) == c.hidden \div c.n_heads
Group(c) == c.n_heads \div c.n_kv_heads
NkvDim(c) == c.n_kv_heads * HeadDim(c)

\* st_get_tensor: as many elements as its own shape says, and as asked for;
\* asking for 0 asks for nothing.
SameNumel(tensor, shape) ==
  LET Numel(s) == IF Len(s) = 1 THEN s[1] ELSE s[1] * s[2]
  IN  /\ Size(tensor.data) = Numel(tensor.shape)
      /\ Numel(shape) = 0 \/ Size(tensor.data) = Numel(shape)

Loads(c) ==
  /\ c.hidden # 0 /\ c.n_heads # 0 /\ c.n_kv_heads # 0
  /\ ~c.overlap
  /\ AllFit(c.tensors, GlobalShapes(c), SameNumel)
  /\ \A l \in DOMAIN c.layers :
       /\ AllFit(c.layers[l], LayerShapes(c, NkvDim(c)), SameNumel)
       /\ PresentFit(c.layers[l], BiasShapes(c, NkvDim(c)), SameNumel)
  /\ c.tied \/ PresentFit(c.tensors, [lm_head |-> <<c.vocab, c.hidden>>], SameNumel)

\* Mutation: the flag of the configuration is not looked at.
LmHeadTied(c) == c.tensors["embed"].data

LmHead(c) ==
  IF ~c.tied /\ "lm_head" \in DOMAIN c.tensors THEN c.tensors["lm_head"].data
                                                ELSE c.tensors["embed"].data

InvFreq(c) ==
  Array([i \in 0 .. (HeadDim(c) \div 2) - 1 |->
     Exp(Neg(Mul(Div(FromInt(2 * i), FromInt(HeadDim(c))), Ln(c.theta))))])

-----------------------------------------------------------------------------
DotSeq(a, b) == LeftSum(Products(a, b))

MatVec(w, x, rows, cols) == Array([o \in 0 .. rows - 1 |-> DotSeq(Span(w, o * cols, cols), x)])

InvRms(x, eps) == Rsqrt(Add(Div(LeftSum(Products(x, x)), FromInt(Size(x))), eps))
Scaled(x, inv, weight) == Array([i \in DOMAIN x |-> Mul(Mul(x[i], inv), weight[i])])
RmsNorm(x, weight, eps) == Scaled(x, InvRms(x, eps), weight)

AddBiasOpt(x, layer, name) == IF name \in DOMAIN layer THEN Sums(x, layer[name].data) ELSE x

RopeTable(freq, pos) ==
  [cos |-> Array([i \in DOMAIN freq |-> Cos(Mul(FromInt(pos), freq[i]))]),
   sin |-> Array([i \in DOMAIN freq |-> Sin(Mul(FromInt(pos), freq[i]))])]

\* Twice half elements are written back: the last one of an odd head stays.
RopeApplyHead(head, table, half) ==
  Array([i \in DOMAIN head |->
     IF i < half
     THEN Add(Mul(head[i], table.cos[i]), Mul(Neg(head[i + half]), table.sin[i]))
     ELSE IF i < 2 * half
          THEN Add(Mul(head[i], table.cos[i - half]), Mul(head[i - half], table.sin[i - half]))
          ELSE head[i]])

RopeHeads(c, x, table) ==
  Joined(x, HeadDim(c), Array([n \in 0 .. (Size(x) \div HeadDim(c)) - 1 |->
                           RopeApplyHead(HeadSlice(x, n, HeadDim(c)), table, HeadDim(c) \div 2)]))

MaxSeq(s) ==
  LET max[j \in DOMAIN s] ==
        IF j = 0 THEN s[0] ELSE LET m == max[j - 1] IN IF Exceeds(s[j], m) THEN s[j] ELSE m
  IN  max[Size(s) - 1]
Exps(s, top) == Array([j \in DOMAIN s |-> Exp(Sub(s[j], top))])
Shares(e, denom) == Array([j \in DOMAIN e |-> Div(e[j], denom)])
Normalised(e) == Shares(e, LeftSum(e))

KvCacheAlloc(c, cap) ==
  LET room == Array([x \in 0 .. cap * NkvDim(c) - 1 |-> Unset])
  IN  [l \in 0 .. c.n_layers - 1 |-> [k |-> room, v |-> room]]

\* memcpy of a row to its place.
Stored(array, pos, row) ==
  Array([x \in DOMAIN array |->
     IF x \div Size(row) = pos THEN row[x % Size(row)] ELSE array[x]])

-----------------------------------------------------------------------------
Embed(c, token) == Span(c.tensors["embed"].data, token * c.hidden, c.hidden)

\* Where the key or value of a position and of a query head's group begins.
At(c, j, qh) == j * NkvDim(c) + (qh \div Group(c)) * HeadDim(c)

Scores(c, q, qh, P, k) ==
  Array([j \in P |->
    Mul(DotSeq(HeadSlice(q, qh, HeadDim(c)), Span(k, At(c, j, qh), HeadDim(c))),
        Rsqrt(FromInt(HeadDim(c))))])

Weights(s) == Normalised(Exps(s, MaxSeq(s)))

Mixed(c, weights, qh, d, v) ==
  LeftSum([j \in DOMAIN weights |-> Mul(weights[j], v[At(c, j, qh) + d])])

Mix(c, weights, v) ==
  Array([x \in 0 .. c.hidden - 1 |->
    LET qh == x \div HeadDim(c) IN Mixed(c, weights[qh], qh, x % HeadDim(c), v)])

\* P: the positions attended to.
Attend(c, q, P, k, v) ==
  Mix(c, Array([qh \in 0 .. c.n_heads - 1 |-> Weights(Scores(c, q, qh, P, k))]), v)

AfterStore(c, l, pos, h, q, cache) ==
  [h |-> Sums(h, MatVec(c.layers[l]["o"].data,
                        Attend(c, q, 0 .. pos, cache[l].k, cache[l].v), c.hidden, c.hidden)),
   cache |-> cache]

StoredAt(cache, l, pos, k, v) ==
  [cache EXCEPT ![l] = [k |-> Stored(@.k, pos, k), v |-> Stored(@.v, pos, v)]]

Projected(c, w, name, bias, rows, ln1) ==
  AddBiasOpt(MatVec(w[name].data, ln1, rows, c.hidden), w, bias)

FromNorm(c, l, w, pos, h, ln1, table, cache) ==
  AfterStore(c, l, pos, h, RopeHeads(c, Projected(c, w, "q", "q_bias", c.hidden, ln1), table),
             StoredAt(cache, l, pos,
                      RopeHeads(c, Projected(c, w, "k", "k_bias", NkvDim(c), ln1), table),
                      Projected(c, w, "v", "v_bias", NkvDim(c), ln1)))

Attention(c, l, pos, h, cache) ==
  FromNorm(c, l, c.layers[l], pos, h, RmsNorm(h, c.layers[l]["ln1"].data, c.eps),
           RopeTable(InvFreq(c), pos), cache)

Hidden(gate, up) == Array([i \in DOMAIN gate |-> Mul(Silu(gate[i]), up[i])])

MlpFrom(c, w, h, ln2) ==
  Sums(h, MatVec(w["down"].data,
                 Hidden(MatVec(w["gate"].data, ln2, c.inter, c.hidden),
                        MatVec(w["up"].data, ln2, c.inter, c.hidden)),
                 c.hidden, c.inter))

Mlp(c, l, h) == MlpFrom(c, c.layers[l], h, RmsNorm(h, c.layers[l]["ln2"].data, c.eps))

Logits(c, h) ==
  MatVec(LmHead(c), RmsNorm(h, c.tensors["norm"].data, c.eps), c.vocab, c.hidden)
=============================================================================
