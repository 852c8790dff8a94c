---------------------------- MODULE Verify2Model ----------------------------
(***************************************************************************)
(* The forward pass of verify2, which runs on the pinned checkpoint only:  *)
(* no biases, and the embedding is always the head.  A position's entry in *)
(* the cache is nested, one vector per head.                               *)
(***************************************************************************)
EXTENDS Floats, Sequences

\* The hashes of the three files are asserted.
Loads(c) == c.pinned

InvFreq(theta, head_dim) ==
  Array([i \in 0 .. (head_dim \div 2) - 1 |->
     Exp(Neg(Mul(Div(FromInt(2 * i), FromInt(head_dim)), Ln(theta))))])

DotSeq(a, b) == LeftSum(Products(a, b))

MatVec(w, x, rows, cols) == Array([o \in 0 .. rows - 1 |-> DotSeq(Span(w, o * cols, cols), x)])

InvRms(x, eps) == Rsqrt(Add(Div(LeftSum(Products(x, x)), FromInt(Size(x))), eps))
Scaled(x, inv, weight) == Array([i \in DOMAIN x |-> Mul(Mul(x[i], inv), weight[i])])
RmsNorm(x, weight, eps) == Scaled(x, InvRms(x, eps), weight)

RopeTable(freq, pos) ==
  [cos |-> Array([i \in DOMAIN freq |-> Cos(Mul(FromInt(pos), freq[i]))]),
   sin |-> Array([i \in DOMAIN freq |-> Sin(Mul(FromInt(pos), freq[i]))])]

ApplyRopeHead(head, table) ==
  LET half == Size(table.cos)
  IN  Array([i \in DOMAIN head |->
         IF i < half
         THEN Add(Mul(head[i], table.cos[i]), Mul(Neg(head[i + half]), table.sin[i]))
         ELSE Add(Mul(head[i], table.cos[i - half]), Mul(head[i - half], table.sin[i - half]))])

HeadDim(c) == c.hidden \div c.n_heads

Rotated(c, x, table) ==
  Joined(x, HeadDim(c), Array([n \in 0 .. (Size(x) \div HeadDim(c)) - 1 |->
                           ApplyRopeHead(HeadSlice(x, n, HeadDim(c)), table)]))

MaxSeq(s) ==
  LET max[j \in DOMAIN s] ==
        IF j = 0 THEN s[0] ELSE LET m == max[j - 1] IN IF Exceeds(s[j], m) THEN s[j] ELSE m
  IN  max[Size(s) - 1]
Exps(s, top) == Array([j \in DOMAIN s |-> Exp(Sub(s[j], top))])
Shares(e, denom) == Array([j \in DOMAIN e |-> Div(e[j], denom)])
Normalised(e) == Shares(e, LeftSum(e))

NewCache(c) == [l \in 0 .. c.n_layers - 1 |-> [k |-> << >>, v |-> << >>]]

\* k_entry and v_entry: one row per head.
Entry(x, n_kv_heads, head_dim) ==
  Array([kh \in 0 .. n_kv_heads - 1 |-> Span(x, kh * head_dim, head_dim)])

-----------------------------------------------------------------------------
Embed(c, token) == Span(c.tensors["embed"].data, token * c.hidden, c.hidden)

KvHead(c, qh) == qh \div (c.n_heads \div c.n_kv_heads)

Scores(c, q, qh, pos, entry) ==
  Array([j \in 0 .. pos |->
    Mul(DotSeq(HeadSlice(q, qh, HeadDim(c)), entry.k[j + 1][KvHead(c, qh)]), Rsqrt(FromInt(HeadDim(c))))])

Weights(s) == Normalised(Exps(s, MaxSeq(s)))

Mixed(weights, kv_head, d, entry) ==
  LeftSum([j \in DOMAIN weights |-> Mul(weights[j], entry.v[j + 1][kv_head][d])])

Mix(c, weights, entry) ==
  Array([x \in 0 .. c.hidden - 1 |->
    LET qh == x \div HeadDim(c) IN Mixed(weights[qh], KvHead(c, qh), x % HeadDim(c), entry)])

Attend(c, q, pos, entry) ==
  Mix(c, Array([qh \in 0 .. c.n_heads - 1 |-> Weights(Scores(c, q, qh, pos, entry))]), entry)

AfterPush(c, l, pos, h, q, cache) ==
  [h |-> Sums(h, MatVec(c.layers[l]["o"].data, Attend(c, q, pos, cache[l]), c.hidden, c.hidden)),
   cache |-> cache]

Pushed(c, cache, l, k, v) ==
  [cache EXCEPT ![l] = [k |-> Append(@.k, Entry(k, c.n_kv_heads, HeadDim(c))),
                        v |-> Append(@.v, Entry(v, c.n_kv_heads, HeadDim(c)))]]

FromNorm(c, l, w, pos, h, ln1, table, cache) ==
  LET kv == c.n_kv_heads * HeadDim(c)
  IN  AfterPush(c, l, pos, h, Rotated(c, MatVec(w["q"].data, ln1, c.hidden, c.hidden), table),
                Pushed(c, cache, l, Rotated(c, MatVec(w["k"].data, ln1, kv, c.hidden), table),
                                    MatVec(w["v"].data, ln1, kv, c.hidden)))

Attention(c, l, pos, h, cache) ==
  FromNorm(c, l, c.layers[l], pos, h, RmsNorm(h, c.layers[l]["ln1"].data, c.eps),
           RopeTable(InvFreq(c.theta, HeadDim(c)), pos), cache)

Hidden(gate, up) == Array([i \in DOMAIN gate |-> Mul(Silu(gate[i]), up[i])])

MlpFrom(c, w, h, ln2) ==
  Sums(h, MatVec(w["down"].data,
                 Hidden(MatVec(w["gate"].data, ln2, c.inter, c.hidden),
                        MatVec(w["up"].data, ln2, c.inter, c.hidden)),
                 c.hidden, c.inter))

Mlp(c, l, h) == MlpFrom(c, c.layers[l], h, RmsNorm(h, c.layers[l]["ln2"].data, c.eps))

Logits(c, h) ==
  MatVec(c.tensors["embed"].data, RmsNorm(h, c.tensors["norm"].data, c.eps), c.vocab, c.hidden)
=============================================================================
