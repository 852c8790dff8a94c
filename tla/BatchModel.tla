----------------------------- MODULE BatchModel -----------------------------
(***************************************************************************)
(* forward_generic of verify3's INT8 program: all positions at once, layer *)
(* after layer, with no cache.  The residuals, q, k and v of all positions *)
(* are one array each.  It runs on the INT8 matrices or, to compare with,  *)
(* on those of the checkpoint; RMSNorm and the dot products of attention   *)
(* are those of verify3 in both.                                           *)
(***************************************************************************)
EXTENDS Verify3Model

\* Mutation: a clamp that is one too wide.
ClampWide(n) == IF n > 127 THEN 127 ELSE IF n < -128 THEN -128 ELSE n

ClampI8(n) == IF n > 127 THEN 127 ELSE IF n < -127 THEN -127 ELSE n

\* The scale of a vector: its largest magnitude over 127, or 1.
Scale(x) ==
  LET max[i \in 0 .. Size(x)] ==
        IF i = 0 THEN Zero
        ELSE LET m == max[i - 1] IN IF Exceeds(Abs(x[i - 1]), m) THEN Abs(x[i - 1]) ELSE m
      absmax == max[Size(x)]
  IN  IF Exceeds(absmax, Zero) THEN Div(absmax, FromInt(127)) ELSE FromInt(1)

Quantized(x, scale) ==
  [q |-> Array([i \in DOMAIN x |-> ClampI8(Lround(Div(x[i], scale)))]), scale |-> scale]

QuantizeVec(x) == Quantized(x, Scale(x))

\* One scale for each row.
QuantizeMatrix(w, rows, cols) ==
  Array([o \in 0 .. rows - 1 |-> QuantizeVec(Span(w, o * cols, cols))])

\* The sum of products in 32-bit integers.
Acc(a, b) ==
  LET acc[i \in 0 .. Size(a)] == IF i = 0 THEN 0 ELSE acc[i - 1] + a[i - 1] * b[i - 1]
  IN  acc[Size(a)]

MatVecInt8(qw, qx) ==
  Array([o \in DOMAIN qw |-> Mul(Mul(FromInt(Acc(qw[o].q, qx.q)), qw[o].scale), qx.scale)])

\* qw is looked at only in the INT8 mode.
QMatVec(use_int8, qw, w, x, rows, cols) ==
  IF use_int8 THEN MatVecInt8(qw, QuantizeVec(x)) ELSE MatVec(w, x, rows, cols)

\* The matrices are rounded once, when the program starts; the norms and biases
\* are not, and the head has rows of its own only if it is a tensor of its own.
QModelBuild(c) ==
  LET shapes == LayerShapes(c, NkvDim(c))
      Embed8 == QuantizeMatrix(c.tensors["embed"].data, c.vocab, c.hidden)
      Layer8(w) ==
        Array([name \in {"q", "k", "v", "o", "gate", "up", "down"} |->
                 QuantizeMatrix(w[name].data, shapes[name][1], shapes[name][2])])
  IN  [embed |-> Embed8,
       lm_head |-> IF ~c.tied /\ "lm_head" \in DOMAIN c.tensors
                   THEN QuantizeMatrix(c.tensors["lm_head"].data, c.vocab, c.hidden)
                   ELSE Embed8,
       layers |-> Array([l \in DOMAIN c.layers |-> Layer8(c.layers[l])])]

-----------------------------------------------------------------------------
\* The rows of all positions, n wide, as one array.
Flat(rows, n) == Array([x \in 0 .. Size(rows) * n - 1 |-> rows[x \div n][x % n]])

Wide(row) == Array([i \in DOMAIN row.q |-> Mul(FromInt(row.q[i]), row.scale)])

EmbedAll(c, use_int8, qm, tokens) ==
  Flat(Array([p \in 0 .. Len(tokens) - 1 |->
         IF use_int8 THEN Wide(qm.embed[tokens[p + 1]]) ELSE Embed(c, tokens[p + 1])]), c.hidden)

\* Mutation: a position attends to all positions of the batch.
SeesAll(p, ntok) == 0 .. ntok - 1

\* The positions that position p attends to.
Sees(p, ntok) == 0 .. p

AddRows(c, h, rows) == Array([x \in DOMAIN h |-> Add(h[x], rows[x \div c.hidden][x % c.hidden])])

\* qmatvec with the matrix of that name of a layer.
LayerTimes(c, use_int8, qm, l, name, x, rows, cols) ==
  QMatVec(use_int8, qm.layers[l][name], c.layers[l][name].data, x, rows, cols)

\* A projection of every position, with its bias.
ProjectedAll(c, use_int8, qm, l, name, bias, rows, ln1) ==
  Array([p \in DOMAIN ln1 |->
    AddBiasOpt(LayerTimes(c, use_int8, qm, l, name, ln1[p], rows, c.hidden), c.layers[l], bias)])

RopeAll(c, xs) == Array([p \in DOMAIN xs |-> RopeHeads(c, xs[p], RopeTable(InvFreq(c), p))])

FromQkv(c, use_int8, qm, l, ntok, h, qs, k, v) ==
  AddRows(c, h, Array([p \in 0 .. ntok - 1 |->
    LayerTimes(c, use_int8, qm, l, "o", Attend(c, qs[p], Sees(p, ntok), k, v), c.hidden, c.hidden)]))

FromNorms(c, use_int8, qm, l, ntok, h, ln1) ==
  FromQkv(c, use_int8, qm, l, ntok, h,
    RopeAll(c, ProjectedAll(c, use_int8, qm, l, "q", "q_bias", c.hidden, ln1)),
    Flat(RopeAll(c, ProjectedAll(c, use_int8, qm, l, "k", "k_bias", NkvDim(c), ln1)), NkvDim(c)),
    Flat(ProjectedAll(c, use_int8, qm, l, "v", "v_bias", NkvDim(c), ln1), NkvDim(c)))

NormAll(c, l, name, ntok, h) ==
  Array([p \in 0 .. ntok - 1 |-> RmsNorm(HeadSlice(h, p, c.hidden), c.layers[l][name].data, c.eps)])

AttentionAll(c, use_int8, qm, l, ntok, h) ==
  FromNorms(c, use_int8, qm, l, ntok, h, NormAll(c, l, "ln1", ntok, h))

Down(c, use_int8, qm, l, ln2) ==
  LayerTimes(c, use_int8, qm, l, "down",
             Hidden(LayerTimes(c, use_int8, qm, l, "gate", ln2, c.inter, c.hidden),
                    LayerTimes(c, use_int8, qm, l, "up", ln2, c.inter, c.hidden)),
             c.hidden, c.inter)

DownAll(c, use_int8, qm, l, ln2) == Array([p \in DOMAIN ln2 |-> Down(c, use_int8, qm, l, ln2[p])])

MlpAll(c, use_int8, qm, l, ntok, h) ==
  AddRows(c, h, DownAll(c, use_int8, qm, l, NormAll(c, l, "ln2", ntok, h)))

LogitsOf(c, use_int8, qm, h, p) ==
  QMatVec(use_int8, qm.lm_head, LmHead(c),
          RmsNorm(HeadSlice(h, p, c.hidden), c.tensors["norm"].data, c.eps), c.vocab, c.hidden)
=============================================================================
