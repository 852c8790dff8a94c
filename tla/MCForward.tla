----------------------------- MODULE MCForward ------------------------------
(* Small checkpoints for Forward over the integers below 97, with an       *)
(* addition that is commutative and not associative.                       *)
EXTENDS Forward

MCFloat == 0 .. 96

MCAdd(a, b) == (a + b + ((a * b) \div 7)) % 97
MCMul(a, b) == (a * b + ((a * b) \div 5)) % 97
MCDiv(a, b) == (a * 7 + b * 11 + a * b) % 97
MCNeg(a) == (97 - a) % 97
MCAbs(a) == IF a > 48 THEN 97 - a ELSE a
MCExceeds(a, b) == a > b
MCFromInt(n) == n % 97
MCLround(a) == 3 * a - 145
MCRsqrt(a) == (a * a + 31) % 97
MCLn(a) == (5 * a + 3) % 97
MCExp(a) == (a * a * 2 + 7 * a + 1) % 97
MCSilu(a) == (a * a + 3 * a + 11) % 97
MCCos(a) == (a * a + 1) % 97
MCSin(a) == (a * a * 3 + 5 * a) % 97

\* Numbers that look random.
Noise(seed, n) ==
  Array([i \in 0 .. n - 1 |-> (seed * 31 + i * i * 7 + i * 13 + ((seed * i) % 11) + 5) % 97])
Tensor(shape, seed) ==
  [shape |-> shape, data |-> Noise(seed, IF Len(shape) = 1 THEN shape[1] ELSE shape[1] * shape[2])]

Names == <<"ln1", "ln2", "q", "k", "v", "o", "gate", "up", "down", "q_bias", "k_bias", "v_bias">>
Seed(name) == CHOOSE i \in DOMAIN Names : Names[i] = name

\* Tensors of the shapes given, in layer l or outside of the layers.
LayerTensors(shapes, l) == Array([n \in DOMAIN shapes |-> Tensor(shapes[n], Seed(n) + 50 * l)])
GlobalTensors(shapes) ==
  Array([n \in DOMAIN shapes |-> Tensor(shapes[n], IF n = "lm_head" THEN 40 ELSE 20)])

\* f says which optional tensors and which flags there are.
Filled(s, kv, f) ==
  s @@ [tied |-> "untied" \notin f, plain |-> "interleaved" \notin f,
        overlap |-> "overlap" \in f, pinned |-> "pinned" \in f,
        tensors |-> GlobalTensors(GlobalShapes(s) @@
          (IF "head" \in f THEN [lm_head |-> <<s.vocab, s.hidden>>] ELSE << >>)),
        layers |-> Array([l \in 0 .. s.n_layers - 1 |->
          LayerTensors(LayerShapes(s, kv) @@ (IF "biased" \in f THEN BiasShapes(s, kv) ELSE << >>), l)])]

\* Grouped heads without biases are the shape of SmolLM2, two heads on one with
\* biases that of Qwen2.5.
Kinds ==
  [llama       |-> [heads |-> 4, kv |-> 2, hd |-> 2, with |-> {"pinned"}],
   qwen        |-> [heads |-> 2, kv |-> 1, hd |-> 4, with |-> {"biased"}],
   untied      |-> [heads |-> 4, kv |-> 2, hd |-> 2, with |-> {"untied", "biased", "head"}],
   two_heads   |-> [heads |-> 4, kv |-> 2, hd |-> 2, with |-> {"head"}],
   no_head     |-> [heads |-> 4, kv |-> 2, hd |-> 2, with |-> {"untied"}],
   odd         |-> [heads |-> 2, kv |-> 1, hd |-> 3, with |-> {}],
   uneven      |-> [heads |-> 3, kv |-> 2, hd |-> 2, with |-> {}],
   transposed  |-> [heads |-> 4, kv |-> 2, hd |-> 2, with |-> {"transposed"}],
   no_layers   |-> [heads |-> 2, kv |-> 1, hd |-> 2, with |-> {"no_layers"}],
   interleaved |-> [heads |-> 2, kv |-> 1, hd |-> 4, with |-> {"biased", "interleaved"}],
   empty       |-> [heads |-> 2, kv |-> 1, hd |-> 0, with |-> {}],
   overlapping |-> [heads |-> 4, kv |-> 2, hd |-> 2, with |-> {"overlap"}]]

Of(k) ==
  Filled([hidden |-> k.heads * k.hd, inter |-> 3,
          n_layers |-> IF "no_layers" \in k.with THEN 0 ELSE 2,
          n_heads |-> k.heads,
          n_kv_heads |-> k.kv, vocab |-> 2, eps |-> 3, theta |-> 10], k.kv * k.hd, k.with)

\* The same number of elements in another shape.
Transposed(k) == [k EXCEPT !.layers[1]["k"].shape = <<@[2], @[1]>>]

MCCheckpoints ==
  Array([name \in DOMAIN Kinds |->
    IF "transposed" \in Kinds[name].with THEN Transposed(Of(Kinds[name])) ELSE Of(Kinds[name])])

\* Of three tokens, half of the texts.
MCTexts == {t \in UNION {[1 .. n -> 0 .. 1] : n \in 1 .. 3} : Len(t) = 3 => t[1] = 0}
=============================================================================
