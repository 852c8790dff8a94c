------------------------------ MODULE Forward -------------------------------
(***************************************************************************)
(* A forward pass over a given text by one of the programs, block by       *)
(* block.  cis2-verify, the reference, verify2 and verify3 take a position *)
(* through all layers and then the next position; the INT8 program, in     *)
(* both of its modes, takes all positions through a layer and then the     *)
(* next layer.                                                             *)
(*                                                                         *)
(* The point of four clean-room programs is that they compute one thing.   *)
(* Here that thing is written down (Transformer) and each program, with    *)
(* its own layout of its own memory, is compared with it after each block. *)
(***************************************************************************)
EXTENDS Transformer

CONSTANTS
  Checkpoints,  \* the checkpoints, by name
  Texts         \* the texts, sequences of token ids

Numel(shape) == IF Len(shape) = 1 THEN shape[1] ELSE shape[1] * shape[2]

\* The parsers refuse a tensor whose bytes are not those of its shape, and all
\* tensors are vectors or matrices.
IsTensor(t) ==
  /\ t.shape \in Seq(Nat)
  /\ Len(t.shape) \in {1, 2}
  /\ t.data \in [0 .. Numel(t.shape) - 1 -> Float]

\* What a file and its configuration may be.  The products that the INT8 program
\* sums in 32 bits are at most 127 * 127, and there is one checkpoint with the
\* pinned hashes, which has neither a head of its own nor biases.
IsCheckpoint(k) ==
  /\ k.hidden \in Nat /\ k.inter \in Nat /\ k.vocab \in Nat
  /\ k.n_layers \in Nat /\ k.n_heads \in Nat /\ k.n_kv_heads \in Nat
  /\ 127 * 127 * k.hidden <= MaxInt /\ 127 * 127 * k.inter <= MaxInt
  /\ k.eps \in Float /\ k.theta \in Float
  /\ k.tied \in BOOLEAN /\ k.plain \in BOOLEAN /\ k.overlap \in BOOLEAN /\ k.pinned \in BOOLEAN
  /\ \A n \in DOMAIN k.tensors : IsTensor(k.tensors[n])
  /\ DOMAIN k.layers = 0 .. k.n_layers - 1
  /\ \A l \in DOMAIN k.layers : \A n \in DOMAIN k.layers[l] : IsTensor(k.layers[l][n])
  /\ k.pinned => k.tied /\ \A l \in DOMAIN k.layers :
                    DOMAIN k.layers[l] \cap {"q_bias", "k_bias", "v_bias"} = {}

ASSUME CheckpointsAssumption ==
  \A name \in DOMAIN Checkpoints : IsCheckpoint(Checkpoints[name])

\* A text has at least one token, and its tokens are in the vocabulary.
ASSUME TextsAssumption ==
  \A t \in Texts :
    /\ t \in Seq(Nat) /\ Len(t) \in 1 .. MaxInt
    /\ \A name \in DOMAIN Checkpoints : \A i \in DOMAIN t : t[i] < Checkpoints[name].vocab

CV == INSTANCE Cis2VerifyModel
Reference == INSTANCE ReferenceModel
V2 == INSTANCE Verify2Model
V3 == INSTANCE Verify3Model
Batch == INSTANCE BatchModel

Stepwise == {"cis2_verify", "reference", "verify2", "verify3"}
Batched == {"fp32_batch", "int8"}

VARIABLES
  impl,     \* the program
  ckpt,     \* the name of the checkpoint
  tokens,   \* the text
  pc,       \* "load", "embed", "attention", "mlp", "head", "done" or "stopped"
  pos,      \* the position, when they are taken one by one
  li,       \* the layer
  h,        \* the residual of the position, or of all positions
  cache,    \* the KV cache, in the layout of the program
  qm,       \* the INT8 matrices
  logits,   \* the logits computed, by position
  formula   \* the residuals of the formula, which no program has: see Load

vars == <<impl, ckpt, tokens, pc, pos, li, h, cache, qm, logits, formula>>

c == Checkpoints[ckpt]
Int8 == impl = "int8"

-----------------------------------------------------------------------------
Loads ==
  CASE impl = "cis2_verify" -> CV!Loads(c)
    [] impl = "reference" -> Reference!Loads(c)
    [] impl = "verify2" -> V2!Loads(c)
    [] OTHER -> V3!Loads(c)

EmptyCache ==
  CASE impl = "cis2_verify" -> CV!NewCache(c)
    [] impl = "reference" -> Reference!NewCaches(c)
    [] impl = "verify2" -> V2!NewCache(c)
    [] impl = "verify3" -> V3!KvCacheAlloc(c, Len(tokens))
    [] OTHER -> << >>

Embedded ==
  CASE impl = "cis2_verify" -> CV!Embed(c, tokens[pos + 1])
    [] impl = "reference" -> Reference!Embed(c, tokens[pos + 1])
    [] impl = "verify2" -> V2!Embed(c, tokens[pos + 1])
    [] impl = "verify3" -> V3!Embed(c, tokens[pos + 1])
    [] OTHER -> Batch!EmbedAll(c, Int8, qm, tokens)

Attended ==
  CASE impl = "cis2_verify" -> CV!Attention(c, li, pos, h, cache)
    [] impl = "reference" -> Reference!Attention(c, li, pos, h, cache)
    [] impl = "verify2" -> V2!Attention(c, li, pos, h, cache)
    [] impl = "verify3" -> V3!Attention(c, li, pos, h, cache)
    [] OTHER -> [h |-> Batch!AttentionAll(c, Int8, qm, li, Len(tokens), h), cache |-> cache]

Mlped ==
  CASE impl = "cis2_verify" -> CV!Mlp(c, li, h)
    [] impl = "reference" -> Reference!Mlp(c, li, h)
    [] impl = "verify2" -> V2!Mlp(c, li, h)
    [] impl = "verify3" -> V3!Mlp(c, li, h)
    [] OTHER -> Batch!MlpAll(c, Int8, qm, li, Len(tokens), h)

HeadAt(p) ==
  CASE impl = "cis2_verify" -> CV!Logits(c, h)
    [] impl = "reference" -> Reference!Logits(c, h)
    [] impl = "verify2" -> V2!Logits(c, h)
    [] impl = "verify3" -> V3!Logits(c, h)
    [] OTHER -> Batch!LogitsOf(c, Int8, qm, h, p)

-----------------------------------------------------------------------------
\* Only cis2-verify asks whether the heads share keys evenly, and only verify3
\* whether the residual has elements at all.  What the other programs do with
\* such shapes after loading them is not modelled: they are not started on them.
Started(name, program) ==
  LET k == Checkpoints[name]
  IN  /\ k.n_heads % k.n_kv_heads = 0 \/ program = "cis2_verify"
      /\ k.hidden # 0 \/ program \in {"verify3"} \cup Batched

Init ==
  /\ impl \in Stepwise \cup Batched
  /\ ckpt \in DOMAIN Checkpoints
  /\ Started(ckpt, impl)
  /\ tokens \in Texts
  /\ pc = "load"
  /\ pos = 0
  /\ li = 0
  /\ h = << >>
  /\ cache = << >>
  /\ qm = << >>
  /\ logits = << >>
  /\ formula = << >>

\* Checkpoints that are what the specification describes: cis2-verify loads them.
Sound == {name \in DOMAIN Checkpoints : CV!Loads(Checkpoints[name])}

Num == IF Int8 THEN "int8" ELSE "fp32"

\* The formula is worked out beside it, once, for the properties to compare with.
Load ==
  /\ pc = "load"
  /\ Loads
  /\ cache' = EmptyCache
  /\ qm' = IF Int8 THEN Batch!QModelBuild(c) ELSE qm
  /\ pc' = "embed"
  /\ formula' = IF ckpt \in Sound THEN Residuals(Num, c, tokens) ELSE << >>
  /\ UNCHANGED <<impl, ckpt, tokens, pos, li, h, logits>>

\* An error, a panic or exit(95).
Stop ==
  /\ pc = "load"
  /\ ~Loads
  /\ pc' = "stopped"
  /\ UNCHANGED <<impl, ckpt, tokens, pos, li, h, cache, qm, logits, formula>>

Embed ==
  /\ pc = "embed"
  /\ h' = Embedded
  /\ li' = 0
  /\ pc' = IF c.n_layers = 0 THEN "head" ELSE "attention"
  /\ UNCHANGED <<impl, ckpt, tokens, pos, cache, qm, logits, formula>>

Attention ==
  /\ pc = "attention"
  /\ \E a \in {Attended} : h' = a.h /\ cache' = a.cache
  /\ pc' = "mlp"
  /\ UNCHANGED <<impl, ckpt, tokens, pos, li, qm, logits, formula>>

Mlp ==
  /\ pc = "mlp"
  /\ h' = Mlped
  /\ li' = li + 1
  /\ pc' = IF li + 1 = c.n_layers THEN "head" ELSE "attention"
  /\ UNCHANGED <<impl, ckpt, tokens, pos, cache, qm, logits, formula>>

\* Mutation: one position too many.
NextPositionFar ==
  IF pos < Len(tokens) THEN pos' = pos + 1 /\ pc' = "embed"
                       ELSE pos' = pos /\ pc' = "done"

NextPosition ==
  IF pos + 1 < Len(tokens) THEN pos' = pos + 1 /\ pc' = "embed"
                           ELSE pos' = pos /\ pc' = "done"

FinalHead ==
  /\ pc = "head"
  /\ impl \in Stepwise
  /\ logits' = [p \in DOMAIN logits \cup {pos} |-> IF p = pos THEN HeadAt(pos) ELSE logits[p]]
  /\ NextPosition
  /\ UNCHANGED <<impl, ckpt, tokens, li, h, cache, qm, formula>>

\* need_logits = 0
SkipHead ==
  /\ pc = "head"
  /\ impl = "verify3"
  /\ NextPosition
  /\ UNCHANGED <<impl, ckpt, tokens, li, h, cache, qm, logits, formula>>

\* The callback sees the logits of all positions; a decode asks for the last.
BatchHead ==
  /\ pc = "head"
  /\ impl \in Batched
  /\ \E from \in {0, Len(tokens) - 1} : logits' = [p \in from .. Len(tokens) - 1 |-> HeadAt(p)]
  /\ pc' = "done"
  /\ UNCHANGED <<impl, ckpt, tokens, pos, li, h, cache, qm, formula>>

Next ==
  Load \/ Stop \/ Embed \/ Attention \/ Mlp \/ FinalHead \/ SkipHead \/ BatchHead

Spec == Init /\ [][Next]_vars

-----------------------------------------------------------------------------
IsVector(x) == DOMAIN x = 0 .. Size(x) - 1

\* Types.
TypeOK ==
  /\ impl \in Stepwise \cup Batched
  /\ ckpt \in DOMAIN Checkpoints
  /\ tokens \in Texts
  /\ pc \in {"load", "embed", "attention", "mlp", "head", "done", "stopped"}
  /\ pos \in 0 .. Len(tokens) - 1
  /\ li \in 0 .. c.n_layers
  /\ IsVector(h)
  /\ DOMAIN logits \subseteq 0 .. Len(tokens) - 1

\* The positions whose residual is held, and where it is.
Held == IF impl \in Batched THEN 0 .. Len(tokens) - 1 ELSE {pos}
ResidualAt(p) == IF impl \in Batched THEN Span(h, p * c.hidden, c.hidden) ELSE h

\* After every block, every program's residual is that of the formula, bit for
\* bit: the caches, their strides, the group of a head, the order of biases,
\* rotations and sums, and the batches of the INT8 program come to the same
\* operations.  Only checkpoints cis2-verify accepts are claimed: on an odd
\* head the programs differ.
ResidualsFollowFormula ==
  ckpt \in Sound /\ pc \in {"attention", "mlp", "head"} =>
    \A p \in Held :
      ResidualAt(p) = formula[IF pc = "mlp" THEN 2 * li + 1 ELSE 2 * li][p]

\* The logits are the formula's too, whichever positions they are computed for
\* and wherever the program finds the head: beside tied embeddings, in a tensor
\* of its own, or in the INT8 matrices.
LogitsFollowFormula ==
  ckpt \in Sound =>
    \A p \in DOMAIN logits : logits[p] = LogitsFrom(Num, c, formula[2 * c.n_layers][p])

\* What cis2-verify accepts, the programs that are not pinned to one checkpoint
\* load as well: no verdict is owed to one program reading less than another.
\* The exceptions are tensors that share bytes, which cis2-verify does not look
\* for, and a hidden size of 0, which it accepts and verify3 does not.  How a
\* header is laid out is not in the model: the reference's crate refuses gaps and
\* bytes behind the last tensor, verify3 a header of more than 100 MB
\* (model.c:84), and cis2-verify takes both.
AcceptedByAll ==
  ckpt \in Sound /\ impl # "verify2" /\ pc = "stopped" => c.overlap \/ c.hidden = 0
=============================================================================
