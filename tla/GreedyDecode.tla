---------------------------- MODULE GreedyDecode ----------------------------
(***************************************************************************)
(* What a CIS-2 decode promises (sections 3.4, 3.5 and 12.1), without a KV *)
(* cache: every token is the pick from the logits of a forward pass over   *)
(* the whole sequence so far, computed from scratch, exactly gen tokens    *)
(* are emitted, and the witness binds each step's logits and token.        *)
(*                                                                         *)
(* The arithmetic is a parameter.  Whatever embedding, projection, block   *)
(* and head a model has, a position's residual stream depends on its own   *)
(* token and on the keys and values of the positions up to it.             *)
(*                                                                         *)
(* Positions count from 1, layers too.                                     *)
(***************************************************************************)
EXTENDS Integers, Sequences

CONSTANTS
  Prompts,            \* the token sequences a decode may start from
  GenToks,            \* the numbers of tokens it may be asked for
  Layers,             \* the number of transformer layers
  Embed(_),           \* token -> residual
  Project(_, _, _),   \* layer, residual, position -> key and value
  Block(_, _, _, _),  \* layer, residual, position, keys and values -> residual
  LmHead(_),          \* residual -> logits
  Pick(_)             \* logits -> token

VARIABLES
  prompt,    \* the prompt's tokens
  gen,       \* gen_toks
  tokens,    \* the prompt and the tokens emitted so far
  log,       \* the (logits, token) pairs the witness chain binds
  finished   \* the decode has returned

vars == <<prompt, gen, tokens, log, finished>>

\* The output of layer l at every position of toks, from the output of the
\* layer below: a position attends to the positions up to itself.
LayerOutput(toks, l, below) ==
  [p \in 1 .. Len(toks) |->
     Block(l, below[p], p, [j \in 1 .. p |-> Project(l, below[j], j)])]

\* The residual streams of a forward pass over toks without a cache: layer 0 is
\* the embedding.
Residual(toks) ==
  LET R[l \in 0 .. Layers] ==
        IF l = 0 THEN [p \in 1 .. Len(toks) |-> Embed(toks[p])]
                 ELSE LayerOutput(toks, l, R[l - 1])
  IN  R

\* The logits at position p of toks.
LogitsAt(toks, p) == LmHead(Residual(toks)[Layers][p])

-----------------------------------------------------------------------------
Init ==
  /\ prompt \in Prompts
  /\ gen \in GenToks
  /\ tokens = prompt
  /\ log = << >>
  /\ finished = FALSE

Emit ==
  /\ ~ finished
  /\ Len(log) < gen
  /\ tokens # << >>
  /\ LET logits == LogitsAt(tokens, Len(tokens))
     IN  /\ log' = Append(log, <<logits, Pick(logits)>>)
         /\ tokens' = Append(tokens, Pick(logits))
  /\ UNCHANGED <<prompt, gen, finished>>

\* No token ends the decode early: it returns after exactly gen of them.
Finish ==
  /\ ~ finished
  /\ Len(log) = gen
  /\ finished' = TRUE
  /\ UNCHANGED <<prompt, gen, tokens, log>>

Next == Emit \/ Finish

Spec == Init /\ [][Next]_vars
=============================================================================
