------------------------------- MODULE Decode -------------------------------
(***************************************************************************)
(* The decode loop with its KV cache, as the repository's four             *)
(* implementations organise it:                                            *)
(*                                                                         *)
(*   "reference"    src/main.rs: prefills every prompt position, picks and *)
(*                  then runs one forward pass more, the last one in vain; *)
(*   "cis2_verify"  cis2-verify: prefills all but the last prompt          *)
(*                  position, each step runs a forward pass and then picks;*)
(*   "verify2"      as the reference, without the last forward pass;       *)
(*   "verify3"      C: a preallocated cache written at the position,       *)
(*                  logits only where they are needed, a forward pass at   *)
(*                  the start of every step but the first.                 *)
(*                                                                         *)
(* The arithmetic is a parameter, as in GreedyDecode: what is modelled is  *)
(* which token is run at which position against which cache entries, and   *)
(* which logits are folded and picked from.  Positions count from 1.       *)
(***************************************************************************)
EXTENDS Integers, Sequences, FiniteSets

CONSTANTS
  Variants,           \* the implementations: strings of the list above
  Token,              \* the token ids
  Prompts,            \* the token sequences a decode may start from
  GenToks,            \* the numbers of tokens it may be asked for
  Layers,             \* the number of transformer layers
  Embed(_),           \* token -> residual
  Project(_, _, _),   \* layer, residual, position -> key and value
  Block(_, _, _, _),  \* layer, residual, position, keys and values -> residual
  LmHead(_)           \* residual -> logits: a non-empty sequence of numbers

ASSUME VariantsAssumption ==
  Variants \subseteq {"reference", "cis2_verify", "verify2", "verify3"}

ASSUME SizesAssumption ==
  /\ Layers \in Nat \ {0}
  /\ GenToks \subseteq Nat
  /\ Prompts \subseteq Seq(Token)

VARIABLES
  variant,  \* the implementation that runs
  prompt,   \* prompt token ids
  gen,      \* gen_toks
  tokens,   \* the prompt and the generated ids
  cache,    \* KvCache: layer -> position -> key and value
  pos,      \* the next position to run, or the one being run
  li,       \* the layer the forward pass is at
  hs,       \* its residual stream, in a sequence of none or one
  logits,   \* a sequence holding the logits in hand: none or one
  log,      \* the (logits, id) pairs of the witness chain
  pc        \* "loop", "layers", "head", then "done" or "panic"

vars == <<variant, prompt, gen, tokens, cache, pos, li, hs, logits, log, pc>>

-----------------------------------------------------------------------------
\* Mutation: on a tie the last of the maxima wins.
ArgmaxLast(scores) ==
  LET Best[i \in 1 .. Len(scores)] ==
        IF i = 1 THEN 1
        ELSE IF scores[i] >= scores[Best[i - 1]] THEN i ELSE Best[i - 1]
  IN  Best[Len(scores)]

\* argmax: a strict comparison from left to right.
Argmax(scores) ==
  LET Best[i \in 1 .. Len(scores)] ==
        IF i = 1 THEN 1
        ELSE IF scores[i] > scores[Best[i - 1]] THEN i ELSE Best[i - 1]
  IN  Best[Len(scores)]

NoLogits == << >>

\* The prompt positions the prefill loop runs.
PrefillTo == IF variant = "cis2_verify" THEN Len(prompt) - 1 ELSE Len(prompt)

(* When the step loop runs a forward pass: before the rest of a step ...    *)
DueCis2Verify == Len(log) < gen /\ logits = NoLogits

\* ... before every step but the first ...
DueVerify3 == Len(log) \in 1 .. gen - 1 /\ logits = NoLogits

\* ... after every step ...
DueReference == pos = Len(tokens)

\* ... or after every step but the last.
DueVerify2 == pos = Len(tokens) /\ Len(log) < gen

StepForwardDue ==
  CASE variant = "cis2_verify" -> DueCis2Verify
    [] variant = "reference"   -> DueReference
    [] variant = "verify2"     -> DueVerify2
    [] variant = "verify3"     -> DueVerify3

\* Mutation: the rotation uses the number of the position that follows.
EntryRotatedLate(h) == Project(li, h, pos + 1)

\* The rotated key and the value of the position being run.
Entry(h) == Project(li, h, pos)

\* Where they are stored: KvCache.push appends, verify3 copies to pos.
Slot(l) == IF variant = "verify3" THEN pos ELSE Cardinality(DOMAIN cache[l]) + 1

\* Mutation: attention leaves out the position being run.
AttendedEarlier(c) == 1 .. pos - 1

\* The positions attention reads: KvCache.len of them, or those up to pos.
Attended(c) == 1 .. IF variant = "cis2_verify" THEN Cardinality(DOMAIN c) ELSE pos

\* The logits are kept.
Wanted ==
  CASE variant = "cis2_verify" -> pos > PrefillTo
    [] variant = "verify3"     -> pos >= Len(prompt)
    [] OTHER                   -> TRUE

-----------------------------------------------------------------------------
\* verify::run refuses a prompt of no tokens; verify2 and verify3 pin theirs.
Init ==
  /\ variant \in Variants
  /\ prompt \in Prompts
  /\ prompt = << >> => variant = "reference"
  /\ gen \in GenToks
  /\ tokens = prompt
  /\ cache = [l \in 1 .. Layers |-> << >>]
  /\ pos = 1
  /\ li = 1
  /\ hs = << >>
  /\ logits = NoLogits
  /\ log = << >>
  /\ pc = "loop"

\* A forward pass of the token at pos begins with its embedding.
BeginForward ==
  /\ pc = "loop"
  /\ pos <= PrefillTo \/ StepForwardDue
  /\ hs' = <<Embed(tokens[pos])>>
  /\ li' = 1
  /\ pc' = "layers"
  /\ UNCHANGED <<variant, prompt, gen, tokens, cache, pos, logits, log>>

\* One layer: the key and value are stored, then attention reads the cache.
Layer ==
  /\ pc = "layers"
  /\ LET kv == Entry(hs[1])
         old == cache[li]
         new == [p \in DOMAIN old \cup {Slot(li)} |-> IF p = Slot(li) THEN kv ELSE old[p]]
     IN  /\ cache' = [cache EXCEPT ![li] = new]
         /\ hs' = <<Block(li, hs[1], pos, [j \in Attended(new) |-> new[j]])>>
  /\ li' = li + 1
  /\ pc' = IF li = Layers THEN "head" ELSE "layers"
  /\ UNCHANGED <<variant, prompt, gen, tokens, pos, logits, log>>

\* The final norm and the LM head end the forward pass.
EndForward ==
  /\ pc = "head"
  /\ logits' = IF Wanted THEN <<LmHead(hs[1])>> ELSE NoLogits
  /\ hs' = << >>
  /\ pos' = pos + 1
  /\ pc' = "loop"
  /\ UNCHANGED <<variant, prompt, gen, tokens, cache, li, log>>

\* Mutation: the new token is not run in the next step, the last one is again.
StepUnrecorded ==
  /\ pc = "loop"
  /\ pos > PrefillTo /\ ~ StepForwardDue
  /\ Len(log) < gen
  /\ logits # NoLogits
  /\ log' = Append(log, <<logits[1], Argmax(logits[1])>>)
  /\ tokens' = tokens
  /\ logits' = IF variant \in {"reference", "verify2"} THEN logits ELSE NoLogits
  /\ UNCHANGED <<variant, prompt, gen, cache, pos, li, hs, pc>>

\* Mutation: one step more than asked for.
StepOneMore ==
  /\ pc = "loop"
  /\ pos > PrefillTo /\ ~ StepForwardDue
  /\ Len(log) <= gen
  /\ logits # NoLogits
  /\ LET next == Argmax(logits[1])
     IN  /\ log' = Append(log, <<logits[1], next>>)
         /\ tokens' = Append(tokens, next)
  /\ logits' = IF variant \in {"reference", "verify2"} THEN logits ELSE NoLogits
  /\ UNCHANGED <<variant, prompt, gen, cache, pos, li, hs, pc>>

\* The rest of a step: argmax, the witness fold, the new token.
Step ==
  /\ pc = "loop"
  /\ pos > PrefillTo /\ ~ StepForwardDue
  /\ Len(log) < gen
  /\ logits # NoLogits
  /\ LET next == Argmax(logits[1])
     IN  /\ log' = Append(log, <<logits[1], next>>)
         /\ tokens' = Append(tokens, next)
  /\ logits' = IF variant \in {"reference", "verify2"} THEN logits ELSE NoLogits
  /\ UNCHANGED <<variant, prompt, gen, cache, pos, li, hs, pc>>

\* The reference indexes the logits of an empty prompt, which it has none of.
Panic ==
  /\ pc = "loop"
  /\ pos > PrefillTo /\ ~ StepForwardDue
  /\ Len(log) < gen
  /\ logits = NoLogits
  /\ pc' = "panic"
  /\ UNCHANGED <<variant, prompt, gen, tokens, cache, pos, li, hs, logits, log>>

\* The loop has run gen_toks times.
Return ==
  /\ pc = "loop"
  /\ pos > PrefillTo /\ ~ StepForwardDue
  /\ Len(log) = gen
  /\ pc' = "done"
  /\ UNCHANGED <<variant, prompt, gen, tokens, cache, pos, li, hs, logits, log>>

Next == BeginForward \/ Layer \/ EndForward \/ Step \/ Panic \/ Return

Spec == Init /\ [][Next]_vars

-----------------------------------------------------------------------------
(***************************************************************************)
(* Properties.                                                             *)
(***************************************************************************)
\* Every implementation is a greedy decode that recomputes everything at every
\* step: the cache and the shape of the loop change no token, no logits bound
\* by the witness, and no number of steps.
Greedy == INSTANCE GreedyDecode WITH
  Pick <- Argmax,
  finished <- pc = "done"

ImplementsGreedy == Greedy!Spec

Stored(l) == 1 .. IF pc = "head" \/ (pc = "layers" /\ l < li) THEN pos ELSE pos - 1

\* The position and the caches move together: a layer holds an entry for
\* exactly the positions already run through it, and only positions of known
\* tokens are run.
TypeOK ==
  /\ pc \in {"loop", "layers", "head", "done", "panic"}
  /\ pos \in 1 .. Len(tokens) + 1
  /\ pc \in {"layers", "head"} => pos <= Len(tokens)
  /\ li \in 1 .. Layers + 1
  /\ Len(log) <= gen
  /\ Len(tokens) = Len(prompt) + Len(log)
  /\ \A l \in 1 .. Layers : DOMAIN cache[l] = Stored(l)
  /\ Len(logits) <= 1

\* CIS-2 section 3.5: at every moment the cache holds exactly the keys and
\* values that a forward pass from scratch over the present tokens produces.
CacheIsExact ==
  \A l \in 1 .. Layers : \A p \in DOMAIN cache[l] :
    cache[l][p] = Project(l, Greedy!Residual(tokens)[l - 1][p], p)

\* Every generated id is the first of the maxima of the logits it was folded
\* with, NaN-free logits assumed.
PicksFirstMaximum ==
  \A k \in 1 .. Len(log) :
    LET scores == log[k][1]
        id == log[k][2]
    IN  /\ tokens[Len(prompt) + k] = id
        /\ \A i \in 1 .. Len(scores) : scores[i] <= scores[id]
        /\ \A i \in 1 .. id - 1 : scores[i] < scores[id]

\* verify3 sizes its token and cache arrays for the prompt and gen tokens.
WithinCapacity ==
  variant = "verify3" =>
    /\ Len(tokens) <= Len(prompt) + gen
    /\ \A l \in 1 .. Layers : DOMAIN cache[l] \subseteq 1 .. Len(prompt) + gen

\* Only a prompt of no tokens can panic, and only the reference decodes one.
PanicsOnlyOnEmptyPrompt == pc = "panic" => variant = "reference" /\ prompt = << >>
=============================================================================
