---------------------------- MODULE DecodeProofs ----------------------------
(***************************************************************************)
(* Proofs about Decode for every arithmetic, every number of layers, every *)
(* prompt and every number of generated tokens.                            *)
(***************************************************************************)
EXTENDS Decode, Induction, SequenceTheorems, FiniteSetTheorems, TLAPS

IsSeq(s) == \E S : s \in Seq(S)

R(toks) == Greedy!Residual(toks)

-----------------------------------------------------------------------------
(* The forward pass from scratch.                                          *)

\* The recursive definition of the residual streams has a solution, so it
\* satisfies its equation.
LEMMA ResidualRows ==
  ASSUME NEW toks
  PROVE  /\ R(toks)[0] = [p \in 1 .. Len(toks) |-> Embed(toks[p])]
         /\ \A l \in 1 .. Layers : R(toks)[l] = Greedy!LayerOutput(toks, l, R(toks)[l - 1])
<1> DEFINE Row0 == [p \in 1 .. Len(toks) |-> Embed(toks[p])]
           Row(l, below) == Greedy!LayerOutput(toks, l, below)
           Body(g, l) == IF l = 0 THEN Row0 ELSE Row(l, g[l - 1])
           Solves(g, m) == g = [l \in 0 .. m |-> Body(g, l)]
           Fails == {m \in Nat : ~ \E g : Solves(g, m)}
<1> HIDE DEF Row0, Row
<1>1. 0 \notin Fails
  <2>1. Solves([l \in 0 .. 0 |-> Row0], 0)
    OBVIOUS
  <2> QED
    BY <2>1
<1>2. ASSUME NEW m \in Nat, m \notin Fails
      PROVE  m + 1 \notin Fails
  <2>1. PICK g : Solves(g, m)
    BY <1>2
  <2> DEFINE h == [l \in 0 .. m + 1 |-> IF l <= m THEN g[l] ELSE Row(m + 1, g[m])]
  <2>2. ASSUME NEW l \in 0 .. m + 1 PROVE h[l] = Body(h, l)
    <3>1. CASE l = 0
      BY <2>1, <3>1
    <3>2. CASE l \in 1 .. m
      <4>1. h[l] = g[l] /\ l - 1 \in 0 .. m + 1 /\ l - 1 <= m /\ l # 0
        BY <3>2
      <4>2. h[l - 1] = g[l - 1]
        BY <4>1
      <4>3. g[l] = Body(g, l)
        BY <2>1, <3>2
      <4> QED
        BY <4>1, <4>2, <4>3
    <3>3. CASE l = m + 1
      <4>1. h[l] = Row(m + 1, g[m]) /\ l # 0 /\ l - 1 = m
        BY <3>3
      <4>2. h[m] = g[m]
        OBVIOUS
      <4> QED
        BY <3>3, <4>1, <4>2
    <3> QED
      BY <3>1, <3>2, <3>3
  <2>3. h = [l \in 0 .. m + 1 |-> Body(h, l)]
    <3>1. h = [l \in 0 .. m + 1 |-> h[l]]
      OBVIOUS
    <3> HIDE DEF h, Body
    <3> QED
      BY <2>2, <3>1
  <2>4. Solves(h, m + 1)
    BY <2>3
  <2> QED
    BY <2>4
<1>3. Fails = {}
  <2> SUFFICES ASSUME Fails # {} PROVE FALSE
    OBVIOUS
  <2>1. PICK k \in Fails : \A j \in Fails : k <= j
    BY LeastNat
  <2>2. k \in Nat /\ k # 0
    BY <1>1
  <2> HIDE DEF Fails
  <2>3. k - 1 \in Nat /\ k - 1 \notin Fails /\ (k - 1) + 1 = k
    BY <2>1, <2>2
  <2> QED
    BY <1>2, <2>1, <2>3
<1>4. PICK g : Solves(g, Layers)
  BY <1>3, SizesAssumption
<1>5. R(toks) = CHOOSE f : Solves(f, Layers)
  BY DEF R, Greedy!Residual, Row0, Row
<1>6. Solves(R(toks), Layers)
  <2> HIDE DEF Solves
  <2> QED
    BY <1>4, <1>5
<1>7. R(toks)[0] = Row0
  BY <1>6, SizesAssumption
<1>8. ASSUME NEW l \in 1 .. Layers PROVE R(toks)[l] = Row(l, R(toks)[l - 1])
  <2>1. l \in 0 .. Layers /\ l # 0
    BY SizesAssumption
  <2>2. R(toks)[l] = Body(R(toks), l)
    <3> DEFINE f == R(toks)
    <3>1. f = [k \in 0 .. Layers |-> Body(f, k)]
      BY <1>6
    <3> HIDE DEF f, Body
    <3>2. f[l] = Body(f, l)
      BY <2>1, <3>1
    <3> QED
      BY <3>2 DEF f
  <2> QED
    BY <2>1, <2>2
<1> QED
  BY <1>7, <1>8 DEF Row0, Row

\* The residual stream at a position does not depend on the tokens after it.
LEMMA ResidualPrefix ==
  ASSUME NEW toks, IsSeq(toks), NEW t, NEW l \in 0 .. Layers, NEW p \in 1 .. Len(toks)
  PROVE  R(Append(toks, t))[l][p] = R(toks)[l][p]
<1> DEFINE more == Append(toks, t)
           n == Len(toks)
           Same(k) == \A q \in 1 .. n : R(more)[k][q] = R(toks)[k][q]
           Differs == {k \in 0 .. Layers : ~ Same(k)}
<1>1. n \in Nat /\ Len(more) = n + 1 /\ \A q \in 1 .. n : more[q] = toks[q]
  BY AppendProperties, LenProperties DEF IsSeq
<1>2. Layers \in Nat
  BY SizesAssumption
<1>3. 0 \notin Differs
  <2>1. /\ R(more)[0] = [q \in 1 .. Len(more) |-> Embed(more[q])]
        /\ R(toks)[0] = [q \in 1 .. n |-> Embed(toks[q])]
    BY ResidualRows
  <2> HIDE DEF more, n
  <2> QED
    BY <1>1, <2>1
<1>4. ASSUME NEW k \in 1 .. Layers, Same(k - 1)
      PROVE  Same(k)
  <2> SUFFICES ASSUME NEW q \in 1 .. n PROVE R(more)[k][q] = R(toks)[k][q]
    OBVIOUS
  <2> DEFINE a == R(more)[k - 1]
             b == R(toks)[k - 1]
  <2>1. R(more)[k] = Greedy!LayerOutput(more, k, a) /\ R(toks)[k] = Greedy!LayerOutput(toks, k, b)
    BY ResidualRows
  <2>2. \A j \in 1 .. n : a[j] = b[j]
    BY <1>4
  <2> HIDE DEF more, a, b, n
  <2>3. \A j \in 1 .. q : j \in 1 .. n
    BY <1>1
  <2>4. [j \in 1 .. q |-> Project(k, a[j], j)] = [j \in 1 .. q |-> Project(k, b[j], j)]
    BY <2>2, <2>3
  <2>5. q \in 1 .. Len(more) /\ q \in 1 .. n
    BY <1>1
  <2>6. R(more)[k][q] = Block(k, a[q], q, [j \in 1 .. q |-> Project(k, a[j], j)])
    BY <2>1, <2>5 DEF Greedy!LayerOutput
  <2>7. R(toks)[k][q] = Block(k, b[q], q, [j \in 1 .. q |-> Project(k, b[j], j)])
    BY <2>1, <2>5 DEF Greedy!LayerOutput, n
  <2> QED
    BY <2>2, <2>4, <2>6, <2>7
<1>5. Differs = {}
  <2> SUFFICES ASSUME Differs # {} PROVE FALSE
    OBVIOUS
  <2>1. Differs \in SUBSET Nat
    BY <1>2
  <2>2. PICK k \in Differs : \A j \in Differs : k <= j
    BY <2>1, LeastNat
  <2>3. k \in 1 .. Layers /\ k - 1 \in 0 .. Layers /\ ~ (k <= k - 1) /\ ~ Same(k)
    <3> HIDE DEF Same
    <3> QED
      BY <1>2, <1>3, <2>2
  <2> HIDE DEF Same
  <2>4. Same(k - 1)
    BY <2>2, <2>3
  <2> QED
    BY <1>4, <2>3, <2>4
<1> QED
  BY <1>5

-----------------------------------------------------------------------------
(* The inductive invariant.                                                *)

\* What TypeOK leaves open: the input is one that Init allows, the counters are
\* numbers, the layer under way is consistent with the control.
Shape ==
  /\ variant \in Variants
  /\ prompt = << >> => variant = "reference"
  /\ gen \in Nat
  /\ IsSeq(prompt) /\ IsSeq(tokens) /\ IsSeq(log)
  /\ DOMAIN cache = 1 .. Layers
  /\ pc = "layers" => li <= Layers
  /\ pc = "head" => li = Layers + 1

\* How far each organisation of the loop has run: the logits in hand, if any,
\* are of the position before pos; after the first step nothing is left of the
\* prompt; and where logits are dropped, having some means all tokens were run.
Progress ==
  /\ Len(log) > 0 => pos >= Len(tokens)
  /\ logits # << >> => pos > 1 /\ logits = <<Greedy!LogitsAt(tokens, pos - 1)>>
  /\ variant \in {"cis2_verify", "verify3"} => (logits # << >> <=> pos = Len(tokens) + 1)
  /\ variant \in {"reference", "verify2"} => (logits # << >> <=> pos > 1)

\* The residual stream of the pass under way is the one from scratch.
StreamIsExact == pc \in {"layers", "head"} => hs = <<R(tokens)[li - 1][pos]>>

IInv == TypeOK /\ Shape /\ Progress /\ StreamIsExact /\ CacheIsExact

LEMMA BeginStep ==
  ASSUME IInv, BeginForward
  PROVE  IInv'
<1>1. /\ pc = "loop" /\ pc' = "layers" /\ li' = 1 /\ hs' = <<Embed(tokens[pos])>>
      /\ pos <= PrefillTo \/ StepForwardDue
      /\ UNCHANGED <<variant, prompt, gen, tokens, cache, pos, logits, log>>
  BY DEF BeginForward
<1>2. Len(prompt) \in Nat /\ Len(tokens) \in Nat /\ Len(log) \in Nat
  BY LenProperties DEF IInv, Shape, IsSeq
<1>3. pos <= Len(tokens)
  <2>1. Len(tokens) = Len(prompt) + Len(log) /\ pos \in 1 .. Len(tokens) + 1 /\ gen \in Nat
    BY DEF IInv, TypeOK, Shape
  <2>2. CASE pos <= PrefillTo
    BY <1>2, <2>1, <2>2 DEF PrefillTo
  <2>3. CASE StepForwardDue /\ ~ (pos <= PrefillTo)
    <3>1. CASE variant \in {"cis2_verify", "verify3"}
      <4>1. logits = << >>
        BY <2>3, <3>1 DEF StepForwardDue, DueCis2Verify, DueVerify3, NoLogits
      <4>2. pos # Len(tokens) + 1
        BY <3>1, <4>1 DEF IInv, Progress
      <4> QED
        BY <1>2, <2>1, <4>2
    <3>2. CASE variant \in {"reference", "verify2"}
      <4>1. pos = Len(tokens)
        BY <2>3, <3>2 DEF StepForwardDue, DueReference, DueVerify2
      <4> QED
        BY <1>2, <4>1
    <3> QED
      BY <3>1, <3>2, VariantsAssumption DEF IInv, Shape
  <2> QED
    BY <1>1, <2>2, <2>3
<1>4. TypeOK'
  <2>1. \A l \in 1 .. Layers : DOMAIN cache[l] = 1 .. pos - 1
    BY <1>1 DEF IInv, TypeOK, Stored
  <2>2. \A l \in 1 .. Layers : ~ (l < 1)
    BY SizesAssumption
  <2> QED
    BY <1>1, <1>3, <2>1, <2>2, SizesAssumption DEF IInv, TypeOK, Stored
<1>5. Shape' /\ Progress'
  BY <1>1, SizesAssumption DEF IInv, Shape, Progress, IsSeq, Greedy!LogitsAt, Greedy!Residual, Greedy!LayerOutput
<1>6. StreamIsExact'
  <2>1. pos \in 1 .. Len(tokens)
    BY <1>2, <1>3 DEF IInv, TypeOK
  <2>2. R(tokens)[0][pos] = Embed(tokens[pos])
    BY <2>1, ResidualRows
  <2>3. R(tokens)' = R(tokens)
    BY <1>1 DEF R, Greedy!Residual, Greedy!LayerOutput
  <2> QED
    BY <1>1, <2>2, <2>3 DEF StreamIsExact
<1>7. CacheIsExact'
  BY <1>1 DEF IInv, CacheIsExact
<1> QED
  BY <1>4, <1>5, <1>6, <1>7 DEF IInv

LEMMA LayerStep ==
  ASSUME IInv, Layer
  PROVE  IInv'
<1> DEFINE kv == Entry(hs[1])
           old == cache[li]
           new == [p \in DOMAIN old \cup {Slot(li)} |-> IF p = Slot(li) THEN kv ELSE old[p]]
           below == R(tokens)[li - 1]
<1>1. /\ pc = "layers" /\ pc' = IF li = Layers THEN "head" ELSE "layers"
      /\ li' = li + 1
      /\ cache' = [cache EXCEPT ![li] = new]
      /\ hs' = <<Block(li, hs[1], pos, [j \in Attended(new) |-> new[j]])>>
      /\ UNCHANGED <<variant, prompt, gen, tokens, pos, logits, log>>
  BY DEF Layer
<1>2. /\ Len(tokens) \in Nat /\ pos \in 1 .. Len(tokens) /\ Layers \in Nat
      /\ li \in 1 .. Layers
  <2>1. Len(tokens) \in Nat
    BY LenProperties DEF IInv, Shape, IsSeq
  <2>2. pos \in 1 .. Len(tokens) + 1 /\ pos <= Len(tokens) /\ li \in 1 .. Layers + 1 /\ li <= Layers
    BY <1>1 DEF IInv, TypeOK, Shape
  <2> QED
    BY <2>1, <2>2, SizesAssumption
<1>3. hs[1] = below[pos]
  BY <1>1 DEF IInv, StreamIsExact
<1>4. /\ \A l \in 1 .. Layers : l < li => DOMAIN cache[l] = 1 .. pos
      /\ \A l \in 1 .. Layers : ~ (l < li) => DOMAIN cache[l] = 1 .. pos - 1
  BY <1>1 DEF IInv, TypeOK, Stored
<1>5. DOMAIN old = 1 .. pos - 1
  BY <1>2, <1>4
<1>6. Slot(li) = pos
  <2>1. Cardinality(1 .. pos - 1) = pos - 1
    <3>1. 1 \in Int /\ pos - 1 \in Int /\ (1 > pos - 1 => pos - 1 = 0) /\ (pos - 1) - 1 + 1 = pos - 1
      BY <1>2
    <3> QED
      BY <3>1, FS_Interval
  <2> QED
    BY <1>2, <1>5, <2>1 DEF Slot
<1>7. DOMAIN new = 1 .. pos
  <2>1. DOMAIN new = (1 .. pos - 1) \cup {pos}
    BY <1>5, <1>6
  <2> QED
    BY <1>2, <2>1
<1>8. \A p \in 1 .. pos : new[p] = Project(li, below[p], p)
  <2>1. new[pos] = Project(li, below[pos], pos)
    BY <1>3, <1>6, <1>7 DEF Entry
  <2>2. \A p \in 1 .. pos - 1 : old[p] = Project(li, below[p], p)
    BY <1>2, <1>5 DEF IInv, CacheIsExact, R
  <2>3. ASSUME NEW p \in 1 .. pos, p # pos PROVE new[p] = old[p] /\ p \in 1 .. pos - 1
    BY <1>2, <1>6, <1>7, <2>3
  <2> QED
    BY <2>1, <2>2, <2>3
<1>9. Attended(new) = 1 .. pos
  <2>1. Cardinality(DOMAIN new) = pos
    <3>1. 1 \in Int /\ pos \in Int /\ ~ (1 > pos) /\ pos - 1 + 1 = pos
      BY <1>2
    <3> HIDE DEF new
    <3> QED
      BY <1>7, <3>1, FS_Interval
  <2> HIDE DEF new
  <2> QED
    BY <2>1 DEF Attended
<1> HIDE DEF new
<1>10. cache'[li] = new /\ \A l \in 1 .. Layers : l # li => cache'[l] = cache[l]
  <2>1. DOMAIN cache = 1 .. Layers
    BY DEF IInv, Shape
  <2> QED
    BY <1>1, <1>2, <2>1
<1>11. CacheIsExact'
  <2> SUFFICES ASSUME NEW l \in 1 .. Layers, NEW p \in DOMAIN cache'[l]
               PROVE  cache'[l][p] = Project(l, R(tokens)[l - 1][p], p)
    BY <1>1 DEF CacheIsExact, R
  <2>1. CASE l = li
    BY <1>7, <1>8, <1>10, <2>1
  <2>2. CASE l # li
    BY <1>10, <2>2 DEF IInv, CacheIsExact, R
  <2> QED
    BY <2>1, <2>2
<1>12. StreamIsExact'
  <2>1. [j \in Attended(new) |-> new[j]] = [j \in 1 .. pos |-> Project(li, below[j], j)]
    BY <1>8, <1>9
  <2>2. R(tokens)[li][pos] = Block(li, below[pos], pos, [j \in 1 .. pos |-> Project(li, below[j], j)])
    <3>1. R(tokens)[li] = Greedy!LayerOutput(tokens, li, below)
      BY <1>2, ResidualRows
    <3> HIDE DEF below
    <3> QED
      BY <1>2, <3>1 DEF Greedy!LayerOutput
  <2>3. hs' = <<R(tokens)[li][pos]>>
    BY <1>1, <1>3, <2>1, <2>2
  <2>4. (li + 1) - 1 = li
    BY <1>2
  <2> QED
    BY <1>1, <2>3, <2>4 DEF StreamIsExact, R
<1>13. TypeOK'
  <2>1. ASSUME NEW l \in 1 .. Layers PROVE DOMAIN cache'[l] = Stored(l)'
    <3>1. CASE l = li
      <4>1. l < li' /\ pc' \in {"layers", "head"}
        BY <1>1, <1>2, <3>1
      <4> QED
        BY <1>1, <1>7, <1>10, <3>1, <4>1 DEF Stored
    <3>2. CASE l < li
      <4>1. l < li' /\ l # li /\ pc' \in {"layers", "head"}
        BY <1>1, <1>2, <3>2
      <4> QED
        BY <1>1, <1>4, <1>10, <3>2, <4>1 DEF Stored
    <3>3. CASE l > li
      <4>1. ~ (l < li') /\ l # li /\ ~ (l < li) /\ pc' = "layers"
        BY <1>1, <1>2, <3>3
      <4> QED
        BY <1>1, <1>4, <1>10, <4>1 DEF Stored
    <3> QED
      BY <1>2, <3>1, <3>2, <3>3
  <2>2. li' \in 1 .. Layers + 1
    BY <1>1, <1>2
  <2>3. pos <= Len(tokens)
    BY <1>2
  <2> QED
    BY <1>1, <2>1, <2>2, <2>3 DEF IInv, TypeOK
<1>14. Shape'
  <2>1. li # Layers => li + 1 <= Layers
    BY <1>2
  <2>2. DOMAIN cache' = DOMAIN cache
    BY <1>1
  <2> QED
    BY <1>1, <2>1, <2>2 DEF IInv, Shape, IsSeq
<1>15. Progress'
  BY <1>1 DEF IInv, Progress
<1> QED
  BY <1>11, <1>12, <1>13, <1>14, <1>15 DEF IInv

LEMMA EndStep ==
  ASSUME IInv, EndForward
  PROVE  IInv'
<1>1. /\ pc = "head" /\ pc' = "loop" /\ pos' = pos + 1
      /\ logits' = IF Wanted THEN <<LmHead(hs[1])>> ELSE << >>
      /\ UNCHANGED <<variant, prompt, gen, tokens, cache, li, log>>
  BY DEF EndForward, NoLogits
<1>2. /\ Len(tokens) \in Nat /\ Len(prompt) \in Nat /\ Len(log) \in Nat
      /\ Len(tokens) = Len(prompt) + Len(log)
      /\ pos \in 1 .. Len(tokens)
      /\ li = Layers + 1
  <2>1. Len(tokens) \in Nat /\ Len(prompt) \in Nat /\ Len(log) \in Nat
    BY LenProperties DEF IInv, Shape, IsSeq
  <2>2. /\ pos \in 1 .. Len(tokens) + 1 /\ pos <= Len(tokens)
        /\ Len(tokens) = Len(prompt) + Len(log) /\ li = Layers + 1
    BY <1>1 DEF IInv, TypeOK, Shape
  <2> QED
    BY <2>1, <2>2
<1>3. TypeOK'
  <2>1. \A l \in 1 .. Layers : DOMAIN cache[l] = 1 .. pos
    BY <1>1 DEF IInv, TypeOK, Stored
  <2>2. \A l \in 1 .. Layers : DOMAIN cache'[l] = Stored(l)'
    <3>1. pos' - 1 = pos
      BY <1>1, <1>2
    <3> QED
      BY <1>1, <2>1, <3>1 DEF Stored
  <2>3. pos' \in 1 .. Len(tokens) + 1 /\ Len(logits') <= 1
    <3>1. Len(<<LmHead(hs[1])>>) = 1 /\ Len(<< >>) = 0
      OBVIOUS
    <3> QED
      BY <1>1, <1>2, <3>1
  <2> QED
    BY <1>1, <2>2, <2>3 DEF IInv, TypeOK
<1>4. Shape' /\ StreamIsExact'
  BY <1>1 DEF IInv, Shape, IsSeq, StreamIsExact
<1>5. CacheIsExact'
  BY <1>1 DEF IInv, CacheIsExact
<1>6. Wanted => logits' = <<Greedy!LogitsAt(tokens, pos)>>
  <2>1. hs[1] = R(tokens)[Layers][pos]
    <3>1. li - 1 = Layers
      BY <1>2, SizesAssumption
    <3> QED
      BY <1>1, <3>1 DEF IInv, StreamIsExact
  <2> QED
    BY <1>1, <2>1 DEF Greedy!LogitsAt, R
<1>7. variant \in {"cis2_verify", "verify3"} => (Wanted <=> pos = Len(tokens))
  <2>1. variant \in {"cis2_verify", "verify3"} => (Wanted <=> pos >= Len(prompt))
    BY <1>2 DEF Wanted, PrefillTo
  <2>2. Len(log) = 0 => (pos >= Len(prompt) <=> pos = Len(tokens))
    BY <1>2
  <2>3. Len(log) > 0 => pos >= Len(tokens)
    BY DEF IInv, Progress
  <2>4. Len(log) > 0 => pos = Len(tokens) /\ pos >= Len(prompt)
    BY <1>2, <2>3
  <2> QED
    BY <1>2, <2>1, <2>2, <2>4
<1>8. variant \in {"reference", "verify2"} => Wanted
  BY DEF Wanted
<1>9. Progress'
  <2>1. Len(log) > 0 => pos' >= Len(tokens)
    BY <1>1, <1>2 DEF IInv, Progress
  <2>2. pos' - 1 = pos /\ pos' > 1 /\ (pos' = Len(tokens) + 1 <=> pos = Len(tokens))
    BY <1>1, <1>2
  <2>3. logits' # << >> <=> Wanted
    BY <1>1
  <2> QED
    BY <1>1, <1>6, <1>7, <1>8, <2>1, <2>2, <2>3 DEF Progress
<1> QED
  BY <1>3, <1>4, <1>5, <1>9 DEF IInv

\* When an implementation picks a token, the logits in hand are those of the
\* last token, whichever way its loop is organised.
LEMMA LogitsAreCurrent ==
  ASSUME IInv, pos > PrefillTo, ~ StepForwardDue, Len(log) < gen, logits # NoLogits
  PROVE  pos = Len(tokens) + 1
<1>1. /\ Len(tokens) \in Nat /\ Len(prompt) \in Nat /\ Len(log) \in Nat
      /\ Len(tokens) = Len(prompt) + Len(log)
      /\ pos \in 1 .. Len(tokens) + 1
  <2>1. Len(tokens) \in Nat /\ Len(prompt) \in Nat /\ Len(log) \in Nat
    BY LenProperties DEF IInv, Shape, IsSeq
  <2> QED
    BY <2>1 DEF IInv, TypeOK
<1>2. CASE variant \in {"cis2_verify", "verify3"}
  BY <1>2 DEF IInv, Progress, NoLogits
<1>3. CASE variant \in {"reference", "verify2"}
  <2>1. pos # Len(tokens)
    BY <1>3 DEF StepForwardDue, DueReference, DueVerify2
  <2>2. pos > Len(prompt)
    BY <1>3 DEF PrefillTo
  <2>3. Len(log) > 0 => pos >= Len(tokens)
    BY DEF IInv, Progress
  <2> QED
    BY <1>1, <2>1, <2>2, <2>3
<1> QED
  BY <1>2, <1>3, VariantsAssumption DEF IInv, Shape

LEMMA TokenStep ==
  ASSUME IInv, Step
  PROVE  IInv' /\ Greedy!Emit
<1> DEFINE scores == Greedy!LogitsAt(tokens, Len(tokens))
           next == Argmax(scores)
<1>1. /\ pc = "loop" /\ pc' = "loop" /\ Len(log) < gen /\ logits # << >>
      /\ log' = Append(log, <<logits[1], Argmax(logits[1])>>)
      /\ tokens' = Append(tokens, Argmax(logits[1]))
      /\ logits' = IF variant \in {"reference", "verify2"} THEN logits ELSE << >>
      /\ UNCHANGED <<variant, prompt, gen, cache, pos, li, hs>>
  BY DEF Step, NoLogits
<1>2. pos = Len(tokens) + 1
  BY LogitsAreCurrent DEF Step
<1>3. /\ Len(tokens) \in Nat /\ Len(log) \in Nat
      /\ Len(tokens) = Len(prompt) + Len(log)
      /\ IsSeq(tokens) /\ IsSeq(log) /\ gen \in Nat
  <2>1. Len(tokens) \in Nat /\ Len(log) \in Nat
    BY LenProperties DEF IInv, Shape, IsSeq
  <2> QED
    BY <2>1 DEF IInv, TypeOK, Shape
<1>p. Len(prompt) \in Nat
  BY LenProperties DEF IInv, Shape, IsSeq
<1>4. logits = <<scores>> /\ pos > 1
  <2>1. pos > 1 /\ logits = <<Greedy!LogitsAt(tokens, pos - 1)>>
    BY <1>1 DEF IInv, Progress
  <2>2. pos - 1 = Len(tokens)
    BY <1>2, <1>3
  <2> QED
    BY <2>1, <2>2
<1>5. log' = Append(log, <<scores, next>>) /\ tokens' = Append(tokens, next)
  BY <1>1, <1>4
<1>6. /\ IsSeq(tokens') /\ Len(tokens') = Len(tokens) + 1
      /\ IsSeq(log') /\ Len(log') = Len(log) + 1
  <2>1. ASSUME NEW s, IsSeq(s), NEW x PROVE IsSeq(Append(s, x)) /\ Len(Append(s, x)) = Len(s) + 1
    <3>1. PICK S : s \in Seq(S)
      BY <2>1 DEF IsSeq
    <3>2. s \in Seq(S \cup {x})
      BY <3>1, SeqMonotonic
    <3> QED
      BY <3>2, AppendProperties DEF IsSeq
  <2> QED
    BY <1>3, <1>5, <2>1
<1>7. \A l \in 0 .. Layers : \A p \in 1 .. Len(tokens) : R(tokens')[l][p] = R(tokens)[l][p]
  BY <1>3, <1>5, ResidualPrefix
<1>8. Layers \in Nat
  BY SizesAssumption
<1>9. TypeOK'
  <2>1. \A l \in 1 .. Layers : DOMAIN cache'[l] = Stored(l)'
    BY <1>1 DEF IInv, TypeOK, Stored
  <2>2. pos \in 1 .. Len(tokens') + 1
    BY <1>2, <1>3, <1>6
  <2>3. Len(log') <= gen /\ Len(tokens') = Len(prompt) + Len(log')
    BY <1>1, <1>3, <1>6, <1>p
  <2>4. Len(logits') <= 1
    <3>1. Len(<< >>) = 0 /\ Len(logits) <= 1
      BY DEF IInv, TypeOK
    <3> QED
      BY <1>1, <3>1
  <2> QED
    BY <1>1, <2>1, <2>2, <2>3, <2>4 DEF IInv, TypeOK
<1>10. Shape'
  BY <1>1, <1>6 DEF IInv, Shape, IsSeq
<1>11. StreamIsExact'
  BY <1>1 DEF StreamIsExact
<1>12. CacheIsExact'
  <2> SUFFICES ASSUME NEW l \in 1 .. Layers, NEW p \in DOMAIN cache[l]
               PROVE  cache[l][p] = Project(l, R(tokens')[l - 1][p], p)
    BY <1>1 DEF CacheIsExact, R
  <2>1. cache[l][p] = Project(l, R(tokens)[l - 1][p], p)
    BY DEF IInv, CacheIsExact, R
  <2>2. p \in 1 .. Len(tokens)
    <3>1. DOMAIN cache[l] = 1 .. pos - 1
      BY <1>1 DEF IInv, TypeOK, Stored
    <3>2. pos - 1 = Len(tokens)
      BY <1>2, <1>3
    <3> QED
      BY <3>1, <3>2
  <2>3. l - 1 \in 0 .. Layers
    BY <1>8
  <2> QED
    BY <1>7, <2>1, <2>2, <2>3
<1>13. Greedy!LogitsAt(tokens', pos - 1) = Greedy!LogitsAt(tokens, pos - 1)
  <2>1. pos - 1 \in 1 .. Len(tokens) /\ Layers \in 0 .. Layers
    BY <1>2, <1>3, <1>4, <1>8
  <2>2. R(tokens')[Layers][pos - 1] = R(tokens)[Layers][pos - 1]
    BY <1>7, <2>1
  <2> QED
    BY <2>2 DEF Greedy!LogitsAt, R
<1>14. Progress'
  <2>1. pos >= Len(tokens') /\ pos # Len(tokens') + 1
    BY <1>2, <1>3, <1>6
  <2>2. variant \in {"cis2_verify", "verify3"} => logits' = << >>
    BY <1>1
  <2>3. variant \in {"reference", "verify2"} => logits' = logits
    BY <1>1
  <2>4. variant \in {"cis2_verify", "verify3"} \/ variant \in {"reference", "verify2"}
    BY VariantsAssumption DEF IInv, Shape
  <2>5. logits = <<Greedy!LogitsAt(tokens', pos - 1)>>
    BY <1>1, <1>13 DEF IInv, Progress
  <2> QED
    BY <1>1, <1>4, <2>1, <2>2, <2>3, <2>4, <2>5 DEF Progress
<1>15. Greedy!Emit
  <2>1. tokens # << >>
    <3>1. Len(tokens) > 0
      BY <1>2, <1>3, <1>4
    <3>2. Len(<< >>) = 0
      OBVIOUS
    <3> QED
      BY <3>1, <3>2
  <2> QED
    BY <1>1, <1>5, <2>1 DEF Greedy!Emit
<1> QED
  BY <1>9, <1>10, <1>11, <1>12, <1>14, <1>15 DEF IInv

\* The steps that only change the control.
LEMMA ControlStep ==
  ASSUME IInv, pc' \in {pc, "done", "panic"},
         UNCHANGED <<variant, prompt, gen, tokens, cache, pos, li, hs, logits, log>>,
         pc' # pc => pc = "loop"
  PROVE  IInv'
<1>1. TypeOK'
  BY DEF IInv, TypeOK, Stored
<1>2. Shape' /\ Progress' /\ StreamIsExact' /\ CacheIsExact'
  BY DEF IInv, Shape, Progress, StreamIsExact, CacheIsExact, IsSeq
<1> QED
  BY <1>1, <1>2 DEF IInv

LEMMA NextStep ==
  ASSUME IInv, [Next]_vars
  PROVE  IInv' /\ [Greedy!Next]_(Greedy!vars)
<1>1. CASE BeginForward
  BY <1>1, BeginStep DEF BeginForward, Greedy!vars
<1>2. CASE Layer
  <2>1. pc' # "done" /\ pc # "done"
    BY <1>2 DEF Layer
  <2> QED
    BY <1>2, <2>1, LayerStep DEF Layer, Greedy!vars
<1>3. CASE EndForward
  BY <1>3, EndStep DEF EndForward, Greedy!vars
<1>4. CASE Step
  BY <1>4, TokenStep DEF Greedy!Next
<1>5. CASE Panic
  BY <1>5, ControlStep DEF Panic, Greedy!vars
<1>6. CASE Return
  BY <1>6, ControlStep DEF Return, Greedy!Next, Greedy!Finish
<1>7. CASE UNCHANGED vars
  BY <1>7, ControlStep DEF vars, Greedy!vars
<1> QED
  BY <1>1, <1>2, <1>3, <1>4, <1>5, <1>6, <1>7 DEF Next

LEMMA InitHolds ==
  ASSUME Init
  PROVE  IInv /\ Greedy!Init
<1>1. prompt \in Seq(Token) /\ Len(prompt) \in Nat /\ Layers \in Nat \ {0} /\ gen \in Nat
  BY SizesAssumption, LenProperties DEF Init
<1>2. Len(<< >>) = 0 /\ DOMAIN << >> = {} /\ << >> \in Seq({})
  OBVIOUS
<1>3. /\ variant \in Variants /\ (prompt = << >> => variant = "reference")
      /\ tokens = prompt /\ pos = 1 /\ li = 1 /\ pc = "loop"
      /\ log = << >> /\ logits = << >>
      /\ cache = [l \in 1 .. Layers |-> << >>]
  BY DEF Init, NoLogits
<1>4. TypeOK
  <2>1. \A l \in 1 .. Layers : DOMAIN cache[l] = Stored(l)
    BY <1>2, <1>3 DEF Stored
  <2> QED
    BY <1>1, <1>2, <1>3, <2>1 DEF TypeOK
<1>5. Shape
  BY <1>1, <1>2, <1>3 DEF Shape, IsSeq
<1>6. Progress
  <2>1. prompt # << >> => Len(prompt) # 0
    BY <1>1, EmptySeq
  <2>2. variant \in {"cis2_verify", "verify3"} => pos # Len(tokens) + 1
    BY <1>1, <1>3, <2>1
  <2> QED
    BY <1>2, <1>3, <2>2 DEF Progress
<1>7. StreamIsExact /\ CacheIsExact
  BY <1>2, <1>3 DEF StreamIsExact, CacheIsExact
<1>8. Greedy!Init
  BY <1>3 DEF Init, Greedy!Init
<1> QED
  BY <1>4, <1>5, <1>6, <1>7, <1>8 DEF IInv

\* The invariant holds for every arithmetic, model depth, prompt and length.
THEOREM Inductive == Spec => []IInv
<1>1. IInv /\ [Next]_vars => IInv'
  BY NextStep
<1> QED
  BY InitHolds, <1>1, PTL DEF Spec

\* Positions, caches and tokens stay in step in all four decode loops: no
\* forward pass reads a token or a cache entry that does not exist.
THEOREM TypeCorrect == Spec => []TypeOK
<1>1. IInv => TypeOK
  BY DEF IInv
<1> QED
  BY <1>1, Inductive, PTL

\* CIS-2 section 3.5: the KV cache is pure memoization of a forward pass from
\* scratch, whatever the arithmetic.
THEOREM CacheIsMemo == Spec => []CacheIsExact
<1>1. IInv => CacheIsExact
  BY DEF IInv
<1> QED
  BY <1>1, Inductive, PTL

\* The four decode loops emit the same tokens and bind the same logits as a
\* greedy decode without a cache, exactly gen_toks of them: the witness of a
\* run does not depend on which implementation ran.
THEOREM DecodeImplementsGreedy == Spec => ImplementsGreedy
<1>1. IInv /\ [Next]_vars => [Greedy!Next]_(Greedy!vars)
  BY NextStep
<1> QED
  BY InitHolds, <1>1, Inductive, PTL DEF Spec, ImplementsGreedy, Greedy!Spec

\* verify3 writes its token and cache arrays within the size it allocated.
THEOREM ArraysSuffice == Spec => []WithinCapacity
<1>1. IInv => WithinCapacity
  <2> SUFFICES ASSUME IInv
               PROVE  /\ Len(tokens) <= Len(prompt) + gen
                      /\ \A l \in 1 .. Layers : DOMAIN cache[l] \subseteq 1 .. Len(prompt) + gen
    BY DEF WithinCapacity
  <2>1. /\ Len(tokens) \in Nat /\ Len(prompt) \in Nat /\ Len(log) \in Nat /\ gen \in Nat
        /\ Len(tokens) = Len(prompt) + Len(log) /\ Len(log) <= gen
        /\ pos \in 1 .. Len(tokens) + 1
        /\ pc \in {"layers", "head"} => pos <= Len(tokens)
    <3>1. Len(tokens) \in Nat /\ Len(prompt) \in Nat /\ Len(log) \in Nat
      BY LenProperties DEF IInv, Shape, IsSeq
    <3> QED
      BY <3>1 DEF IInv, TypeOK, Shape
  <2>2. ASSUME NEW l \in 1 .. Layers PROVE DOMAIN cache[l] \subseteq 1 .. Len(tokens)
    <3>1. DOMAIN cache[l] = Stored(l)
      BY DEF IInv, TypeOK
    <3> QED
      BY <2>1, <3>1 DEF Stored
  <2> QED
    BY <2>1, <2>2
<1> QED
  BY <1>1, Inductive, PTL

\* A decode of a prompt that has tokens never reads logits it does not have.
THEOREM NoOtherPanic == Spec => []PanicsOnlyOnEmptyPrompt
<1> DEFINE Safe == IInv /\ PanicsOnlyOnEmptyPrompt
<1>1. Init => Safe
  BY InitHolds DEF Init, PanicsOnlyOnEmptyPrompt
<1>2. ASSUME Safe, [Next]_vars PROVE PanicsOnlyOnEmptyPrompt'
  <2>1. CASE Panic
    <3>1. /\ pos > PrefillTo /\ ~ StepForwardDue /\ Len(log) < gen /\ logits = << >>
          /\ UNCHANGED <<variant, prompt>>
      BY <2>1 DEF Panic, NoLogits
    <3>2. /\ Len(tokens) \in Nat /\ Len(prompt) \in Nat /\ Len(log) \in Nat /\ gen \in Nat
          /\ Len(tokens) = Len(prompt) + Len(log)
          /\ pos \in 1 .. Len(tokens) + 1
      <4>1. Len(tokens) \in Nat /\ Len(prompt) \in Nat /\ Len(log) \in Nat
        BY <1>2, LenProperties DEF IInv, Shape, IsSeq
      <4> QED
        BY <1>2, <4>1 DEF IInv, TypeOK, Shape
    <3>3. variant # "cis2_verify"
      BY <3>1 DEF StepForwardDue, DueCis2Verify, NoLogits
    <3>4. variant # "verify3"
      <4> SUFFICES ASSUME variant = "verify3" PROVE FALSE
        OBVIOUS
      <4>1. Len(log) \notin 1 .. gen - 1
        BY <3>1 DEF StepForwardDue, DueVerify3, NoLogits
      <4>2. Len(log) = 0
        BY <3>1, <3>2, <4>1
      <4>3. pos > Len(prompt)
        BY <3>1 DEF PrefillTo
      <4>4. pos = Len(tokens) + 1
        BY <3>2, <4>2, <4>3
      <4> QED
        BY <1>2, <3>1, <4>4 DEF IInv, Progress
    <3>5. variant \in {"reference", "verify2"}
      BY <1>2, <3>3, <3>4, VariantsAssumption DEF IInv, Shape
    <3>6. Len(prompt) = 0
      <4>1. ~ (pos > 1)
        BY <1>2, <3>1, <3>5 DEF IInv, Progress
      <4>2. pos > Len(prompt)
        BY <3>1, <3>5 DEF PrefillTo
      <4> QED
        BY <3>2, <4>1, <4>2
    <3>7. prompt = << >>
      BY <1>2, <3>6, EmptySeq DEF IInv, Shape, IsSeq
    <3> QED
      BY <1>2, <3>1, <3>7 DEF IInv, Shape, PanicsOnlyOnEmptyPrompt
  <2>2. CASE ~ Panic
    <3>1. pc' = "panic" => pc = "panic" /\ UNCHANGED <<variant, prompt>>
      BY <1>2, <2>2 DEF Next, BeginForward, Layer, EndForward, Step, Return, vars
    <3> QED
      BY <1>2, <3>1 DEF PanicsOnlyOnEmptyPrompt
  <2> QED
    BY <2>1, <2>2
<1>3. Safe /\ [Next]_vars => Safe'
  BY <1>2, NextStep
<1> QED
  BY <1>1, <1>3, PTL DEF Spec

-----------------------------------------------------------------------------
(* What a step picks.                                                      *)

\* The scan has a solution: the index it holds after each score.
LEMMA ScanExists ==
  ASSUME NEW s \in Seq(Int), s # << >>
  PROVE  \E f : f = [i \in 1 .. Len(s) |-> IF i = 1 THEN 1
                                         ELSE IF s[i] > s[f[i - 1]] THEN i ELSE f[i - 1]]
<1> DEFINE n == Len(s)
           T == 1 .. n
           step == [x \in (1 .. n - 1) \X T |-> IF s[x[1] + 1] > s[x[2]] THEN x[1] + 1 ELSE x[2]]
<1>1. n \in Nat \ {0}
  BY EmptySeq, LenProperties
<1>2. 1 \in T /\ n - 1 \in Nat
  BY <1>1
<1>3. step \in StepTable(n - 1, T)
  <2>1. \A i \in 1 .. n - 1 : i + 1 \in T
    BY <1>1
  <2> HIDE DEF n, T
  <2> QED
    BY <2>1 DEF StepTable
<1>4. PICK g : Follows(g, n - 1, T, 1, step)
  <2> HIDE DEF n, T, step
  <2> QED
    BY <1>2, <1>3, RecursionExists
<1>5. /\ g \in [0 .. n - 1 -> T]
      /\ g[0] = 1
      /\ \A i \in 1 .. n - 1 : g[i] = step[<<i, g[i - 1]>>]
  BY <1>4 DEF Follows
<1> DEFINE f == [i \in 1 .. n |-> g[i - 1]]
<1>6. ASSUME NEW i \in 1 .. n
      PROVE  f[i] = IF i = 1 THEN 1 ELSE IF s[i] > s[f[i - 1]] THEN i ELSE f[i - 1]
  <2>1. CASE i = 1
    BY <1>5, <2>1
  <2>2. CASE i # 1
    <3>1. i - 1 \in 1 .. n - 1 /\ (i - 1) + 1 = i /\ i - 1 \in 1 .. n /\ (i - 1) - 1 \in 0 .. n - 1
      BY <1>1, <2>2
    <3>2. g[i - 1] = step[<<i - 1, g[(i - 1) - 1]>>] /\ g[(i - 1) - 1] \in T
      BY <1>5, <3>1
    <3>3. step[<<i - 1, g[(i - 1) - 1]>>]
            = IF s[(i - 1) + 1] > s[g[(i - 1) - 1]] THEN (i - 1) + 1 ELSE g[(i - 1) - 1]
      BY <3>1, <3>2
    <3>4. f[i] = g[i - 1] /\ f[i - 1] = g[(i - 1) - 1]
      BY <3>1
    <3> HIDE DEF f, step, T
    <3> QED
      BY <2>2, <3>1, <3>2, <3>3, <3>4
  <2> QED
    BY <2>1, <2>2
<1>7. f = [i \in 1 .. n |-> f[i]]
  OBVIOUS
<1>8. f = [i \in 1 .. n |-> IF i = 1 THEN 1 ELSE IF s[i] > s[f[i - 1]] THEN i ELSE f[i - 1]]
  <2> HIDE DEF f
  <2> QED
    BY <1>6, <1>7
<1> QED
  BY <1>8

\* argmax returns the first index of the maximum.
LEMMA ArgmaxFirst ==
  ASSUME NEW s \in Seq(Int), s # << >>
  PROVE  /\ Argmax(s) \in 1 .. Len(s)
         /\ \A i \in 1 .. Len(s) : s[i] <= s[Argmax(s)]
         /\ \A i \in 1 .. Argmax(s) - 1 : s[i] < s[Argmax(s)]
<1> DEFINE n == Len(s)
           Scans(f) == f = [i \in 1 .. n |-> IF i = 1 THEN 1
                                            ELSE IF s[i] > s[f[i - 1]] THEN i ELSE f[i - 1]]
           Best == CHOOSE f : Scans(f)
           First(k, b) == /\ b \in 1 .. k
                          /\ \A i \in 1 .. k : s[i] <= s[b]
                          /\ \A i \in 1 .. b - 1 : s[i] < s[b]
           Good == {k \in 0 .. n : k = 0 \/ First(k, Best[k])}
<1>1. n \in Nat \ {0}
  BY EmptySeq, LenProperties
<1>2. Scans(Best)
  <2>1. \E f : Scans(f)
    BY ScanExists
  <2> HIDE DEF Scans
  <2> QED
    BY <2>1
<1>3. Argmax(s) = Best[n]
  BY DEF Argmax
<1>4. \A i \in 1 .. n : Best[i] = IF i = 1 THEN 1 ELSE IF s[i] > s[Best[i - 1]] THEN i ELSE Best[i - 1]
  <2> HIDE DEF Best
  <2> QED
    BY <1>2
<1> HIDE DEF Best
<1>5. \A i \in 1 .. n : s[i] \in Int
  OBVIOUS
<1>6. ASSUME NEW k \in 0 .. n - 1, k \in Good
      PROVE  k + 1 \in Good
  <2>1. k + 1 \in 1 .. n /\ (k + 1) - 1 = k
    BY <1>1
  <2>2. CASE k = 0
    <3>1. Best[k + 1] = 1
      BY <1>4, <2>1, <2>2
    <3> QED
      BY <1>5, <2>1, <2>2, <3>1
  <2>3. CASE k # 0
    <3>1. First(k, Best[k])
      BY <1>6, <2>3
    <3>2. Best[k + 1] = IF s[k + 1] > s[Best[k]] THEN k + 1 ELSE Best[k]
      BY <1>4, <2>1, <2>3
    <3>3. \A i \in 1 .. k + 1 : i \in 1 .. k \/ i = k + 1
      OBVIOUS
    <3>4. CASE s[k + 1] > s[Best[k]]
      <4>1. Best[k + 1] = k + 1 /\ s[k + 1] \in Int /\ s[Best[k]] \in Int
        BY <1>5, <2>1, <3>1, <3>2, <3>4
      <4>2. \A i \in 1 .. k : s[i] \in Int /\ s[i] <= s[Best[k]]
        BY <1>5, <2>1, <3>1
      <4>3. \A i \in 1 .. k : s[i] < s[k + 1]
        BY <3>4, <4>1, <4>2
      <4>4. \A i \in 1 .. k + 1 : s[i] <= s[k + 1]
        BY <3>3, <4>1, <4>3
      <4> QED
        BY <2>1, <4>1, <4>3, <4>4
    <3>5. CASE ~ (s[k + 1] > s[Best[k]])
      BY <1>5, <2>1, <3>1, <3>2, <3>3, <3>5
    <3> QED
      BY <3>4, <3>5
  <2> QED
    BY <2>2, <2>3
<1>7. 0 .. n \subseteq Good
  <2>1. 0 \in Good
    BY <1>1
  <2> HIDE DEF Good
  <2> QED
    BY <1>1, <1>6, <2>1, UpTo
<1>8. First(n, Best[n])
  BY <1>1, <1>7
<1> QED
  BY <1>3, <1>8

\* What the arithmetic is when it meets no NaN: embeddings and blocks make
\* residuals, the head makes one number for every token of a vocabulary.
Arithmetic(Residuals, Entries) ==
  /\ \A t \in Token : Embed(t) \in Residuals
  /\ \A l \in 1 .. Layers, h \in Residuals, p \in Nat \ {0} :
       /\ Project(l, h, p) \in Entries
       /\ \A kv \in [1 .. p -> Entries] : Block(l, h, p, kv) \in Residuals
  /\ \A h \in Residuals :
       /\ LmHead(h) \in Seq(Int) /\ LmHead(h) # << >>
       /\ 1 .. Len(LmHead(h)) \subseteq Token

\* The streams of a forward pass over tokens are residuals.
LEMMA StreamsAreResiduals ==
  ASSUME NEW Residuals, NEW Entries, Arithmetic(Residuals, Entries), NEW toks \in Seq(Token)
  PROVE  \A l \in 0 .. Layers : \A p \in 1 .. Len(toks) : R(toks)[l][p] \in Residuals
<1> DEFINE n == Len(toks)
           Typed == {l \in 0 .. Layers : \A p \in 1 .. n : R(toks)[l][p] \in Residuals}
<1>1. n \in Nat /\ Layers \in Nat /\ \A p \in 1 .. n : toks[p] \in Token
  BY LenProperties, SizesAssumption
<1>2. 0 \in Typed
  <2>1. \A p \in 1 .. n : R(toks)[0][p] = Embed(toks[p])
    BY ResidualRows, ZenonT(60)
  <2> QED
    BY <1>1, <2>1, SMTT(30) DEF Arithmetic
<1>3. ASSUME NEW k \in 0 .. Layers - 1, k \in Typed
      PROVE  k + 1 \in Typed
  <2>1. k + 1 \in 1 .. Layers /\ k + 1 \in 0 .. Layers /\ (k + 1) - 1 = k
    BY <1>1
  <2> DEFINE a == R(toks)[k]
  <2>2. \A p \in 1 .. n : a[p] \in Residuals
    BY <1>3
  <2>3. R(toks)[k + 1] = Greedy!LayerOutput(toks, k + 1, a)
    BY <2>1, ResidualRows
  <2> HIDE DEF a
  <2>4. ASSUME NEW p \in 1 .. n PROVE R(toks)[k + 1][p] \in Residuals
    <3> DEFINE kv == [j \in 1 .. p |-> Project(k + 1, a[j], j)]
    <3>1. kv \in [1 .. p -> Entries]
      <4>1. \A j \in 1 .. p : j \in 1 .. n /\ j \in Nat \ {0}
        BY <1>1
      <4> QED
        BY <2>1, <2>2, <4>1 DEF Arithmetic
    <3>2. R(toks)[k + 1][p] = Block(k + 1, a[p], p, kv)
      BY <2>3 DEF Greedy!LayerOutput
    <3>3. p \in Nat \ {0} /\ a[p] \in Residuals
      BY <2>2
    <3> HIDE DEF kv
    <3> QED
      BY <2>1, <3>1, <3>2, <3>3, SMTT(30) DEF Arithmetic
  <2> QED
    BY <2>1, <2>4
<1>4. 0 .. Layers \subseteq Typed
  <2> HIDE DEF Typed
  <2> QED
    BY <1>1, <1>2, <1>3, UpTo
<1> QED
  BY <1>4

\* A step picks the first maximum of the logits it folds.
LEMMA StepPicks ==
  ASSUME NEW Residuals, NEW Entries, Arithmetic(Residuals, Entries),
         IInv, tokens \in Seq(Token), PicksFirstMaximum, Step
  PROVE  tokens' \in Seq(Token) /\ PicksFirstMaximum'
<1> DEFINE n == Len(tokens)
           scores == LmHead(R(tokens)[Layers][n])
           id == Argmax(scores)
<1>1. /\ logits # << >> /\ pos = n + 1 /\ prompt' = prompt
      /\ log' = Append(log, <<logits[1], Argmax(logits[1])>>)
      /\ tokens' = Append(tokens, Argmax(logits[1]))
  BY LogitsAreCurrent DEF Step, NoLogits
<1>2. n \in Nat /\ Len(log) \in Nat /\ Len(prompt) \in Nat /\ n = Len(prompt) + Len(log)
  <2>1. Len(log) \in Nat /\ Len(prompt) \in Nat /\ n \in Nat
    BY LenProperties DEF IInv, Shape, IsSeq
  <2> QED
    BY <2>1 DEF IInv, TypeOK
<1>3. n \in 1 .. n /\ logits[1] = scores
  <2>1. pos > 1 /\ logits = <<Greedy!LogitsAt(tokens, pos - 1)>>
    BY <1>1 DEF IInv, Progress
  <2>2. pos - 1 = n /\ n \in 1 .. n
    BY <1>1, <1>2, <2>1
  <2> QED
    BY <2>1, <2>2 DEF Greedy!LogitsAt, R
<1>4. scores \in Seq(Int) /\ scores # << >> /\ 1 .. Len(scores) \subseteq Token
  <2>1. Layers \in 0 .. Layers
    BY SizesAssumption
  <2>2. R(tokens)[Layers][n] \in Residuals
    BY <1>3, <2>1, StreamsAreResiduals
  <2> QED
    BY <2>2 DEF Arithmetic
<1> HIDE DEF scores
<1>5. /\ id \in 1 .. Len(scores)
      /\ \A i \in 1 .. Len(scores) : scores[i] <= scores[id]
      /\ \A i \in 1 .. id - 1 : scores[i] < scores[id]
  BY <1>4, ArgmaxFirst
<1> HIDE DEF id
<1>6. log' = Append(log, <<scores, id>>) /\ tokens' = Append(tokens, id)
  BY <1>1, <1>3 DEF id
<1>7. /\ tokens' \in Seq(Token) /\ tokens'[n + 1] = id
      /\ \A i \in 1 .. n : tokens'[i] = tokens[i]
  BY <1>4, <1>5, <1>6, AppendProperties
<1>8. /\ Len(log') = Len(log) + 1 /\ log'[Len(log) + 1] = <<scores, id>>
      /\ \A k \in 1 .. Len(log) : log'[k] = log[k]
  <2>1. PICK S : log \in Seq(S)
    BY DEF IInv, Shape, IsSeq
  <2>2. log \in Seq(S \cup {<<scores, id>>})
    BY <2>1, SeqMonotonic
  <2> QED
    BY <1>6, <2>2, AppendProperties
<1>9. ASSUME NEW k \in 1 .. Len(log')
      PROVE  /\ tokens'[Len(prompt) + k] = log'[k][2]
             /\ \A i \in 1 .. Len(log'[k][1]) : log'[k][1][i] <= log'[k][1][log'[k][2]]
             /\ \A i \in 1 .. log'[k][2] - 1 : log'[k][1][i] < log'[k][1][log'[k][2]]
  <2>1. CASE k = Len(log) + 1
    <3>1. Len(prompt) + k = n + 1
      BY <1>2, <2>1
    <3>2. log'[k][1] = scores /\ log'[k][2] = id
      BY <1>8, <2>1
    <3> QED
      BY <1>5, <1>7, <3>1, <3>2
  <2>2. CASE k # Len(log) + 1
    <3>1. k \in 1 .. Len(log) /\ Len(prompt) + k \in 1 .. n
      BY <1>2, <1>8, <2>2
    <3>2. log'[k] = log[k] /\ tokens'[Len(prompt) + k] = tokens[Len(prompt) + k]
      BY <1>7, <1>8, <3>1
    <3> QED
      BY <3>1, <3>2 DEF PicksFirstMaximum
  <2> QED
    BY <2>1, <2>2
<1> QED
  BY <1>1, <1>7, <1>9 DEF PicksFirstMaximum

\* Every generated id is the first of the maxima of the logits that the witness
\* binds it to, in all four loops and for any arithmetic without NaN.
THEOREM FirstMaximumIsPicked ==
  ASSUME NEW Residuals, NEW Entries, Arithmetic(Residuals, Entries)
  PROVE  Spec => []PicksFirstMaximum
<1> DEFINE Picks == tokens \in Seq(Token) /\ PicksFirstMaximum
<1>1. Init => Picks
  <2>1. Len(<< >>) = 0
    OBVIOUS
  <2> QED
    BY <2>1, SizesAssumption DEF Init, PicksFirstMaximum
<1>2. ASSUME IInv, Picks, [Next]_vars PROVE Picks'
  <2>1. CASE Step
    BY <1>2, <2>1, StepPicks
  <2>2. CASE ~ Step
    <3>1. UNCHANGED <<prompt, tokens, log>>
      BY <1>2, <2>2 DEF Next, BeginForward, Layer, EndForward, Panic, Return, vars
    <3> QED
      BY <1>2, <3>1 DEF PicksFirstMaximum
  <2> QED
    BY <2>1, <2>2
<1>3. IInv /\ Picks /\ [Next]_vars => Picks'
  BY <1>2
<1>4. Picks => PicksFirstMaximum
  OBVIOUS
<1> HIDE DEF Picks
<1> QED
  BY <1>1, <1>3, <1>4, Inductive, PTL DEF Spec
=============================================================================
