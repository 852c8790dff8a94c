--------------------------- MODULE ForwardProofs ----------------------------
(***************************************************************************)
(* Proofs about Forward: types, what is loaded, and that every program's   *)
(* residuals and logits are those of the formula.                          *)
(*                                                                         *)
(* First what the loaders' checks give, then the parts of a block from the *)
(* bottom up: sums and products, norms, rotations, softmax; the rows of an *)
(* array; attention in each layout of the cache; the INT8 products and the *)
(* batches.  The invariant and its steps are at the end.                   *)
(***************************************************************************)
EXTENDS Forward, Induction, FiniteSetTheorems, TLAPS

\* An array is the function it is made of.
LEMMA ArrayIs == \A f : Array(f) = f
  BY DEF Array

\* The size of a vector is the number of its elements.
LEMMA SizeIs ==
  ASSUME NEW n \in Nat, NEW x, DOMAIN x = 0 .. n - 1
  PROVE  Size(x) = n
<1>1. Cardinality(0 .. n - 1) = IF 0 > n - 1 THEN 0 ELSE (n - 1) - 0 + 1
  BY FS_Interval
<1> QED
  BY <1>1 DEF Size

\* The programs' copies of what Floats defines.
LEMMA SizesAre ==
  \A x : CV!Size(x) = Size(x) /\ Reference!Size(x) = Size(x) /\ V2!Size(x) = Size(x)
        /\ V3!Size(x) = Size(x) /\ Batch!Size(x) = Size(x)
BY DEF Size, CV!Size, Reference!Size, V2!Size, V3!Size, Batch!Size,
       Cardinality, CV!Cardinality, Reference!Cardinality, V2!Cardinality, V3!Cardinality, Batch!Cardinality

\* A tensor has the elements of its shape.
LEMMA TensorIs ==
  ASSUME NEW t, IsTensor(t)
  PROVE  Numel(t.shape) \in Nat /\ Size(t.data) = Numel(t.shape)
<1>1. Numel(t.shape) \in Nat
  BY DEF IsTensor, Numel
<1>2. DOMAIN t.data = 0 .. Numel(t.shape) - 1
  BY DEF IsTensor
<1> QED
  BY <1>1, <1>2, SizeIs

\* verify3 accepts tensors of the shapes it asks for.
LEMMA ShapedIsSized ==
  ASSUME NEW t, IsTensor(t)
  PROVE  V3!SameNumel(t, t.shape)
BY TensorIs, SizesAre DEF V3!SameNumel, Numel

LEMMA FitIsFit ==
  ASSUME NEW t, \A n \in DOMAIN t : IsTensor(t[n]), NEW shapes
  PROVE  /\ CV!AllFit(t, shapes, CV!SameShape) => V3!AllFit(t, shapes, V3!SameNumel)
         /\ CV!PresentFit(t, shapes, CV!SameShape) => V3!PresentFit(t, shapes, V3!SameNumel)
BY ShapedIsSized DEF CV!AllFit, CV!PresentFit, V3!AllFit, V3!PresentFit, CV!SameShape

\* The reference and verify3 load what cis2-verify loads.
LEMMA OthersLoad ==
  ASSUME NEW k, IsCheckpoint(k), CV!Loads(k), ~k.overlap, k.hidden # 0
  PROVE  Reference!Loads(k) /\ V3!Loads(k)
<1>1. Reference!Loads(k)
  BY DEF CV!Loads, CV!AllFit, CV!PresentFit, CV!SameShape, CV!GlobalShapes, CV!LayerShapes,
         CV!BiasShapes, CV!KvWidth, CV!HeadDim,
         Reference!Loads, Reference!AllFit, Reference!PresentFit, Reference!SameShape,
         Reference!GlobalShapes, Reference!LayerShapes, Reference!BiasShapes,
         Reference!KvWidth, Reference!HeadDim
<1>2. /\ CV!GlobalShapes(k) = V3!GlobalShapes(k)
      /\ CV!LayerShapes(k, CV!KvWidth(k)) = V3!LayerShapes(k, V3!NkvDim(k))
      /\ CV!BiasShapes(k, CV!KvWidth(k)) = V3!BiasShapes(k, V3!NkvDim(k))
  BY DEF CV!GlobalShapes, V3!GlobalShapes, CV!LayerShapes, V3!LayerShapes, CV!BiasShapes, V3!BiasShapes,
         CV!KvWidth, CV!HeadDim, V3!NkvDim, V3!HeadDim
<1>3. /\ \A n \in DOMAIN k.tensors : IsTensor(k.tensors[n])
      /\ \A l \in DOMAIN k.layers : \A n \in DOMAIN k.layers[l] : IsTensor(k.layers[l][n])
  BY DEF IsCheckpoint
<1>4. V3!AllFit(k.tensors, V3!GlobalShapes(k), V3!SameNumel)
  BY <1>2, <1>3, FitIsFit DEF CV!Loads
<1>5. ASSUME NEW l \in DOMAIN k.layers
      PROVE  /\ V3!AllFit(k.layers[l], V3!LayerShapes(k, V3!NkvDim(k)), V3!SameNumel)
             /\ V3!PresentFit(k.layers[l], V3!BiasShapes(k, V3!NkvDim(k)), V3!SameNumel)
  BY <1>2, <1>3, FitIsFit DEF CV!Loads
<1>6. k.tied \/ V3!PresentFit(k.tensors, [lm_head |-> <<k.vocab, k.hidden>>], V3!SameNumel)
  <2>1. CV!AllFit(k.tensors, [lm_head |-> <<k.vocab, k.hidden>>], CV!SameShape)
        => CV!PresentFit(k.tensors, [lm_head |-> <<k.vocab, k.hidden>>], CV!SameShape)
    BY DEF CV!AllFit, CV!PresentFit
  <2> QED
    BY <2>1, <1>3, FitIsFit DEF CV!Loads
<1>7. k.n_heads # 0 /\ k.n_kv_heads # 0
  BY DEF CV!Loads, CV!Check
<1> QED
  BY <1>1, <1>4, <1>5, <1>6, <1>7 DEF V3!Loads

-----------------------------------------------------------------------------
\* A function on 0 .. n - 1 is a vector, and so is one on the indices of a vector.
LEMMA VectorIs ==
  ASSUME NEW n \in Nat, NEW x, DOMAIN x = 0 .. n - 1
  PROVE  IsVector(x)
BY SizeIs DEF IsVector

LEMMA VectorLike ==
  ASSUME NEW x, NEW y, IsVector(x), DOMAIN y = DOMAIN x
  PROVE  IsVector(y)
BY DEF IsVector, Size

LEMMA SumsVector ==
  ASSUME NEW x, NEW y, IsVector(x)
  PROVE  IsVector(CV!Sums(x, y)) /\ IsVector(Reference!Sums(x, y))
         /\ IsVector(V2!Sums(x, y)) /\ IsVector(V3!Sums(x, y))
<1> DEFINE z == [i \in DOMAIN x |-> Add(x[i], y[i])]
<1>1. CV!Sums(x, y) = z /\ Reference!Sums(x, y) = z /\ V2!Sums(x, y) = z /\ V3!Sums(x, y) = z
  BY ArrayIs DEF Array, CV!Sums, Reference!Sums, V2!Sums, V3!Sums, CV!Array, Reference!Array, V2!Array, V3!Array
<1>2. IsVector(z)
  BY VectorLike
<1> QED
  BY <1>1, <1>2

\* The embeddings of a position, and of all of them.
LEMMA EmbeddedVector ==
  ASSUME ckpt \in DOMAIN Checkpoints, tokens \in Texts
  PROVE  IsVector(Embedded)
<1>1. c.hidden \in Nat
  BY CheckpointsAssumption DEF IsCheckpoint, c
<1>2. Len(tokens) \in Nat
  BY TextsAssumption
<1> DEFINE x == [i \in 0 .. c.hidden - 1 |-> c.tensors["embed"].data[tokens[pos + 1] * c.hidden + i]]
<1>3. IsVector(x)
  <2>1. DOMAIN x = 0 .. c.hidden - 1
    OBVIOUS
  <2> QED
    BY <1>1, <2>1, VectorIs
<1>4. /\ CV!Embed(c, tokens[pos + 1]) = x /\ Reference!Embed(c, tokens[pos + 1]) = x
      /\ V2!Embed(c, tokens[pos + 1]) = x /\ V3!Embed(c, tokens[pos + 1]) = x
  BY ArrayIs DEF Array, CV!Array, Reference!Array, V2!Array, V3!Array, CV!Span, Reference!Span, V2!Span, V3!Span,
       CV!Embed, Reference!Embed, V2!Embed, V3!Embed
<1>5. IsVector(Batch!EmbedAll(c, Int8, qm, tokens))
  <2> DEFINE rows == Batch!Array([p \in 0 .. Len(tokens) - 1 |->
               IF Int8 THEN Batch!Wide(qm.embed[tokens[p + 1]]) ELSE Batch!Embed(c, tokens[p + 1])])
  <2>1. DOMAIN rows = 0 .. Len(tokens) - 1
    BY DEF Batch!Array
  <2> HIDE DEF rows
  <2>2. Batch!Size(rows) = Len(tokens)
    BY <1>2, <2>1, SizeIs, SizesAre
  <2>3. DOMAIN Batch!Flat(rows, c.hidden) = 0 .. Len(tokens) * c.hidden - 1
    BY <2>2 DEF Batch!Flat, Batch!Array
  <2>4. Len(tokens) * c.hidden \in Nat
    BY <1>1, <1>2
  <2>5. IsVector(Batch!Flat(rows, c.hidden))
    BY <2>3, <2>4, VectorIs
  <2> QED
    BY <2>5 DEF rows, Batch!EmbedAll
<1> QED
  BY <1>3, <1>4, <1>5 DEF Embedded

LEMMA AttendedVector ==
  ASSUME IsVector(h)
  PROVE  IsVector(Attended.h)
<1>1. /\ IsVector(CV!Attention(c, li, pos, h, cache).h)
      /\ IsVector(Reference!Attention(c, li, pos, h, cache).h)
      /\ IsVector(V2!Attention(c, li, pos, h, cache).h)
      /\ IsVector(V3!Attention(c, li, pos, h, cache).h)
  BY SumsVector DEF CV!Attention, CV!FromNorm, CV!AfterPush, Reference!Attention, Reference!FromNorm,
       Reference!AfterPush, V2!Attention, V2!FromNorm, V2!AfterPush, V3!Attention, V3!FromNorm, V3!AfterStore
<1>2. IsVector(Batch!AttentionAll(c, Int8, qm, li, Len(tokens), h))
  BY VectorLike DEF Batch!AttentionAll, Batch!FromNorms, Batch!FromQkv, Batch!AddRows, Batch!Array
<1> QED
  BY <1>1, <1>2 DEF Attended

LEMMA MlpedVector ==
  ASSUME IsVector(h)
  PROVE  IsVector(Mlped)
<1>1. /\ IsVector(CV!Mlp(c, li, h)) /\ IsVector(Reference!Mlp(c, li, h))
      /\ IsVector(V2!Mlp(c, li, h)) /\ IsVector(V3!Mlp(c, li, h))
  BY SumsVector DEF CV!Mlp, CV!MlpFrom, Reference!Mlp, Reference!MlpFrom, V2!Mlp, V2!MlpFrom, V3!Mlp, V3!MlpFrom
<1>2. IsVector(Batch!MlpAll(c, Int8, qm, li, Len(tokens), h))
  BY VectorLike DEF Batch!MlpAll, Batch!AddRows, Batch!Array
<1> QED
  BY <1>1, <1>2 DEF Mlped

-----------------------------------------------------------------------------
\* The layer of a block is one of the checkpoint's, the head follows the last
\* one, and what stopped could not load.
Course ==
  /\ pc \in {"attention", "mlp"} => li < c.n_layers
  /\ pc = "head" => li = c.n_layers
  /\ pc = "stopped" => ~Loads

LEMMA InitTypes == Init => TypeOK /\ Course
<1> SUFFICES ASSUME Init PROVE TypeOK /\ Course
  OBVIOUS
<1>1. c.n_layers \in Nat
  BY CheckpointsAssumption DEF Init, IsCheckpoint, c
<1>2. pos \in 0 .. Len(tokens) - 1
  BY TextsAssumption DEF Init
<1>3. IsVector(h)
  <2>1. DOMAIN h = 0 .. 0 - 1
    BY DEF Init
  <2> QED
    BY <2>1, VectorIs
<1>4. DOMAIN logits = {}
  BY DEF Init
<1>5. TypeOK
  BY <1>1, <1>2, <1>3, <1>4 DEF Init, TypeOK
<1> QED
  BY <1>5 DEF Init, Course

LEMMA NextTypes == TypeOK /\ Course /\ [Next]_vars => TypeOK' /\ Course'
<1> SUFFICES ASSUME TypeOK, Course, [Next]_vars
             PROVE  TypeOK' /\ Course'
  OBVIOUS
<1> USE DEF Int8
<1>0. /\ c.n_layers \in Nat /\ Len(tokens) \in Nat /\ Len(tokens) >= 1
      /\ li \in 0 .. c.n_layers /\ pos \in 0 .. Len(tokens) - 1
  <2>1. IsCheckpoint(c)
    BY CheckpointsAssumption DEF TypeOK, c
  <2> QED
    BY <2>1, TextsAssumption DEF TypeOK, IsCheckpoint
<1>1. CASE Load
  BY <1>1 DEF Load, TypeOK, Course, IsVector, c
<1>2. CASE Stop
  BY <1>2 DEF Stop, TypeOK, Course, IsVector, c, Loads
<1>3. CASE Embed
  <2>1. IsVector(Embedded)
    BY EmbeddedVector DEF TypeOK
  <2>2. IsVector(h')
    BY <1>3, <2>1 DEF Embed, IsVector
  <2>3. c' = c
    BY <1>3 DEF Embed, c
  <2> QED
    BY <1>0, <1>3, <2>2, <2>3 DEF Embed, TypeOK, Course, IsVector
<1>4. CASE Attention
  <2>1. IsVector(Attended.h)
    BY AttendedVector DEF TypeOK
  <2>2. IsVector(h')
    BY <1>4, <2>1 DEF Attention, IsVector
  <2>3. c' = c
    BY <1>4 DEF Attention, c
  <2> QED
    BY <1>0, <1>4, <2>2, <2>3 DEF Attention, TypeOK, Course, IsVector
<1>5. CASE Mlp
  <2>1. IsVector(Mlped)
    BY MlpedVector DEF TypeOK
  <2>2. IsVector(h')
    BY <1>5, <2>1 DEF Mlp, IsVector
  <2>3. c' = c
    BY <1>5 DEF Mlp, c
  <2> QED
    BY <1>0, <1>5, <2>2, <2>3 DEF Mlp, TypeOK, Course, IsVector
<1>6. CASE FinalHead
  BY <1>0, <1>6 DEF FinalHead, NextPosition, TypeOK, Course, IsVector, c
<1>7. CASE SkipHead
  BY <1>0, <1>7 DEF SkipHead, NextPosition, TypeOK, Course, IsVector, c
<1>8. CASE BatchHead
  BY <1>0, <1>8 DEF BatchHead, TypeOK, Course, IsVector, c
<1>9. CASE UNCHANGED vars
  BY <1>9 DEF vars, TypeOK, Course, IsVector, c, Loads
<1> QED
  BY <1>1, <1>2, <1>3, <1>4, <1>5, <1>6, <1>7, <1>8, <1>9 DEF Next

\* Types hold in every state, for every checkpoint and every text.
THEOREM TypesHold == Spec => []TypeOK
<1>1. Init => TypeOK /\ Course
  BY InitTypes
<1>2. TypeOK /\ Course /\ [Next]_vars => TypeOK' /\ Course'
  BY NextTypes
<1> QED
  BY <1>1, <1>2, PTL DEF Spec

\* What cis2-verify accepts is loaded by the reference, verify3 and the INT8
\* program, whatever its sizes and tensors, but for the two exceptions.
THEOREM AcceptedByAllHolds == Spec => []AcceptedByAll
<1>1. TypeOK /\ Course => AcceptedByAll
  <2> SUFFICES ASSUME TypeOK, Course, ckpt \in Sound, impl # "verify2", pc = "stopped",
                      ~c.overlap, c.hidden # 0
               PROVE  FALSE
    BY DEF AcceptedByAll
  <2>1. IsCheckpoint(c) /\ CV!Loads(c)
    BY CheckpointsAssumption DEF TypeOK, Sound, c
  <2>2. CV!Loads(c) /\ Reference!Loads(c) /\ V3!Loads(c)
    BY <2>1, OthersLoad DEF TypeOK, CheckpointsAssumption, IsCheckpoint
  <2> QED
    BY <2>2 DEF Course, Loads
<1>2. Spec => [](TypeOK /\ Course)
  <2>1. Init => TypeOK /\ Course
    BY InitTypes
  <2>2. TypeOK /\ Course /\ [Next]_vars => TypeOK' /\ Course'
    BY NextTypes
  <2> QED
    BY <2>1, <2>2, PTL DEF Spec
<1> QED
  BY <1>1, <1>2, PTL

-----------------------------------------------------------------------------
\* The vectors of n values.
Vec(n) == [0 .. n - 1 -> Float]

LEMMA SumsTo ==
  ASSUME NEW n \in Nat, NEW x \in Vec(n)
  PROVE  LeftSum(x) \in Float
<1> DEFINE Solves(g) == g = [i \in 0 .. n |-> IF i = 0 THEN Zero ELSE Add(g[i - 1], x[i - 1])]
           step == [u \in (1 .. n) \X Float |-> Add(u[2], x[u[1] - 1])]
           acc == CHOOSE g : Solves(g)
<1>0. Zero \in Float /\ \A a, b \in Float : Add(a, b) \in Float
  BY FloatsAssumption
<1>1. \A i \in 1 .. n : x[i - 1] \in Float
  BY DEF Vec
<1>2. step \in StepTable(n, Float)
  BY <1>0, <1>1 DEF StepTable
<1>3. PICK g : Follows(g, n, Float, Zero, step)
  <2> HIDE DEF step
  <2> QED
    BY <1>0, <1>2, RecursionExists
<1>4. Solves(g)
  <2>1. g = [i \in 0 .. n |-> g[i]] /\ g[0] = Zero
    BY <1>3 DEF Follows
  <2>2. ASSUME NEW i \in 1 .. n PROVE g[i] = Add(g[i - 1], x[i - 1])
    <3>1. g[i - 1] \in Float /\ g[i] = step[<<i, g[i - 1]>>]
      <4> HIDE DEF step
      <4> QED
        BY <1>3 DEF Follows
    <3>2. <<i, g[i - 1]>> \in (1 .. n) \X Float
      BY <3>1
    <3> QED
      BY <3>1, <3>2
  <2>3. \A i \in 0 .. n : i = 0 \/ i \in 1 .. n
    OBVIOUS
  <2>4. \A i \in 0 .. n : g[i] = IF i = 0 THEN Zero ELSE Add(g[i - 1], x[i - 1])
    BY <2>1, <2>2, <2>3
  <2> QED
    BY <2>1, <2>4
<1>5. Solves(acc)
  <2> HIDE DEF Solves
  <2> QED
    BY <1>4
<1>6. LeftSum(x) = acc[n]
  <2>1. Size(x) = n
    BY SizeIs DEF Vec
  <2> QED
    BY <2>1 DEF LeftSum
<1> HIDE DEF acc
<1>7. \A i \in 0 .. n : acc[i] \in Float
  <2> DEFINE Reached == {i \in 0 .. n : acc[i] \in Float}
  <2>1. 0 \in Reached
    BY <1>0, <1>5
  <2>2. ASSUME NEW i \in 0 .. n - 1, i \in Reached PROVE i + 1 \in Reached
    <3>1. i + 1 \in 1 .. n /\ (i + 1) - 1 = i
      OBVIOUS
    <3>2. acc[i + 1] = Add(acc[i], x[i])
      BY <1>5, <3>1
    <3> QED
      BY <1>0, <1>1, <2>2, <3>1, <3>2
  <2> HIDE DEF Reached
  <2>3. 0 .. n \subseteq Reached
    BY <2>1, <2>2, UpTo
  <2> QED
    BY <2>3 DEF Reached
<1> QED
  BY <1>6, <1>7

\* The largest of a set of values is the one that none of it exceeds.
LEMMA LargestIs ==
  ASSUME NEW S \in SUBSET Float, NEW a \in S, \A b \in S : ~Exceeds(b, a)
  PROVE  Largest(S) = a
<1>1. Largest(S) \in S /\ \A b \in S : ~Exceeds(b, Largest(S))
  BY DEF Largest
<1>2. ~Exceeds(a, Largest(S)) /\ ~Exceeds(Largest(S), a) /\ a \in Float /\ Largest(S) \in Float
  BY <1>1
<1> QED
  BY <1>2, FloatsAssumption

\* The value met last that exceeds all before it is the largest.
LEMMA MaxIs ==
  ASSUME NEW n \in Nat, n # 0, NEW s \in Vec(n)
  PROVE  V3!MaxSeq(s) = Largest({s[j] : j \in DOMAIN s}) /\ V3!MaxSeq(s) \in Float
<1> DEFINE Next1(a, b) == IF Exceeds(b, a) THEN b ELSE a
           Solves(g) == g = [j \in DOMAIN s |-> IF j = 0 THEN s[0] ELSE Next1(g[j - 1], s[j])]
           step == [u \in (1 .. n - 1) \X Float |-> Next1(u[2], s[u[1]])]
           max == CHOOSE g : Solves(g)
<1>1. DOMAIN s = 0 .. n - 1 /\ n - 1 \in Nat /\ s[0] \in Float /\ \A j \in 0 .. n - 1 : s[j] \in Float
  BY DEF Vec
<1>2. step \in StepTable(n - 1, Float)
  BY <1>1 DEF StepTable
<1>3. PICK g : Follows(g, n - 1, Float, s[0], step)
  <2> HIDE DEF step
  <2> QED
    BY <1>1, <1>2, RecursionExists
<1>4. Solves(g)
  <2>1. g = [j \in 0 .. n - 1 |-> g[j]] /\ g[0] = s[0]
    BY <1>3 DEF Follows
  <2>2. ASSUME NEW j \in 1 .. n - 1 PROVE g[j] = Next1(g[j - 1], s[j])
    <3>1. g[j - 1] \in Float /\ g[j] = step[<<j, g[j - 1]>>]
      <4> HIDE DEF step
      <4> QED
        BY <1>3 DEF Follows
    <3>2. <<j, g[j - 1]>> \in (1 .. n - 1) \X Float
      BY <3>1
    <3> QED
      BY <3>1, <3>2
  <2>3. \A j \in 0 .. n - 1 : j = 0 \/ j \in 1 .. n - 1
    OBVIOUS
  <2> HIDE DEF Next1
  <2>4. \A j \in 0 .. n - 1 : g[j] = IF j = 0 THEN s[0] ELSE Next1(g[j - 1], s[j])
    BY <2>1, <2>2, <2>3
  <2> QED
    BY <1>1, <2>1, <2>4
<1>5. Solves(max)
  <2> HIDE DEF Solves
  <2> QED
    BY <1>4
<1>6. V3!MaxSeq(s) = max[n - 1]
  <2>1. V3!Size(s) = n
    BY <1>1, SizeIs, SizesAre
  <2> QED
    BY <2>1 DEF V3!MaxSeq
<1> HIDE DEF max
<1> DEFINE Tops(j) == /\ max[j] \in {s[i] : i \in 0 .. j}
                      /\ \A i \in 0 .. j : ~Exceeds(s[i], max[j])
           Reached == {j \in 0 .. n - 1 : Tops(j)}
<1>7. 0 \in Reached
  BY <1>1, <1>5, FloatsAssumption
<1>8. ASSUME NEW j \in 0 .. (n - 1) - 1, j \in Reached PROVE j + 1 \in Reached
  <2>1. max[j + 1] = Next1(max[j], s[j + 1])
    BY <1>1, <1>5
  <2>2. /\ j + 1 \in 0 .. n - 1 /\ 0 .. j \subseteq 0 .. n - 1
        /\ \A i \in 0 .. j + 1 : i \in 0 .. j \/ i = j + 1
        /\ 0 .. j \subseteq 0 .. j + 1 /\ j + 1 \in 0 .. j + 1
    OBVIOUS
  <2>3. Tops(j) /\ max[j] \in Float /\ s[j + 1] \in Float
    BY <1>1, <1>8, <2>2
  <2>4. max[j + 1] \in {s[i] : i \in 0 .. j + 1}
    BY <2>1, <2>2, <2>3
  <2>5. ASSUME NEW i \in 0 .. j PROVE ~Exceeds(s[i], Next1(max[j], s[j + 1]))
    <3>1. s[i] \in Float /\ ~Exceeds(s[i], max[j])
      BY <1>1, <2>2, <2>3
    <3> QED
      BY <2>3, <3>1, FloatsAssumption
  <2>6. ~Exceeds(s[j + 1], Next1(max[j], s[j + 1]))
    BY <2>3, FloatsAssumption
  <2> QED
    BY <2>1, <2>2, <2>4, <2>5, <2>6
<1>9. Tops(n - 1)
  <2> HIDE DEF Reached
  <2>1. 0 .. n - 1 \subseteq Reached
    BY <1>1, <1>7, <1>8, UpTo
  <2> QED
    BY <1>1, <2>1 DEF Reached
<1> DEFINE S == {s[j] : j \in DOMAIN s}
<1>10. S \in SUBSET Float /\ max[n - 1] \in S /\ \A b \in S : ~Exceeds(b, max[n - 1])
  BY <1>1, <1>9
<1>11. Largest(S) = max[n - 1]
  <2> HIDE DEF S
  <2> QED
    BY <1>10, LargestIs
<1> QED
  BY <1>6, <1>10, <1>11

-----------------------------------------------------------------------------
\* Indices of rows of n: row o from o * n, and the row of an index.
LEMMA TimesMore ==
  ASSUME NEW a \in Nat, NEW b \in Nat, NEW n \in Nat, a <= b
  PROVE  a * n \in Nat /\ b * n \in Nat /\ a * n <= b * n
<1>1. a * n \in Nat /\ (b - a) * n \in Nat /\ b - a \in Nat
  OBVIOUS
<1>2. b * n = a * n + (b - a) * n
  OBVIOUS
<1> QED
  BY <1>1, <1>2

LEMMA RowIndex ==
  ASSUME NEW rows \in Nat, NEW n \in Nat, NEW o \in 0 .. rows - 1, NEW i \in 0 .. n - 1
  PROVE  o * n + i \in 0 .. rows * n - 1
<1>1. (o + 1) * n <= rows * n /\ o * n \in Nat /\ rows * n \in Nat /\ (o + 1) * n = o * n + n
  <2>1. o \in Nat /\ o + 1 \in Nat /\ o + 1 <= rows
    OBVIOUS
  <2> QED
    BY <2>1, TimesMore
<1> DEFINE a == o * n
           b == rows * n
<1>2. a \in Nat /\ b \in Nat /\ a + n <= b
  BY <1>1
<1> HIDE DEF a, b
<1>3. a + i \in 0 .. b - 1
  BY <1>2
<1> QED
  BY <1>3 DEF a, b

LEMMA IndexRow ==
  ASSUME NEW rows \in Nat, NEW n \in Nat, n # 0, NEW i \in 0 .. rows * n - 1
  PROVE  /\ i \div n \in 0 .. rows - 1
         /\ i % n \in 0 .. n - 1
         /\ i = (i \div n) * n + (i % n)
<1>1. i \in Nat /\ i < rows * n
  OBVIOUS
<1>2. i % n \in 0 .. n - 1 /\ i \div n \in Nat /\ i = (i \div n) * n + (i % n)
  BY <1>1
<1>3. i \div n < rows
  <2> SUFFICES ASSUME rows <= i \div n PROVE FALSE
    BY <1>2
  <2>1. rows * n <= (i \div n) * n
    BY <1>2, TimesMore
  <2> DEFINE a == rows * n
             b == (i \div n) * n
             r == i % n
  <2>2. a <= b /\ i = b + r /\ r \in Nat /\ i < a /\ a \in Nat /\ b \in Nat
    BY <1>1, <1>2, <2>1
  <2> HIDE DEF a, b, r
  <2> QED
    BY <2>2
<1> QED
  BY <1>2, <1>3

LEMMA RowOf ==
  ASSUME NEW n \in Nat, n # 0, NEW o \in Nat, NEW i \in 0 .. n - 1
  PROVE  (o * n + i) \div n = o /\ (o * n + i) % n = i
<1> DEFINE x == o * n + i
           q == x \div n
           r == x % n
<1>1. x \in Nat /\ q \in Nat /\ r \in 0 .. n - 1 /\ x = q * n + r
  BY TimesMore
<1>2. o * n + i = q * n + r
  BY <1>1
<1> HIDE DEF q, r
<1>3. ~(o < q)
  <2> SUFFICES ASSUME o < q PROVE FALSE
    OBVIOUS
  <2>1. (o + 1) * n <= q * n /\ (o + 1) * n = o * n + n
    BY <1>1, TimesMore
  <2> DEFINE a == o * n
             b == q * n
  <2>2. a + n <= b /\ a + i = b + r /\ a \in Nat /\ b \in Nat
    BY <1>1, <1>2, <2>1, TimesMore
  <2> HIDE DEF a, b
  <2> QED
    BY <1>1, <2>2
<1>4. ~(q < o)
  <2> SUFFICES ASSUME q < o PROVE FALSE
    OBVIOUS
  <2>1. (q + 1) * n <= o * n /\ (q + 1) * n = q * n + n
    BY <1>1, TimesMore
  <2> DEFINE a == o * n
             b == q * n
  <2>2. b + n <= a /\ a + i = b + r /\ a \in Nat /\ b \in Nat
    BY <1>1, <1>2, <2>1, TimesMore
  <2> HIDE DEF a, b
  <2> QED
    BY <1>1, <2>2
<1>5. q = o
  BY <1>1, <1>3, <1>4
<1> QED
  BY <1>1, <1>2, <1>5 DEF q, r

-----------------------------------------------------------------------------
\* The operations on vectors are on vectors of values.
LEMMA VecIs ==
  ASSUME NEW n \in Nat, NEW x \in Vec(n)
  PROVE  /\ DOMAIN x = 0 .. n - 1 /\ Size(x) = n
         /\ \A i \in 0 .. n - 1 : x[i] \in Float
BY SizeIs DEF Vec

LEMMA SumsVec ==
  ASSUME NEW n \in Nat, NEW x \in Vec(n), NEW y \in Vec(n)
  PROVE  Sums(x, y) \in Vec(n)
<1>1. \A i \in 0 .. n - 1 : Add(x[i], y[i]) \in Float
  BY VecIs, FloatsAssumption
<1> QED
  BY <1>1, VecIs, ArrayIs DEF Sums, Vec

LEMMA ProductsVec ==
  ASSUME NEW n \in Nat, NEW x \in Vec(n), NEW y \in Vec(n)
  PROVE  Products(x, y) \in Vec(n)
<1>1. \A i \in 0 .. n - 1 : Mul(x[i], y[i]) \in Float
  BY VecIs, FloatsAssumption
<1> QED
  BY <1>1, VecIs DEF Products, Vec

LEMMA RowVec ==
  ASSUME NEW rows \in Nat, NEW n \in Nat, NEW w \in Vec(rows * n), NEW o \in 0 .. rows - 1
  PROVE  MatrixRow(w, o, n) \in Vec(n)
<1>1. \A i \in 0 .. n - 1 : w[o * n + i] \in Float
  <2> TAKE i \in 0 .. n - 1
  <2> DEFINE m == rows * n
             at == o * n + i
  <2>1. m \in Nat
    BY TimesMore
  <2>2. at \in 0 .. m - 1
    BY RowIndex
  <2>3. w \in Vec(m)
    OBVIOUS
  <2> HIDE DEF m, at
  <2>4. w[at] \in Float
    BY <2>1, <2>2, <2>3 DEF Vec
  <2> QED
    BY <2>4 DEF at
<1> DEFINE v(i) == w[o * n + i]
<1>2. MatrixRow(w, o, n) = [i \in 0 .. n - 1 |-> v(i)]
  BY DEF MatrixRow, Array
<1>3. \A i \in 0 .. n - 1 : v(i) \in Float
  BY <1>1
<1> HIDE DEF v
<1> QED
  BY <1>2, <1>3 DEF Vec

LEMMA TimesExactVec ==
  ASSUME NEW rows \in Nat, NEW n \in Nat, NEW w \in Vec(rows * n), NEW x \in Vec(n)
  PROVE  TimesExact(w, rows, x) \in Vec(rows)
<1>1. \A o \in 0 .. rows - 1 : LeftSum(Products(MatrixRow(w, o, n), x)) \in Float
  BY RowVec, ProductsVec, SumsTo
<1> QED
  BY <1>1, VecIs, ArrayIs DEF TimesExact, Vec

LEMMA NormedVec ==
  ASSUME NEW n \in Nat, n <= MaxInt, NEW x \in Vec(n), NEW gain \in Vec(n), NEW eps \in Float
  PROVE  Normed(x, gain, eps) \in Vec(n)
<1> DEFINE inv == Rsqrt(Add(Div(LeftSum(Products(x, x)), FromInt(n)), eps))
<1>1. FromInt(n) \in Float /\ LeftSum(Products(x, x)) \in Float
  <2>1. n \in -MaxInt .. MaxInt
    BY FloatsAssumption
  <2> QED
    BY <2>1, ProductsVec, SumsTo, FloatsAssumption
<1>2. inv \in Float
  BY <1>1, FloatsAssumption
<1> HIDE DEF inv
<1>3. \A i \in 0 .. n - 1 : Mul(Mul(x[i], inv), gain[i]) \in Float
  BY <1>2, VecIs, FloatsAssumption
<1>4. Normed(x, gain, eps) = [i \in 0 .. n - 1 |-> Mul(Mul(x[i], inv), gain[i])]
  BY VecIs, ArrayIs DEF Normed, inv
<1> QED
  BY <1>3, <1>4 DEF Vec

LEMMA GatedVec ==
  ASSUME NEW n \in Nat, NEW x \in Vec(n), NEW y \in Vec(n)
  PROVE  Gated(x, y) \in Vec(n)
<1>1. \A i \in 0 .. n - 1 : Mul(Silu(x[i]), y[i]) \in Float
  BY VecIs, FloatsAssumption
<1> QED
  BY <1>1, VecIs, ArrayIs DEF Gated, Vec

LEMMA SoftmaxVec ==
  ASSUME NEW n \in Nat, n # 0, NEW s \in Vec(n)
  PROVE  Softmax(s) \in Vec(n)
<1> DEFINE top == Largest({s[j] : j \in DOMAIN s})
           e == ExpsBelow(s, top)
           total == LeftSum(e)
<1>1. top \in Float
  BY MaxIs
<1>2. e \in Vec(n)
  <2> HIDE DEF top
  <2>1. \A j \in 0 .. n - 1 : Exp(Sub(s[j], top)) \in Float
    BY <1>1, VecIs, FloatsAssumption DEF Sub
  <2> QED
    BY <2>1, VecIs, ArrayIs DEF ExpsBelow, Vec
<1> HIDE DEF e
<1>3. total \in Float
  BY <1>2, SumsTo
<1>4. Parts(e, total) \in Vec(n)
  <2> HIDE DEF total
  <2>1. \A j \in 0 .. n - 1 : Div(e[j], total) \in Float
    BY <1>2, <1>3, VecIs, FloatsAssumption
  <2> QED
    BY <1>2, <2>1, VecIs, ArrayIs DEF Parts, Vec
<1> QED
  BY <1>4 DEF Softmax, Whole, e, total

-----------------------------------------------------------------------------
\* The INT8 program's scale is the step of the formula: the largest magnitude,
\* met in order, and 1 for a vector of zeros.
LEMMA ScaleIs ==
  ASSUME NEW n \in Nat, NEW x \in Vec(n)
  PROVE  Batch!Scale(x) = StepOf(Largest(Magnitudes(x))) /\ Batch!Scale(x) \in Float
<1> DEFINE Next1(a, b) == IF Exceeds(Abs(b), a) THEN Abs(b) ELSE a
           Solves(g) == g = [i \in 0 .. n |-> IF i = 0 THEN Zero ELSE Next1(g[i - 1], x[i - 1])]
           step == [u \in (1 .. n) \X Float |-> Next1(u[2], x[u[1] - 1])]
           max == CHOOSE g : Solves(g)
<1>0. Zero \in Float /\ \A a \in Float : Abs(a) \in Float
  BY FloatsAssumption
<1>1. \A i \in 1 .. n : x[i - 1] \in Float
  BY VecIs
<1>2. step \in StepTable(n, Float)
  BY <1>0, <1>1 DEF StepTable
<1>3. PICK g : Follows(g, n, Float, Zero, step)
  <2> HIDE DEF step
  <2> QED
    BY <1>0, <1>2, RecursionExists
<1>4. Solves(g)
  <2>1. g = [i \in 0 .. n |-> g[i]] /\ g[0] = Zero
    BY <1>3 DEF Follows
  <2>2. ASSUME NEW i \in 1 .. n PROVE g[i] = Next1(g[i - 1], x[i - 1])
    <3>1. g[i - 1] \in Float /\ g[i] = step[<<i, g[i - 1]>>]
      <4> HIDE DEF step
      <4> QED
        BY <1>3 DEF Follows
    <3>2. <<i, g[i - 1]>> \in (1 .. n) \X Float
      BY <3>1
    <3> QED
      BY <3>1, <3>2
  <2>3. \A i \in 0 .. n : i = 0 \/ i \in 1 .. n
    OBVIOUS
  <2> HIDE DEF Next1
  <2>4. \A i \in 0 .. n : g[i] = IF i = 0 THEN Zero ELSE Next1(g[i - 1], x[i - 1])
    BY <2>1, <2>2, <2>3
  <2> QED
    BY <2>1, <2>4
<1>5. Solves(max)
  <2> HIDE DEF Solves
  <2> QED
    BY <1>4
<1>6. Batch!Scale(x) = IF Exceeds(max[n], Zero) THEN Div(max[n], FromInt(127)) ELSE FromInt(1)
  <2>1. Batch!Size(x) = n
    BY VecIs, SizesAre
  <2> QED
    BY <2>1 DEF Batch!Scale
<1> HIDE DEF max
<1> DEFINE Seen(j) == {Abs(x[i]) : i \in 0 .. j - 1} \cup {Zero}
           Tops(j) == max[j] \in Seen(j) /\ \A b \in Seen(j) : ~Exceeds(b, max[j])
           Reached == {j \in 0 .. n : Tops(j)}
<1>7. 0 \in Reached
  BY <1>0, <1>5, FloatsAssumption
<1>8. ASSUME NEW j \in 0 .. n - 1, j \in Reached PROVE j + 1 \in Reached
  <2>1. max[j + 1] = Next1(max[j], x[j])
    BY <1>5
  <2>2. j + 1 \in 0 .. n /\ j + 1 \in 1 .. n /\ (j + 1) - 1 = j
    OBVIOUS
  <2>3. Seen(j + 1) = Seen(j) \cup {Abs(x[j])}
    <3>1. \A i : i \in 0 .. (j + 1) - 1 <=> i \in 0 .. j - 1 \/ i = j
      OBVIOUS
    <3> QED
      BY <3>1
  <2>4. Seen(j) \in SUBSET Float /\ Abs(x[j]) \in Float
    <3>1. \A i \in 0 .. j : x[i] \in Float
      BY VecIs
    <3> QED
      BY <1>0, <3>1
  <2> DEFINE S == Seen(j)
             a == max[j]
             b == Abs(x[j])
  <2>5. a \in S /\ \A d \in S : ~Exceeds(d, a)
    BY <1>8
  <2>6. max[j + 1] = IF Exceeds(b, a) THEN b ELSE a
    BY <2>1
  <2> HIDE DEF S, a, b
  <2>7. S \in SUBSET Float /\ b \in Float /\ a \in Float
    BY <2>4, <2>5 DEF S, b
  <2>8. max[j + 1] \in S \cup {b} /\ \A d \in S \cup {b} : ~Exceeds(d, max[j + 1])
    BY <2>5, <2>6, <2>7, FloatsAssumption
  <2>9. Tops(j + 1)
    BY <2>3, <2>8 DEF S, b
  <2> QED
    BY <2>2, <2>9
<1>9. Tops(n)
  <2> HIDE DEF Reached
  <2>1. 0 .. n \subseteq Reached
    BY <1>7, <1>8, UpTo
  <2> QED
    BY <2>1 DEF Reached
<1> DEFINE top == max[n]
           S == Magnitudes(x)
<1>10. S = Seen(n)
  BY VecIs DEF Magnitudes
<1>11. S \in SUBSET Float
  BY <1>0, <1>10, VecIs
<1>12. top \in S /\ Zero \in S /\ \A b \in S : ~Exceeds(b, top)
  BY <1>9, <1>10
<1> HIDE DEF top, S
<1>13. Largest(S) = top
  BY <1>11, <1>12, LargestIs
<1>14. Exceeds(top, Zero) <=> top # Zero
  BY <1>11, <1>12, FloatsAssumption
<1>15. FromInt(1) \in Float /\ FromInt(127) \in Float /\ top \in Float
  <2>1. 1 \in -MaxInt .. MaxInt /\ 127 \in -MaxInt .. MaxInt
    BY FloatsAssumption
  <2> QED
    BY <1>11, <1>12, <2>1, FloatsAssumption
<1>16. Batch!Scale(x) = StepOf(top)
  BY <1>6, <1>14 DEF StepOf, top
<1>17. StepOf(top) \in Float
  BY <1>15, FloatsAssumption DEF StepOf
<1> QED
  BY <1>13, <1>16, <1>17 DEF S

\* A vector in steps: the levels fit in 8 bits.
Levels == -127 .. 127
Rounded(n) == [step : Float, levels : [0 .. n - 1 -> Levels]]

LEMMA RoundedIs ==
  ASSUME NEW n \in Nat, NEW r \in Rounded(n)
  PROVE  /\ r.step \in Float /\ DOMAIN r.levels = 0 .. n - 1 /\ Size(r.levels) = n
         /\ \A i \in 0 .. n - 1 : r.levels[i] \in Levels
<1>1. DOMAIN r.levels = 0 .. n - 1
  BY DEF Rounded
<1> QED
  BY <1>1, SizeIs DEF Rounded

LEMMA InStepsIs ==
  ASSUME NEW n \in Nat, NEW x \in Vec(n)
  PROVE  /\ InSteps(x) \in Rounded(n)
         /\ Batch!QuantizeVec(x) = [q |-> InSteps(x).levels, scale |-> InSteps(x).step]
<1> DEFINE step == StepOf(Largest(Magnitudes(x)))
           levels == [i \in 0 .. n - 1 |-> Level(Lround(Div(x[i], step)))]
<1>1. step \in Float /\ Batch!Scale(x) = step
  BY ScaleIs
<1> HIDE DEF step
<1>2. \A i \in 0 .. n - 1 : Lround(Div(x[i], step)) \in Int
  BY <1>1, VecIs, FloatsAssumption
<1>3. InSteps(x) = [step |-> step, levels |-> levels]
  BY VecIs, ArrayIs DEF InSteps, Stepped, step
<1>4. \A i \in Int : Level(i) \in Levels /\ Batch!ClampI8(i) = Level(i)
  BY DEF Level, Levels, Batch!ClampI8
<1>5. levels \in [0 .. n - 1 -> Levels]
  BY <1>2, <1>4
<1>6. Batch!QuantizeVec(x) = [q |-> levels, scale |-> step]
  <2>1. Batch!QuantizeVec(x)
        = [q |-> [i \in DOMAIN x |-> Batch!ClampI8(Lround(Div(x[i], step)))], scale |-> step]
    BY <1>1 DEF Batch!QuantizeVec, Batch!Quantized, Batch!Array
  <2> QED
    BY <1>2, <1>4, <2>1, VecIs
<1> HIDE DEF levels
<1>7. [step |-> step, levels |-> levels] \in Rounded(n)
  BY <1>1, <1>5 DEF Rounded
<1> QED
  BY <1>3, <1>6, <1>7

\* The product of two levels, and the sum of n of them.
Bounded(b) == -b .. b

LEMMA LevelsProduct ==
  ASSUME NEW u \in Levels, NEW v \in Levels
  PROVE  u * v \in Bounded(127 * 127) /\ u * v \in Int
<1>1. ASSUME NEW a \in Nat, NEW b \in Nat, NEW m \in Nat, a <= m, b <= m PROVE a * b \in Nat /\ a * b <= m * m
  <2>1. a * b <= m * b /\ a * b \in Nat /\ m * b \in Nat
    BY <1>1, TimesMore
  <2>2. b * m <= m * m
    BY <1>1, TimesMore
  <2> QED
    BY <2>1, <2>2
<1>2. u \in Int /\ v \in Int /\ u <= 127 /\ -127 <= u /\ v <= 127 /\ -127 <= v
  BY DEF Levels
<1> DEFINE m == 127
           a == IF u < 0 THEN -u ELSE u
           b == IF v < 0 THEN -v ELSE v
<1>3. a \in Nat /\ b \in Nat /\ m \in Nat /\ a <= m /\ b <= m
  BY <1>2
<1>4. u * v = a * b \/ u * v = -(a * b)
  BY <1>2
<1> HIDE DEF a, b, m
<1>5. a * b \in Nat /\ a * b <= m * m /\ m * m \in Nat
  BY <1>1, <1>3
<1>6. u * v \in Bounded(m * m)
  BY <1>4, <1>5 DEF Bounded
<1> QED
  BY <1>2, <1>6 DEF m

LEMMA BoundedSum ==
  ASSUME NEW m \in Nat, NEW i \in Nat, NEW a \in Bounded(m * i), NEW b \in Bounded(m)
  PROVE  a + b \in Bounded(m * (i + 1))
<1> DEFINE x == m * i
<1>1. x \in Nat /\ m * (i + 1) = x + m /\ a \in -x .. x
  BY DEF Bounded
<1> HIDE DEF x
<1> QED
  BY <1>1 DEF Bounded

\* The product of rounded vectors: its sum of integers is one that is converted.
LEMMA RoundedDotIn ==
  ASSUME NEW n \in Nat, 127 * 127 * n <= MaxInt, NEW a \in Rounded(n), NEW b \in Rounded(n)
  PROVE  RoundedDot(a, b) \in Float
<1> DEFINE x == a.levels
           y == b.levels
           Solves(g) == g = [i \in 0 .. n |-> IF i = 0 THEN 0 ELSE g[i - 1] + x[i - 1] * y[i - 1]]
           Ints == Int
           step == [u \in (1 .. n) \X Ints |-> u[2] + x[u[1] - 1] * y[u[1] - 1]]
           s == CHOOSE g : Solves(g)
           m == 127 * 127
<1>0. \A i \in 0 .. n - 1 : x[i] \in Levels /\ y[i] \in Levels
  BY RoundedIs
<1>00. RoundedDot(a, b) = Mul(Mul(FromInt(s[n]), a.step), b.step)
  BY RoundedIs DEF RoundedDot
<1>01. m \in Nat /\ m * n <= MaxInt /\ \A u, v \in Levels : u * v \in Bounded(m) /\ u * v \in Int
  BY LevelsProduct
<1> HIDE DEF x, y, m
<1>1. ASSUME NEW i \in 1 .. n PROVE x[i - 1] * y[i - 1] \in Bounded(m) /\ x[i - 1] * y[i - 1] \in Int
  <2>1. i - 1 \in 0 .. n - 1
    OBVIOUS
  <2>2. x[i - 1] \in Levels /\ y[i - 1] \in Levels
    BY <1>0, <2>1
  <2> QED
    BY <1>01, <2>2
<1>2. step \in StepTable(n, Ints)
  BY <1>1 DEF StepTable
<1>3. PICK g : Follows(g, n, Ints, 0, step)
  <2>1. 0 \in Ints
    OBVIOUS
  <2> HIDE DEF step, Ints
  <2> QED
    BY <1>2, <2>1, RecursionExists
<1>4. Solves(g)
  <2>1. g = [i \in 0 .. n |-> g[i]] /\ g[0] = 0
    BY <1>3 DEF Follows
  <2>2. ASSUME NEW i \in 1 .. n PROVE g[i] = g[i - 1] + x[i - 1] * y[i - 1]
    <3>1. g[i - 1] \in Ints /\ g[i] = step[<<i, g[i - 1]>>]
      <4> HIDE DEF step
      <4> QED
        BY <1>3 DEF Follows
    <3>2. <<i, g[i - 1]>> \in (1 .. n) \X Ints
      BY <3>1
    <3> HIDE DEF Ints
    <3> QED
      BY <3>1, <3>2
  <2>3. \A i \in 0 .. n : i = 0 \/ i \in 1 .. n
    OBVIOUS
  <2>4. \A i \in 0 .. n : g[i] = IF i = 0 THEN 0 ELSE g[i - 1] + x[i - 1] * y[i - 1]
    BY <2>1, <2>2, <2>3
  <2> QED
    BY <2>1, <2>4
<1>5. Solves(s)
  <2> HIDE DEF Solves
  <2> QED
    BY <1>4
<1> HIDE DEF s
<1> DEFINE Reached == {i \in 0 .. n : s[i] \in Bounded(m * i)}
<1>7. 0 \in Reached
  BY <1>01, <1>5 DEF Bounded
<1>8. ASSUME NEW i \in 0 .. n - 1, i \in Reached PROVE i + 1 \in Reached
  <2>1. i + 1 \in 1 .. n /\ i + 1 \in 0 .. n /\ (i + 1) - 1 = i
    OBVIOUS
  <2> DEFINE d == x[i] * y[i]
  <2>2. s[i + 1] = s[i] + d
    BY <1>5, <2>1
  <2>3. d \in Bounded(m)
    BY <1>1, <2>1
  <2> HIDE DEF d
  <2>4. s[i] \in Bounded(m * i)
    BY <1>8
  <2>5. s[i + 1] \in Bounded(m * (i + 1))
    BY <1>01, <2>2, <2>3, <2>4, BoundedSum
  <2> QED
    BY <2>1, <2>5
<1>9. s[n] \in -MaxInt .. MaxInt
  <2> HIDE DEF Reached
  <2>1. 0 .. n \subseteq Reached
    BY <1>7, <1>8, UpTo
  <2>2. s[n] \in Bounded(m * n)
    BY <2>1 DEF Reached
  <2> QED
    BY <1>01, <2>2, FloatsAssumption DEF Bounded
<1>10. FromInt(s[n]) \in Float /\ a.step \in Float /\ b.step \in Float
  BY <1>9, RoundedIs, FloatsAssumption
<1> QED
  BY <1>00, <1>10, FloatsAssumption

LEMMA TimesRoundedVec ==
  ASSUME NEW rows \in Nat, NEW n \in Nat, 127 * 127 * n <= MaxInt,
         NEW w \in Vec(rows * n), NEW r \in Rounded(n)
  PROVE  TimesRounded(w, rows, n, r) \in Vec(rows)
<1>1. \A o \in 0 .. rows - 1 : RoundedDot(InSteps(MatrixRow(w, o, n)), r) \in Float
  BY RowVec, InStepsIs, RoundedDotIn
<1> QED
  BY <1>1, ArrayIs DEF TimesRounded, Vec

LEMMA TimesVec ==
  ASSUME NEW num, NEW rows \in Nat, NEW n \in Nat, 127 * 127 * n <= MaxInt,
         NEW w \in Vec(rows * n), NEW x \in Vec(n)
  PROVE  Times(num, w, rows, x) \in Vec(rows)
<1>1. TimesExact(w, rows, x) \in Vec(rows)
  BY TimesExactVec
<1>2. TimesRounded(w, rows, n, InSteps(x)) \in Vec(rows)
  BY InStepsIs, TimesRoundedVec
<1>3. Size(x) = n
  BY VecIs
<1> QED
  BY <1>1, <1>2, <1>3 DEF Times

-----------------------------------------------------------------------------
\* The sizes of a checkpoint that cis2-verify loads: heads of an even size, and
\* as many query heads on each key.
HeadSize(k) == k.hidden \div k.n_heads
GroupOf(k) == k.n_heads \div k.n_kv_heads
KeySize(k) == k.n_kv_heads * HeadSize(k)

SizesFit(k) ==
  /\ k.hidden \in Nat /\ k.hidden # 0 /\ k.inter \in Nat /\ k.vocab \in Nat /\ k.n_layers \in Nat
  /\ k.n_heads \in Nat /\ k.n_heads # 0 /\ k.n_kv_heads \in Nat /\ k.n_kv_heads # 0
  /\ HeadSize(k) \in Nat /\ HeadSize(k) # 0 /\ k.hidden = k.n_heads * HeadSize(k)
  /\ GroupOf(k) \in Nat /\ GroupOf(k) # 0 /\ k.n_heads = k.n_kv_heads * GroupOf(k)
  /\ HeadSize(k) \div 2 \in Nat /\ HeadSize(k) = 2 * (HeadSize(k) \div 2)
  /\ KeySize(k) \in Nat /\ KeySize(k) # 0
  /\ 127 * 127 * k.hidden <= MaxInt /\ 127 * 127 * k.inter <= MaxInt
  /\ k.eps \in Float /\ k.theta \in Float

LayerFits(k, w) ==
  /\ w["ln1"].data \in Vec(k.hidden) /\ w["ln2"].data \in Vec(k.hidden)
  /\ w["q"].data \in Vec(k.hidden * k.hidden)
  /\ w["k"].data \in Vec(KeySize(k) * k.hidden) /\ w["v"].data \in Vec(KeySize(k) * k.hidden)
  /\ w["o"].data \in Vec(k.hidden * k.hidden)
  /\ w["gate"].data \in Vec(k.inter * k.hidden) /\ w["up"].data \in Vec(k.inter * k.hidden)
  /\ w["down"].data \in Vec(k.hidden * k.inter)
  /\ "q_bias" \in DOMAIN w => w["q_bias"].data \in Vec(k.hidden)
  /\ "k_bias" \in DOMAIN w => w["k_bias"].data \in Vec(KeySize(k))
  /\ "v_bias" \in DOMAIN w => w["v_bias"].data \in Vec(KeySize(k))

LayersFit(k) ==
  /\ DOMAIN k.layers = 0 .. k.n_layers - 1
  /\ \A l \in 0 .. k.n_layers - 1 : LayerFits(k, k.layers[l])

HeadFits(k) ==
  /\ k.tied \in BOOLEAN
  /\ k.tensors["embed"].data \in Vec(k.vocab * k.hidden)
  /\ k.tensors["norm"].data \in Vec(k.hidden)
  /\ k.tied <=> "lm_head" \notin DOMAIN k.tensors
  /\ ~k.tied => k.tensors["lm_head"].data \in Vec(k.vocab * k.hidden)

LEMMA EvenDivision ==
  ASSUME NEW a \in Nat, a # 0, NEW b \in Nat, b # 0, a % b = 0
  PROVE  a \div b \in Nat /\ a \div b # 0 /\ a = b * (a \div b)
<1>1. a \div b \in Nat /\ a = b * (a \div b) + (a % b)
  OBVIOUS
<1>2. a = b * (a \div b)
  BY <1>1, TimesMore
<1> QED
  BY <1>1, <1>2

LEMMA SoundSizes ==
  ASSUME NEW k, IsCheckpoint(k), CV!Loads(k), k.hidden # 0
  PROVE  SizesFit(k)
<1> DEFINE hd == HeadSize(k)
           g == GroupOf(k)
<1>1. /\ k.hidden \in Nat /\ k.hidden # 0 /\ k.inter \in Nat /\ k.vocab \in Nat /\ k.n_layers \in Nat
      /\ k.n_heads \in Nat /\ k.n_heads # 0 /\ k.n_kv_heads \in Nat /\ k.n_kv_heads # 0
  BY DEF IsCheckpoint, CV!Loads, CV!Check
<1>2. k.hidden % k.n_heads = 0 /\ k.n_heads % k.n_kv_heads = 0 /\ hd % 2 = 0
  BY DEF CV!Loads, CV!Check, CV!HeadDim, HeadSize
<1>3. hd \in Nat /\ hd # 0 /\ k.hidden = k.n_heads * hd
  BY <1>1, <1>2, EvenDivision DEF HeadSize
<1>4. g \in Nat /\ g # 0 /\ k.n_heads = k.n_kv_heads * g
  BY <1>1, <1>2, EvenDivision DEF GroupOf
<1>5. hd \div 2 \in Nat /\ hd = 2 * (hd \div 2)
  <2> HIDE DEF hd
  <2> QED
    BY <1>2, <1>3
<1>6. KeySize(k) \in Nat /\ KeySize(k) # 0
  <2> DEFINE b == k.n_kv_heads
  <2>1. b \in Nat /\ b # 0
    BY <1>1
  <2> HIDE DEF b, hd
  <2>2. 1 * hd <= b * hd /\ b * hd \in Nat
    BY <1>3, <2>1, TimesMore
  <2>3. b * hd \in Nat /\ b * hd # 0
    BY <1>3, <2>2
  <2> QED
    BY <2>3 DEF KeySize, b, hd
<1>7. /\ 127 * 127 * k.hidden <= MaxInt /\ 127 * 127 * k.inter <= MaxInt
      /\ k.eps \in Float /\ k.theta \in Float
  BY DEF IsCheckpoint
<1> QED
  BY <1>1, <1>3, <1>4, <1>5, <1>6, <1>7 DEF SizesFit

LEMMA ShapedVec ==
  ASSUME NEW t, IsTensor(t), NEW a \in Nat, NEW b \in Nat
  PROVE  /\ CV!SameShape(t, <<a>>) => t.data \in Vec(a)
         /\ CV!SameShape(t, <<a, b>>) => t.data \in Vec(a * b)
<1>1. ASSUME t.shape = <<a>> PROVE Numel(t.shape) = a
  BY <1>1 DEF Numel
<1>2. ASSUME t.shape = <<a, b>> PROVE Numel(t.shape) = a * b
  BY <1>2 DEF Numel
<1>3. t.data \in Vec(Numel(t.shape))
  BY DEF IsTensor, Vec
<1> QED
  BY <1>1, <1>2, <1>3 DEF CV!SameShape

LEMMA SoundLayers ==
  ASSUME NEW k, IsCheckpoint(k), CV!Loads(k), SizesFit(k)
  PROVE  LayersFit(k)
<1>1. DOMAIN k.layers = 0 .. k.n_layers - 1
  BY DEF IsCheckpoint
<1>2. ASSUME NEW l \in 0 .. k.n_layers - 1
      PROVE  LayerFits(k, k.layers[l])
  <2> DEFINE w == k.layers[l]
             kv == KeySize(k)
             shapes == CV!LayerShapes(k, kv)
             biases == CV!BiasShapes(k, kv)
  <2>1. \A n \in DOMAIN w : IsTensor(w[n])
    BY <1>1 DEF IsCheckpoint
  <2>2. CV!AllFit(w, shapes, CV!SameShape) /\ CV!PresentFit(w, biases, CV!SameShape)
    BY <1>1 DEF CV!Loads, CV!KvWidth, CV!HeadDim, KeySize, HeadSize
  <2>3. k.hidden \in Nat /\ k.inter \in Nat /\ kv \in Nat
    BY DEF SizesFit
  <2> HIDE DEF w, kv
  <2>4. \A n \in DOMAIN shapes : IsTensor(w[n]) /\ CV!SameShape(w[n], shapes[n])
    BY <2>1, <2>2 DEF CV!AllFit
  <2>5. \A n \in DOMAIN biases : n \in DOMAIN w => IsTensor(w[n]) /\ CV!SameShape(w[n], biases[n])
    BY <2>1, <2>2 DEF CV!PresentFit
  <2>6. /\ IsTensor(w["ln1"]) /\ CV!SameShape(w["ln1"], <<k.hidden>>)
        /\ IsTensor(w["ln2"]) /\ CV!SameShape(w["ln2"], <<k.hidden>>)
        /\ IsTensor(w["q"]) /\ CV!SameShape(w["q"], <<k.hidden, k.hidden>>)
        /\ IsTensor(w["k"]) /\ CV!SameShape(w["k"], <<kv, k.hidden>>)
        /\ IsTensor(w["v"]) /\ CV!SameShape(w["v"], <<kv, k.hidden>>)
        /\ IsTensor(w["o"]) /\ CV!SameShape(w["o"], <<k.hidden, k.hidden>>)
        /\ IsTensor(w["gate"]) /\ CV!SameShape(w["gate"], <<k.inter, k.hidden>>)
        /\ IsTensor(w["up"]) /\ CV!SameShape(w["up"], <<k.inter, k.hidden>>)
        /\ IsTensor(w["down"]) /\ CV!SameShape(w["down"], <<k.hidden, k.inter>>)
    BY <2>4 DEF CV!LayerShapes
  <2>7. /\ "q_bias" \in DOMAIN w => IsTensor(w["q_bias"]) /\ CV!SameShape(w["q_bias"], <<k.hidden>>)
        /\ "k_bias" \in DOMAIN w => IsTensor(w["k_bias"]) /\ CV!SameShape(w["k_bias"], <<kv>>)
        /\ "v_bias" \in DOMAIN w => IsTensor(w["v_bias"]) /\ CV!SameShape(w["v_bias"], <<kv>>)
    BY <2>5 DEF CV!BiasShapes
  <2> HIDE DEF shapes, biases
  <2>8. /\ w["ln1"].data \in Vec(k.hidden) /\ w["ln2"].data \in Vec(k.hidden)
        /\ w["q"].data \in Vec(k.hidden * k.hidden) /\ w["o"].data \in Vec(k.hidden * k.hidden)
    BY <2>3, <2>6, ShapedVec
  <2>9. w["k"].data \in Vec(kv * k.hidden) /\ w["v"].data \in Vec(kv * k.hidden)
    BY <2>3, <2>6, ShapedVec
  <2>10. /\ w["gate"].data \in Vec(k.inter * k.hidden) /\ w["up"].data \in Vec(k.inter * k.hidden)
         /\ w["down"].data \in Vec(k.hidden * k.inter)
    BY <2>3, <2>6, ShapedVec
  <2>11. /\ "q_bias" \in DOMAIN w => w["q_bias"].data \in Vec(k.hidden)
         /\ "k_bias" \in DOMAIN w => w["k_bias"].data \in Vec(kv)
         /\ "v_bias" \in DOMAIN w => w["v_bias"].data \in Vec(kv)
    BY <2>3, <2>7, ShapedVec
  <2> QED
    BY <2>8, <2>9, <2>10, <2>11 DEF LayerFits, w, kv
<1> QED
  BY <1>1, <1>2 DEF LayersFit

LEMMA SoundHead ==
  ASSUME NEW k, IsCheckpoint(k), CV!Loads(k), SizesFit(k)
  PROVE  HeadFits(k)
<1>1. \A n \in DOMAIN k.tensors : IsTensor(k.tensors[n])
  BY DEF IsCheckpoint
<1>2. k.hidden \in Nat /\ k.vocab \in Nat /\ k.tied \in BOOLEAN
  BY DEF SizesFit, IsCheckpoint
<1>3. /\ IsTensor(k.tensors["embed"]) /\ CV!SameShape(k.tensors["embed"], <<k.vocab, k.hidden>>)
      /\ IsTensor(k.tensors["norm"]) /\ CV!SameShape(k.tensors["norm"], <<k.hidden>>)
  <2>1. CV!AllFit(k.tensors, CV!GlobalShapes(k), CV!SameShape)
    BY DEF CV!Loads
  <2> QED
    BY <1>1, <2>1 DEF CV!AllFit, CV!GlobalShapes
<1>4. /\ k.tied => "lm_head" \notin DOMAIN k.tensors
      /\ ~k.tied => /\ "lm_head" \in DOMAIN k.tensors
                    /\ CV!SameShape(k.tensors["lm_head"], <<k.vocab, k.hidden>>)
  <2>1. IF k.tied THEN "lm_head" \notin DOMAIN k.tensors
        ELSE CV!AllFit(k.tensors, [lm_head |-> <<k.vocab, k.hidden>>], CV!SameShape)
    BY DEF CV!Loads
  <2>2. CASE k.tied
    BY <2>1, <2>2
  <2>3. CASE ~k.tied
    <3>1. CV!AllFit(k.tensors, [lm_head |-> <<k.vocab, k.hidden>>], CV!SameShape)
      BY <2>1, <2>3
    <3> QED
      BY <2>3, <3>1 DEF CV!AllFit
  <2> QED
    BY <2>2, <2>3
<1>5. k.tensors["embed"].data \in Vec(k.vocab * k.hidden) /\ k.tensors["norm"].data \in Vec(k.hidden)
  BY <1>2, <1>3, ShapedVec
<1>6. ~k.tied => k.tensors["lm_head"].data \in Vec(k.vocab * k.hidden)
  BY <1>1, <1>2, <1>4, ShapedVec
<1> QED
  BY <1>2, <1>4, <1>5, <1>6 DEF HeadFits

-----------------------------------------------------------------------------
\* The rows of the formula: what a position brings, and what it gets.
LEMMA LinearVec ==
  ASSUME NEW num, NEW k, SizesFit(k), NEW w, NEW name, NEW bias, NEW rows \in Nat,
         w[name].data \in Vec(rows * k.hidden),
         bias \in DOMAIN w => w[bias].data \in Vec(rows),
         NEW x \in Vec(k.hidden)
  PROVE  Linear(num, k, w, name, bias, rows, x) \in Vec(rows)
<1>1. Times(num, w[name].data, rows, x) \in Vec(rows)
  BY TimesVec DEF SizesFit
<1> QED
  BY <1>1, SumsVec DEF Linear

\* The partner of an element in its head, and the dimension of both.
Partner(i, hd, half) == IF i % hd < half THEN i + half ELSE i - half

LEMMA PartnerIs ==
  ASSUME NEW m \in Nat, NEW hd \in Nat, hd # 0, NEW half \in Nat, hd = 2 * half,
         NEW i \in 0 .. m * hd - 1
  PROVE  /\ Partner(i, hd, half) \in 0 .. m * hd - 1
         /\ (i % hd) % half \in 0 .. half - 1
         /\ i % hd < half => (i % hd) % half = i % hd
         /\ ~(i % hd < half) => (i % hd) % half = (i % hd) - half
<1> DEFINE o == i \div hd
           r == i % hd
<1>1. o \in 0 .. m - 1 /\ r \in 0 .. hd - 1 /\ i = o * hd + r
  BY IndexRow
<1>2. Partner(i, hd, half) = IF r < half THEN i + half ELSE i - half
  BY DEF Partner
<1> HIDE DEF o, r
<1>3. CASE r < half
  <2>1. r + half \in 0 .. hd - 1
    BY <1>1, <1>3
  <2>2. o * hd + (r + half) \in 0 .. m * hd - 1
    BY <1>1, <2>1, RowIndex
  <2> DEFINE a == o * hd
  <2>3. a \in Nat
    BY <1>1, TimesMore
  <2>4. i + half = a + (r + half)
    <3> HIDE DEF a
    <3>1. i = a + r
      BY <1>1 DEF a
    <3> QED
      BY <1>1, <2>3, <3>1
  <2>5. r % half = r
    BY <1>1, <1>3
  <2> QED
    BY <1>1, <1>2, <1>3, <2>2, <2>4, <2>5 DEF r
<1>4. CASE ~(r < half)
  <2>1. r - half \in 0 .. hd - 1 /\ r - half \in 0 .. half - 1
    BY <1>1, <1>4
  <2>2. o * hd + (r - half) \in 0 .. m * hd - 1
    BY <1>1, <2>1, RowIndex
  <2> DEFINE a == o * hd
  <2>3. a \in Nat
    BY <1>1, TimesMore
  <2>4. i - half = a + (r - half)
    <3> HIDE DEF a
    <3>1. i = a + r
      BY <1>1 DEF a
    <3> QED
      BY <1>1, <2>3, <3>1
  <2>5. r % half = r - half
    <3>1. r = half + (r - half) /\ half # 0
      BY <1>1
    <3>2. (1 * half + (r - half)) % half = r - half
      BY <2>1, <3>1, RowOf
    <3> QED
      BY <1>1, <3>2
  <2> QED
    BY <1>1, <1>2, <1>4, <2>1, <2>2, <2>4, <2>5 DEF r
<1> QED
  BY <1>3, <1>4

LEMMA AngleIn ==
  ASSUME NEW k, SizesFit(k), NEW d \in 0 .. (HeadSize(k) \div 2) - 1, NEW p \in Nat, p <= MaxInt
  PROVE  Angle(k, HeadSize(k), d, p) \in Float
<1> DEFINE hd == HeadSize(k)
<1>1. hd \in Nat /\ hd <= k.hidden /\ k.hidden \in Nat
  <2>1. 1 * hd <= k.n_heads * hd
    BY TimesMore DEF SizesFit
  <2> QED
    BY <2>1 DEF SizesFit
<1>2. hd <= MaxInt
  <2>1. 127 * 127 * k.hidden <= MaxInt /\ MaxInt \in Nat
    BY FloatsAssumption DEF SizesFit
  <2> HIDE DEF hd
  <2> QED
    BY <1>1, <2>1
<1>3. 2 * d \in 0 .. hd
  BY DEF SizesFit
<1> HIDE DEF hd
<1>4. FromInt(2 * d) \in Float /\ FromInt(hd) \in Float /\ FromInt(p) \in Float
  <2>1. 2 * d \in -MaxInt .. MaxInt /\ hd \in -MaxInt .. MaxInt /\ p \in -MaxInt .. MaxInt
    BY <1>1, <1>2, <1>3, FloatsAssumption
  <2> QED
    BY <2>1, FloatsAssumption
<1>5. k.theta \in Float
  BY DEF SizesFit
<1> QED
  BY <1>4, <1>5, FloatsAssumption DEF Angle, hd

LEMMA TurnedVec ==
  ASSUME NEW k, SizesFit(k), NEW m \in Nat, NEW x \in Vec(m * HeadSize(k)), NEW p \in Nat, p <= MaxInt
  PROVE  Turned(k, x, p) \in Vec(m * HeadSize(k))
<1> DEFINE hd == HeadSize(k)
           half == hd \div 2
           n == m * hd
           At(i) == Turn(x[i], IF i % hd < half THEN Neg(x[i + half]) ELSE x[i - half],
                         Angle(k, hd, (i % hd) % half, p))
<1>1. hd \in Nat /\ hd # 0 /\ half \in Nat /\ hd = 2 * half
  BY DEF SizesFit
<1>2. n \in Nat
  BY <1>1, TimesMore
<1>3. Turned(k, x, p) = [i \in 0 .. n - 1 |-> At(i)]
  BY <1>2, VecIs, ArrayIs DEF Turned, HeadSize
<1>4. ASSUME NEW i \in 0 .. n - 1 PROVE At(i) \in Float
  <2> DEFINE angle == Angle(k, hd, (i % hd) % half, p)
             y == IF i % hd < half THEN Neg(x[i + half]) ELSE x[i - half]
  <2> HIDE DEF hd, half
  <2>1. angle \in Float
    <3>1. (i % hd) % half \in 0 .. half - 1
      BY <1>1, PartnerIs
    <3> QED
      BY <3>1, AngleIn DEF hd, half
  <2>2. Partner(i, hd, half) \in 0 .. n - 1
    BY <1>1, PartnerIs
  <2>3. x[i] \in Float /\ x[Partner(i, hd, half)] \in Float
    <3> HIDE DEF n
    <3>1. x \in Vec(n)
      BY DEF n, hd
    <3> QED
      BY <1>2, <2>2, <3>1, VecIs
  <2>4. y \in Float
    BY <2>3, FloatsAssumption DEF Partner
  <2> HIDE DEF y, angle
  <2>5. Turn(x[i], y, angle) \in Float
    BY <2>1, <2>3, <2>4, FloatsAssumption DEF Turn
  <2> QED
    BY <2>5 DEF y, angle
<1> HIDE DEF At
<1> QED
  BY <1>3, <1>4 DEF Vec

\* Query heads share the keys of the head of their group.
LEMMA SharedHeadIs ==
  ASSUME NEW k, SizesFit(k), NEW q \in 0 .. k.n_heads - 1
  PROVE  SharedHead(k, q) = q \div GroupOf(k) /\ q \div GroupOf(k) \in 0 .. k.n_kv_heads - 1
<1> DEFINE g == GroupOf(k)
           b == k.n_kv_heads
           o == q \div g
           r == q % g
<1>1. g \in Nat /\ g # 0 /\ b \in Nat /\ k.n_heads = b * g
  BY DEF SizesFit
<1>2. o \in 0 .. b - 1 /\ r \in 0 .. g - 1 /\ q = o * g + r
  BY <1>1, IndexRow
<1> DEFINE In(d) == q \in d * g .. (d + 1) * g - 1
<1>3. SharedHead(k, q) = CHOOSE d \in 0 .. b - 1 : In(d)
  BY DEF SharedHead, GroupOf
<1> HIDE DEF g, b, r, o
<1>4. In(o)
  <2> DEFINE a == o * g
  <2>1. a \in Nat /\ (o + 1) * g = a + g
    BY <1>1, <1>2, TimesMore
  <2>2. q \in a .. (a + g) - 1
    <3> HIDE DEF a
    <3>1. q = a + r
      BY <1>2 DEF a
    <3> QED
      BY <1>1, <1>2, <2>1, <3>1
  <2> QED
    BY <2>1, <2>2
<1>5. ASSUME NEW d \in 0 .. b - 1, In(d) PROVE d = o
  <2> DEFINE e == d * g
             s == q - e
  <2>1. e \in Nat /\ (d + 1) * g = e + g
    BY <1>1, TimesMore
  <2>2. s \in 0 .. g - 1 /\ q = e + s
    <3> HIDE DEF e
    <3>1. q \in e .. (e + g) - 1
      BY <1>5, <2>1 DEF e
    <3> QED
      BY <1>1, <2>1, <3>1
  <2>3. (d * g + s) \div g = d
    BY <1>1, <2>2, RowOf
  <2> QED
    BY <2>2, <2>3 DEF o
<1> HIDE DEF In
<1>6. (CHOOSE d \in 0 .. b - 1 : In(d)) = o
  BY <1>2, <1>4, <1>5
<1> QED
  BY <1>2, <1>3, <1>6 DEF o, g, b

-----------------------------------------------------------------------------
\* The keys or values that the first n positions brought.
Rows(n, size, K) == \A j \in 0 .. n - 1 : K[j] \in Vec(size)

LEMMA HeadIndex ==
  ASSUME NEW k, SizesFit(k), NEW q \in 0 .. k.n_heads - 1, NEW d \in 0 .. HeadSize(k) - 1
  PROVE  /\ q * HeadSize(k) + d \in 0 .. k.hidden - 1
         /\ SharedHead(k, q) * HeadSize(k) + d \in 0 .. KeySize(k) - 1
<1>1. q * HeadSize(k) + d \in 0 .. k.n_heads * HeadSize(k) - 1
  BY RowIndex DEF SizesFit
<1>2. SharedHead(k, q) * HeadSize(k) + d \in 0 .. k.n_kv_heads * HeadSize(k) - 1
  <2>1. SharedHead(k, q) \in 0 .. k.n_kv_heads - 1
    BY SharedHeadIs
  <2> QED
    BY <2>1, RowIndex DEF SizesFit
<1>3. k.n_heads * HeadSize(k) = k.hidden
  BY DEF SizesFit
<1> QED
  BY <1>1, <1>2, <1>3 DEF KeySize

LEMMA ScoreIn ==
  ASSUME NEW k, SizesFit(k), NEW q \in Vec(k.hidden), NEW y \in Vec(KeySize(k)),
         NEW n \in 0 .. k.n_heads - 1
  PROVE  Score(k, q, y, n, HeadSize(k)) \in Float
<1> DEFINE hd == HeadSize(k)
           x == [d \in 0 .. hd - 1 |-> Mul(q[n * hd + d], y[SharedHead(k, n) * hd + d])]
<1>1. k.hidden \in Nat /\ KeySize(k) \in Nat /\ hd \in Nat
  BY DEF SizesFit
<1>2. \A d \in 0 .. hd - 1 : q[n * hd + d] \in Float /\ y[SharedHead(k, n) * hd + d] \in Float
  BY <1>1, HeadIndex, VecIs
<1>3. x \in Vec(hd)
  BY <1>2, FloatsAssumption DEF Vec
<1>4. FromInt(hd) \in Float
  <2>1. hd <= k.hidden /\ 127 * 127 * k.hidden <= MaxInt /\ MaxInt \in Nat
    <3>1. 1 * hd <= k.n_heads * hd
      BY <1>1, TimesMore DEF SizesFit
    <3> QED
      BY <1>1, <3>1, FloatsAssumption DEF SizesFit
  <2> HIDE DEF hd
  <2>2. hd \in -MaxInt .. MaxInt
    BY <1>1, <2>1
  <2> QED
    BY <2>2, FloatsAssumption
<1>5. Score(k, q, y, n, hd) = Mul(LeftSum(x), Rsqrt(FromInt(hd)))
  BY DEF Score
<1> HIDE DEF x, hd
<1>6. LeftSum(x) \in Float
  BY <1>1, <1>3, SumsTo
<1>7. Mul(LeftSum(x), Rsqrt(FromInt(hd))) \in Float
  BY <1>4, <1>6, FloatsAssumption
<1> QED
  BY <1>5, <1>7 DEF hd

\* The scores of the first n positions for a query head.
ScoresOf(k, q, K, n, head) == [j \in 0 .. n - 1 |-> Score(k, q, K[j], head, HeadSize(k))]

LEMMA ScoresVec ==
  ASSUME NEW k, SizesFit(k), NEW q \in Vec(k.hidden), NEW n \in Nat, NEW K, Rows(n, KeySize(k), K),
         NEW head \in 0 .. k.n_heads - 1
  PROVE  ScoresOf(k, q, K, n, head) \in Vec(n)
<1>1. \A j \in 0 .. n - 1 : Score(k, q, K[j], head, HeadSize(k)) \in Float
  BY ScoreIn DEF Rows
<1> QED
  BY <1>1 DEF ScoresOf, Vec

LEMMA SelectIn ==
  ASSUME NEW k, SizesFit(k), NEW n \in Nat, NEW a \in Vec(n), NEW V, Rows(n, KeySize(k), V),
         NEW head \in 0 .. k.n_heads - 1, NEW d \in 0 .. HeadSize(k) - 1
  PROVE  Select(k, a, V, head, HeadSize(k), d) \in Float
<1> DEFINE at == SharedHead(k, head) * HeadSize(k) + d
           x == [j \in DOMAIN a |-> Mul(a[j], V[j][at])]
<1>1. at \in 0 .. KeySize(k) - 1 /\ KeySize(k) \in Nat
  BY HeadIndex DEF SizesFit
<1>2. Select(k, a, V, head, HeadSize(k), d) = LeftSum(x)
  BY DEF Select
<1> HIDE DEF at
<1>3. \A j \in 0 .. n - 1 : V[j][at] \in Float /\ a[j] \in Float
  BY <1>1, VecIs DEF Rows
<1>4. x \in Vec(n)
  BY <1>3, VecIs, FloatsAssumption DEF Vec
<1> HIDE DEF x
<1> QED
  BY <1>2, <1>4, SumsTo

\* What position p sees: the values of the positions up to it, by their scores.
SeenAt(k, q, K, V, p, i) ==
  Select(k, Softmax(ScoresOf(k, q, K, p + 1, i \div HeadSize(k))), V,
         i \div HeadSize(k), HeadSize(k), i % HeadSize(k))

LEMMA SeenIs ==
  ASSUME NEW k, SizesFit(k), NEW q, NEW p \in Nat, NEW K, NEW V
  PROVE  SeenFrom(k, q, K, V, p, HeadSize(k)) = [i \in 0 .. k.hidden - 1 |-> SeenAt(k, q, K, V, p, i)]
<1> DEFINE hd == HeadSize(k)
           W(n) == Softmax(ScoresOf(k, q, K, p + 1, n))
           A == [n \in 0 .. k.n_heads - 1 |-> W(n)]
<1>1. hd \in Nat /\ hd # 0 /\ k.hidden = k.n_heads * hd /\ k.n_heads \in Nat
  BY DEF SizesFit
<1>2. \A n : ScoresOf(k, q, K, p + 1, n) = Array([j \in 0 .. p |-> Score(k, q, K[j], n, hd)])
  <2>1. (p + 1) - 1 = p
    OBVIOUS
  <2> QED
    BY <2>1, ArrayIs DEF ScoresOf
<1>3. SeenFrom(k, q, K, V, p, hd) = Selected(k, Array(A), V, hd)
  BY <1>2 DEF SeenFrom
<1>4. SeenFrom(k, q, K, V, p, hd) = Selected(k, A, V, hd)
  BY <1>3, ArrayIs
<1>5. Selected(k, A, V, hd)
      = [i \in 0 .. k.hidden - 1 |-> Select(k, A[i \div hd], V, i \div hd, hd, i % hd)]
  BY ArrayIs DEF Selected
<1>6. \A i \in 0 .. k.hidden - 1 : A[i \div hd] = W(i \div hd)
  <2> HIDE DEF W
  <2>1. \A i \in 0 .. k.hidden - 1 : i \div hd \in 0 .. k.n_heads - 1
    BY <1>1, IndexRow
  <2> QED
    BY <2>1
<1> HIDE DEF A
<1>7. \A i \in 0 .. k.hidden - 1 :
        Select(k, A[i \div hd], V, i \div hd, hd, i % hd) = SeenAt(k, q, K, V, p, i)
  BY <1>6 DEF SeenAt
<1> QED
  BY <1>4, <1>5, <1>7

LEMMA SeenVec ==
  ASSUME NEW k, SizesFit(k), NEW q \in Vec(k.hidden), NEW p \in Nat,
         NEW K, Rows(p + 1, KeySize(k), K), NEW V, Rows(p + 1, KeySize(k), V)
  PROVE  SeenFrom(k, q, K, V, p, HeadSize(k)) \in Vec(k.hidden)
<1>1. ASSUME NEW i \in 0 .. k.hidden - 1
      PROVE  SeenAt(k, q, K, V, p, i) \in Float
  <2> DEFINE hd == HeadSize(k)
             n == i \div hd
             d == i % hd
             s == ScoresOf(k, q, K, p + 1, n)
  <2>1. n \in 0 .. k.n_heads - 1 /\ d \in 0 .. hd - 1
    BY IndexRow DEF SizesFit
  <2>2. p + 1 \in Nat /\ p + 1 # 0
    OBVIOUS
  <2> HIDE DEF n, d
  <2>3. s \in Vec(p + 1)
    BY <2>1, <2>2, ScoresVec
  <2>4. Softmax(s) \in Vec(p + 1)
    BY <2>2, <2>3, SoftmaxVec
  <2>5. Select(k, Softmax(s), V, n, hd, d) \in Float
    BY <2>1, <2>2, <2>4, SelectIn
  <2> QED
    BY <2>5 DEF SeenAt, n, d
<1>2. SeenFrom(k, q, K, V, p, HeadSize(k)) = [i \in 0 .. k.hidden - 1 |-> SeenAt(k, q, K, V, p, i)]
  BY SeenIs
<1> QED
  BY <1>1, <1>2 DEF Vec

-----------------------------------------------------------------------------
\* What the programs share with the formula word for word.
LEMMA CVShares ==
  /\ \A x, y : CV!Sums(x, y) = Sums(x, y)
  /\ \A x, gain, eps : CV!RmsNorm(x, gain, eps) = Normed(x, gain, eps)
  /\ \A x, y : CV!Hidden(x, y) = Gated(x, y)
  /\ \A w, rows, x : CV!MatVec(w, x, rows, Size(x)) = TimesExact(w, rows, x)
  /\ \A s : CV!SoftmaxSeq(s) = Whole(ExpsBelow(s, V3!MaxSeq(s)))
<1>1. \A x, y : CV!Sums(x, y) = Sums(x, y)
  BY DEF CV!Sums, Sums, CV!Array, Array
<1>2. \A x, gain, eps : CV!RmsNorm(x, gain, eps) = Normed(x, gain, eps)
  BY DEF CV!RmsNorm, CV!Scaled, CV!InvRms, Normed, CV!Array, Array,
         CV!LeftSum, LeftSum, CV!Products, Products,
         CV!Size, Size, CV!Cardinality, Cardinality
<1>3. \A x, y : CV!Hidden(x, y) = Gated(x, y)
  BY DEF CV!Hidden, Gated, CV!Array, Array
<1>4. \A w, rows, x : CV!MatVec(w, x, rows, Size(x)) = TimesExact(w, rows, x)
  BY DEF CV!MatVec, CV!DotSeq, TimesExact, CV!Array, Array, CV!Span, MatrixRow,
         CV!LeftSum, LeftSum, CV!Products, Products,
         CV!Size, Size, CV!Cardinality, Cardinality
<1>5. \A s : CV!SoftmaxSeq(s) = Whole(ExpsBelow(s, V3!MaxSeq(s)))
  BY DEF CV!SoftmaxSeq, CV!Normalised, CV!Exps, CV!Shares, Whole, Parts, ExpsBelow,
         CV!Array, Array, CV!LeftSum, LeftSum, CV!Sub, Sub,
         CV!MaxSeq, V3!MaxSeq, CV!Size, Size, CV!Cardinality, Cardinality, V3!Size, V3!Cardinality
<1> QED
  BY <1>1, <1>2, <1>3, <1>4, <1>5

LEMMA ReferenceShares ==
  /\ \A x, y : Reference!Sums(x, y) = Sums(x, y)
  /\ \A x, gain, eps : Reference!RmsNorm(x, gain, eps) = Normed(x, gain, eps)
  /\ \A x, y : Reference!Hidden(x, y) = Gated(x, y)
  /\ \A w, rows, x : Reference!MatVec(w, x, rows, Size(x)) = TimesExact(w, rows, x)
  /\ \A s : Reference!SoftmaxSeq(s) = Whole(ExpsBelow(s, V3!MaxSeq(s)))
<1>1. \A x, y : Reference!Sums(x, y) = Sums(x, y)
  BY DEF Reference!Sums, Sums, Reference!Array, Array
<1>2. ASSUME NEW x, NEW gain, NEW eps
      PROVE  Reference!RmsNorm(x, gain, eps) = Normed(x, gain, eps)
  <2> DEFINE y == Products(x, x)
  <2>1. Reference!Products(x, x) = y
    BY DEF Reference!Products, Products
  <2>2. Reference!LeftSum(y) = LeftSum(y)
    BY DEF Reference!LeftSum, LeftSum, Reference!Size, Size, Reference!Cardinality, Cardinality
  <2>3. Reference!Size(y) = Size(x)
    <3>1. DOMAIN y = DOMAIN x
      BY DEF Products
    <3> HIDE DEF y
    <3> QED
      BY <3>1, SizesAre DEF Size
  <2> HIDE DEF y
  <2>4. Reference!InvRms(y, eps) = Rsqrt(Add(Div(LeftSum(y), FromInt(Size(x))), eps))
    BY <2>2, <2>3 DEF Reference!InvRms
  <2>5. Reference!RmsNorm(x, gain, eps) = Reference!Scaled(x, Reference!InvRms(y, eps), gain)
    BY <2>1 DEF Reference!RmsNorm
  <2> QED
    BY <2>4, <2>5 DEF Reference!Scaled, Normed, Reference!Array, Array, y
<1>3. \A x, y : Reference!Hidden(x, y) = Gated(x, y)
  BY DEF Reference!Hidden, Gated, Reference!Array, Array
<1>4. \A w, rows, x : Reference!MatVec(w, x, rows, Size(x)) = TimesExact(w, rows, x)
  BY DEF Reference!MatVec, Reference!DotSeq, TimesExact, Reference!Array, Array, Reference!Span, MatrixRow,
         Reference!LeftSum, LeftSum, Reference!Products, Products,
         Reference!Size, Size, Reference!Cardinality, Cardinality
<1>5. \A s : Reference!SoftmaxSeq(s) = Whole(ExpsBelow(s, V3!MaxSeq(s)))
  BY DEF Reference!SoftmaxSeq, Reference!Normalised, Reference!Exps, Reference!Shares, Whole, Parts, ExpsBelow,
         Reference!Array, Array, Reference!LeftSum, LeftSum, Reference!Sub, Sub,
         Reference!MaxSeq, V3!MaxSeq, Reference!Size, Size, Reference!Cardinality, Cardinality, V3!Size, V3!Cardinality
<1> QED
  BY <1>1, <1>2, <1>3, <1>4, <1>5

LEMMA V2Shares ==
  /\ \A x, y : V2!Sums(x, y) = Sums(x, y)
  /\ \A x, gain, eps : V2!RmsNorm(x, gain, eps) = Normed(x, gain, eps)
  /\ \A x, y : V2!Hidden(x, y) = Gated(x, y)
  /\ \A w, rows, x : V2!MatVec(w, x, rows, Size(x)) = TimesExact(w, rows, x)
  /\ \A s : V2!Weights(s) = Whole(ExpsBelow(s, V3!MaxSeq(s)))
<1>1. \A x, y : V2!Sums(x, y) = Sums(x, y)
  BY DEF V2!Sums, Sums, V2!Array, Array
<1>2. \A x, gain, eps : V2!RmsNorm(x, gain, eps) = Normed(x, gain, eps)
  BY DEF V2!RmsNorm, V2!Scaled, V2!InvRms, Normed, V2!Array, Array,
         V2!LeftSum, LeftSum, V2!Products, Products,
         V2!Size, Size, V2!Cardinality, Cardinality
<1>3. \A x, y : V2!Hidden(x, y) = Gated(x, y)
  BY DEF V2!Hidden, Gated, V2!Array, Array
<1>4. \A w, rows, x : V2!MatVec(w, x, rows, Size(x)) = TimesExact(w, rows, x)
  BY DEF V2!MatVec, V2!DotSeq, TimesExact, V2!Array, Array, V2!Span, MatrixRow,
         V2!LeftSum, LeftSum, V2!Products, Products,
         V2!Size, Size, V2!Cardinality, Cardinality
<1>5. \A s : V2!Weights(s) = Whole(ExpsBelow(s, V3!MaxSeq(s)))
  BY DEF V2!Weights, V2!Normalised, V2!Exps, V2!Shares, Whole, Parts, ExpsBelow,
         V2!Array, Array, V2!LeftSum, LeftSum, V2!Sub, Sub,
         V2!MaxSeq, V3!MaxSeq, V2!Size, Size, V2!Cardinality, Cardinality, V3!Size, V3!Cardinality
<1> QED
  BY <1>1, <1>2, <1>3, <1>4, <1>5

LEMMA V3Shares ==
  /\ \A x, y : V3!Sums(x, y) = Sums(x, y)
  /\ \A x, gain, eps : V3!RmsNorm(x, gain, eps) = Normed(x, gain, eps)
  /\ \A x, y : V3!Hidden(x, y) = Gated(x, y)
  /\ \A w, rows, x : V3!MatVec(w, x, rows, Size(x)) = TimesExact(w, rows, x)
  /\ \A s : V3!Weights(s) = Whole(ExpsBelow(s, V3!MaxSeq(s)))
<1>1. \A x, y : V3!Sums(x, y) = Sums(x, y)
  BY DEF V3!Sums, Sums, V3!Array, Array
<1>2. \A x, gain, eps : V3!RmsNorm(x, gain, eps) = Normed(x, gain, eps)
  BY DEF V3!RmsNorm, V3!Scaled, V3!InvRms, Normed, V3!Array, Array,
         V3!LeftSum, LeftSum, V3!Products, Products,
         V3!Size, Size, V3!Cardinality, Cardinality
<1>3. \A x, y : V3!Hidden(x, y) = Gated(x, y)
  BY DEF V3!Hidden, Gated, V3!Array, Array
<1>4. \A w, rows, x : V3!MatVec(w, x, rows, Size(x)) = TimesExact(w, rows, x)
  BY DEF V3!MatVec, V3!DotSeq, TimesExact, V3!Array, Array, V3!Span, MatrixRow,
         V3!LeftSum, LeftSum, V3!Products, Products,
         V3!Size, Size, V3!Cardinality, Cardinality
<1>5. \A s : V3!Weights(s) = Whole(ExpsBelow(s, V3!MaxSeq(s)))
  BY DEF V3!Weights, V3!Normalised, V3!Exps, V3!Shares, Whole, Parts, ExpsBelow,
         V3!Array, Array, V3!LeftSum, LeftSum, V3!Sub, Sub,
         V3!MaxSeq, V3!Size, Size, V3!Cardinality, Cardinality
<1> QED
  BY <1>1, <1>2, <1>3, <1>4, <1>5

LEMMA BatchShares ==
  /\ \A x, y : Batch!Sums(x, y) = Sums(x, y)
  /\ \A x, gain, eps : Batch!RmsNorm(x, gain, eps) = Normed(x, gain, eps)
  /\ \A x, y : Batch!Hidden(x, y) = Gated(x, y)
  /\ \A w, rows, x : Batch!MatVec(w, x, rows, Size(x)) = TimesExact(w, rows, x)
  /\ \A s : Batch!Weights(s) = Whole(ExpsBelow(s, V3!MaxSeq(s)))
<1>1. \A x, y : Batch!Sums(x, y) = Sums(x, y)
  BY DEF Batch!Sums, Sums, Batch!Array, Array
<1>2. \A x, gain, eps : Batch!RmsNorm(x, gain, eps) = Normed(x, gain, eps)
  BY DEF Batch!RmsNorm, Batch!Scaled, Batch!InvRms, Normed, Batch!Array, Array,
         Batch!LeftSum, LeftSum, Batch!Products, Products,
         Batch!Size, Size, Batch!Cardinality, Cardinality
<1>3. \A x, y : Batch!Hidden(x, y) = Gated(x, y)
  BY DEF Batch!Hidden, Gated, Batch!Array, Array
<1>4. \A w, rows, x : Batch!MatVec(w, x, rows, Size(x)) = TimesExact(w, rows, x)
  BY DEF Batch!MatVec, Batch!DotSeq, TimesExact, Batch!Array, Array, Batch!Span, MatrixRow,
         Batch!LeftSum, LeftSum, Batch!Products, Products,
         Batch!Size, Size, Batch!Cardinality, Cardinality
<1>5. \A s : Batch!Weights(s) = Whole(ExpsBelow(s, V3!MaxSeq(s)))
  BY DEF Batch!Weights, Batch!Normalised, Batch!Exps, Batch!Shares, Whole, Parts, ExpsBelow,
         Batch!Array, Array, Batch!LeftSum, LeftSum, Batch!Sub, Sub,
         Batch!MaxSeq, V3!MaxSeq, Batch!Size, Size, Batch!Cardinality, Cardinality, V3!Size, V3!Cardinality
<1> QED
  BY <1>1, <1>2, <1>3, <1>4, <1>5

-----------------------------------------------------------------------------
\* Rotation, head by head.
HeadOf(x, n, hd) == [i \in 0 .. hd - 1 |-> x[n * hd + i]]

TurnedHead(k, y, p) ==
  LET hd == HeadSize(k)
      half == hd \div 2
  IN  [i \in 0 .. hd - 1 |->
         IF i < half THEN Turn(y[i], Neg(y[i + half]), Angle(k, hd, i, p))
                     ELSE Turn(y[i], y[i - half], Angle(k, hd, i - half, p))]

LEMMA JoinedIs ==
  ASSUME NEW k, SizesFit(k), NEW p, NEW m \in Nat, NEW x, DOMAIN x = 0 .. m * HeadSize(k) - 1,
         NEW heads, DOMAIN heads = 0 .. m - 1,
         \A n \in 0 .. m - 1 : heads[n] = TurnedHead(k, HeadOf(x, n, HeadSize(k)), p)
  PROVE  Joined(x, HeadSize(k), heads) = Turned(k, x, p)
<1> DEFINE hd == HeadSize(k)
           half == hd \div 2
           D == 0 .. m * hd - 1
           At(i) == Turn(x[i], IF i % hd < half THEN Neg(x[i + half]) ELSE x[i - half],
                         Angle(k, hd, (i % hd) % half, p))
<1>1. hd \in Nat /\ hd # 0 /\ half \in Nat /\ hd = 2 * half
  BY DEF SizesFit
<1>2. Turned(k, x, p) = [i \in D |-> At(i)]
  BY ArrayIs DEF Turned, HeadSize
<1>3. Joined(x, hd, heads) = [i \in D |-> IF i \div hd \in 0 .. m - 1 THEN heads[i \div hd][i % hd] ELSE x[i]]
  BY ArrayIs DEF Joined
<1>4. ASSUME NEW i \in D
      PROVE  i \div hd \in 0 .. m - 1 /\ heads[i \div hd][i % hd] = At(i)
  <2> DEFINE o == i \div hd
             r == i % hd
             a == o * hd
             y == HeadOf(x, o, hd)
  <2>1. o \in 0 .. m - 1 /\ r \in 0 .. hd - 1 /\ i = a + r /\ a \in Nat
    <3> HIDE DEF hd
    <3>1. o \in 0 .. m - 1 /\ r \in 0 .. hd - 1 /\ i = a + r
      BY <1>1, IndexRow
    <3> QED
      BY <1>1, <3>1, TimesMore
  <2>2. heads[o] = TurnedHead(k, y, p)
    BY <2>1
  <2>3. \A u \in 0 .. hd - 1 : y[u] = x[a + u]
    BY DEF HeadOf
  <2>4. heads[o][r] = IF r < half THEN Turn(y[r], Neg(y[r + half]), Angle(k, hd, r, p))
                                  ELSE Turn(y[r], y[r - half], Angle(k, hd, r - half, p))
    BY <2>1, <2>2 DEF TurnedHead
  <2>5. r % half = IF r < half THEN r ELSE r - half
    BY <1>1, PartnerIs
  <2>6. At(i) = Turn(x[i], IF r < half THEN Neg(x[i + half]) ELSE x[i - half], Angle(k, hd, r % half, p))
    OBVIOUS
  <2> HIDE DEF o, r, a, y, At, half, hd
  <2>7. CASE r < half
    <3>1. r + half \in 0 .. hd - 1 /\ a + (r + half) = i + half
      BY <1>1, <2>1, <2>7
    <3>2. y[r] = x[i] /\ y[r + half] = x[i + half]
      BY <2>1, <2>3, <3>1
    <3> QED
      BY <2>1, <2>4, <2>5, <2>6, <2>7, <3>2 DEF o, r
  <2>8. CASE ~(r < half)
    <3>1. r - half \in 0 .. hd - 1 /\ a + (r - half) = i - half
      BY <1>1, <2>1, <2>8
    <3>2. y[r] = x[i] /\ y[r - half] = x[i - half]
      BY <2>1, <2>3, <3>1
    <3> QED
      BY <2>1, <2>4, <2>5, <2>6, <2>8, <3>2 DEF o, r
  <2> QED
    BY <2>7, <2>8
<1> HIDE DEF At
<1>5. \A i \in D : (IF i \div hd \in 0 .. m - 1 THEN heads[i \div hd][i % hd] ELSE x[i]) = At(i)
  BY <1>4
<1> QED
  BY <1>2, <1>3, <1>5

\* The table of angles, as three of the programs keep it.
TableOf(k, p) ==
  [cos |-> [i \in 0 .. (HeadSize(k) \div 2) - 1 |-> Cos(Angle(k, HeadSize(k), i, p))],
   sin |-> [i \in 0 .. (HeadSize(k) \div 2) - 1 |-> Sin(Angle(k, HeadSize(k), i, p))]]

LEMMA TableIs ==
  ASSUME NEW k, NEW p
  PROVE  /\ CV!RopeTable(k, p) = TableOf(k, p)
         /\ V2!RopeTable(V2!InvFreq(k.theta, V2!HeadDim(k)), p) = TableOf(k, p)
         /\ V3!RopeTable(V3!InvFreq(k), p) = TableOf(k, p)
         /\ Batch!RopeTable(Batch!InvFreq(k), p) = TableOf(k, p)
<1> DEFINE half == HeadSize(k) \div 2
           freq == [i \in 0 .. half - 1 |->
                      Exp(Neg(Mul(Div(FromInt(2 * i), FromInt(HeadSize(k))), Ln(k.theta))))]
           table == [cos |-> [i \in DOMAIN freq |-> Cos(Mul(FromInt(p), freq[i]))],
                     sin |-> [i \in DOMAIN freq |-> Sin(Mul(FromInt(p), freq[i]))]]
<1>1. table = TableOf(k, p)
  BY DEF TableOf, Angle
<1>2. CV!InvFreq(k) = freq /\ V2!InvFreq(k.theta, V2!HeadDim(k)) = freq
      /\ V3!InvFreq(k) = freq /\ Batch!InvFreq(k) = freq
  BY DEF CV!InvFreq, CV!Half, CV!HeadDim, CV!Array, V2!InvFreq, V2!HeadDim, V2!Array,
         V3!InvFreq, V3!HeadDim, V3!Array, Batch!InvFreq, Batch!HeadDim, Batch!Array, HeadSize
<1> HIDE DEF freq
<1>3. /\ CV!RopeTable(k, p) = table
      /\ V2!RopeTable(V2!InvFreq(k.theta, V2!HeadDim(k)), p) = table
      /\ V3!RopeTable(V3!InvFreq(k), p) = table
      /\ Batch!RopeTable(Batch!InvFreq(k), p) = table
  BY <1>2 DEF CV!RopeTable, CV!Array, V2!RopeTable, V2!Array, V3!RopeTable, V3!Array, Batch!RopeTable, Batch!Array
<1> QED
  BY <1>1, <1>3

-----------------------------------------------------------------------------
\* Every program's rotation is that of the formula.
LEMMA WholeHeads ==
  ASSUME NEW k, SizesFit(k), NEW m \in Nat, NEW x, DOMAIN x = 0 .. m * HeadSize(k) - 1
  PROVE  Size(x) \div HeadSize(k) = m
<1> DEFINE hd == HeadSize(k)
           n == m * hd
<1>1. hd \in Nat /\ hd # 0
  BY DEF SizesFit
<1>2. n \in Nat /\ n \div hd = m
  <2> HIDE DEF hd
  <2>1. (m * hd + 0) \div hd = m /\ m * hd \in Nat
    BY <1>1, RowOf, TimesMore
  <2> QED
    BY <2>1
<1>3. Size(x) = n
  <2> HIDE DEF n
  <2>1. DOMAIN x = 0 .. n - 1
    BY DEF n
  <2> QED
    BY <1>2, <2>1, SizeIs
<1> QED
  BY <1>2, <1>3

LEMMA CVRotated ==
  ASSUME NEW k, SizesFit(k), NEW p, NEW m \in Nat, NEW x, DOMAIN x = 0 .. m * HeadSize(k) - 1
  PROVE  CV!Rotated(k, x, CV!RopeTable(k, p)) = Turned(k, x, p)
<1> DEFINE hd == HeadSize(k)
           half == hd \div 2
           table == TableOf(k, p)
           heads == [n \in 0 .. m - 1 |-> CV!RopeRotate(HeadOf(x, n, hd), table, half)]
<1>1. CV!Size(x) \div hd = m
  BY WholeHeads, SizesAre
<1>2. \A n : CV!HeadSlice(x, n, hd) = HeadOf(x, n, hd)
  BY DEF CV!HeadSlice, CV!Span, CV!Array, HeadOf
<1>3. CV!Rotated(k, x, CV!RopeTable(k, p)) = CV!Joined(x, hd, heads)
  BY <1>1, <1>2, TableIs DEF CV!Rotated, CV!HeadDim, CV!Half, CV!Array, HeadSize
<1>4. CV!Joined(x, hd, heads) = Joined(x, hd, heads)
  BY DEF CV!Joined, Joined, CV!Array, Array
<1>5. hd \in Nat /\ hd # 0 /\ half \in Nat /\ hd = 2 * half
  BY DEF SizesFit
<1>6. ASSUME NEW n
      PROVE  CV!RopeRotate(HeadOf(x, n, hd), table, half) = TurnedHead(k, HeadOf(x, n, hd), p)
  <2> DEFINE y == HeadOf(x, n, hd)
  <2>1. DOMAIN y = 0 .. hd - 1
    BY DEF HeadOf
  <2>2. /\ \A i \in 0 .. half - 1 : table.cos[i] = Cos(Angle(k, hd, i, p))
        /\ \A i \in 0 .. half - 1 : table.sin[i] = Sin(Angle(k, hd, i, p))
    BY DEF TableOf
  <2> HIDE DEF y, table, hd, half
  <2>3. \A i \in 0 .. hd - 1 : IF i < half THEN i \in 0 .. half - 1
                                           ELSE i - half \in 0 .. half - 1 /\ i < 2 * half
    BY <1>5
  <2>4. CV!RopeRotate(y, table, half)
        = [i \in 0 .. hd - 1 |->
             IF i < half THEN Turn(y[i], Neg(y[i + half]), Angle(k, hd, i, p))
                         ELSE Turn(y[i], y[i - half], Angle(k, hd, i - half, p))]
    BY <2>1, <2>2, <2>3 DEF CV!RopeRotate, CV!Array, Turn
  <2> QED
    BY <2>4 DEF TurnedHead, y, hd, half
<1>7. \A n \in 0 .. m - 1 : heads[n] = TurnedHead(k, HeadOf(x, n, hd), p)
  BY <1>6
<1> HIDE DEF heads
<1>8. DOMAIN heads = 0 .. m - 1
  BY DEF heads
<1>9. Joined(x, hd, heads) = Turned(k, x, p)
  BY <1>7, <1>8, JoinedIs
<1> QED
  BY <1>3, <1>4, <1>9

LEMMA V3Rotated ==
  ASSUME NEW k, SizesFit(k), NEW p, NEW m \in Nat, NEW x, DOMAIN x = 0 .. m * HeadSize(k) - 1
  PROVE  V3!RopeHeads(k, x, V3!RopeTable(V3!InvFreq(k), p)) = Turned(k, x, p)
<1> DEFINE hd == HeadSize(k)
           half == hd \div 2
           table == TableOf(k, p)
           heads == [n \in 0 .. m - 1 |-> V3!RopeApplyHead(HeadOf(x, n, hd), table, half)]
<1>1. V3!Size(x) \div hd = m
  BY WholeHeads, SizesAre
<1>2. \A n : V3!HeadSlice(x, n, hd) = HeadOf(x, n, hd)
  BY DEF V3!HeadSlice, V3!Span, V3!Array, HeadOf
<1>3. V3!RopeHeads(k, x, V3!RopeTable(V3!InvFreq(k), p)) = V3!Joined(x, hd, heads)
  BY <1>1, <1>2, TableIs DEF V3!RopeHeads, V3!HeadDim, V3!Array, HeadSize
<1>4. V3!Joined(x, hd, heads) = Joined(x, hd, heads)
  BY DEF V3!Joined, Joined, V3!Array, Array
<1>5. hd \in Nat /\ hd # 0 /\ half \in Nat /\ hd = 2 * half
  BY DEF SizesFit
<1>6. ASSUME NEW n
      PROVE  V3!RopeApplyHead(HeadOf(x, n, hd), table, half) = TurnedHead(k, HeadOf(x, n, hd), p)
  <2> DEFINE y == HeadOf(x, n, hd)
  <2>1. DOMAIN y = 0 .. hd - 1
    BY DEF HeadOf
  <2>2. /\ \A i \in 0 .. half - 1 : table.cos[i] = Cos(Angle(k, hd, i, p))
        /\ \A i \in 0 .. half - 1 : table.sin[i] = Sin(Angle(k, hd, i, p))
    BY DEF TableOf
  <2> HIDE DEF y, table, hd, half
  <2>3. \A i \in 0 .. hd - 1 : IF i < half THEN i \in 0 .. half - 1
                                           ELSE i - half \in 0 .. half - 1 /\ i < 2 * half
    BY <1>5
  <2>4. V3!RopeApplyHead(y, table, half)
        = [i \in 0 .. hd - 1 |->
             IF i < half THEN Turn(y[i], Neg(y[i + half]), Angle(k, hd, i, p))
                         ELSE Turn(y[i], y[i - half], Angle(k, hd, i - half, p))]
    BY <2>1, <2>2, <2>3 DEF V3!RopeApplyHead, V3!Array, Turn
  <2> QED
    BY <2>4 DEF TurnedHead, y, hd, half
<1>7. \A n \in 0 .. m - 1 : heads[n] = TurnedHead(k, HeadOf(x, n, hd), p)
  BY <1>6
<1> HIDE DEF heads
<1>8. DOMAIN heads = 0 .. m - 1
  BY DEF heads
<1>9. Joined(x, hd, heads) = Turned(k, x, p)
  BY <1>7, <1>8, JoinedIs
<1> QED
  BY <1>3, <1>4, <1>9

LEMMA BatchRotated ==
  ASSUME NEW k, SizesFit(k), NEW p, NEW m \in Nat, NEW x, DOMAIN x = 0 .. m * HeadSize(k) - 1
  PROVE  Batch!RopeHeads(k, x, Batch!RopeTable(Batch!InvFreq(k), p)) = Turned(k, x, p)
<1> DEFINE hd == HeadSize(k)
           half == hd \div 2
           table == TableOf(k, p)
           heads == [n \in 0 .. m - 1 |-> Batch!RopeApplyHead(HeadOf(x, n, hd), table, half)]
<1>1. Batch!Size(x) \div hd = m
  BY WholeHeads, SizesAre
<1>2. \A n : Batch!HeadSlice(x, n, hd) = HeadOf(x, n, hd)
  BY DEF Batch!HeadSlice, Batch!Span, Batch!Array, HeadOf
<1>3. Batch!RopeHeads(k, x, Batch!RopeTable(Batch!InvFreq(k), p)) = Batch!Joined(x, hd, heads)
  BY <1>1, <1>2, TableIs DEF Batch!RopeHeads, Batch!HeadDim, Batch!Array, HeadSize
<1>4. Batch!Joined(x, hd, heads) = Joined(x, hd, heads)
  BY DEF Batch!Joined, Joined, Batch!Array, Array
<1>5. hd \in Nat /\ hd # 0 /\ half \in Nat /\ hd = 2 * half
  BY DEF SizesFit
<1>6. ASSUME NEW n
      PROVE  Batch!RopeApplyHead(HeadOf(x, n, hd), table, half) = TurnedHead(k, HeadOf(x, n, hd), p)
  <2> DEFINE y == HeadOf(x, n, hd)
  <2>1. DOMAIN y = 0 .. hd - 1
    BY DEF HeadOf
  <2>2. /\ \A i \in 0 .. half - 1 : table.cos[i] = Cos(Angle(k, hd, i, p))
        /\ \A i \in 0 .. half - 1 : table.sin[i] = Sin(Angle(k, hd, i, p))
    BY DEF TableOf
  <2> HIDE DEF y, table, hd, half
  <2>3. \A i \in 0 .. hd - 1 : IF i < half THEN i \in 0 .. half - 1
                                           ELSE i - half \in 0 .. half - 1 /\ i < 2 * half
    BY <1>5
  <2>4. Batch!RopeApplyHead(y, table, half)
        = [i \in 0 .. hd - 1 |->
             IF i < half THEN Turn(y[i], Neg(y[i + half]), Angle(k, hd, i, p))
                         ELSE Turn(y[i], y[i - half], Angle(k, hd, i - half, p))]
    BY <2>1, <2>2, <2>3 DEF Batch!RopeApplyHead, Batch!Array, Turn
  <2> QED
    BY <2>4 DEF TurnedHead, y, hd, half
<1>7. \A n \in 0 .. m - 1 : heads[n] = TurnedHead(k, HeadOf(x, n, hd), p)
  BY <1>6
<1> HIDE DEF heads
<1>8. DOMAIN heads = 0 .. m - 1
  BY DEF heads
<1>9. Joined(x, hd, heads) = Turned(k, x, p)
  BY <1>7, <1>8, JoinedIs
<1> QED
  BY <1>3, <1>4, <1>9

LEMMA V2Rotated ==
  ASSUME NEW k, SizesFit(k), NEW p, NEW m \in Nat, NEW x, DOMAIN x = 0 .. m * HeadSize(k) - 1
  PROVE  V2!Rotated(k, x, V2!RopeTable(V2!InvFreq(k.theta, V2!HeadDim(k)), p)) = Turned(k, x, p)
<1> DEFINE hd == HeadSize(k)
           half == hd \div 2
           table == TableOf(k, p)
           heads == [n \in 0 .. m - 1 |-> V2!ApplyRopeHead(HeadOf(x, n, hd), table)]
<1>1. V2!Size(x) \div hd = m
  BY WholeHeads, SizesAre
<1>2. \A n : V2!HeadSlice(x, n, hd) = HeadOf(x, n, hd)
  BY DEF V2!HeadSlice, V2!Span, V2!Array, HeadOf
<1>3. V2!Rotated(k, x, V2!RopeTable(V2!InvFreq(k.theta, V2!HeadDim(k)), p)) = V2!Joined(x, hd, heads)
  BY <1>1, <1>2, TableIs DEF V2!Rotated, V2!HeadDim, V2!Array, HeadSize
<1>4. V2!Joined(x, hd, heads) = Joined(x, hd, heads)
  BY DEF V2!Joined, Joined, V2!Array, Array
<1>5. hd \in Nat /\ hd # 0 /\ half \in Nat /\ hd = 2 * half
  BY DEF SizesFit
<1>6. ASSUME NEW n
      PROVE  V2!ApplyRopeHead(HeadOf(x, n, hd), table) = TurnedHead(k, HeadOf(x, n, hd), p)
  <2> DEFINE y == HeadOf(x, n, hd)
  <2>1. DOMAIN y = 0 .. hd - 1
    BY DEF HeadOf
  <2>2. /\ \A i \in 0 .. half - 1 : table.cos[i] = Cos(Angle(k, hd, i, p))
        /\ \A i \in 0 .. half - 1 : table.sin[i] = Sin(Angle(k, hd, i, p))
    BY DEF TableOf
  <2> HIDE DEF y, table, hd, half
  <2>3. \A i \in 0 .. hd - 1 : IF i < half THEN i \in 0 .. half - 1
                                           ELSE i - half \in 0 .. half - 1 /\ i < 2 * half
    BY <1>5
  <2>5. V2!Size(table.cos) = half
    <3>1. DOMAIN table.cos = 0 .. half - 1
      BY DEF table, TableOf, half, hd
    <3> QED
      BY <1>5, <3>1, SizeIs, SizesAre
  <2>4. V2!ApplyRopeHead(y, table)
        = [i \in 0 .. hd - 1 |->
             IF i < half THEN Turn(y[i], Neg(y[i + half]), Angle(k, hd, i, p))
                         ELSE Turn(y[i], y[i - half], Angle(k, hd, i - half, p))]
    BY <2>1, <2>2, <2>3, <2>5 DEF V2!ApplyRopeHead, V2!Array, Turn
  <2> QED
    BY <2>4 DEF TurnedHead, y, hd, half
<1>7. \A n \in 0 .. m - 1 : heads[n] = TurnedHead(k, HeadOf(x, n, hd), p)
  BY <1>6
<1> HIDE DEF heads
<1>8. DOMAIN heads = 0 .. m - 1
  BY DEF heads
<1>9. Joined(x, hd, heads) = Turned(k, x, p)
  BY <1>7, <1>8, JoinedIs
<1> QED
  BY <1>3, <1>4, <1>9

LEMMA ReferenceRotated ==
  ASSUME NEW k, SizesFit(k), NEW p, NEW m \in Nat, NEW x, DOMAIN x = 0 .. m * HeadSize(k) - 1
  PROVE  Reference!Rope(k, x, p, Reference!InvFreq(k)) = Turned(k, x, p)
<1> DEFINE hd == HeadSize(k)
           half == hd \div 2
           freq == Reference!InvFreq(k)
           heads == [n \in 0 .. m - 1 |-> Reference!ApplyRopeHead(HeadOf(x, n, hd), p, freq)]
<1>1. Reference!Size(x) \div hd = m
  BY WholeHeads, SizesAre
<1>2. \A n : Reference!HeadSlice(x, n, hd) = HeadOf(x, n, hd)
  BY DEF Reference!HeadSlice, Reference!Span, Reference!Array, HeadOf
<1>3. Reference!Rope(k, x, p, Reference!InvFreq(k)) = Reference!Joined(x, hd, heads)
  BY <1>1, <1>2 DEF Reference!Rope, Reference!HeadDim, Reference!Array, HeadSize
<1>4. Reference!Joined(x, hd, heads) = Joined(x, hd, heads)
  BY DEF Reference!Joined, Joined, Reference!Array, Array
<1>5. hd \in Nat /\ hd # 0 /\ half \in Nat /\ hd = 2 * half
  BY DEF SizesFit
<1>6. ASSUME NEW n
      PROVE  Reference!ApplyRopeHead(HeadOf(x, n, hd), p, freq) = TurnedHead(k, HeadOf(x, n, hd), p)
  <2> DEFINE y == HeadOf(x, n, hd)
  <2>1. DOMAIN y = 0 .. hd - 1
    BY DEF HeadOf
  <2>2. \A i \in 0 .. half - 1 : Mul(FromInt(p), freq[i]) = Angle(k, hd, i, p)
    BY DEF Reference!InvFreq, Reference!HeadDim, Reference!Array, Angle, HeadSize
  <2> HIDE DEF y, freq, hd, half
  <2>3. \A i \in 0 .. hd - 1 : IF i < half THEN i \in 0 .. half - 1
                                           ELSE i - half \in 0 .. half - 1 /\ i < 2 * half
    BY <1>5
  <2>5. Reference!Size(y) \div 2 = half
    <3>1. Reference!Size(y) = hd
      BY <1>5, <2>1, SizeIs, SizesAre
    <3> QED
      BY <3>1 DEF half
  <2> DEFINE first == [i \in 0 .. half - 1 |->
                         Add(Mul(y[i], Cos(Mul(FromInt(p), freq[i]))),
                             Mul(Neg(y[i + half]), Sin(Mul(FromInt(p), freq[i]))))]
  <2>6. Reference!ApplyRopeHead(y, p, freq) = Reference!RopeOut(y, first, p, freq, half)
    BY <2>5 DEF Reference!ApplyRopeHead, Reference!Array
  <2>7. \A i \in 0 .. half - 1 : first[i] = Turn(y[i], Neg(y[i + half]), Angle(k, hd, i, p))
    BY <2>2 DEF Turn
  <2>8. \A i \in 0 .. half - 1 :
          Reference!SecondHalf(y, first, p, freq, i, half) = Turn(y[i + half], y[i], Angle(k, hd, i, p))
    BY <2>2 DEF Reference!SecondHalf, Turn
  <2> HIDE DEF first
  <2>9. \A i \in 0 .. hd - 1 : ~(i < half) =>
          Reference!SecondHalf(y, first, p, freq, i - half, half) = Turn(y[i], y[i - half], Angle(k, hd, i - half, p))
    <3>1. \A i \in 0 .. hd - 1 : (i - half) + half = i
      BY <1>5 DEF hd, half
    <3> QED
      BY <2>3, <2>8, <3>1
  <2>4. Reference!ApplyRopeHead(y, p, freq)
        = [i \in 0 .. hd - 1 |->
             IF i < half THEN Turn(y[i], Neg(y[i + half]), Angle(k, hd, i, p))
                         ELSE Turn(y[i], y[i - half], Angle(k, hd, i - half, p))]
    BY <2>1, <2>3, <2>6, <2>7, <2>9 DEF Reference!RopeOut, Reference!Array
  <2> QED
    BY <2>4 DEF TurnedHead, y, hd, half
<1>7. \A n \in 0 .. m - 1 : heads[n] = TurnedHead(k, HeadOf(x, n, hd), p)
  BY <1>6
<1> HIDE DEF heads
<1>8. DOMAIN heads = 0 .. m - 1
  BY DEF heads
<1>9. Joined(x, hd, heads) = Turned(k, x, p)
  BY <1>7, <1>8, JoinedIs
<1> QED
  BY <1>3, <1>4, <1>9

-----------------------------------------------------------------------------
\* Scores and weights, as the programs put them.
LEMMA SoftmaxIs ==
  ASSUME NEW n \in Nat, n # 0, NEW s \in Vec(n)
  PROVE  Whole(ExpsBelow(s, V3!MaxSeq(s))) = Softmax(s)
BY MaxIs DEF Softmax

LEMMA ScoreIs ==
  ASSUME NEW k, SizesFit(k), NEW q, NEW y, NEW head \in 0 .. k.n_heads - 1
  PROVE  Mul(LeftSum(Products(HeadOf(q, head, HeadSize(k)), HeadOf(y, head \div GroupOf(k), HeadSize(k)))),
             Rsqrt(FromInt(HeadSize(k))))
         = Score(k, q, y, head, HeadSize(k))
<1> DEFINE hd == HeadSize(k)
           g == head \div GroupOf(k)
<1>1. SharedHead(k, head) = g
  BY SharedHeadIs
<1> HIDE DEF hd, g
<1>2. Products(HeadOf(q, head, hd), HeadOf(y, g, hd)) = [d \in 0 .. hd - 1 |-> Mul(q[head * hd + d], y[g * hd + d])]
  BY DEF Products, HeadOf
<1> QED
  BY <1>1, <1>2 DEF Score, hd, g

-----------------------------------------------------------------------------
\* What the formula does with one position: its query, key and value, its
\* residual after attention to given keys and values, and after the MLP.
InputOf(k, w, x) == Normed(x, w["ln1"].data, k.eps)
QueryOf(num, k, w, x, p) == Turned(k, Linear(num, k, w, "q", "q_bias", k.hidden, InputOf(k, w, x)), p)
KeyOf(num, k, w, x, p) == Turned(k, Linear(num, k, w, "k", "k_bias", KeySize(k), InputOf(k, w, x)), p)
ValueOf(num, k, w, x) == Linear(num, k, w, "v", "v_bias", KeySize(k), InputOf(k, w, x))

RowAfter(num, k, w, x, K, V, p) ==
  Sums(x, Times(num, w["o"].data, k.hidden, SeenFrom(k, QueryOf(num, k, w, x, p), K, V, p, HeadSize(k))))

MlpRow(num, k, w, x) == Sums(x, MlpOf(num, k, w, Normed(x, w["ln2"].data, k.eps)))

KeysOf(num, k, w, xs) == [p \in DOMAIN xs |-> KeyOf(num, k, w, xs[p], p)]
ValuesOf(num, k, w, xs) == [p \in DOMAIN xs |-> ValueOf(num, k, w, xs[p])]

LEMMA AttentionIs ==
  ASSUME NEW num, NEW k, NEW w, NEW xs
  PROVE  AfterAttention(num, k, w, xs)
         = [p \in DOMAIN xs |-> RowAfter(num, k, w, xs[p], KeysOf(num, k, w, xs), ValuesOf(num, k, w, xs), p)]
<1> DEFINE In == [p \in DOMAIN xs |-> InputOf(k, w, xs[p])]
           Q == [p \in DOMAIN xs |-> QueryOf(num, k, w, xs[p], p)]
           K == KeysOf(num, k, w, xs)
           V == ValuesOf(num, k, w, xs)
<1>1. AfterAttention(num, k, w, xs) = FromNormed(num, k, w, xs, In)
  BY DEF AfterAttention, InputOf, Array
<1>2. \A p \in DOMAIN xs : In[p] = InputOf(k, w, xs[p])
  OBVIOUS
<1> HIDE DEF In
<1>3. /\ Array([p \in DOMAIN xs |-> Turned(k, Linear(num, k, w, "q", "q_bias", k.hidden, In[p]), p)]) = Q
      /\ Array([p \in DOMAIN xs |-> Turned(k, Linear(num, k, w, "k", "k_bias", KeySize(k), In[p]), p)]) = K
      /\ Array([p \in DOMAIN xs |-> Linear(num, k, w, "v", "v_bias", KeySize(k), In[p])]) = V
  BY <1>2, ArrayIs DEF QueryOf, KeyOf, ValueOf, KeysOf, ValuesOf
<1> HIDE DEF K, V
<1>4. FromNormed(num, k, w, xs, In) = Seeing(num, k, w, xs, Q, K, V)
  BY <1>3 DEF FromNormed, KeySize, HeadSize
<1>5. \A p \in DOMAIN xs : Q[p] = QueryOf(num, k, w, xs[p], p)
  OBVIOUS
<1> HIDE DEF Q
<1>6. Seeing(num, k, w, xs, Q, K, V) = [p \in DOMAIN xs |-> RowAfter(num, k, w, xs[p], K, V, p)]
  BY <1>5, ArrayIs DEF Seeing, RowAfter, HeadSize
<1> QED
  BY <1>1, <1>4, <1>6 DEF K, V

LEMMA MlpIs ==
  ASSUME NEW num, NEW k, NEW w, NEW xs
  PROVE  AfterMlp(num, k, w, xs) = [p \in DOMAIN xs |-> MlpRow(num, k, w, xs[p])]
BY ArrayIs DEF AfterMlp, MlpRow

\* These are vectors of values, of the sizes the matrices have.
LEMMA SizesSmall ==
  ASSUME NEW k, SizesFit(k)
  PROVE  k.hidden \in Nat /\ k.hidden <= MaxInt /\ k.inter \in Nat /\ KeySize(k) \in Nat
<1>1. k.hidden \in Nat /\ 127 * 127 * k.hidden <= MaxInt /\ MaxInt \in Nat
  BY FloatsAssumption DEF SizesFit
<1>2. k.hidden <= MaxInt
  BY <1>1
<1> QED
  BY <1>1, <1>2 DEF SizesFit

LEMMA BroughtVec ==
  ASSUME NEW num, NEW k, SizesFit(k), NEW w, LayerFits(k, w), NEW x \in Vec(k.hidden),
         NEW p \in Nat, p <= MaxInt
  PROVE  /\ QueryOf(num, k, w, x, p) \in Vec(k.hidden)
         /\ KeyOf(num, k, w, x, p) \in Vec(KeySize(k))
         /\ ValueOf(num, k, w, x) \in Vec(KeySize(k))
<1> DEFINE y == InputOf(k, w, x)
<1>1. y \in Vec(k.hidden)
  BY SizesSmall, NormedVec DEF InputOf, LayerFits, SizesFit
<1> HIDE DEF y
<1>2. Linear(num, k, w, "q", "q_bias", k.hidden, y) \in Vec(k.hidden)
  BY <1>1, SizesSmall, LinearVec DEF LayerFits
<1>3. Linear(num, k, w, "k", "k_bias", KeySize(k), y) \in Vec(KeySize(k))
  BY <1>1, SizesSmall, LinearVec DEF LayerFits
<1>4. Linear(num, k, w, "v", "v_bias", KeySize(k), y) \in Vec(KeySize(k))
  BY <1>1, SizesSmall, LinearVec DEF LayerFits
<1>5. k.hidden = k.n_heads * HeadSize(k) /\ KeySize(k) = k.n_kv_heads * HeadSize(k)
      /\ k.n_heads \in Nat /\ k.n_kv_heads \in Nat
  BY DEF SizesFit, KeySize
<1>6. QueryOf(num, k, w, x, p) \in Vec(k.hidden)
  BY <1>2, <1>5, TurnedVec DEF QueryOf, y
<1>7. KeyOf(num, k, w, x, p) \in Vec(KeySize(k))
  BY <1>3, <1>5, TurnedVec DEF KeyOf, y
<1> QED
  BY <1>4, <1>6, <1>7 DEF ValueOf, y

LEMMA RowAfterVec ==
  ASSUME NEW num, NEW k, SizesFit(k), NEW w, LayerFits(k, w), NEW x \in Vec(k.hidden),
         NEW p \in Nat, p <= MaxInt,
         NEW K, Rows(p + 1, KeySize(k), K), NEW V, Rows(p + 1, KeySize(k), V)
  PROVE  RowAfter(num, k, w, x, K, V, p) \in Vec(k.hidden)
<1> DEFINE q == QueryOf(num, k, w, x, p)
           y == SeenFrom(k, q, K, V, p, HeadSize(k))
<1>1. q \in Vec(k.hidden)
  BY BroughtVec
<1> HIDE DEF q
<1>2. y \in Vec(k.hidden)
  BY <1>1, SeenVec
<1> HIDE DEF y
<1>3. Times(num, w["o"].data, k.hidden, y) \in Vec(k.hidden)
  BY <1>2, SizesSmall, TimesVec DEF SizesFit, LayerFits
<1> QED
  BY <1>3, SizesSmall, SumsVec DEF RowAfter, y, q

LEMMA MlpRowVec ==
  ASSUME NEW num, NEW k, SizesFit(k), NEW w, LayerFits(k, w), NEW x \in Vec(k.hidden)
  PROVE  MlpRow(num, k, w, x) \in Vec(k.hidden)
<1> DEFINE y == Normed(x, w["ln2"].data, k.eps)
           gate == Times(num, w["gate"].data, k.inter, y)
           up == Times(num, w["up"].data, k.inter, y)
           z == Gated(gate, up)
<1>1. y \in Vec(k.hidden)
  BY SizesSmall, NormedVec DEF LayerFits, SizesFit
<1> HIDE DEF y
<1>2. gate \in Vec(k.inter) /\ up \in Vec(k.inter)
  BY <1>1, SizesSmall, TimesVec DEF SizesFit, LayerFits
<1> HIDE DEF gate, up
<1>3. z \in Vec(k.inter)
  BY <1>2, SizesSmall, GatedVec
<1> HIDE DEF z
<1>4. Times(num, w["down"].data, k.hidden, z) \in Vec(k.hidden)
  BY <1>3, SizesSmall, TimesVec DEF SizesFit, LayerFits
<1>5. MlpRow(num, k, w, x) = Sums(x, Times(num, w["down"].data, k.hidden, z))
  BY DEF MlpRow, MlpOf, z, gate, up, y
<1> QED
  BY <1>4, <1>5, SizesSmall, SumsVec

\* The residuals of n positions.
Columns(n, k) == [0 .. n - 1 -> Vec(k.hidden)]

LEMMA BroughtRows ==
  ASSUME NEW num, NEW k, SizesFit(k), NEW w, LayerFits(k, w),
         NEW n \in Nat, n <= MaxInt, NEW xs \in Columns(n, k), NEW p \in 0 .. n
  PROVE  Rows(p, KeySize(k), KeysOf(num, k, w, xs)) /\ Rows(p, KeySize(k), ValuesOf(num, k, w, xs))
<1> SUFFICES ASSUME NEW j \in 0 .. p - 1
             PROVE  KeysOf(num, k, w, xs)[j] \in Vec(KeySize(k)) /\ ValuesOf(num, k, w, xs)[j] \in Vec(KeySize(k))
  BY DEF Rows
<1>1. DOMAIN xs = 0 .. n - 1 /\ j \in 0 .. n - 1 /\ xs[j] \in Vec(k.hidden)
  BY DEF Columns
<1>2. j \in Nat /\ j <= MaxInt
  BY FloatsAssumption
<1>3. KeyOf(num, k, w, xs[j], j) \in Vec(KeySize(k)) /\ ValueOf(num, k, w, xs[j]) \in Vec(KeySize(k))
  BY <1>1, <1>2, BroughtVec
<1> QED
  BY <1>1, <1>3 DEF KeysOf, ValuesOf

LEMMA BlocksColumns ==
  ASSUME NEW num, NEW k, SizesFit(k), NEW w, LayerFits(k, w),
         NEW n \in Nat, n <= MaxInt, NEW xs \in Columns(n, k)
  PROVE  AfterAttention(num, k, w, xs) \in Columns(n, k) /\ AfterMlp(num, k, w, xs) \in Columns(n, k)
<1> DEFINE K == KeysOf(num, k, w, xs)
           V == ValuesOf(num, k, w, xs)
<1>1. DOMAIN xs = 0 .. n - 1 /\ \A p \in 0 .. n - 1 : xs[p] \in Vec(k.hidden)
  BY DEF Columns
<1>2. ASSUME NEW p \in 0 .. n - 1
      PROVE  RowAfter(num, k, w, xs[p], K, V, p) \in Vec(k.hidden)
  <2>1. p + 1 \in 0 .. n /\ p \in Nat /\ p <= MaxInt
    BY FloatsAssumption
  <2>2. Rows(p + 1, KeySize(k), K) /\ Rows(p + 1, KeySize(k), V)
    BY <2>1, BroughtRows
  <2> HIDE DEF K, V
  <2> QED
    BY <1>1, <2>1, <2>2, RowAfterVec
<1>3. \A p \in 0 .. n - 1 : MlpRow(num, k, w, xs[p]) \in Vec(k.hidden)
  BY <1>1, MlpRowVec
<1> HIDE DEF K, V
<1>4. AfterAttention(num, k, w, xs) = [p \in 0 .. n - 1 |-> RowAfter(num, k, w, xs[p], K, V, p)]
  BY <1>1, AttentionIs DEF K, V
<1>5. AfterMlp(num, k, w, xs) = [p \in 0 .. n - 1 |-> MlpRow(num, k, w, xs[p])]
  BY <1>1, MlpIs
<1> QED
  BY <1>2, <1>3, <1>4, <1>5 DEF Columns

-----------------------------------------------------------------------------
\* The residuals after the blocks, one after another.
IsText(k, t) ==
  /\ t \in Seq(Nat) /\ Len(t) \in Nat /\ Len(t) # 0 /\ Len(t) <= MaxInt
  /\ \A p \in 0 .. Len(t) - 1 : t[p + 1] \in 0 .. k.vocab - 1

LEMMA EmbeddingVec ==
  ASSUME NEW num, NEW k, SizesFit(k), HeadFits(k), NEW token \in 0 .. k.vocab - 1
  PROVE  EmbeddingOf(num, k, token) \in Vec(k.hidden)
<1> DEFINE row == MatrixRow(k.tensors["embed"].data, token, k.hidden)
           r == InSteps(row)
           y == [i \in DOMAIN r.levels |-> Mul(FromInt(r.levels[i]), r.step)]
<1>1. row \in Vec(k.hidden)
  BY RowVec DEF SizesFit, HeadFits
<1>2. EmbeddingOf(num, k, token) = IF num = "fp32" THEN row ELSE y
  BY ArrayIs DEF EmbeddingOf
<1> HIDE DEF row
<1>3. r \in Rounded(k.hidden)
  BY <1>1, SizesSmall, InStepsIs
<1> HIDE DEF r
<1>4. \A n \in Levels : FromInt(n) \in Float
  <2>1. Levels \subseteq -MaxInt .. MaxInt
    BY FloatsAssumption DEF Levels
  <2> QED
    BY <2>1, FloatsAssumption
<1>5. y \in Vec(k.hidden)
  <2>1. \A i \in 0 .. k.hidden - 1 : Mul(FromInt(r.levels[i]), r.step) \in Float
    BY <1>3, <1>4, SizesSmall, RoundedIs, FloatsAssumption
  <2>2. DOMAIN r.levels = 0 .. k.hidden - 1
    BY <1>3, SizesSmall, RoundedIs
  <2> QED
    BY <2>1, <2>2 DEF Vec
<1> QED
  BY <1>1, <1>2, <1>5

EmbeddingsOf(num, k, t) == [p \in 0 .. Len(t) - 1 |-> EmbeddingOf(num, k, t[p + 1])]

BlockAfter(num, k, n, xs) ==
  IF n % 2 = 1 THEN AfterAttention(num, k, k.layers[(n - 1) \div 2], xs)
               ELSE AfterMlp(num, k, k.layers[(n - 1) \div 2], xs)

LEMMA ResidualsAre ==
  ASSUME NEW num, NEW k, SizesFit(k), LayersFit(k), HeadFits(k), NEW t, IsText(k, t)
  PROVE  /\ Residuals(num, k, t)[0] = EmbeddingsOf(num, k, t)
         /\ \A n \in 1 .. 2 * k.n_layers :
              Residuals(num, k, t)[n] = BlockAfter(num, k, n, Residuals(num, k, t)[n - 1])
         /\ \A n \in 0 .. 2 * k.n_layers : Residuals(num, k, t)[n] \in Columns(Len(t), k)
<1> DEFINE N == 2 * k.n_layers
           X == Columns(Len(t), k)
           first == EmbeddingsOf(num, k, t)
           B(n, xs) == BlockAfter(num, k, n, xs)
           Solves(g) == g = [n \in 0 .. N |-> IF n = 0 THEN first ELSE B(n, g[n - 1])]
           step == [u \in (1 .. N) \X X |-> B(u[1], u[2])]
           after == CHOOSE g : Solves(g)
<1>0. k.n_layers \in Nat /\ N \in Nat
  BY DEF SizesFit
<1>1. first \in X
  <2>1. \A p \in 0 .. Len(t) - 1 : EmbeddingOf(num, k, t[p + 1]) \in Vec(k.hidden)
    BY EmbeddingVec DEF IsText
  <2> QED
    BY <2>1 DEF EmbeddingsOf, Columns
<1>2. ASSUME NEW n \in 1 .. N, NEW xs \in X PROVE B(n, xs) \in X
  <2> DEFINE l == (n - 1) \div 2
  <2>1. l \in 0 .. k.n_layers - 1
    BY <1>0
  <2>2. LayerFits(k, k.layers[l])
    BY <2>1 DEF LayersFit
  <2> HIDE DEF l
  <2>3. AfterAttention(num, k, k.layers[l], xs) \in X /\ AfterMlp(num, k, k.layers[l], xs) \in X
    BY <2>2, BlocksColumns DEF IsText
  <2> QED
    BY <2>3 DEF BlockAfter, l
<1> HIDE DEF N, X, B
<1>3. step \in StepTable(N, X)
  BY <1>2 DEF StepTable
<1>4. PICK g : Follows(g, N, X, first, step)
  <2> HIDE DEF step, first
  <2> QED
    BY <1>0, <1>1, <1>3, RecursionExists
<1>5. Solves(g)
  <2> HIDE DEF first
  <2>1. g = [i \in 0 .. N |-> g[i]] /\ g[0] = first
    BY <1>4 DEF Follows
  <2>2. ASSUME NEW i \in 1 .. N PROVE g[i] = B(i, g[i - 1])
    <3>1. g[i - 1] \in X /\ g[i] = step[<<i, g[i - 1]>>]
      <4> HIDE DEF step
      <4>1. i - 1 \in 0 .. N
        BY <1>0
      <4> QED
        BY <1>4, <4>1 DEF Follows
    <3>2. <<i, g[i - 1]>> \in (1 .. N) \X X
      BY <3>1
    <3> QED
      BY <3>1, <3>2
  <2>3. \A i \in 0 .. N : i = 0 \/ i \in 1 .. N
    BY <1>0
  <2>4. \A i \in 0 .. N : g[i] = IF i = 0 THEN first ELSE B(i, g[i - 1])
    BY <2>1, <2>2, <2>3
  <2> QED
    BY <2>1, <2>4
<1>6. Solves(after)
  <2> HIDE DEF Solves
  <2> QED
    BY <1>5
<1>7. Residuals(num, k, t) = [n \in 0 .. N |-> after[n]]
  BY ArrayIs DEF Residuals, N, B, BlockAfter, EmbeddingsOf, Array
<1> HIDE DEF after, first
<1>8. after[0] = first /\ \A n \in 1 .. N : after[n] = B(n, after[n - 1])
  BY <1>0, <1>6
<1>9. 0 .. N \subseteq {n \in 0 .. N : after[n] \in X}
  <2> DEFINE S == {n \in 0 .. N : after[n] \in X}
  <2>1. 0 \in S
    BY <1>0, <1>1, <1>8
  <2>2. ASSUME NEW n \in 0 .. N - 1, n \in S PROVE n + 1 \in S
    <3>1. n + 1 \in 1 .. N /\ n + 1 \in 0 .. N /\ (n + 1) - 1 = n
      BY <1>0
    <3>2. after[n + 1] = B(n + 1, after[n]) /\ after[n] \in X
      BY <1>8, <2>2, <3>1
    <3> QED
      BY <1>2, <3>1, <3>2
  <2> HIDE DEF S
  <2>3. 0 .. N \subseteq S
    BY <1>0, <2>1, <2>2, UpTo
  <2> QED
    BY <2>3 DEF S
<1>10. \A n \in 1 .. N : n - 1 \in 0 .. N /\ n \in 0 .. N
  BY <1>0
<1>11. \A n \in 0 .. N : Residuals(num, k, t)[n] = after[n]
  BY <1>7
<1>12. 0 \in 0 .. N
  BY <1>0
<1> HIDE DEF Solves, step
<1>13. /\ Residuals(num, k, t)[0] = first
       /\ \A n \in 1 .. N : Residuals(num, k, t)[n] = B(n, Residuals(num, k, t)[n - 1])
       /\ \A n \in 0 .. N : Residuals(num, k, t)[n] \in X
  BY <1>8, <1>9, <1>10, <1>11, <1>12
<1> QED
  BY <1>13 DEF N, B, X, first

\* By layers.
LEMMA LayerResiduals ==
  ASSUME NEW num, NEW k, SizesFit(k), LayersFit(k), HeadFits(k), NEW t, IsText(k, t),
         NEW l \in 0 .. k.n_layers - 1
  PROVE  /\ Residuals(num, k, t)[2 * l] \in Columns(Len(t), k)
         /\ Residuals(num, k, t)[2 * l + 1] \in Columns(Len(t), k)
         /\ Residuals(num, k, t)[2 * l + 1] = AfterAttention(num, k, k.layers[l], Residuals(num, k, t)[2 * l])
         /\ Residuals(num, k, t)[2 * (l + 1)] = AfterMlp(num, k, k.layers[l], Residuals(num, k, t)[2 * l + 1])
<1> DEFINE R == Residuals(num, k, t)
           N == 2 * k.n_layers
           a == 2 * l
<1>1. k.n_layers \in Nat
  BY DEF SizesFit
<1>2. /\ a \in 0 .. N /\ a + 1 \in 1 .. N /\ a + 1 \in 0 .. N /\ a + 2 \in 1 .. N /\ 2 * (l + 1) = a + 2
      /\ (a + 1) % 2 = 1 /\ ((a + 1) - 1) \div 2 = l /\ (a + 1) - 1 = a
      /\ (a + 2) % 2 = 0 /\ ((a + 2) - 1) \div 2 = l /\ (a + 2) - 1 = a + 1
  BY <1>1
<1>3. /\ \A n \in 1 .. N : R[n] = BlockAfter(num, k, n, R[n - 1])
      /\ \A n \in 0 .. N : R[n] \in Columns(Len(t), k)
  BY ResidualsAre
<1> HIDE DEF R, N, a
<1>4. R[a + 1] = AfterAttention(num, k, k.layers[l], R[a])
  BY <1>2, <1>3 DEF BlockAfter
<1>5. R[a + 2] = AfterMlp(num, k, k.layers[l], R[a + 1])
  BY <1>2, <1>3 DEF BlockAfter
<1>6. R[a] \in Columns(Len(t), k) /\ R[a + 1] \in Columns(Len(t), k)
  BY <1>2, <1>3
<1>7. R[2 * (l + 1)] = R[a + 2]
  BY <1>2
<1> QED
  BY <1>4, <1>5, <1>6, <1>7 DEF R, a

-----------------------------------------------------------------------------
\* Rows of a size, one after another in one array.
FlatOf(K, n, size) == [i \in 0 .. n * size - 1 |-> K[i \div size][i % size]]

LEMMA FlatAt ==
  ASSUME NEW n \in Nat, NEW size \in Nat, size # 0, NEW K, NEW j \in 0 .. n - 1, NEW r \in 0 .. size - 1
  PROVE  FlatOf(K, n, size)[j * size + r] = K[j][r]
<1>1. j * size + r \in 0 .. n * size - 1
  BY RowIndex
<1>2. (j * size + r) \div size = j /\ (j * size + r) % size = r
  BY RowOf
<1> DEFINE i == j * size + r
<1> HIDE DEF i
<1>3. i \in 0 .. n * size - 1 /\ i \div size = j /\ i % size = r
  BY <1>1, <1>2 DEF i
<1> DEFINE m == n * size
<1> HIDE DEF m
<1>4. FlatOf(K, n, size)[i] = K[j][r]
  BY <1>3 DEF FlatOf, m
<1> QED
  BY <1>4 DEF i

\* A row more.
FlatIndex(n, size) == 0 .. n * size - 1
FlatGrown(K, n, size, i) ==
  /\ (n + 1) * size = n * size + size /\ n * size \in Nat
  /\ i < n * size => FlatOf(K, n, size)[i] = FlatOf(K, n + 1, size)[i]
  /\ ~(i < n * size) => /\ i - n * size \in 0 .. size - 1
                        /\ FlatOf(K, n + 1, size)[i] = K[n][i - n * size]

LEMMA FlatGrows ==
  ASSUME NEW n \in Nat, NEW size \in Nat, size # 0, NEW K, NEW i \in FlatIndex(n + 1, size)
  PROVE  FlatGrown(K, n, size, i)
<1> DEFINE a == n * size
           b == (n + 1) * size
<1>0. i \in 0 .. b - 1
  BY DEF FlatIndex
<1>1. b = a + size /\ a \in Nat
  BY TimesMore
<1>2. ASSUME i < a PROVE FlatOf(K, n, size)[i] = FlatOf(K, n + 1, size)[i]
  <2>1. i \in 0 .. a - 1 /\ i \in 0 .. b - 1
    <3> HIDE DEF a, b
    <3> QED
      BY <1>0, <1>1, <1>2
  <2> HIDE DEF a, b
  <2> QED
    BY <2>1 DEF FlatOf, a, b
<1>3. ASSUME ~(i < a) PROVE i - a \in 0 .. size - 1 /\ FlatOf(K, n + 1, size)[i] = K[n][i - a]
  <2> DEFINE r == i - a
  <2>1. r \in 0 .. size - 1 /\ i = a + r
    <3> HIDE DEF a, b
    <3> QED
      BY <1>0, <1>1, <1>3
  <2>2. FlatOf(K, n + 1, size)[n * size + r] = K[n][r]
    <3>1. n \in 0 .. (n + 1) - 1 /\ n + 1 \in Nat
      OBVIOUS
    <3> QED
      BY <2>1, <3>1, FlatAt
  <2> QED
    BY <2>1, <2>2
<1> QED
  BY <1>1, <1>2, <1>3 DEF FlatGrown

\* A head of a row.
LEMMA FlatHead ==
  ASSUME NEW n \in Nat, NEW k, SizesFit(k), NEW K, NEW j \in 0 .. n - 1,
         NEW g \in 0 .. k.n_kv_heads - 1, NEW d \in 0 .. HeadSize(k) - 1
  PROVE  FlatOf(K, n, KeySize(k))[(j * KeySize(k) + g * HeadSize(k)) + d] = K[j][g * HeadSize(k) + d]
<1> DEFINE hd == HeadSize(k)
           size == KeySize(k)
           r == g * hd + d
<1>1. r \in 0 .. size - 1
  <2>1. g * hd + d \in 0 .. k.n_kv_heads * hd - 1
    BY RowIndex DEF SizesFit
  <2> QED
    BY <2>1 DEF KeySize
<1>2. size \in Nat /\ size # 0 /\ hd \in Nat
  BY DEF SizesFit
<1>3. FlatOf(K, n, size)[j * size + r] = K[j][r]
  BY <1>1, <1>2, FlatAt
<1>4. (j * size + g * hd) + d = j * size + r
  <2> DEFINE a == j * size
             b == g * hd
  <2>1. a \in Nat /\ b \in Nat
    BY <1>2, TimesMore
  <2> HIDE DEF a, b
  <2>2. (a + b) + d = a + (b + d)
    BY <2>1
  <2> QED
    BY <2>2 DEF a, b
<1> QED
  BY <1>3, <1>4

-----------------------------------------------------------------------------
\* Sums are the formula's in every program.
LEMMA SumsShared ==
  /\ \A x : /\ CV!LeftSum(x) = LeftSum(x) /\ Reference!LeftSum(x) = LeftSum(x)
            /\ V2!LeftSum(x) = LeftSum(x) /\ V3!LeftSum(x) = LeftSum(x)
            /\ Batch!LeftSum(x) = LeftSum(x)
  /\ \A x, y : /\ CV!DotSeq(x, y) = LeftSum(Products(x, y)) /\ Reference!DotSeq(x, y) = LeftSum(Products(x, y))
               /\ V2!DotSeq(x, y) = LeftSum(Products(x, y)) /\ V3!DotSeq(x, y) = LeftSum(Products(x, y))
               /\ Batch!DotSeq(x, y) = LeftSum(Products(x, y))
<1>1. \A x : /\ CV!LeftSum(x) = LeftSum(x) /\ Reference!LeftSum(x) = LeftSum(x)
             /\ V2!LeftSum(x) = LeftSum(x) /\ V3!LeftSum(x) = LeftSum(x)
             /\ Batch!LeftSum(x) = LeftSum(x)
  BY DEF CV!LeftSum, Reference!LeftSum, V2!LeftSum, V3!LeftSum, Batch!LeftSum, LeftSum,
         CV!Size, Reference!Size, V2!Size, V3!Size, Batch!Size, Size,
         CV!Cardinality, Reference!Cardinality, V2!Cardinality, V3!Cardinality, Batch!Cardinality, Cardinality
<1>2. \A x, y : /\ CV!Products(x, y) = Products(x, y) /\ Reference!Products(x, y) = Products(x, y)
                /\ V2!Products(x, y) = Products(x, y) /\ V3!Products(x, y) = Products(x, y)
                /\ Batch!Products(x, y) = Products(x, y)
  BY DEF CV!Products, Reference!Products, V2!Products, V3!Products, Batch!Products, Products
<1> QED
  BY <1>1, <1>2 DEF CV!DotSeq, Reference!DotSeq, V2!DotSeq, V3!DotSeq, Batch!DotSeq

\* What a row of weights selects, once each value is read from where it is kept.
LEMMA SelectIs ==
  ASSUME NEW k, SizesFit(k), NEW a, NEW V, NEW head \in 0 .. k.n_heads - 1, NEW d
  PROVE  Select(k, a, V, head, HeadSize(k), d)
         = LeftSum([j \in DOMAIN a |-> Mul(a[j], V[j][(head \div GroupOf(k)) * HeadSize(k) + d])])
<1>1. SharedHead(k, head) = head \div GroupOf(k)
  BY SharedHeadIs
<1> QED
  BY <1>1 DEF Select

\* The weights of the positions for a query head.
WeightsOf(k, q, K, p, head) == Softmax(ScoresOf(k, q, K, p + 1, head))

LEMMA WeightsAre ==
  ASSUME NEW k, SizesFit(k), NEW q \in Vec(k.hidden), NEW p \in Nat,
         NEW K, Rows(p + 1, KeySize(k), K), NEW head \in 0 .. k.n_heads - 1
  PROVE  /\ Whole(ExpsBelow(ScoresOf(k, q, K, p + 1, head), V3!MaxSeq(ScoresOf(k, q, K, p + 1, head))))
            = WeightsOf(k, q, K, p, head)
         /\ DOMAIN WeightsOf(k, q, K, p, head) = 0 .. p
<1> DEFINE s == ScoresOf(k, q, K, p + 1, head)
<1>1. p + 1 \in Nat /\ p + 1 # 0 /\ (p + 1) - 1 = p
  OBVIOUS
<1>2. s \in Vec(p + 1)
  BY <1>1, ScoresVec
<1> HIDE DEF s
<1>3. Softmax(s) \in Vec(p + 1)
  BY <1>1, <1>2, SoftmaxVec
<1>4. DOMAIN Softmax(s) = 0 .. p
  BY <1>1, <1>3 DEF Vec
<1> QED
  BY <1>1, <1>2, <1>4, SoftmaxIs DEF WeightsOf, s

\* All heads together, from the weights of each.
LEMMA SeenBy ==
  ASSUME NEW k, SizesFit(k), NEW q \in Vec(k.hidden), NEW p \in Nat,
         NEW K, NEW V, NEW y,
         y = [i \in 0 .. k.hidden - 1 |->
                LeftSum([j \in 0 .. p |->
                  Mul(WeightsOf(k, q, K, p, i \div HeadSize(k))[j],
                      V[j][((i \div HeadSize(k)) \div GroupOf(k)) * HeadSize(k) + (i % HeadSize(k))])])],
         Rows(p + 1, KeySize(k), K)
  PROVE  y = SeenFrom(k, q, K, V, p, HeadSize(k))
<1> DEFINE hd == HeadSize(k)
<1>1. \A i \in 0 .. k.hidden - 1 : i \div hd \in 0 .. k.n_heads - 1
  <2> HIDE DEF hd
  <2>1. hd \in Nat /\ hd # 0 /\ k.hidden = k.n_heads * hd /\ k.n_heads \in Nat
    BY DEF SizesFit, hd
  <2> QED
    BY <2>1, IndexRow
<1>2. ASSUME NEW i \in 0 .. k.hidden - 1
      PROVE  y[i] = SeenAt(k, q, K, V, p, i)
  <2> DEFINE head == i \div hd
             d == i % hd
             a == WeightsOf(k, q, K, p, head)
  <2>1. head \in 0 .. k.n_heads - 1
    BY <1>1
  <2>2. y[i] = LeftSum([j \in 0 .. p |-> Mul(a[j], V[j][(head \div GroupOf(k)) * hd + d])])
    OBVIOUS
  <2>3. SeenAt(k, q, K, V, p, i) = Select(k, a, V, head, hd, d)
    BY DEF SeenAt, WeightsOf
  <2> HIDE DEF head, d
  <2>4. DOMAIN a = 0 .. p
    BY <2>1, WeightsAre
  <2> HIDE DEF a, hd
  <2>5. Select(k, a, V, head, hd, d) = LeftSum([j \in 0 .. p |-> Mul(a[j], V[j][(head \div GroupOf(k)) * hd + d])])
    BY <2>1, <2>4, SelectIs DEF hd
  <2> QED
    BY <2>2, <2>3, <2>5
<1>3. SeenFrom(k, q, K, V, p, hd) = [i \in 0 .. k.hidden - 1 |-> SeenAt(k, q, K, V, p, i)]
  BY SeenIs
<1> QED
  BY <1>2, <1>3

-----------------------------------------------------------------------------
\* cis2-verify: the cache of a layer that holds the first n positions.
CVEntry(k, K, V, n) ==
  [keys |-> FlatOf(K, n, KeySize(k)), values |-> FlatOf(V, n, KeySize(k)),
   width |-> IF n = 0 THEN 0 ELSE KeySize(k)]

LEMMA CVHolds ==
  ASSUME NEW k, SizesFit(k), NEW n \in Nat, n # 0, NEW K, NEW V
  PROVE  /\ CV!Held(CVEntry(k, K, V, n)) = n
         /\ \A x : \A j \in 0 .. n - 1, g \in 0 .. k.n_kv_heads - 1 :
              CV!Row(FlatOf(x, n, KeySize(k)), CVEntry(k, K, V, n), j, g, HeadSize(k)) = HeadOf(x[j], g, HeadSize(k))
<1> DEFINE size == KeySize(k)
           e == CVEntry(k, K, V, n)
           m == n * size
<1>1. size \in Nat /\ size # 0
  BY DEF SizesFit
<1>2. e.keys = FlatOf(K, n, size) /\ e.width = size
  BY DEF CVEntry
<1>3. m \in Nat /\ m \div size = n
  <2> HIDE DEF size
  <2>1. (n * size + 0) \div size = n /\ n * size \in Nat
    BY <1>1, RowOf, TimesMore
  <2> QED
    BY <2>1
<1>4. CV!Size(e.keys) = m
  <2>1. DOMAIN e.keys = 0 .. m - 1
    BY <1>2 DEF FlatOf
  <2> HIDE DEF m, e
  <2> QED
    BY <1>3, <2>1, SizeIs, SizesAre
<1>5. CV!Held(e) = n
  BY <1>1, <1>2, <1>3, <1>4 DEF CV!Held
<1>6. ASSUME NEW x, NEW j \in 0 .. n - 1, NEW g \in 0 .. k.n_kv_heads - 1
      PROVE  CV!Row(FlatOf(x, n, size), e, j, g, HeadSize(k)) = HeadOf(x[j], g, HeadSize(k))
  <2> DEFINE y == FlatOf(x, n, size)
  <2>1. CV!Row(y, e, j, g, HeadSize(k)) = [d \in 0 .. HeadSize(k) - 1 |-> y[(j * size + g * HeadSize(k)) + d]]
    BY <1>2 DEF CV!Row, CV!Span, CV!Array
  <2>2. \A d \in 0 .. HeadSize(k) - 1 : y[(j * size + g * HeadSize(k)) + d] = x[j][g * HeadSize(k) + d]
    BY FlatHead
  <2> HIDE DEF y
  <2>3. CV!Row(y, e, j, g, HeadSize(k)) = HeadOf(x[j], g, HeadSize(k))
    BY <2>1, <2>2 DEF HeadOf
  <2> QED
    BY <2>3 DEF y
<1> QED
  BY <1>5, <1>6

LEMMA CVAttends ==
  ASSUME NEW k, SizesFit(k), NEW q \in Vec(k.hidden), NEW p \in Nat,
         NEW K, Rows(p + 1, KeySize(k), K), NEW V
  PROVE  CV!Attend(k, q, CVEntry(k, K, V, p + 1)) = SeenFrom(k, q, K, V, p, HeadSize(k))
<1> DEFINE hd == HeadSize(k)
           e == CVEntry(k, K, V, p + 1)
           W(head) == WeightsOf(k, q, K, p, head)
<1>1. p + 1 \in Nat /\ p + 1 # 0 /\ (p + 1) - 1 = p
  OBVIOUS
<1>2. /\ e.keys = FlatOf(K, p + 1, KeySize(k)) /\ e.values = FlatOf(V, p + 1, KeySize(k))
  BY DEF CVEntry
<1>3. /\ CV!Held(e) = p + 1
      /\ \A j \in 0 .. p, g \in 0 .. k.n_kv_heads - 1 :
           /\ CV!Row(e.keys, e, j, g, hd) = HeadOf(K[j], g, hd)
           /\ CV!Row(e.values, e, j, g, hd) = HeadOf(V[j], g, hd)
  BY <1>1, <1>2, CVHolds
<1>4. CV!HeadDim(k) = hd /\ CV!Group(k) = GroupOf(k)
  BY DEF CV!HeadDim, CV!Group, HeadSize, GroupOf
<1>5. \A n : CV!HeadSlice(q, n, hd) = HeadOf(q, n, hd)
  BY DEF CV!HeadSlice, CV!Span, CV!Array, HeadOf
<1> HIDE DEF e
<1>6. ASSUME NEW head \in 0 .. k.n_heads - 1
      PROVE  CV!Scores(k, q, head, e) = W(head)
  <2> DEFINE g == head \div GroupOf(k)
             S(j) == Mul(CV!DotSeq(HeadOf(q, head, hd), CV!Row(e.keys, e, j, g, hd)), Rsqrt(FromInt(hd)))
  <2>1. g \in 0 .. k.n_kv_heads - 1
    BY SharedHeadIs
  <2>2. \A j \in 0 .. p : S(j) = Score(k, q, K[j], head, hd)
    BY <1>3, <2>1, SumsShared, ScoreIs
  <2>3. CV!Scores(k, q, head, e) = CV!SoftmaxSeq([j \in 0 .. p |-> S(j)])
    BY <1>1, <1>3, <1>4, <1>5 DEF CV!Scores, CV!Array
  <2> HIDE DEF S
  <2>4. [j \in 0 .. p |-> S(j)] = ScoresOf(k, q, K, p + 1, head)
    BY <1>1, <2>2 DEF ScoresOf
  <2> QED
    BY <2>3, <2>4, CVShares, WeightsAre
<1>7. ASSUME NEW i \in 0 .. k.hidden - 1
      PROVE  /\ i \div hd \in 0 .. k.n_heads - 1 /\ i % hd \in 0 .. hd - 1
             /\ (i \div hd) \div GroupOf(k) \in 0 .. k.n_kv_heads - 1
  <2>1. i \div hd \in 0 .. k.n_heads - 1 /\ i % hd \in 0 .. hd - 1
    <3> HIDE DEF hd
    <3>1. hd \in Nat /\ hd # 0 /\ k.hidden = k.n_heads * hd /\ k.n_heads \in Nat
      BY DEF SizesFit, hd
    <3> QED
      BY <3>1, IndexRow
  <2> QED
    BY <2>1, SharedHeadIs
<1>8. ASSUME NEW head \in 0 .. k.n_heads - 1, NEW d \in 0 .. hd - 1, head \div GroupOf(k) \in 0 .. k.n_kv_heads - 1
      PROVE  CV!Mixed(k, W(head), head \div GroupOf(k), d, e)
             = LeftSum([j \in 0 .. p |-> Mul(W(head)[j], V[j][(head \div GroupOf(k)) * hd + d])])
  <2> DEFINE g == head \div GroupOf(k)
             a == W(head)
  <2>1. DOMAIN a = 0 .. p
    BY WeightsAre
  <2> HIDE DEF a, g, hd
  <2>2. \A j \in 0 .. p : CV!Row(e.values, e, j, g, hd)[d] = V[j][g * hd + d]
    <3>1. \A y : HeadOf(y, g, hd)[d] = y[g * hd + d]
      BY DEF HeadOf
    <3>2. g \in 0 .. k.n_kv_heads - 1
      BY <1>8 DEF g
    <3> QED
      BY <1>3, <3>1, <3>2 DEF hd
  <2>3. CV!Mixed(k, a, g, d, e) = LeftSum([j \in 0 .. p |-> Mul(a[j], V[j][g * hd + d])])
    BY <1>4, <2>1, <2>2, SumsShared DEF CV!Mixed
  <2> QED
    BY <2>3 DEF a, g
<1>9. CV!Attend(k, q, e) = CV!Mix(k, [head \in 0 .. k.n_heads - 1 |-> CV!Scores(k, q, head, e)], e)
  BY DEF CV!Attend, CV!Array
<1>10. CV!Attend(k, q, e) = CV!Mix(k, [head \in 0 .. k.n_heads - 1 |-> W(head)], e)
  BY <1>6, <1>9
<1> HIDE DEF W
<1>11. CV!Attend(k, q, e)
       = [i \in 0 .. k.hidden - 1 |-> CV!Mixed(k, W(i \div hd), (i \div hd) \div GroupOf(k), i % hd, e)]
  BY <1>4, <1>7, <1>10 DEF CV!Mix, CV!Array
<1>12. CV!Attend(k, q, e)
       = [i \in 0 .. k.hidden - 1 |->
            LeftSum([j \in 0 .. p |-> Mul(W(i \div hd)[j], V[j][((i \div hd) \div GroupOf(k)) * hd + (i % hd)])])]
  BY <1>7, <1>8, <1>11
<1> QED
  BY <1>12, SeenBy DEF e, W

\* Sizes of what a position brings.
LEMMA LinearDomains ==
  ASSUME NEW num, NEW k, SizesFit(k), NEW w, LayerFits(k, w), NEW y \in Vec(k.hidden)
  PROVE  /\ DOMAIN Linear(num, k, w, "q", "q_bias", k.hidden, y) = 0 .. k.n_heads * HeadSize(k) - 1
         /\ DOMAIN Linear(num, k, w, "k", "k_bias", KeySize(k), y) = 0 .. k.n_kv_heads * HeadSize(k) - 1
         /\ k.n_heads \in Nat /\ k.n_kv_heads \in Nat
<1>1. Linear(num, k, w, "q", "q_bias", k.hidden, y) \in Vec(k.hidden)
  BY SizesSmall, LinearVec DEF LayerFits
<1>2. Linear(num, k, w, "k", "k_bias", KeySize(k), y) \in Vec(KeySize(k))
  BY SizesSmall, LinearVec DEF LayerFits
<1>3. k.hidden = k.n_heads * HeadSize(k) /\ KeySize(k) = k.n_kv_heads * HeadSize(k)
      /\ k.n_heads \in Nat /\ k.n_kv_heads \in Nat
  BY DEF SizesFit, KeySize
<1>4. /\ DOMAIN Linear(num, k, w, "q", "q_bias", k.hidden, y) = 0 .. k.hidden - 1
      /\ DOMAIN Linear(num, k, w, "k", "k_bias", KeySize(k), y) = 0 .. KeySize(k) - 1
  BY <1>1, <1>2 DEF Vec
<1> QED
  BY <1>3, <1>4

LEMMA InputVec ==
  ASSUME NEW k, SizesFit(k), NEW w, LayerFits(k, w), NEW x \in Vec(k.hidden)
  PROVE  InputOf(k, w, x) \in Vec(k.hidden) /\ Size(InputOf(k, w, x)) = k.hidden
<1>1. InputOf(k, w, x) \in Vec(k.hidden)
  BY SizesSmall, NormedVec DEF InputOf, LayerFits, SizesFit
<1> QED
  BY <1>1, SizesSmall, VecIs

LEMMA CVBrings ==
  ASSUME NEW k, SizesFit(k), NEW w, LayerFits(k, w), NEW x \in Vec(k.hidden), NEW p
  PROVE  LET ln1 == CV!RmsNorm(x, w["ln1"].data, k.eps)
             table == CV!RopeTable(k, p)
         IN  /\ CV!Rotated(k, CV!Projected(k, w, "q", "q_bias", k.hidden, ln1), table) = QueryOf("fp32", k, w, x, p)
             /\ CV!Rotated(k, CV!Projected(k, w, "k", "k_bias", CV!KvWidth(k), ln1), table) = KeyOf("fp32", k, w, x, p)
             /\ CV!Projected(k, w, "v", "v_bias", CV!KvWidth(k), ln1) = ValueOf("fp32", k, w, x)
<1> DEFINE y == InputOf(k, w, x)
<1>1. CV!RmsNorm(x, w["ln1"].data, k.eps) = y /\ CV!KvWidth(k) = KeySize(k)
  BY CVShares DEF InputOf, CV!KvWidth, CV!HeadDim, KeySize, HeadSize
<1>2. y \in Vec(k.hidden) /\ Size(y) = k.hidden
  BY InputVec
<1> HIDE DEF y
<1>3. \A name, bias, rows : CV!Projected(k, w, name, bias, rows, y) = Linear("fp32", k, w, name, bias, rows, y)
  <2>1. \A m, rows : CV!MatVec(m, y, rows, k.hidden) = Times("fp32", m, rows, y)
    BY <1>2, CVShares DEF Times
  <2> QED
    BY <2>1, CVShares DEF CV!Projected, CV!AddBias, Linear
<1>4. CV!Rotated(k, Linear("fp32", k, w, "q", "q_bias", k.hidden, y), CV!RopeTable(k, p))
      = QueryOf("fp32", k, w, x, p)
  BY <1>2, LinearDomains, CVRotated DEF QueryOf, y
<1>5. CV!Rotated(k, Linear("fp32", k, w, "k", "k_bias", KeySize(k), y), CV!RopeTable(k, p))
      = KeyOf("fp32", k, w, x, p)
  BY <1>2, LinearDomains, CVRotated DEF KeyOf, y
<1>6. Linear("fp32", k, w, "v", "v_bias", KeySize(k), y) = ValueOf("fp32", k, w, x)
  BY DEF ValueOf, y
<1> QED
  BY <1>1, <1>3, <1>4, <1>5, <1>6

LEMMA CVPushes ==
  ASSUME NEW k, SizesFit(k), NEW p \in Nat, NEW K, NEW V,
         K[p] \in Vec(KeySize(k)), V[p] \in Vec(KeySize(k)),
         NEW store, NEW l \in DOMAIN store, store[l] = CVEntry(k, K, V, p)
  PROVE  CV!Push(store, l, K[p], V[p]) = [store EXCEPT ![l] = CVEntry(k, K, V, p + 1)]
<1> DEFINE size == KeySize(k)
           m == p * size
           b == (p + 1) * size
<1>1. size \in Nat /\ size # 0
  BY DEF SizesFit
<1>2. m \in Nat /\ b = m + size
  BY <1>1, TimesMore
<1> HIDE DEF size
<1>3. ASSUME NEW x, x[p] \in Vec(size)
      PROVE  CV!Extend(FlatOf(x, p, size), x[p]) = FlatOf(x, p + 1, size)
  <2> DEFINE y == FlatOf(x, p, size)
             z == FlatOf(x, p + 1, size)
  <2>1. DOMAIN y = 0 .. m - 1 /\ DOMAIN z = 0 .. b - 1
    BY DEF FlatOf
  <2>2. ASSUME NEW i \in 0 .. b - 1
        PROVE  z[i] = IF i < m THEN y[i] ELSE x[p][i - m]
    <3>0. i \in FlatIndex(p + 1, size)
      BY DEF FlatIndex
    <3> HIDE DEF b
    <3>2. FlatGrown(x, p, size, i)
      BY <1>1, <3>0, FlatGrows
    <3>1. /\ i < m => y[i] = z[i]
          /\ ~(i < m) => z[i] = x[p][i - m]
      BY <3>2 DEF FlatGrown
    <3> HIDE DEF y, z, m, b
    <3> QED
      BY <3>1
  <2> HIDE DEF y, z, m, b
  <2>3. CV!Size(y) = m
    BY <1>2, <2>1, SizeIs, SizesAre
  <2>4. CV!Size(x[p]) = size
    BY <1>1, <1>3, VecIs, SizesAre
  <2>5. CV!Extend(y, x[p]) = [i \in 0 .. b - 1 |-> IF i < m THEN y[i] ELSE x[p][i - m]]
    <3>1. CV!Size(y) + CV!Size(x[p]) - 1 = b - 1
      BY <1>1, <1>2, <2>3, <2>4
    <3> QED
      BY <2>3, <3>1 DEF CV!Extend, CV!Array
  <2>6. z = [i \in 0 .. b - 1 |-> z[i]]
    BY <2>1 DEF z, FlatOf, b
  <2>7. CV!Extend(y, x[p]) = z
    BY <2>2, <2>5, <2>6
  <2> QED
    BY <2>7 DEF y, z
<1>4. CV!Size(K[p]) = size
  BY <1>1, VecIs, SizesAre DEF size
<1>5. CV!Extend(FlatOf(K, p, size), K[p]) = FlatOf(K, p + 1, size)
  BY <1>3 DEF size
<1>6. CV!Extend(FlatOf(V, p, size), V[p]) = FlatOf(V, p + 1, size)
  BY <1>3 DEF size
<1>7. store[l].keys = FlatOf(K, p, size) /\ store[l].values = FlatOf(V, p, size)
  BY DEF CVEntry, size
<1>8. CVEntry(k, K, V, p + 1) = [keys |-> FlatOf(K, p + 1, size), values |-> FlatOf(V, p + 1, size), width |-> size]
  BY DEF CVEntry, size
<1> QED
  BY <1>4, <1>5, <1>6, <1>7, <1>8 DEF CV!Push

\* What attention at a position is given: its own row is the last of the keys and
\* values, after those of the positions before it.
Brought(k, l, x, p, K, V) ==
  /\ SizesFit(k) /\ LayerFits(k, k.layers[l]) /\ x \in Vec(k.hidden) /\ p \in Nat /\ p <= MaxInt
  /\ Rows(p + 1, KeySize(k), K) /\ K[p] = KeyOf("fp32", k, k.layers[l], x, p)
  /\ Rows(p + 1, KeySize(k), V) /\ V[p] = ValueOf("fp32", k, k.layers[l], x)

LEMMA CVAttention ==
  ASSUME NEW k, NEW l, NEW x, NEW p, NEW K, NEW V, Brought(k, l, x, p, K, V),
         NEW store, l \in DOMAIN store, store[l] = CVEntry(k, K, V, p)
  PROVE  CV!Attention(k, l, p, x, store)
         = [h |-> RowAfter("fp32", k, k.layers[l], x, K, V, p),
            cache |-> [store EXCEPT ![l] = CVEntry(k, K, V, p + 1)]]
<1> DEFINE w == k.layers[l]
           q == QueryOf("fp32", k, w, x, p)
           new == [store EXCEPT ![l] = CVEntry(k, K, V, p + 1)]
           y == SeenFrom(k, q, K, V, p, HeadSize(k))
<1>0. /\ SizesFit(k) /\ LayerFits(k, k.layers[l]) /\ x \in Vec(k.hidden) /\ p \in Nat /\ p <= MaxInt
      /\ Rows(p + 1, KeySize(k), K) /\ K[p] = KeyOf("fp32", k, k.layers[l], x, p)
      /\ Rows(p + 1, KeySize(k), V) /\ V[p] = ValueOf("fp32", k, k.layers[l], x)
  BY DEF Brought
<1> USE <1>0
<1>1. q \in Vec(k.hidden)
  BY BroughtVec
<1>2. CV!Push(store, l, K[p], V[p]) = new
  <2>1. p \in 0 .. (p + 1) - 1
    OBVIOUS
  <2> QED
    BY <2>1, CVPushes DEF Rows
<1>3. CV!Attention(k, l, p, x, store) = CV!AfterPush(k, l, x, q, new)
  BY <1>2, CVBrings DEF CV!Attention, CV!FromNorm
<1>4. new[l] = CVEntry(k, K, V, p + 1)
  OBVIOUS
<1> HIDE DEF q, new
<1>5. CV!Attend(k, q, new[l]) = y
  BY <1>1, <1>4, CVAttends
<1>6. y \in Vec(k.hidden)
  BY <1>1, SeenVec
<1> HIDE DEF y
<1>7. CV!MatVec(w["o"].data, y, k.hidden, k.hidden) = Times("fp32", w["o"].data, k.hidden, y)
  <2>1. Size(y) = k.hidden
    BY <1>6, SizesSmall, VecIs
  <2> QED
    BY <2>1, CVShares DEF Times
<1>8. CV!AfterPush(k, l, x, q, new) = [h |-> Sums(x, Times("fp32", w["o"].data, k.hidden, y)), cache |-> new]
  BY <1>5, <1>7, CVShares DEF CV!AfterPush
<1> QED
  BY <1>3, <1>8 DEF RowAfter, y, q, new

-----------------------------------------------------------------------------
\* The reference: a list of keys and one of values.
ListOf(K, n) == [j \in 1 .. n |-> K[j - 1]]
ReferenceEntry(K, V, n) == [k |-> ListOf(K, n), v |-> ListOf(V, n)]

LEMMA HeadsIndex ==
  ASSUME NEW k, SizesFit(k), NEW i \in 0 .. k.hidden - 1
  PROVE  /\ i \div HeadSize(k) \in 0 .. k.n_heads - 1 /\ i % HeadSize(k) \in 0 .. HeadSize(k) - 1
         /\ (i \div HeadSize(k)) \div GroupOf(k) \in 0 .. k.n_kv_heads - 1
<1> DEFINE hd == HeadSize(k)
<1>1. i \div hd \in 0 .. k.n_heads - 1 /\ i % hd \in 0 .. hd - 1
  <2> HIDE DEF hd
  <2>1. hd \in Nat /\ hd # 0 /\ k.hidden = k.n_heads * hd /\ k.n_heads \in Nat
    BY DEF SizesFit, hd
  <2> QED
    BY <2>1, IndexRow
<1> QED
  BY <1>1, SharedHeadIs

LEMMA ReferenceAttends ==
  ASSUME NEW k, SizesFit(k), NEW q \in Vec(k.hidden), NEW p \in Nat,
         NEW K, Rows(p + 1, KeySize(k), K), NEW V
  PROVE  Reference!Attend(k, q, p, ReferenceEntry(K, V, p + 1)) = SeenFrom(k, q, K, V, p, HeadSize(k))
<1> DEFINE hd == HeadSize(k)
           e == ReferenceEntry(K, V, p + 1)
           W(head) == WeightsOf(k, q, K, p, head)
<1>1. (p + 1) - 1 = p /\ \A j \in 0 .. p : j + 1 \in 1 .. p + 1 /\ (j + 1) - 1 = j
  OBVIOUS
<1>2. \A j \in 0 .. p : e.k[j + 1] = K[j] /\ e.v[j + 1] = V[j]
  BY <1>1 DEF ReferenceEntry, ListOf
<1>4. Reference!HeadDim(k) = hd /\ \A n : Reference!KvHead(k, n) = n \div GroupOf(k)
  BY DEF Reference!HeadDim, Reference!KvHead, HeadSize, GroupOf
<1>5. \A y, n : Reference!HeadSlice(y, n, hd) = HeadOf(y, n, hd)
  BY DEF Reference!HeadSlice, Reference!Span, Reference!Array, HeadOf
<1> HIDE DEF e
<1>6. ASSUME NEW head \in 0 .. k.n_heads - 1
      PROVE  Reference!Scores(k, q, head, p, e) = W(head)
  <2> DEFINE g == head \div GroupOf(k)
             S(j) == Mul(Reference!DotSeq(HeadOf(q, head, hd), HeadOf(e.k[j + 1], g, hd)), Rsqrt(FromInt(hd)))
  <2>2. \A j \in 0 .. p : S(j) = Score(k, q, K[j], head, hd)
    BY <1>2, SumsShared, ScoreIs
  <2>3. Reference!Scores(k, q, head, p, e) = Reference!SoftmaxSeq([j \in 0 .. p |-> S(j)])
    <3> HIDE DEF hd, W
    <3>1. Reference!Scores(k, q, head, p, e) = Reference!SoftmaxSeq([j \in 0 .. p |->
            Mul(Reference!DotSeq(Reference!HeadSlice(q, head, hd), Reference!HeadSlice(e.k[j + 1], g, hd)),
                Rsqrt(FromInt(hd)))])
      BY <1>4 DEF Reference!Scores, Reference!Array
    <3> QED
      BY <1>5, <3>1
  <2> HIDE DEF S
  <2>4. [j \in 0 .. p |-> S(j)] = ScoresOf(k, q, K, p + 1, head)
    BY <1>1, <2>2 DEF ScoresOf
  <2> QED
    BY <2>3, <2>4, ReferenceShares, WeightsAre
<1>7. \A i \in 0 .. k.hidden - 1 : i \div hd \in 0 .. k.n_heads - 1
  BY HeadsIndex
<1>8. ASSUME NEW head \in 0 .. k.n_heads - 1, NEW at
      PROVE  Reference!Mixed(W(head), at, e) = LeftSum([j \in 0 .. p |-> Mul(W(head)[j], V[j][at])])
  <2> DEFINE a == W(head)
  <2>1. DOMAIN a = 0 .. p
    BY WeightsAre
  <2> HIDE DEF a
  <2>3. Reference!Mixed(a, at, e) = LeftSum([j \in 0 .. p |-> Mul(a[j], V[j][at])])
    BY <1>2, <2>1, SumsShared DEF Reference!Mixed
  <2> QED
    BY <2>3 DEF a
<1>9. Reference!Attend(k, q, p, e)
      = Reference!Mix(k, [head \in 0 .. k.n_heads - 1 |-> Reference!Scores(k, q, head, p, e)], e)
  BY DEF Reference!Attend, Reference!Array
<1>10. Reference!Attend(k, q, p, e) = Reference!Mix(k, [head \in 0 .. k.n_heads - 1 |-> W(head)], e)
  BY <1>6, <1>9
<1> HIDE DEF W
<1>11. Reference!Attend(k, q, p, e)
       = [i \in 0 .. k.hidden - 1 |->
            Reference!Mixed(W(i \div hd), ((i \div hd) \div GroupOf(k)) * hd + (i % hd), e)]
  BY <1>4, <1>7, <1>10 DEF Reference!Mix, Reference!Array
<1>12. Reference!Attend(k, q, p, e)
       = [i \in 0 .. k.hidden - 1 |->
            LeftSum([j \in 0 .. p |-> Mul(W(i \div hd)[j], V[j][((i \div hd) \div GroupOf(k)) * hd + (i % hd)])])]
  BY <1>7, <1>8, <1>11
<1> QED
  BY <1>12, SeenBy DEF e, W

LEMMA ReferenceBrings ==
  ASSUME NEW k, SizesFit(k), NEW w, LayerFits(k, w), NEW x \in Vec(k.hidden), NEW p
  PROVE  LET ln1 == Reference!RmsNorm(x, w["ln1"].data, k.eps)
             freq == Reference!InvFreq(k)
             kv == Reference!KvWidth(k)
         IN  /\ Reference!Rope(k, Reference!Projected(k, w, "q", "q_bias", k.hidden, ln1), p, freq)
                = QueryOf("fp32", k, w, x, p)
             /\ Reference!Rope(k, Reference!Projected(k, w, "k", "k_bias", kv, ln1), p, freq)
                = KeyOf("fp32", k, w, x, p)
             /\ Reference!Projected(k, w, "v", "v_bias", kv, ln1) = ValueOf("fp32", k, w, x)
<1> DEFINE y == InputOf(k, w, x)
<1>1. Reference!RmsNorm(x, w["ln1"].data, k.eps) = y /\ Reference!KvWidth(k) = KeySize(k)
  BY ReferenceShares DEF InputOf, Reference!KvWidth, Reference!HeadDim, KeySize, HeadSize
<1>2. y \in Vec(k.hidden) /\ Size(y) = k.hidden
  BY InputVec
<1> HIDE DEF y
<1>3. \A name, bias, rows : Reference!Projected(k, w, name, bias, rows, y) = Linear("fp32", k, w, name, bias, rows, y)
  <2>1. \A m, rows : Reference!MatVec(m, y, rows, k.hidden) = Times("fp32", m, rows, y)
    BY <1>2, ReferenceShares DEF Times
  <2> QED
    BY <2>1, ReferenceShares DEF Reference!Projected, Reference!AddBiasOpt, Linear
<1>4. Reference!Rope(k, Linear("fp32", k, w, "q", "q_bias", k.hidden, y), p, Reference!InvFreq(k))
      = QueryOf("fp32", k, w, x, p)
  BY <1>2, LinearDomains, ReferenceRotated DEF QueryOf, y
<1>5. Reference!Rope(k, Linear("fp32", k, w, "k", "k_bias", KeySize(k), y), p, Reference!InvFreq(k))
      = KeyOf("fp32", k, w, x, p)
  BY <1>2, LinearDomains, ReferenceRotated DEF KeyOf, y
<1>6. Linear("fp32", k, w, "v", "v_bias", KeySize(k), y) = ValueOf("fp32", k, w, x)
  BY DEF ValueOf, y
<1> QED
  BY <1>1, <1>3, <1>4, <1>5, <1>6

\* Appending the next row to a list.
LEMMA ListGrows ==
  ASSUME NEW n \in Nat, NEW K
  PROVE  Append(ListOf(K, n), K[n]) = ListOf(K, n + 1)
<1> DEFINE S == {K[j - 1] : j \in 1 .. n + 1}
           s == ListOf(K, n)
           u == ListOf(K, n + 1)
<1>1. \A j \in 1 .. n : j \in 1 .. n + 1
  OBVIOUS
<1>2. s \in Seq(S) /\ Len(s) = n
  <2>1. s = [j \in 1 .. n |-> s[j]] /\ \A j \in 1 .. n : s[j] \in S
    BY <1>1 DEF ListOf
  <2> HIDE DEF s, S
  <2> QED
    BY <2>1
<1>3. K[n] \in S
  <2>1. n + 1 \in 1 .. n + 1 /\ (n + 1) - 1 = n
    OBVIOUS
  <2> QED
    BY <2>1
<1>4. DOMAIN u = 1 .. n + 1 /\ \A j \in 1 .. n + 1 : u[j] = IF j <= n THEN s[j] ELSE K[n]
  <2>1. \A j \in 1 .. n + 1 : IF j <= n THEN j \in 1 .. n ELSE j - 1 = n
    OBVIOUS
  <2> QED
    BY <2>1 DEF ListOf
<1>5. u = [j \in 1 .. n + 1 |-> u[j]]
  BY DEF ListOf
<1> HIDE DEF S, s, u
<1>6. Append(s, K[n]) = [j \in 1 .. n + 1 |-> IF j <= n THEN s[j] ELSE K[n]]
  BY <1>2, <1>3
<1> QED
  BY <1>4, <1>5, <1>6 DEF s, u

LEMMA ReferenceAttention ==
  ASSUME NEW k, NEW l, NEW x, NEW p, NEW K, NEW V, Brought(k, l, x, p, K, V),
         NEW store, l \in DOMAIN store, store[l] = ReferenceEntry(K, V, p)
  PROVE  Reference!Attention(k, l, p, x, store)
         = [h |-> RowAfter("fp32", k, k.layers[l], x, K, V, p),
            cache |-> [store EXCEPT ![l] = ReferenceEntry(K, V, p + 1)]]
<1> DEFINE w == k.layers[l]
           q == QueryOf("fp32", k, w, x, p)
           new == [store EXCEPT ![l] = ReferenceEntry(K, V, p + 1)]
           y == SeenFrom(k, q, K, V, p, HeadSize(k))
<1>0. /\ SizesFit(k) /\ LayerFits(k, k.layers[l]) /\ x \in Vec(k.hidden) /\ p \in Nat /\ p <= MaxInt
      /\ Rows(p + 1, KeySize(k), K) /\ K[p] = KeyOf("fp32", k, k.layers[l], x, p)
      /\ Rows(p + 1, KeySize(k), V) /\ V[p] = ValueOf("fp32", k, k.layers[l], x)
  BY DEF Brought
<1> USE <1>0
<1>1. q \in Vec(k.hidden)
  BY BroughtVec
<1>2. Reference!Pushed(store, l, K[p], V[p]) = new
  <2>1. store[l].k = ListOf(K, p) /\ store[l].v = ListOf(V, p)
    BY DEF ReferenceEntry
  <2>2. Append(store[l].k, K[p]) = ListOf(K, p + 1) /\ Append(store[l].v, V[p]) = ListOf(V, p + 1)
    BY <2>1, ListGrows
  <2>3. Reference!Pushed(store, l, K[p], V[p])
        = [store EXCEPT ![l] = [k |-> Append(store[l].k, K[p]), v |-> Append(store[l].v, V[p])]]
    BY DEF Reference!Pushed
  <2> QED
    BY <2>2, <2>3 DEF ReferenceEntry
<1>3. Reference!Attention(k, l, p, x, store) = Reference!AfterPush(k, l, p, x, q, new)
  BY <1>2, ReferenceBrings DEF Reference!Attention, Reference!FromNorm
<1>4. new[l] = ReferenceEntry(K, V, p + 1)
  OBVIOUS
<1> HIDE DEF q, new
<1>5. Reference!Attend(k, q, p, new[l]) = y
  BY <1>1, <1>4, ReferenceAttends
<1>6. y \in Vec(k.hidden)
  BY <1>1, SeenVec
<1> HIDE DEF y
<1>7. Reference!MatVec(w["o"].data, y, k.hidden, k.hidden) = Times("fp32", w["o"].data, k.hidden, y)
  <2>1. Size(y) = k.hidden
    BY <1>6, SizesSmall, VecIs
  <2> QED
    BY <2>1, ReferenceShares DEF Times
<1>8. Reference!AfterPush(k, l, p, x, q, new) = [h |-> Sums(x, Times("fp32", w["o"].data, k.hidden, y)), cache |-> new]
  BY <1>5, <1>7, ReferenceShares DEF Reference!AfterPush
<1> QED
  BY <1>3, <1>8 DEF RowAfter, y, q, new

-----------------------------------------------------------------------------
\* verify2: a row is kept head by head.
NestOf(k, K) == [j \in Nat |-> V2!Entry(K[j], k.n_kv_heads, HeadSize(k))]
V2Entry(k, K, V, n) == [k |-> ListOf(NestOf(k, K), n), v |-> ListOf(NestOf(k, V), n)]

\* The pinned checkpoint has no biases.
Bare(w) == DOMAIN w \cap {"q_bias", "k_bias", "v_bias"} = {}

LEMMA V2Attends ==
  ASSUME NEW k, SizesFit(k), NEW q \in Vec(k.hidden), NEW p \in Nat,
         NEW K, Rows(p + 1, KeySize(k), K), NEW V
  PROVE  V2!Attend(k, q, p, V2Entry(k, K, V, p + 1)) = SeenFrom(k, q, K, V, p, HeadSize(k))
<1> DEFINE hd == HeadSize(k)
           e == V2Entry(k, K, V, p + 1)
           W(head) == WeightsOf(k, q, K, p, head)
<1>1. (p + 1) - 1 = p /\ \A j \in 0 .. p : j + 1 \in 1 .. p + 1 /\ (j + 1) - 1 = j /\ j \in Nat
  OBVIOUS
<1>2. \A j \in 0 .. p, g \in 0 .. k.n_kv_heads - 1 :
        e.k[j + 1][g] = HeadOf(K[j], g, hd) /\ e.v[j + 1][g] = HeadOf(V[j], g, hd)
  <2>1. \A y : V2!Entry(y, k.n_kv_heads, hd) = [g \in 0 .. k.n_kv_heads - 1 |-> HeadOf(y, g, hd)]
    BY DEF V2!Entry, V2!Span, V2!Array, HeadOf
  <2>2. \A j \in 0 .. p : e.k[j + 1] = V2!Entry(K[j], k.n_kv_heads, hd) /\ e.v[j + 1] = V2!Entry(V[j], k.n_kv_heads, hd)
    BY <1>1 DEF V2Entry, ListOf, NestOf
  <2> HIDE DEF e, hd
  <2>3. \A y : \A g \in 0 .. k.n_kv_heads - 1 : V2!Entry(y, k.n_kv_heads, hd)[g] = HeadOf(y, g, hd)
    BY <2>1
  <2> TAKE j \in 0 .. p, g \in 0 .. k.n_kv_heads - 1
  <2>4. /\ e.k[j + 1][g] = V2!Entry(K[j], k.n_kv_heads, hd)[g]
        /\ e.v[j + 1][g] = V2!Entry(V[j], k.n_kv_heads, hd)[g]
    BY <2>2
  <2> QED
    BY <2>3, <2>4
<1>4. V2!HeadDim(k) = hd /\ \A n : V2!KvHead(k, n) = n \div GroupOf(k)
  BY DEF V2!HeadDim, V2!KvHead, HeadSize, GroupOf
<1>5. \A y, n : V2!HeadSlice(y, n, hd) = HeadOf(y, n, hd)
  BY DEF V2!HeadSlice, V2!Span, V2!Array, HeadOf
<1> HIDE DEF e
<1>6. ASSUME NEW head \in 0 .. k.n_heads - 1
      PROVE  V2!Weights(V2!Scores(k, q, head, p, e)) = W(head)
  <2> DEFINE g == head \div GroupOf(k)
             S(j) == Mul(V2!DotSeq(HeadOf(q, head, hd), e.k[j + 1][g]), Rsqrt(FromInt(hd)))
  <2>1. g \in 0 .. k.n_kv_heads - 1
    BY SharedHeadIs
  <2>2. \A j \in 0 .. p : S(j) = Score(k, q, K[j], head, hd)
    BY <1>2, <2>1, SumsShared, ScoreIs
  <2>3. V2!Scores(k, q, head, p, e) = [j \in 0 .. p |-> S(j)]
    BY <1>4, <1>5 DEF V2!Scores, V2!Array
  <2> HIDE DEF S
  <2>4. [j \in 0 .. p |-> S(j)] = ScoresOf(k, q, K, p + 1, head)
    BY <1>1, <2>2 DEF ScoresOf
  <2> QED
    BY <2>3, <2>4, V2Shares, WeightsAre
<1>7. ASSUME NEW i \in 0 .. k.hidden - 1
      PROVE  /\ i \div hd \in 0 .. k.n_heads - 1 /\ i % hd \in 0 .. hd - 1
             /\ (i \div hd) \div GroupOf(k) \in 0 .. k.n_kv_heads - 1
  BY HeadsIndex
<1>8. ASSUME NEW head \in 0 .. k.n_heads - 1, NEW d \in 0 .. hd - 1, head \div GroupOf(k) \in 0 .. k.n_kv_heads - 1
      PROVE  V2!Mixed(W(head), head \div GroupOf(k), d, e)
             = LeftSum([j \in 0 .. p |-> Mul(W(head)[j], V[j][(head \div GroupOf(k)) * hd + d])])
  <2> DEFINE g == head \div GroupOf(k)
             a == W(head)
  <2>1. DOMAIN a = 0 .. p
    BY WeightsAre
  <2> HIDE DEF a, g, hd
  <2>2. \A j \in 0 .. p : e.v[j + 1][g][d] = V[j][g * hd + d]
    <3>1. \A y : HeadOf(y, g, hd)[d] = y[g * hd + d]
      BY DEF HeadOf
    <3>2. g \in 0 .. k.n_kv_heads - 1
      BY <1>8 DEF g
    <3> QED
      BY <1>2, <3>1, <3>2 DEF hd
  <2>3. V2!Mixed(a, g, d, e) = LeftSum([j \in 0 .. p |-> Mul(a[j], V[j][g * hd + d])])
    BY <2>1, <2>2, SumsShared DEF V2!Mixed
  <2> QED
    BY <2>3 DEF a, g
<1>9. V2!Attend(k, q, p, e)
      = V2!Mix(k, [head \in 0 .. k.n_heads - 1 |-> V2!Weights(V2!Scores(k, q, head, p, e))], e)
  BY DEF V2!Attend, V2!Array
<1>10. V2!Attend(k, q, p, e) = V2!Mix(k, [head \in 0 .. k.n_heads - 1 |-> W(head)], e)
  BY <1>6, <1>9
<1> HIDE DEF W
<1>11. V2!Attend(k, q, p, e)
       = [i \in 0 .. k.hidden - 1 |-> V2!Mixed(W(i \div hd), (i \div hd) \div GroupOf(k), i % hd, e)]
  BY <1>4, <1>7, <1>10 DEF V2!Mix, V2!Array
<1>12. V2!Attend(k, q, p, e)
       = [i \in 0 .. k.hidden - 1 |->
            LeftSum([j \in 0 .. p |-> Mul(W(i \div hd)[j], V[j][((i \div hd) \div GroupOf(k)) * hd + (i % hd)])])]
  BY <1>7, <1>8, <1>11
<1> QED
  BY <1>12, SeenBy DEF e, W

LEMMA V2Brings ==
  ASSUME NEW k, SizesFit(k), NEW w, LayerFits(k, w), Bare(w), NEW x \in Vec(k.hidden), NEW p
  PROVE  LET ln1 == V2!RmsNorm(x, w["ln1"].data, k.eps)
             table == V2!RopeTable(V2!InvFreq(k.theta, V2!HeadDim(k)), p)
             kv == k.n_kv_heads * V2!HeadDim(k)
         IN  /\ V2!Rotated(k, V2!MatVec(w["q"].data, ln1, k.hidden, k.hidden), table) = QueryOf("fp32", k, w, x, p)
             /\ V2!Rotated(k, V2!MatVec(w["k"].data, ln1, kv, k.hidden), table) = KeyOf("fp32", k, w, x, p)
             /\ V2!MatVec(w["v"].data, ln1, kv, k.hidden) = ValueOf("fp32", k, w, x)
<1> DEFINE y == InputOf(k, w, x)
           table == V2!RopeTable(V2!InvFreq(k.theta, V2!HeadDim(k)), p)
<1>1. V2!RmsNorm(x, w["ln1"].data, k.eps) = y /\ k.n_kv_heads * V2!HeadDim(k) = KeySize(k)
  BY V2Shares DEF InputOf, V2!HeadDim, KeySize, HeadSize
<1>2. y \in Vec(k.hidden) /\ Size(y) = k.hidden
  BY InputVec
<1>7. "q_bias" \notin DOMAIN w /\ "k_bias" \notin DOMAIN w /\ "v_bias" \notin DOMAIN w
  BY DEF Bare
<1> HIDE DEF y
<1>3. \A name, bias, rows : bias \notin DOMAIN w =>
        V2!MatVec(w[name].data, y, rows, k.hidden) = Linear("fp32", k, w, name, bias, rows, y)
  <2>1. \A m, rows : V2!MatVec(m, y, rows, k.hidden) = Times("fp32", m, rows, y)
    BY <1>2, V2Shares DEF Times
  <2> QED
    BY <2>1 DEF Linear
<1>4. V2!Rotated(k, Linear("fp32", k, w, "q", "q_bias", k.hidden, y), table) = QueryOf("fp32", k, w, x, p)
  BY <1>2, LinearDomains, V2Rotated DEF QueryOf, y
<1>5. V2!Rotated(k, Linear("fp32", k, w, "k", "k_bias", KeySize(k), y), table) = KeyOf("fp32", k, w, x, p)
  BY <1>2, LinearDomains, V2Rotated DEF KeyOf, y
<1>6. Linear("fp32", k, w, "v", "v_bias", KeySize(k), y) = ValueOf("fp32", k, w, x)
  BY DEF ValueOf, y
<1> QED
  BY <1>1, <1>3, <1>4, <1>5, <1>6, <1>7

LEMMA V2Attention ==
  ASSUME NEW k, NEW l, NEW x, NEW p, NEW K, NEW V, Brought(k, l, x, p, K, V), Bare(k.layers[l]),
         NEW store, l \in DOMAIN store, store[l] = V2Entry(k, K, V, p)
  PROVE  V2!Attention(k, l, p, x, store)
         = [h |-> RowAfter("fp32", k, k.layers[l], x, K, V, p),
            cache |-> [store EXCEPT ![l] = V2Entry(k, K, V, p + 1)]]
<1> DEFINE w == k.layers[l]
           q == QueryOf("fp32", k, w, x, p)
           new == [store EXCEPT ![l] = V2Entry(k, K, V, p + 1)]
           y == SeenFrom(k, q, K, V, p, HeadSize(k))
<1>0. /\ SizesFit(k) /\ LayerFits(k, k.layers[l]) /\ x \in Vec(k.hidden) /\ p \in Nat /\ p <= MaxInt
      /\ Rows(p + 1, KeySize(k), K) /\ K[p] = KeyOf("fp32", k, k.layers[l], x, p)
      /\ Rows(p + 1, KeySize(k), V) /\ V[p] = ValueOf("fp32", k, k.layers[l], x)
  BY DEF Brought
<1> USE <1>0
<1>1. q \in Vec(k.hidden)
  BY BroughtVec
<1>2. V2!Pushed(k, store, l, K[p], V[p]) = new
  <2> DEFINE Nest(z) == V2!Entry(z, k.n_kv_heads, HeadSize(k))
  <2>1. store[l].k = ListOf(NestOf(k, K), p) /\ store[l].v = ListOf(NestOf(k, V), p)
    BY DEF V2Entry
  <2>2. NestOf(k, K)[p] = Nest(K[p]) /\ NestOf(k, V)[p] = Nest(V[p])
    BY DEF NestOf
  <2> HIDE DEF Nest
  <2>3. /\ Append(store[l].k, Nest(K[p])) = ListOf(NestOf(k, K), p + 1)
        /\ Append(store[l].v, Nest(V[p])) = ListOf(NestOf(k, V), p + 1)
    BY <2>1, <2>2, ListGrows
  <2>4. V2!Pushed(k, store, l, K[p], V[p])
        = [store EXCEPT ![l] = [k |-> Append(store[l].k, Nest(K[p])), v |-> Append(store[l].v, Nest(V[p]))]]
    BY DEF V2!Pushed, V2!HeadDim, HeadSize, Nest
  <2> QED
    BY <2>3, <2>4 DEF V2Entry
<1>3. V2!Attention(k, l, p, x, store) = V2!AfterPush(k, l, p, x, q, new)
  BY <1>2, V2Brings DEF V2!Attention, V2!FromNorm
<1>4. new[l] = V2Entry(k, K, V, p + 1)
  OBVIOUS
<1> HIDE DEF q, new
<1>5. V2!Attend(k, q, p, new[l]) = y
  BY <1>1, <1>4, V2Attends
<1>6. y \in Vec(k.hidden)
  BY <1>1, SeenVec
<1> HIDE DEF y
<1>7. V2!MatVec(w["o"].data, y, k.hidden, k.hidden) = Times("fp32", w["o"].data, k.hidden, y)
  <2>1. Size(y) = k.hidden
    BY <1>6, SizesSmall, VecIs
  <2> QED
    BY <2>1, V2Shares DEF Times
<1>8. V2!AfterPush(k, l, p, x, q, new) = [h |-> Sums(x, Times("fp32", w["o"].data, k.hidden, y)), cache |-> new]
  BY <1>5, <1>7, V2Shares DEF V2!AfterPush
<1> QED
  BY <1>3, <1>8 DEF RowAfter, y, q, new

-----------------------------------------------------------------------------
\* verify3 and the INT8 program: an array that keeps the heads of n rows.
Keeps(k, a, K, n) ==
  \A j \in 0 .. n - 1, g \in 0 .. k.n_kv_heads - 1, d \in 0 .. HeadSize(k) - 1 :
    a[(j * KeySize(k) + g * HeadSize(k)) + d] = K[j][g * HeadSize(k) + d]


LEMMA V3Attends ==
  ASSUME NEW k, SizesFit(k), NEW q \in Vec(k.hidden), NEW p \in Nat,
         NEW K, Rows(p + 1, KeySize(k), K), NEW V,
         NEW a, Keeps(k, a, K, p + 1), NEW b, Keeps(k, b, V, p + 1)
  PROVE  V3!Attend(k, q, 0 .. p, a, b) = SeenFrom(k, q, K, V, p, HeadSize(k))
<1> DEFINE hd == HeadSize(k)
           size == KeySize(k)
           W(head) == WeightsOf(k, q, K, p, head)
<1>1. (p + 1) - 1 = p
  OBVIOUS
<1>2. ASSUME NEW j \in 0 .. p, NEW head, head \div GroupOf(k) \in 0 .. k.n_kv_heads - 1, NEW d \in 0 .. hd - 1
      PROVE  LET at == V3!At(k, j, head)
                 g == head \div GroupOf(k)
             IN  a[at + d] = K[j][g * hd + d] /\ b[at + d] = V[j][g * hd + d]
  <2> DEFINE g == head \div GroupOf(k)
  <2>1. V3!At(k, j, head) = j * size + g * hd
    BY DEF V3!At, V3!NkvDim, V3!HeadDim, V3!Group, HeadSize, GroupOf, KeySize
  <2>2. j \in 0 .. (p + 1) - 1 /\ g \in 0 .. k.n_kv_heads - 1
    BY <1>1, <1>2
  <2> HIDE DEF g
  <2>3. a[(j * size + g * hd) + d] = K[j][g * hd + d] /\ b[(j * size + g * hd) + d] = V[j][g * hd + d]
    BY <2>2 DEF Keeps
  <2> HIDE DEF size, hd
  <2>4. a[V3!At(k, j, head) + d] = K[j][g * hd + d] /\ b[V3!At(k, j, head) + d] = V[j][g * hd + d]
    BY <2>1, <2>3
  <2> QED
    BY <2>4 DEF g
<1>4. V3!HeadDim(k) = hd
  BY DEF V3!HeadDim, HeadSize
<1>5. \A y, n : V3!HeadSlice(y, n, hd) = HeadOf(y, n, hd)
  BY DEF V3!HeadSlice, V3!Span, V3!Array, HeadOf
<1>6. ASSUME NEW head \in 0 .. k.n_heads - 1
      PROVE  V3!Weights(V3!Scores(k, q, head, 0 .. p, a)) = W(head)
  <2> DEFINE g == head \div GroupOf(k)
             S(j) == Mul(V3!DotSeq(HeadOf(q, head, hd), V3!Span(a, V3!At(k, j, head), hd)), Rsqrt(FromInt(hd)))
  <2>1. g \in 0 .. k.n_kv_heads - 1
    BY SharedHeadIs
  <2>5. \A j \in 0 .. p : V3!Span(a, V3!At(k, j, head), hd) = HeadOf(K[j], g, hd)
    <3>1. \A j \in 0 .. p : \A d \in 0 .. hd - 1 : a[V3!At(k, j, head) + d] = K[j][g * hd + d]
      BY <1>2, <2>1
    <3> HIDE DEF g, hd
    <3> QED
      BY <3>1 DEF V3!Span, V3!Array, HeadOf
  <2>2. \A j \in 0 .. p : S(j) = Score(k, q, K[j], head, hd)
    BY <2>5, SumsShared, ScoreIs
  <2>3. V3!Scores(k, q, head, 0 .. p, a) = [j \in 0 .. p |-> S(j)]
    BY <1>4, <1>5 DEF V3!Scores, V3!Array
  <2> HIDE DEF S
  <2>4. [j \in 0 .. p |-> S(j)] = ScoresOf(k, q, K, p + 1, head)
    BY <1>1, <2>2 DEF ScoresOf
  <2> QED
    BY <2>3, <2>4, V3Shares, WeightsAre
<1>7. ASSUME NEW i \in 0 .. k.hidden - 1
      PROVE  /\ i \div hd \in 0 .. k.n_heads - 1 /\ i % hd \in 0 .. hd - 1
             /\ (i \div hd) \div GroupOf(k) \in 0 .. k.n_kv_heads - 1
  BY HeadsIndex
<1>8. ASSUME NEW head \in 0 .. k.n_heads - 1, NEW d \in 0 .. hd - 1, head \div GroupOf(k) \in 0 .. k.n_kv_heads - 1
      PROVE  V3!Mixed(k, W(head), head, d, b)
             = LeftSum([j \in 0 .. p |-> Mul(W(head)[j], V[j][(head \div GroupOf(k)) * hd + d])])
  <2> DEFINE g == head \div GroupOf(k)
             y == W(head)
  <2>1. DOMAIN y = 0 .. p
    BY WeightsAre
  <2>2. \A j \in 0 .. p : b[V3!At(k, j, head) + d] = V[j][g * hd + d]
    BY <1>2, <1>8
  <2> HIDE DEF y, g, hd
  <2>3. V3!Mixed(k, y, head, d, b) = LeftSum([j \in 0 .. p |-> Mul(y[j], V[j][g * hd + d])])
    BY <2>1, <2>2, SumsShared DEF V3!Mixed
  <2> QED
    BY <2>3 DEF y, g
<1>9. V3!Attend(k, q, 0 .. p, a, b)
      = V3!Mix(k, [head \in 0 .. k.n_heads - 1 |-> V3!Weights(V3!Scores(k, q, head, 0 .. p, a))], b)
  BY DEF V3!Attend, V3!Array
<1>10. V3!Attend(k, q, 0 .. p, a, b) = V3!Mix(k, [head \in 0 .. k.n_heads - 1 |-> W(head)], b)
  BY <1>6, <1>9
<1> HIDE DEF W
<1>11. V3!Attend(k, q, 0 .. p, a, b) = [i \in 0 .. k.hidden - 1 |-> V3!Mixed(k, W(i \div hd), i \div hd, i % hd, b)]
  BY <1>4, <1>7, <1>10 DEF V3!Mix, V3!Array
<1>12. V3!Attend(k, q, 0 .. p, a, b)
       = [i \in 0 .. k.hidden - 1 |->
            LeftSum([j \in 0 .. p |-> Mul(W(i \div hd)[j], V[j][((i \div hd) \div GroupOf(k)) * hd + (i % hd)])])]
  BY <1>7, <1>8, <1>11
<1> QED
  BY <1>12, SeenBy DEF W

LEMMA BatchAttends ==
  ASSUME NEW k, SizesFit(k), NEW q \in Vec(k.hidden), NEW p \in Nat,
         NEW K, Rows(p + 1, KeySize(k), K), NEW V,
         NEW a, Keeps(k, a, K, p + 1), NEW b, Keeps(k, b, V, p + 1)
  PROVE  Batch!Attend(k, q, 0 .. p, a, b) = SeenFrom(k, q, K, V, p, HeadSize(k))
<1> DEFINE hd == HeadSize(k)
           size == KeySize(k)
           W(head) == WeightsOf(k, q, K, p, head)
<1>1. (p + 1) - 1 = p
  OBVIOUS
<1>2. ASSUME NEW j \in 0 .. p, NEW head, head \div GroupOf(k) \in 0 .. k.n_kv_heads - 1, NEW d \in 0 .. hd - 1
      PROVE  LET at == Batch!At(k, j, head)
                 g == head \div GroupOf(k)
             IN  a[at + d] = K[j][g * hd + d] /\ b[at + d] = V[j][g * hd + d]
  <2> DEFINE g == head \div GroupOf(k)
  <2>1. Batch!At(k, j, head) = j * size + g * hd
    BY DEF Batch!At, Batch!NkvDim, Batch!HeadDim, Batch!Group, HeadSize, GroupOf, KeySize
  <2>2. j \in 0 .. (p + 1) - 1 /\ g \in 0 .. k.n_kv_heads - 1
    BY <1>1, <1>2
  <2> HIDE DEF g
  <2>3. a[(j * size + g * hd) + d] = K[j][g * hd + d] /\ b[(j * size + g * hd) + d] = V[j][g * hd + d]
    BY <2>2 DEF Keeps
  <2> HIDE DEF size, hd
  <2>4. a[Batch!At(k, j, head) + d] = K[j][g * hd + d] /\ b[Batch!At(k, j, head) + d] = V[j][g * hd + d]
    BY <2>1, <2>3
  <2> QED
    BY <2>4 DEF g
<1>4. Batch!HeadDim(k) = hd
  BY DEF Batch!HeadDim, HeadSize
<1>5. \A y, n : Batch!HeadSlice(y, n, hd) = HeadOf(y, n, hd)
  BY DEF Batch!HeadSlice, Batch!Span, Batch!Array, HeadOf
<1>6. ASSUME NEW head \in 0 .. k.n_heads - 1
      PROVE  Batch!Weights(Batch!Scores(k, q, head, 0 .. p, a)) = W(head)
  <2> DEFINE g == head \div GroupOf(k)
             S(j) == Mul(Batch!DotSeq(HeadOf(q, head, hd), Batch!Span(a, Batch!At(k, j, head), hd)), Rsqrt(FromInt(hd)))
  <2>1. g \in 0 .. k.n_kv_heads - 1
    BY SharedHeadIs
  <2>5. \A j \in 0 .. p : Batch!Span(a, Batch!At(k, j, head), hd) = HeadOf(K[j], g, hd)
    <3>1. \A j \in 0 .. p : \A d \in 0 .. hd - 1 : a[Batch!At(k, j, head) + d] = K[j][g * hd + d]
      BY <1>2, <2>1
    <3> HIDE DEF g, hd
    <3> QED
      BY <3>1 DEF Batch!Span, Batch!Array, HeadOf
  <2>2. \A j \in 0 .. p : S(j) = Score(k, q, K[j], head, hd)
    BY <2>5, SumsShared, ScoreIs
  <2>3. Batch!Scores(k, q, head, 0 .. p, a) = [j \in 0 .. p |-> S(j)]
    BY <1>4, <1>5 DEF Batch!Scores, Batch!Array
  <2> HIDE DEF S
  <2>4. [j \in 0 .. p |-> S(j)] = ScoresOf(k, q, K, p + 1, head)
    BY <1>1, <2>2 DEF ScoresOf
  <2> QED
    BY <2>3, <2>4, BatchShares, WeightsAre
<1>7. ASSUME NEW i \in 0 .. k.hidden - 1
      PROVE  /\ i \div hd \in 0 .. k.n_heads - 1 /\ i % hd \in 0 .. hd - 1
             /\ (i \div hd) \div GroupOf(k) \in 0 .. k.n_kv_heads - 1
  BY HeadsIndex
<1>8. ASSUME NEW head \in 0 .. k.n_heads - 1, NEW d \in 0 .. hd - 1, head \div GroupOf(k) \in 0 .. k.n_kv_heads - 1
      PROVE  Batch!Mixed(k, W(head), head, d, b)
             = LeftSum([j \in 0 .. p |-> Mul(W(head)[j], V[j][(head \div GroupOf(k)) * hd + d])])
  <2> DEFINE g == head \div GroupOf(k)
             y == W(head)
  <2>1. DOMAIN y = 0 .. p
    BY WeightsAre
  <2>2. \A j \in 0 .. p : b[Batch!At(k, j, head) + d] = V[j][g * hd + d]
    BY <1>2, <1>8
  <2> HIDE DEF y, g, hd
  <2>3. Batch!Mixed(k, y, head, d, b) = LeftSum([j \in 0 .. p |-> Mul(y[j], V[j][g * hd + d])])
    BY <2>1, <2>2, SumsShared DEF Batch!Mixed
  <2> QED
    BY <2>3 DEF y, g
<1>9. Batch!Attend(k, q, 0 .. p, a, b)
      = Batch!Mix(k, [head \in 0 .. k.n_heads - 1 |-> Batch!Weights(Batch!Scores(k, q, head, 0 .. p, a))], b)
  BY DEF Batch!Attend, Batch!Array
<1>10. Batch!Attend(k, q, 0 .. p, a, b) = Batch!Mix(k, [head \in 0 .. k.n_heads - 1 |-> W(head)], b)
  BY <1>6, <1>9
<1> HIDE DEF W
<1>11. Batch!Attend(k, q, 0 .. p, a, b) = [i \in 0 .. k.hidden - 1 |-> Batch!Mixed(k, W(i \div hd), i \div hd, i % hd, b)]
  BY <1>4, <1>7, <1>10 DEF Batch!Mix, Batch!Array
<1>12. Batch!Attend(k, q, 0 .. p, a, b)
       = [i \in 0 .. k.hidden - 1 |->
            LeftSum([j \in 0 .. p |-> Mul(W(i \div hd)[j], V[j][((i \div hd) \div GroupOf(k)) * hd + (i % hd)])])]
  BY <1>7, <1>8, <1>11
<1> QED
  BY <1>12, SeenBy DEF W

LEMMA FlatKeeps ==
  ASSUME NEW n \in Nat, NEW k, SizesFit(k), NEW K
  PROVE  Keeps(k, FlatOf(K, n, KeySize(k)), K, n)
BY FlatHead DEF Keeps

\* The array of verify3 has room for all positions, and rows yet to be written.
FilledOf(K, n, room, size) ==
  [i \in 0 .. room * size - 1 |-> IF i \div size < n THEN K[i \div size][i % size] ELSE Unset]
V3Entry(k, K, V, n, room) ==
  [k |-> FilledOf(K, n, room, KeySize(k)), v |-> FilledOf(V, n, room, KeySize(k))]

LEMMA FilledKeeps ==
  ASSUME NEW n \in Nat, NEW room \in Nat, n <= room, NEW k, SizesFit(k), NEW K
  PROVE  Keeps(k, FilledOf(K, n, room, KeySize(k)), K, n)
<1> DEFINE hd == HeadSize(k)
           size == KeySize(k)
           m == room * size
<1>0. size \in Nat /\ size # 0 /\ hd \in Nat /\ k.n_kv_heads \in Nat
  BY DEF SizesFit
<1> SUFFICES ASSUME NEW j \in 0 .. n - 1, NEW g \in 0 .. k.n_kv_heads - 1, NEW d \in 0 .. hd - 1
             PROVE  FilledOf(K, n, room, size)[(j * size + g * hd) + d] = K[j][g * hd + d]
  BY DEF Keeps
<1> DEFINE r == g * hd + d
           i == (j * size + g * hd) + d
<1>1. r \in 0 .. size - 1
  <2>1. g * hd + d \in 0 .. k.n_kv_heads * hd - 1
    BY <1>0, RowIndex
  <2> QED
    BY <2>1 DEF KeySize
<1>2. i = j * size + r
  <2> DEFINE a == j * size
             b == g * hd
  <2>1. a \in Nat /\ b \in Nat
    BY <1>0, TimesMore
  <2> HIDE DEF a, b
  <2>2. (a + b) + d = a + (b + d)
    BY <2>1
  <2> QED
    BY <2>2 DEF a, b
<1>3. j \in 0 .. room - 1 /\ j < n /\ j \in Nat
  OBVIOUS
<1> HIDE DEF r, size, hd
<1>4. j * size + r \in 0 .. room * size - 1 /\ (j * size + r) \div size = j /\ (j * size + r) % size = r
  BY <1>0, <1>1, <1>3, RowIndex, RowOf
<1> HIDE DEF i
<1>5. i \in 0 .. m - 1 /\ i \div size = j /\ i % size = r
  BY <1>2, <1>4
<1> HIDE DEF m
<1>6. FilledOf(K, n, room, size)[i] = K[j][r]
  BY <1>3, <1>5 DEF FilledOf, m
<1> QED
  BY <1>6 DEF i, r

LEMMA FilledGrows ==
  ASSUME NEW n \in Nat, NEW room \in Nat, NEW size \in Nat, size # 0, NEW K, K[n] \in Vec(size)
  PROVE  V3!Stored(FilledOf(K, n, room, size), n, K[n]) = FilledOf(K, n + 1, room, size)
<1> DEFINE D == 0 .. room * size - 1
           a == FilledOf(K, n, room, size)
           z == FilledOf(K, n + 1, room, size)
<1>1. V3!Size(K[n]) = size
  BY VecIs, SizesAre
<1>2. room * size \in Nat
  BY TimesMore
<1>3. ASSUME NEW i \in D
      PROVE  (IF i \div size = n THEN K[n][i % size] ELSE a[i])
             = IF i \div size < n + 1 THEN K[i \div size][i % size] ELSE Unset
  <2> DEFINE o == i \div size
  <2>1. a[i] = IF o < n THEN K[o][i % size] ELSE Unset
    BY DEF FilledOf
  <2>2. o \in Int
    <3> DEFINE m == room * size
    <3> HIDE DEF m
    <3>1. i \in 0 .. m - 1 => i \div size \in Int
      BY <1>2 DEF m
    <3> QED
      BY <3>1 DEF m
  <2> HIDE DEF a, o, D
  <2>3. CASE o = n
    <3>1. o < n + 1
      BY <2>3
    <3> QED
      BY <2>3, <3>1 DEF o
  <2>4. CASE o # n
    <3>1. o < n + 1 <=> o < n
      BY <2>2, <2>4
    <3> QED
      BY <2>1, <2>4, <3>1 DEF o
  <2> QED
    BY <2>3, <2>4
<1>4. DOMAIN a = D
  BY DEF FilledOf
<1> HIDE DEF a, D
<1>5. V3!Stored(a, n, K[n]) = [i \in D |-> IF i \div size = n THEN K[n][i % size] ELSE a[i]]
  BY <1>1, <1>4 DEF V3!Stored, V3!Array
<1>6. z = [i \in D |-> IF i \div size < n + 1 THEN K[i \div size][i % size] ELSE Unset]
  BY DEF FilledOf, D
<1> HIDE DEF z
<1>7. V3!Stored(a, n, K[n]) = z
  BY <1>3, <1>5, <1>6
<1> QED
  BY <1>7 DEF a, z

LEMMA V3Brings ==
  ASSUME NEW k, SizesFit(k), NEW w, LayerFits(k, w), NEW x \in Vec(k.hidden), NEW p
  PROVE  LET ln1 == V3!RmsNorm(x, w["ln1"].data, k.eps)
             table == V3!RopeTable(V3!InvFreq(k), p)
         IN  /\ V3!RopeHeads(k, V3!Projected(k, w, "q", "q_bias", k.hidden, ln1), table) = QueryOf("fp32", k, w, x, p)
             /\ V3!RopeHeads(k, V3!Projected(k, w, "k", "k_bias", V3!NkvDim(k), ln1), table) = KeyOf("fp32", k, w, x, p)
             /\ V3!Projected(k, w, "v", "v_bias", V3!NkvDim(k), ln1) = ValueOf("fp32", k, w, x)
<1> DEFINE y == InputOf(k, w, x)
           table == V3!RopeTable(V3!InvFreq(k), p)
<1>1. V3!RmsNorm(x, w["ln1"].data, k.eps) = y /\ V3!NkvDim(k) = KeySize(k)
  BY V3Shares DEF InputOf, V3!NkvDim, V3!HeadDim, KeySize, HeadSize
<1>2. y \in Vec(k.hidden) /\ Size(y) = k.hidden
  BY InputVec
<1> HIDE DEF y
<1>3. \A name, bias, rows : V3!Projected(k, w, name, bias, rows, y) = Linear("fp32", k, w, name, bias, rows, y)
  <2>1. \A m, rows : V3!MatVec(m, y, rows, k.hidden) = Times("fp32", m, rows, y)
    BY <1>2, V3Shares DEF Times
  <2> QED
    BY <2>1, V3Shares DEF V3!Projected, V3!AddBiasOpt, Linear
<1>4. V3!RopeHeads(k, Linear("fp32", k, w, "q", "q_bias", k.hidden, y), table) = QueryOf("fp32", k, w, x, p)
  BY <1>2, LinearDomains, V3Rotated DEF QueryOf, y
<1>5. V3!RopeHeads(k, Linear("fp32", k, w, "k", "k_bias", KeySize(k), y), table) = KeyOf("fp32", k, w, x, p)
  BY <1>2, LinearDomains, V3Rotated DEF KeyOf, y
<1>6. Linear("fp32", k, w, "v", "v_bias", KeySize(k), y) = ValueOf("fp32", k, w, x)
  BY DEF ValueOf, y
<1> QED
  BY <1>1, <1>3, <1>4, <1>5, <1>6

LEMMA V3Attention ==
  ASSUME NEW k, NEW l, NEW x, NEW p, NEW K, NEW V, Brought(k, l, x, p, K, V), NEW room \in Nat, p < room,
         NEW store, l \in DOMAIN store, store[l] = V3Entry(k, K, V, p, room)
  PROVE  V3!Attention(k, l, p, x, store)
         = [h |-> RowAfter("fp32", k, k.layers[l], x, K, V, p),
            cache |-> [store EXCEPT ![l] = V3Entry(k, K, V, p + 1, room)]]
<1> DEFINE w == k.layers[l]
           q == QueryOf("fp32", k, w, x, p)
           new == [store EXCEPT ![l] = V3Entry(k, K, V, p + 1, room)]
           y == SeenFrom(k, q, K, V, p, HeadSize(k))
           size == KeySize(k)
<1>0. /\ SizesFit(k) /\ LayerFits(k, k.layers[l]) /\ x \in Vec(k.hidden) /\ p \in Nat /\ p <= MaxInt
      /\ Rows(p + 1, KeySize(k), K) /\ K[p] = KeyOf("fp32", k, k.layers[l], x, p)
      /\ Rows(p + 1, KeySize(k), V) /\ V[p] = ValueOf("fp32", k, k.layers[l], x)
  BY DEF Brought
<1> USE <1>0
<1>1. q \in Vec(k.hidden)
  BY BroughtVec
<1>2. V3!StoredAt(store, l, p, K[p], V[p]) = new
  <2>1. store[l].k = FilledOf(K, p, room, size) /\ store[l].v = FilledOf(V, p, room, size)
    BY DEF V3Entry
  <2>2. size \in Nat /\ size # 0 /\ K[p] \in Vec(size) /\ V[p] \in Vec(size)
    <3>1. p \in 0 .. (p + 1) - 1
      OBVIOUS
    <3> QED
      BY <3>1 DEF SizesFit, Rows
  <2>3. /\ V3!Stored(store[l].k, p, K[p]) = FilledOf(K, p + 1, room, size)
        /\ V3!Stored(store[l].v, p, V[p]) = FilledOf(V, p + 1, room, size)
    BY <2>1, <2>2, FilledGrows
  <2>4. V3!StoredAt(store, l, p, K[p], V[p])
        = [store EXCEPT ![l] = [k |-> V3!Stored(store[l].k, p, K[p]), v |-> V3!Stored(store[l].v, p, V[p])]]
    BY DEF V3!StoredAt
  <2> QED
    BY <2>3, <2>4 DEF V3Entry
<1>3. V3!Attention(k, l, p, x, store) = V3!AfterStore(k, l, p, x, q, new)
  BY <1>2, V3Brings DEF V3!Attention, V3!FromNorm
<1>4. /\ new[l].k = FilledOf(K, p + 1, room, size) /\ new[l].v = FilledOf(V, p + 1, room, size)
  BY DEF V3Entry
<1> HIDE DEF q, new
<1>5. V3!Attend(k, q, 0 .. p, new[l].k, new[l].v) = y
  <2>1. p + 1 \in Nat /\ p + 1 <= room
    OBVIOUS
  <2>2. Keeps(k, new[l].k, K, p + 1) /\ Keeps(k, new[l].v, V, p + 1)
    BY <1>4, <2>1, FilledKeeps
  <2> QED
    BY <1>1, <2>2, V3Attends
<1>6. y \in Vec(k.hidden)
  BY <1>1, SeenVec
<1> HIDE DEF y
<1>7. V3!MatVec(w["o"].data, y, k.hidden, k.hidden) = Times("fp32", w["o"].data, k.hidden, y)
  <2>1. Size(y) = k.hidden
    BY <1>6, SizesSmall, VecIs
  <2> QED
    BY <2>1, V3Shares DEF Times
<1>8. V3!AfterStore(k, l, p, x, q, new) = [h |-> Sums(x, Times("fp32", w["o"].data, k.hidden, y)), cache |-> new]
  BY <1>5, <1>7, V3Shares DEF V3!AfterStore
<1> QED
  BY <1>3, <1>8 DEF RowAfter, y, q, new

-----------------------------------------------------------------------------
\* The embedding, the MLP and the head of the programs that go by positions.
HeadOfFormula(k) == IF k.tied THEN k.tensors["embed"].data ELSE k.tensors["lm_head"].data

LEMMA LogitsAre ==
  ASSUME NEW num, NEW k, NEW x
  PROVE  LogitsFrom(num, k, x) = Times(num, HeadOfFormula(k), k.vocab, Normed(x, k.tensors["norm"].data, k.eps))
BY DEF LogitsFrom, HeadOfFormula

\* A vector that is normed is as long as the residual.
LEMMA NormedSize ==
  ASSUME NEW k, SizesFit(k), NEW x \in Vec(k.hidden), NEW gain \in Vec(k.hidden)
  PROVE  Normed(x, gain, k.eps) \in Vec(k.hidden) /\ Size(Normed(x, gain, k.eps)) = k.hidden
<1>1. Normed(x, gain, k.eps) \in Vec(k.hidden)
  BY SizesSmall, NormedVec DEF SizesFit
<1> QED
  BY <1>1, SizesSmall, VecIs

LEMMA CVPasses ==
  ASSUME NEW k, SizesFit(k)
  PROVE  /\ \A token : CV!Embed(k, token) = EmbeddingOf("fp32", k, token)
         /\ \A l, x : LayerFits(k, k.layers[l]) /\ x \in Vec(k.hidden)
                      => CV!Mlp(k, l, x) = MlpRow("fp32", k, k.layers[l], x)
         /\ \A x : HeadFits(k) /\ x \in Vec(k.hidden)
                   => CV!Logits(k, x) = LogitsFrom("fp32", k, x)
<1>1. \A token : CV!Embed(k, token) = EmbeddingOf("fp32", k, token)
  BY DEF CV!Embed, CV!Span, CV!Array, EmbeddingOf, MatrixRow, Array
<1>2. ASSUME NEW l, NEW x \in Vec(k.hidden), LayerFits(k, k.layers[l])
      PROVE  CV!Mlp(k, l, x) = MlpRow("fp32", k, k.layers[l], x)
  <2> DEFINE w == k.layers[l]
             y == Normed(x, w["ln2"].data, k.eps)
             gate == Times("fp32", w["gate"].data, k.inter, y)
             up == Times("fp32", w["up"].data, k.inter, y)
             z == Gated(gate, up)
  <2>1. y \in Vec(k.hidden) /\ Size(y) = k.hidden
    BY <1>2, NormedSize DEF LayerFits
  <2>2. CV!Mlp(k, l, x) = CV!MlpFrom(k, w, x, y)
    BY CVShares DEF CV!Mlp
  <2>3. w["gate"].data \in Vec(k.inter * k.hidden) /\ w["up"].data \in Vec(k.inter * k.hidden)
    BY <1>2 DEF LayerFits
  <2> HIDE DEF y, w
  <2>4. CV!MatVec(w["gate"].data, y, k.inter, k.hidden) = gate /\ CV!MatVec(w["up"].data, y, k.inter, k.hidden) = up
    BY <2>1, CVShares DEF Times
  <2>5. gate \in Vec(k.inter) /\ up \in Vec(k.inter)
    BY <2>1, <2>3, SizesSmall, TimesVec DEF SizesFit
  <2> HIDE DEF gate, up
  <2>6. z \in Vec(k.inter) /\ Size(z) = k.inter
    <3>1. z \in Vec(k.inter)
      BY <2>5, SizesSmall, GatedVec
    <3> QED
      BY <3>1, SizesSmall, VecIs
  <2>7. CV!Hidden(gate, up) = z
    BY CVShares
  <2> HIDE DEF z
  <2>8. CV!MatVec(w["down"].data, z, k.hidden, k.inter) = Times("fp32", w["down"].data, k.hidden, z)
    BY <2>6, CVShares DEF Times
  <2>9. CV!MlpFrom(k, w, x, y) = Sums(x, Times("fp32", w["down"].data, k.hidden, z))
    BY <2>4, <2>7, <2>8, CVShares DEF CV!MlpFrom
  <2> QED
    BY <2>2, <2>9 DEF MlpRow, MlpOf, z, gate, up, y, w
<1>3. ASSUME NEW x \in Vec(k.hidden), HeadFits(k)
      PROVE  CV!Logits(k, x) = LogitsFrom("fp32", k, x)
  <2> DEFINE y == Normed(x, k.tensors["norm"].data, k.eps)
             m == HeadOfFormula(k)
  <2>1. y \in Vec(k.hidden) /\ Size(y) = k.hidden
    BY <1>3, NormedSize DEF HeadFits
  <2>2. CV!Logits(k, x) = CV!MatVec(m, y, k.vocab, k.hidden)
    BY <1>3, CVShares DEF CV!Logits, HeadOfFormula, CV!LmHead
  <2> HIDE DEF y, m
  <2>3. CV!MatVec(m, y, k.vocab, k.hidden) = Times("fp32", m, k.vocab, y)
    BY <2>1, CVShares DEF Times
  <2> QED
    BY <2>2, <2>3, LogitsAre DEF y, m
<1> QED
  BY <1>1, <1>2, <1>3

LEMMA ReferencePasses ==
  ASSUME NEW k, SizesFit(k)
  PROVE  /\ \A token : Reference!Embed(k, token) = EmbeddingOf("fp32", k, token)
         /\ \A l, x : LayerFits(k, k.layers[l]) /\ x \in Vec(k.hidden)
                      => Reference!Mlp(k, l, x) = MlpRow("fp32", k, k.layers[l], x)
         /\ \A x : HeadFits(k) /\ x \in Vec(k.hidden)
                   => Reference!Logits(k, x) = LogitsFrom("fp32", k, x)
<1>1. \A token : Reference!Embed(k, token) = EmbeddingOf("fp32", k, token)
  BY DEF Reference!Embed, Reference!Span, Reference!Array, EmbeddingOf, MatrixRow, Array
<1>2. ASSUME NEW l, NEW x \in Vec(k.hidden), LayerFits(k, k.layers[l])
      PROVE  Reference!Mlp(k, l, x) = MlpRow("fp32", k, k.layers[l], x)
  <2> DEFINE w == k.layers[l]
             y == Normed(x, w["ln2"].data, k.eps)
             gate == Times("fp32", w["gate"].data, k.inter, y)
             up == Times("fp32", w["up"].data, k.inter, y)
             z == Gated(gate, up)
  <2>1. y \in Vec(k.hidden) /\ Size(y) = k.hidden
    BY <1>2, NormedSize DEF LayerFits
  <2>2. Reference!Mlp(k, l, x) = Reference!MlpFrom(k, w, x, y)
    BY ReferenceShares DEF Reference!Mlp
  <2>3. w["gate"].data \in Vec(k.inter * k.hidden) /\ w["up"].data \in Vec(k.inter * k.hidden)
    BY <1>2 DEF LayerFits
  <2> HIDE DEF y, w
  <2>4. Reference!MatVec(w["gate"].data, y, k.inter, k.hidden) = gate /\ Reference!MatVec(w["up"].data, y, k.inter, k.hidden) = up
    BY <2>1, ReferenceShares DEF Times
  <2>5. gate \in Vec(k.inter) /\ up \in Vec(k.inter)
    BY <2>1, <2>3, SizesSmall, TimesVec DEF SizesFit
  <2> HIDE DEF gate, up
  <2>6. z \in Vec(k.inter) /\ Size(z) = k.inter
    <3>1. z \in Vec(k.inter)
      BY <2>5, SizesSmall, GatedVec
    <3> QED
      BY <3>1, SizesSmall, VecIs
  <2>7. Reference!Hidden(gate, up) = z
    BY ReferenceShares
  <2> HIDE DEF z
  <2>8. Reference!MatVec(w["down"].data, z, k.hidden, k.inter) = Times("fp32", w["down"].data, k.hidden, z)
    BY <2>6, ReferenceShares DEF Times
  <2>9. Reference!MlpFrom(k, w, x, y) = Sums(x, Times("fp32", w["down"].data, k.hidden, z))
    BY <2>4, <2>7, <2>8, ReferenceShares DEF Reference!MlpFrom
  <2> QED
    BY <2>2, <2>9 DEF MlpRow, MlpOf, z, gate, up, y, w
<1>3. ASSUME NEW x \in Vec(k.hidden), HeadFits(k)
      PROVE  Reference!Logits(k, x) = LogitsFrom("fp32", k, x)
  <2> DEFINE y == Normed(x, k.tensors["norm"].data, k.eps)
             m == HeadOfFormula(k)
  <2>1. y \in Vec(k.hidden) /\ Size(y) = k.hidden
    BY <1>3, NormedSize DEF HeadFits
  <2>2. Reference!Logits(k, x) = Reference!MatVec(m, y, k.vocab, k.hidden)
    BY <1>3, ReferenceShares DEF Reference!Logits, HeadOfFormula, Reference!LmHead
  <2> HIDE DEF y, m
  <2>3. Reference!MatVec(m, y, k.vocab, k.hidden) = Times("fp32", m, k.vocab, y)
    BY <2>1, ReferenceShares DEF Times
  <2> QED
    BY <2>2, <2>3, LogitsAre DEF y, m
<1> QED
  BY <1>1, <1>2, <1>3

LEMMA V2Passes ==
  ASSUME NEW k, SizesFit(k)
  PROVE  /\ \A token : V2!Embed(k, token) = EmbeddingOf("fp32", k, token)
         /\ \A l, x : LayerFits(k, k.layers[l]) /\ x \in Vec(k.hidden)
                      => V2!Mlp(k, l, x) = MlpRow("fp32", k, k.layers[l], x)
         /\ \A x : HeadFits(k) /\ k.tied /\ x \in Vec(k.hidden)
                   => V2!Logits(k, x) = LogitsFrom("fp32", k, x)
<1>1. \A token : V2!Embed(k, token) = EmbeddingOf("fp32", k, token)
  BY DEF V2!Embed, V2!Span, V2!Array, EmbeddingOf, MatrixRow, Array
<1>2. ASSUME NEW l, NEW x \in Vec(k.hidden), LayerFits(k, k.layers[l])
      PROVE  V2!Mlp(k, l, x) = MlpRow("fp32", k, k.layers[l], x)
  <2> DEFINE w == k.layers[l]
             y == Normed(x, w["ln2"].data, k.eps)
             gate == Times("fp32", w["gate"].data, k.inter, y)
             up == Times("fp32", w["up"].data, k.inter, y)
             z == Gated(gate, up)
  <2>1. y \in Vec(k.hidden) /\ Size(y) = k.hidden
    BY <1>2, NormedSize DEF LayerFits
  <2>2. V2!Mlp(k, l, x) = V2!MlpFrom(k, w, x, y)
    BY V2Shares DEF V2!Mlp
  <2>3. w["gate"].data \in Vec(k.inter * k.hidden) /\ w["up"].data \in Vec(k.inter * k.hidden)
    BY <1>2 DEF LayerFits
  <2> HIDE DEF y, w
  <2>4. V2!MatVec(w["gate"].data, y, k.inter, k.hidden) = gate /\ V2!MatVec(w["up"].data, y, k.inter, k.hidden) = up
    BY <2>1, V2Shares DEF Times
  <2>5. gate \in Vec(k.inter) /\ up \in Vec(k.inter)
    BY <2>1, <2>3, SizesSmall, TimesVec DEF SizesFit
  <2> HIDE DEF gate, up
  <2>6. z \in Vec(k.inter) /\ Size(z) = k.inter
    <3>1. z \in Vec(k.inter)
      BY <2>5, SizesSmall, GatedVec
    <3> QED
      BY <3>1, SizesSmall, VecIs
  <2>7. V2!Hidden(gate, up) = z
    BY V2Shares
  <2> HIDE DEF z
  <2>8. V2!MatVec(w["down"].data, z, k.hidden, k.inter) = Times("fp32", w["down"].data, k.hidden, z)
    BY <2>6, V2Shares DEF Times
  <2>9. V2!MlpFrom(k, w, x, y) = Sums(x, Times("fp32", w["down"].data, k.hidden, z))
    BY <2>4, <2>7, <2>8, V2Shares DEF V2!MlpFrom
  <2> QED
    BY <2>2, <2>9 DEF MlpRow, MlpOf, z, gate, up, y, w
<1>3. ASSUME NEW x \in Vec(k.hidden), HeadFits(k), k.tied
      PROVE  V2!Logits(k, x) = LogitsFrom("fp32", k, x)
  <2> DEFINE y == Normed(x, k.tensors["norm"].data, k.eps)
             m == HeadOfFormula(k)
  <2>1. y \in Vec(k.hidden) /\ Size(y) = k.hidden
    BY <1>3, NormedSize DEF HeadFits
  <2>2. V2!Logits(k, x) = V2!MatVec(m, y, k.vocab, k.hidden)
    BY <1>3, V2Shares DEF V2!Logits, HeadOfFormula
  <2> HIDE DEF y, m
  <2>3. V2!MatVec(m, y, k.vocab, k.hidden) = Times("fp32", m, k.vocab, y)
    BY <2>1, V2Shares DEF Times
  <2> QED
    BY <2>2, <2>3, LogitsAre DEF y, m
<1> QED
  BY <1>1, <1>2, <1>3

LEMMA V3Passes ==
  ASSUME NEW k, SizesFit(k)
  PROVE  /\ \A token : V3!Embed(k, token) = EmbeddingOf("fp32", k, token)
         /\ \A l, x : LayerFits(k, k.layers[l]) /\ x \in Vec(k.hidden)
                      => V3!Mlp(k, l, x) = MlpRow("fp32", k, k.layers[l], x)
         /\ \A x : HeadFits(k) /\ x \in Vec(k.hidden)
                   => V3!Logits(k, x) = LogitsFrom("fp32", k, x)
<1>1. \A token : V3!Embed(k, token) = EmbeddingOf("fp32", k, token)
  BY DEF V3!Embed, V3!Span, V3!Array, EmbeddingOf, MatrixRow, Array
<1>2. ASSUME NEW l, NEW x \in Vec(k.hidden), LayerFits(k, k.layers[l])
      PROVE  V3!Mlp(k, l, x) = MlpRow("fp32", k, k.layers[l], x)
  <2> DEFINE w == k.layers[l]
             y == Normed(x, w["ln2"].data, k.eps)
             gate == Times("fp32", w["gate"].data, k.inter, y)
             up == Times("fp32", w["up"].data, k.inter, y)
             z == Gated(gate, up)
  <2>1. y \in Vec(k.hidden) /\ Size(y) = k.hidden
    BY <1>2, NormedSize DEF LayerFits
  <2>2. V3!Mlp(k, l, x) = V3!MlpFrom(k, w, x, y)
    BY V3Shares DEF V3!Mlp
  <2>3. w["gate"].data \in Vec(k.inter * k.hidden) /\ w["up"].data \in Vec(k.inter * k.hidden)
    BY <1>2 DEF LayerFits
  <2> HIDE DEF y, w
  <2>4. V3!MatVec(w["gate"].data, y, k.inter, k.hidden) = gate /\ V3!MatVec(w["up"].data, y, k.inter, k.hidden) = up
    BY <2>1, V3Shares DEF Times
  <2>5. gate \in Vec(k.inter) /\ up \in Vec(k.inter)
    BY <2>1, <2>3, SizesSmall, TimesVec DEF SizesFit
  <2> HIDE DEF gate, up
  <2>6. z \in Vec(k.inter) /\ Size(z) = k.inter
    <3>1. z \in Vec(k.inter)
      BY <2>5, SizesSmall, GatedVec
    <3> QED
      BY <3>1, SizesSmall, VecIs
  <2>7. V3!Hidden(gate, up) = z
    BY V3Shares
  <2> HIDE DEF z
  <2>8. V3!MatVec(w["down"].data, z, k.hidden, k.inter) = Times("fp32", w["down"].data, k.hidden, z)
    BY <2>6, V3Shares DEF Times
  <2>9. V3!MlpFrom(k, w, x, y) = Sums(x, Times("fp32", w["down"].data, k.hidden, z))
    BY <2>4, <2>7, <2>8, V3Shares DEF V3!MlpFrom
  <2> QED
    BY <2>2, <2>9 DEF MlpRow, MlpOf, z, gate, up, y, w
<1>3. ASSUME NEW x \in Vec(k.hidden), HeadFits(k)
      PROVE  V3!Logits(k, x) = LogitsFrom("fp32", k, x)
  <2> DEFINE y == Normed(x, k.tensors["norm"].data, k.eps)
             m == HeadOfFormula(k)
  <2>1. y \in Vec(k.hidden) /\ Size(y) = k.hidden
    BY <1>3, NormedSize DEF HeadFits
  <2>2. V3!Logits(k, x) = V3!MatVec(m, y, k.vocab, k.hidden)
    BY <1>3, V3Shares DEF V3!Logits, HeadOfFormula, V3!LmHead, HeadFits
  <2> HIDE DEF y, m
  <2>3. V3!MatVec(m, y, k.vocab, k.hidden) = Times("fp32", m, k.vocab, y)
    BY <2>1, V3Shares DEF Times
  <2> QED
    BY <2>2, <2>3, LogitsAre DEF y, m
<1> QED
  BY <1>1, <1>2, <1>3

-----------------------------------------------------------------------------
\* The INT8 program: a matrix in both of its modes is the formula's.
NumOf(b) == IF b THEN "int8" ELSE "fp32"

\* A vector as the program keeps it.
Kept(x) == [q |-> InSteps(x).levels, scale |-> InSteps(x).step]

LEMMA QuantizedRows ==
  ASSUME NEW rows \in Nat, NEW n \in Nat, NEW w \in Vec(rows * n)
  PROVE  Batch!QuantizeMatrix(w, rows, n) = [o \in 0 .. rows - 1 |-> Kept(MatrixRow(w, o, n))]
<1>1. ASSUME NEW o \in 0 .. rows - 1
      PROVE  Batch!QuantizeVec(Batch!Span(w, o * n, n)) = Kept(MatrixRow(w, o, n))
  <2>1. Batch!Span(w, o * n, n) = MatrixRow(w, o, n)
    BY DEF Batch!Span, Batch!Array, MatrixRow, Array
  <2>2. MatrixRow(w, o, n) \in Vec(n)
    BY RowVec
  <2> QED
    BY <2>1, <2>2, InStepsIs DEF Kept
<1> QED
  BY <1>1 DEF Batch!QuantizeMatrix, Batch!Array

LEMMA AccIs ==
  \A a, b : Mul(Mul(FromInt(Batch!Acc(a.levels, b.levels)), a.step), b.step) = RoundedDot(a, b)
BY DEF Batch!Acc, RoundedDot, Batch!Size, Size, Batch!Cardinality, Cardinality

LEMMA Int8Times ==
  ASSUME NEW rows \in Nat, NEW n \in Nat, NEW w \in Vec(rows * n), NEW x \in Vec(n)
  PROVE  Batch!MatVecInt8(Batch!QuantizeMatrix(w, rows, n), Batch!QuantizeVec(x))
         = TimesRounded(w, rows, n, InSteps(x))
<1> DEFINE m == [o \in 0 .. rows - 1 |-> Kept(MatrixRow(w, o, n))]
           r == InSteps(x)
<1>1. Batch!QuantizeMatrix(w, rows, n) = m /\ Batch!QuantizeVec(x) = [q |-> r.levels, scale |-> r.step]
  BY QuantizedRows, InStepsIs
<1> HIDE DEF r
<1>2. ASSUME NEW o \in 0 .. rows - 1
      PROVE  Mul(Mul(FromInt(Batch!Acc(m[o].q, r.levels)), m[o].scale), r.step)
             = RoundedDot(InSteps(MatrixRow(w, o, n)), r)
  <2>1. m[o].q = InSteps(MatrixRow(w, o, n)).levels /\ m[o].scale = InSteps(MatrixRow(w, o, n)).step
    BY DEF Kept
  <2> HIDE DEF m
  <2> QED
    BY <2>1, AccIs
<1>3. DOMAIN m = 0 .. rows - 1
  OBVIOUS
<1> HIDE DEF m
<1>4. Batch!MatVecInt8(m, [q |-> r.levels, scale |-> r.step])
      = [o \in 0 .. rows - 1 |-> Mul(Mul(FromInt(Batch!Acc(m[o].q, r.levels)), m[o].scale), r.step)]
  BY <1>3 DEF Batch!MatVecInt8, Batch!Array
<1> QED
  BY <1>1, <1>2, <1>4, ArrayIs DEF TimesRounded, r

LEMMA EitherTimes ==
  ASSUME NEW b \in BOOLEAN, NEW rows \in Nat, NEW n \in Nat, NEW w \in Vec(rows * n), NEW x \in Vec(n),
         NEW m, b => m = Batch!QuantizeMatrix(w, rows, n)
  PROVE  Batch!QMatVec(b, m, w, x, rows, n) = Times(NumOf(b), w, rows, x)
<1>1. Size(x) = n
  BY VecIs
<1>2. CASE b
  BY <1>1, <1>2, Int8Times DEF Batch!QMatVec, Times, NumOf
<1>3. CASE ~b
  BY <1>1, <1>3, BatchShares DEF Batch!QMatVec, Times, NumOf
<1> QED
  BY <1>2, <1>3

\* The matrices of a layer, by name.
LayerTimesMatch(b, k, q, l) ==
  /\ \A x \in Vec(k.hidden) :
       /\ Batch!LayerTimes(k, b, q, l, "q", x, k.hidden, k.hidden)
          = Times(NumOf(b), k.layers[l]["q"].data, k.hidden, x)
       /\ Batch!LayerTimes(k, b, q, l, "k", x, KeySize(k), k.hidden)
          = Times(NumOf(b), k.layers[l]["k"].data, KeySize(k), x)
       /\ Batch!LayerTimes(k, b, q, l, "v", x, KeySize(k), k.hidden)
          = Times(NumOf(b), k.layers[l]["v"].data, KeySize(k), x)
       /\ Batch!LayerTimes(k, b, q, l, "o", x, k.hidden, k.hidden)
          = Times(NumOf(b), k.layers[l]["o"].data, k.hidden, x)
       /\ Batch!LayerTimes(k, b, q, l, "gate", x, k.inter, k.hidden)
          = Times(NumOf(b), k.layers[l]["gate"].data, k.inter, x)
       /\ Batch!LayerTimes(k, b, q, l, "up", x, k.inter, k.hidden)
          = Times(NumOf(b), k.layers[l]["up"].data, k.inter, x)
  /\ \A x \in Vec(k.inter) :
       Batch!LayerTimes(k, b, q, l, "down", x, k.hidden, k.inter)
       = Times(NumOf(b), k.layers[l]["down"].data, k.hidden, x)

LEMMA LayerTimesAre ==
  ASSUME NEW b \in BOOLEAN, NEW k, SizesFit(k), NEW l \in DOMAIN k.layers, LayerFits(k, k.layers[l]),
         NEW q, b => q = Batch!QModelBuild(k)
  PROVE  LayerTimesMatch(b, k, q, l)
<1> DEFINE w == k.layers[l]
           shapes == Batch!LayerShapes(k, Batch!NkvDim(k))
           Names == {"q", "k", "v", "o", "gate", "up", "down"}
           Apply(name, x, rows, n) == Batch!LayerTimes(k, b, q, l, name, x, rows, n)
<1>0. k.hidden \in Nat /\ k.inter \in Nat /\ KeySize(k) \in Nat
  BY SizesSmall
<1>1. \A name \in Names : b => q.layers[l][name]
                               = Batch!QuantizeMatrix(w[name].data, shapes[name][1], shapes[name][2])
  <2> HIDE DEF shapes, Names
  <2>1. ASSUME b
        PROVE  q.layers = [i \in DOMAIN k.layers |->
                 [name \in Names |-> Batch!QuantizeMatrix(k.layers[i][name].data, shapes[name][1], shapes[name][2])]]
    <3>1. Batch!QModelBuild(k).layers = Batch!Array([i \in DOMAIN k.layers |->
            Batch!Array([name \in Names |->
              Batch!QuantizeMatrix(k.layers[i][name].data, shapes[name][1], shapes[name][2])])])
      BY DEF Batch!QModelBuild, shapes, Names
    <3>2. \A f : Batch!Array(f) = f
      BY DEF Batch!Array
    <3> QED
      BY <2>1, <3>1, <3>2
  <2> QED
    BY <2>1
<1>2. /\ shapes["q"] = <<k.hidden, k.hidden>> /\ shapes["o"] = <<k.hidden, k.hidden>>
      /\ shapes["k"] = <<KeySize(k), k.hidden>> /\ shapes["v"] = <<KeySize(k), k.hidden>>
      /\ shapes["gate"] = <<k.inter, k.hidden>> /\ shapes["up"] = <<k.inter, k.hidden>>
      /\ shapes["down"] = <<k.hidden, k.inter>>
  BY DEF Batch!LayerShapes, Batch!NkvDim, Batch!HeadDim, KeySize, HeadSize
<1> HIDE DEF shapes
<1>3. \A name, x, rows, n :
        Apply(name, x, rows, n) = Batch!QMatVec(b, q.layers[l][name], w[name].data, x, rows, n)
  BY DEF Batch!LayerTimes
<1> HIDE DEF Apply
<1>4. ASSUME NEW name \in Names, NEW rows \in Nat, NEW n \in Nat, shapes[name] = <<rows, n>>,
             w[name].data \in Vec(rows * n), NEW x \in Vec(n)
      PROVE  Apply(name, x, rows, n) = Times(NumOf(b), w[name].data, rows, x)
  <2>1. b => q.layers[l][name] = Batch!QuantizeMatrix(w[name].data, rows, n)
    BY <1>1, <1>4
  <2> HIDE DEF w, Names
  <2> QED
    BY <1>3, <1>4, <2>1, EitherTimes
<1>5. /\ w["q"].data \in Vec(k.hidden * k.hidden) /\ w["o"].data \in Vec(k.hidden * k.hidden)
      /\ w["k"].data \in Vec(KeySize(k) * k.hidden) /\ w["v"].data \in Vec(KeySize(k) * k.hidden)
      /\ w["gate"].data \in Vec(k.inter * k.hidden) /\ w["up"].data \in Vec(k.inter * k.hidden)
      /\ w["down"].data \in Vec(k.hidden * k.inter)
  BY DEF LayerFits
<1>6. "q" \in Names /\ "k" \in Names /\ "v" \in Names /\ "o" \in Names /\ "gate" \in Names /\ "up" \in Names
      /\ "down" \in Names
  OBVIOUS
<1> HIDE DEF Names
<1>7. ASSUME NEW x \in Vec(k.hidden)
      PROVE  /\ Apply("q", x, k.hidden, k.hidden) = Times(NumOf(b), w["q"].data, k.hidden, x)
             /\ Apply("k", x, KeySize(k), k.hidden) = Times(NumOf(b), w["k"].data, KeySize(k), x)
             /\ Apply("v", x, KeySize(k), k.hidden) = Times(NumOf(b), w["v"].data, KeySize(k), x)
             /\ Apply("o", x, k.hidden, k.hidden) = Times(NumOf(b), w["o"].data, k.hidden, x)
             /\ Apply("gate", x, k.inter, k.hidden) = Times(NumOf(b), w["gate"].data, k.inter, x)
             /\ Apply("up", x, k.inter, k.hidden) = Times(NumOf(b), w["up"].data, k.inter, x)
  <2> HIDE DEF w
  <2>1. Apply("q", x, k.hidden, k.hidden) = Times(NumOf(b), w["q"].data, k.hidden, x)
    BY <1>0, <1>2, <1>4, <1>5, <1>6
  <2>2. Apply("k", x, KeySize(k), k.hidden) = Times(NumOf(b), w["k"].data, KeySize(k), x)
    BY <1>0, <1>2, <1>4, <1>5, <1>6
  <2>3. Apply("v", x, KeySize(k), k.hidden) = Times(NumOf(b), w["v"].data, KeySize(k), x)
    BY <1>0, <1>2, <1>4, <1>5, <1>6
  <2>4. Apply("o", x, k.hidden, k.hidden) = Times(NumOf(b), w["o"].data, k.hidden, x)
    BY <1>0, <1>2, <1>4, <1>5, <1>6
  <2>5. Apply("gate", x, k.inter, k.hidden) = Times(NumOf(b), w["gate"].data, k.inter, x)
    BY <1>0, <1>2, <1>4, <1>5, <1>6
  <2>6. Apply("up", x, k.inter, k.hidden) = Times(NumOf(b), w["up"].data, k.inter, x)
    BY <1>0, <1>2, <1>4, <1>5, <1>6
  <2> QED
    BY <2>1, <2>2, <2>3, <2>4, <2>5, <2>6
<1>8. ASSUME NEW x \in Vec(k.inter)
      PROVE  Apply("down", x, k.hidden, k.inter) = Times(NumOf(b), w["down"].data, k.hidden, x)
  <2> HIDE DEF w
  <2> QED
    BY <1>0, <1>2, <1>4, <1>5, <1>6
<1> QED
  BY <1>7, <1>8 DEF LayerTimesMatch, Apply, w

\* The rows of all positions, together and apart.
LEMMA FlatIs ==
  ASSUME NEW m \in Nat, NEW rows, DOMAIN rows = 0 .. m - 1, NEW n
  PROVE  Batch!Flat(rows, n) = FlatOf(rows, m, n)
<1>1. Batch!Size(rows) = m
  BY SizeIs, SizesAre
<1> QED
  BY <1>1 DEF Batch!Flat, Batch!Array, FlatOf

LEMMA FlatRow ==
  ASSUME NEW m \in Nat, NEW n \in Nat, n # 0, NEW R, NEW p \in 0 .. m - 1, R[p] \in Vec(n)
  PROVE  /\ Batch!HeadSlice(FlatOf(R, m, n), p, n) = R[p]
         /\ Span(FlatOf(R, m, n), p * n, n) = R[p]
<1> DEFINE x == FlatOf(R, m, n)
<1>1. \A i \in 0 .. n - 1 : x[p * n + i] = R[p][i]
  BY FlatAt
<1> HIDE DEF x
<1>2. R[p] = [i \in 0 .. n - 1 |-> R[p][i]]
  BY DEF Vec
<1>3. [i \in 0 .. n - 1 |-> x[p * n + i]] = R[p]
  BY <1>1, <1>2
<1>4. Batch!HeadSlice(x, p, n) = R[p] /\ Span(x, p * n, n) = R[p]
  BY <1>3 DEF Batch!HeadSlice, Batch!Span, Batch!Array, Span, Array
<1> QED
  BY <1>4 DEF x

LEMMA RowsAdded ==
  ASSUME NEW k, SizesFit(k), NEW m \in Nat, NEW R \in Columns(m, k), NEW rows
  PROVE  Batch!AddRows(k, FlatOf(R, m, k.hidden), rows)
         = FlatOf([p \in 0 .. m - 1 |-> Sums(R[p], rows[p])], m, k.hidden)
<1> DEFINE n == k.hidden
           D == 0 .. m * n - 1
           x == FlatOf(R, m, n)
           S == [p \in 0 .. m - 1 |-> Sums(R[p], rows[p])]
           z == FlatOf(S, m, n)
<1>1. n \in Nat /\ n # 0
  BY DEF SizesFit
<1>2. ASSUME NEW i \in D
      PROVE  Add(x[i], rows[i \div n][i % n]) = S[i \div n][i % n]
  <2> DEFINE p == i \div n
             d == i % n
  <2>1. p \in 0 .. m - 1 /\ d \in 0 .. n - 1
    <3> HIDE DEF n
    <3> QED
      BY <1>1, IndexRow
  <2>2. x[i] = R[p][d]
    BY DEF FlatOf
  <2> HIDE DEF x, p, d
  <2>3. S[p] = Sums(R[p], rows[p]) /\ DOMAIN R[p] = 0 .. n - 1
    BY <2>1 DEF Columns, Vec
  <2> HIDE DEF S, n
  <2>4. S[p][d] = Add(R[p][d], rows[p][d])
    <3>1. Sums(R[p], rows[p]) = [e \in DOMAIN R[p] |-> Add(R[p][e], rows[p][e])]
      BY ArrayIs DEF Sums
    <3> QED
      BY <2>1, <2>3, <3>1
  <2> QED
    BY <2>2, <2>4 DEF p, d
<1>3. DOMAIN x = D /\ z = [i \in D |-> S[i \div n][i % n]]
  BY DEF FlatOf
<1> HIDE DEF x, z, S, D
<1>4. Batch!AddRows(k, x, rows) = [i \in D |-> Add(x[i], rows[i \div n][i % n])]
  BY <1>3 DEF Batch!AddRows, Batch!Array
<1>5. Batch!AddRows(k, x, rows) = z
  BY <1>2, <1>3, <1>4
<1> QED
  BY <1>5 DEF x, z, S

LEMMA NormsAre ==
  ASSUME NEW k, SizesFit(k), NEW m \in Nat, NEW R \in Columns(m, k), NEW l, NEW name
  PROVE  Batch!NormAll(k, l, name, m, FlatOf(R, m, k.hidden))
         = [p \in 0 .. m - 1 |-> Normed(R[p], k.layers[l][name].data, k.eps)]
<1>1. ASSUME NEW p \in 0 .. m - 1
      PROVE  Batch!HeadSlice(FlatOf(R, m, k.hidden), p, k.hidden) = R[p]
  <2>1. k.hidden \in Nat /\ k.hidden # 0
    BY DEF SizesFit
  <2>2. R[p] \in Vec(k.hidden)
    BY DEF Columns
  <2> QED
    BY <2>1, <2>2, FlatRow
<1> QED
  BY <1>1, BatchShares DEF Batch!NormAll, Batch!Array

\* A layer's attention on all positions at once.
LEMMA BatchAttention ==
  ASSUME NEW b \in BOOLEAN, NEW k, SizesFit(k), NEW l \in DOMAIN k.layers, LayerFits(k, k.layers[l]),
         NEW q, b => q = Batch!QModelBuild(k),
         NEW m \in Nat, m <= MaxInt, NEW R \in Columns(m, k)
  PROVE  Batch!AttentionAll(k, b, q, l, m, FlatOf(R, m, k.hidden))
         = FlatOf(AfterAttention(NumOf(b), k, k.layers[l], R), m, k.hidden)
<1> DEFINE num == NumOf(b)
           w == k.layers[l]
           P == 0 .. m - 1
           size == KeySize(k)
           x == FlatOf(R, m, k.hidden)
           In == [p \in P |-> InputOf(k, w, R[p])]
           Qs == [p \in P |-> QueryOf(num, k, w, R[p], p)]
           K == KeysOf(num, k, w, R)
           V == ValuesOf(num, k, w, R)
           A == [p \in P |-> Times(num, w["o"].data, k.hidden, SeenFrom(k, Qs[p], K, V, p, HeadSize(k)))]
<1>0. /\ DOMAIN R = P /\ \A p \in P : R[p] \in Vec(k.hidden) /\ p \in Nat /\ p <= MaxInt
      /\ size \in Nat /\ size # 0 /\ k.hidden \in Nat /\ Batch!NkvDim(k) = size
  <2>1. Batch!NkvDim(k) = size
    BY DEF Batch!NkvDim, Batch!HeadDim, KeySize, HeadSize
  <2> QED
    BY <2>1, FloatsAssumption DEF Columns, SizesFit
<1>1. Batch!NormAll(k, l, "ln1", m, x) = In
  BY NormsAre DEF InputOf
<1>2. \A p \in P : In[p] \in Vec(k.hidden) /\ In[p] = InputOf(k, w, R[p])
  BY <1>0, InputVec
<1>3. DOMAIN In = P
  OBVIOUS
<1> HIDE DEF In
<1>4. /\ Batch!ProjectedAll(k, b, q, l, "q", "q_bias", k.hidden, In)
         = [p \in P |-> Linear(num, k, w, "q", "q_bias", k.hidden, In[p])]
      /\ Batch!ProjectedAll(k, b, q, l, "k", "k_bias", size, In)
         = [p \in P |-> Linear(num, k, w, "k", "k_bias", size, In[p])]
      /\ Batch!ProjectedAll(k, b, q, l, "v", "v_bias", size, In)
         = [p \in P |-> Linear(num, k, w, "v", "v_bias", size, In[p])]
  <2>1. \A y, bias : Batch!AddBiasOpt(y, w, bias) = IF bias \in DOMAIN w THEN Sums(y, w[bias].data) ELSE y
    BY BatchShares DEF Batch!AddBiasOpt
  <2>2. \A name, bias, rows : Batch!ProjectedAll(k, b, q, l, name, bias, rows, In)
          = [p \in P |-> Batch!AddBiasOpt(Batch!LayerTimes(k, b, q, l, name, In[p], rows, k.hidden), w, bias)]
    BY <1>3 DEF Batch!ProjectedAll, Batch!Array
  <2>3. \A p \in P :
          /\ Batch!LayerTimes(k, b, q, l, "q", In[p], k.hidden, k.hidden) = Times(num, w["q"].data, k.hidden, In[p])
          /\ Batch!LayerTimes(k, b, q, l, "k", In[p], size, k.hidden) = Times(num, w["k"].data, size, In[p])
          /\ Batch!LayerTimes(k, b, q, l, "v", In[p], size, k.hidden) = Times(num, w["v"].data, size, In[p])
    <3>1. LayerTimesMatch(b, k, q, l)
      BY LayerTimesAre
    <3> QED
      BY <1>2, <3>1 DEF LayerTimesMatch
  <2>4. \A name, bias, rows, y : Linear(num, k, w, name, bias, rows, y)
          = IF bias \in DOMAIN w THEN Sums(Times(num, w[name].data, rows, y), w[bias].data)
                                 ELSE Times(num, w[name].data, rows, y)
    BY DEF Linear
  <2> HIDE DEF w, num, size, P
  <2>5. \A p \in P :
          /\ Batch!AddBiasOpt(Batch!LayerTimes(k, b, q, l, "q", In[p], k.hidden, k.hidden), w, "q_bias")
             = Linear(num, k, w, "q", "q_bias", k.hidden, In[p])
          /\ Batch!AddBiasOpt(Batch!LayerTimes(k, b, q, l, "k", In[p], size, k.hidden), w, "k_bias")
             = Linear(num, k, w, "k", "k_bias", size, In[p])
          /\ Batch!AddBiasOpt(Batch!LayerTimes(k, b, q, l, "v", In[p], size, k.hidden), w, "v_bias")
             = Linear(num, k, w, "v", "v_bias", size, In[p])
    BY <2>1, <2>3, <2>4
  <2> QED
    BY <2>2, <2>5
<1>5. /\ Batch!RopeAll(k, [p \in P |-> Linear(num, k, w, "q", "q_bias", k.hidden, In[p])]) = Qs
      /\ Batch!RopeAll(k, [p \in P |-> Linear(num, k, w, "k", "k_bias", size, In[p])]) = K
  <2>1. \A p \in P :
          /\ DOMAIN Linear(num, k, w, "q", "q_bias", k.hidden, In[p]) = 0 .. k.n_heads * HeadSize(k) - 1
          /\ DOMAIN Linear(num, k, w, "k", "k_bias", size, In[p]) = 0 .. k.n_kv_heads * HeadSize(k) - 1
    BY <1>2, LinearDomains
  <2>2. k.n_heads \in Nat /\ k.n_kv_heads \in Nat
    BY DEF SizesFit
  <2>3. \A p \in P :
          /\ Batch!RopeHeads(k, Linear(num, k, w, "q", "q_bias", k.hidden, In[p]), Batch!RopeTable(Batch!InvFreq(k), p))
             = QueryOf(num, k, w, R[p], p)
          /\ Batch!RopeHeads(k, Linear(num, k, w, "k", "k_bias", size, In[p]), Batch!RopeTable(Batch!InvFreq(k), p))
             = KeyOf(num, k, w, R[p], p)
    <3> HIDE DEF P, num, w
    <3>1. ASSUME NEW p \in P
          PROVE  Batch!RopeHeads(k, Linear(num, k, w, "q", "q_bias", k.hidden, In[p]), Batch!RopeTable(Batch!InvFreq(k), p))
                 = QueryOf(num, k, w, R[p], p)
      BY <1>2, <2>1, <2>2, BatchRotated DEF QueryOf
    <3>2. ASSUME NEW p \in P
          PROVE  Batch!RopeHeads(k, Linear(num, k, w, "k", "k_bias", size, In[p]), Batch!RopeTable(Batch!InvFreq(k), p))
                 = KeyOf(num, k, w, R[p], p)
      BY <1>2, <2>1, <2>2, BatchRotated DEF KeyOf
    <3> QED
      BY <3>1, <3>2
  <2> HIDE DEF w, num, size
  <2>4. Batch!RopeAll(k, [p \in P |-> Linear(num, k, w, "q", "q_bias", k.hidden, In[p])]) = Qs
    BY <2>3 DEF Batch!RopeAll, Batch!Array
  <2>5. Batch!RopeAll(k, [p \in P |-> Linear(num, k, w, "k", "k_bias", size, In[p])]) = K
    BY <1>0, <2>3 DEF Batch!RopeAll, Batch!Array, KeysOf
  <2> QED
    BY <2>4, <2>5
<1>6. [p \in P |-> Linear(num, k, w, "v", "v_bias", size, In[p])] = V
  BY <1>0, <1>2 DEF ValuesOf, ValueOf
<1>7. DOMAIN K = 0 .. m - 1 /\ DOMAIN V = 0 .. m - 1
  BY <1>0 DEF KeysOf, ValuesOf
<1>8. ASSUME NEW p \in P
      PROVE  Rows(p + 1, size, K) /\ Rows(p + 1, size, V) /\ Keeps(k, FlatOf(K, m, size), K, p + 1)
             /\ Keeps(k, FlatOf(V, m, size), V, p + 1)
  <2>1. p + 1 \in 0 .. m
    OBVIOUS
  <2>2. Rows(p + 1, size, K) /\ Rows(p + 1, size, V)
    BY <2>1, BroughtRows
  <2>3. \A y : Keeps(k, FlatOf(y, m, size), y, m)
    BY FlatKeeps
  <2>4. \A j \in 0 .. (p + 1) - 1 : j \in 0 .. m - 1
    OBVIOUS
  <2> HIDE DEF K, V, size
  <2>5. \A y : Keeps(k, FlatOf(y, m, size), y, p + 1)
    BY <2>3, <2>4 DEF Keeps
  <2> QED
    BY <2>2, <2>5
<1>9. Batch!AttentionAll(k, b, q, l, m, x)
      = Batch!FromQkv(k, b, q, l, m, x, Qs, FlatOf(K, m, size), FlatOf(V, m, size))
  <2>1. Batch!AttentionAll(k, b, q, l, m, x) = Batch!FromNorms(k, b, q, l, m, x, In)
    BY <1>1 DEF Batch!AttentionAll
  <2>2. Batch!Flat(K, size) = FlatOf(K, m, size) /\ Batch!Flat(V, size) = FlatOf(V, m, size)
    BY <1>7, FlatIs
  <2> HIDE DEF x, K, V, Qs, size
  <2> QED
    BY <1>0, <1>4, <1>5, <1>6, <2>1, <2>2 DEF Batch!FromNorms
<1> DEFINE a == FlatOf(K, m, size)
           e == FlatOf(V, m, size)
<1>10. ASSUME NEW p \in P
       PROVE  Batch!LayerTimes(k, b, q, l, "o", Batch!Attend(k, Qs[p], Batch!Sees(p, m), a, e), k.hidden, k.hidden)
              = A[p]
  <2>1. Qs[p] \in Vec(k.hidden)
    BY <1>0, BroughtVec
  <2>2. A[p] = Times(num, w["o"].data, k.hidden, SeenFrom(k, Qs[p], K, V, p, HeadSize(k)))
    OBVIOUS
  <2> DEFINE s == Qs[p]
  <2> HIDE DEF Qs, a, e, K, V, A, s, P
  <2>3. Batch!Attend(k, s, 0 .. p, a, e) = SeenFrom(k, s, K, V, p, HeadSize(k))
    BY <1>0, <1>8, <2>1, BatchAttends DEF s, a, e
  <2>4. SeenFrom(k, s, K, V, p, HeadSize(k)) \in Vec(k.hidden)
    BY <1>0, <1>8, <2>1, SeenVec DEF s
  <2>5. Batch!LayerTimes(k, b, q, l, "o", SeenFrom(k, s, K, V, p, HeadSize(k)), k.hidden, k.hidden)
        = Times(num, w["o"].data, k.hidden, SeenFrom(k, s, K, V, p, HeadSize(k)))
    <3>1. LayerTimesMatch(b, k, q, l)
      BY LayerTimesAre
    <3> QED
      BY <2>4, <3>1 DEF LayerTimesMatch
  <2> QED
    BY <2>2, <2>3, <2>5 DEF Batch!Sees, s
<1>11. Batch!FromQkv(k, b, q, l, m, x, Qs, a, e) = Batch!AddRows(k, x, A)
  <2>1. A = [p \in P |-> A[p]]
    OBVIOUS
  <2> HIDE DEF x, Qs, a, e, A
  <2> QED
    BY <1>10, <2>1 DEF Batch!FromQkv, Batch!Array
<1>12. Batch!AddRows(k, x, A) = FlatOf([p \in P |-> Sums(R[p], A[p])], m, k.hidden)
  BY RowsAdded
<1>13. [p \in P |-> Sums(R[p], A[p])] = AfterAttention(num, k, w, R)
  <2>1. AfterAttention(num, k, w, R) = [p \in P |-> RowAfter(num, k, w, R[p], K, V, p)]
    BY <1>0, AttentionIs
  <2>2. \A p \in P : A[p] = Times(num, w["o"].data, k.hidden,
                                  SeenFrom(k, QueryOf(num, k, w, R[p], p), K, V, p, HeadSize(k)))
    OBVIOUS
  <2> HIDE DEF A, K, V
  <2> QED
    BY <2>1, <2>2 DEF RowAfter
<1> QED
  BY <1>9, <1>11, <1>12, <1>13

\* A layer's MLP on all positions.
LEMMA BatchMlp ==
  ASSUME NEW b \in BOOLEAN, NEW k, SizesFit(k), NEW l \in DOMAIN k.layers, LayerFits(k, k.layers[l]),
         NEW q, b => q = Batch!QModelBuild(k),
         NEW m \in Nat, NEW R \in Columns(m, k)
  PROVE  Batch!MlpAll(k, b, q, l, m, FlatOf(R, m, k.hidden))
         = FlatOf(AfterMlp(NumOf(b), k, k.layers[l], R), m, k.hidden)
<1> DEFINE num == NumOf(b)
           w == k.layers[l]
           P == 0 .. m - 1
           x == FlatOf(R, m, k.hidden)
           In == [p \in P |-> Normed(R[p], w["ln2"].data, k.eps)]
           A == [p \in P |-> MlpOf(num, k, w, In[p])]
<1>0. DOMAIN R = P /\ \A p \in P : R[p] \in Vec(k.hidden)
  BY DEF Columns
<1>1. Batch!NormAll(k, l, "ln2", m, x) = In
  <2>1. \A name : Batch!NormAll(k, l, name, m, x) = [p \in P |-> Normed(R[p], w[name].data, k.eps)]
    BY NormsAre
  <2> QED
    BY <2>1
<1>2. ASSUME NEW p \in P
      PROVE  Batch!Down(k, b, q, l, In[p]) = MlpOf(num, k, w, In[p])
  <2> DEFINE y == In[p]
             gate == Times(num, w["gate"].data, k.inter, y)
             up == Times(num, w["up"].data, k.inter, y)
             z == Gated(gate, up)
  <2>1. y \in Vec(k.hidden)
    <3>1. w["ln2"].data \in Vec(k.hidden)
      BY DEF LayerFits
    <3>2. y = Normed(R[p], w["ln2"].data, k.eps)
      OBVIOUS
    <3> HIDE DEF w, In
    <3> QED
      BY <1>0, <3>1, <3>2, NormedSize
  <2>2. LayerTimesMatch(b, k, q, l)
    BY LayerTimesAre
  <2> HIDE DEF y
  <2>3. /\ Batch!LayerTimes(k, b, q, l, "gate", y, k.inter, k.hidden) = gate
        /\ Batch!LayerTimes(k, b, q, l, "up", y, k.inter, k.hidden) = up
    BY <2>1, <2>2 DEF LayerTimesMatch
  <2>4. z \in Vec(k.inter)
    <3>1. w["gate"].data \in Vec(k.inter * k.hidden) /\ w["up"].data \in Vec(k.inter * k.hidden)
      BY DEF LayerFits
    <3> HIDE DEF w, num
    <3>2. gate \in Vec(k.inter) /\ up \in Vec(k.inter)
      BY <2>1, <3>1, SizesSmall, TimesVec DEF SizesFit
    <3> HIDE DEF gate, up
    <3> QED
      BY <3>2, SizesSmall, GatedVec
  <2> HIDE DEF gate, up
  <2>5. Batch!Hidden(gate, up) = z
    BY BatchShares
  <2> HIDE DEF z
  <2>6. Batch!LayerTimes(k, b, q, l, "down", z, k.hidden, k.inter) = Times(num, w["down"].data, k.hidden, z)
    BY <2>2, <2>4 DEF LayerTimesMatch
  <2>7. Batch!Down(k, b, q, l, y) = Times(num, w["down"].data, k.hidden, z)
    BY <2>3, <2>5, <2>6 DEF Batch!Down
  <2> QED
    BY <2>7 DEF MlpOf, z, gate, up, y
<1>3. Batch!DownAll(k, b, q, l, In) = A
  BY <1>2 DEF Batch!DownAll, Batch!Array
<1>4. Batch!MlpAll(k, b, q, l, m, x) = Batch!AddRows(k, x, A)
  BY <1>1, <1>3 DEF Batch!MlpAll
<1>5. Batch!AddRows(k, x, A) = FlatOf([p \in P |-> Sums(R[p], A[p])], m, k.hidden)
  BY RowsAdded
<1>6. [p \in P |-> Sums(R[p], A[p])] = AfterMlp(num, k, w, R)
  <2>1. AfterMlp(num, k, w, R) = [p \in P |-> MlpRow(num, k, w, R[p])]
    BY <1>0, MlpIs
  <2>2. \A p \in P : A[p] = MlpOf(num, k, w, Normed(R[p], w["ln2"].data, k.eps))
    OBVIOUS
  <2> HIDE DEF A
  <2> QED
    BY <2>1, <2>2 DEF MlpRow
<1> QED
  BY <1>4, <1>5, <1>6

\* The embeddings of a text, and the head at a position.
LEMMA BatchEmbed ==
  ASSUME NEW b \in BOOLEAN, NEW k, SizesFit(k), HeadFits(k), NEW q, b => q = Batch!QModelBuild(k),
         NEW t, IsText(k, t)
  PROVE  Batch!EmbedAll(k, b, q, t) = FlatOf(EmbeddingsOf(NumOf(b), k, t), Len(t), k.hidden)
<1> DEFINE num == NumOf(b)
           P == 0 .. Len(t) - 1
           table == k.tensors["embed"].data
           X == EmbeddingsOf(num, k, t)
           Y == [p \in P |-> IF b THEN Batch!Wide(q.embed[t[p + 1]]) ELSE Batch!Embed(k, t[p + 1])]
<1>1. ASSUME NEW token \in 0 .. k.vocab - 1, b
      PROVE  Batch!Wide(q.embed[token]) = EmbeddingOf("int8", k, token)
  <2> DEFINE row == MatrixRow(table, token, k.hidden)
             r == InSteps(row)
  <2>1. q.embed = Batch!QuantizeMatrix(table, k.vocab, k.hidden)
    BY <1>1 DEF Batch!QModelBuild
  <2>2. table \in Vec(k.vocab * k.hidden) /\ k.vocab \in Nat /\ k.hidden \in Nat
    BY DEF HeadFits, SizesFit
  <2> HIDE DEF table
  <2>3. q.embed[token] = Kept(row)
    BY <2>1, <2>2, QuantizedRows
  <2>4. Kept(row) = [q |-> r.levels, scale |-> r.step]
    BY DEF Kept
  <2> HIDE DEF r
  <2>5. Batch!Wide(q.embed[token]) = [i \in DOMAIN r.levels |-> Mul(FromInt(r.levels[i]), r.step)]
    BY <2>3, <2>4 DEF Batch!Wide, Batch!Array
  <2>6. EmbeddingOf("int8", k, token) = [i \in DOMAIN r.levels |-> Mul(FromInt(r.levels[i]), r.step)]
    BY ArrayIs DEF EmbeddingOf, r, table
  <2> QED
    BY <2>5, <2>6
<1>2. \A token : Batch!Embed(k, token) = EmbeddingOf("fp32", k, token)
  BY DEF Batch!Embed, Batch!Span, Batch!Array, EmbeddingOf, MatrixRow, Array
<1>3. \A p \in P : t[p + 1] \in 0 .. k.vocab - 1
  BY DEF IsText
<1>4. \A p \in P : Y[p] = EmbeddingOf(num, k, t[p + 1])
  <2>1. CASE b
    BY <1>1, <1>3, <2>1 DEF NumOf
  <2>2. CASE ~b
    BY <1>2, <2>2 DEF NumOf
  <2> QED
    BY <2>1, <2>2
<1>5. Y = X
  BY <1>4 DEF EmbeddingsOf
<1>6. DOMAIN X = P /\ Len(t) \in Nat
  BY DEF EmbeddingsOf, IsText
<1>7. Batch!EmbedAll(k, b, q, t) = Batch!Flat(Y, k.hidden)
  BY DEF Batch!EmbedAll, Batch!Array
<1> HIDE DEF X, Y
<1>8. Batch!Flat(X, k.hidden) = FlatOf(X, Len(t), k.hidden)
  BY <1>6, FlatIs
<1> QED
  BY <1>5, <1>7, <1>8 DEF X

LEMMA BatchHeadIs ==
  ASSUME NEW b \in BOOLEAN, NEW k, SizesFit(k), HeadFits(k), NEW q, b => q = Batch!QModelBuild(k),
         NEW m \in Nat, NEW R \in Columns(m, k), NEW p \in 0 .. m - 1
  PROVE  Batch!LogitsOf(k, b, q, FlatOf(R, m, k.hidden), p) = LogitsFrom(NumOf(b), k, R[p])
<1> DEFINE y == Normed(R[p], k.tensors["norm"].data, k.eps)
           w == HeadOfFormula(k)
<1>1. k.hidden \in Nat /\ k.hidden # 0 /\ k.vocab \in Nat
  BY DEF SizesFit
<1>2. R[p] \in Vec(k.hidden)
  BY DEF Columns
<1>3. Batch!HeadSlice(FlatOf(R, m, k.hidden), p, k.hidden) = R[p]
  BY <1>1, <1>2, FlatRow
<1>4. y \in Vec(k.hidden)
  <2>1. k.tensors["norm"].data \in Vec(k.hidden)
    BY DEF HeadFits
  <2> QED
    BY <1>2, <2>1, NormedSize
<1>5. Batch!LmHead(k) = w /\ w \in Vec(k.vocab * k.hidden)
  BY DEF Batch!LmHead, HeadOfFormula, HeadFits
<1>6. b => q.lm_head = Batch!QuantizeMatrix(w, k.vocab, k.hidden)
  <2>1. ASSUME b
        PROVE  q.lm_head = IF ~k.tied /\ "lm_head" \in DOMAIN k.tensors
                           THEN Batch!QuantizeMatrix(k.tensors["lm_head"].data, k.vocab, k.hidden)
                           ELSE Batch!QuantizeMatrix(k.tensors["embed"].data, k.vocab, k.hidden)
    BY <2>1 DEF Batch!QModelBuild
  <2> QED
    BY <2>1 DEF HeadOfFormula, HeadFits
<1>7. Batch!LogitsOf(k, b, q, FlatOf(R, m, k.hidden), p) = Batch!QMatVec(b, q.lm_head, w, y, k.vocab, k.hidden)
  BY <1>3, <1>5, BatchShares DEF Batch!LogitsOf
<1> HIDE DEF y, w
<1>8. Batch!QMatVec(b, q.lm_head, w, y, k.vocab, k.hidden) = Times(NumOf(b), w, k.vocab, y)
  <2> DEFINE e == q.lm_head
             rows == k.vocab
             n == k.hidden
  <2>1. rows \in Nat /\ n \in Nat /\ w \in Vec(rows * n) /\ y \in Vec(n)
    BY <1>1, <1>4, <1>5
  <2>2. b => e = Batch!QuantizeMatrix(w, rows, n)
    BY <1>6
  <2> HIDE DEF e, rows, n
  <2>3. Batch!QMatVec(b, e, w, y, rows, n) = Times(NumOf(b), w, rows, y)
    BY <2>1, <2>2, EitherTimes
  <2> QED
    BY <2>3 DEF e, rows, n
<1> QED
  BY <1>7, <1>8, LogitsAre DEF y, w

-----------------------------------------------------------------------------
\* What a state holds of the formula.  A residual is that of the position, or
\* the rows of all of them.
Truth == Residuals(Num, c, tokens)

Lies(X, x) == IF impl \in Batched THEN x = FlatOf(X, Len(tokens), c.hidden) ELSE x = X[pos]

\* A layer's keys and values of all positions, and how a program keeps those of
\* the first n.
LayerKeys(num, k, t, l) == KeysOf(num, k, k.layers[l], Residuals(num, k, t)[2 * l])
LayerValues(num, k, t, l) == ValuesOf(num, k, k.layers[l], Residuals(num, k, t)[2 * l])

Layout(program, k, K, V, n, room) ==
  CASE program = "cis2_verify" -> CVEntry(k, K, V, n)
    [] program = "reference" -> ReferenceEntry(K, V, n)
    [] program = "verify2" -> V2Entry(k, K, V, n)
    [] OTHER -> V3Entry(k, K, V, n, room)

EntryOf(program, k, t, l, n) ==
  Layout(program, k, LayerKeys("fp32", k, t, l), LayerValues("fp32", k, t, l), n, Len(t))

\* The checkpoint and the text are what the lemmas ask for.
Fits ==
  /\ SizesFit(c) /\ LayersFit(c) /\ HeadFits(c) /\ IsText(c, tokens)
  /\ impl = "verify2" => c.tied /\ \A l \in 0 .. c.n_layers - 1 : Bare(c.layers[l])

LEMMA SoundFits ==
  ASSUME TypeOK, ckpt \in Sound, Started(ckpt, impl), Loads
  PROVE  Fits
<1>1. IsCheckpoint(c) /\ CV!Loads(c)
  BY CheckpointsAssumption DEF TypeOK, Sound, c
<1>2. c.hidden # 0
  <2>1. CASE impl \in {"verify3"} \cup Batched
    <3>1. V3!Loads(c)
      BY <2>1 DEF Loads, Batched
    <3> QED
      BY <3>1 DEF V3!Loads
  <2>2. CASE impl \notin {"verify3"} \cup Batched
    BY <2>2 DEF Started, c
  <2> QED
    BY <2>1, <2>2
<1>3. SizesFit(c)
  BY <1>1, <1>2, SoundSizes
<1>4. LayersFit(c) /\ HeadFits(c)
  BY <1>1, <1>3, SoundLayers, SoundHead
<1>5. IsText(c, tokens)
  <2>1. tokens \in Seq(Nat) /\ Len(tokens) \in 1 .. MaxInt /\ \A i \in DOMAIN tokens : tokens[i] < c.vocab
    BY TextsAssumption DEF TypeOK, c
  <2>2. MaxInt \in Nat /\ c.vocab \in Nat
    BY <1>3, FloatsAssumption DEF SizesFit
  <2>3. ASSUME NEW p \in 0 .. Len(tokens) - 1 PROVE tokens[p + 1] \in 0 .. c.vocab - 1
    <3>1. p + 1 \in 1 .. Len(tokens) /\ p + 1 \in DOMAIN tokens
      BY <2>1
    <3>2. tokens[p + 1] \in Nat /\ tokens[p + 1] < c.vocab
      BY <2>1, <3>1
    <3> QED
      BY <2>2, <3>2
  <2> QED
    BY <2>1, <2>2, <2>3 DEF IsText
<1>6. ASSUME impl = "verify2"
      PROVE  c.tied /\ \A l \in 0 .. c.n_layers - 1 : Bare(c.layers[l])
  <2>1. c.pinned
    BY <1>6 DEF Loads, V2!Loads
  <2>2. c.tied /\ \A l \in DOMAIN c.layers : DOMAIN c.layers[l] \cap {"q_bias", "k_bias", "v_bias"} = {}
    BY <1>1, <2>1 DEF IsCheckpoint
  <2>3. DOMAIN c.layers = 0 .. c.n_layers - 1
    BY <1>4 DEF LayersFit
  <2> QED
    BY <2>2, <2>3 DEF Bare
<1> QED
  BY <1>3, <1>4, <1>5, <1>6 DEF Fits

LEMMA Positions ==
  ASSUME TypeOK, Fits
  PROVE  /\ Len(tokens) \in Nat /\ Len(tokens) # 0 /\ Len(tokens) <= MaxInt
         /\ pos \in 0 .. Len(tokens) - 1 /\ pos \in Nat /\ pos + 1 \in 0 .. Len(tokens) /\ pos <= MaxInt
         /\ c.n_layers \in Nat /\ DOMAIN c.layers = 0 .. c.n_layers - 1
<1>1. Len(tokens) \in Nat /\ Len(tokens) # 0 /\ Len(tokens) <= MaxInt /\ pos \in 0 .. Len(tokens) - 1
  BY DEF TypeOK, Fits, IsText
<1>2. MaxInt \in Nat
  BY FloatsAssumption
<1>3. c.n_layers \in Nat /\ DOMAIN c.layers = 0 .. c.n_layers - 1
  BY DEF Fits, SizesFit, LayersFit
<1> QED
  BY <1>1, <1>2, <1>3

\* The number system of each program.
LEMMA NumIs ==
  /\ Num = NumOf(Int8) /\ Int8 \in BOOLEAN
  /\ impl \in Stepwise => Num = "fp32" /\ impl \notin Batched
BY DEF Num, NumOf, Int8, Stepwise, Batched

LEMMA EmbeddedIs ==
  ASSUME TypeOK, Fits, Int8 => qm = Batch!QModelBuild(c)
  PROVE  Lies(Truth[0], Embedded)
<1>1. Truth[0] = EmbeddingsOf(Num, c, tokens)
  BY ResidualsAre DEF Truth, Fits
<1>2. CASE impl \in Batched
  <2>1. Embedded = Batch!EmbedAll(c, Int8, qm, tokens)
    BY <1>2 DEF Embedded, Batched
  <2>2. Batch!EmbedAll(c, Int8, qm, tokens) = FlatOf(EmbeddingsOf(NumOf(Int8), c, tokens), Len(tokens), c.hidden)
    BY NumIs, BatchEmbed DEF Fits
  <2> QED
    BY <1>1, <1>2, <2>1, <2>2, NumIs DEF Lies
<1>3. CASE impl \in Stepwise
  <2>1. Truth[0][pos] = EmbeddingOf("fp32", c, tokens[pos + 1])
    BY <1>1, <1>3, NumIs, Positions DEF EmbeddingsOf
  <2>2. SizesFit(c)
    BY DEF Fits
  <2>3. /\ CV!Embed(c, tokens[pos + 1]) = EmbeddingOf("fp32", c, tokens[pos + 1])
        /\ Reference!Embed(c, tokens[pos + 1]) = EmbeddingOf("fp32", c, tokens[pos + 1])
        /\ V2!Embed(c, tokens[pos + 1]) = EmbeddingOf("fp32", c, tokens[pos + 1])
        /\ V3!Embed(c, tokens[pos + 1]) = EmbeddingOf("fp32", c, tokens[pos + 1])
    BY <2>2, CVPasses, ReferencePasses, V2Passes, V3Passes
  <2>4. Embedded = EmbeddingOf("fp32", c, tokens[pos + 1])
    BY <1>3, <2>3 DEF Embedded, Stepwise
  <2> QED
    BY <1>3, <2>1, <2>4, NumIs DEF Lies
<1> QED
  BY <1>2, <1>3 DEF TypeOK

\* The keys and values that a layer's attention brings, and its residuals.
LEMMA LayerIs ==
  ASSUME TypeOK, Fits, li \in 0 .. c.n_layers - 1
  PROVE  /\ LayerFits(c, c.layers[li])
         /\ Truth[2 * li] \in Columns(Len(tokens), c)
         /\ Truth[2 * li + 1] \in Columns(Len(tokens), c)
         /\ Truth[2 * li + 1] = AfterAttention(Num, c, c.layers[li], Truth[2 * li])
         /\ Truth[2 * (li + 1)] = AfterMlp(Num, c, c.layers[li], Truth[2 * li + 1])
         /\ Truth[2 * li + 1] = [p \in 0 .. Len(tokens) - 1 |->
              RowAfter(Num, c, c.layers[li], Truth[2 * li][p],
                       LayerKeys(Num, c, tokens, li), LayerValues(Num, c, tokens, li), p)]
         /\ Truth[2 * (li + 1)] = [p \in 0 .. Len(tokens) - 1 |-> MlpRow(Num, c, c.layers[li], Truth[2 * li + 1][p])]
<1>1. LayerFits(c, c.layers[li])
  BY DEF Fits, LayersFit
<1>2. /\ Truth[2 * li] \in Columns(Len(tokens), c)
      /\ Truth[2 * li + 1] \in Columns(Len(tokens), c)
      /\ Truth[2 * li + 1] = AfterAttention(Num, c, c.layers[li], Truth[2 * li])
      /\ Truth[2 * (li + 1)] = AfterMlp(Num, c, c.layers[li], Truth[2 * li + 1])
  BY LayerResiduals DEF Truth, Fits
<1>3. DOMAIN Truth[2 * li] = 0 .. Len(tokens) - 1 /\ DOMAIN Truth[2 * li + 1] = 0 .. Len(tokens) - 1
  BY <1>2 DEF Columns
<1>4. Truth[2 * li + 1] = [p \in 0 .. Len(tokens) - 1 |->
        RowAfter(Num, c, c.layers[li], Truth[2 * li][p],
                 LayerKeys(Num, c, tokens, li), LayerValues(Num, c, tokens, li), p)]
  BY <1>2, <1>3, AttentionIs DEF LayerKeys, LayerValues, Truth
<1>5. Truth[2 * (li + 1)] = [p \in 0 .. Len(tokens) - 1 |-> MlpRow(Num, c, c.layers[li], Truth[2 * li + 1][p])]
  BY <1>2, <1>3, MlpIs
<1> QED
  BY <1>1, <1>2, <1>4, <1>5

LEMMA AttendedByPosition ==
  ASSUME TypeOK, Fits, impl \in Stepwise, li \in 0 .. c.n_layers - 1,
         h = Truth[2 * li][pos], li \in DOMAIN cache, cache[li] = EntryOf(impl, c, tokens, li, pos)
  PROVE  Attended = [h |-> Truth[2 * li + 1][pos],
                     cache |-> [cache EXCEPT ![li] = EntryOf(impl, c, tokens, li, pos + 1)]]
<1> DEFINE K == LayerKeys("fp32", c, tokens, li)
           V == LayerValues("fp32", c, tokens, li)
           w == c.layers[li]
           room == Len(tokens)
           x == RowAfter("fp32", c, w, h, K, V, pos)
           xs == Truth[2 * li]
<1>0. Num = "fp32"
  BY NumIs
<1>1. LayerFits(c, w) /\ xs \in Columns(room, c) /\ Truth[2 * li + 1][pos] = x
  BY <1>0, LayerIs, Positions
<1>2. h \in Vec(c.hidden) /\ DOMAIN xs = 0 .. room - 1
  BY <1>1, Positions DEF Columns
<1>3. K = KeysOf("fp32", c, w, xs) /\ V = ValuesOf("fp32", c, w, xs)
  BY <1>0 DEF LayerKeys, LayerValues, Truth
<1>4. K[pos] = KeyOf("fp32", c, w, h, pos) /\ V[pos] = ValueOf("fp32", c, w, h)
  BY <1>2, <1>3, Positions DEF KeysOf, ValuesOf
<1>5. SizesFit(c)
  BY DEF Fits
<1>6. Rows(pos + 1, KeySize(c), K) /\ Rows(pos + 1, KeySize(c), V)
  <2> HIDE DEF K, V, xs, w
  <2> QED
    BY <1>1, <1>3, <1>5, Positions, BroughtRows
<1>7. pos \in Nat /\ pos <= MaxInt /\ room \in Nat /\ pos < room
  BY Positions
<1>8. \A n : EntryOf(impl, c, tokens, li, n) = Layout(impl, c, K, V, n, room)
  BY DEF EntryOf
<1> HIDE DEF K, V, xs, room
<1>13. Brought(c, li, h, pos, K, V)
  BY <1>1, <1>2, <1>4, <1>5, <1>6, <1>7 DEF Brought
<1> HIDE DEF w, x
<1>9. CASE impl = "cis2_verify"
  <2>1. \A n : EntryOf(impl, c, tokens, li, n) = CVEntry(c, K, V, n)
    BY <1>8, <1>9 DEF Layout
  <2>2. CV!Attention(c, li, pos, h, cache) = [h |-> x, cache |-> [cache EXCEPT ![li] = CVEntry(c, K, V, pos + 1)]]
    <3>1. cache[li] = CVEntry(c, K, V, pos)
      BY <2>1
    <3> QED
      BY <1>13, <3>1, CVAttention DEF x, w
  <2> QED
    BY <1>1, <1>9, <2>1, <2>2 DEF Attended
<1>10. CASE impl = "reference"
  <2>1. \A n : EntryOf(impl, c, tokens, li, n) = ReferenceEntry(K, V, n)
    BY <1>8, <1>10 DEF Layout
  <2>2. Reference!Attention(c, li, pos, h, cache) = [h |-> x, cache |-> [cache EXCEPT ![li] = ReferenceEntry(K, V, pos + 1)]]
    <3>1. cache[li] = ReferenceEntry(K, V, pos)
      BY <2>1
    <3> QED
      BY <1>13, <3>1, ReferenceAttention DEF x, w
  <2> QED
    BY <1>1, <1>10, <2>1, <2>2 DEF Attended
<1>11. CASE impl = "verify2"
  <2>1. \A n : EntryOf(impl, c, tokens, li, n) = V2Entry(c, K, V, n)
    BY <1>8, <1>11 DEF Layout
  <2>2. V2!Attention(c, li, pos, h, cache) = [h |-> x, cache |-> [cache EXCEPT ![li] = V2Entry(c, K, V, pos + 1)]]
    <3>1. cache[li] = V2Entry(c, K, V, pos) /\ Bare(c.layers[li])
      BY <1>11, <2>1 DEF Fits
    <3> QED
      BY <1>13, <3>1, V2Attention DEF x, w
  <2> QED
    BY <1>1, <1>11, <2>1, <2>2 DEF Attended
<1>12. CASE impl = "verify3"
  <2>1. \A n : EntryOf(impl, c, tokens, li, n) = V3Entry(c, K, V, n, room)
    BY <1>8, <1>12 DEF Layout
  <2>2. V3!Attention(c, li, pos, h, cache) = [h |-> x, cache |-> [cache EXCEPT ![li] = V3Entry(c, K, V, pos + 1, room)]]
    <3>1. cache[li] = V3Entry(c, K, V, pos, room)
      BY <2>1
    <3> QED
      BY <1>7, <1>13, <3>1, V3Attention DEF x, w
  <2> QED
    BY <1>1, <1>12, <2>1, <2>2 DEF Attended
<1> QED
  BY <1>9, <1>10, <1>11, <1>12 DEF Stepwise

LEMMA AttendedTogether ==
  ASSUME TypeOK, Fits, impl \in Batched, li \in 0 .. c.n_layers - 1, Int8 => qm = Batch!QModelBuild(c),
         Lies(Truth[2 * li], h)
  PROVE  Lies(Truth[2 * li + 1], Attended.h) /\ Attended.cache = cache
<1>1. Attended = [h |-> Batch!AttentionAll(c, Int8, qm, li, Len(tokens), h), cache |-> cache]
  BY DEF Attended, Batched
<1>2. h = FlatOf(Truth[2 * li], Len(tokens), c.hidden)
  BY DEF Lies
<1>3. SizesFit(c) /\ li \in DOMAIN c.layers
  BY Positions DEF Fits
<1>4. Batch!AttentionAll(c, Int8, qm, li, Len(tokens), h)
      = FlatOf(AfterAttention(NumOf(Int8), c, c.layers[li], Truth[2 * li]), Len(tokens), c.hidden)
  <2> DEFINE R == Truth[2 * li]
             m == Len(tokens)
             k == c
  <2>1. /\ SizesFit(k) /\ li \in DOMAIN k.layers /\ LayerFits(k, k.layers[li]) /\ R \in Columns(m, k)
        /\ m \in Nat /\ m <= MaxInt /\ Int8 \in BOOLEAN /\ h = FlatOf(R, m, k.hidden)
    BY <1>2, <1>3, LayerIs, Positions, NumIs
  <2>2. Int8 => qm = Batch!QModelBuild(k)
    OBVIOUS
  <2> HIDE DEF R, m, k
  <2>3. Batch!AttentionAll(k, Int8, qm, li, m, FlatOf(R, m, k.hidden))
        = FlatOf(AfterAttention(NumOf(Int8), k, k.layers[li], R), m, k.hidden)
    BY <2>1, <2>2, BatchAttention
  <2> QED
    BY <2>1, <2>3 DEF R, m, k
<1>5. Batch!AttentionAll(c, Int8, qm, li, Len(tokens), h) = FlatOf(Truth[2 * li + 1], Len(tokens), c.hidden)
  BY <1>4, LayerIs, NumIs
<1> QED
  BY <1>1, <1>5 DEF Lies

LEMMA MlpedIs ==
  ASSUME TypeOK, Fits, li \in 0 .. c.n_layers - 1, Int8 => qm = Batch!QModelBuild(c),
         Lies(Truth[2 * li + 1], h)
  PROVE  Lies(Truth[2 * (li + 1)], Mlped)
<1> DEFINE w == c.layers[li]
<1>1. SizesFit(c) /\ li \in DOMAIN c.layers
  BY Positions DEF Fits
<1>2. CASE impl \in Batched
  <2>1. Mlped = Batch!MlpAll(c, Int8, qm, li, Len(tokens), h)
    BY <1>2 DEF Mlped, Batched
  <2>2. h = FlatOf(Truth[2 * li + 1], Len(tokens), c.hidden)
    BY <1>2 DEF Lies
  <2>3. Batch!MlpAll(c, Int8, qm, li, Len(tokens), h)
        = FlatOf(AfterMlp(NumOf(Int8), c, w, Truth[2 * li + 1]), Len(tokens), c.hidden)
    <3> DEFINE R == Truth[2 * li + 1]
               m == Len(tokens)
               k == c
    <3>1. /\ SizesFit(k) /\ li \in DOMAIN k.layers /\ LayerFits(k, k.layers[li]) /\ R \in Columns(m, k)
          /\ m \in Nat /\ Int8 \in BOOLEAN /\ h = FlatOf(R, m, k.hidden)
      BY <1>1, <2>2, LayerIs, Positions, NumIs
    <3>2. Int8 => qm = Batch!QModelBuild(k)
      OBVIOUS
    <3> HIDE DEF R, m, k
    <3>3. Batch!MlpAll(k, Int8, qm, li, m, FlatOf(R, m, k.hidden))
          = FlatOf(AfterMlp(NumOf(Int8), k, k.layers[li], R), m, k.hidden)
      BY <3>1, <3>2, BatchMlp
    <3> QED
      BY <3>1, <3>3 DEF R, m, k
  <2>4. Batch!MlpAll(c, Int8, qm, li, Len(tokens), h) = FlatOf(Truth[2 * (li + 1)], Len(tokens), c.hidden)
    BY <2>3, LayerIs, NumIs
  <2> QED
    BY <1>2, <2>1, <2>4 DEF Lies
<1>3. CASE impl \in Stepwise
  <2>1. h = Truth[2 * li + 1][pos]
    BY <1>3, NumIs DEF Lies
  <2>2. LayerFits(c, w) /\ h \in Vec(c.hidden)
    BY <2>1, LayerIs, Positions DEF Columns
  <2>3. /\ CV!Mlp(c, li, h) = MlpRow("fp32", c, w, h) /\ Reference!Mlp(c, li, h) = MlpRow("fp32", c, w, h)
        /\ V2!Mlp(c, li, h) = MlpRow("fp32", c, w, h) /\ V3!Mlp(c, li, h) = MlpRow("fp32", c, w, h)
    BY <1>1, <2>2, CVPasses, ReferencePasses, V2Passes, V3Passes
  <2>4. Mlped = MlpRow("fp32", c, w, h)
    BY <1>3, <2>3 DEF Mlped, Stepwise
  <2>5. Truth[2 * (li + 1)][pos] = MlpRow("fp32", c, w, h)
    BY <1>3, <2>1, LayerIs, Positions, NumIs
  <2> QED
    BY <1>3, <2>4, <2>5, NumIs DEF Lies
<1> QED
  BY <1>2, <1>3 DEF TypeOK

LEMMA HeadIs ==
  ASSUME TypeOK, Fits, Int8 => qm = Batch!QModelBuild(c), Lies(Truth[2 * c.n_layers], h),
         NEW p \in Held
  PROVE  HeadAt(p) = LogitsFrom(Num, c, Truth[2 * c.n_layers][p])
<1> DEFINE R == Truth[2 * c.n_layers]
<1>1. SizesFit(c) /\ HeadFits(c)
  BY DEF Fits
<1>2. R \in Columns(Len(tokens), c)
  <2>1. 2 * c.n_layers \in 0 .. 2 * c.n_layers
    BY Positions
  <2> QED
    BY <2>1, ResidualsAre DEF Truth, Fits
<1> HIDE DEF R
<1>3. CASE impl \in Batched
  <2>1. HeadAt(p) = Batch!LogitsOf(c, Int8, qm, h, p)
    BY <1>3 DEF HeadAt, Batched
  <2>2. h = FlatOf(R, Len(tokens), c.hidden) /\ p \in 0 .. Len(tokens) - 1
    BY <1>3 DEF Lies, Held, R
  <2>3. Batch!LogitsOf(c, Int8, qm, h, p) = LogitsFrom(NumOf(Int8), c, R[p])
    <3> DEFINE m == Len(tokens)
               k == c
    <3>1. /\ SizesFit(k) /\ HeadFits(k) /\ R \in Columns(m, k) /\ p \in 0 .. m - 1
          /\ m \in Nat /\ Int8 \in BOOLEAN /\ h = FlatOf(R, m, k.hidden)
      BY <1>1, <1>2, <2>2, Positions, NumIs
    <3>2. Int8 => qm = Batch!QModelBuild(k)
      OBVIOUS
    <3> HIDE DEF m, k
    <3>3. Batch!LogitsOf(k, Int8, qm, FlatOf(R, m, k.hidden), p) = LogitsFrom(NumOf(Int8), k, R[p])
      BY <3>1, <3>2, BatchHeadIs
    <3> QED
      BY <3>1, <3>3 DEF m, k
  <2> QED
    BY <2>1, <2>3, NumIs DEF R
<1>4. CASE impl \in Stepwise
  <2>1. h = R[p] /\ p = pos
    BY <1>4, NumIs DEF Lies, Held, R
  <2>2. h \in Vec(c.hidden)
    BY <1>2, <2>1, Positions DEF Columns
  <2>3. /\ CV!Logits(c, h) = LogitsFrom("fp32", c, h) /\ Reference!Logits(c, h) = LogitsFrom("fp32", c, h)
        /\ V3!Logits(c, h) = LogitsFrom("fp32", c, h)
        /\ c.tied => V2!Logits(c, h) = LogitsFrom("fp32", c, h)
    BY <1>1, <2>2, CVPasses, ReferencePasses, V2Passes, V3Passes
  <2>4. HeadAt(p) = LogitsFrom("fp32", c, h)
    BY <1>4, <2>3 DEF HeadAt, Stepwise, Fits
  <2> QED
    BY <1>4, <2>1, <2>4, NumIs DEF R
<1> QED
  BY <1>3, <1>4 DEF TypeOK

\* How many positions each layer holds: a layer that is through with the position
\* holds it too.
Written(l) == IF pc \in {"attention", "mlp", "head"} /\ (l < li \/ (l = li /\ pc = "mlp")) THEN pos + 1 ELSE pos
Entries == [l \in 0 .. c.n_layers - 1 |-> EntryOf(impl, c, tokens, l, Written(l))]

\* A new cache is one that holds no position.
LEMMA NothingWritten ==
  ASSUME TypeOK, Fits, impl \in Stepwise
  PROVE  EmptyCache = [l \in 0 .. c.n_layers - 1 |-> EntryOf(impl, c, tokens, l, 0)]
<1> DEFINE size == KeySize(c)
           room == Len(tokens)
<1>0. size \in Nat /\ size # 0 /\ room \in Nat /\ room * size \in Nat
  <2>1. size \in Nat /\ size # 0
    BY DEF Fits, SizesFit
  <2>2. room \in Nat
    BY Positions
  <2> HIDE DEF size, room
  <2>3. room * size \in Nat
    BY <2>1, <2>2, TimesMore
  <2> QED
    BY <2>1, <2>2, <2>3
<1>1. \A K : FlatOf(K, 0, size) = << >>
  <2> TAKE K
  <2>1. 0 * size = 0
    BY <1>0
  <2>2. DOMAIN FlatOf(K, 0, size) = {}
    BY <2>1 DEF FlatOf
  <2>3. FlatOf(K, 0, size) = [i \in {} |-> K[i \div size][i % size]]
    BY <2>1, <2>2 DEF FlatOf
  <2> QED
    BY <2>3
<1>2. \A K : ListOf(K, 0) = << >>
  BY DEF ListOf
<1>3. \A K : FilledOf(K, 0, room, size) = [i \in 0 .. room * size - 1 |-> Unset]
  <2> TAKE K
  <2> DEFINE m == room * size
  <2>1. m \in Nat
    BY <1>0
  <2> HIDE DEF m, size
  <2>2. \A i \in 0 .. m - 1 : ~(i \div size < 0)
    BY <1>0, <2>1
  <2>3. FilledOf(K, 0, room, size) = [i \in 0 .. m - 1 |-> Unset]
    BY <2>2 DEF FilledOf, m
  <2> QED
    BY <2>3 DEF m
<1>4. CASE impl = "cis2_verify"
  BY <1>1, <1>4 DEF EmptyCache, EntryOf, Layout, CVEntry, CV!NewCache
<1>5. CASE impl = "reference"
  BY <1>2, <1>5 DEF EmptyCache, EntryOf, Layout, ReferenceEntry, Reference!NewCaches
<1>6. CASE impl = "verify2"
  BY <1>2, <1>6 DEF EmptyCache, EntryOf, Layout, V2Entry, V2!NewCache
<1>7. CASE impl = "verify3"
  <2>1. V3!NkvDim(c) = size
    BY DEF V3!NkvDim, V3!HeadDim, KeySize, HeadSize
  <2>2. V3!KvCacheAlloc(c, room) = [l \in 0 .. c.n_layers - 1 |->
          [k |-> [i \in 0 .. room * size - 1 |-> Unset], v |-> [i \in 0 .. room * size - 1 |-> Unset]]]
    BY <2>1 DEF V3!KvCacheAlloc, V3!Array
  <2>3. EmptyCache = V3!KvCacheAlloc(c, room)
    BY <1>7 DEF EmptyCache
  <2>4. \A l : EntryOf(impl, c, tokens, l, 0) =
          [k |-> [i \in 0 .. room * size - 1 |-> Unset], v |-> [i \in 0 .. room * size - 1 |-> Unset]]
    BY <1>3, <1>7 DEF EntryOf, Layout, V3Entry
  <2> QED
    BY <2>2, <2>3, <2>4
<1> QED
  BY <1>4, <1>5, <1>6, <1>7 DEF Stepwise

-----------------------------------------------------------------------------
\* What has begun could be loaded, and until then there are no logits.
Begun ==
  /\ Started(ckpt, impl)
  /\ pc \in {"load", "stopped"} => DOMAIN logits = {} /\ pos = 0
  /\ pc \notin {"load", "stopped"} => Loads

\* The residual between blocks is the formula's, and each layer of the cache holds
\* the formula's keys and values of the positions written to it, as the program
\* lays them out: an attention that reads an older position is right because of
\* what was stored then.
Tracks ==
  /\ pc \notin {"load", "stopped"} => formula = Truth /\ (Int8 => qm = Batch!QModelBuild(c))
  /\ pc \in {"attention", "head"} => Lies(Truth[2 * li], h)
  /\ pc = "mlp" => Lies(Truth[2 * li + 1], h)
  /\ impl \in Stepwise /\ pc \in {"embed", "attention", "mlp", "head"} => cache = Entries
  /\ \A p \in DOMAIN logits : logits[p] = LogitsFrom(Num, c, Truth[2 * c.n_layers][p])

Sense == TypeOK /\ Course /\ Begun
Follow == Sense /\ (ckpt \in Sound => Tracks)

LEMMA InitFollow == Init => Follow
<1> SUFFICES ASSUME Init PROVE Follow
  OBVIOUS
<1>1. DOMAIN logits = {}
  BY DEF Init
<1>2. Begun /\ Tracks
  BY <1>1 DEF Init, Begun, Tracks
<1> QED
  BY <1>2, InitTypes DEF Follow, Sense

LEMMA NextSense == Sense /\ [Next]_vars => Sense'
<1> SUFFICES ASSUME Sense, [Next]_vars PROVE Begun'
  BY NextTypes DEF Sense
<1>0. TypeOK /\ Begun
  BY DEF Sense
<1>1. impl' = impl /\ ckpt' = ckpt /\ tokens' = tokens
  BY DEF Next, vars, Load, Stop, Embed, Attention, Mlp, FinalHead, SkipHead, BatchHead
<1>2. Started(ckpt, impl)' /\ c' = c /\ Loads' = Loads
  BY <1>0, <1>1 DEF Begun, Started, c, Loads
<1>3. CASE Load
  BY <1>0, <1>2, <1>3 DEF Load, Begun
<1>4. CASE Stop
  BY <1>0, <1>2, <1>4 DEF Stop, Begun
<1>5. CASE Embed \/ Attention \/ Mlp
  BY <1>0, <1>2, <1>5 DEF Embed, Attention, Mlp, Begun
<1>6. CASE FinalHead \/ SkipHead \/ BatchHead
  BY <1>0, <1>2, <1>6 DEF FinalHead, SkipHead, NextPosition, BatchHead, Begun
<1>7. CASE UNCHANGED vars
  BY <1>0, <1>2, <1>7 DEF vars, Begun
<1> QED
  BY <1>3, <1>4, <1>5, <1>6, <1>7 DEF Next

\* What a run is about does not change while it goes on.
Same == impl' = impl /\ ckpt' = ckpt /\ tokens' = tokens

LEMMA SameIs ==
  ASSUME Same
  PROVE  c' = c /\ Num' = Num /\ Int8' = Int8 /\ Truth' = Truth /\ (ckpt \in Sound)' = (ckpt \in Sound)
<1>1. c' = c /\ Num' = Num /\ Int8' = Int8 /\ (ckpt \in Sound)' = (ckpt \in Sound)
  BY DEF Same, c, Num, Int8, Sound
<1>2. Truth' = Truth
  BY <1>1 DEF Same, Truth
<1> QED
  BY <1>1, <1>2

LEMMA EntriesSame ==
  ASSUME Same, \A l \in 0 .. c.n_layers - 1 : Written(l)' = Written(l)
  PROVE  Entries' = Entries
<1>1. c' = c
  BY SameIs
<1>2. Entries' = [l \in 0 .. c.n_layers - 1 |-> EntryOf(impl, c, tokens, l, Written(l)')]
  BY <1>1 DEF Same, Entries
<1> QED
  BY <1>2 DEF Entries

\* One lemma for each step of a sound checkpoint.
Sensible == Sense /\ ckpt \in Sound /\ Tracks

LEMMA LoadTracks == Sensible /\ Load => Tracks'
<1> SUFFICES ASSUME Sensible, Load PROVE Tracks'
  OBVIOUS
<1>1. Same /\ TypeOK /\ Begun
  BY DEF Load, Same, Sensible, Sense
<1>2. formula' = Truth /\ (Int8 => qm' = Batch!QModelBuild(c)) /\ cache' = EmptyCache
  BY DEF Load, Sensible, Truth
<1>3. /\ c' = c /\ Int8' = Int8 /\ Truth' = Truth
  BY <1>1, SameIs
<1>4. pc' = "embed" /\ logits' = logits /\ DOMAIN logits = {} /\ pos' = pos
  BY <1>1 DEF Load, Begun
<1>5. ASSUME impl' \in Stepwise PROVE cache' = Entries'
  <2>1. impl \in Stepwise /\ Fits
    BY <1>1, <1>5, SoundFits DEF Same, Sensible, Load, Begun
  <2>2. cache' = [l \in 0 .. c.n_layers - 1 |-> EntryOf(impl, c, tokens, l, 0)]
    BY <1>1, <1>2, <2>1, NothingWritten
  <2>3. \A l : Written(l)' = pos'
    BY <1>4 DEF Written
  <2>4. pos' = 0
    BY <1>1, <1>4 DEF Load, Begun
  <2> QED
    BY <1>1, <1>3, <2>2, <2>3, <2>4 DEF Entries, Same
<1> QED
  BY <1>2, <1>3, <1>4, <1>5 DEF Tracks

LEMMA StopTracks == Sensible /\ Stop => Tracks'
<1> SUFFICES ASSUME Sensible, Stop PROVE Tracks'
  OBVIOUS
<1>1. pc' = "stopped" /\ logits' = logits /\ DOMAIN logits = {}
  BY DEF Stop, Sensible, Sense, Begun
<1> QED
  BY <1>1 DEF Tracks

LEMMA EmbedTracks == Sensible /\ Embed => Tracks'
<1> SUFFICES ASSUME Sensible, Embed PROVE Tracks'
  OBVIOUS
<1>1. Same /\ TypeOK /\ Begun /\ Tracks
  BY DEF Embed, Same, Sensible, Sense
<1>2. Fits
  BY <1>1, SoundFits DEF Sensible, Embed, Begun
<1>3. c' = c /\ Num' = Num /\ Int8' = Int8 /\ Truth' = Truth
  BY <1>1, SameIs
<1>4. /\ formula = Truth /\ (Int8 => qm = Batch!QModelBuild(c)) /\ formula' = formula /\ qm' = qm
      /\ \A p \in DOMAIN logits : logits[p] = LogitsFrom(Num, c, Truth[2 * c.n_layers][p])
      /\ logits' = logits /\ pos' = pos /\ cache' = cache
  BY <1>1 DEF Embed, Tracks
<1>5. pc' \in {"attention", "head"} /\ li' = 0 /\ 2 * li' = 0
  BY DEF Embed
<1>6. Lies(Truth[2 * li], h)'
  <2>1. Lies(Truth[0], Embedded)
    BY <1>1, <1>2, <1>4, EmbeddedIs
  <2>2. h' = Embedded
    BY DEF Embed
  <2> QED
    BY <1>1, <1>3, <1>4, <1>5, <2>1, <2>2 DEF Lies, Same
<1>7. ASSUME impl' \in Stepwise PROVE cache' = Entries'
  <2>1. cache = Entries
    BY <1>1, <1>7 DEF Same, Embed, Tracks
  <2>2. ASSUME NEW l \in 0 .. c.n_layers - 1 PROVE Written(l)' = Written(l)
    <3>1. ~(l < 0)
      OBVIOUS
    <3>2. Written(l)' = pos
      BY <1>4, <1>5, <3>1 DEF Written
    <3> QED
      BY <3>2 DEF Written, Embed
  <2> QED
    BY <1>1, <1>4, <2>1, <2>2, EntriesSame
<1> QED
  BY <1>3, <1>4, <1>5, <1>6, <1>7 DEF Tracks

LEMMA AttentionTracks == Sensible /\ Attention => Tracks'
<1> SUFFICES ASSUME Sensible, Attention PROVE Tracks'
  OBVIOUS
<1>1. Same /\ TypeOK /\ Begun /\ Tracks /\ Course
  BY DEF Attention, Same, Sensible, Sense
<1>2. Fits
  BY <1>1, SoundFits DEF Sensible, Attention, Begun
<1>3. c' = c /\ Num' = Num /\ Int8' = Int8 /\ Truth' = Truth
  BY <1>1, SameIs
<1>4. /\ formula = Truth /\ (Int8 => qm = Batch!QModelBuild(c)) /\ formula' = formula /\ qm' = qm
      /\ \A p \in DOMAIN logits : logits[p] = LogitsFrom(Num, c, Truth[2 * c.n_layers][p])
      /\ logits' = logits /\ pos' = pos /\ li' = li
  BY <1>1 DEF Attention, Tracks
<1>5. pc = "attention" /\ pc' = "mlp" /\ h' = Attended.h /\ cache' = Attended.cache
  BY DEF Attention
<1>6. li \in 0 .. c.n_layers - 1 /\ c.n_layers \in Nat
  BY <1>1, <1>2, <1>5, Positions DEF Course, TypeOK
<1>7. Lies(Truth[2 * li], h)
  BY <1>1, <1>5 DEF Tracks
<1>8. CASE impl \in Batched
  <2>1. Lies(Truth[2 * li + 1], Attended.h)
    BY <1>1, <1>2, <1>4, <1>6, <1>7, <1>8, AttendedTogether
  <2>2. Lies(Truth[2 * li + 1], h)'
    BY <1>1, <1>3, <1>4, <1>5, <2>1 DEF Lies, Same
  <2>3. impl' \notin Stepwise
    BY <1>1, <1>8 DEF Same, Stepwise, Batched
  <2> QED
    BY <1>3, <1>4, <1>5, <2>2, <2>3 DEF Tracks
<1>9. CASE impl \in Stepwise
  <2>1. impl \notin Batched /\ h = Truth[2 * li][pos]
    BY <1>7, <1>9, NumIs DEF Lies
  <2>2. cache = Entries
    BY <1>1, <1>5, <1>9 DEF Tracks
  <2>3. li \in DOMAIN cache /\ cache[li] = EntryOf(impl, c, tokens, li, pos)
    <3>1. Written(li) = pos
      BY <1>5, <1>6 DEF Written
    <3> QED
      BY <1>6, <2>2, <3>1 DEF Entries
  <2>4. Attended = [h |-> Truth[2 * li + 1][pos],
                    cache |-> [cache EXCEPT ![li] = EntryOf(impl, c, tokens, li, pos + 1)]]
    BY <1>1, <1>2, <1>6, <1>9, <2>1, <2>3, AttendedByPosition
  <2>5. Lies(Truth[2 * li + 1], h)'
    BY <1>1, <1>3, <1>4, <1>5, <2>1, <2>4 DEF Lies, Same
  <2>6. cache' = Entries'
    <3>1. cache' = [l \in 0 .. c.n_layers - 1 |->
                     IF l = li THEN EntryOf(impl, c, tokens, li, pos + 1) ELSE EntryOf(impl, c, tokens, l, Written(l))]
      BY <1>5, <2>2, <2>4 DEF Entries
    <3>2. ASSUME NEW l \in 0 .. c.n_layers - 1
          PROVE  Written(l)' = IF l = li THEN pos + 1 ELSE Written(l)
      BY <1>4, <1>5, <1>6 DEF Written
    <3>3. Entries' = [l \in 0 .. c.n_layers - 1 |-> EntryOf(impl, c, tokens, l, Written(l)')]
      BY <1>1, <1>3 DEF Entries, Same
    <3> HIDE DEF Written
    <3> QED
      BY <3>1, <3>2, <3>3
  <2> QED
    BY <1>3, <1>4, <1>5, <2>5, <2>6 DEF Tracks
<1> QED
  BY <1>1, <1>8, <1>9 DEF TypeOK

LEMMA MlpTracks == Sensible /\ Mlp => Tracks'
<1> SUFFICES ASSUME Sensible, Mlp PROVE Tracks'
  OBVIOUS
<1>1. Same /\ TypeOK /\ Begun /\ Tracks /\ Course
  BY DEF Mlp, Same, Sensible, Sense
<1>2. Fits
  BY <1>1, SoundFits DEF Sensible, Mlp, Begun
<1>3. c' = c /\ Num' = Num /\ Int8' = Int8 /\ Truth' = Truth
  BY <1>1, SameIs
<1>4. /\ formula = Truth /\ (Int8 => qm = Batch!QModelBuild(c)) /\ formula' = formula /\ qm' = qm
      /\ \A p \in DOMAIN logits : logits[p] = LogitsFrom(Num, c, Truth[2 * c.n_layers][p])
      /\ logits' = logits /\ pos' = pos /\ cache' = cache
  BY <1>1 DEF Mlp, Tracks
<1>5. pc = "mlp" /\ pc' \in {"attention", "head"} /\ h' = Mlped /\ li' = li + 1
  BY DEF Mlp
<1>6. li \in 0 .. c.n_layers - 1 /\ c.n_layers \in Nat
  BY <1>1, <1>2, <1>5, Positions DEF Course, TypeOK
<1>7. Lies(Truth[2 * (li + 1)], Mlped)
  <2>1. Lies(Truth[2 * li + 1], h)
    BY <1>1, <1>5 DEF Tracks
  <2> QED
    BY <1>1, <1>2, <1>4, <1>6, <2>1, MlpedIs
<1>8. Lies(Truth[2 * li], h)'
  BY <1>1, <1>3, <1>4, <1>5, <1>7 DEF Lies, Same
<1>9. ASSUME impl' \in Stepwise PROVE cache' = Entries'
  <2>1. cache = Entries
    BY <1>1, <1>5, <1>9 DEF Same, Tracks
  <2>2. ASSUME NEW l \in 0 .. c.n_layers - 1 PROVE Written(l)' = Written(l)
    <3>1. l < li + 1 <=> l < li \/ l = li
      BY <1>6
    <3>2. ~(l = li' /\ pc' = "mlp")
      BY <1>5
    <3> QED
      BY <1>4, <1>5, <3>1, <3>2 DEF Written
  <2> QED
    BY <1>1, <1>4, <2>1, <2>2, EntriesSame
<1> QED
  BY <1>3, <1>4, <1>5, <1>8, <1>9 DEF Tracks

\* The logits of a position, and the next position.
LEMMA HeadHolds ==
  ASSUME Sensible, pc = "head", NEW p \in Held
  PROVE  HeadAt(p) = LogitsFrom(Num, c, Truth[2 * c.n_layers][p])
<1>1. TypeOK /\ Begun /\ Tracks /\ Course
  BY DEF Sensible, Sense
<1>2. Fits
  BY <1>1, SoundFits DEF Sensible, Begun
<1>3. Lies(Truth[2 * c.n_layers], h) /\ (Int8 => qm = Batch!QModelBuild(c))
  BY <1>1 DEF Tracks, Course
<1> QED
  BY <1>1, <1>2, <1>3, HeadIs

LEMMA PositionTracks ==
  ASSUME Sensible, pc = "head", Same, c' = c, Truth' = Truth, NextPosition, impl \in Stepwise,
         UNCHANGED <<li, h, cache, qm, formula>>,
         \A p \in DOMAIN logits' : logits'[p] = LogitsFrom(Num', c', Truth'[2 * c'.n_layers][p])
  PROVE  Tracks'
<1>1. TypeOK /\ Tracks /\ Course /\ Begun
  BY DEF Sensible, Sense
<1>2. Fits
  BY <1>1, SoundFits DEF Sensible, Begun
<1>3. Int8' = Int8 /\ (Int8 => qm = Batch!QModelBuild(c)) /\ formula = Truth /\ cache = Entries
  BY <1>1, SameIs DEF Tracks
<1>4. li = c.n_layers /\ c.n_layers \in Nat
  BY <1>1, <1>2, Positions DEF Course
<1>5. pc' \in {"embed", "done"}
  BY DEF NextPosition
<1>6. ASSUME pc' = "embed" PROVE cache' = Entries'
  <2>1. pos' = pos + 1
    BY <1>6 DEF NextPosition
  <2>2. ASSUME NEW l \in 0 .. c.n_layers - 1 PROVE Written(l)' = Written(l)
    <3>1. l < li
      BY <1>4
    <3> QED
      BY <1>6, <2>1, <3>1 DEF Written
  <2> QED
    BY <1>3, <2>2, EntriesSame
<1> QED
  BY <1>3, <1>5, <1>6 DEF Tracks

LEMMA HeadTracks == Sensible /\ (FinalHead \/ SkipHead \/ BatchHead) => Tracks'
<1> SUFFICES ASSUME Sensible, FinalHead \/ SkipHead \/ BatchHead PROVE Tracks'
  OBVIOUS
<1>1. Same /\ pc = "head"
  BY DEF FinalHead, SkipHead, BatchHead, Same
<1>2. c' = c /\ Num' = Num /\ Int8' = Int8 /\ Truth' = Truth
  BY <1>1, SameIs
<1>3. Tracks /\ \A p \in DOMAIN logits : logits[p] = LogitsFrom(Num, c, Truth[2 * c.n_layers][p])
  BY DEF Sensible, Tracks
<1>4. CASE FinalHead
  <2>1. impl \in Stepwise /\ UNCHANGED <<li, h, cache, qm, formula>> /\ NextPosition
        /\ logits' = [p \in DOMAIN logits \cup {pos} |-> IF p = pos THEN HeadAt(pos) ELSE logits[p]]
    BY <1>4 DEF FinalHead
  <2>2. HeadAt(pos) = LogitsFrom(Num, c, Truth[2 * c.n_layers][pos])
    <3>1. pos \in Held
      BY <2>1, NumIs DEF Held
    <3> QED
      BY <1>1, <3>1, HeadHolds
  <2>3. \A p \in DOMAIN logits' : logits'[p] = LogitsFrom(Num', c', Truth'[2 * c'.n_layers][p])
    BY <1>2, <1>3, <2>1, <2>2
  <2> QED
    BY <1>1, <1>2, <2>1, <2>3, PositionTracks
<1>5. CASE SkipHead
  <2>1. impl \in Stepwise /\ UNCHANGED <<li, h, cache, qm, formula>> /\ NextPosition /\ logits' = logits
    BY <1>5 DEF SkipHead, Stepwise
  <2>2. \A p \in DOMAIN logits' : logits'[p] = LogitsFrom(Num', c', Truth'[2 * c'.n_layers][p])
    BY <1>2, <1>3, <2>1
  <2> QED
    BY <1>1, <1>2, <2>1, <2>2, PositionTracks
<1>6. CASE BatchHead
  <2>1. impl \in Batched /\ pc' = "done" /\ qm' = qm /\ formula' = formula
    BY <1>6 DEF BatchHead
  <2>2. PICK from \in {0, Len(tokens) - 1} : logits' = [p \in from .. Len(tokens) - 1 |-> HeadAt(p)]
    BY <1>6 DEF BatchHead
  <2>3. Held = 0 .. Len(tokens) - 1 /\ Len(tokens) \in Nat /\ Len(tokens) # 0
    BY <2>1, TextsAssumption DEF Held, Sensible, Sense, TypeOK
  <2>4. \A p \in from .. Len(tokens) - 1 : p \in Held
    BY <2>2, <2>3
  <2>5. \A p \in DOMAIN logits' : logits'[p] = LogitsFrom(Num', c', Truth'[2 * c'.n_layers][p])
    BY <1>1, <1>2, <2>2, <2>4, HeadHolds
  <2>6. formula' = Truth' /\ (Int8' => qm' = Batch!QModelBuild(c'))
    BY <1>1, <1>2, <1>3, <2>1 DEF Tracks
  <2>7. impl' \in Stepwise /\ pc' \in {"embed", "attention", "mlp", "head"} => cache' = Entries'
    BY <2>1
  <2> QED
    BY <2>1, <2>5, <2>6, <2>7 DEF Tracks
<1> QED
  BY <1>4, <1>5, <1>6

LEMMA StutterTracks == Sensible /\ UNCHANGED vars => Tracks'
<1> SUFFICES ASSUME Sensible, UNCHANGED vars PROVE Tracks'
  OBVIOUS
<1>1. /\ Same /\ UNCHANGED <<pc, pos, li, h, cache>> /\ UNCHANGED <<qm, logits, formula>>
  BY DEF vars, Same
<1>2. c' = c /\ Num' = Num /\ Int8' = Int8 /\ Truth' = Truth
  BY <1>1, SameIs
<1>3. Entries' = Entries
  <2>1. \A l \in 0 .. c.n_layers - 1 : Written(l)' = Written(l)
    BY <1>1 DEF Written
  <2> QED
    BY <1>1, <2>1, EntriesSame
<1>4. \A X, x : (IF impl' \in Batched THEN x = FlatOf(X, Len(tokens'), c'.hidden) ELSE x = X[pos'])
              = (IF impl \in Batched THEN x = FlatOf(X, Len(tokens), c.hidden) ELSE x = X[pos])
  BY <1>1, <1>2 DEF Same
<1>5. Lies(Truth[2 * li], h)' = Lies(Truth[2 * li], h) /\ Lies(Truth[2 * li + 1], h)' = Lies(Truth[2 * li + 1], h)
  BY <1>1, <1>2, <1>4 DEF Lies
<1>6. Tracks
  BY DEF Sensible
<1> QED
  BY <1>1, <1>2, <1>3, <1>5, <1>6 DEF Tracks, Same

LEMMA NextFollow == Follow /\ [Next]_vars => Follow'
<1> SUFFICES ASSUME Follow, [Next]_vars PROVE Follow'
  OBVIOUS
<1>1. Sense'
  BY NextSense DEF Follow
<1>2. (ckpt \in Sound)' = (ckpt \in Sound)
  <2>1. Same
    BY DEF Same, Next, vars, Load, Stop, Embed, Attention, Mlp, FinalHead, SkipHead, BatchHead
  <2> QED
    BY <2>1, SameIs
<1>3. ASSUME ckpt \in Sound PROVE Tracks'
  <2>1. Sensible
    BY <1>3 DEF Sensible, Follow
  <2> QED
    BY <2>1, LoadTracks, StopTracks, EmbedTracks, AttentionTracks, MlpTracks, HeadTracks, StutterTracks DEF Next
<1> QED
  BY <1>1, <1>2, <1>3 DEF Follow

LEMMA AlwaysFollow == Spec => []Follow
<1>1. Init => Follow
  BY InitFollow
<1>2. Follow /\ [Next]_vars => Follow'
  BY NextFollow
<1> QED
  BY <1>1, <1>2, PTL DEF Spec

-----------------------------------------------------------------------------
\* After every block the residual of every program is that of the formula, bit for
\* bit: for every checkpoint cis2-verify accepts and every text, for all sizes, all
\* numbers of layers, heads and groups, all weights, and whatever the operations on
\* values compute.
THEOREM ResidualsAreTheFormulas == Spec => []ResidualsFollowFormula
<1>1. Follow => ResidualsFollowFormula
  <2> SUFFICES ASSUME Follow, ckpt \in Sound, pc \in {"attention", "mlp", "head"}, NEW p \in Held
               PROVE  ResidualAt(p) = formula[IF pc = "mlp" THEN 2 * li + 1 ELSE 2 * li][p]
    BY DEF ResidualsFollowFormula
  <2> DEFINE n == IF pc = "mlp" THEN 2 * li + 1 ELSE 2 * li
             m == Len(tokens)
             size == c.hidden
  <2>1. TypeOK /\ Begun /\ Tracks /\ Course
    BY DEF Follow, Sense
  <2>2. Fits
    BY <2>1, SoundFits DEF Begun
  <2>3. formula = Truth /\ Lies(Truth[n], h)
    BY <2>1 DEF Tracks
  <2>4. n \in 0 .. 2 * c.n_layers
    <3>1. c.n_layers \in Nat /\ li \in 0 .. c.n_layers /\ (pc = "mlp" => li < c.n_layers)
      BY <2>1, <2>2, Positions DEF TypeOK, Course
    <3> QED
      BY <3>1
  <2>5. m \in Nat /\ size \in Nat /\ size # 0
    BY <2>1, <2>2, Positions DEF Fits, SizesFit
  <2> HIDE DEF n
  <2>6. Truth[n] \in Columns(m, c)
    BY <2>2, <2>4, ResidualsAre DEF Truth, Fits
  <2>7. CASE impl \in Batched
    <3>1. h = FlatOf(Truth[n], m, size) /\ p \in 0 .. m - 1
      BY <2>3, <2>7 DEF Lies, Held
    <3>2. Truth[n][p] \in Vec(size)
      BY <2>6, <3>1 DEF Columns
    <3> DEFINE R == Truth[n]
    <3> HIDE DEF R, m, size
    <3>3. Span(FlatOf(R, m, size), p * size, size) = R[p]
      BY <2>5, <3>1, <3>2, FlatRow DEF R
    <3> QED
      BY <2>3, <2>7, <3>1, <3>3 DEF ResidualAt, R, n, size
  <2>8. CASE impl \notin Batched
    BY <2>3, <2>8 DEF ResidualAt, Lies, Held, n
  <2> QED
    BY <2>7, <2>8
<1> QED
  BY <1>1, AlwaysFollow, PTL

\* The logits of every program, at every position it computes them for, are the
\* formula's.
THEOREM LogitsAreTheFormulas == Spec => []LogitsFollowFormula
<1>1. Follow => LogitsFollowFormula
  <2> SUFFICES ASSUME Follow, ckpt \in Sound, NEW p \in DOMAIN logits
               PROVE  logits[p] = LogitsFrom(Num, c, formula[2 * c.n_layers][p])
    BY DEF LogitsFollowFormula
  <2>1. Begun /\ Tracks
    BY DEF Follow, Sense
  <2>2. formula = Truth
    BY <2>1 DEF Begun, Tracks
  <2> QED
    BY <2>1, <2>2 DEF Tracks
<1> QED
  BY <1>1, AlwaysFollow, PTL
=============================================================================
