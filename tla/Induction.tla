----------------------------- MODULE Induction -----------------------------
(***************************************************************************)
(* Induction over the naturals in the forms the proofs of this project     *)
(* use: without an operator as parameter, so that they can be cited.       *)
(***************************************************************************)
EXTENDS Integers, Sequences, NaturalsInduction, WellFoundedInduction, SequenceTheorems, TLAPS

\* A non-empty set of naturals has a least element.
LEMMA LeastNat ==
  ASSUME NEW S \in SUBSET Nat, S # {}
  PROVE  \E k \in S : \A j \in S : k <= j
<1>1. PICK k \in S : \A j \in S : ~ (<<j, k>> \in OpToRel(<, Nat))
  BY NatLessThanWellFounded, WFMin
<1>2. \A j \in S : ~ (j < k)
  BY <1>1 DEF OpToRel
<1> QED
  BY <1>2

\* A set that has 0 and the successors of its elements has all up to n.
LEMMA UpTo ==
  ASSUME NEW n \in Nat, NEW S, 0 \in S,
         \A i \in 0 .. n - 1 : i \in S => i + 1 \in S
  PROVE  0 .. n \subseteq S
<1> DEFINE Missing == {i \in 0 .. n : i \notin S}
<1> SUFFICES ASSUME Missing # {} PROVE FALSE
  OBVIOUS
<1>0. Missing \in SUBSET Nat
  OBVIOUS
<1>1. PICK k \in Missing : \A j \in Missing : k <= j
  <2> HIDE DEF Missing
  <2> QED
    BY <1>0, LeastNat
<1>2. k # 0 /\ k \in 0 .. n
  BY <1>1
<1>3. k - 1 \in 0 .. n - 1 /\ (k - 1) + 1 = k /\ k - 1 \notin Missing
  BY <1>1, <1>2
<1> QED
  BY <1>1, <1>3

\* What follows each value at each index, and a solution of the recursion.
StepTable(n, T) == [(1 .. n) \X T -> T]

Follows(g, n, T, base, step) ==
  /\ g \in [0 .. n -> T]
  /\ g[0] = base
  /\ \A i \in 1 .. n : g[i] = step[<<i, g[i - 1]>>]

\* A definition by recursion over 0 .. n has a solution.
LEMMA RecursionExists ==
  ASSUME NEW n \in Nat, NEW T, NEW base \in T, NEW step \in StepTable(n, T)
  PROVE  \E g : Follows(g, n, T, base, step)
<1> DEFINE Value(g, i) == IF i = 0 THEN base ELSE step[<<i, g[i - 1]>>]
           Solves(g, m) == g \in [0 .. m -> T] /\ \A i \in 0 .. m : g[i] = Value(g, i)
           Reached == {m \in 0 .. n : \E g : Solves(g, m)}
<1>0. step \in [(1 .. n) \X T -> T]
  BY DEF StepTable
<1>1. 0 \in Reached
  <2> DEFINE g == [i \in 0 .. 0 |-> base]
  <2>1. g \in [0 .. 0 -> T] /\ \A i \in 0 .. 0 : i = 0 /\ g[i] = base
    OBVIOUS
  <2> HIDE DEF g
  <2>2. Solves(g, 0)
    BY <2>1
  <2> QED
    BY <2>2
<1>2. ASSUME NEW m \in 0 .. n - 1, m \in Reached
      PROVE  m + 1 \in Reached
  <2>1. PICK g : Solves(g, m)
    BY <1>2
  <2> DEFINE next == step[<<m + 1, g[m]>>]
             h == [i \in 0 .. m + 1 |-> IF i = m + 1 THEN next ELSE g[i]]
  <2>2. g[m] \in T /\ m + 1 \in 1 .. n
    BY <2>1
  <2>3. next \in T
    BY <1>0, <2>2
  <2>4. h \in [0 .. m + 1 -> T]
    BY <2>1, <2>3
  <2>5. ASSUME NEW i \in 0 .. m + 1 PROVE h[i] = Value(h, i)
    <3>1. CASE i = m + 1
      <4>1. h[i] = next /\ h[i - 1] = g[m] /\ i # 0
        BY <3>1
      <4> QED
        BY <3>1, <4>1
    <3>2. CASE i # m + 1
      <4>1. i \in 0 .. m /\ h[i] = g[i]
        BY <3>2
      <4>2. i # 0 => h[i - 1] = g[i - 1]
        BY <4>1
      <4> QED
        BY <2>1, <4>1, <4>2
    <3> QED
      BY <3>1, <3>2
  <2> HIDE DEF h, Value
  <2>6. Solves(h, m + 1)
    BY <2>4, <2>5
  <2> QED
    BY <2>6
<1>3. n \in Reached
  <2> HIDE DEF Reached
  <2> QED
    BY <1>1, <1>2, UpTo
<1>4. PICK g : Solves(g, n)
  BY <1>3
<1>5. ASSUME NEW i \in 1 .. n PROVE g[i] = step[<<i, g[i - 1]>>]
  <2>1. i \in 0 .. n /\ i # 0
    OBVIOUS
  <2>2. g[i] = Value(g, i)
    BY <1>4, <2>1
  <2> QED
    BY <2>1, <2>2
<1>6. g[0] = base
  <2>1. 0 \in 0 .. n
    OBVIOUS
  <2> HIDE DEF Value
  <2>2. g[0] = Value(g, 0)
    BY <1>4, <2>1
  <2> QED
    BY <2>2 DEF Value
<1> QED
  BY <1>4, <1>5, <1>6 DEF Follows

\* Where the lengths of the first parts agree, the cut is determined.
LEMMA ConcatCancel ==
  ASSUME NEW S, NEW a \in Seq(S), NEW b \in Seq(S), NEW c \in Seq(S), NEW d \in Seq(S),
         Len(a) = Len(c), a \o b = c \o d
  PROVE  a = c /\ b = d
<1>1. \A i \in 1 .. Len(a) : a[i] = c[i]
  BY ConcatProperties, LenProperties
<1>2. a = c
  BY <1>1, SeqEqual
<1> QED
  BY <1>2, ConcatSimplifications

\* What has the value base after n and at each index follows from its value at a
\* later index.
Jumps(g, n, T, base, jump, step) ==
  /\ g \in [1 .. n + 1 -> T]
  /\ g[n + 1] = base
  /\ \A p \in 1 .. n : g[p] = step[<<p, g[jump[p]]>>]

\* A definition by recursion from the end, over 1 .. n + 1, has a solution.
LEMMA JumpExists ==
  ASSUME NEW n \in Nat, NEW T, NEW base \in T, NEW step \in StepTable(n, T),
         NEW jump, \A p \in 1 .. n : jump[p] \in p + 1 .. n + 1
  PROVE  \E g : Jumps(g, n, T, base, jump, step)
<1> DEFINE Value(g, p) == IF p = n + 1 THEN base ELSE step[<<p, g[jump[p]]>>]
           Solves(g, m) == g \in [n + 1 - m .. n + 1 -> T]
                             /\ \A p \in n + 1 - m .. n + 1 : g[p] = Value(g, p)
           Reached == {m \in 0 .. n : \E g : Solves(g, m)}
<1>0. step \in [(1 .. n) \X T -> T]
  BY DEF StepTable
<1>1. 0 \in Reached
  <2> DEFINE g == [p \in n + 1 - 0 .. n + 1 |-> base]
  <2>1. g \in [n + 1 - 0 .. n + 1 -> T] /\ \A p \in n + 1 - 0 .. n + 1 : p = n + 1 /\ g[p] = base
    OBVIOUS
  <2> HIDE DEF g
  <2>2. Solves(g, 0)
    BY <2>1
  <2> QED
    BY <2>2
<1>2. ASSUME NEW m \in 0 .. n - 1, m \in Reached
      PROVE  m + 1 \in Reached
  <2>1. PICK g : Solves(g, m)
    BY <1>2
  <2> DEFINE q == n - m
             next == step[<<q, g[jump[q]]>>]
             h == [p \in n + 1 - (m + 1) .. n + 1 |-> IF p = q THEN next ELSE g[p]]
  <2>2. /\ q \in 1 .. n /\ jump[q] \in n + 1 - m .. n + 1
        /\ n + 1 - (m + 1) = q /\ n + 1 - m = q + 1
    OBVIOUS
  <2>3. g[jump[q]] \in T
    BY <2>1, <2>2
  <2>4. next \in T
    BY <1>0, <2>2, <2>3
  <2>5. h \in [n + 1 - (m + 1) .. n + 1 -> T]
    BY <2>1, <2>2, <2>4
  <2>6. ASSUME NEW p \in n + 1 - (m + 1) .. n + 1 PROVE h[p] = Value(h, p)
    <3>1. CASE p = q
      <4>1. h[p] = next /\ h[jump[p]] = g[jump[p]] /\ p # n + 1
        BY <2>2, <3>1
      <4> QED
        BY <3>1, <4>1
    <3>2. CASE p # q
      <4>1. p \in n + 1 - m .. n + 1 /\ h[p] = g[p]
        BY <2>2, <3>2
      <4>2. p # n + 1 => h[jump[p]] = g[jump[p]]
        <5>1. SUFFICES ASSUME p # n + 1 PROVE h[jump[p]] = g[jump[p]]
          OBVIOUS
        <5>2. jump[p] \in n + 1 - (m + 1) .. n + 1 /\ jump[p] # q
          BY <2>2, <4>1, <5>1
        <5> QED
          BY <5>2
      <4> QED
        BY <2>1, <4>1, <4>2
    <3> QED
      BY <3>1, <3>2
  <2> HIDE DEF h, Value
  <2>7. Solves(h, m + 1)
    BY <2>5, <2>6
  <2> QED
    BY <2>7
<1>3. n \in Reached
  <2> HIDE DEF Reached
  <2>1. 0 .. n \subseteq Reached
    BY <1>1, <1>2, UpTo
  <2> QED
    BY <2>1
<1>4. PICK g : Solves(g, n)
  BY <1>3
<1>5. g \in [1 .. n + 1 -> T] /\ \A p \in 1 .. n + 1 : g[p] = Value(g, p)
  <2>1. n + 1 - n = 1
    OBVIOUS
  <2> HIDE DEF Value
  <2> QED
    BY <1>4, <2>1
<1>6. g[n + 1] = base /\ \A p \in 1 .. n : g[p] = step[<<p, g[jump[p]]>>]
  <2>1. n + 1 \in 1 .. n + 1 /\ \A p \in 1 .. n : p \in 1 .. n + 1 /\ p # n + 1
    OBVIOUS
  <2> QED
    BY <1>5, <2>1
<1> QED
  BY <1>5, <1>6 DEF Jumps
=============================================================================
