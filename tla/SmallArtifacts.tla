---------------------------- MODULE SmallArtifacts ----------------------------
(* Small artifacts for the models of Attest and Audit.  "w1" and "w1-meta"    *)
(* hold the same tensors in files that differ; "w-bad", "c-bad" and "t-bad"   *)
(* are refused by the loaders.  The pinned run is w1, c1, t1 on "once".       *)
EXTENDS Integers, Sequences

SmallContents ==
  [weights   |-> {"w1", "w1-meta", "w2", "w-bad"},
   config    |-> {"c1", "c2", "c-bad"},
   tokenizer |-> {"t1", "t2", "t-bad"}]

SmallTable == "table"
SmallConfigOk(c) == c \in {"c1", "c2"}
SmallInvFreq(c) == IF c = "c1" THEN "inv1" ELSE "inv2"
SmallModelOk(w, c) == w \in {"w1", "w1-meta", "w2"}
SmallUtf8(p) == p # "bytes"

\* "silence" encodes to no token at all.
SmallEncodes(t, p) == t \in {"t1", "t2"} /\ p # "bytes"

SmallEncoding(t, p) ==
  IF p = "silence" THEN << >>
  ELSE IF p = "once" /\ t = "t1" THEN <<1, 2>>
  ELSE IF p = "once" THEN <<1, 1>>
  ELSE <<2>>

\* Logits that depend on tensors, config, prompt and step; the tokens
\* of w1 and w2 agree, their logits do not.
SmallDecoding(w, c, ids, n) ==
  LET tensors == IF w = "w2" THEN 5 ELSE 3
      config == IF c = "c1" THEN 0 ELSE 1
  IN  [i \in 1 .. n |->
         LET odd == (Len(ids) + ids[1] + i + config) % 2
         IN  <<<<tensors + odd, tensors + 1 - odd>>, 2 - odd>>]

\* The last step goes wrong: in its logits only, or in its token too.
SmallFaulty(log) ==
  LET n == Len(log)
      logits == log[n][1]
      id == log[n][2]
  IN  IF n = 0 THEN {}
      ELSE {[log EXCEPT ![n] = <<[logits EXCEPT ![id] = @ + 10], id>>],
            [log EXCEPT ![n] = <<<<logits[2], logits[1]>>, 3 - id>>]}

\* The logits and ids there are.
SmallWords == 1 .. 16

SmallPinned ==
  [weights |-> "w1", config |-> "c1", tokenizer |-> "t1", prompt |-> "once", gen_toks |-> 2]
=============================================================================
