------------------------------- MODULE MCAudit -------------------------------
(* Two parties with receipts of the small artifacts, altered twice at most.  *)
EXTENDS Audit, SmallArtifacts

CONSTANT Other  \* a value no field rightly has

MCArtifacts ==
  {PinnedFiles, [weights |-> "w2", config |-> "c2", tokenizer |-> "t2"]}

MCRequests == {<<"once", 2>>, <<"twice", 1>>}

\* For the run about what the documents say of themselves.
ZeroRequests == {<<"once", n>> : n \in 0 .. 2}

\* A changed digest is that of other files or runs, or Other.
MCValues(key) ==
  CASE key = "weights-sha256"        -> {"w1", "w1-meta"}
    [] key = "config-sha256"         -> {"c1", "c2"}
    [] key = "tokenizer-sha256"      -> {"t1", "t2"}
    [] key = "prompt-hex"            -> {"once", "twice", "bytes"}
    [] key = "prompt-token-ids"      -> {<<1, 2>>, <<2>>}
    [] key = "gen-toks"              -> {1}
    [] key = "inv-freq-table-digest" -> {"inv1", "inv2"}
    [] key = "generated-token-ids"   -> {<<1>>, <<1, 1>>}
    [] key = "witness-digest"        -> {Other, PinnedReceipt["witness-digest"]}
    [] OTHER                         -> {Other}

MCConfigs == {"c2"}
MCTokenizers == {"t2"}
=============================================================================
