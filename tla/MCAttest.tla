------------------------------- MODULE MCAttest -------------------------------
(* All programs over the small artifacts.  The receipts to verify are those  *)
(* of true runs, with at most one field altered.                             *)
EXTENDS Attest, SmallArtifacts

CONSTANT Other  \* a value no field rightly has

MCContents == [f \in Files |-> SmallContents[f] \cup {Absent}]

MCDisks ==
  {PinnedFiles, [PinnedFiles EXCEPT !.weights = "w2"], [PinnedFiles EXCEPT !.config = "c2"],
   [PinnedFiles EXCEPT !.tokenizer = "t2"]}

Altered(r) ==
  {r} \cup {[r EXCEPT ![k] = Other] :
             k \in {"spec-version", "dtype", "table-digest", "inv-freq-table-digest",
                    "argmax-digest", "witness-digest", "config-sha256"}}
      \cup {[r EXCEPT !["weights-sha256"] = "w1-meta"],
            [r EXCEPT !["tokenizer-sha256"] = "t2"],
            [r EXCEPT !["prompt-hex"] = "bytes"],
            [r EXCEPT !["prompt-hex"] = "twice"],
            [r EXCEPT !["prompt-token-ids"] = <<2>>],
            [r EXCEPT !["generated-token-ids"][1] = 3 - @]}

TrueReceipts ==
  UNION {Run(art, "once", 2) : art \in MCDisks} \cup Run(PinnedFiles, "twice", 1)

Task(p, prompt, n, claimed) ==
  [program |-> p, prompt |-> prompt, gen_toks |-> n, claimed |-> claimed]

MCTasks ==
  {Task(p, "once", 2, {}) : p \in Programs}
    \cup {Task(p, "twice", n, {}) : p \in {"reference", "cis2_verify"}, n \in 0 .. 1}
    \cup {Task("cis2_verify", "silence", 1, {})}
    \cup {Task("cis2_verify", r["prompt-hex"], r["gen-toks"], {r}) :
            r \in UNION {Altered(t) : t \in TrueReceipts}}
=============================================================================
