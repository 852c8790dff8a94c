-------------------------------- MODULE Audit --------------------------------
(***************************************************************************)
(* The commands that judge receipts by their text: check (one receipt and  *)
(* perhaps config.json and tokenizer.json) and compare (two receipts).     *)
(* Two parties hold a document each.  Each document starts as one that the *)
(* run command wrote, and may be altered before it is judged: the wording  *)
(* of the commands' reports is a promise about what the artifacts would    *)
(* say, and that is what the properties hold them to.                      *)
(***************************************************************************)
EXTENDS Receipt

CONSTANTS
  Artifacts,  \* the artifact directories receipts are made from
  Requests,   \* the <<prompt, gen_toks>> they are made for
  Values(_),  \* key -> the values a line of it may be changed to
  Configs,    \* config.json files at hand for check
  Tokenizers, \* tokenizer.json files at hand
  MaxEdits    \* bound on the number of alterations, of both documents

\* Requests of the run command are text, and what answers them has gen_toks
\* steps; gen-toks lines that can be read at all denote a number.
ASSUME RequestsAssumption ==
  /\ \A q \in Requests : Utf8(q[1]) /\ q[2] \in Nat
  /\ \A art \in Artifacts, q \in Requests : Runnable(art, q[1]) =>
       Len(Decoding(art.weights, art.config, Encoding(art.tokenizer, q[1]), q[2])) = q[2]

ASSUME EditsAssumption == MaxEdits \in Nat /\ Values("gen-toks") \subseteq Nat

VARIABLES
  docs,   \* party -> document
  edits,  \* alterations made so far
  report  \* what the last command printed

vars == <<docs, edits, report>>

Parties == {"a", "b"}

Honest == UNION {Run(art, q[1], q[2]) : art \in Artifacts, q \in Requests}

Parsed(x) == Denoted(docs[x].lines)

-----------------------------------------------------------------------------
(***************************************************************************)
(* check: the verdict of every question, by its name.                      *)
(***************************************************************************)
PassIf(b) == IF b THEN "PASS" ELSE "FAIL"

\* Mutation: the table is not rebuilt from the config at hand.
CheckConfigNotRebuilt(r, config) ==
  IF config # {}
    THEN PassIf(\A c \in config : c = r["config-sha256"] /\ ConfigOk(c))
  ELSE IF r["config-sha256"] = Pinned.config
    THEN PassIf(r["inv-freq-table-digest"] = PinnedReceipt["inv-freq-table-digest"])
  ELSE "SKIP"

\* The inv_freq table from the config at hand, or from the spec if the receipt
\* names the pinned config.
CheckConfig(r, config) ==
  IF config # {}
    THEN PassIf(\A c \in config : /\ c = r["config-sha256"]
                                  /\ ConfigOk(c)
                                  /\ InvFreq(c) = r["inv-freq-table-digest"])
  ELSE IF r["config-sha256"] = Pinned.config
    THEN PassIf(r["inv-freq-table-digest"] = PinnedReceipt["inv-freq-table-digest"])
  ELSE "SKIP"

\* Mutation: the pinned prompt ids stand for those of any prompt.
CheckTokenizerAnyPrompt(r, tokenizer) ==
  IF ~ Utf8(r["prompt-hex"])
    THEN "SKIP"
  ELSE IF tokenizer # {}
    THEN PassIf(\A t \in tokenizer :
                  /\ t = r["tokenizer-sha256"]
                  /\ Encodes(t, r["prompt-hex"])
                  /\ Encoding(t, r["prompt-hex"]) = r["prompt-token-ids"])
  ELSE IF r["tokenizer-sha256"] = Pinned.tokenizer
    THEN PassIf(r["prompt-token-ids"] = PinnedReceipt["prompt-token-ids"])
  ELSE "SKIP"

\* The prompt ids from the tokenizer at hand, or from the spec if the receipt
\* names the pinned tokenizer and prompt.
CheckTokenizer(r, tokenizer) ==
  IF ~ Utf8(r["prompt-hex"])
    THEN "SKIP"
  ELSE IF tokenizer # {}
    THEN PassIf(\A t \in tokenizer :
                  /\ t = r["tokenizer-sha256"]
                  /\ Encodes(t, r["prompt-hex"])
                  /\ Encoding(t, r["prompt-hex"]) = r["prompt-token-ids"])
  ELSE IF r["tokenizer-sha256"] = Pinned.tokenizer /\ r["prompt-hex"] = Pinned.prompt
    THEN PassIf(r["prompt-token-ids"] = PinnedReceipt["prompt-token-ids"])
  ELSE "SKIP"

NamesPinnedRun(r) ==
  /\ \A f \in Files : r[HashKey[f]] = Pinned[f]
  /\ r["prompt-hex"] = Pinned.prompt
  /\ r["gen-toks"] = Pinned.gen_toks

CheckPinned(r) == IF NamesPinnedRun(r) THEN PassIf(OffPinned(r) = {}) ELSE "SKIP"

Check(text, config, tokenizer) ==
  IF ~ Parses(text) THEN [parse |-> "FAIL"]
  ELSE LET r == Denoted(text.lines)
       IN  [parse     |-> "PASS",
            canonical |-> PassIf(text = Render(r)),
            dtype     |-> PassIf(r["dtype"] = "fp32"),
            prompt    |-> PassIf(Utf8(r["prompt-hex"])),
            table     |-> PassIf(r["table-digest"] = Table),
            inv_freq  |-> CheckConfig(r, config),
            ids       |-> CheckTokenizer(r, tokenizer),
            pinned    |-> CheckPinned(r)]

\* The fields of CHECKABLE that a passing check establishes.
Establishes ==
  [inv_freq |-> {"inv-freq-table-digest", "config-sha256"},
   ids      |-> {"prompt-token-ids", "tokenizer-sha256"},
   table    |-> {"table-digest"}]

Checkable == {"config-sha256", "tokenizer-sha256", "prompt-token-ids", "table-digest",
              "inv-freq-table-digest", "weights-sha256"}

Outputs == {"generated-token-ids", "argmax-digest", "witness-digest"}

\* Mutation: a skipped pinned-vector question leaves nothing either.
ResidualSkipped(checks) ==
  IF "pinned" \in DOMAIN checks /\ checks["pinned"] # "FAIL" THEN {}
  ELSE Outputs \cup
       (Checkable \ UNION {Establishes[q] : q \in {p \in DOMAIN Establishes \cap DOMAIN checks :
                                                     checks[p] = "PASS"}})

\* residual: the fields left to a replay.
Residual(checks) ==
  IF "pinned" \in DOMAIN checks /\ checks["pinned"] = "PASS" THEN {}
  ELSE Outputs \cup
       (Checkable \ UNION {Establishes[q] : q \in {p \in DOMAIN Establishes \cap DOMAIN checks :
                                                     checks[p] = "PASS"}})

Passed(checks) == \A q \in DOMAIN checks : checks[q] # "FAIL"

-----------------------------------------------------------------------------
(***************************************************************************)
(* compare: the fields split into what was run, what follows from it, and  *)
(* what came out.                                                          *)
(***************************************************************************)
\* Mutation: prompt and length are not counted among the inputs.
InputsFilesOnly ==
  {"spec-version", "weights-sha256", "config-sha256", "tokenizer-sha256", "dtype"}

Inputs == {"spec-version", "weights-sha256", "config-sha256", "tokenizer-sha256",
           "prompt-hex", "gen-toks", "dtype"}

Derived == {"prompt-token-ids", "table-digest", "inv-freq-table-digest"}

Differing(part, r, s) == {k \in part : r[k] # s[k]}

Verdict(r, s) ==
  IF Differing(Inputs \cup Derived \cup Outputs, r, s) = {} THEN "IDENTICAL"
  ELSE IF Differing(Inputs, r, s) = {} THEN "CONTRADICTION"
  ELSE IF r["weights-sha256"] # s["weights-sha256"] /\ r["witness-digest"] = s["witness-digest"]
    THEN "WITNESS-COLLISION"
  ELSE "DIFFERENT-RUN"

\* is_contradiction: the verdicts that make compare fail.
IsContradiction(verdict) == verdict \in {"CONTRADICTION", "WITNESS-COLLISION"}

-----------------------------------------------------------------------------
NoReport == [command |-> "none"]

\* Every party holds what a run wrote (cmd_run), perhaps the same document.
Init ==
  /\ docs \in [Parties -> {Render(r) : r \in Honest}]
  /\ edits = 0
  /\ report = NoReport

\* The text of a document changes before it is judged.
Edit(x, text) ==
  /\ text # docs[x]
  /\ docs' = [docs EXCEPT ![x] = text]
  /\ edits' = edits + 1
  /\ UNCHANGED report

SetValue(x, i) ==
  \E v \in Values(docs[x].lines[i].key) :
    Edit(x, [docs[x] EXCEPT !.lines[i].value = v])

Respell(x, i) == Edit(x, [docs[x] EXCEPT !.lines[i].form = "respelled"])

\* A line is put before its predecessor.
Exchange(x, i) ==
  /\ i > 1
  /\ Edit(x, [docs[x] EXCEPT !.lines[i] = docs[x].lines[i - 1],
                             !.lines[i - 1] = docs[x].lines[i]])

Drop(x, i) ==
  Edit(x, [docs[x] EXCEPT !.lines =
             SubSeq(docs[x].lines, 1, i - 1) \o SubSeq(docs[x].lines, i + 1, Len(docs[x].lines))])

Repeat(x, i) == Edit(x, [docs[x] EXCEPT !.lines = Append(@, docs[x].lines[i])])

\* The last line end is lost, or all line ends are converted.
EndLines(x) == \E e \in {"none", "crlf"} : Edit(x, [docs[x] EXCEPT !.ending = e])

Relabel(x) == Edit(x, [docs[x] EXCEPT !.header = "CIS-2-RECEIPT v2"])

EditOf(x) ==
  /\ edits < MaxEdits
  /\ report = NoReport
  /\ Parses(docs[x])
  /\ \/ \E i \in DOMAIN docs[x].lines :
            SetValue(x, i) \/ Respell(x, i) \/ Exchange(x, i) \/ Drop(x, i) \/ Repeat(x, i)
     \/ EndLines(x)
     \/ Relabel(x)

\* cis2-verify check, with the files at hand.
CheckDoc(config, tokenizer) ==
  /\ report = NoReport
  /\ LET checks == Check(docs["a"], config, tokenizer)
     IN  report' = [command   |-> "check",
                    config    |-> config,
                    tokenizer |-> tokenizer,
                    residual  |-> Residual(checks),
                    passed    |-> Passed(checks)]
  /\ UNCHANGED <<docs, edits>>

\* cis2-verify compare; it needs two receipts that parse.
CompareDocs ==
  /\ report = NoReport
  /\ Parses(docs["a"]) /\ Parses(docs["b"])
  /\ LET verdict == Verdict(Parsed("a"), Parsed("b"))
     IN  report' = [command |-> "compare",
                    verdict |-> verdict,
                    passed  |-> ~ IsContradiction(verdict)]
  /\ UNCHANGED <<docs, edits>>

AtHand(files) == {{}} \cup {{f} : f \in files}

Next ==
  \/ \E x \in Parties : EditOf(x)
  \/ \E config \in AtHand(Configs), tokenizer \in AtHand(Tokenizers) : CheckDoc(config, tokenizer)
  \/ CompareDocs

Spec == Init /\ [][Next]_vars

-----------------------------------------------------------------------------
(***************************************************************************)
(* Properties.                                                             *)
(***************************************************************************)
\* The files a receipt names, and whether they justify it (what the verify
\* command establishes, see Attest).
Named(r) == [f \in Files |-> r[HashKey[f]]]

TrueReceipt(r) ==
  \E t \in Run(Named(r), r["prompt-hex"], r["gen-toks"]) :
    \A k \in KeySet \ {"spec-version"} : r[k] = t[k]

Untouched(x) == \E r \in Honest : docs[x] = Render(r) /\ r["generated-token-ids"] # << >>

\* A document that parses has a value for every key; reports come from commands.
TypeOK ==
  /\ edits \in 0 .. MaxEdits
  /\ report.command \in {"none", "check", "compare"}
  /\ \A x \in Parties : Parses(docs[x]) =>
       /\ Len(docs[x].lines) = 13
       /\ Parsed(x)["gen-toks"] \in Nat

\* A receipt of a run that generated a token never fails check, whichever
\* files are at hand, provided they are those it names.
HonestPasses ==
  /\ report.command = "check"
  /\ Untouched("a")
  /\ report.config \subseteq {Parsed("a")["config-sha256"]}
  /\ report.tokenizer \subseteq {Parsed("a")["tokenizer-sha256"]}
  => report.passed

\* "residual names, field by field, exactly what check did not establish": of
\* a receipt that passes, every field not named is what the artifacts the
\* receipt names would give, and if none is named the receipt is true.
ResidualIsHonest ==
  report.command = "check" /\ report.passed =>
    LET r == Parsed("a")
    IN  /\ "inv-freq-table-digest" \notin report.residual =>
             r["inv-freq-table-digest"] = InvFreq(r["config-sha256"])
        /\ "prompt-token-ids" \notin report.residual =>
             Encoding(r["tokenizer-sha256"], r["prompt-hex"]) = r["prompt-token-ids"]
        /\ "table-digest" \notin report.residual => r["table-digest"] = Table
        /\ report.residual = {} => TrueReceipt(r)

\* compare accuses nobody falsely: of two receipts it fails, at most one is
\* justified by the artifacts it names.
AccusationsAreJust ==
  report.command = "compare" /\ ~ report.passed =>
    ~ (TrueReceipt(Parsed("a")) /\ TrueReceipt(Parsed("b")))

\* A dispute over a derived field is settled without the weights: check, given
\* the config and the tokenizer both receipts name, fails one of them.
DisputeSettledByFiles ==
  /\ report.command = "compare"
  /\ report.verdict = "CONTRADICTION"
  /\ Differing(Derived, Parsed("a"), Parsed("b")) # {}
  => \E x \in Parties :
       ~ Passed(Check(docs[x], {Parsed(x)["config-sha256"]}, {Parsed(x)["tokenizer-sha256"]}))

\* receipt.rs: "parse(render(r)) == r for every receipt".
RenderedParses ==
  \A x \in Parties : \A r \in Honest :
    docs[x] = Render(r) => Parses(docs[x]) /\ Parsed(x) = r
=============================================================================
