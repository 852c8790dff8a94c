------------------------------- MODULE Receipt -------------------------------
(***************************************************************************)
(* Receipts: the thirteen fields, the text they are written in, and which  *)
(* receipt the artifacts justify.  Attest models the programs that make    *)
(* and verify receipts, Audit the commands that only read them.            *)
(*                                                                         *)
(* SHA-256 is taken to be collision-free: a digest is modelled by the      *)
(* sequence that was hashed, or by the file itself.  Tokenizer, model and  *)
(* decode loop (BpeQueue, Decode) are parameters here.                     *)
(***************************************************************************)
EXTENDS Integers, Sequences

CONSTANTS
  Table,                \* mathpin::table_digest(), the same for every run
  ConfigOk(_),          \* config.json parses
  InvFreq(_),           \* the inv_freq_table_digest of a config
  ModelOk(_, _),        \* weights and config load as a model
  Utf8(_),              \* the prompt bytes are text
  Encodes(_, _),        \* the tokenizer loads and encodes the prompt
  Encoding(_, _),       \* tokenizer, prompt -> the ids
  Decoding(_, _, _, _), \* weights, config, ids, n -> n pairs <<logits, id>>
  Pinned                \* the run of the spec: files, prompt and gen_toks

\* The files of an artifact directory; an artifacts record has one of each.
Files == {"weights", "config", "tokenizer"}

Keys == <<"spec-version", "weights-sha256", "config-sha256", "tokenizer-sha256",
          "prompt-hex", "prompt-token-ids", "gen-toks", "dtype", "table-digest",
          "inv-freq-table-digest", "generated-token-ids", "argmax-digest",
          "witness-digest">>

KeySet == {Keys[i] : i \in 1 .. 13}

\* The key that carries the digest of a file.
HashKey == [weights   |-> "weights-sha256",
            config    |-> "config-sha256",
            tokenizer |-> "tokenizer-sha256"]

-----------------------------------------------------------------------------
(***************************************************************************)
(* What a run claims.                                                      *)
(***************************************************************************)
Generated(log) == [i \in 1 .. Len(log) |-> log[i][2]]

\* The logits and the id of every step, one after the other.
Stream(log) ==
  LET Steps[i \in 0 .. Len(log)] ==
        IF i = 0 THEN << >> ELSE Steps[i - 1] \o log[i][1] \o <<log[i][2]>>
  IN  Steps[Len(log)]

\* Spec 12.1: one stream of the file digests, the tables, the prompt ids, then
\* the steps; the first five are of fixed length.
Witness(hashed, inv_freq, ids, log) ==
  <<hashed.weights, hashed.tokenizer, hashed.config, Table, inv_freq, ids \o Stream(log)>>

\* Spec 12.2: the ids only, the prompt's first.
ArgmaxDigest(ids, log) == ids \o Generated(log)

\* A field of the receipt of one decode.
Field(k, hashed, config, prompt, ids, n, log) ==
  CASE k = "spec-version"          -> "0.3b"
    [] k = "weights-sha256"        -> hashed.weights
    [] k = "config-sha256"         -> hashed.config
    [] k = "tokenizer-sha256"      -> hashed.tokenizer
    [] k = "prompt-hex"            -> prompt
    [] k = "prompt-token-ids"      -> ids
    [] k = "gen-toks"              -> n
    [] k = "dtype"                 -> "fp32"
    [] k = "table-digest"          -> Table
    [] k = "inv-freq-table-digest" -> InvFreq(config)
    [] k = "generated-token-ids"   -> Generated(log)
    [] k = "argmax-digest"         -> ArgmaxDigest(ids, log)
    [] k = "witness-digest"        -> Witness(hashed, InvFreq(config), ids, log)

\* The receipt of one decode: the digests of the files hashed, the tables of
\* the config in use, and what the decode produced.
Claim(hashed, config, prompt, ids, n, log) ==
  [k \in KeySet |-> Field(k, hashed, config, prompt, ids, n, log)]

\* The artifacts are accepted and the prompt has tokens.
Runnable(art, prompt) ==
  /\ Encodes(art.tokenizer, prompt)
  /\ Encoding(art.tokenizer, prompt) # << >>
  /\ ConfigOk(art.config)
  /\ ModelOk(art.weights, art.config)

\* The receipt the artifacts justify, in a set of at most one: verify::run on
\* a host that computes what the spec asks for.
Run(art, prompt, n) ==
  LET ids == Encoding(art.tokenizer, prompt)
  IN  IF Runnable(art, prompt)
        THEN {Claim(art, art.config, prompt, ids, n, Decoding(art.weights, art.config, ids, n))}
        ELSE {}

PinnedFiles == [f \in Files |-> Pinned[f]]

\* The values of spec 13.1 that spec.rs holds; the fixture tests and
\* EXPECTED_DIGESTS.md say that they are those of the pinned run.
PinnedReceipt == CHOOSE r \in Run(PinnedFiles, Pinned.prompt, Pinned.gen_toks) : TRUE

ASSUME PinnedAssumption ==
  /\ DOMAIN Pinned = Files \cup {"prompt", "gen_toks"}
  /\ Run(PinnedFiles, Pinned.prompt, Pinned.gen_toks) # {}

\* check_against_pinned: the fields that differ from the pinned run's.
OffPinned(r) == {k \in KeySet \ {"spec-version"} : r[k] # PinnedReceipt[k]}

-----------------------------------------------------------------------------
(***************************************************************************)
(* The text of a receipt: a header, lines of a key and a value, and the    *)
(* way lines end.  A line's form is "plain" as render writes it,           *)
(* "respelled" if it denotes the same value otherwise (+2, 02, upper-case  *)
(* hex), "malformed" if it denotes none.                                   *)
(***************************************************************************)
ListKeys == {"prompt-token-ids", "generated-token-ids"}

\* An empty id list renders as an empty value, which no key allows.
Render(r) ==
  [header |-> "CIS-2-RECEIPT v1",
   lines  |-> [i \in 1 .. 13 |->
                 [key   |-> Keys[i],
                  value |-> r[Keys[i]],
                  form  |-> IF Keys[i] \in ListKeys /\ r[Keys[i]] = << >>
                              THEN "malformed" ELSE "plain"]],
   ending |-> "lf"]

\* gen-toks is read by a parser of integers, which takes a sign and zeros; hex
\* and id lists have one spelling.
LineOk(line) ==
  /\ line.key \in KeySet
  /\ line.form = "plain" \/ (line.form = "respelled" /\ line.key = "gen-toks")

\* The receipt the lines denote.
Denoted(lines) ==
  [k \in KeySet |-> lines[CHOOSE i \in DOMAIN lines : lines[i].key = k].value]

\* Mutation: a repeated key is taken.
ParsesRepeated(text) ==
  /\ text.header = "CIS-2-RECEIPT v1"
  /\ \A i \in DOMAIN text.lines : LineOk(text.lines[i])
  /\ KeySet \subseteq {text.lines[i].key : i \in DOMAIN text.lines}
  /\ Len(Denoted(text.lines)["generated-token-ids"]) = Denoted(text.lines)["gen-toks"]

\* Receipt::parse: every key once, every value well formed, the number of
\* generated ids as announced; lines() takes any of the endings.
Parses(text) ==
  /\ text.header = "CIS-2-RECEIPT v1"
  /\ \A i \in DOMAIN text.lines : LineOk(text.lines[i])
  /\ \A i, j \in DOMAIN text.lines : text.lines[i].key = text.lines[j].key => i = j
  /\ KeySet \subseteq {text.lines[i].key : i \in DOMAIN text.lines}
  /\ Len(Denoted(text.lines)["generated-token-ids"]) = Denoted(text.lines)["gen-toks"]
=============================================================================
