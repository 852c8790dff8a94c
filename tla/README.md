# CIS-2: specifications, model checking and proofs

CIS-2 (Canonical Inference Specification 2) pins the inference of a small
language model so tightly that anybody who has the same files and the same
prompt gets the same logits, bit for bit. This repository holds the
specification's text, a Rust reference (`src/`), three further implementations
(`cis2-verify/`, `verify2/`, `verify3/` in C), receipts that a run can be
attested with, and the commands and scripts that judge receipts and candidate
implementations. This directory models that system in TLA+, checks the models
with TLC and proves theorems about them with TLAPS.

Paths below are relative to the repository's root.

## 1. The parts of the system

### 1.1 What runs

| Part | State | Operations | Works with |
|---|---|---|---|
| BPE tokenizer (`cis2-verify/src/tokenizer.rs`) | vocabulary, merge table; for a word: symbols in a doubly linked list, heap of candidates | `from_json`, `encode_word`: seed, pop, discard, apply, collect | called per word by `encode`; its ids go into the witness |
| Pre-tokenizers (`tokenizer.rs`, `verify3/tokenizer.c`) | position in the text, words found; in C an array of 4,096 spans | `split_digits`, `split_byte_level_regex`; `pretokenize` | give the words to the merge loop |
| verify3's tokenizer (`tokenizer.c`) | two hash maps, an array of pieces | load, rescan for the best merge, join | as above |
| Decode loop (`model.rs`, `src/main.rs`, `verify2/src/main.rs`, `verify3/model.c`) | tokens, position, KV cache, residual, logits | prefill, one layer, head, argmax and fold | arithmetic underneath, witness beside it |
| Forward pass (`model.rs`, `ops.rs`, `src/main.rs`, `verify2/src/main.rs`, `model.c`, `model_int8.c`) | residual, query, keys and values, the cache of a layer in the layout of the program | embed, attention with rotation and softmax, MLP, head | called by the decode loop; the INT8 program takes whole batches |
| Pinned functions (`mathpin.rs`, `softfp.rs`, `math.rs`, `mathpin.c`) | - | rsqrt, exp, ln, SiLU, sine, cosine; sqrt, floor and round on integers | called by the forward pass |
| Floating-point environment (`fpenv.rs`, `denormal.rs`, `mathpin.c`) | the control register | pin, read back, probe twice | once, before anything else |
| SHA-256 (`sha256.rs`, `sha256.c`, the sha2 crate) | a block, how full it is, a count | update, finalize | digests of files, of the run, of the tables |
| Witness and receipt (`witness.rs`, `receipt.rs`, `spec.rs`) | a running SHA-256; thirteen fields | fold a step, finalize; render, parse | written by `run`, read by the other commands |
| `run` and `verify` (`verify.rs`, `bin/cis2-verify.rs`), drivers of the other three | bytes read, digests, two decodes, a verdict | read, hash, refuse, encode, decode twice, compare, print | files that others may replace; the host's arithmetic |
| `check` and `compare` (`check.rs`, `compare.rs`) | the documents, the files at hand, the report | answer the questions, name the residual; sort the differences | documents from parties that need not be honest |
| Conformance runner (`src/bin/cis2_conformance.rs`) | a child process, three pipes, a clock | spawn, write, poll, kill, read, judge | runs concurrently with a candidate by a third party |
| JSON readers (`json.rs`, `json.c`) | a cursor | parse, convert numbers | read every artifact but the weights' data |
| Loaders (`safetensors`, `config`) | byte cursors | parse, check | their refusals decide what the programs accept |
| Ledger and its checker (`ledger/verify_ledger.py`) | the page; three sets, a counter, the hash of the last line, errors | publish; read a line; print the head | read by anyone, rewritten by anyone who can |
| MCP server, evidence pack, monitor, selfcheck, kits | logs, exit statuses | build, run, compare, summarise | run the programs above |
| Reports of the INT8 program, sweeps, examples, evaluations | result files | one-off measurements | - |

### 1.2 What makes it hard

- *Laziness.* The heap of the merge loop is not cleaned when a merge makes
  candidates stale; they are judged when popped, by their id alone.
- *Four shapes of one loop.* The programs run the last prompt token, the last
  generated token and the argmax in different phases. One slip by one in a
  position shows only in the logits of later steps.
- *Five passes, one sum.* Addition of floats is not associative. Five programs
  with five layouts of the cache must do the same operations on the same
  numbers in the same order; a wrong stride or group is right for one head.
- *Subnormal numbers.* Two control bits decide whether they exist. Two
  instruction sets see a tiny result at different moments, and a probe of the
  environment may be one that cannot fail.
- *Files and hosts that change.* Two programs hash files and open them again
  to use them. A decode can go wrong on an unsound host: catching that is what
  the receipt is for.
- *Documents that lie.* `check` and `compare` judge text without the weights,
  and word their findings as promises about what the weights would show.
- *A candidate nobody knows.* The conformance runner talks over bounded pipes
  to a process that can exit, hang, close its input or leave a process behind,
  at any moment, while a clock runs.
- *Boundaries.* Empty prompts, no tokens asked for, arrays of fixed length,
  blanks at the end of segments, padding, integers that wrap.

### 1.3 What correctness means, part by part

- Tokenizers: the ids are those of merging, again and again, the leftmost
  occurrence of the first listed pair that occurs; the loop ends; on one file
  and one word the two programs have the same ids.
- Pre-tokenizers: words tile the text and are those of the expression.
- Decode: the tokens and the folded logits are those of greedy decoding with
  everything recomputed at every step; no access outside of an array.
- Forward pass: after every block every program's residual, and at the end its
  logits, are those of one formula; what one program loads, the others load.
- Pinned functions: the same bits from every program on every host it starts
  on.
- SHA-256: the digest is that of the padded message, however it is cut.
- Attestation: what is published, and what `verify` and the conformance
  verdicts say, is what the bytes used justify, even with one wrong decode.
- Audit: honest receipts pass; nothing is promised beyond what was checked; of
  two receipts accused, not both are true.
- Conformance: passes are earned, conforming candidates pass unless the runner
  misses their exit at the last moment, candidates are not run side by side, the run
  ends.
- JSON: what cis2-verify takes is JSON and means what the standard says, numbers
  rounded once; verify3 reads the same from it.
- Ledger: a page that is accepted is in order for every experiment, and is the
  page of the saved head up to the line that has it.

## 2. The modules

| Module | What it is | Composes |
|---|---|---|
| `BpeMerge` | abstract: which merge comes next, on the set of cuts in a word | - |
| `BpeQueue` | `from_json` and `encode_word` with list and heap | refines `BpeMerge` |
| `BpeRescan` | verify3's tables and `encode_word`, a step per merge | - |
| `Tokenizers` | the two merge loops on one file and one word | `BpeQueue`, `BpeRescan` |
| `TokenizersProofs` | theorems about `BpeQueue` and `Tokenizers` | `Induction` |
| `ByteLevel` | the segmentation the specification asks for, as sets of possible matches | - |
| `PreTokenize` | the two scanners, step by step | `ByteLevel` |
| `PreTokenizeProofs` | theorems about `PreTokenize` | `Induction` |
| `GreedyDecode` | abstract: greedy decoding without a cache | - |
| `Decode` | the four decode loops with a cache | refines `GreedyDecode` |
| `DecodeProofs` | theorems about `Decode` | `Induction` |
| `Floats` | arithmetic as constants; vectors and matrices as the code lays them out | - |
| `Transformer` | abstract: the forward pass as formulas on all positions, in FP32 and INT8 | `Floats` |
| `Cis2VerifyModel`, `ReferenceModel`, `Verify2Model`, `Verify3Model` | loading and the blocks of the four passes | `Floats` |
| `BatchModel` | `forward_generic` of the INT8 program, and its quantisation | `Verify3Model` |
| `Forward` | one pass over a text by one of the programs, block by block | all of these |
| `ForwardProofs` | theorems about `Forward` | `Induction` |
| `SmallFloat` | external: the processors' floating point, in formats of any width | - |
| `SoftFp` | `softfp.rs` and the two conversions on exponent fields | `SmallFloat` |
| `PinnedMath` | the pinned functions of the four programs | `SoftFp` |
| `Startup` | pin, read back, probe, and then call a pinned function | `PinnedMath` once per program |
| `Sha256Stream` | the buffers and padding of three SHA-256 codes | - |
| `JsonGrammar` | abstract: the values a text means by RFC 8259 | - |
| `JsonRust`, `JsonC` | the readers of cis2-verify and verify3 | `JsonGrammar`, `SmallFloat` |
| `Json` | both on every text that is written symbol by symbol | both |
| `Ledger` | the page of experiments and the checker's pass over its lines | - |
| `Receipt` | fields, witness, rendering, parsing, the receipt files justify | - |
| `Attest` | the four programs that decode and attest | `Receipt` |
| `Audit` | `check` and `compare` on documents of two parties | `Receipt` |
| `AttestProofs`, `AuditProofs` | theorems about them | `Induction` (`AttestProofs`) |
| `Conformance` | the runner against any candidate | - |
| `PrimitivesProofs` | theorems about `Sha256Stream`, `Ledger`, `Conformance` and `Json` | `Induction` |
| `SmallArtifacts`, `MC*` | small instances for TLC | - |
| `Induction` | lemmas: induction over the naturals and the existence of recursive functions, in forms that can be cited | - |

Positions, ranks, layers and array indices count from 1 in the modules, from 0
in the code; in `Floats` and the modules on it, where strides are computed,
they count from 0 as in the code. Definitions named `...Any`, `...First` and so on with a comment
"Mutation:" are what a plausible slip in the code would make of the definition
that follows; no specification uses them.

### 2.1 BpeQueue and the code

`Load`/`Refuse` are `Tokenizer::from_json`: `LoadOk` collects its refusals (a
string listed twice, two strings with one id, a merge whose parts or result
have no entry), `MergeTable` its table, in which the first of two equal merges
keeps its rank. `Seed` is the head of `encode_word`: one symbol per character,
one candidate per mergeable pair; `SeedError` a character that has no entry.
`Discard` and `Apply` are one turn of `while let Some(top) = queue.pop()`:
`IsTop` is the order of `impl Ord for Merge` (least rank, then leftmost; the
code's reversed comparison of its max-heap), `StillValid` the two `continue`s,
`Joined` the rewiring of `prev` and `next` with the absorbed symbol left at
length 0, `Created` the candidates queued on both sides. `Finish` collects the
ids. The heap is a set: two candidates that are equal in all three fields
would be one, and `NeverRequeued` shows that a merge queues none that is there.
The byte-to-character table is left out: a word is a sequence of characters of
the remapped alphabet.

The abstraction function to `BpeMerge` takes the positions of live symbols to
the cuts of the word; popping a stale candidate is a stutter.

`BpeRescan` is verify3's. `Load` fills the two hash maps (`PutAll`: a string or
a merge that is listed again overwrites its entry); `Key` writes a pair into a
buffer and cuts it off at its end, twice for a listed merge (`ListedKey`).
`Split` makes one piece per character, `Merge` joins the neighbours of least
rank (`Best`, the first of equals), `Settle` finds none left, `LookUp` and
`Exit` look the pieces up or leave with code 96. `Tokenizers` lets it follow
`BpeQueue` on the same file and word. `SameIds` claims equal ids where
cis2-verify returns some, under two conditions that the code needs: a merge
that is repeated keeps its place relative to others (`RepeatsKeepOrder`: one
program ranks by the first place, the other by the last), and no key loses in
its buffer what it is found by (`KeysApart`, in both directions: neighbours that
are not listed must not get the key of a listed merge, and listed ones must get
theirs, which fails where `Load` cuts a left part that `encode_word` does not).

### 2.2 PreTokenize and the code

`Split` is `split_digits`, a loop with `run_start`. `Scan` is a turn of
`split_byte_level_regex`, which calls `match_one`: contractions, then the three
classes with an optional blank, then runs of blanks with the look-ahead.
`ScanSpan` is a turn of the `while` of `pretokenize` in C: it works on the whole
text, does not isolate digits (verify3 has no such step), and stops when the
array of spans is full (`Room`). The words found are recorded as text, so that
`Tiles` can compare them with the input. Texts are ASCII: beyond it verify3
does not claim to follow the specification, and cis2-verify's Unicode classes
are tables.

### 2.3 Decode and the code

A decode is driven by where it is: `BeginForward` starts a forward pass
at `pos`, `Layer` runs one layer (its key and value are stored, then the
position attends to the cache), `EndForward` computes logits where the program
computes them, `Step` is argmax, push and fold, `Return` the end. `PrefillTo`
and `StepForwardDue` give the four shapes: the reference prefills the whole
prompt and runs a forward pass in vain after the last token; `cis2-verify`
leaves the last prompt token to the first step; verify2 skips the vain pass;
verify3 runs a pass at the start of every step but the first and computes
logits only where they are wanted. `Panic` is the indexing of empty logits by
the reference when the prompt has no tokens; the other three refuse or never
see such a prompt. Arithmetic enters as `Embed`, `Project`, `Block`, `LmHead`,
which are constants: nothing is assumed of them but that logits are a non-empty
sequence of numbers. NaN, which compares to nothing, is left out.

### 2.4 Receipt, Attest, Audit and the code

A digest is an injective term (SHA-256 without collisions); file contents are
model values, and what the programs compute of them are constants
(`Encoding`, `Decoding`, `InvFreq`, ...). `Run(art, prompt, n)` is the receipt
that files justify, or nothing if a program would refuse them. `Stream` is what the witness
hashes of a log, step by step. `Words` are the 32-bit words that token ids and
logits are; `Shaped` says of a decode that every step has as many logits as the
first, on a host that errs too.

In `Attest` the disk is a variable that `Replace` changes between any two
accesses. `Accesses` lists each program's accesses in order: cis2-verify and
verify2 read once and hash what they read; the reference and verify3 hash all
three and open them again. `HashesRefused` is the early end of `verify`, whose
receipt names other files, and of verify2 and verify3, which take the pinned
files only; `Prepare`/`PrepareFails` parsing and encoding, `DecodeOnce`/`DecodeWrong`
the two decodes, `Report`, `Disagree`, `WriteFails` the end. verify3 interleaves
its second opening of the tokenizer with encoding; the model does all its
accesses before it encodes, which changes no outcome: encoding touches no file.

In `Audit` a document is a sequence of lines with a label and a line ending.
It starts as `run` would have written it, and each party may alter its own:
values, spelling of a value, order of lines, lines dropped or repeated, other
line ends, another first line. `CheckDoc` and `CompareDocs` are the commands.

### 2.5 Conformance and the code

The runner's actions follow `run_candidate` and `check_vector`: `Spawn`,
`SpawnFails`, `Write`, `WriteFails`, then the turns of the loop: `Exited` or
`StillRuns` is what `try_wait` answers, `TimeOut` or `Sleep` what the clock says
afterwards, in a step of its own (`pc = "clock"`) before which the candidate may go
on; `Judge` (stdout read to its end, exit status before digest, digest by the
first line with the key). All vectors are run whatever the verdicts are.
`Elapse` is the passing of ten seconds. `exited` is a ghost variable, which says
when the candidate exited; `"gap"` is in time, but since the last `try_wait`. The candidate's actions are what an
operating system lets a process do with its pipes; there is no protocol in
them. A vector is shorter than a pipe (the longest has 2,427 bytes), so writing
it never blocks. A process that a candidate leaves behind with its stdout open
is `helper`; candidates that the runner did not wait for are `strays`.

### 2.6 Forward and the code

`Forward` takes one of the five passes over a given text. `Load`/`Stop` are the
loaders' decisions about `config.json` and the tensors' names and shapes;
`Embed`, `Attention`, `Mlp` the blocks of a layer as the program computes them;
`FinalHead` the logits of a position, `SkipHead` verify3's `need_logits = 0`,
`BatchHead` what the INT8 program's callback sees. Behind them stand the
program's own operators: `Cis2VerifyModel` with flat vectors that grow by a row
(`KvCache`, `Row`), `ReferenceModel` with a vector per position, `Verify2Model`
with one per head, `Verify3Model` with arrays for the whole decode, allocated
and not cleared (`KvCacheAlloc`: `Unset` until a row is written),
`BatchModel` with all positions at once and the INT8 matrices of `quant.c`.
`Attention` is one action because nothing but the program sees what lies inside
of it; its operators keep the order of the operations all the same, since the
result depends on it.

A float is an element of a set without laws of arithmetic (`Floats`): `Add`, `Mul`,
`Exp` and the others are constants, of which `FloatsAssumption` says that they
stay in the set; values are ordered by `Exceeds`. Two passes have equal residuals for every arithmetic
only if they do the same operations in the same order. `Transformer` writes
down what that is, on all positions and without a cache, and `formula` is a
ghost variable that holds it, worked out once when the checkpoint is loaded.
`qm` holds the INT8 matrices. `Array` is the identity, written so that TLC
evaluates a vector once. What a function of the code computes step by step is a chain of
small operators that hand each result on as an argument (`FromNorm`, `AfterPush`,
`Attend`, `Mix`, `Mixed`), in the order of the code.

This is what `Decode` leaves open: its `Project` and `Block` are the blocks of
such a pass, and `LogitsFollowFormula` says that logits are a function of
checkpoint and text, which `Decode` assumes of `LmHead` of the last residual.

### 2.7 Startup, PinnedMath, SoftFp and the code

`Startup` is the beginning of each `main`. `Pin` reads the control register, sets
the bits and writes it; on this host a bit may not stick (`host.sticks`), or
stick and change nothing (`host.obeyed`), as under an emulator. `ReadBack` and
`ReadBackFails` are the assertion on what is read back; the reference goes on
from there, the others run `ProbeUnderflow` and `ProbeDenormal`. Then one function
is called with one float, and `call` keeps the function, the float and the value;
that stands for any number of calls, since the functions have no state.

`PinnedMath` has the functions operation by operation. Every operation is that of
the processor the program runs on (`SmallFloat`: rounding to nearest even,
flushing of results and operands, and the instruction set's notion of a tiny
result, before rounding on aarch64 and after it on x86-64). The four programs
write the same steps; an instance of the module per program differs where the
programs do, in where square root, floor and round come from and in exp's NaN.
The coefficients are parameters of the module. `Meaning` is the instance in which
scaling and splitting a float are exact arithmetic and the environment is the
one that the specification asks for.

`SoftFp` is `softfp.rs` bit for bit, with the format's widths for the numbers 23,
127 and 52, and `GuardBits` for the 26 of the square root.

### 2.8 Sha256Stream and the code

`Feed` is one call of `update`, `Finish` the end. `UpdateRust` tops up the buffer,
hashes whole blocks from the data and keeps the rest; `FinalizeRust` feeds the
padding through `update` a byte at a time, at most 63 zeros; `UpdateC` puts byte
after byte and counts bits per block (the model puts all bytes up to the end of a
block at once, `Put`: between two of them nothing is looked at); `FinalizeC` writes the padding into the buffer, with a
second block when there is no room. `Compress` appends the block to the blocks
hashed so far, which is the compression function without collisions. The bytes
of a message are all different, so that a byte lost, repeated or out of place
shows. Counts do not wrap in the model; in the code they do modulo 2^64, which
changes no digest, since `BigEndian` takes 64 bits of them. The sha2 crate is
modelled by its contract.

### 2.9 Ledger and the code

`BeginRead`, `ReadTorn`, `ReadRow` and `EndRead` are `parse_ledger` and the
verdict that `main` prints: one step per line, with `seen`, `started`, `judged`,
`next_exp` and `prev_expected` as in the code. Errors do not stop it: the sets go
on growing as if the line had been right, and one error anywhere is a refusal.
Experiments are compared as text in the sets and as numbers in the check for
gaps, so that `E-0001` and `E-00001` are both in the instance.

The program judges one page. What it is for (`ledger/README.md`) is to compare
two: the model therefore has the owner, who appends lines in any order with any
kind (`Publish`), somebody who rewrites the page (`Edit`: a line changed, torn,
removed or moved, the rest linked anew or not), and the reader, who saves the
head of an accepted page (`Leave`). `AcceptedIsPublished` is about a page that is
accepted: `Ordered` (`InOrder`, line by line) reads the rules off the whole page, without the sets; and if
a line of it has the saved head, everything up to it is what was published. A
hash is the term that was hashed. A page is rewritten once, after a head was
saved, and is not appended to after that: in between nothing can be told from
what the owner published. A rewritten page without the saved head in it is
accepted if it is in order; the reader who compares sees that the head is gone.

### 2.10 Json and the code

`Read` is the recursive descent with the cursor in its result (`Done`, or
`Refused` where it gave up): a function on places, depths and what is expected
there, and one operator each for `value` (`ReadValue`) and the loops of
`array` and `object` (`ReadItems`, `ReadFields`), which are read from their
heads, given what is read from later places on. `String` and `Number` are the methods of these
names, `IntDigit` and `FracDigit` the turns of the two loops that collect a
significand, `Scaled10` the one operation that makes a float of it. `ParseValue`
(`ParseInner`, `ParseItems`, `ParsePairs` for its functions), `ParseStringRaw` and
`NumberBranch` are json.c, which counts a list's level when it enters the list, where
json.rs counts it for each element, skips blanks at other places, copies whatever is in a
string, keeps half a surrogate pair as it is, takes everything that can stand in
a number for one, and does not look at what follows the first value. A text is
a sequence of symbols; an escape, a character and half a surrogate pair are one
symbol each, so that hexadecimal digits and UTF-8 are not a subject.

`Meanings` is the standard read the other way round: it cuts the whole text at
all commas and colons and keeps the cuts that make sense. `JsonIsRead` says that
cis2-verify accepts exactly the texts that have a meaning, within its limits for
nesting and exponents, and finds that meaning; that verify3 finds the same in
all texts that cis2-verify accepts; and that a converted number is the float
nearest to what is written. Texts that only verify3 takes are not looked at: the
artifacts are pinned, and every verdict on them needs cis2-verify to take them.

## 3. What TLC checks

| Run | Instance | States | Shows |
|---|---|---|---|
| `bpe_queue` | every list of 2 or 3 useful merges over 2 characters that make strings of up to 3, with a full vocabulary and three that must be refused; words of length 0, 1, 5 | 206,702 | the heap computes what the rescan computes, forgets nothing, re-queues nothing, ends; verify3 then has the same ids |
| `decode` | 4 programs, prompts of 0 to 3 of 3 tokens, 0 to 3 tokens to generate, 2 layers | 10,904 | tokens, logits and cache are those of decoding without a cache |
| `attest` | 4 programs, 4 directories, true receipts and receipts with one field altered; 2 files replaced, 2 wrong decodes | 228,528 | publications, verifications and conformance verdicts are justified |
| `audit` | receipts of 2 directories and 2 requests, 2 alterations, config and tokenizer at hand or not | 682,766 | honest receipts pass, residual and accusations are right |
| `pre_tokenize` | all texts of up to 5 over 7 characters and 4 longer ones, 4 spans | 255,212 | segmentation tiles and follows the expression |
| `conformance` | 2 vectors, pipes of 2 lines | 1,149,816 | verdicts are right against every candidate but one that exits behind the runner's back, the run ends |
| `forward` | 5 passes (the INT8 program in both modes), 12 checkpoints, the texts of 1 and 2 tokens over 2 ids and half of those of 3, 2 layers or none | 6,442 | residuals and logits are the formula's after every block; what cis2-verify loads, all load |
| `primitives` | 4 programs, both instruction sets, every host; f32 with 3 bits of mantissa and 5 of exponent, f64 with 6 and 5, every float; messages of up to 136 bytes in all cuts; ledgers of up to 4 lines of 3 spellings of 2 experiment numbers and 5 kinds, rewritten when of up to 3; texts of up to 7 symbols of JSON, of up to 15 in objects | 689,204 | pinned functions have one meaning, digests no seams, the ledger no quiet changes, JSON two readers of one mind |

Four runs show a sentence of the repository that the code does not keep
(`attest_printing`, `audit_round_trip`, `conformance_helper`, `fp_env`); see
section 6.

### 3.1 The bounds, and why they are enough

- *Merge lists of three over two characters.* A stale candidate needs one merge
  to queue it, one to spoil it, and one that would give the same id; repeated
  entries and overlapping occurrences (`aaaa`) occur too. Words of five hold
  two merges with neighbours on both sides. The proofs cover the rest.
- *Two layers, prompts of up to three.* A cache that is wrong in one layer or
  position differs in the logits, because the small arithmetic mixes every
  operand it is given; ties between logits occur. Two layers show a second
  layer's cache being fed from the first.
- *Two replacements, two faults.* One replacement between hashing and use and
  one back is the longest deception of a program that reads twice; two faults
  cover one and both decodes being wrong, alike or not.
- *Two alterations.* One in each document, or two in one. Altered values are
  those of other files and runs, and one that nothing has.
- *Four spans, five characters.* Texts that fill the array and one more, and
  all sequences of blank, blank, letter, digit, quote that matter; the longer
  contractions are samples.
- *Twelve checkpoints.* Grouped heads and a shared head, with and without biases,
  tied and separate heads, a head beside tied embeddings and one that is
  missing, an odd head, uneven groups, a transposed matrix, interleaved
  rotation, a hidden size of 0, tensors that share bytes, no layers at all. Three positions and
  two layers show every stride: a row, a head in it, a later position, a second
  layer's cache.
- *`MaxInt`.* The integers that the passes make floats of, lengths of vectors and
  sums of products of bytes, are no greater: 127 * 127 * 8 = 129,032 for rows of
  up to 8.
- *Arithmetic modulo 97.* The small `Add` is commutative and not associative, and
  no operation distributes over another, so that sums in another order and
  scales in another place come to other numbers; the mutants show it.
- *Floats of 9 bits.* All of them are tried, subnormals, infinities and NaNs
  included. The exponent has 5 bits because the claim needs what is true of
  32-bit floats: at the root of the smallest normal number a unit in the last
  place is far greater than that number, so that a product that one processor
  flushes and another rounds up is lost when the next term is added. With 4 bits
  of exponent and 4 of mantissa it is not, and the instruction sets differ in
  `exp`. `GuardBits` is 1, so that ties occur which only the remainder breaks;
  the result of the algorithm does not depend on it. f64 has f32's exponents
  here, and sine and cosine get arguments that stay within them.
- *136 bytes.* Two blocks and the padding's third; every length modulo 64 and
  every cut of a message into pieces occur.
- *Four lines of a ledger.* Bar, start, verdict and one more line of the same
  experiment or of another: what a set can forget needs two lines of one
  experiment with one of another between them. Rewriting wants a line before
  and a line after the one that changes.
- *Seven symbols of JSON.* Four alphabets: all delimiters with a blank, a string
  and a digit; objects of up to two members; the inside of strings; numbers.
  Nesting of 3 is refused by one reader with a limit of 2 and read by the other
  with 4. Significands have 3 digits and floats 7 bits: as with 16 digits and 53
  bits, one digit less is always exact and the last is not.
- *Two vectors, pipes of two lines.* A stray needs a vector after its own. Two
  lines hold a wrong digest before or after a right one, and a third blocks.

`CHECK_DEADLOCK FALSE` is in the configurations because every one of these
programs ends; that it ends in the right state is what `Terminates`,
`RunEndsAfterHelpers` and the invariants about final states say.

### 3.2 Fairness

`encode_word` is a sequential loop of one thread, which the operating system runs
until it returns: `WF_vars(Next)`, in `Tokenizers` of the two programs one after
the other. Its heap grows while it is drained, so that its end is worth a
property; the decode loops are `for` loops over a given number of steps.
The conformance runner is one such process and time passes: `WF` of `Runner`
and of `Elapse`. Nothing is assumed of candidates or of processes that they
leave; `RunEndsAfterHelpers` therefore says in its hypothesis what it needs.
The other modules are about what is computed and need no fairness.

## 4. What is proved

All theorems hold for every value of the constants: every tokenizer file and
word, every arithmetic and number of layers, every set of artifacts and every
pattern of replacements and faults, any number of vectors, any pipe.

**BpeQueue** (`TokenizersProofs`). The inductive invariant is
`TypeOK /\ Context /\ ListSound /\ QueueComplete /\ QueueSound`: `Context` keeps
the tables as `from_json` built them, `QueueSound` says that each candidate was
once made of two neighbours that gave its id. From it `TypeCorrect`,
`ListIsSound`, `QueueIsComplete`. `RevalidationIsSound` (`ValidIsCurrent`) is
the theorem that makes the laziness right. The loader refuses shared ids, so
equal ids mean equal strings, and two strings that start at one position are
equal only if they end at one position: the pair that was queued and the pair
that stands there cover the same text. They are also cut at the same place,
because (`QueueSound`) the left symbol has either kept the length it was queued
with or grown past the whole of the candidate. Without the loader's refusal
the property fails, which the mutant `LoadOkAnyIds` shows.
`QueueImplementsMerge`: the least valid candidate is the leftmost occurrence of
the first listed pair, and an empty queue means that no pair occurs.
`QueuedOnce` (`NeverRequeued`): what a merge queues reaches further into the word
than anything that waits in the heap at its position (`QueuedReach`).

**Tokenizers** (`TokenizersProofs`). `TokenizersAgree` (`SameIds`) compares two
programs with nothing in common but their input, by way of the cuts of `BpeMerge`.
A step of the greedy loop is determined by the cuts (`MergedOnce`), so that two
walks from the first cuts go the same way (`SameTrace`) and all that end, end
alike (`OneEnd`). `QueueWalk` says that the live symbols of cis2-verify are
`Reached` by such a walk, from `ApplyMerges` and `FinishStops` of the
refinement. `RescanOk` says it of verify3's array of strings, of which `Spells`
gives the positions in the word: neighbours in the array are the `Neighbours` of
the cuts, the tables rank a pair by its last place (`RankIsLastPlace`, where
`KeysApart` is needed), the scan's choice is the greedy one (`BestMerges`, with
`RepeatsKeepOrder`), and closing the gap takes out one cut (`JoinedSpells`). At
the end the cuts are the same, every string is one that the loader put in the
vocabulary with its id (`LiveText`, `SameVocab`), so that verify3 finds it, and the
ids come out in the same order (`ResultIs`, by induction over the vector).
The proof showed the property false as it was first stated, with `KeysApart`
in one direction only; see 16 in section 6.

**PreTokenize** (`PreTokenizeProofs`). The expression is a choice among sets of
possible ends (`ByteLevel`), the scanners go from character to character. Where
a run ends is determined, so that each set the expression chooses from is, at its
longest, the end of a run: `BlankMatches` has the look-ahead, `FirstMatches` the
order of the alternatives, and `WordEndIs` says that `match_one` ends where the
expression does. `SplitIs` shows of the loop of `split_digits` that its segments form a
chain that covers the text (`Chain`), each of them as far as the expression may
look (`SegmentOk`). The invariant (`IInv`) is that the scan is in the first of
what is left of that chain (`InSegment`, `Cut`) and that the words so far,
followed by those the expression finds from here on, are all the expression
finds (`SoFar`). `WordsMakeTheText` (`Tiles`) and `ScannerIsTheExpression` (`FollowsRegex`)
follow. For verify3, `SpanIsWord` shows where the two conditions of `Plain` are
used: without digits there is one segment, and a run of two blanks before a word
is what it would cut otherwise. `SpansAreTheExpression` (`PlainAgrees`) includes
texts that fill the array and longer ones, of which the first `MaxSpans` words are found.

**Decode** (`DecodeProofs`). The invariant `TypeOK /\ Shape /\ Progress /\
StreamIsExact /\ CacheIsExact` says which positions of which layers are stored
in each phase and that residual and cache equal those computed from scratch.
The key lemma (`ResidualPrefix`) is causality: the residual at a position does
not change when tokens are appended. `CacheIsMemo`, `DecodeImplementsGreedy`,
`ArraysSuffice`, `NoOtherPanic` follow. `FirstMaximumIsPicked`
(`PicksFirstMaximum`) adds that the scan of `argmax_first_max` ends at the first
of the maxima, and that the logits scanned are those that the witness binds. It
needs logits that are integers, hence ordered: its hypothesis `Arithmetic` types
the constants over a set of residuals and one of cache entries, whatever they
are, and a NaN is no integer. The recursive functions in the specification are
shown to satisfy their equations by a least-counterexample argument
(`Induction`).

**Forward** (`ForwardProofs`). `ResidualsAreTheFormulas` (`ResidualsFollowFormula`)
and `LogitsAreTheFormulas` (`LogitsFollowFormula`) say of all five passes, the INT8
mode included, what the run says of twelve small checkpoints: for every
checkpoint that cis2-verify accepts and every text, whatever the sizes, numbers
of layers, heads and groups, whatever the weights and whatever the
operations on floats compute, the residual after every block and all logits are
those of the formula. The invariant (`Follow`) adds what makes it inductive: each
layer of the cache is, in the program's own layout (`Layout`), the keys and values of
the formula for the positions written so far (`Written`), the current one in the
layers that it is through with, and nothing else; the INT8 matrices are those
of the checkpoint. TLC checks `Follow` on the instance of `forward`, too.

The lemmas go from the parts to the whole. Sums, products, norms, rotations and
softmax of a program are those of the formula (`SumsTo`, the `...Vec` lemmas, which
also say that all these are vectors of the right size). A cache in which rows
follow one another is read where it was written: `RowIndex`, `RowOf` and `FlatAt`
are the arithmetic of strides, products of variables included, and
`CVAttends`, `ReferenceAttends`, `V2Attends`, `V3Attends` and `BatchAttends` say that a
query of any position and head sees the keys and values of its group
(`SeenFrom`). `CVPushes`, `ListGrows`, `FilledGrows` say that a row that is stored changes no
other row. `AttendedByPosition`, `AttendedTogether`, `MlpedIs` and `HeadIs` put a block
together, and `LoadTracks` to `HeadTracks` are the steps. `SoundFits` is what the
hypothesis `ckpt \in Sound` is for: what `CV!Loads` checks makes the sizes divide
each other and the tensors fit them.

`AcceptedByAllHolds` (`AcceptedByAll`): the checks of the loaders compared, one by one
(`OthersLoad`). `TypesHold` (`TypeOK`) includes that the residual is a vector, in
every program and for shapes that are not sound, too.

**Attest** (`AttestProofs`). `FilesInv /\ ReadInv /\ PreparedInv /\ DecodeInv /\
VerdictInv` records which copies are there after which access and that at most
`faults` decodes are not right. `PublishedIsJustified` and `VerifyIsSound` rest
on the injectivity of the witness term, which stands for collision resistance.
`PassIsConformance` (`PassMeansPinned`) is stronger and needs more: that two logs
with one stream of hashed words are one log. A stream has no separators, so that
this holds only because every step has the same number of logits
(`StreamInjective`, by induction on the steps), which is
`LogsAssumption`. With it a PASS certifies the decode that was printed even if
both decodes went wrong in the same way and files were exchanged meanwhile.

**Audit** (`AuditProofs`). What a report says is shown to be said of the
documents as they stand (`ReportIsCurrent`, `ReportIsKnown`). Documents keep
their shape under every alteration (`TypeCorrect`). `CompareIsJust`: a witness
binds the weights' hash, and two true receipts of equal inputs are equal.
`CheckPassesHonest`: rendering what `run` made parses to it, and every question
is then answered with PASS or SKIP. `ResidualIsComplete`: each question that is
answered with PASS fixes its fields (`EstablishedIsRight`), and the fields that
no question fixed are those that the residual names. `DisputeIsSettled`: with
config and tokenizer the derived fields are recomputed, so that of two receipts
that differ in one at most one passes.

**Conformance** (`PrimitivesProofs`). `TypeOK /\ Shape` is inductive;
`Shape` has that an exit the runner finds at the clock came after `try_wait`.
`PassesAreEarned`, `ConformingFailsOnlyUnseen` (`ConformingFailsInGapOnly`) and
`NoneLeftRunning` follow, the last by counting the vectors whose input was refused.

**Ledger** (`PrimitivesProofs`). As long as there was no error, `seen`, `started`,
`judged` and `next_exp` are what the lines read so far say (`Summed`), each of these
lines is in order, and each has its number and the hash of the one before it
(`Chained`). A page whose head was saved had been accepted, so that it is chained
too (`SavedIsChained`). `AcceptedIsRight` (`AcceptedIsPublished`) then goes back
from the line with the saved head: the hash of a line is the line, which holds
the hash of the line before it, so that all earlier lines are equal, by
induction on the distance (`SameBefore`). Pages that are relinked are defined by
recursion, which `RecursionExists` solves.

**SHA-256** (`PrimitivesProofs`). The invariant (`HashInv`): blocks hashed and bytes
waiting are together the bytes fed, fewer than 64 wait, and `total` is what the
code in question keeps in it, a count of bytes in Rust, of bits of whole blocks in
C. One lemma per code shows that `update` with any piece keeps it. For C this is
an induction over the blocks that a piece fills (`UpTo`), for the padding of Rust one
over its zeros, and the two shapes of C's padding, with and without a second
block, are cases. `DigestIsRight` (`DigestIsOfMessage`) says that all three hash
`Padded` of the message, for messages and cuts of any length.

**Json** (`PrimitivesProofs`). `ReadersAgree`: every text that cis2-verify accepts
and whose numbers all have fewer characters than verify3's buffer, at whatever
depth they stand (`NumbersFit`), verify3 accepts, too, and reads as the same value.
The run says so of short texts in four alphabets, and of numbers that are the
whole text. Both readers are functions that their definitions fix by
what is read from later places: `StringLocal`, `ReadLocal` and `ParseLocal`
say it of strings and of the two descents, place and kind of list ordered by a rank
(`RankBelow`). That the functions exist (`CharsExist`, `ReadSolution`,
`ParseSolution`) is shown by going through a definition again and again: after as
many turns as there are ranks nothing changes any more. From `ReadEnds` and
`ParseEnds`, an attempt that succeeds ends behind the place where it began,
within the text. Then the two are compared from the end of the text backwards
(`SameEverywhere`, with `ValueSame`, `ItemsSame` and `FieldsSame` for what a
reader can be at). They do not count alike: within a list cis2-verify is at
the depth of the list and verify3 one further, and with it at `MAX_DEPTH` verify3 must
have room left, which is `DepthsAssumption`. `StringsAgree` is where cis2-verify's
refusal of half a pair is needed; `NumbersAgree` compares a scanner for the grammar
of numbers with one that takes all signs, points and digits there are, and needs
that none of these may follow a value (`ValueEnds`).

The theorems rest on the named assumptions in the modules and on nothing else:
classes of characters are disjoint, texts are sequences and sizes natural
numbers; operations on floats give floats, and of two different floats one exceeds
the other, which leaves out NaN and the sign of zero (`FloatsAssumption`); a
tensor is a vector or a matrix and has the elements of its shape, sums of products of bytes stay within
an integer, and the one checkpoint with the pinned hashes has tied embeddings
and no biases (`CheckpointsAssumption`); a text has a token, and its tokens are in the
vocabulary (`TextsAssumption`); command lines are
such as the programs accept (`TasksAssumption`); `lm_head` gives `vocab_size`
logits at every step, on a faulty host too (`LogsAssumption`); requests are text
and a run for n tokens has n steps, since the decode is a `for` loop
(`RequestsAssumption`); the texts of a gen-toks line that can be read denote
numbers (`EditsAssumption`); a digit is none of the other symbols of JSON
(`DigitsAssumption`), verify3's buffer for a number has a size (`BufferAssumption`) and
it takes deeper nesting than cis2-verify, 256 against 64 (`DepthsAssumption`).
TLC evaluates each of them on its instance.

### 4.1 Checked and not proved

- `FunctionsAgree` of `Startup`. That the instruction sets agree depends on the
  coefficients and on the exponents of the format (section 3.1): it is a fact of
  numbers and not of the algorithm, so that `PinnedMath` and `SmallFloat` are checked
  in a small format, for every float of it.
- `JsonIsRead` of `Json`, but for its second part, which `ReadersAgree` states of
  every text. That what cis2-verify accepts means by RFC 8259 what it reads compares
  two recursions that cut a text in different ways, and that the converted numbers
  are the nearest floats is a fact of numbers: TLC checks both.
- The `TypeOK` of `MCPrimitives`, a conjunction over four components, of which
  `LedgerTypeOK` and `HashTypeOK` are proved.
- Liveness (`Terminates`, `RunEndsAfterHelpers`): fairness and `ENABLED` are
  outside of the prover's reach.

Induction through the library's theorems with an operator as parameter is out of
reach as well. For this reason no module here declares a `RECURSIVE` operator;
recursion is by functions on intervals of numbers, and the proofs use the
set-valued forms of `Induction`.

## 5. What is not modelled, and why

- *Rounding in the forward pass.* There, floats have no laws; `PinnedMath` has
  the rounding of the pinned functions in a small format. The two are not
  composed, and accuracy (as against agreement) is not a subject of either. NaN
  is left out of `Forward`, where softmax and argmax order values.
- *Dumps and censuses* of `ops.rs` and the reference, switched on by environment
  variables, which compute nothing.
- *Shapes that only some programs take*: uneven groups of heads are started in
  cis2-verify only, a hidden size of 0 in verify3 and the INT8 program only. The
  others divide by them or index beyond an array.
- *The `tokenizers` and `sha2` crates*: external.
- *Offsets of safetensors, widening of bfloat16*: `Loads` judges names and
  shapes. What a parser refuses enters the other models as constants; `Json` is
  not composed with them.
- *`cis2_qrun_decode` and the report of `main_int8.c`*: verify3's decode loop
  around the INT8 pass, without a cache, and its perplexity and timings.
- *`--record` of the ledger's checker* and its checks of the last newline and of
  carriage returns: one comparison each.
- *Merges listed as arrays of two strings*, which both loaders take: verify3 does not
  cut them, so that they agree where texts do. Entries that are neither, and texts
  without a blank, verify3 keeps or skips and cis2-verify refuses.
- *Bytes and characters.* The buffers of `BpeRescan` count characters.
- *MCP server*: planned, see section 7. *Monitor*: the scripts it calls print
  "PASS: all" just before they exit with 0, so that the line is as good as the status.
- *Sweeps, evaluations, examples, evidence pack*: measurements and formatting.
- *Detokenisation, added tokens, usage errors, help texts.*

## 6. Disagreements between code and words

With a run:

1. `cis2-verify run --gen-toks 0` writes a receipt that no command can read,
   though `receipt.rs` promises the round trip for every receipt
   (`audit_round_trip`).
2. The reference prints its digest also when the two decodes differ, though
   the specification has it assert their equality before printing any result
   (`attest_printing`).
3. The runner's timeout does not keep a candidate from stalling the run, if it
   leaves a process that holds its stdout (`conformance_helper`).
4. The second probe of cis2-verify's self-test cannot fail once the first has
   passed: it adds 0 to a subnormal, and where results are flushed the sum is
   zero whether or not the operand was (`fp_env`). The specification says that
   it always discriminated. The tests of `fpenv.rs` have a product that does.

Met on the way, without a run:

5. `verify` never compares the version line, though its help says every field.
6. The innocent reading `compare` gives of a witness collision (two files of the
   same tensors with other metadata) cannot occur: the witness starts from the
   hash of the weights' file.
7. verify3's pre-tokenizer is not sufficient for ASCII: two blanks before a
   word are cut otherwise, for which `PlainAgrees` needs its condition. The
   pinned prompt is not affected.
8. `compare` says that `check` settles a derived field "with no artifacts at
   all", which is so for the pinned config and tokenizer only
   (`DisputeSettledByFiles` states what holds).
9. The conformance protocol speaks of an `out_bits` diagnosis that the runner
   does not give.
10. What the programs load differs at the edges: cis2-verify does not look for
    tensors that share bytes, verify3 and the safetensors crate do; verify3
    counts a tensor's elements and takes a transposed one; it falls back to the
    embedding where `lm_head` is missing and the others refuse; cis2-verify
    accepts a hidden size of 0. Of an odd head, the reference leaves the last
    element 0, the C program keeps it, cis2-verify refuses.
11. verify2 and verify3 keep the factor 1.0e-10 that erratum E-11 replaced, with
    which the first probe cannot fail, and the reference runs no probes. For
    them `FunctionsAgree` needs a host that does as it is told.
12. `verify_ledger.py` accepts a second plain `bar` line of an experiment, also
    after its start, where it refuses an amended one. Its docstring asks only
    for the latter, and `Ordered` with it.
13. `json.rs` says that a significand of at most 16 digits is below 2^53
    (json.rs:440), for which a converted number is rounded once. Above 2^53 it
    is not: `9007199254740993e1` is read as one float too low. `NumbersAreRight`
    is about significands that are exact, and fails without that condition. The
    artifacts have no such number.
14. json.c keeps 63 characters of a number, json.rs all of them: a longer one that
    cis2-verify converts, verify3 reads otherwise (`BothRead`).
15. The two instruction sets disagree, with flushing on, about products just
    below the smallest normal number. `FunctionsAgree` shows that no pinned
    function lets it be seen.
16. verify3 cuts the left part of a merge at 250 bytes when it loads it
    (tokenizer.c:178) and not when it looks neighbours up: a listed merge with a
    longer left part is never applied, where cis2-verify applies it. A tokenizer
    with shorter tokens only is not affected.
17. The conformance runner asks for the candidate's exit (cis2_conformance.rs:53)
    and then for the time (:66). A candidate that has exited in between, in time and
    with the right digest, is timed out if the ten seconds end before the runner gets
    to the clock, although PROTOCOL.md:95 allows it "up to 10 seconds". It takes an
    exit close to the limit, or a runner that is kept from running meanwhile.
    `ConformingFailsInGapOnly` says that this is the only way.
18. verify3 encodes the first 4,096 words of a text and drops the rest without an
    error (tokenizer.c:219). `PlainAgrees` says that those are the right ones.
19. json.c drops the length of a key (json.c:135) and compares keys with `strcmp`
    (:304), so that a key ends at an escaped `\u0000` in verify3 only. Escapes are
    symbols here and their code points no subject.
20. The safetensors crate of the reference refuses gaps between tensors and bytes behind
    the last, verify3 a header of more than 100 MB (model.c:84); cis2-verify takes
    them.

## 7. Plan

In the order in which the modules were, and are to be, written:

1. `BpeMerge`, `BpeQueue` and the proofs; `GreedyDecode`, `Decode` and the
   proofs; `Receipt`, `Attest`, `Audit` and the proofs; `ByteLevel`,
   `PreTokenize`; `Conformance` and the proofs. *Done.*
2. `BpeRescan` and `Tokenizers`; `Floats` to `Forward`, the INT8 pass included;
   `SmallFloat` to `Startup`; `Sha256Stream`; `Ledger`; `JsonGrammar` to
   `Json`. *Done.*
3. Proofs about them: `DigestIsOfMessage` for every cut and `AcceptedIsPublished`
   for every page, `SameIds` for every file and word, `ResidualsFollowFormula` and
   the rest of `Forward` for every shape, the readers of `Json` for every text. *Done.*
   The bit-by-bit root for every width.
4. A composition of pre-tokenizer and merge loop to the whole of `encode`.
5. `Safetensors`: offsets and shapes in integers of a small width.
6. The MCP server as one more program of `Attest`.
7. Proofs of the first modules: `NeverRequeued` of `BpeQueue`,
   `PicksFirstMaximum` of `Decode`, `PassMeansPinned` of `Attest`, all of `Audit`,
   all of `PreTokenize`. *Done.*
8. `cis2_qrun_decode` as a fifth variant of `Decode`.

## 8. Running it

`tlc -config <cfg> <module>` for the pairs named in `PROJECT.json`, and
`tlapm <module>` for the seven `*Proofs` modules and `Induction`. The longest
runs, `bpe_queue`, `primitives`, `audit` and `forward`, take one to three minutes
each with two workers; `ForwardProofs` takes about seven, `PrimitivesProofs` about ten.
