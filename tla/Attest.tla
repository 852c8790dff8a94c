------------------------------- MODULE Attest -------------------------------
(***************************************************************************)
(* The programs that decode and attest: the reference, cis2-verify's run   *)
(* and verify commands, verify2 and verify3.  They differ in how they read *)
(* the artifacts (once, or first to hash and again to use), in what they   *)
(* refuse, and in what they do when the two decodes of spec 12.4 differ.   *)
(*                                                                         *)
(* Files may be replaced while a program runs, and a decode may come out   *)
(* wrong: the host's arithmetic is what a receipt is there to expose.      *)
(***************************************************************************)
EXTENDS Receipt

CONSTANTS
  Tasks,      \* [program, prompt, gen_toks, claimed: {} or the receipt to verify]
  Disks,      \* artifact directories a task may start from
  Contents,   \* file -> what it may be replaced by
  Absent,     \* the content of a file that is not there
  Unread,     \* not read yet
  Faulty(_),  \* log -> the wrong logs a decode may produce in its place
  Words,      \* what logits and ids are hashed as
  MaxSwaps,   \* bound on the number of files replaced
  MaxFaults   \* bound on the number of wrong decodes

Programs == {"reference", "cis2_verify", "verify2", "verify3"}

\* verify2 and verify3 take no arguments; only cis2-verify has a verify command.
ASSUME TasksAssumption ==
  \A t \in Tasks :
    /\ t.program \in Programs
    /\ t.program \in {"verify2", "verify3"} =>
         t.prompt = Pinned.prompt /\ t.gen_toks = Pinned.gen_toks
    /\ t.claimed # {} => t.program = "cis2_verify"
    /\ \A r \in t.claimed :
         /\ t.claimed = {r}
         /\ r["prompt-hex"] = t.prompt /\ r["gen-toks"] = t.gen_toks
    \* A prompt of no tokens is a matter of its own in the reference: see Decode.
    /\ t.program = "reference" =>
         \A x \in Contents["tokenizer"] : Encoding(x, t.prompt) # << >>

Everything == UNION {Contents[f] : f \in Files}

ASSUME DisksAssumption ==
  /\ \A d \in Disks : d \in [Files -> Everything] /\ \A f \in Files : d[f] \in Contents[f]
  /\ Unread \notin Everything

\* The logits of a log are of one length, the size of the vocabulary.
LogShaped(log) ==
  /\ log \in Seq(Seq(Words) \X Words)
  /\ \A i, j \in 1 .. Len(log) : Len(log[i][1]) = Len(log[j][1])

Shaped(art, prompt, n) ==
  LET prompt_ids == Encoding(art.tokenizer, prompt)
      log == Decoding(art.weights, art.config, prompt_ids, n)
  IN  /\ prompt_ids \in Seq(Words)
      /\ \A l \in {log} \cup Faulty(log) : LogShaped(l)

\* lm_head gives vocab_size logits at every step, on a faulty host too.
ASSUME LogsAssumption ==
  /\ Shaped(PinnedFiles, Pinned.prompt, Pinned.gen_toks)
  /\ \A t \in Tasks : \A art \in [Files -> Everything] :
       /\ \A f \in Files : art[f] \in Contents[f]
       /\ Runnable(art, t.prompt)
       => Shaped(art, t.prompt, t.gen_toks)

ASSUME BoundsAssumption == MaxSwaps \in Nat /\ MaxFaults \in Nat

VARIABLES
  task,     \* the command line
  disk,     \* the artifact directory
  hashed,   \* file -> the bytes its digest was computed from
  used,     \* file -> the bytes parsed and decoded with
  reads,    \* the number of file accesses done
  ids,      \* prompt token ids
  decodes,  \* the logs of the decodes done
  out,      \* the receipt printed or written, in a set of at most one
  verdict,  \* the exit status: "none" yet, "ok" or "failed"
  swaps,    \* files replaced so far
  faults    \* wrong decodes so far

vars == <<task, disk, hashed, used, reads, ids, decodes, out, verdict, swaps, faults>>

-----------------------------------------------------------------------------
\* Mutation: cis2-verify and verify2 never hash the tokenizer.
AccessesUnhashed ==
  CASE task.program = "reference" ->
         <<<<"weights", "hash">>, <<"tokenizer", "hash">>, <<"config", "hash">>,
           <<"config", "use">>, <<"weights", "use">>, <<"tokenizer", "use">>>>
    [] task.program = "verify3" ->
         <<<<"weights", "hash">>, <<"config", "hash">>, <<"tokenizer", "hash">>,
           <<"config", "use">>, <<"tokenizer", "use">>, <<"weights", "use">>>>
    [] OTHER ->
         <<<<"weights", "both">>, <<"config", "both">>, <<"tokenizer", "use">>>>

\* The accesses in order: to hash, to use, or once for both.
Accesses ==
  CASE task.program = "reference" ->
         <<<<"weights", "hash">>, <<"tokenizer", "hash">>, <<"config", "hash">>,
           <<"config", "use">>, <<"weights", "use">>, <<"tokenizer", "use">>>>
    [] task.program = "verify3" ->
         <<<<"weights", "hash">>, <<"config", "hash">>, <<"tokenizer", "hash">>,
           <<"config", "use">>, <<"tokenizer", "use">>, <<"weights", "use">>>>
    [] OTHER ->
         <<<<"weights", "both">>, <<"config", "both">>, <<"tokenizer", "both">>>>

\* verify2 and verify3 go on with the pinned artifacts only, verify with those
\* the receipt names.  The first three accesses have hashed all files.
HashesOk ==
  /\ task.program \in {"verify2", "verify3"} => hashed = PinnedFiles
  /\ \A r \in task.claimed : \A f \in Files : hashed[f] = r[HashKey[f]]

\* What is parsed and encoded is accepted; verify2 and verify3 expect the
\* pinned ids.
Accepted ==
  /\ \A r \in task.claimed : Utf8(task.prompt)
  /\ Runnable(used, task.prompt)
  /\ task.program \in {"verify2", "verify3"} =>
       Encoding(used.tokenizer, task.prompt) = PinnedReceipt["prompt-token-ids"]

Claimed(log) == Claim(hashed, used.config, task.prompt, ids, task.gen_toks, log)

\* Mutation: the argmax digests and the ids are compared, the witnesses are not.
AgreeOnTokens(c, d) ==
  \A k \in {"argmax-digest", "generated-token-ids"} : c[k] = d[k]

\* Spec 12.4: the determinism check.
Agree(c, d) ==
  \A k \in {"witness-digest", "argmax-digest", "generated-token-ids"} : c[k] = d[k]

\* Mutation: prompt-token-ids is left out.
ReplayedButPromptIds ==
  {"table-digest", "inv-freq-table-digest", "argmax-digest", "witness-digest",
   "generated-token-ids", "dtype"}

\* The fields verify compares with its own run.
Replayed ==
  {"table-digest", "inv-freq-table-digest", "argmax-digest", "witness-digest",
   "prompt-token-ids", "generated-token-ids", "dtype"}

\* Mutation: conformance is judged by the tokens.
ConformsByTokens(c) ==
  {"argmax-digest", "table-digest", "inv-freq-table-digest",
   "generated-token-ids"} \cap OffPinned(c) = {}

\* verify3's conformance: the digests and ids it compares with the pinned ones.
ConformsVerify3(c) ==
  {"witness-digest", "argmax-digest", "table-digest", "inv-freq-table-digest",
   "generated-token-ids"} \cap OffPinned(c) = {}

\* Is the run that gave c reported as a success?
Succeeds(c) ==
  CASE task.claimed # {} -> \A r \in task.claimed : \A k \in Replayed : c[k] = r[k]
    [] task.claimed = {} /\ task.program = "cis2_verify" ->
         task.prompt = Pinned.prompt /\ task.gen_toks = Pinned.gen_toks => OffPinned(c) = {}
    [] task.program = "verify3" -> ConformsVerify3(c)
    [] OTHER -> TRUE

-----------------------------------------------------------------------------
Init ==
  /\ task \in Tasks
  /\ disk \in Disks
  /\ hashed = [f \in Files |-> Unread]
  /\ used = [f \in Files |-> Unread]
  /\ reads = 0
  /\ ids = << >>
  /\ decodes = << >>
  /\ out = {}
  /\ verdict = "none"
  /\ swaps = 0
  /\ faults = 0

\* Another process replaces or removes a file, at any moment.
Replace(f) ==
  /\ verdict = "none"
  /\ swaps < MaxSwaps
  /\ \E x \in Contents[f] \ {disk[f]} : disk' = [disk EXCEPT ![f] = x]
  /\ swaps' = swaps + 1
  /\ UNCHANGED <<task, hashed, used, reads, ids, decodes, out, verdict, faults>>

Fail ==
  /\ verdict' = "failed"
  /\ UNCHANGED <<task, disk, hashed, used, reads, ids, decodes, out, swaps, faults>>

\* The next file is read.
Access ==
  /\ verdict = "none"
  /\ reads < Len(Accesses)
  /\ reads = 3 => HashesOk
  /\ LET f == Accesses[reads + 1][1]
         how == Accesses[reads + 1][2]
     IN  /\ disk[f] # Absent
         /\ hashed' = IF how = "use" THEN hashed ELSE [hashed EXCEPT ![f] = disk[f]]
         /\ used' = IF how = "hash" THEN used ELSE [used EXCEPT ![f] = disk[f]]
  /\ reads' = reads + 1
  /\ UNCHANGED <<task, disk, ids, decodes, out, verdict, swaps, faults>>

\* It cannot be read.
AccessFails ==
  /\ verdict = "none"
  /\ reads < Len(Accesses)
  /\ disk[Accesses[reads + 1][1]] = Absent
  /\ Fail

\* The digests are not those required: the program ends before it uses a file.
HashesRefused ==
  /\ verdict = "none"
  /\ reads = 3
  /\ ~ HashesOk
  /\ Fail

\* All files are parsed, the prompt is encoded.
Prepare ==
  /\ verdict = "none"
  /\ reads = Len(Accesses)
  /\ ids = << >>
  /\ HashesOk
  /\ Accepted
  /\ ids' = Encoding(used.tokenizer, task.prompt)
  /\ UNCHANGED <<task, disk, hashed, used, reads, decodes, out, verdict, swaps, faults>>

PrepareFails ==
  /\ verdict = "none"
  /\ reads = Len(Accesses)
  /\ ids = << >>
  /\ HashesOk
  /\ ~ Accepted
  /\ Fail

\* One decode of the two, right ...
DecodeOnce ==
  /\ verdict = "none"
  /\ ids # << >>
  /\ Len(decodes) < 2
  /\ decodes' = Append(decodes, Decoding(used.weights, used.config, ids, task.gen_toks))
  /\ UNCHANGED <<task, disk, hashed, used, reads, ids, out, verdict, swaps, faults>>

\* ... or wrong.
DecodeWrong ==
  /\ verdict = "none"
  /\ ids # << >>
  /\ Len(decodes) < 2
  /\ faults < MaxFaults
  /\ \E log \in Faulty(Decoding(used.weights, used.config, ids, task.gen_toks)) :
       decodes' = Append(decodes, log)
  /\ faults' = faults + 1
  /\ UNCHANGED <<task, disk, hashed, used, reads, ids, out, verdict, swaps>>

\* The decodes agree, or the program is the reference, which prints that they
\* do not and goes on: the first one is reported.
Report ==
  /\ verdict = "none"
  /\ Len(decodes) = 2
  /\ task.program = "reference" \/ Agree(Claimed(decodes[1]), Claimed(decodes[2]))
  /\ out' = IF task.claimed = {} THEN {Claimed(decodes[1])} ELSE {}
  /\ verdict' = IF Succeeds(Claimed(decodes[1])) THEN "ok" ELSE "failed"
  /\ UNCHANGED <<task, disk, hashed, used, reads, ids, decodes, swaps, faults>>

\* The run command cannot write the file it was to put the receipt in.
WriteFails ==
  /\ verdict = "none"
  /\ Len(decodes) = 2
  /\ task.program = "cis2_verify" /\ task.claimed = {}
  /\ Agree(Claimed(decodes[1]), Claimed(decodes[2]))
  /\ Fail

\* They do not: nothing is printed.
Disagree ==
  /\ verdict = "none"
  /\ Len(decodes) = 2
  /\ task.program # "reference" /\ ~ Agree(Claimed(decodes[1]), Claimed(decodes[2]))
  /\ Fail

Next ==
  \/ \E f \in Files : Replace(f)
  \/ Access \/ AccessFails \/ HashesRefused
  \/ Prepare \/ PrepareFails
  \/ DecodeOnce \/ DecodeWrong
  \/ Report \/ WriteFails \/ Disagree

Spec == Init /\ [][Next]_vars

-----------------------------------------------------------------------------
(***************************************************************************)
(* Properties.                                                             *)
(***************************************************************************)
ReadOnce == task.program \in {"cis2_verify", "verify2"}

\* The program has read a file before it uses it, and decodes what it read.
TypeOK ==
  /\ verdict \in {"none", "ok", "failed"}
  /\ \A f \in Files : {hashed[f], used[f]} \subseteq (Contents[f] \ {Absent}) \cup {Unread}
  /\ ReadOnce => hashed = used
  /\ ids # << >> => Unread \notin {hashed[f] : f \in Files} \cup {used[f] : f \in Files}
  /\ decodes # << >> => ids # << >>
  /\ Len(decodes) <= 2
  /\ out # {} => Len(decodes) = 2 /\ verdict # "none"

\* Spec 12.4 at work: with at most one wrong decode, cis2-verify and verify2
\* publish nothing but the receipt that the bytes they hashed justify,
\* whatever happened to the directory meanwhile.
PublishedIsRun ==
  ReadOnce /\ faults <= 1 => out \subseteq Run(hashed, task.prompt, task.gen_toks)

\* The receipt is, spec-version aside, the one the files justify.
TrueOf(art, r) ==
  \E t \in Run(art, r["prompt-hex"], r["gen-toks"]) :
    \A k \in KeySet \ {"spec-version"} : r[k] = t[k]

\* verify answers the question it is asked: it passes no receipt that its
\* artifacts do not justify (one wrong decode does not deceive it), and on a
\* sound host it fails none that they do.
VerdictIsTruth ==
  \A r \in task.claimed :
    /\ verdict = "ok" /\ faults <= 1 => TrueOf(hashed, r)
    /\ verdict = "failed" /\ faults = 0 /\ Unread \notin {hashed[f] : f \in Files} =>
         ~ (Utf8(task.prompt) /\ TrueOf(hashed, r))

\* A conformance PASS certifies the decode that was printed, even when files
\* were exchanged between hashing and use or both decodes went wrong alike: it
\* is the pinned run, logit for logit.
PassMeansPinned ==
  /\ verdict = "ok"
  /\ task.claimed = {}
  /\ task.program \in {"cis2_verify", "verify3"}
  /\ task.prompt = Pinned.prompt
  /\ task.gen_toks = Pinned.gen_toks
  => /\ hashed = PinnedFiles
     /\ decodes[1] = Decoding(Pinned.weights, Pinned.config, ids, task.gen_toks)

\* Spec 12.4: "MUST assert all three ... before printing any result".
AssertedBeforePrinting ==
  out # {} => Agree(Claimed(decodes[1]), Claimed(decodes[2]))
=============================================================================
