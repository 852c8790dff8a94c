---------------------------- MODULE AttestProofs ----------------------------
(***************************************************************************)
(* What a published receipt and a passing verification are worth, for all  *)
(* artifacts, all exchanges of files and all arithmetic.                   *)
(***************************************************************************)
EXTENDS Attest, Induction, SequenceTheorems, TLAPS

-----------------------------------------------------------------------------
(***************************************************************************)
(* The inductive invariant.                                                *)
(***************************************************************************)
File(i) == Accesses[i][1]
How(i) == Accesses[i][2]

\* What a decode gives on a sound host.
Right == Decoding(used.weights, used.config, ids, task.gen_toks)

\* The directory and the copies of it are files of the model.
FilesInv ==
  /\ task \in Tasks
  /\ disk \in [Files -> Everything]
  /\ \A f \in Files : disk[f] \in Contents[f]
  /\ hashed \in [Files -> Everything \cup {Unread}]
  /\ used \in [Files -> Everything \cup {Unread}]
  /\ \A f \in Files : {hashed[f], used[f]} \subseteq (Contents[f] \ {Absent}) \cup {Unread}

\* The first three accesses hash the files, one each.
ReadInv ==
  /\ reads \in 0 .. Len(Accesses)
  /\ \A i \in 1 .. 3 : hashed[File(i)] = Unread <=> i > reads
  /\ ReadOnce => hashed = used
  /\ ~ ReadOnce => \A i \in 4 .. 6 : i <= reads => used[File(i)] # Unread

\* Ids are there when everything was read and accepted.
PreparedInv ==
  ids # << >> =>
    /\ reads = Len(Accesses)
    /\ HashesOk
    /\ Accepted
    /\ ids = Encoding(used.tokenizer, task.prompt)

\* Every decode but the wrong ones is right, and faults counts the wrong ones.
DecodeInv ==
  /\ faults \in Nat
  /\ decodes = << >> \/ (ids # << >> /\ \/ \E d : decodes = <<d>> /\ (faults = 0 => d = Right)
                                        \/ \E d, e : /\ decodes = <<d, e>>
                                                     /\ faults = 0 => d = Right /\ e = Right
                                                     /\ faults <= 1 => d = Right \/ e = Right)

BothAgree == Agree(Claimed(decodes[1]), Claimed(decodes[2]))

\* What is published, and the grounds of a verdict.
VerdictInv ==
  /\ verdict \in {"none", "ok", "failed"}
  /\ verdict = "none" => out = {}
  /\ out # {} => /\ Len(decodes) = 2
                 /\ out = {Claimed(decodes[1])}
                 /\ task.program = "reference" \/ BothAgree
  /\ verdict = "ok" => /\ Len(decodes) = 2
                       /\ task.program = "reference" \/ BothAgree
                       /\ Succeeds(Claimed(decodes[1]))
  /\ verdict = "failed" /\ task.claimed # {} =>
       \/ reads < 3
       \/ ~ HashesOk
       \/ ~ Accepted /\ reads = 3
       \/ Len(decodes) = 2 /\ ~ (BothAgree /\ Succeeds(Claimed(decodes[1])))

IInv == FilesInv /\ ReadInv /\ PreparedInv /\ DecodeInv /\ VerdictInv

-----------------------------------------------------------------------------
(***************************************************************************)
(* Facts about the accesses.                                               *)
(***************************************************************************)
LEMMA AccessFacts ==
  ASSUME task.program \in Programs
  PROVE  /\ Len(Accesses) = IF ReadOnce THEN 3 ELSE 6
         /\ \A i \in 1 .. Len(Accesses) : File(i) \in Files
         /\ \A i, j \in 1 .. 3 : File(i) = File(j) => i = j
         /\ \A f \in Files : \E i \in 1 .. 3 : File(i) = f
         /\ \A i \in 1 .. 3 : How(i) = IF ReadOnce THEN "both" ELSE "hash"
         /\ ~ ReadOnce => /\ \A i \in 4 .. 6 : How(i) = "use"
                          /\ \A f \in Files : \E i \in 4 .. 6 : File(i) = f
                          /\ \A i, j \in 4 .. 6 : File(i) = File(j) => i = j
<1>0. 1 .. 3 = {1, 2, 3} /\ 4 .. 6 = {4, 5, 6} /\ 1 .. 6 = {1, 2, 3, 4, 5, 6}
  OBVIOUS
<1>1. CASE task.program = "reference"
  <2>1. Accesses = <<<<"weights", "hash">>, <<"tokenizer", "hash">>, <<"config", "hash">>,
                     <<"config", "use">>, <<"weights", "use">>, <<"tokenizer", "use">>>>
    BY <1>1 DEF Accesses
  <2> QED BY <1>0, <1>1, <2>1 DEF File, How, ReadOnce, Files
<1>2. CASE task.program = "verify3"
  <2>1. Accesses = <<<<"weights", "hash">>, <<"config", "hash">>, <<"tokenizer", "hash">>,
                     <<"config", "use">>, <<"tokenizer", "use">>, <<"weights", "use">>>>
    BY <1>2 DEF Accesses
  <2> QED BY <1>0, <1>2, <2>1 DEF File, How, ReadOnce, Files
<1>3. CASE task.program \in {"cis2_verify", "verify2"}
  <2>1. Accesses = <<<<"weights", "both">>, <<"config", "both">>, <<"tokenizer", "both">>>>
    BY <1>3 DEF Accesses
  <2> QED BY <1>0, <1>3, <2>1 DEF File, How, ReadOnce, Files
<1> QED BY <1>1, <1>2, <1>3 DEF Programs

\* Hashes are complete after three accesses, and not before.
LEMMA HashedAfterThree ==
  ASSUME FilesInv, ReadInv
  PROVE  reads < 3 <=> \E f \in Files : hashed[f] = Unread
<1>1. task.program \in Programs
  BY TasksAssumption DEF FilesInv
<1>a. Len(Accesses) \in {3, 6} /\ \A i \in 1 .. Len(Accesses) : File(i) \in Files
  BY <1>1, AccessFacts
<1>b. \A i \in 1 .. 3 : i \in 1 .. Len(Accesses)
  BY <1>a, SMTT(30)
<1>c. \A f \in Files : \E i \in 1 .. 3 : File(i) = f
  BY <1>1, AccessFacts
<1>2. /\ \A i \in 1 .. 3 : File(i) \in Files
      /\ \A f \in Files : \E i \in 1 .. 3 : File(i) = f
      /\ Len(Accesses) \in {3, 6}
  BY <1>a, <1>b, <1>c
<1>3. reads \in Nat /\ \A i \in 1 .. 3 : hashed[File(i)] = Unread <=> i > reads
  BY <1>2 DEF ReadInv
<1>4. ASSUME reads < 3 PROVE \E f \in Files : hashed[f] = Unread
  <2>1. 3 \in 1 .. 3 /\ 3 > reads
    BY <1>3, <1>4
  <2> QED BY <2>1, <1>2, <1>3
<1>5. ASSUME NEW f \in Files, hashed[f] = Unread PROVE reads < 3
  <2>1. PICK i \in 1 .. 3 : File(i) = f
    BY <1>2
  <2>2. i > reads
    BY <2>1, <1>3, <1>5
  <2> QED BY <2>2, <1>3
<1> QED BY <1>4, <1>5

\* What the task alone determines.
LEMMA SameTask ==
  ASSUME task' = task
  PROVE  /\ Accesses' = Accesses
         /\ ReadOnce' = ReadOnce
         /\ \A i : File(i)' = File(i) /\ How(i)' = How(i)
BY DEF Accesses, ReadOnce, File, How

\* What the task, the files read and the prompt ids determine.
LEMMA SameFiles ==
  ASSUME task' = task, hashed' = hashed, used' = used
  PROVE  HashesOk' = HashesOk /\ Accepted' = Accepted
BY DEF HashesOk, Accepted

LEMMA SameRight ==
  ASSUME task' = task, used' = used, ids' = ids
  PROVE  Right' = Right
BY DEF Right

LEMMA SameRun ==
  ASSUME task' = task, hashed' = hashed, used' = used, ids' = ids, decodes' = decodes
  PROVE  /\ Right' = Right
         /\ BothAgree' = BothAgree
         /\ Claimed(decodes[1])' = Claimed(decodes[1])
         /\ Succeeds(Claimed(decodes[1]))' = Succeeds(Claimed(decodes[1]))
BY DEF Right, BothAgree, Claimed, Succeeds

-----------------------------------------------------------------------------
(***************************************************************************)
(* The invariant is inductive.                                             *)
(***************************************************************************)
LEMMA InitInv == Init => IInv
<1> SUFFICES ASSUME Init PROVE IInv
  OBVIOUS
<1>1. FilesInv
  BY DisksAssumption DEF Init, FilesInv
<1>2. task.program \in Programs
  BY TasksAssumption DEF Init
<1>3. Len(Accesses) \in {3, 6} /\ \A i \in 1 .. Len(Accesses) : File(i) \in Files
  BY <1>2, AccessFacts
<1>4. \A i \in 1 .. 3 : hashed[File(i)] = Unread
  <2>1. ASSUME NEW i \in 1 .. 3 PROVE File(i) \in Files
    <3>1. i \in 1 .. Len(Accesses)
      BY <1>3
    <3> QED BY <3>1, <1>3
  <2>2. hashed = [f \in Files |-> Unread]
    BY DEF Init
  <2> QED BY <2>1, <2>2
<1>5. ReadInv
  BY <1>3, <1>4 DEF Init, ReadInv
<1>6. PreparedInv /\ DecodeInv /\ VerdictInv
  BY DEF Init, PreparedInv, DecodeInv, VerdictInv
<1> QED BY <1>1, <1>5, <1>6 DEF IInv

\* A file is exchanged in the directory: the program does not see it yet.
LEMMA ReplaceInv ==
  ASSUME IInv, NEW f \in Files, Replace(f)
  PROVE  IInv'
<1>1. /\ task' = task /\ hashed' = hashed /\ used' = used /\ ids' = ids
      /\ decodes' = decodes /\ reads' = reads /\ out' = out /\ verdict' = verdict
      /\ faults' = faults
  BY DEF Replace
<1>2. FilesInv'
  <2>1. PICK x \in Contents[f] \ {disk[f]} : disk' = [disk EXCEPT ![f] = x]
    BY DEF Replace
  <2>2. x \in Everything
    BY <2>1 DEF Everything
  <2> QED BY <1>1, <2>1, <2>2 DEF IInv, FilesInv
<1>3. ReadInv'
  BY <1>1, SameTask DEF IInv, ReadInv
<1>4. PreparedInv'
  BY <1>1, SameTask, SameFiles DEF IInv, PreparedInv
<1>5. DecodeInv'
  BY <1>1, SameRun DEF IInv, DecodeInv
<1>6. VerdictInv'
  BY <1>1, SameFiles, SameRun DEF IInv, VerdictInv
<1> QED BY <1>2, <1>3, <1>4, <1>5, <1>6 DEF IInv

\* An end without a result: the grounds are given by the caller.
LEMMA FailInv ==
  ASSUME IInv, Fail, verdict = "none",
         task.claimed # {} =>
           \/ reads < 3
           \/ ~ HashesOk
           \/ ~ Accepted /\ reads = 3
           \/ Len(decodes) = 2 /\ ~ (BothAgree /\ Succeeds(Claimed(decodes[1])))
  PROVE  IInv'
<1>1. /\ task' = task /\ hashed' = hashed /\ used' = used /\ ids' = ids /\ disk' = disk
      /\ decodes' = decodes /\ reads' = reads /\ out' = out /\ verdict' = "failed"
      /\ faults' = faults
  BY DEF Fail
<1>2. FilesInv'
  BY <1>1 DEF IInv, FilesInv
<1>3. ReadInv'
  BY <1>1, SameTask DEF IInv, ReadInv
<1>4. PreparedInv'
  BY <1>1, SameTask, SameFiles DEF IInv, PreparedInv
<1>5. DecodeInv'
  BY <1>1, SameRun DEF IInv, DecodeInv
<1>6. VerdictInv'
  <2>1. out' = {}
    BY <1>1 DEF IInv, VerdictInv
  <2> QED BY <1>1, <2>1, SameFiles, SameRun DEF VerdictInv
<1> QED BY <1>2, <1>3, <1>4, <1>5, <1>6 DEF IInv

LEMMA AccessInv ==
  ASSUME IInv, Access
  PROVE  IInv'
<1> DEFINE f == File(reads + 1)
           how == How(reads + 1)
<1>1. /\ task' = task /\ disk' = disk /\ ids' = ids /\ decodes' = decodes /\ out' = out
      /\ verdict' = verdict /\ faults' = faults /\ reads' = reads + 1
      /\ verdict = "none" /\ reads < Len(Accesses)
  BY DEF Access
<1>2. /\ disk[f] # Absent
      /\ hashed' = IF how = "use" THEN hashed ELSE [hashed EXCEPT ![f] = disk[f]]
      /\ used' = IF how = "hash" THEN used ELSE [used EXCEPT ![f] = disk[f]]
  BY DEF Access, File, How
<1>3. task.program \in Programs
  BY TasksAssumption DEF IInv, FilesInv
<1>4. Len(Accesses) = IF ReadOnce THEN 3 ELSE 6
  BY <1>3, AccessFacts
<1>5. reads \in Nat /\ reads + 1 \in 1 .. Len(Accesses)
  BY <1>1, <1>4 DEF IInv, ReadInv
<1>6. f \in Files
  BY <1>3, <1>5, AccessFacts
<1>7. disk[f] \in Everything /\ disk[f] # Unread /\ disk[f] \in Contents[f] \ {Absent}
  BY <1>2, <1>6, DisksAssumption DEF IInv, FilesInv
<1> HIDE DEF f, how
<1>8. FilesInv'
  <2>1. /\ hashed' \in [Files -> Everything \cup {Unread}]
        /\ used' \in [Files -> Everything \cup {Unread}]
    BY <1>2, <1>6, <1>7 DEF IInv, FilesInv
  <2>2. ASSUME NEW g \in Files
        PROVE  {hashed'[g], used'[g]} \subseteq (Contents[g] \ {Absent}) \cup {Unread}
    BY <1>2, <1>6, <1>7 DEF IInv, FilesInv
  <2> QED BY <1>1, <2>1, <2>2 DEF IInv, FilesInv
<1>9. ReadInv'
  <2>1. reads' \in 0 .. Len(Accesses)'
    <3>1. Accesses' = Accesses
      BY <1>1, SameTask
    <3> QED BY <3>1, <1>1, <1>4, <1>5
  <2>2. ASSUME NEW i \in 1 .. 3
        PROVE  hashed'[File(i)] = Unread <=> i > reads'
    <3>1. hashed[File(i)] = Unread <=> i > reads
      BY DEF IInv, ReadInv
    <3>2. i \in 1 .. Len(Accesses) /\ File(i) \in Files
      <4>1. i \in 1 .. Len(Accesses)
        BY <1>4
      <4> QED BY <4>1, <1>3, AccessFacts
    <3>3. CASE reads < 3
      <4>1. reads + 1 \in 1 .. 3
        BY <1>5, <3>3
      <4>2. how # "use"
        BY <1>3, <4>1, AccessFacts DEF how
      <4>3. hashed' = [hashed EXCEPT ![f] = disk[f]]
        BY <1>2, <4>2
      <4>4. File(i) = f <=> i = reads + 1
        BY <1>3, <4>1, AccessFacts DEF f
      <4>5. CASE i = reads + 1
        <5>1. hashed'[File(i)] # Unread
          BY <4>3, <4>4, <4>5, <1>6, <1>7 DEF IInv, FilesInv
        <5> QED BY <5>1, <4>5, <1>1, <1>5
      <4>6. CASE i # reads + 1
        <5>1. hashed'[File(i)] = hashed[File(i)]
          BY <4>3, <4>4, <4>6, <3>2, <1>6 DEF IInv, FilesInv
        <5>2. i > reads <=> i > reads + 1
          BY <4>6, <1>5
        <5> QED BY <5>1, <5>2, <3>1, <1>1
      <4> QED BY <4>5, <4>6
    <3>4. CASE ~ (reads < 3)
      <4>1. ~ ReadOnce /\ reads + 1 \in 4 .. 6
        BY <1>4, <1>5, <3>4
      <4>2. how = "use"
        BY <1>3, <4>1, AccessFacts DEF how
      <4>3. hashed' = hashed
        BY <1>2, <4>2
      <4>4. ~ (i > reads) /\ ~ (i > reads + 1)
        BY <1>5, <3>4
      <4> QED BY <4>3, <4>4, <3>1, <1>1
    <3> QED BY <3>3, <3>4
  <2>3. ReadOnce => hashed' = used'
    <3> SUFFICES ASSUME ReadOnce PROVE hashed' = used'
      OBVIOUS
    <3>1. reads + 1 \in 1 .. 3
      BY <1>4, <1>5
    <3>2. how = "both"
      BY <1>3, <3>1, AccessFacts DEF how
    <3> QED BY <1>2, <3>2 DEF IInv, ReadInv
  <2>4. ASSUME ~ ReadOnce, NEW i \in 4 .. 6, i <= reads'
        PROVE  used'[File(i)] # Unread
    <3>1. how \in {"hash", "use"} /\ File(i) \in Files
      <4>0. i \in 1 .. Len(Accesses)
        BY <1>4, <2>4
      <4>1. CASE reads + 1 \in 1 .. 3
        BY <1>3, <2>4, <4>0, <4>1, AccessFacts DEF how
      <4>2. CASE reads + 1 \in 4 .. 6
        BY <1>3, <2>4, <4>0, <4>2, AccessFacts DEF how
      <4> QED BY <4>1, <4>2, <1>4, <1>5, <2>4
    <3>2. CASE i = reads + 1
      <4>1. how = "use" /\ File(i) = f
        BY <1>3, <2>4, <3>2, AccessFacts DEF how, f
      <4> QED BY <4>1, <1>2, <1>6, <1>7 DEF IInv, FilesInv
    <3>3. CASE i # reads + 1
      <4>1. i <= reads
        BY <1>1, <1>5, <2>4, <3>3
      <4>2. used[File(i)] # Unread
        BY <2>4, <4>1 DEF IInv, ReadInv
      <4> QED BY <4>2, <1>2, <1>6, <1>7, <3>1 DEF IInv, FilesInv
    <3> QED BY <3>2, <3>3
  <2> QED BY <1>1, <2>1, <2>2, <2>3, <2>4, SameTask DEF ReadInv
<1>10. ids = << >> /\ decodes = << >> /\ out = {}
  <2>1. ids = << >>
    BY <1>1, <1>4, <1>5 DEF IInv, PreparedInv
  <2> QED BY <1>1, <2>1 DEF IInv, DecodeInv, VerdictInv
<1>11. PreparedInv' /\ DecodeInv' /\ VerdictInv'
  BY <1>1, <1>10 DEF IInv, PreparedInv, DecodeInv, VerdictInv
<1> QED BY <1>8, <1>9, <1>11 DEF IInv

\* Everything was read and is accepted.
LEMMA PrepareInv ==
  ASSUME IInv, Prepare
  PROVE  IInv'
<1>1. /\ task' = task /\ hashed' = hashed /\ used' = used /\ disk' = disk
      /\ decodes' = decodes /\ reads' = reads /\ out' = out /\ verdict' = verdict
      /\ faults' = faults
      /\ verdict = "none" /\ ids = << >> /\ reads = Len(Accesses) /\ HashesOk /\ Accepted
      /\ ids' = Encoding(used.tokenizer, task.prompt)
  BY DEF Prepare
<1>2. FilesInv'
  BY <1>1 DEF IInv, FilesInv
<1>3. ReadInv'
  BY <1>1, SameTask DEF IInv, ReadInv
<1>4. PreparedInv'
  BY <1>1, SameTask, SameFiles DEF PreparedInv
<1>5. decodes = << >>
  BY <1>1 DEF IInv, DecodeInv
<1>6. DecodeInv'
  BY <1>1, <1>5 DEF IInv, DecodeInv
<1>7. VerdictInv'
  BY <1>1 DEF IInv, VerdictInv
<1> QED BY <1>2, <1>3, <1>4, <1>6, <1>7 DEF IInv

LEMMA AppendOne ==
  ASSUME NEW d, NEW e
  PROVE  Append(<<d>>, e) = <<d, e>>
<1>1. <<d>> \in Seq({d, e}) /\ <<d, e>> \in Seq({d, e})
  OBVIOUS
<1>2. Append(<<d>>, e) \in Seq({d, e}) /\ Len(Append(<<d>>, e)) = 2 /\ Len(<<d, e>>) = 2
  BY <1>1
<1>3. \A i \in 1 .. 2 : Append(<<d>>, e)[i] = <<d, e>>[i]
  BY <1>1
<1> QED BY <1>1, <1>2, <1>3, SeqEqual

\* A decode: the right log, or a wrong one that is counted.
LEMMA DecodeStep ==
  ASSUME IInv, DecodeOnce \/ DecodeWrong
  PROVE  IInv'
<1>1. /\ task' = task /\ hashed' = hashed /\ used' = used /\ disk' = disk /\ ids' = ids
      /\ reads' = reads /\ out' = out /\ verdict' = verdict
      /\ verdict = "none" /\ ids # << >> /\ Len(decodes) < 2
  BY DEF DecodeOnce, DecodeWrong
<1>2. PICK log : /\ decodes' = Append(decodes, log)
                 /\ \/ log = Right /\ faults' = faults
                    \/ faults' = faults + 1
  BY DEF DecodeOnce, DecodeWrong, Right
<1>3. Right' = Right
  BY <1>1, SameRight
<1>4. faults \in Nat /\ faults' \in Nat
  BY <1>2 DEF IInv, DecodeInv
<1>5. DecodeInv'
  <2>1. CASE decodes = << >>
    <3>1. decodes' = <<log>>
      BY <1>2, <2>1
    <3>2. faults' = 0 => log = Right
      BY <1>2, <1>4
    <3> QED BY <1>1, <1>3, <1>4, <3>1, <3>2 DEF DecodeInv
  <2>2. CASE \E d : decodes = <<d>> /\ (faults = 0 => d = Right)
    <3>1. PICK d : decodes = <<d>> /\ (faults = 0 => d = Right)
      BY <2>2
    <3>2. decodes' = <<d, log>>
      BY <1>2, <3>1, AppendOne
    <3>3. /\ faults' = 0 => d = Right /\ log = Right
          /\ faults' <= 1 => d = Right \/ log = Right
      BY <1>2, <1>4, <3>1
    <3> QED BY <1>1, <1>3, <1>4, <3>2, <3>3 DEF DecodeInv
  <2>3. decodes = << >> \/ \E d : decodes = <<d>> /\ (faults = 0 => d = Right)
    BY <1>1 DEF IInv, DecodeInv
  <2> QED BY <2>1, <2>2, <2>3
<1>6. FilesInv'
  BY <1>1 DEF IInv, FilesInv
<1>7. ReadInv'
  BY <1>1, SameTask DEF IInv, ReadInv
<1>8. PreparedInv'
  BY <1>1, SameTask, SameFiles DEF IInv, PreparedInv
<1>9. VerdictInv'
  BY <1>1 DEF IInv, VerdictInv
<1> QED BY <1>5, <1>6, <1>7, <1>8, <1>9 DEF IInv

LEMMA ReportInv ==
  ASSUME IInv, Report
  PROVE  IInv'
<1>1. /\ task' = task /\ hashed' = hashed /\ used' = used /\ disk' = disk /\ ids' = ids
      /\ decodes' = decodes /\ reads' = reads /\ faults' = faults
      /\ verdict = "none" /\ Len(decodes) = 2
      /\ task.program = "reference" \/ BothAgree
      /\ out' = IF task.claimed = {} THEN {Claimed(decodes[1])} ELSE {}
      /\ verdict' = IF Succeeds(Claimed(decodes[1])) THEN "ok" ELSE "failed"
  BY DEF Report, BothAgree
<1>2. FilesInv'
  BY <1>1 DEF IInv, FilesInv
<1>3. ReadInv'
  BY <1>1, SameTask DEF IInv, ReadInv
<1>4. PreparedInv'
  BY <1>1, SameTask, SameFiles DEF IInv, PreparedInv
<1>5. DecodeInv'
  BY <1>1, SameRight DEF IInv, DecodeInv
<1>6. VerdictInv'
  <2> DEFINE first == Claimed(decodes[1])
  <2>1. /\ BothAgree' = BothAgree
        /\ first' = first
        /\ Succeeds(first)' = Succeeds(first)
    BY <1>1, SameRun
  <2> HIDE DEF first
  <2>2. /\ verdict' = "ok" => Succeeds(first)
        /\ verdict' = "failed" => ~ Succeeds(first)
        /\ verdict' \in {"ok", "failed"}
    BY <1>1 DEF first
  <2>3. out' # {} => out' = {first}
    BY <1>1 DEF first
  <2> QED BY <1>1, <2>1, <2>2, <2>3 DEF VerdictInv, first
<1> QED BY <1>2, <1>3, <1>4, <1>5, <1>6 DEF IInv

\* Every way to fail has its grounds.
LEMMA RefuseInv ==
  ASSUME IInv, AccessFails \/ HashesRefused \/ PrepareFails \/ WriteFails \/ Disagree
  PROVE  IInv'
<1>1. Fail /\ verdict = "none"
  BY DEF AccessFails, HashesRefused, PrepareFails, WriteFails, Disagree
<1>2. ASSUME task.claimed # {} PROVE ReadOnce /\ task.program \in Programs
  BY <1>2, TasksAssumption DEF IInv, FilesInv, ReadOnce
<1>3. ASSUME task.claimed # {} PROVE Len(Accesses) = 3
  BY <1>2, <1>3, AccessFacts
<1>4. reads \in 0 .. Len(Accesses)
  BY DEF IInv, ReadInv
<1>5. task.claimed # {} =>
        \/ reads < 3
        \/ ~ HashesOk
        \/ ~ Accepted /\ reads = 3
        \/ Len(decodes) = 2 /\ ~ (BothAgree /\ Succeeds(Claimed(decodes[1])))
  BY <1>3, <1>4 DEF AccessFails, HashesRefused, PrepareFails, WriteFails, Disagree, BothAgree
<1> QED BY <1>1, <1>5, FailInv

LEMMA StutterInv ==
  ASSUME IInv, UNCHANGED vars
  PROVE  IInv'
<1>1. /\ task' = task /\ hashed' = hashed /\ used' = used /\ disk' = disk /\ ids' = ids
      /\ decodes' = decodes /\ reads' = reads /\ out' = out /\ verdict' = verdict
      /\ faults' = faults
  BY DEF vars
<1>2. FilesInv' /\ ReadInv'
  BY <1>1, SameTask DEF IInv, FilesInv, ReadInv
<1>3. PreparedInv' /\ DecodeInv'
  BY <1>1, SameTask, SameFiles, SameRight DEF IInv, PreparedInv, DecodeInv
<1>4. VerdictInv'
  BY <1>1, SameFiles, SameRun DEF IInv, VerdictInv
<1> QED BY <1>2, <1>3, <1>4 DEF IInv

THEOREM Inductive == Spec => []IInv
<1>1. Init => IInv
  BY InitInv
<1>2. ASSUME IInv, [Next]_vars PROVE IInv'
  BY <1>2, ReplaceInv, AccessInv, PrepareInv, DecodeStep, ReportInv, RefuseInv, StutterInv
     DEF Next
<1> QED BY <1>1, <1>2, PTL DEF Spec

-----------------------------------------------------------------------------
(***************************************************************************)
(* What follows from it.                                                   *)
(***************************************************************************)
\* When there are prompt ids, every file was hashed and read.
LEMMA AllRead ==
  ASSUME IInv, ids # << >>
  PROVE  \A f \in Files : hashed[f] # Unread /\ used[f] # Unread
<1> SUFFICES ASSUME NEW f \in Files PROVE hashed[f] # Unread /\ used[f] # Unread
  OBVIOUS
<1>1. task.program \in Programs
  BY TasksAssumption DEF IInv, FilesInv
<1>2. reads = Len(Accesses) /\ Len(Accesses) = IF ReadOnce THEN 3 ELSE 6
  BY <1>1, AccessFacts DEF IInv, PreparedInv
<1>3. hashed[f] # Unread
  BY <1>2, HashedAfterThree DEF IInv
<1>4. CASE ReadOnce
  BY <1>3, <1>4 DEF IInv, ReadInv
<1>5. CASE ~ ReadOnce
  <2>1. PICK i \in 4 .. 6 : File(i) = f
    BY <1>1, <1>5, AccessFacts
  <2>2. i <= reads
    BY <1>2, <1>5
  <2> QED BY <1>3, <1>5, <2>1, <2>2 DEF IInv, ReadInv
<1> QED BY <1>4, <1>5

\* Files are hashed before they are used, what a decode uses was read and what
\* is printed was decoded twice, in all programs and for all files.
THEOREM TypeCorrect == Spec => []TypeOK
<1>1. IInv => TypeOK
  <2> SUFFICES ASSUME IInv PROVE TypeOK
    OBVIOUS
  <2>1. /\ verdict \in {"none", "ok", "failed"}
        /\ \A f \in Files : {hashed[f], used[f]} \subseteq (Contents[f] \ {Absent}) \cup {Unread}
        /\ ReadOnce => hashed = used
    BY DEF IInv, FilesInv, ReadInv, VerdictInv
  <2>2. ids # << >> => Unread \notin {hashed[f] : f \in Files} \cup {used[f] : f \in Files}
    BY AllRead
  <2>3. (decodes # << >> => ids # << >>) /\ Len(decodes) <= 2
    <3>1. decodes = << >> \/ (\E d : decodes = <<d>>) \/ (\E d, e : decodes = <<d, e>>)
      BY DEF IInv, DecodeInv
    <3>2. Len(decodes) <= 2
      <4>1. CASE decodes = << >>
        BY <4>1
      <4>2. ASSUME NEW d, decodes = <<d>> PROVE Len(decodes) <= 2
        BY <4>2
      <4>3. ASSUME NEW d, NEW e, decodes = <<d, e>> PROVE Len(decodes) <= 2
        BY <4>3
      <4> QED BY <3>1, <4>1, <4>2, <4>3
    <3> QED BY <3>2 DEF IInv, DecodeInv
  <2>4. out # {} => Len(decodes) = 2 /\ verdict # "none"
    BY DEF IInv, VerdictInv
  <2> QED BY <2>1, <2>2, <2>3, <2>4 DEF TypeOK
<1> QED BY <1>1, Inductive, PTL

LEMMA KeySetIs ==
  KeySet = {"spec-version", "weights-sha256", "config-sha256", "tokenizer-sha256",
            "prompt-hex", "prompt-token-ids", "gen-toks", "dtype", "table-digest",
            "inv-freq-table-digest", "generated-token-ids", "argmax-digest",
            "witness-digest"}
<1>1. 1 .. 13 = {1, 2, 3, 4, 5, 6, 7, 8, 9, 10, 11, 12, 13}
  OBVIOUS
<1>2. KeySet = {Keys[1], Keys[2], Keys[3], Keys[4], Keys[5], Keys[6], Keys[7], Keys[8],
                Keys[9], Keys[10], Keys[11], Keys[12], Keys[13]}
  BY <1>1 DEF KeySet
<1> QED BY <1>2 DEF Keys

\* Two logs that agree in the digests of spec 12 are claimed by one receipt.
LEMMA AgreeIsEqual ==
  ASSUME NEW d, NEW e, Agree(Claimed(d), Claimed(e))
  PROVE  Claimed(d) = Claimed(e)
<1> DEFINE c(log) == Claimed(log)
<1>1. \A k \in KeySet : c(d)[k] = c(e)[k]
  <2> SUFFICES ASSUME NEW k \in KeySet PROVE c(d)[k] = c(e)[k]
    OBVIOUS
  <2>1. CASE k \in {"witness-digest", "argmax-digest", "generated-token-ids"}
    BY <2>1 DEF Agree
  <2>2. CASE k \notin {"witness-digest", "argmax-digest", "generated-token-ids"}
    BY <2>2, KeySetIs DEF Claimed, Claim, Field
  <2> QED BY <2>1, <2>2
<1>2. c(d) = [k \in KeySet |-> c(d)[k]] /\ c(e) = [k \in KeySet |-> c(e)[k]]
  BY DEF Claimed, Claim
<1> HIDE DEF c
<1>3. c(d) = c(e)
  BY <1>1, <1>2
<1> QED BY <1>3 DEF c

\* A program that reads its files once and gets one decode right, and whose
\* decodes agree, claims the run of the files it hashed.
LEMMA FirstIsRun ==
  ASSUME IInv, ReadOnce, Len(decodes) = 2, BothAgree, faults <= 1
  PROVE  /\ Runnable(hashed, task.prompt)
         /\ Claimed(decodes[1]) = Claimed(Right)
         /\ Run(hashed, task.prompt, task.gen_toks) = {Claimed(Right)}
<1>1. PICK d, e : decodes = <<d, e>> /\ (d = Right \/ e = Right)
  <2>1. decodes # << >> /\ \A x : decodes # <<x>>
    OBVIOUS
  <2> QED BY <2>1 DEF IInv, DecodeInv
<1>2. Claimed(decodes[1]) = Claimed(decodes[2])
  BY AgreeIsEqual DEF BothAgree
<1>3. Claimed(decodes[1]) = Claimed(Right)
  <2>1. CASE d = Right
    BY <1>1, <2>1
  <2>2. CASE e = Right
    BY <1>1, <1>2, <2>2
  <2> QED BY <1>1, <2>1, <2>2
<1>4. ids # << >> /\ hashed = used
  BY <1>1 DEF IInv, DecodeInv, ReadInv
<1>5. Accepted /\ ids = Encoding(used.tokenizer, task.prompt)
  BY <1>4 DEF IInv, PreparedInv
<1>6. Runnable(hashed, task.prompt)
  BY <1>4, <1>5 DEF Accepted
<1>7. Run(hashed, task.prompt, task.gen_toks) = {Claimed(Right)}
  BY <1>4, <1>5, <1>6 DEF Run, Claimed, Right
<1> QED BY <1>3, <1>6, <1>7

\* cis2-verify and verify2 publish what the files they hashed justify unless
\* both decodes go wrong, whatever becomes of the directory meanwhile.
THEOREM PublishedIsJustified == Spec => []PublishedIsRun
<1>1. IInv => PublishedIsRun
  <2> SUFFICES ASSUME IInv, ReadOnce, faults <= 1, NEW c \in out
               PROVE  c \in Run(hashed, task.prompt, task.gen_toks)
    BY DEF PublishedIsRun
  <2>1. Len(decodes) = 2 /\ c = Claimed(decodes[1]) /\ BothAgree
    BY DEF IInv, VerdictInv, ReadOnce
  <2> QED BY <2>1, FirstIsRun
<1> QED BY <1>1, Inductive, PTL

\* The keys by the way verify treats them.
LEMMA KeysCovered ==
  /\ \A k \in KeySet : \/ k \in Replayed \cup {"spec-version", "prompt-hex", "gen-toks"}
                      \/ \E f \in Files : k = HashKey[f]
  /\ Replayed \subseteq KeySet \ {"spec-version"}
  /\ \A f \in Files : HashKey[f] \in KeySet \ {"spec-version"}
<1>1. /\ HashKey["weights"] = "weights-sha256"
      /\ HashKey["config"] = "config-sha256"
      /\ HashKey["tokenizer"] = "tokenizer-sha256"
  BY DEF HashKey
<1> QED BY <1>1, KeySetIs DEF Replayed, Files

\* The fields of a claim that do not come from the decode.
LEMMA ClaimGiven ==
  ASSUME NEW h, NEW config, NEW p, NEW i, NEW n, NEW log
  PROVE  LET c == Claim(h, config, p, i, n, log)
         IN  /\ \A f \in Files : c[HashKey[f]] = h[f]
             /\ c["prompt-hex"] = p
             /\ c["gen-toks"] = n
<1> DEFINE c == Claim(h, config, p, i, n, log)
<1>1. /\ c["prompt-hex"] = p
      /\ c["gen-toks"] = n
      /\ c["weights-sha256"] = h["weights"]
      /\ c["config-sha256"] = h["config"]
      /\ c["tokenizer-sha256"] = h["tokenizer"]
  BY KeySetIs DEF Claim, Field
<1>2. \A f \in Files : c[HashKey[f]] = h[f]
  BY <1>1 DEF Files, HashKey
<1> QED BY <1>1, <1>2

\* verify passes a receipt: its artifacts justify it.
LEMMA PassIsTrue ==
  ASSUME IInv, NEW r \in task.claimed, verdict = "ok", faults <= 1
  PROVE  TrueOf(hashed, r)
<1> DEFINE c == Claimed(decodes[1])
<1>1. /\ task.program = "cis2_verify" /\ ReadOnce
      /\ r["prompt-hex"] = task.prompt /\ r["gen-toks"] = task.gen_toks
  BY TasksAssumption DEF IInv, FilesInv, ReadOnce
<1>2. Len(decodes) = 2 /\ BothAgree /\ Succeeds(c)
  BY <1>1 DEF IInv, VerdictInv
<1>3. c \in Run(hashed, r["prompt-hex"], r["gen-toks"])
  BY <1>1, <1>2, FirstIsRun
<1>4. \A k \in Replayed : r[k] = c[k]
  <2> HIDE DEF c
  <2>1. task.claimed # {}
    OBVIOUS
  <2>2. \A q \in task.claimed : \A k \in Replayed : c[k] = q[k]
    BY <1>1, <1>2, <2>1 DEF Succeeds
  <2> QED BY <2>2
<1>5. ids # << >>
  BY <1>2 DEF IInv, DecodeInv
<1>6. \A f \in Files : r[HashKey[f]] = c[HashKey[f]]
  <2>1. \A f \in Files : c[HashKey[f]] = hashed[f]
    BY ClaimGiven DEF Claimed
  <2>2. \A f \in Files : hashed[f] = r[HashKey[f]]
    BY <1>5 DEF IInv, PreparedInv, HashesOk
  <2> QED BY <2>1, <2>2
<1>7. r["prompt-hex"] = c["prompt-hex"] /\ r["gen-toks"] = c["gen-toks"]
  BY <1>1, ClaimGiven DEF Claimed
<1> HIDE DEF c
<1>8. \A k \in KeySet \ {"spec-version"} : r[k] = c[k]
  BY <1>4, <1>6, <1>7, KeysCovered
<1> QED BY <1>3, <1>8 DEF TrueOf

\* On a sound host verify fails no receipt that its artifacts justify.
LEMMA FailIsTrue ==
  ASSUME IInv, NEW r \in task.claimed, verdict = "failed", faults = 0,
         \A f \in Files : hashed[f] # Unread,
         Utf8(task.prompt), TrueOf(hashed, r)
  PROVE  FALSE
<1>1. /\ task.program = "cis2_verify" /\ ReadOnce /\ task.claimed = {r}
      /\ r["prompt-hex"] = task.prompt /\ r["gen-toks"] = task.gen_toks
  BY TasksAssumption DEF IInv, FilesInv, ReadOnce
<1>2. PICK t \in Run(hashed, task.prompt, task.gen_toks) :
             \A k \in KeySet \ {"spec-version"} : r[k] = t[k]
  BY <1>1 DEF TrueOf
<1>3. Runnable(hashed, task.prompt)
  BY <1>2 DEF Run
<1>4. \A f \in Files : t[HashKey[f]] = hashed[f]
  BY <1>2, <1>3, ClaimGiven DEF Run
<1>5. HashesOk
  BY <1>1, <1>2, <1>4, KeysCovered DEF HashesOk
<1>6. hashed = used
  BY <1>1 DEF IInv, ReadInv
<1>7. Accepted
  BY <1>1, <1>3, <1>6 DEF Accepted
<1>8. ~ (reads < 3)
  BY HashedAfterThree DEF IInv
<1>9. Len(decodes) = 2 /\ ~ (BothAgree /\ Succeeds(Claimed(decodes[1])))
  BY <1>1, <1>5, <1>7, <1>8 DEF IInv, VerdictInv
<1>10. decodes[1] = Right /\ decodes[2] = Right
  <2>1. decodes # << >> /\ \A x : decodes # <<x>>
    BY <1>9
  <2>2. PICK d, e : decodes = <<d, e>> /\ d = Right /\ e = Right
    BY <2>1 DEF IInv, DecodeInv
  <2> QED BY <2>2
<1>11. BothAgree
  BY <1>10 DEF BothAgree, Agree
<1>12. Claimed(decodes[1]) = t
  <2>1. faults <= 1
    OBVIOUS
  <2>2. Run(hashed, task.prompt, task.gen_toks) = {Claimed(Right)}
        /\ Claimed(decodes[1]) = Claimed(Right)
    BY <1>1, <1>9, <1>11, <2>1, FirstIsRun
  <2> QED BY <2>2
<1>13. Succeeds(Claimed(decodes[1]))
  <2>1. \A k \in Replayed : t[k] = r[k]
    BY <1>2, KeysCovered
  <2> QED BY <1>1, <1>12, <2>1 DEF Succeeds
<1> QED BY <1>9, <1>11, <1>13

\* verify answers the question it is asked, for all artifacts and receipts.
THEOREM VerifyIsSound == Spec => []VerdictIsTruth
<1>1. IInv => VerdictIsTruth
  <2> SUFFICES ASSUME IInv, NEW r \in task.claimed
               PROVE  /\ verdict = "ok" /\ faults <= 1 => TrueOf(hashed, r)
                      /\ verdict = "failed" /\ faults = 0
                         /\ Unread \notin {hashed[f] : f \in Files} =>
                           ~ (Utf8(task.prompt) /\ TrueOf(hashed, r))
    BY DEF VerdictIsTruth
  <2>1. verdict = "ok" /\ faults <= 1 => TrueOf(hashed, r)
    BY PassIsTrue
  <2>2. ASSUME verdict = "failed", faults = 0, Unread \notin {hashed[f] : f \in Files},
               Utf8(task.prompt), TrueOf(hashed, r)
        PROVE  FALSE
    BY <2>2, FailIsTrue
  <2> QED BY <2>1, <2>2
<1> QED BY <1>1, Inductive, PTL
-----------------------------------------------------------------------------
(***************************************************************************)
(* The witness determines the decode.                                      *)
(***************************************************************************)
Pairs == Seq(Words) \X Words

\* Stream is its recursive definition, step by step.
LEMMA StreamSteps ==
  ASSUME NEW log \in Seq(Pairs)
  PROVE  \E g \in [0 .. Len(log) -> Seq(Words)] :
           /\ Stream(log) = g[Len(log)]
           /\ g[0] = << >>
           /\ \A i \in 1 .. Len(log) : g[i] = g[i - 1] \o log[i][1] \o <<log[i][2]>>
<1> DEFINE n == Len(log)
           T == Seq(Words)
           After(i, s) == s \o log[i][1] \o <<log[i][2]>>
           step == [x \in (1 .. n) \X T |-> After(x[1], x[2])]
           Solves(f) == f = [i \in 0 .. n |-> IF i = 0 THEN << >> ELSE After(i, f[i - 1])]
<1>1. n \in Nat /\ << >> \in T
  OBVIOUS
<1>2. ASSUME NEW i \in 1 .. n, NEW s \in T PROVE After(i, s) \in T
  <2>1. log[i] \in Pairs
    BY ElementOfSeq
  <2>2. log[i][1] \in T /\ <<log[i][2]>> \in T
    BY <2>1 DEF Pairs
  <2> QED
    BY <2>2, ConcatProperties
<1> HIDE DEF n, T, After
<1>3. step \in StepTable(n, T)
  BY <1>2 DEF StepTable
<1>4. PICK g : Follows(g, n, T, << >>, step)
  <2> HIDE DEF step
  <2> QED
    BY <1>1, <1>3, RecursionExists
<1>5. \A i \in 1 .. n : step[<<i, g[i - 1]>>] = After(i, g[i - 1])
  <2> SUFFICES ASSUME NEW i \in 1 .. n PROVE step[<<i, g[i - 1]>>] = After(i, g[i - 1])
    OBVIOUS
  <2>1. g[i - 1] \in T
    BY <1>1, <1>4 DEF Follows
  <2>2. <<i, g[i - 1]>> \in (1 .. n) \X T
    BY <2>1
  <2> QED
    BY <2>2
<1>6. Solves(g)
  <2>1. g = [i \in 0 .. n |-> g[i]]
    BY <1>4 DEF Follows
  <2>2. \A i \in 0 .. n : g[i] = IF i = 0 THEN << >> ELSE After(i, g[i - 1])
    <3>1. g[0] = << >> /\ \A i \in 1 .. n : g[i] = After(i, g[i - 1])
      <4> HIDE DEF step
      <4> QED
        BY <1>4, <1>5 DEF Follows
    <3>2. \A i \in 0 .. n : i = 0 \/ i \in 1 .. n
      BY <1>1
    <3> QED
      BY <3>1, <3>2
  <2> QED
    BY <2>1, <2>2
<1>7. Stream(log) = (CHOOSE f : Solves(f))[n]
  BY DEF Stream, n, After
<1> DEFINE h == CHOOSE f : Solves(f)
<1>8. Solves(h)
  <2> HIDE DEF Solves
  <2> QED
    BY <1>6
<1> HIDE DEF h
<1>9. h[0] = << >> /\ \A i \in 1 .. n : h[i] = After(i, h[i - 1])
  BY <1>1, <1>8
<1>10. \A i \in 0 .. n : h[i] \in T
  <2> DEFINE Typed == {i \in 0 .. n : h[i] \in T}
  <2>1. 0 \in Typed
    BY <1>1, <1>9
  <2>2. ASSUME NEW i \in 0 .. n - 1, i \in Typed PROVE i + 1 \in Typed
    <3>1. i + 1 \in 1 .. n /\ (i + 1) - 1 = i
      BY <1>1
    <3> QED
      BY <1>2, <1>9, <2>2, <3>1
  <2> HIDE DEF Typed
  <2>3. 0 .. n \subseteq Typed
    BY <1>1, <2>1, <2>2, UpTo
  <2> QED
    BY <2>3 DEF Typed
<1>11. h \in [0 .. n -> T]
  <2>1. h = [i \in 0 .. n |-> h[i]]
    BY <1>8
  <2> QED
    BY <1>10, <2>1
<1> QED
  <2>1. /\ h \in [0 .. n -> T] /\ Stream(log) = h[n] /\ h[0] = << >>
        /\ \A i \in 1 .. n : h[i] = After(i, h[i - 1])
    BY <1>7, <1>9, <1>11 DEF h
  <2> QED
    BY <2>1 DEF n, T, After

\* A step of the stream is as long as a step of the log is wide.
LEMMA StreamLength ==
  ASSUME NEW log \in Seq(Pairs), NEW w \in Nat,
         \A i \in 1 .. Len(log) : Len(log[i][1]) = w,
         NEW g \in [0 .. Len(log) -> Seq(Words)],
         g[0] = << >>,
         \A i \in 1 .. Len(log) : g[i] = g[i - 1] \o log[i][1] \o <<log[i][2]>>
  PROVE  \A i \in 0 .. Len(log) : Len(g[i]) = i * (w + 1)
<1> DEFINE n == Len(log)
           Fits == {i \in 0 .. n : Len(g[i]) = i * (w + 1)}
<1>1. n \in Nat
  OBVIOUS
<1>2. 0 \in Fits
  BY <1>1
<1>3. ASSUME NEW i \in 0 .. n - 1, i \in Fits PROVE i + 1 \in Fits
  <2>1. i + 1 \in 1 .. n /\ (i + 1) - 1 = i
    BY <1>1
  <2>2. g[i + 1] = g[i] \o log[i + 1][1] \o <<log[i + 1][2]>>
    BY <2>1
  <2>3. /\ g[i] \in Seq(Words) /\ log[i + 1][1] \in Seq(Words)
        /\ <<log[i + 1][2]>> \in Seq(Words)
        /\ Len(log[i + 1][1]) = w
    <3>1. log[i + 1] \in Pairs
      BY <2>1, ElementOfSeq
    <3>2. g[i] \in Seq(Words)
      BY <1>1
    <3> QED
      BY <2>1, <3>1, <3>2 DEF Pairs
  <2> DEFINE a == g[i]
             b == log[i + 1][1]
             c == <<log[i + 1][2]>>
  <2>4. Len(c) = 1
    OBVIOUS
  <2> HIDE DEF a, b, c
  <2>5. Len(a \o b \o c) = Len(a) + Len(b) + Len(c)
    <3>1. a \o b \in Seq(Words) /\ Len(a \o b) = Len(a) + Len(b)
      BY <2>3, ConcatProperties DEF a, b
    <3> QED
      BY <2>3, <3>1, ConcatProperties DEF c
  <2>6. Len(g[i + 1]) = i * (w + 1) + w + 1
    BY <1>3, <2>2, <2>3, <2>4, <2>5 DEF a, b, c
  <2>7. i * (w + 1) + w + 1 = (i + 1) * (w + 1)
    OBVIOUS
  <2> QED
    BY <1>1, <2>1, <2>6, <2>7
<1> HIDE DEF Fits
<1>4. 0 .. n \subseteq Fits
  BY <1>1, <1>2, <1>3, UpTo
<1> QED
  BY <1>4 DEF Fits

LEMMA TimesCancel ==
  ASSUME NEW n \in Nat, n # 0, NEW a \in Nat, NEW b \in Nat, n * (a + 1) = n * (b + 1)
  PROVE  a = b
<1>1. n * (a + 1) = n * a + n /\ n * (b + 1) = n * b + n
  OBVIOUS
<1>2. n * a = n * b
  BY <1>1
<1>3. n * (a - b) = n * a - n * b
  OBVIOUS
<1> QED
  BY <1>2, <1>3

\* Two logs of as many steps, each of one width, have one stream only if they
\* are one log.
LEMMA StreamInjective ==
  ASSUME NEW log, NEW log2, LogShaped(log), LogShaped(log2),
         Len(log) = Len(log2), Stream(log) = Stream(log2)
  PROVE  log = log2
<1> DEFINE n == Len(log)
<1>1. log \in Seq(Pairs) /\ log2 \in Seq(Pairs) /\ n \in Nat /\ Len(log2) = n
  BY DEF LogShaped, Pairs
<1>2. CASE n = 0
  <2>1. \A i \in 1 .. n : log[i] = log2[i]
    BY <1>2
  <2> QED
    BY <1>1, <2>1, SeqEqual
<1>3. CASE n # 0
  <2>1. PICK g \in [0 .. n -> Seq(Words)] :
          /\ Stream(log) = g[n]
          /\ g[0] = << >>
          /\ \A i \in 1 .. n : g[i] = g[i - 1] \o log[i][1] \o <<log[i][2]>>
    BY <1>1, StreamSteps
  <2>2. PICK h \in [0 .. n -> Seq(Words)] :
          /\ Stream(log2) = h[n]
          /\ h[0] = << >>
          /\ \A i \in 1 .. n : h[i] = h[i - 1] \o log2[i][1] \o <<log2[i][2]>>
    <3>1. \E h \in [0 .. Len(log2) -> Seq(Words)] :
            /\ Stream(log2) = h[Len(log2)]
            /\ h[0] = << >>
            /\ \A i \in 1 .. Len(log2) : h[i] = h[i - 1] \o log2[i][1] \o <<log2[i][2]>>
      BY <1>1, StreamSteps
    <3> QED
      BY <1>1, <3>1
  <2>3. \A i \in 1 .. n : /\ log[i] \in Pairs /\ log2[i] \in Pairs
                          /\ log[i] = <<log[i][1], log[i][2]>>
                          /\ log2[i] = <<log2[i][1], log2[i][2]>>
                          /\ log[i][1] \in Seq(Words) /\ log2[i][1] \in Seq(Words)
                          /\ <<log[i][2]>> \in Seq(Words) /\ <<log2[i][2]>> \in Seq(Words)
    <3>1. \A i \in 1 .. n : log[i] \in Pairs /\ log2[i] \in Pairs
      BY <1>1, ElementOfSeq
    <3> QED
      BY <3>1 DEF Pairs
  <2> DEFINE w == Len(log[1][1])
             w2 == Len(log2[1][1])
  <2>4. /\ w \in Nat /\ w2 \in Nat
        /\ \A i \in 1 .. n : Len(log[i][1]) = w /\ Len(log2[i][1]) = w2
    <3>1. 1 \in 1 .. n
      BY <1>1, <1>3
    <3>2. w \in Nat /\ w2 \in Nat
      BY <2>3, <3>1, LenProperties
    <3> QED
      BY <1>1, <3>1, <3>2 DEF LogShaped
  <2> HIDE DEF n, w, w2
  <2>5. \A i \in 0 .. n : Len(g[i]) = i * (w + 1) /\ Len(h[i]) = i * (w2 + 1)
    <3>1. \A i \in 0 .. n : Len(g[i]) = i * (w + 1)
      BY <1>1, <2>1, <2>4, StreamLength DEF n
    <3>2. \A i \in 0 .. Len(log2) : Len(h[i]) = i * (w2 + 1)
      BY <1>1, <2>2, <2>4, StreamLength
    <3> QED
      BY <1>1, <3>1, <3>2
  <2>6. w = w2
    <3>1. n * (w + 1) = n * (w2 + 1)
      <4>1. n \in 0 .. n
        BY <1>1
      <4>2. g[n] = h[n]
        BY <2>1, <2>2
      <4> QED
        BY <2>5, <4>1, <4>2
    <3> QED
      BY <1>1, <1>3, <2>4, <3>1, TimesCancel
  <2> DEFINE Back(i) == g[i] = h[i] /\ \A k \in i + 1 .. n : log[k] = log2[k]
             Met == {i \in 0 .. n : Back(n - i)}
  <2>7. 0 \in Met
    <3>1. n - 0 = n /\ 0 \in 0 .. n /\ ~ \E k \in n + 1 .. n : TRUE
      BY <1>1
    <3>2. g[n] = h[n]
      BY <2>1, <2>2
    <3> QED
      BY <3>1, <3>2
  <2>8. ASSUME NEW i \in 0 .. n - 1, i \in Met PROVE i + 1 \in Met
    <3> DEFINE j == n - i
    <3>1. j \in 1 .. n /\ j - 1 \in 0 .. n /\ n - (i + 1) = j - 1 /\ i + 1 \in 0 .. n
      BY <1>1
    <3>2. g[j] = h[j] /\ \A k \in j + 1 .. n : log[k] = log2[k]
      BY <2>8
    <3> HIDE DEF j
    <3>3. g[j] = g[j - 1] \o log[j][1] \o <<log[j][2]>>
      BY <2>1, <3>1
    <3>4. h[j] = h[j - 1] \o log2[j][1] \o <<log2[j][2]>>
      BY <2>2, <3>1
    <3>5. g[j - 1] \in Seq(Words) /\ h[j - 1] \in Seq(Words) /\ Len(g[j - 1]) = Len(h[j - 1])
      BY <2>5, <2>6, <3>1
    <3> DEFINE a == g[j - 1]
               a2 == h[j - 1]
               b == log[j][1]
               b2 == log2[j][1]
               c == <<log[j][2]>>
               c2 == <<log2[j][2]>>
    <3>6. /\ a \in Seq(Words) /\ b \in Seq(Words) /\ c \in Seq(Words)
          /\ a2 \in Seq(Words) /\ b2 \in Seq(Words) /\ c2 \in Seq(Words)
          /\ Len(a) = Len(a2) /\ Len(b) = Len(b2)
          /\ a \o b \o c = a2 \o b2 \o c2
      BY <2>3, <2>4, <2>6, <3>1, <3>2, <3>3, <3>4, <3>5
    <3> HIDE DEF a, b, c, a2, b2, c2
    <3>7. /\ a \o b \in Seq(Words) /\ a2 \o b2 \in Seq(Words)
          /\ Len(a \o b) = Len(a2 \o b2)
      <4>1. a \o b \in Seq(Words) /\ Len(a \o b) = Len(a) + Len(b)
        BY <3>6, ConcatProperties
      <4>2. a2 \o b2 \in Seq(Words) /\ Len(a2 \o b2) = Len(a2) + Len(b2)
        BY <3>6, ConcatProperties
      <4> QED
        BY <3>6, <4>1, <4>2
    <3>8. a \o b = a2 \o b2 /\ c = c2
      BY <3>6, <3>7, ConcatCancel
    <3>9. a = a2 /\ b = b2
      BY <3>6, <3>8, ConcatCancel
    <3>10. log[j] = log2[j]
      <4>1. log[j][2] = log2[j][2]
        BY <3>8 DEF c, c2
      <4> QED
        BY <2>3, <3>1, <3>9, <4>1 DEF b, b2
    <3>11. \A k \in (j - 1) + 1 .. n : log[k] = log2[k]
      <4>1. \A k \in (j - 1) + 1 .. n : k = j \/ k \in j + 1 .. n
        BY <1>1, <3>1
      <4> QED
        BY <3>2, <3>10, <4>1
    <3>12. Back(j - 1)
      BY <3>9, <3>11 DEF a, a2
    <3> QED
      BY <3>1, <3>12
  <2>9. n \in Met
    <3> HIDE DEF Met
    <3>1. 0 .. n \subseteq Met
      BY <1>1, <2>7, <2>8, UpTo
    <3> QED
      BY <1>1, <3>1
  <2>10. \A k \in 1 .. n : log[k] = log2[k]
    BY <1>1, <2>9
  <2> QED
    BY <1>1, <2>10, SeqEqual DEF n
<1> QED
  BY <1>2, <1>3

-----------------------------------------------------------------------------
(***************************************************************************)
(* What a conformance PASS certifies.                                      *)
(***************************************************************************)
\* Prompt ids and logs have the shape of what is hashed.
ShapeInv ==
  /\ ids \in Seq(Words)
  /\ \A i \in 1 .. Len(decodes) : LogShaped(decodes[i])

\* What is about to be decoded is a directory of files with a shape.
LEMMA UsedIsShaped ==
  ASSUME IInv, \A f \in Files : used[f] # Unread, Runnable(used, task.prompt)
  PROVE  Shaped(used, task.prompt, task.gen_toks)
<1>1. task \in Tasks /\ \A f \in Files : used[f] \in Contents[f]
  BY DEF IInv, FilesInv
<1>2. used \in [Files -> Everything]
  BY <1>1 DEF IInv, FilesInv
<1> QED
  BY <1>1, <1>2, LogsAssumption

\* When everything was read, nothing is Unread.
LEMMA UsedAfterReads ==
  ASSUME IInv, reads = Len(Accesses)
  PROVE  \A f \in Files : used[f] # Unread
<1> SUFFICES ASSUME NEW f \in Files PROVE used[f] # Unread
  OBVIOUS
<1>1. task.program \in Programs
  BY TasksAssumption DEF IInv, FilesInv
<1>2. Len(Accesses) = IF ReadOnce THEN 3 ELSE 6
  BY <1>1, AccessFacts
<1>3. CASE ReadOnce
  <2>1. hashed[f] # Unread
    BY <1>2, HashedAfterThree DEF IInv
  <2> QED
    BY <1>3, <2>1 DEF IInv, ReadInv
<1>4. CASE ~ ReadOnce
  <2>1. PICK i \in 4 .. 6 : File(i) = f
    BY <1>1, <1>4, AccessFacts
  <2>2. i <= reads
    BY <1>2, <1>4
  <2> QED
    BY <1>4, <2>1, <2>2 DEF IInv, ReadInv
<1> QED
  BY <1>3, <1>4

LEMMA AppendShaped ==
  ASSUME NEW log, LogShaped(log), NEW new, new = Append(decodes, log),
         Len(decodes) < 2, IInv, ShapeInv
  PROVE  \A i \in 1 .. Len(new) : LogShaped(new[i])
<1>1. decodes = << >> \/ \E d : decodes = <<d>>
  <2>1. \A d, e : decodes # <<d, e>>
    OBVIOUS
  <2> QED
    BY <2>1 DEF IInv, DecodeInv
<1>2. CASE decodes = << >>
  <2>1. new = <<log>>
    BY <1>2
  <2> QED
    BY <2>1
<1>3. ASSUME NEW d, decodes = <<d>> PROVE \A i \in 1 .. Len(new) : LogShaped(new[i])
  <2>1. new = <<d, log>>
    BY <1>3, AppendOne
  <2>2. LogShaped(d)
    <3>1. 1 \in 1 .. Len(decodes) /\ decodes[1] = d
      BY <1>3
    <3> QED
      BY <3>1 DEF ShapeInv
  <2> QED
    BY <2>1, <2>2
<1> QED
  BY <1>1, <1>2, <1>3

LEMMA AlwaysShaped == Spec => []ShapeInv
<1>1. Init => ShapeInv
  BY DEF Init, ShapeInv
<1>2. ASSUME IInv, ShapeInv, [Next]_vars PROVE ShapeInv'
  <2>1. CASE Prepare
    <3>1. /\ decodes' = decodes /\ ids' = Encoding(used.tokenizer, task.prompt)
          /\ reads = Len(Accesses) /\ Accepted
      BY <2>1 DEF Prepare
    <3>2. Shaped(used, task.prompt, task.gen_toks)
      BY <1>2, <3>1, UsedAfterReads, UsedIsShaped DEF Accepted
    <3>3. ids' \in Seq(Words)
      BY <3>1, <3>2 DEF Shaped
    <3> QED
      BY <1>2, <3>1, <3>3 DEF ShapeInv
  <2>2. CASE DecodeOnce \/ DecodeWrong
    <3>1. PICK log : /\ ids' = ids /\ ids # << >> /\ Len(decodes) < 2
                     /\ decodes' = Append(decodes, log)
                     /\ log \in {Right} \cup Faulty(Right)
      BY <2>2 DEF DecodeOnce, DecodeWrong, Right
    <3>2. Accepted /\ reads = Len(Accesses) /\ ids = Encoding(used.tokenizer, task.prompt)
      BY <1>2, <3>1 DEF IInv, PreparedInv
    <3>3. Shaped(used, task.prompt, task.gen_toks)
      BY <1>2, <3>2, UsedAfterReads, UsedIsShaped DEF Accepted
    <3>4. LogShaped(log)
      BY <3>1, <3>2, <3>3 DEF Shaped, Right
    <3>5. \A i \in 1 .. Len(decodes') : LogShaped(decodes'[i])
      BY <1>2, <3>1, <3>4, AppendShaped
    <3> QED
      BY <1>2, <3>1, <3>5 DEF ShapeInv
  <2>3. CASE ids' = ids /\ decodes' = decodes
    BY <1>2, <2>3 DEF ShapeInv
  <2>4. \/ Prepare \/ DecodeOnce \/ DecodeWrong
        \/ ids' = ids /\ decodes' = decodes
    BY <1>2 DEF Next, Replace, Access, AccessFails, HashesRefused, PrepareFails, Report,
                WriteFails, Disagree, Fail, vars
  <2> QED
    BY <2>1, <2>2, <2>3, <2>4
<1> QED
  BY <1>1, <1>2, Inductive, PTL DEF Spec

\* The fields of a claim that bind its decode.
LEMMA ClaimDecoded ==
  ASSUME NEW h, NEW config, NEW p, NEW i, NEW n, NEW log
  PROVE  LET c == Claim(h, config, p, i, n, log)
         IN  /\ c["prompt-token-ids"] = i
             /\ c["generated-token-ids"] = Generated(log)
             /\ c["witness-digest"] = Witness(h, InvFreq(config), i, log)
BY KeySetIs DEF Claim, Field

\* A witness binds the files, and with the number of ids the decode.
LEMMA WitnessBinds ==
  ASSUME NEW h, NEW h2, NEW v, NEW v2, NEW i \in Seq(Words), NEW log, NEW log2,
         LogShaped(log), LogShaped(log2),
         Witness(h, v, i, log) = Witness(h2, v2, i, log2),
         Generated(log) = Generated(log2)
  PROVE  /\ h.weights = h2.weights /\ h.tokenizer = h2.tokenizer /\ h.config = h2.config
         /\ log = log2
<1> DEFINE a == Witness(h, v, i, log)
           b == Witness(h2, v2, i, log2)
<1>1. /\ a[1] = h.weights /\ a[2] = h.tokenizer /\ a[3] = h.config /\ a[6] = i \o Stream(log)
      /\ b[1] = h2.weights /\ b[2] = h2.tokenizer /\ b[3] = h2.config /\ b[6] = i \o Stream(log2)
  BY DEF Witness
<1> HIDE DEF a, b
<1>2. a = b
  BY DEF a, b
<1>3. Len(log) = Len(log2)
  <2>1. Len(log) \in Nat /\ Len(log2) \in Nat
    BY LenProperties DEF LogShaped
  <2>2. DOMAIN Generated(log) = 1 .. Len(log) /\ DOMAIN Generated(log2) = 1 .. Len(log2)
    BY DEF Generated
  <2> QED
    BY <2>1, <2>2
<1>4. Stream(log) = Stream(log2)
  <2>1. \A l : LogShaped(l) => Stream(l) \in Seq(Words)
    <3> SUFFICES ASSUME NEW l, LogShaped(l) PROVE Stream(l) \in Seq(Words)
      OBVIOUS
    <3>1. l \in Seq(Pairs)
      BY DEF LogShaped, Pairs
    <3>2. Len(l) \in 0 .. Len(l)
      BY <3>1, LenProperties
    <3>3. PICK g \in [0 .. Len(l) -> Seq(Words)] : Stream(l) = g[Len(l)]
      BY <3>1, StreamSteps
    <3> QED
      BY <3>2, <3>3
  <2>2. Stream(log) \in Seq(Words) /\ Stream(log2) \in Seq(Words)
    BY <2>1
  <2>3. i \o Stream(log) = i \o Stream(log2)
    BY <1>1, <1>2
  <2> QED
    BY <2>2, <2>3, ConcatCancel
<1>5. log = log2
  BY <1>3, <1>4, StreamInjective
<1> QED
  BY <1>1, <1>2, <1>5

\* The pinned receipt is the claim of the one pinned run.
LEMMA PinnedIs ==
  LET pids == Encoding(Pinned.tokenizer, Pinned.prompt)
      plog == Decoding(Pinned.weights, Pinned.config, pids, Pinned.gen_toks)
  IN  /\ PinnedReceipt = Claim(PinnedFiles, Pinned.config, Pinned.prompt, pids,
                               Pinned.gen_toks, plog)
      /\ LogShaped(plog)
<1>1. /\ PinnedFiles.weights = Pinned.weights
      /\ PinnedFiles.config = Pinned.config
      /\ PinnedFiles.tokenizer = Pinned.tokenizer
  BY DEF PinnedFiles, Files
<1>2. Runnable(PinnedFiles, Pinned.prompt)
  BY PinnedAssumption DEF Run
<1> DEFINE pids == Encoding(Pinned.tokenizer, Pinned.prompt)
           plog == Decoding(Pinned.weights, Pinned.config, pids, Pinned.gen_toks)
           c == Claim(PinnedFiles, Pinned.config, Pinned.prompt, pids, Pinned.gen_toks, plog)
<1>3. Run(PinnedFiles, Pinned.prompt, Pinned.gen_toks) = {c}
  BY <1>1, <1>2 DEF Run
<1>4. LogShaped(plog)
  BY <1>1, LogsAssumption DEF Shaped
<1>5. PinnedReceipt = c
  <2> HIDE DEF c
  <2> QED
    BY <1>3 DEF PinnedReceipt
<1> QED
  BY <1>4, <1>5

\* A PASS of cis2-verify run or of verify3 on the pinned request certifies that
\* what was hashed and what was decoded, logit for logit, are the pinned run's,
\* however often the host errs and the files are exchanged.
THEOREM PassIsConformance == Spec => []PassMeansPinned
<1>1. IInv /\ ShapeInv => PassMeansPinned
  <2> SUFFICES ASSUME IInv, ShapeInv, verdict = "ok", task.claimed = {},
                      task.program \in {"cis2_verify", "verify3"},
                      task.prompt = Pinned.prompt, task.gen_toks = Pinned.gen_toks
               PROVE  /\ hashed = PinnedFiles
                      /\ decodes[1] = Decoding(Pinned.weights, Pinned.config, ids, task.gen_toks)
    BY DEF PassMeansPinned
  <2> DEFINE c == Claimed(decodes[1])
             pids == Encoding(Pinned.tokenizer, Pinned.prompt)
             plog == Decoding(Pinned.weights, Pinned.config, pids, Pinned.gen_toks)
             bound == {"witness-digest", "generated-token-ids"}
  <2>1. Len(decodes) = 2 /\ Succeeds(c) /\ ids # << >>
    <3>1. Len(decodes) = 2 /\ Succeeds(c)
      BY DEF IInv, VerdictInv
    <3>2. decodes # << >>
      BY <3>1
    <3> QED
      BY <3>1, <3>2 DEF IInv, DecodeInv
  <2>2. \A k \in bound : c[k] = PinnedReceipt[k]
    <3>1. bound \subseteq KeySet \ {"spec-version"}
      BY KeySetIs
    <3>2. bound \cap OffPinned(c) = {}
      BY <2>1 DEF Succeeds, ConformsVerify3
    <3> HIDE DEF c
    <3> QED
      BY <3>1, <3>2 DEF OffPinned
  <2>3. ids = pids
    <3>1. Accepted /\ HashesOk /\ ids = Encoding(used.tokenizer, task.prompt)
      BY <2>1 DEF IInv, PreparedInv
    <3>2. PinnedReceipt["prompt-token-ids"] = pids
      BY PinnedIs, ClaimDecoded
    <3>3. CASE task.program = "verify3"
      BY <3>1, <3>2, <3>3 DEF Accepted
    <3>4. CASE task.program = "cis2_verify"
      <4>1. OffPinned(c) = {}
        BY <2>1, <3>4 DEF Succeeds
      <4>2. "prompt-token-ids" \in KeySet \ {"spec-version"}
        BY KeySetIs
      <4>3. c["prompt-token-ids"] = ids
        BY ClaimDecoded DEF Claimed
      <4> HIDE DEF c
      <4> QED
        BY <3>2, <4>1, <4>2, <4>3 DEF OffPinned
    <3> QED
      BY <3>3, <3>4
  <2>4. /\ c["generated-token-ids"] = Generated(decodes[1])
        /\ c["witness-digest"] = Witness(hashed, InvFreq(used.config), ids, decodes[1])
    BY ClaimDecoded DEF Claimed
  <2>5. /\ PinnedReceipt["generated-token-ids"] = Generated(plog)
        /\ PinnedReceipt["witness-digest"] = Witness(PinnedFiles, InvFreq(Pinned.config), pids, plog)
    BY PinnedIs, ClaimDecoded
  <2>6. ids \in Seq(Words) /\ LogShaped(decodes[1]) /\ LogShaped(plog)
    <3>1. 1 \in 1 .. Len(decodes)
      BY <2>1
    <3> QED
      BY <3>1, PinnedIs DEF ShapeInv
  <2>7. /\ Generated(decodes[1]) = Generated(plog)
        /\ Witness(hashed, InvFreq(used.config), ids, decodes[1])
             = Witness(PinnedFiles, InvFreq(Pinned.config), ids, plog)
    <3> HIDE DEF c, pids, plog
    <3> QED
      BY <2>2, <2>3, <2>4, <2>5
  <2> HIDE DEF c, plog
  <2>8. /\ hashed.weights = PinnedFiles.weights
        /\ hashed.tokenizer = PinnedFiles.tokenizer
        /\ hashed.config = PinnedFiles.config
        /\ decodes[1] = plog
    BY <2>6, <2>7, WitnessBinds
  <2>9. hashed = PinnedFiles
    <3>1. hashed = [f \in Files |-> hashed[f]]
      BY DEF IInv, FilesInv
    <3>2. PinnedFiles = [f \in Files |-> PinnedFiles[f]]
      BY DEF PinnedFiles
    <3>3. \A f \in Files : hashed[f] = PinnedFiles[f]
      BY <2>8 DEF Files
    <3> QED
      BY <3>1, <3>2, <3>3
  <2> QED
    BY <2>3, <2>8, <2>9 DEF plog
<1> QED BY <1>1, Inductive, AlwaysShaped, PTL
=============================================================================
