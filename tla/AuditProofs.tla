----------------------------- MODULE AuditProofs -----------------------------
(***************************************************************************)
(* What check and compare may say of receipts, for all artifacts and all   *)
(* alterations of the documents.                                           *)
(***************************************************************************)
EXTENDS Audit, SequenceTheorems, FiniteSetTheorems, FunctionTheorems, TLAPS

\* The keys compare splits are all the keys.
LEMMA PartsCover == Inputs \cup Derived \cup Outputs = KeySet
<1>1. DOMAIN Keys = 1 .. 13
  BY DEF Keys
<1>2. KeySet = {Keys[1], Keys[2], Keys[3], Keys[4], Keys[5], Keys[6], Keys[7], Keys[8],
                Keys[9], Keys[10], Keys[11], Keys[12], Keys[13]}
  BY DEF KeySet
<1> QED BY <1>2 DEF Keys, Inputs, Derived, Outputs

\* The fields a claim takes its hashes and its witness from.
LEMMA ClaimFields ==
  ASSUME NEW hashed, NEW config, NEW prompt, NEW ids, NEW n, NEW log
  PROVE  LET c == Claim(hashed, config, prompt, ids, n, log)
         IN  /\ c["weights-sha256"] = hashed.weights
             /\ c["witness-digest"] = Witness(hashed, InvFreq(config), ids, log)
<1> DEFINE c == Claim(hashed, config, prompt, ids, n, log)
<1>1. "weights-sha256" \in KeySet /\ "witness-digest" \in KeySet
  BY PartsCover DEF Inputs, Outputs
<1>2. c["weights-sha256"] = hashed.weights
  BY <1>1 DEF Claim, Field
<1>3. c["witness-digest"] = Witness(hashed, InvFreq(config), ids, log)
  BY <1>1 DEF Claim, Field
<1> QED BY <1>2, <1>3

\* A true receipt is, spec-version aside, the one run of what it names.
LEMMA TrueIsRun ==
  ASSUME NEW r, TrueReceipt(r)
  PROVE  \E log : LET n == r["gen-toks"]
                      p == r["prompt-hex"]
                      c == Claim(Named(r), r["config-sha256"], p,
                                 Encoding(r["tokenizer-sha256"], p), n, log)
                  IN  /\ log = Decoding(r["weights-sha256"], r["config-sha256"],
                                        Encoding(r["tokenizer-sha256"], p), n)
                      /\ \A k \in KeySet \ {"spec-version"} : r[k] = c[k]
<1>1. /\ Named(r).config = r["config-sha256"]
      /\ Named(r).weights = r["weights-sha256"]
      /\ Named(r).tokenizer = r["tokenizer-sha256"]
  BY DEF Named, Files, HashKey
<1>2. PICK t \in Run(Named(r), r["prompt-hex"], r["gen-toks"]) :
        \A k \in KeySet \ {"spec-version"} : r[k] = t[k]
  BY DEF TrueReceipt
<1> QED BY <1>1, <1>2 DEF Run

\* The witness binds the weights.
LEMMA WitnessBindsWeights ==
  ASSUME NEW h, NEW i, NEW ids, NEW log, NEW h2, NEW i2, NEW ids2, NEW log2,
         Witness(h, i, ids, log) = Witness(h2, i2, ids2, log2)
  PROVE  h.weights = h2.weights
<1>1. Witness(h, i, ids, log)[1] = h.weights
  BY DEF Witness
<1>2. Witness(h2, i2, ids2, log2)[1] = h2.weights
  BY DEF Witness
<1> QED BY <1>1, <1>2

\* compare fails only pairs that are not both true.
LEMMA JustVerdict ==
  ASSUME NEW r, NEW s, IsContradiction(Verdict(r, s))
  PROVE  ~ (TrueReceipt(r) /\ TrueReceipt(s))
<1> SUFFICES ASSUME TrueReceipt(r), TrueReceipt(s) PROVE FALSE
  OBVIOUS
<1>1. CASE Differing(Inputs, r, s) = {}
  <2>1. \A k \in Inputs : r[k] = s[k]
    BY <1>1 DEF Differing
  <2>2. Named(r) = Named(s)
    BY <2>1 DEF Named, HashKey, Files, Inputs
  <2>3. r["prompt-hex"] = s["prompt-hex"] /\ r["gen-toks"] = s["gen-toks"]
    BY <2>1 DEF Inputs
  <2>4. r["config-sha256"] = s["config-sha256"] /\ r["weights-sha256"] = s["weights-sha256"]
          /\ r["tokenizer-sha256"] = s["tokenizer-sha256"]
    BY <2>1 DEF Inputs
  <2>5. \A k \in KeySet \ {"spec-version"} : r[k] = s[k]
    BY TrueIsRun, <2>2, <2>3, <2>4
  <2>6. r["spec-version"] = s["spec-version"]
    BY <2>1 DEF Inputs
  <2>7. Differing(Inputs \cup Derived \cup Outputs, r, s) = {}
    BY <2>5, <2>6, PartsCover DEF Differing
  <2> QED BY <2>7 DEF Verdict, IsContradiction
<1>2. CASE /\ r["weights-sha256"] # s["weights-sha256"]
           /\ r["witness-digest"] = s["witness-digest"]
  <2>1. "witness-digest" \in KeySet \ {"spec-version"}
    BY PartsCover DEF Outputs
  <2>2. PICK i, ids, log : r["witness-digest"] = Witness(Named(r), i, ids, log)
    BY <2>1, TrueIsRun, ClaimFields
  <2>3. PICK i2, ids2, log2 : s["witness-digest"] = Witness(Named(s), i2, ids2, log2)
    BY <2>1, TrueIsRun, ClaimFields
  <2>4. Witness(Named(r), i, ids, log) = Witness(Named(s), i2, ids2, log2)
    BY <1>2, <2>2, <2>3
  <2>5. Named(r).weights = Named(s).weights
    BY ONLY <2>4, WitnessBindsWeights
  <2> QED BY <1>2, <2>5 DEF Named, HashKey, Files
<1> QED BY <1>1, <1>2 DEF Verdict, IsContradiction

\* The report of a comparison is about the documents as they are.
ReportIsCurrent ==
  report.command = "compare" =>
    report.passed = ~ IsContradiction(Verdict(Parsed("a"), Parsed("b")))

LEMMA ReportStays == Spec => []ReportIsCurrent
<1>1. Init => ReportIsCurrent
  BY DEF Init, ReportIsCurrent, NoReport
<1>2. ReportIsCurrent /\ [Next]_vars => ReportIsCurrent'
  <2> SUFFICES ASSUME ReportIsCurrent, [Next]_vars PROVE ReportIsCurrent'
    OBVIOUS
  <2>1. ASSUME NEW x \in Parties, EditOf(x) PROVE ReportIsCurrent'
    <3>1. report = NoReport
      BY <2>1 DEF EditOf
    <3>2. report' = report
      BY <2>1 DEF EditOf, SetValue, Respell, Exchange, Drop, Repeat, EndLines, Relabel, Edit
    <3> QED BY <3>1, <3>2 DEF ReportIsCurrent, NoReport
  <2>2. ASSUME NEW config, NEW tokenizer, CheckDoc(config, tokenizer) PROVE ReportIsCurrent'
    BY <2>2 DEF CheckDoc, ReportIsCurrent
  <2>3. CASE CompareDocs
    BY <2>3 DEF CompareDocs, ReportIsCurrent, Parsed
  <2>4. CASE UNCHANGED vars
    BY <2>4 DEF vars, ReportIsCurrent, Parsed
  <2> QED BY <2>1, <2>2, <2>3, <2>4 DEF Next
<1> QED BY <1>1, <1>2, PTL DEF Spec

\* compare never accuses two receipts that are both true, whatever was done to
\* the documents before: the dispute it reports has a culprit.
THEOREM CompareIsJust == Spec => []AccusationsAreJust
<1>1. ReportIsCurrent => AccusationsAreJust
  BY JustVerdict DEF ReportIsCurrent, AccusationsAreJust
<1> QED BY <1>1, ReportStays, PTL

-----------------------------------------------------------------------------
(***************************************************************************)
(* Documents are lines of keys and values, whatever was done to them.      *)
(***************************************************************************)
AnyValue ==
  {r[k] : r \in Honest, k \in KeySet} \cup UNION {Values(k) : k \in KeySet}

Line ==
  {l \in [key : KeySet, value : AnyValue, form : {"plain", "respelled", "malformed"}] :
     l.key = "gen-toks" => l.value \in Nat}

Document ==
  [header : {"CIS-2-RECEIPT v1", "CIS-2-RECEIPT v2"},
   lines  : Seq(Line),
   ending : {"lf", "none", "crlf"}]

DocsInv == docs \in [Parties -> Document] /\ edits \in 0 .. MaxEdits

LEMMA KeysDiffer ==
  /\ Keys \in [1 .. 13 -> KeySet]
  /\ \A i, j \in 1 .. 13 : Keys[i] = Keys[j] => i = j
  /\ \A k \in KeySet : \E i \in 1 .. 13 : Keys[i] = k
<1>1. 1 .. 13 = {1, 2, 3, 4, 5, 6, 7, 8, 9, 10, 11, 12, 13}
  OBVIOUS
<1>2. \A i, j \in 1 .. 13 : Keys[i] = Keys[j] => i = j
  BY <1>1 DEF Keys
<1>3. DOMAIN Keys = 1 .. 13 /\ Keys = [i \in 1 .. 13 |-> Keys[i]]
  BY DEF Keys
<1> QED
  BY <1>2, <1>3 DEF KeySet

\* A honest receipt is the claim of one decode.
LEMMA HonestIsClaim ==
  ASSUME NEW r \in Honest
  PROVE  \E art \in Artifacts, q \in Requests :
           LET ids == Encoding(art.tokenizer, q[1])
               log == Decoding(art.weights, art.config, ids, q[2])
           IN  /\ r = Claim(art, art.config, q[1], ids, q[2], log)
               /\ Runnable(art, q[1])
               /\ Len(log) = q[2]
<1>1. PICK art \in Artifacts, q \in Requests : r \in Run(art, q[1], q[2])
  BY DEF Honest
<1>2. Runnable(art, q[1])
  BY <1>1 DEF Run
<1> QED
  BY <1>1, <1>2, RequestsAssumption DEF Run

\* What the run command writes is a document.
LEMMA RenderIsDocument ==
  ASSUME NEW r \in Honest
  PROVE  Render(r) \in Document
<1> DEFINE line(i) == [key   |-> Keys[i],
                       value |-> r[Keys[i]],
                       form  |-> IF Keys[i] \in ListKeys /\ r[Keys[i]] = << >>
                                   THEN "malformed" ELSE "plain"]
<1>1. ASSUME NEW i \in 1 .. 13 PROVE line(i) \in Line
  <2>1. Keys[i] \in KeySet
    BY KeysDiffer
  <2>2. r[Keys[i]] \in AnyValue
    BY <2>1 DEF AnyValue
  <2>3. ASSUME Keys[i] = "gen-toks" PROVE r["gen-toks"] \in Nat
    BY <2>1, <2>3, HonestIsClaim, RequestsAssumption DEF Claim, Field
  <2> QED
    BY <2>1, <2>2, <2>3 DEF Line
<1> HIDE DEF line
<1>2. [i \in 1 .. 13 |-> line(i)] \in Seq(Line)
  BY <1>1, IsASeq
<1> QED
  BY <1>2 DEF Render, Document, line

\* Every alteration leaves a document.
LEMMA EditKeepsDocument ==
  ASSUME DocsInv, NEW x \in Parties, EditOf(x)
  PROVE  \E text \in Document : docs' = [docs EXCEPT ![x] = text]
<1> DEFINE d == docs[x]
           n == Len(d.lines)
<1>1. d \in Document /\ d.lines \in Seq(Line) /\ n \in Nat /\ DOMAIN d.lines = 1 .. n
  BY LenProperties DEF DocsInv, Document
<1>2. \A i \in 1 .. n : d.lines[i] \in Line
  BY <1>1, ElementOfSeq
<1>3. ASSUME NEW lines \in Seq(Line), docs' = [docs EXCEPT ![x] = [d EXCEPT !.lines = lines]]
      PROVE  \E text \in Document : docs' = [docs EXCEPT ![x] = text]
  <2>1. [d EXCEPT !.lines = lines] \in Document
    BY <1>1 DEF Document
  <2> QED
    BY <1>3, <2>1
<1>4. ASSUME NEW i \in DOMAIN docs[x].lines, SetValue(x, i)
      PROVE  \E text \in Document : docs' = [docs EXCEPT ![x] = text]
  <2>1. PICK v \in Values(d.lines[i].key) :
          docs' = [docs EXCEPT ![x] = [d EXCEPT !.lines[i].value = v]]
    BY <1>4 DEF SetValue, Edit
  <2> DEFINE l == [d.lines[i] EXCEPT !.value = v]
  <2>2. l \in Line
    <3>1. d.lines[i] \in Line /\ d.lines[i].key \in KeySet
      BY <1>1, <1>2 DEF Line
    <3>2. v \in AnyValue
      BY <3>1 DEF AnyValue
    <3> QED
      BY <3>1, <3>2, EditsAssumption DEF Line
  <2>3. [d.lines EXCEPT ![i] = l] \in Seq(Line)
    BY <1>1, <2>2, ExceptSeq
  <2>4. [d EXCEPT !.lines[i].value = v] = [d EXCEPT !.lines = [d.lines EXCEPT ![i] = l]]
    OBVIOUS
  <2> QED
    BY <1>3, <2>1, <2>3, <2>4
<1>5. ASSUME NEW i \in DOMAIN docs[x].lines, Respell(x, i)
      PROVE  \E text \in Document : docs' = [docs EXCEPT ![x] = text]
  <2> DEFINE l == [d.lines[i] EXCEPT !.form = "respelled"]
  <2>1. docs' = [docs EXCEPT ![x] = [d EXCEPT !.lines[i].form = "respelled"]]
    BY <1>5 DEF Respell, Edit
  <2>2. l \in Line
    BY <1>1, <1>2 DEF Line
  <2>3. [d.lines EXCEPT ![i] = l] \in Seq(Line)
    BY <1>1, <2>2, ExceptSeq
  <2>4. [d EXCEPT !.lines[i].form = "respelled"] = [d EXCEPT !.lines = [d.lines EXCEPT ![i] = l]]
    OBVIOUS
  <2> QED
    BY <1>3, <2>1, <2>3, <2>4
<1>6. ASSUME NEW i \in DOMAIN docs[x].lines, Exchange(x, i)
      PROVE  \E text \in Document : docs' = [docs EXCEPT ![x] = text]
  <2> DEFINE one == [d.lines EXCEPT ![i] = d.lines[i - 1]]
             two == [one EXCEPT ![i - 1] = d.lines[i]]
  <2>1. i > 1 /\ docs' = [docs EXCEPT ![x] = [d EXCEPT !.lines[i] = d.lines[i - 1],
                                                       !.lines[i - 1] = d.lines[i]]]
    BY <1>6 DEF Exchange, Edit
  <2>2. i \in 1 .. n /\ i - 1 \in 1 .. n
    BY <1>1, <2>1
  <2>3. one \in Seq(Line) /\ Len(one) = n
    BY <1>1, <1>2, <2>2, ExceptSeq
  <2>4. two \in Seq(Line)
    BY <1>1, <1>2, <2>2, <2>3, ExceptSeq
  <2>5. [d EXCEPT !.lines[i] = d.lines[i - 1], !.lines[i - 1] = d.lines[i]]
          = [d EXCEPT !.lines = two]
    BY <1>1 DEF Document
  <2> QED
    BY <1>3, <2>1, <2>4, <2>5
<1>7. ASSUME NEW i \in DOMAIN docs[x].lines, Drop(x, i)
      PROVE  \E text \in Document : docs' = [docs EXCEPT ![x] = text]
  <2> DEFINE a == SubSeq(d.lines, 1, i - 1)
             b == SubSeq(d.lines, i + 1, n)
  <2>1. docs' = [docs EXCEPT ![x] = [d EXCEPT !.lines = a \o b]]
    BY <1>7 DEF Drop, Edit
  <2>2. i \in 1 .. n /\ i - 1 \in Int /\ i + 1 \in Int /\ n \in Int
    BY <1>1
  <2>3. /\ \A j \in 1 .. i - 1 : d.lines[j] \in Line
        /\ \A j \in i + 1 .. n : d.lines[j] \in Line
    BY <1>2, <2>2
  <2>4. a \in Seq(Line) /\ b \in Seq(Line)
    BY <2>2, <2>3, SubSeqProperties
  <2>5. a \o b \in Seq(Line)
    BY <2>4, ConcatProperties
  <2> QED
    BY <1>3, <2>1, <2>5
<1>8. ASSUME NEW i \in DOMAIN docs[x].lines, Repeat(x, i)
      PROVE  \E text \in Document : docs' = [docs EXCEPT ![x] = text]
  <2>1. docs' = [docs EXCEPT ![x] = [d EXCEPT !.lines = Append(@, d.lines[i])]]
    BY <1>8 DEF Repeat, Edit
  <2>2. Append(d.lines, d.lines[i]) \in Seq(Line)
    BY <1>1, <1>2, AppendProperties
  <2> QED
    BY <1>3, <2>1, <2>2
<1>9. ASSUME EndLines(x) \/ Relabel(x)
      PROVE  \E text \in Document : docs' = [docs EXCEPT ![x] = text]
  <2>1. CASE Relabel(x)
    <3>1. [d EXCEPT !.header = "CIS-2-RECEIPT v2"] \in Document
      BY <1>1 DEF Document
    <3> QED
      BY <2>1, <3>1 DEF Relabel, Edit
  <2>2. CASE EndLines(x)
    <3>1. PICK e \in {"none", "crlf"} : docs' = [docs EXCEPT ![x] = [d EXCEPT !.ending = e]]
      BY <2>2 DEF EndLines, Edit
    <3>2. [d EXCEPT !.ending = e] \in Document
      BY <1>1 DEF Document
    <3> QED
      BY <3>1, <3>2
  <2> QED
    BY <1>9, <2>1, <2>2
<1> QED
  BY <1>4, <1>5, <1>6, <1>7, <1>8, <1>9 DEF EditOf

LEMMA DocsStay == Spec => []DocsInv
<1>1. Init => DocsInv
  BY RenderIsDocument, EditsAssumption DEF Init, DocsInv
<1>2. ASSUME DocsInv, [Next]_vars PROVE DocsInv'
  <2>1. ASSUME NEW x \in Parties, EditOf(x) PROVE DocsInv'
    <3>1. PICK text \in Document : docs' = [docs EXCEPT ![x] = text]
      BY <1>2, <2>1, EditKeepsDocument
    <3>2. edits' = edits + 1 /\ edits < MaxEdits
      BY <2>1 DEF EditOf, SetValue, Respell, Exchange, Drop, Repeat, EndLines, Relabel, Edit
    <3> QED
      BY <1>2, <3>1, <3>2, EditsAssumption DEF DocsInv
  <2>2. CASE docs' = docs /\ edits' = edits
    BY <1>2, <2>2 DEF DocsInv
  <2> QED
    BY <1>2, <2>1, <2>2 DEF Next, CheckDoc, CompareDocs, vars
<1> QED
  BY <1>1, <1>2, PTL DEF Spec

\* A document with every key once has thirteen lines.
LEMMA ThirteenLines ==
  ASSUME NEW text \in Document, Parses(text)
  PROVE  Len(text.lines) = 13
<1> DEFINE n == Len(text.lines)
           key == [i \in 1 .. n |-> text.lines[i].key]
<1>1. text.lines \in Seq(Line) /\ n \in Nat /\ DOMAIN text.lines = 1 .. n
  BY LenProperties DEF Document
<1>2. \A i \in 1 .. n : text.lines[i].key \in KeySet
  BY <1>1, ElementOfSeq DEF Line
<1>3. \A i, j \in 1 .. n : text.lines[i].key = text.lines[j].key => i = j
  BY <1>1 DEF Parses
<1>4. \A k \in KeySet : \E i \in 1 .. n : text.lines[i].key = k
  BY <1>1 DEF Parses
<1>5. key \in Bijection(1 .. n, KeySet)
  <2>1. key \in [1 .. n -> KeySet]
    BY <1>2
  <2>2. \A i, j \in 1 .. n : key[i] = key[j] => i = j
    BY <1>3
  <2>3. \A k \in KeySet : \E i \in 1 .. n : key[i] = k
    BY <1>4
  <2> HIDE DEF key
  <2> QED
    BY <2>1, <2>2, <2>3, Fun_IsBij
<1>6. Keys \in Bijection(1 .. 13, KeySet)
  BY KeysDiffer, Fun_IsBij
<1>7. IsFiniteSet(1 .. n) /\ Cardinality(1 .. n) = n
  BY <1>1, FS_Interval
<1>8. IsFiniteSet(1 .. 13) /\ Cardinality(1 .. 13) = 13
  <2>1. 1 \in Int /\ 13 \in Int /\ ~ (1 > 13) /\ 13 - 1 + 1 = 13
    OBVIOUS
  <2> QED
    BY <2>1, FS_Interval
<1> HIDE DEF key, n
<1>9. Cardinality(KeySet) = n
  BY <1>5, <1>7, FS_Bijection DEF ExistsBijection
<1>10. Cardinality(KeySet) = 13
  BY <1>6, <1>8, FS_Bijection DEF ExistsBijection
<1> QED
  BY <1>9, <1>10 DEF n

\* What the line of a key says.
LEMMA DenotedLine ==
  ASSUME NEW lines, \A i, j \in DOMAIN lines : lines[i].key = lines[j].key => i = j,
         NEW i \in DOMAIN lines, lines[i].key \in KeySet
  PROVE  Denoted(lines)[lines[i].key] = lines[i].value
<1> DEFINE k == lines[i].key
           c == CHOOSE j \in DOMAIN lines : lines[j].key = k
<1>1. c \in DOMAIN lines /\ lines[c].key = k
  OBVIOUS
<1>2. c = i
  BY <1>1
<1>3. Denoted(lines)[k] = lines[c].value
  BY DEF Denoted
<1> QED
  BY <1>2, <1>3

ReportIsKnown == report.command \in {"none", "check", "compare"}

LEMMA ReportKnown == Spec => []ReportIsKnown
<1>1. Init => ReportIsKnown
  BY DEF Init, ReportIsKnown, NoReport
<1>2. ASSUME ReportIsKnown, [Next]_vars PROVE ReportIsKnown'
  <2>1. ASSUME NEW x \in Parties, EditOf(x) PROVE report' = report
    BY <2>1 DEF EditOf, SetValue, Respell, Exchange, Drop, Repeat, EndLines, Relabel, Edit
  <2>2. ASSUME NEW config, NEW tokenizer, CheckDoc(config, tokenizer)
        PROVE  report'.command = "check"
    BY <2>2 DEF CheckDoc
  <2>3. ASSUME CompareDocs PROVE report'.command = "compare"
    BY <2>3 DEF CompareDocs
  <2>4. ASSUME UNCHANGED vars PROVE report' = report
    BY <2>4 DEF vars
  <2> QED
    BY <1>2, <2>1, <2>2, <2>3, <2>4 DEF ReportIsKnown, Next
<1> QED BY <1>1, <1>2, PTL DEF Spec

\* A document that parses has thirteen lines, one of them a number of tokens,
\* whatever was done to it.
THEOREM TypeCorrect == Spec => []TypeOK
<1>1. DocsInv /\ ReportIsKnown => TypeOK
  <2> SUFFICES ASSUME DocsInv, ReportIsKnown, NEW x \in Parties, Parses(docs[x])
               PROVE  Len(docs[x].lines) = 13 /\ Parsed(x)["gen-toks"] \in Nat
    BY DEF TypeOK, DocsInv, ReportIsKnown
  <2>1. docs[x] \in Document
    BY DEF DocsInv
  <2>2. PICK i \in DOMAIN docs[x].lines : docs[x].lines[i].key = "gen-toks"
    <3>1. "gen-toks" \in KeySet
      BY PartsCover DEF Inputs
    <3> QED
      BY <3>1 DEF Parses
  <2>3. docs[x].lines[i] \in Line
    BY <2>1, ElementOfSeq, LenProperties DEF Document
  <2>4. Parsed(x)["gen-toks"] \in Nat
    <3>1. docs[x].lines[i].key \in KeySet /\ docs[x].lines[i].value \in Nat
      BY <2>2, <2>3 DEF Line
    <3> DEFINE lines == docs[x].lines
    <3>2. \A a, b \in DOMAIN lines : lines[a].key = lines[b].key => a = b
      BY DEF Parses
    <3>3. i \in DOMAIN lines /\ lines[i].key \in KeySet
      BY <2>2, <3>1
    <3> HIDE DEF lines
    <3>4. Denoted(lines)[lines[i].key] = lines[i].value
      BY <3>2, <3>3, DenotedLine
    <3>5. Parsed(x)["gen-toks"] = docs[x].lines[i].value
      BY <2>2, <3>4 DEF Parsed, lines
    <3> QED
      BY <3>1, <3>5
  <2> QED
    BY <2>1, <2>4, ThirteenLines
<1> QED BY <1>1, DocsStay, ReportKnown, PTL

-----------------------------------------------------------------------------
(***************************************************************************)
(* What check reports.                                                     *)
(***************************************************************************)
\* The report of a check is about the document as it is.
CheckIsCurrent ==
  report.command = "check" =>
    LET checks == Check(docs["a"], report.config, report.tokenizer)
    IN  report.residual = Residual(checks) /\ report.passed = Passed(checks)

LEMMA CheckStays == Spec => []CheckIsCurrent
<1>1. Init => CheckIsCurrent
  BY DEF Init, CheckIsCurrent, NoReport
<1>2. ASSUME CheckIsCurrent, [Next]_vars PROVE CheckIsCurrent'
  <2>1. ASSUME NEW x \in Parties, EditOf(x) PROVE CheckIsCurrent'
    <3>1. report = NoReport /\ report' = report
      BY <2>1 DEF EditOf, SetValue, Respell, Exchange, Drop, Repeat, EndLines, Relabel, Edit
    <3> QED BY <3>1 DEF CheckIsCurrent, NoReport
  <2>2. ASSUME NEW config, NEW tokenizer, CheckDoc(config, tokenizer) PROVE CheckIsCurrent'
    <3>1. /\ docs' = docs
          /\ report'.config = config /\ report'.tokenizer = tokenizer
          /\ report'.residual = Residual(Check(docs["a"], config, tokenizer))
          /\ report'.passed = Passed(Check(docs["a"], config, tokenizer))
      BY <2>2 DEF CheckDoc
    <3> QED BY <3>1 DEF CheckIsCurrent
  <2>3. CASE CompareDocs
    BY <2>3 DEF CompareDocs, CheckIsCurrent
  <2>4. CASE UNCHANGED vars
    BY <1>2, <2>4 DEF vars, CheckIsCurrent
  <2> QED BY <1>2, <2>1, <2>2, <2>3, <2>4 DEF Next
<1> QED BY <1>1, <1>2, PTL DEF Spec

\* The verdicts on a document that parses, question by question.
LEMMA CheckFields ==
  ASSUME NEW text, NEW config, NEW tokenizer, Parses(text)
  PROVE  LET checks == Check(text, config, tokenizer)
             r == Denoted(text.lines)
         IN  /\ DOMAIN checks = {"parse", "canonical", "dtype", "prompt", "table",
                                 "inv_freq", "ids", "pinned"}
             /\ checks["parse"] = "PASS"
             /\ checks["canonical"] = PassIf(text = Render(r))
             /\ checks["dtype"] = PassIf(r["dtype"] = "fp32")
             /\ checks["prompt"] = PassIf(Utf8(r["prompt-hex"]))
             /\ checks["table"] = PassIf(r["table-digest"] = Table)
             /\ checks["inv_freq"] = CheckConfig(r, config)
             /\ checks["ids"] = CheckTokenizer(r, tokenizer)
             /\ checks["pinned"] = CheckPinned(r)
BY DEF Check

LEMMA PassIfValue ==
  ASSUME NEW b \in BOOLEAN
  PROVE  /\ PassIf(b) \in {"PASS", "FAIL"}
         /\ PassIf(b) = "PASS" <=> b
         /\ PassIf(b) = "FAIL" <=> ~ b
BY DEF PassIf

\* What it takes to pass.
LEMMA PassedIs ==
  ASSUME NEW text, NEW config, NEW tokenizer
  PROVE  LET r == Denoted(text.lines)
         IN  Passed(Check(text, config, tokenizer)) <=>
               /\ Parses(text)
               /\ text = Render(r)
               /\ r["dtype"] = "fp32"
               /\ Utf8(r["prompt-hex"])
               /\ r["table-digest"] = Table
               /\ CheckConfig(r, config) # "FAIL"
               /\ CheckTokenizer(r, tokenizer) # "FAIL"
               /\ CheckPinned(r) # "FAIL"
<1> DEFINE r == Denoted(text.lines)
           checks == Check(text, config, tokenizer)
<1>1. CASE ~ Parses(text)
  <2>1. checks = [parse |-> "FAIL"]
    BY <1>1 DEF Check
  <2>2. "parse" \in DOMAIN checks /\ checks["parse"] = "FAIL"
    BY <2>1
  <2> QED
    BY <1>1, <2>2 DEF Passed
<1>2. CASE Parses(text)
  <2>1. /\ PassIf(text = Render(r)) = "FAIL" <=> ~ (text = Render(r))
        /\ PassIf(r["dtype"] = "fp32") = "FAIL" <=> ~ (r["dtype"] = "fp32")
        /\ PassIf(Utf8(r["prompt-hex"])) = "FAIL" <=> ~ Utf8(r["prompt-hex"])
        /\ PassIf(r["table-digest"] = Table) = "FAIL" <=> ~ (r["table-digest"] = Table)
    BY DEF PassIf
  <2>2. /\ DOMAIN checks = {"parse", "canonical", "dtype", "prompt", "table",
                            "inv_freq", "ids", "pinned"}
        /\ checks["parse"] = "PASS"
        /\ checks["canonical"] = PassIf(text = Render(r))
        /\ checks["dtype"] = PassIf(r["dtype"] = "fp32")
        /\ checks["prompt"] = PassIf(Utf8(r["prompt-hex"]))
        /\ checks["table"] = PassIf(r["table-digest"] = Table)
        /\ checks["inv_freq"] = CheckConfig(r, config)
        /\ checks["ids"] = CheckTokenizer(r, tokenizer)
        /\ checks["pinned"] = CheckPinned(r)
    BY <1>2, CheckFields
  <2> HIDE DEF checks, r
  <2>3. Passed(checks) <=>
          /\ checks["canonical"] # "FAIL" /\ checks["dtype"] # "FAIL"
          /\ checks["prompt"] # "FAIL" /\ checks["table"] # "FAIL"
          /\ checks["inv_freq"] # "FAIL" /\ checks["ids"] # "FAIL" /\ checks["pinned"] # "FAIL"
    BY <2>2 DEF Passed
  <2> QED
    BY <1>2, <2>1, <2>2, <2>3 DEF checks, r
<1> QED
  BY <1>1, <1>2

\* A claim is a function of the keys, and takes from the files three digests.
LEMMA ClaimIs ==
  ASSUME NEW h, NEW config, NEW p, NEW i, NEW n, NEW log
  PROVE  LET c == Claim(h, config, p, i, n, log)
         IN  /\ c = [k \in KeySet |-> c[k]]
             /\ \A f \in Files : c[HashKey[f]] = h[f]
             /\ c["config-sha256"] = h.config
             /\ c["tokenizer-sha256"] = h.tokenizer
             /\ c["weights-sha256"] = h.weights
             /\ c["prompt-hex"] = p
             /\ c["prompt-token-ids"] = i
             /\ c["gen-toks"] = n
             /\ c["dtype"] = "fp32"
             /\ c["table-digest"] = Table
             /\ c["inv-freq-table-digest"] = InvFreq(config)
             /\ c["generated-token-ids"] = Generated(log)
             /\ \A h2 : h2.weights = h.weights /\ h2.config = h.config /\ h2.tokenizer = h.tokenizer
                          => Claim(h2, config, p, i, n, log) = c
<1> DEFINE c == Claim(h, config, p, i, n, log)
<1>1. KeySet = {"spec-version", "weights-sha256", "config-sha256", "tokenizer-sha256",
                "prompt-hex", "prompt-token-ids", "gen-toks", "dtype", "table-digest",
                "inv-freq-table-digest", "generated-token-ids", "argmax-digest",
                "witness-digest"}
  BY PartsCover DEF Inputs, Derived, Outputs
<1>2. c = [k \in KeySet |-> c[k]]
  BY DEF Claim
<1>3. /\ c["config-sha256"] = h.config
      /\ c["tokenizer-sha256"] = h.tokenizer
      /\ c["weights-sha256"] = h.weights
      /\ c["prompt-hex"] = p
      /\ c["prompt-token-ids"] = i
      /\ c["gen-toks"] = n
      /\ c["dtype"] = "fp32"
      /\ c["table-digest"] = Table
      /\ c["inv-freq-table-digest"] = InvFreq(config)
      /\ c["generated-token-ids"] = Generated(log)
  BY <1>1 DEF Claim, Field
<1>4. \A f \in Files : c[HashKey[f]] = h[f]
  BY <1>3 DEF Files, HashKey
<1>5. ASSUME NEW h2, h2.weights = h.weights, h2.config = h.config, h2.tokenizer = h.tokenizer
      PROVE  Claim(h2, config, p, i, n, log) = c
  <2>1. Witness(h2, InvFreq(config), i, log) = Witness(h, InvFreq(config), i, log)
    BY <1>5 DEF Witness
  <2>2. ASSUME NEW k \in KeySet
        PROVE  Field(k, h2, config, p, i, n, log) = Field(k, h, config, p, i, n, log)
    BY <1>1, <1>5, <2>1 DEF Field
  <2> QED
    BY <2>2 DEF Claim
<1> QED
  BY <1>2, <1>3, <1>4, <1>5

\* The pinned receipt is the claim of the one pinned run.
LEMMA PinnedIs ==
  LET pids == Encoding(Pinned.tokenizer, Pinned.prompt)
      plog == Decoding(Pinned.weights, Pinned.config, pids, Pinned.gen_toks)
  IN  /\ PinnedReceipt = Claim(PinnedFiles, Pinned.config, Pinned.prompt, pids,
                               Pinned.gen_toks, plog)
      /\ Run(PinnedFiles, Pinned.prompt, Pinned.gen_toks) = {PinnedReceipt}
      /\ \A f \in Files : PinnedFiles[f] = Pinned[f]
<1>1. /\ PinnedFiles.weights = Pinned.weights
      /\ PinnedFiles.config = Pinned.config
      /\ PinnedFiles.tokenizer = Pinned.tokenizer
      /\ \A f \in Files : PinnedFiles[f] = Pinned[f]
  BY DEF PinnedFiles, Files
<1>2. Runnable(PinnedFiles, Pinned.prompt)
  BY PinnedAssumption DEF Run
<1> DEFINE pids == Encoding(Pinned.tokenizer, Pinned.prompt)
           plog == Decoding(Pinned.weights, Pinned.config, pids, Pinned.gen_toks)
           c == Claim(PinnedFiles, Pinned.config, Pinned.prompt, pids, Pinned.gen_toks, plog)
<1>3. Run(PinnedFiles, Pinned.prompt, Pinned.gen_toks) = {c}
  BY <1>1, <1>2 DEF Run
<1>4. PinnedReceipt = c
  <2> HIDE DEF c
  <2> QED
    BY <1>3 DEF PinnedReceipt
<1> QED
  BY <1>1, <1>3, <1>4

-----------------------------------------------------------------------------
(***************************************************************************)
(* Honest receipts pass.                                                   *)
(***************************************************************************)
\* What a receipt was rendered to is read back.
LEMMA RenderedIsDenoted ==
  ASSUME NEW r \in Honest
  PROVE  Denoted(Render(r).lines) = r
<1> DEFINE lines == Render(r).lines
<1>1. r = [k \in KeySet |-> r[k]]
  BY HonestIsClaim, ClaimIs
<1>2. /\ DOMAIN lines = 1 .. 13
      /\ \A i \in 1 .. 13 : lines[i].key = Keys[i] /\ lines[i].value = r[Keys[i]]
  BY DEF Render
<1>3. \A i, j \in DOMAIN lines : lines[i].key = lines[j].key => i = j
  BY <1>2, KeysDiffer
<1> HIDE DEF lines
<1>4. ASSUME NEW k \in KeySet PROVE Denoted(lines)[k] = r[k]
  <2>1. PICK i \in 1 .. 13 : Keys[i] = k
    BY KeysDiffer
  <2>2. i \in DOMAIN lines /\ lines[i].key = k /\ lines[i].value = r[k]
    BY <1>2, <2>1
  <2>3. Denoted(lines)[lines[i].key] = lines[i].value
    BY <1>3, <2>2, DenotedLine
  <2> QED
    BY <2>2, <2>3
<1>5. Denoted(lines) = [k \in KeySet |-> Denoted(lines)[k]]
  BY DEF Denoted
<1>6. Denoted(lines) = r
  BY <1>1, <1>4, <1>5
<1> QED
  BY <1>6 DEF lines

\* A rendered receipt of a run that generated a token parses.
LEMMA RenderedParse ==
  ASSUME NEW r \in Honest, r["generated-token-ids"] # << >>
  PROVE  Parses(Render(r))
<1> DEFINE text == Render(r)
<1>1. PICK art \in Artifacts, q \in Requests :
        LET i == Encoding(art.tokenizer, q[1])
            log == Decoding(art.weights, art.config, i, q[2])
        IN  /\ r = Claim(art, art.config, q[1], i, q[2], log)
            /\ Runnable(art, q[1])
            /\ Len(log) = q[2]
  BY HonestIsClaim
<1> DEFINE i == Encoding(art.tokenizer, q[1])
           log == Decoding(art.weights, art.config, i, q[2])
<1>2. r["prompt-token-ids"] = i /\ r["generated-token-ids"] = Generated(log) /\ r["gen-toks"] = q[2]
  BY <1>1, ClaimIs
<1>3. i # << >> /\ Len(log) = q[2] /\ q[2] \in Nat
  BY <1>1, RequestsAssumption DEF Runnable
<1>4. Len(Generated(log)) = Len(log)
  BY <1>3 DEF Generated
<1>5. /\ DOMAIN text.lines = 1 .. 13
      /\ \A j \in 1 .. 13 : /\ text.lines[j].key = Keys[j]
                            /\ text.lines[j].form = IF Keys[j] \in ListKeys /\ r[Keys[j]] = << >>
                                                      THEN "malformed" ELSE "plain"
      /\ text.header = "CIS-2-RECEIPT v1"
  BY DEF Render
<1>6. Denoted(text.lines) = r
  BY RenderedIsDenoted
<1> HIDE DEF text, i, log
<1>7. \A j \in DOMAIN text.lines : LineOk(text.lines[j])
  <2>1. \A k \in ListKeys : r[k] # << >>
    BY <1>2, <1>3 DEF ListKeys
  <2>2. \A j \in 1 .. 13 : Keys[j] \in KeySet
    BY KeysDiffer
  <2>3. \A j \in 1 .. 13 : text.lines[j].form = "plain" /\ text.lines[j].key \in KeySet
    BY <1>5, <2>1, <2>2
  <2> QED
    BY <1>5, <2>3 DEF LineOk
<1>8. ASSUME NEW j \in DOMAIN text.lines, NEW k \in DOMAIN text.lines,
             text.lines[j].key = text.lines[k].key
      PROVE  j = k
  <2>1. j \in 1 .. 13 /\ k \in 1 .. 13
    BY <1>5
  <2>2. Keys[j] = Keys[k]
    BY <1>5, <1>8, <2>1
  <2> QED
    BY <2>1, <2>2, KeysDiffer
<1>9. KeySet \subseteq {text.lines[j].key : j \in DOMAIN text.lines}
  <2>1. ASSUME NEW k \in KeySet PROVE \E j \in DOMAIN text.lines : text.lines[j].key = k
    <3>1. PICK j \in 1 .. 13 : Keys[j] = k
      BY <2>1, KeysDiffer
    <3> QED
      BY <1>5, <3>1
  <2> QED
    BY <2>1
<1>10. Len(Denoted(text.lines)["generated-token-ids"]) = Denoted(text.lines)["gen-toks"]
  BY <1>2, <1>3, <1>4, <1>6
<1>11. Parses(text)
  BY <1>5, <1>7, <1>8, <1>9, <1>10 DEF Parses
<1> QED
  BY <1>11 DEF text

\* No question of check is answered against an honest receipt.
LEMMA HonestFailsNothing ==
  ASSUME NEW r \in Honest,
         NEW config \in SUBSET {r["config-sha256"]},
         NEW tokenizer \in SUBSET {r["tokenizer-sha256"]}
  PROVE  /\ r["dtype"] = "fp32"
         /\ Utf8(r["prompt-hex"])
         /\ r["table-digest"] = Table
         /\ CheckConfig(r, config) # "FAIL"
         /\ CheckTokenizer(r, tokenizer) # "FAIL"
         /\ CheckPinned(r) # "FAIL"
<1>1. PICK art \in Artifacts, q \in Requests :
        LET i == Encoding(art.tokenizer, q[1])
            log == Decoding(art.weights, art.config, i, q[2])
        IN  /\ r = Claim(art, art.config, q[1], i, q[2], log)
            /\ Runnable(art, q[1])
            /\ Len(log) = q[2]
  BY HonestIsClaim
<1> DEFINE i == Encoding(art.tokenizer, q[1])
           log == Decoding(art.weights, art.config, i, q[2])
           pids == Encoding(Pinned.tokenizer, Pinned.prompt)
           plog == Decoding(Pinned.weights, Pinned.config, pids, Pinned.gen_toks)
<1>2. /\ r["prompt-token-ids"] = i /\ r["gen-toks"] = q[2] /\ r["prompt-hex"] = q[1]
      /\ r["config-sha256"] = art.config /\ r["tokenizer-sha256"] = art.tokenizer
      /\ r["weights-sha256"] = art.weights
      /\ r["dtype"] = "fp32" /\ r["table-digest"] = Table
      /\ r["inv-freq-table-digest"] = InvFreq(art.config)
  BY <1>1, ClaimIs
<1>3. /\ PinnedReceipt["inv-freq-table-digest"] = InvFreq(Pinned.config)
      /\ PinnedReceipt["prompt-token-ids"] = pids
  BY PinnedIs, ClaimIs
<1>4. /\ ConfigOk(art.config) /\ Encodes(art.tokenizer, q[1]) /\ Utf8(q[1])
  BY <1>1, RequestsAssumption DEF Runnable
<1>5. CheckConfig(r, config) # "FAIL"
  <2>1. \A c \in config : /\ c = r["config-sha256"]
                          /\ ConfigOk(c)
                          /\ InvFreq(c) = r["inv-freq-table-digest"]
    BY <1>2, <1>4
  <2>2. r["config-sha256"] = Pinned.config =>
          r["inv-freq-table-digest"] = PinnedReceipt["inv-freq-table-digest"]
    BY <1>2, <1>3
  <2> QED
    BY <2>1, <2>2 DEF CheckConfig, PassIf
<1>6. CheckTokenizer(r, tokenizer) # "FAIL"
  <2>1. \A t \in tokenizer : /\ t = r["tokenizer-sha256"]
                             /\ Encodes(t, r["prompt-hex"])
                             /\ Encoding(t, r["prompt-hex"]) = r["prompt-token-ids"]
    BY <1>2, <1>4
  <2>2. r["tokenizer-sha256"] = Pinned.tokenizer /\ r["prompt-hex"] = Pinned.prompt =>
          r["prompt-token-ids"] = PinnedReceipt["prompt-token-ids"]
    BY <1>2, <1>3
  <2> QED
    BY <2>1, <2>2 DEF CheckTokenizer, PassIf
<1>7. CheckPinned(r) # "FAIL"
  <2> SUFFICES ASSUME NamesPinnedRun(r) PROVE OffPinned(r) = {}
    BY DEF CheckPinned, PassIf
  <2>1. /\ art.weights = Pinned.weights /\ art.config = Pinned.config
        /\ art.tokenizer = Pinned.tokenizer
        /\ q[1] = Pinned.prompt /\ q[2] = Pinned.gen_toks
    BY <1>2 DEF NamesPinnedRun, Files, HashKey
  <2>2. /\ PinnedFiles.weights = Pinned.weights /\ PinnedFiles.config = Pinned.config
        /\ PinnedFiles.tokenizer = Pinned.tokenizer
    BY DEF PinnedFiles, Files
  <2>3. r = Claim(art, Pinned.config, Pinned.prompt, pids, Pinned.gen_toks, plog)
    BY <1>1, <2>1
  <2>4. r = Claim(PinnedFiles, Pinned.config, Pinned.prompt, pids, Pinned.gen_toks, plog)
    BY <2>1, <2>2, <2>3, ClaimIs
  <2>5. r = PinnedReceipt
    BY <2>4, PinnedIs
  <2> QED
    BY <2>5 DEF OffPinned
<1> QED
  BY <1>2, <1>4, <1>5, <1>6, <1>7

\* check fails no receipt of a run that generated a token, given the files it
\* names or none.
THEOREM CheckPassesHonest == Spec => []HonestPasses
<1>1. CheckIsCurrent => HonestPasses
  <2> SUFFICES ASSUME CheckIsCurrent, report.command = "check", Untouched("a"),
                      report.config \subseteq {Parsed("a")["config-sha256"]},
                      report.tokenizer \subseteq {Parsed("a")["tokenizer-sha256"]}
               PROVE  report.passed
    BY DEF HonestPasses
  <2>1. PICK r \in Honest : docs["a"] = Render(r) /\ r["generated-token-ids"] # << >>
    BY DEF Untouched
  <2>2. Parses(docs["a"])
    BY <2>1, RenderedParse
  <2>3. Denoted(docs["a"].lines) = r /\ Parsed("a") = r
    BY <2>1, RenderedIsDenoted DEF Parsed
  <2>4. /\ report.config \in SUBSET {r["config-sha256"]}
        /\ report.tokenizer \in SUBSET {r["tokenizer-sha256"]}
    BY <2>3
  <2>5. /\ r["dtype"] = "fp32"
        /\ Utf8(r["prompt-hex"])
        /\ r["table-digest"] = Table
        /\ CheckConfig(r, report.config) # "FAIL"
        /\ CheckTokenizer(r, report.tokenizer) # "FAIL"
        /\ CheckPinned(r) # "FAIL"
    BY <2>4, HonestFailsNothing
  <2>6. Passed(Check(docs["a"], report.config, report.tokenizer))
    BY <2>1, <2>2, <2>3, <2>5, PassedIs
  <2> QED
    BY <2>6 DEF CheckIsCurrent
<1> QED BY <1>1, CheckStays, PTL

-----------------------------------------------------------------------------
(***************************************************************************)
(* What check leaves open, and what it does not.                           *)
(***************************************************************************)
\* A passed question about the pinned run makes the receipt the pinned one.
LEMMA PinnedIsTrue ==
  ASSUME NEW r, CheckPinned(r) = "PASS"
  PROVE  /\ TrueReceipt(r)
         /\ r["inv-freq-table-digest"] = InvFreq(r["config-sha256"])
         /\ Encoding(r["tokenizer-sha256"], r["prompt-hex"]) = r["prompt-token-ids"]
         /\ r["table-digest"] = Table
<1>1. NamesPinnedRun(r) /\ OffPinned(r) = {}
  BY DEF CheckPinned, PassIf
<1>2. \A k \in KeySet \ {"spec-version"} : r[k] = PinnedReceipt[k]
  BY <1>1 DEF OffPinned
<1>3. Named(r) = PinnedFiles
  BY <1>1, PinnedIs DEF NamesPinnedRun, Named, PinnedFiles
<1>4. PinnedReceipt \in Run(Named(r), r["prompt-hex"], r["gen-toks"])
  BY <1>1, <1>3, PinnedIs DEF NamesPinnedRun
<1>5. TrueReceipt(r)
  BY <1>2, <1>4 DEF TrueReceipt
<1>6. {"inv-freq-table-digest", "config-sha256", "tokenizer-sha256", "prompt-hex",
       "prompt-token-ids", "table-digest"} \subseteq KeySet \ {"spec-version"}
  BY PartsCover DEF Inputs, Derived
<1>7. /\ r["config-sha256"] = Pinned.config /\ r["tokenizer-sha256"] = Pinned.tokenizer
      /\ r["prompt-hex"] = Pinned.prompt
  BY <1>1 DEF NamesPinnedRun, Files, HashKey
<1>8. /\ PinnedReceipt["inv-freq-table-digest"] = InvFreq(Pinned.config)
      /\ PinnedReceipt["prompt-token-ids"] = Encoding(Pinned.tokenizer, Pinned.prompt)
      /\ PinnedReceipt["table-digest"] = Table
  BY PinnedIs, ClaimIs
<1> QED
  BY <1>2, <1>5, <1>6, <1>7, <1>8

\* What residual leaves out was established by one question, or is pinned.
LEMMA ResidualLeaves ==
  ASSUME NEW text, NEW config, NEW tokenizer, Parses(text)
  PROVE  LET r == Denoted(text.lines)
             checks == Check(text, config, tokenizer)
         IN  /\ "inv-freq-table-digest" \notin Residual(checks) =>
                  CheckPinned(r) = "PASS" \/ CheckConfig(r, config) = "PASS"
             /\ "prompt-token-ids" \notin Residual(checks) =>
                  CheckPinned(r) = "PASS" \/ CheckTokenizer(r, tokenizer) = "PASS"
             /\ "table-digest" \notin Residual(checks) =>
                  CheckPinned(r) = "PASS" \/ r["table-digest"] = Table
             /\ Residual(checks) = {} => CheckPinned(r) = "PASS"
<1> DEFINE r == Denoted(text.lines)
           checks == Check(text, config, tokenizer)
           Passing == {p \in DOMAIN Establishes \cap DOMAIN checks : checks[p] = "PASS"}
<1>1. /\ DOMAIN checks = {"parse", "canonical", "dtype", "prompt", "table",
                          "inv_freq", "ids", "pinned"}
      /\ checks["table"] = PassIf(r["table-digest"] = Table)
      /\ checks["inv_freq"] = CheckConfig(r, config)
      /\ checks["ids"] = CheckTokenizer(r, tokenizer)
      /\ checks["pinned"] = CheckPinned(r)
  BY CheckFields
<1> HIDE DEF checks, r
<1>2. CASE checks["pinned"] = "PASS"
  BY <1>1, <1>2 DEF checks, r
<1>3. CASE checks["pinned"] # "PASS"
  <2>1. Residual(checks) = Outputs \cup (Checkable \ UNION {Establishes[q] : q \in Passing})
    BY <1>3 DEF Residual
  <2>2. Residual(checks) # {}
    BY <2>1 DEF Outputs
  <2>3. ASSUME NEW k \in Checkable, k \notin Residual(checks)
        PROVE  \E q \in {"inv_freq", "ids", "table"} : checks[q] = "PASS" /\ k \in Establishes[q]
    BY <2>1, <2>3 DEF Establishes
  <2>4. /\ Establishes["inv_freq"] = {"inv-freq-table-digest", "config-sha256"}
        /\ Establishes["ids"] = {"prompt-token-ids", "tokenizer-sha256"}
        /\ Establishes["table"] = {"table-digest"}
    BY DEF Establishes
  <2>5. {"inv-freq-table-digest", "prompt-token-ids", "table-digest"} \subseteq Checkable
    BY DEF Checkable
  <2>6. "inv-freq-table-digest" \notin Residual(checks) => checks["inv_freq"] = "PASS"
    BY <2>3, <2>4, <2>5
  <2>7. "prompt-token-ids" \notin Residual(checks) => checks["ids"] = "PASS"
    BY <2>3, <2>4, <2>5
  <2>8. "table-digest" \notin Residual(checks) => checks["table"] = "PASS"
    BY <2>3, <2>4, <2>5
  <2>9. checks["table"] = "PASS" => r["table-digest"] = Table
    BY <1>1 DEF PassIf
  <2> QED
    BY <1>1, <2>2, <2>6, <2>7, <2>8, <2>9 DEF checks, r
<1> QED
  BY <1>2, <1>3

\* A passed question about the config or the tokenizer is right.
LEMMA EstablishedIsRight ==
  ASSUME NEW r, NEW config, NEW tokenizer
  PROVE  /\ CheckConfig(r, config) = "PASS" =>
              r["inv-freq-table-digest"] = InvFreq(r["config-sha256"])
         /\ CheckTokenizer(r, tokenizer) = "PASS" =>
              Encoding(r["tokenizer-sha256"], r["prompt-hex"]) = r["prompt-token-ids"]
<1>1. /\ PinnedReceipt["inv-freq-table-digest"] = InvFreq(Pinned.config)
      /\ PinnedReceipt["prompt-token-ids"] = Encoding(Pinned.tokenizer, Pinned.prompt)
  BY PinnedIs, ClaimIs
<1>2. ASSUME CheckConfig(r, config) = "PASS"
      PROVE  r["inv-freq-table-digest"] = InvFreq(r["config-sha256"])
  <2>1. CASE config # {}
    <3>1. \A c \in config : c = r["config-sha256"] /\ InvFreq(c) = r["inv-freq-table-digest"]
      BY <1>2, <2>1 DEF CheckConfig, PassIf
    <3> QED
      BY <2>1, <3>1
  <2>2. CASE config = {}
    <3>1. /\ r["config-sha256"] = Pinned.config
          /\ r["inv-freq-table-digest"] = PinnedReceipt["inv-freq-table-digest"]
      BY <1>2, <2>2 DEF CheckConfig, PassIf
    <3> QED
      BY <1>1, <3>1
  <2> QED
    BY <2>1, <2>2
<1>3. ASSUME CheckTokenizer(r, tokenizer) = "PASS"
      PROVE  Encoding(r["tokenizer-sha256"], r["prompt-hex"]) = r["prompt-token-ids"]
  <2>1. CASE tokenizer # {}
    <3>1. \A t \in tokenizer : /\ t = r["tokenizer-sha256"]
                               /\ Encoding(t, r["prompt-hex"]) = r["prompt-token-ids"]
      BY <1>3, <2>1 DEF CheckTokenizer, PassIf
    <3> QED
      BY <2>1, <3>1
  <2>2. CASE tokenizer = {}
    <3>1. /\ r["tokenizer-sha256"] = Pinned.tokenizer /\ r["prompt-hex"] = Pinned.prompt
          /\ r["prompt-token-ids"] = PinnedReceipt["prompt-token-ids"]
      BY <1>3, <2>2 DEF CheckTokenizer, PassIf
    <3> QED
      BY <1>1, <3>1
  <2> QED
    BY <2>1, <2>2
<1> QED
  BY <1>2, <1>3

\* Whatever was done to a receipt that passes check: a field that residual does
\* not name is what the named artifacts give, and if it names none the receipt
\* is true.
THEOREM ResidualIsComplete == Spec => []ResidualIsHonest
<1>1. CheckIsCurrent => ResidualIsHonest
  <2> SUFFICES ASSUME CheckIsCurrent, report.command = "check", report.passed
               PROVE  LET r == Parsed("a")
                      IN  /\ "inv-freq-table-digest" \notin report.residual =>
                               r["inv-freq-table-digest"] = InvFreq(r["config-sha256"])
                          /\ "prompt-token-ids" \notin report.residual =>
                               Encoding(r["tokenizer-sha256"], r["prompt-hex"])
                                 = r["prompt-token-ids"]
                          /\ "table-digest" \notin report.residual => r["table-digest"] = Table
                          /\ report.residual = {} => TrueReceipt(r)
    BY DEF ResidualIsHonest
  <2> DEFINE r == Denoted(docs["a"].lines)
             checks == Check(docs["a"], report.config, report.tokenizer)
  <2>1. report.residual = Residual(checks) /\ Passed(checks)
    BY DEF CheckIsCurrent
  <2>2. Parses(docs["a"])
    BY <2>1, PassedIs
  <2>3. /\ "inv-freq-table-digest" \notin Residual(checks) =>
             CheckPinned(r) = "PASS" \/ CheckConfig(r, report.config) = "PASS"
        /\ "prompt-token-ids" \notin Residual(checks) =>
             CheckPinned(r) = "PASS" \/ CheckTokenizer(r, report.tokenizer) = "PASS"
        /\ "table-digest" \notin Residual(checks) =>
             CheckPinned(r) = "PASS" \/ r["table-digest"] = Table
        /\ Residual(checks) = {} => CheckPinned(r) = "PASS"
    BY <2>2, ResidualLeaves
  <2> HIDE DEF r, checks
  <2>4. Parsed("a") = r
    BY DEF Parsed, r
  <2> QED
    BY <2>1, <2>3, <2>4, PinnedIsTrue, EstablishedIsRight
<1> QED BY <1>1, CheckStays, PTL

-----------------------------------------------------------------------------
(***************************************************************************)
(* Disputes.                                                               *)
(***************************************************************************)
VerdictIsCurrent ==
  report.command = "compare" => report.verdict = Verdict(Parsed("a"), Parsed("b"))

LEMMA VerdictStays == Spec => []VerdictIsCurrent
<1>1. Init => VerdictIsCurrent
  BY DEF Init, VerdictIsCurrent, NoReport
<1>2. ASSUME VerdictIsCurrent, [Next]_vars PROVE VerdictIsCurrent'
  <2>1. ASSUME NEW x \in Parties, EditOf(x) PROVE VerdictIsCurrent'
    <3>1. report = NoReport /\ report' = report
      BY <2>1 DEF EditOf, SetValue, Respell, Exchange, Drop, Repeat, EndLines, Relabel, Edit
    <3> QED BY <3>1 DEF VerdictIsCurrent, NoReport
  <2>2. ASSUME NEW config, NEW tokenizer, CheckDoc(config, tokenizer) PROVE VerdictIsCurrent'
    BY <2>2 DEF CheckDoc, VerdictIsCurrent
  <2>3. CASE CompareDocs
    BY <2>3 DEF CompareDocs, VerdictIsCurrent, Parsed
  <2>4. CASE UNCHANGED vars
    BY <1>2, <2>4 DEF vars, VerdictIsCurrent, Parsed
  <2> QED BY <1>2, <2>1, <2>2, <2>3, <2>4 DEF Next
<1> QED BY <1>1, <1>2, PTL DEF Spec

\* What passes check with the files it names has the fields derived from them.
LEMMA DerivedFromFiles ==
  ASSUME NEW text,
         Passed(Check(text, {Denoted(text.lines)["config-sha256"]},
                            {Denoted(text.lines)["tokenizer-sha256"]}))
  PROVE  LET r == Denoted(text.lines)
         IN  /\ r["inv-freq-table-digest"] = InvFreq(r["config-sha256"])
             /\ r["prompt-token-ids"] = Encoding(r["tokenizer-sha256"], r["prompt-hex"])
             /\ r["table-digest"] = Table
<1> DEFINE r == Denoted(text.lines)
           config == {r["config-sha256"]}
           tokenizer == {r["tokenizer-sha256"]}
<1>1. /\ Utf8(r["prompt-hex"])
      /\ r["table-digest"] = Table
      /\ CheckConfig(r, config) # "FAIL"
      /\ CheckTokenizer(r, tokenizer) # "FAIL"
  BY PassedIs
<1> HIDE DEF r
<1>2. CheckConfig(r, config) = "PASS"
  BY <1>1 DEF CheckConfig, PassIf
<1>3. CheckTokenizer(r, tokenizer) = "PASS"
  BY <1>1 DEF CheckTokenizer, PassIf
<1> QED
  BY <1>1, <1>2, <1>3, EstablishedIsRight DEF r

\* Of two receipts that agree on what was run and differ in what follows from
\* it, check finds one wrong, and needs only the config and the tokenizer.
THEOREM DisputeIsSettled == Spec => []DisputeSettledByFiles
<1>1. VerdictIsCurrent => DisputeSettledByFiles
  <2> DEFINE r == Parsed("a")
             s == Parsed("b")
  <2> SUFFICES ASSUME VerdictIsCurrent, report.command = "compare",
                      report.verdict = "CONTRADICTION",
                      Differing(Derived, r, s) # {},
                      \A x \in Parties : Passed(Check(docs[x], {Parsed(x)["config-sha256"]},
                                                               {Parsed(x)["tokenizer-sha256"]}))
               PROVE  FALSE
    BY DEF DisputeSettledByFiles
  <2>1. Verdict(r, s) = "CONTRADICTION"
    BY DEF VerdictIsCurrent
  <2>2. \A k \in Inputs : r[k] = s[k]
    BY <2>1 DEF Verdict, Differing
  <2>3. \A x \in Parties :
          /\ Parsed(x)["inv-freq-table-digest"] = InvFreq(Parsed(x)["config-sha256"])
          /\ Parsed(x)["prompt-token-ids"]
               = Encoding(Parsed(x)["tokenizer-sha256"], Parsed(x)["prompt-hex"])
          /\ Parsed(x)["table-digest"] = Table
    BY DerivedFromFiles DEF Parsed
  <2>4. "a" \in Parties /\ "b" \in Parties
    BY DEF Parties
  <2>5. \A k \in {"config-sha256", "tokenizer-sha256", "prompt-hex"} : r[k] = s[k]
    BY <2>2 DEF Inputs
  <2>6. \A k \in Derived : r[k] = s[k]
    BY <2>3, <2>4, <2>5 DEF Derived
  <2> QED
    BY <2>6 DEF Differing
<1> QED BY <1>1, VerdictStays, PTL
=============================================================================
