-------------------------- MODULE TokenizersProofs --------------------------
(***************************************************************************)
(* Proofs about BpeQueue and about Tokenizers, which has it run before     *)
(* BpeRescan, for every tokenizer file and every word.                     *)
(***************************************************************************)
EXTENDS Tokenizers, Induction, SequenceTheorems, TLAPS

-----------------------------------------------------------------------------
(* Slices of a word.                                                       *)

LEMMA SliceType ==
  ASSUME NEW w \in Seq(Char), NEW p \in 1 .. Len(w) + 1, NEW q \in p .. Len(w) + 1
  PROVE  Slice(w, p, q) \in Seq(Char) /\ Len(Slice(w, p, q)) = q - p
<1>1. \A i \in p .. q - 1 : w[i] \in Char
  BY ElementOfSeq
<1> QED
  BY <1>1, SubSeqProperties DEF Slice

LEMMA SliceConcat ==
  ASSUME NEW w \in Seq(Char), NEW p \in 1 .. Len(w) + 1,
         NEW q \in p .. Len(w) + 1, NEW r \in q .. Len(w) + 1
  PROVE  Slice(w, p, q) \o Slice(w, q, r) = Slice(w, p, r)
<1>1. q - 1 \in p - 1 .. Len(w) /\ r - 1 \in q - 1 .. Len(w)
  OBVIOUS
<1>2. SubSeq(w, p, q - 1) \o SubSeq(w, (q - 1) + 1, r - 1) = SubSeq(w, p, r - 1)
  BY <1>1, ConcatAdjacentSubSeq, Zenon
<1>3. (q - 1) + 1 = q
  OBVIOUS
<1> QED
  BY <1>2, <1>3 DEF Slice

LEMMA SliceChar ==
  ASSUME NEW w \in Seq(Char), NEW p \in 1 .. Len(w)
  PROVE  Slice(w, p, p + 1) = <<w[p]>>
<1>1. Slice(w, p, p + 1) = SubSeq(w, p, p)
  BY DEF Slice
<1>2. \A i \in p .. p : w[i] \in Char
  BY ElementOfSeq
<1>3. /\ SubSeq(w, p, p) \in Seq(Char)
      /\ Len(SubSeq(w, p, p)) = 1
      /\ SubSeq(w, p, p)[1] = w[p]
  BY <1>2, SubSeqProperties
<1> QED
  BY <1>1, <1>3

LEMMA SliceEnd ==
  ASSUME NEW w \in Seq(Char), NEW p \in 1 .. Len(w) + 1,
         NEW q \in p .. Len(w) + 1, NEW r \in p .. Len(w) + 1,
         Slice(w, p, q) = Slice(w, p, r)
  PROVE  q = r
BY SliceType

-----------------------------------------------------------------------------
(* The vocabulary and the merge table of a file that loads.                *)

LEMMA VocabFacts ==
  ASSUME NEW f \in Files, LoadOk(f)
  PROVE  /\ DOMAIN VocabOf(f) = Names(f)
         /\ Names(f) \subseteq Seq(Char)
         /\ \A s, t \in Names(f) : VocabOf(f)[s] = VocabOf(f)[t] => s = t
<1> DEFINE Place(s) == CHOOSE k \in DOMAIN f.vocab : f.vocab[k][1] = s
<1>0. \A k \in DOMAIN f.vocab : f.vocab[k] \in Seq(Char) \X Nat
  BY FilesAssumption, ElementOfSeq, LenProperties
<1>1. Names(f) \subseteq Seq(Char)
  BY <1>0 DEF Names
<1>2. \A s \in Names(f) : Place(s) \in DOMAIN f.vocab /\ f.vocab[Place(s)][1] = s
  BY DEF Names
<1>3. \A s \in Names(f) : VocabOf(f)[s] = f.vocab[Place(s)][2]
  BY DEF VocabOf
<1>4. ASSUME NEW s \in Names(f), NEW t \in Names(f), VocabOf(f)[s] = VocabOf(f)[t]
      PROVE  s = t
  <2>1. f.vocab[Place(s)][2] = f.vocab[Place(t)][2]
    BY <1>3, <1>4
  <2>2. Place(s) = Place(t)
    BY <2>1, <1>2 DEF LoadOk
  <2> QED
    BY <2>2, <1>2
<1> QED
  BY <1>1, <1>4 DEF VocabOf

LEMMA TableFacts ==
  ASSUME NEW f \in Files, LoadOk(f),
         NEW pair \in DOMAIN MergeTable(VocabOf(f), f.merges)
  PROVE  LET v == VocabOf(f)
             table == MergeTable(v, f.merges)
             i == table[pair].rank
         IN
         /\ i \in DOMAIN f.merges
         /\ IdPair(v, f.merges, i) = pair
         /\ \A j \in DOMAIN f.merges : IdPair(v, f.merges, j) = pair => i <= j
         /\ f.merges[i][1] \in DOMAIN v
         /\ f.merges[i][2] \in DOMAIN v
         /\ f.merges[i][1] \o f.merges[i][2] \in DOMAIN v
         /\ table[pair].id = v[f.merges[i][1] \o f.merges[i][2]]
         /\ table[pair] = [rank |-> i, id |-> table[pair].id]
<1> DEFINE list == f.merges
           v == VocabOf(f)
           table == MergeTable(v, list)
           i == FirstRank(v, list, pair)
           S == {k \in DOMAIN list : IdPair(v, list, k) = pair}
<1>1. DOMAIN table = {IdPair(v, list, k) : k \in DOMAIN list}
  BY DEF MergeTable
<1>2. S # {} /\ S \in SUBSET Nat
  <2>1. DOMAIN list \subseteq Nat
    BY FilesAssumption, LenProperties
  <2> QED
    BY <1>1, <2>1
<1>3. PICK k \in S : \A j \in S : k <= j
  BY <1>2, LeastNat
<1>4. /\ i \in DOMAIN list
      /\ IdPair(v, list, i) = pair
      /\ \A j \in DOMAIN list : IdPair(v, list, j) = pair => i <= j
  BY <1>3 DEF FirstRank
<1>5. table[pair] = [rank |-> i, id |-> v[list[i][1] \o list[i][2]]]
  BY <1>1 DEF MergeTable
<1>6. DOMAIN v = Names(f)
  BY VocabFacts
<1>7. {list[i][1], list[i][2], list[i][1] \o list[i][2]} \subseteq Names(f)
  BY <1>4 DEF LoadOk
<1> QED
  BY <1>4, <1>5, <1>6, <1>7

\* Every listed pair of strings has an entry in the table.
LEMMA TableComplete ==
  ASSUME NEW f \in Files, LoadOk(f), NEW i \in DOMAIN f.merges
  PROVE  IdPair(VocabOf(f), f.merges, i) \in DOMAIN MergeTable(VocabOf(f), f.merges)
BY DEF MergeTable

-----------------------------------------------------------------------------
(* The inductive invariant.                                                *)

\* The inputs do not change, and a tokenizer exists only for a good file.
Context ==
  /\ file \in Files
  /\ word \in Words
  /\ pc \in {"seed", "merge", "done"} => LoadOk(file)

\* Why a stale candidate cannot pass: e was queued for the texts [pos, q) and
\* [q, r), and since then the symbol at its position either swallowed the
\* second text, or still ends at q with a right neighbour that only grew.
CandidateOk(sym, e) ==
  \E q, r \in 1 .. Len(word) + 1 :
    LET left  == Slice(word, e.pos, q)
        right == Slice(word, q, r)
        pair  == <<vocab[left], vocab[right]>>
    IN  /\ e.pos < q
        /\ q < r
        /\ left \in DOMAIN vocab
        /\ right \in DOMAIN vocab
        /\ pair \in DOMAIN merges
        /\ e.rank = merges[pair].rank
        /\ e.new_id = merges[pair].id
        /\ sym[e.pos].len > 0 =>
             \/ End(sym, e.pos) >= r
             \/ End(sym, e.pos) = q /\ q <= Len(word) /\ End(sym, q) >= r

QueueSound == pc \in {"merge", "done"} => \A e \in queue : CandidateOk(symbols, e)

IInv == TypeOK /\ Context /\ ListSound /\ QueueComplete /\ QueueSound

\* The tables of a loaded tokenizer.
Tables ==
  /\ file \in Files
  /\ word \in Seq(Char)
  /\ LoadOk(file)
  /\ vocab = VocabOf(file)
  /\ merges = MergeTable(vocab, file.merges)

\* A pair of known strings that has a merge merges into the id of their
\* concatenation.
LEMMA MergedId ==
  ASSUME Tables, NEW s \in DOMAIN vocab, NEW t \in DOMAIN vocab,
         <<vocab[s], vocab[t]>> \in DOMAIN merges
  PROVE  /\ s \o t \in DOMAIN vocab
         /\ merges[<<vocab[s], vocab[t]>>].id = vocab[s \o t]
         /\ merges[<<vocab[s], vocab[t]>>].rank \in DOMAIN file.merges
         /\ file.merges[merges[<<vocab[s], vocab[t]>>].rank] = <<s, t>>
<1> DEFINE pair == <<vocab[s], vocab[t]>>
           i == merges[pair].rank
           l == file.merges[i][1]
           r == file.merges[i][2]
<1>1. /\ i \in DOMAIN file.merges
      /\ IdPair(vocab, file.merges, i) = pair
      /\ l \in DOMAIN vocab
      /\ r \in DOMAIN vocab
      /\ l \o r \in DOMAIN vocab
      /\ merges[pair].id = vocab[l \o r]
  <2>1. file \in Files /\ LoadOk(file) /\ pair \in DOMAIN MergeTable(VocabOf(file), file.merges)
    BY DEF Tables
  <2>2. vocab = VocabOf(file) /\ merges = MergeTable(VocabOf(file), file.merges)
    BY DEF Tables
  <2> HIDE DEF pair
  <2> QED
    BY <2>1, <2>2, TableFacts, ZenonT(60)
<1>2. vocab[l] = vocab[s] /\ vocab[r] = vocab[t]
  BY <1>1 DEF IdPair
<1>3. l = s /\ r = t
  BY <1>1, <1>2, VocabFacts DEF Tables
<1>4. file.merges[i] \in Seq(Char) \X Seq(Char)
  BY <1>1, FilesAssumption, ElementOfSeq, LenProperties DEF Tables
<1>5. file.merges[i] = <<l, r>>
  BY <1>4
<1> QED
  BY <1>1, <1>3, <1>5

\* What a live symbol's forward link says.
LEMMA Forward ==
  ASSUME Tables, NEW sym \in [1 .. Len(word) -> SymbolSet], ListOk(sym),
         NEW p \in Live(sym), sym[p].next # None
  PROVE  LET q == sym[p].next IN
         /\ p \in 1 .. Len(word)
         /\ q = End(sym, p)
         /\ q \in Live(sym)
         /\ q \in 1 .. Len(word)
         /\ p < q
         /\ q < End(sym, q)
         /\ End(sym, q) \in 1 .. Len(word) + 1
         /\ sym[q].prev = p
         /\ Slice(word, p, q) \in DOMAIN vocab
         /\ sym[p].id = vocab[Slice(word, p, q)]
         /\ Slice(word, q, End(sym, q)) \in DOMAIN vocab
         /\ sym[q].id = vocab[Slice(word, q, End(sym, q))]
         /\ Slice(word, p, q) \o Slice(word, q, End(sym, q)) = Slice(word, p, End(sym, q))
<1> DEFINE q == sym[p].next
<1>0. Len(word) \in Nat /\ DOMAIN sym = 1 .. Len(word)
  BY LenProperties DEF Tables
<1>1. p \in 1 .. Len(word) /\ SymbolOk(sym, p) /\ sym[p].len \in 1 .. Len(word)
  BY <1>0 DEF Live, ListOk, SymbolSet
<1>2. q = End(sym, p) /\ sym[q].len > 0 /\ sym[q].prev = p /\ q <= Len(word)
  <2>1. End(sym, p) # Len(word) + 1
    BY <1>1 DEF SymbolOk
  <2>2. q = End(sym, p) /\ sym[q].len > 0 /\ sym[q].prev = p
    BY <1>1, <2>1 DEF SymbolOk
  <2>3. End(sym, p) \in Int /\ End(sym, p) <= Len(word) + 1
    BY <1>0, <1>1 DEF SymbolOk, End
  <2> QED
    BY <1>0, <2>1, <2>2, <2>3
<1>3. q \in 1 .. Len(word) /\ p < q
  BY <1>0, <1>1, <1>2 DEF End
<1>4. q \in Live(sym) /\ sym[q].len \in 1 .. Len(word)
  BY <1>0, <1>2, <1>3 DEF Live, SymbolSet
<1>5. SymbolOk(sym, q)
  BY <1>4 DEF ListOk
<1>6. q < End(sym, q) /\ End(sym, q) \in 1 .. Len(word) + 1
  <2> DEFINE l == sym[q].len
  <2>1. End(sym, q) <= Len(word) + 1
    BY <1>5, Zenon DEF SymbolOk
  <2>2. End(sym, q) = q + l /\ l \in 1 .. Len(word)
    BY <1>4 DEF End
  <2> HIDE DEF l
  <2> QED
    BY <1>0, <1>3, <2>1, <2>2
<1>7. Slice(word, p, q) \o Slice(word, q, End(sym, q)) = Slice(word, p, End(sym, q))
  <2>1. /\ word \in Seq(Char)
        /\ p \in 1 .. Len(word) + 1
        /\ q \in p .. Len(word) + 1
        /\ End(sym, q) \in q .. Len(word) + 1
    BY <1>0, <1>1, <1>3, <1>6 DEF Tables
  <2> QED
    BY <2>1, SliceConcat
<1> QED
  BY <1>1, <1>2, <1>3, <1>4, <1>5, <1>6, <1>7 DEF SymbolOk

LEMMA NextIsEnd ==
  ASSUME Tables, NEW sym \in [1 .. Len(word) -> SymbolSet], ListOk(sym),
         NEW p \in Live(sym), sym[p].next # None
  PROVE  sym[p].next = End(sym, p)
BY Forward

\* A fresh candidate is sound.
LEMMA CandidateSound ==
  ASSUME Tables, NEW sym \in [1 .. Len(word) -> SymbolSet], ListOk(sym),
         NEW p \in Live(sym), NEW e \in Candidate(sym, p)
  PROVE  e \in CandidateSet /\ CandidateOk(sym, e) /\ e.pos = p
<1> DEFINE q == sym[p].next
           r == End(sym, q)
           pair == <<sym[p].id, sym[q].id>>
<1>1. /\ sym[p].next # None
      /\ pair \in DOMAIN merges
      /\ e = [rank |-> merges[pair].rank, pos |-> p, new_id |-> merges[pair].id]
  BY DEF Candidate
<1>2. /\ p \in 1 .. Len(word)
      /\ q = End(sym, p)
      /\ q \in 1 .. Len(word)
      /\ p < q
      /\ q < r
      /\ r \in 1 .. Len(word) + 1
      /\ Slice(word, p, q) \in DOMAIN vocab
      /\ sym[p].id = vocab[Slice(word, p, q)]
      /\ Slice(word, q, r) \in DOMAIN vocab
      /\ sym[q].id = vocab[Slice(word, q, r)]
  BY <1>1, Forward
<1>3. /\ merges[pair].rank \in DOMAIN file.merges
      /\ merges[pair].id \in Ids
  BY <1>1, <1>2, MergedId, SMTT(30) DEF Ids
<1>4. e \in CandidateSet
  BY <1>1, <1>2, <1>3 DEF CandidateSet
<1>5. CandidateOk(sym, e)
  <2> DEFINE left == Slice(word, e.pos, q)
             right == Slice(word, q, r)
  <2>1. e.pos = p /\ e.rank = merges[pair].rank /\ e.new_id = merges[pair].id
    BY <1>1
  <2>2. pair = <<vocab[left], vocab[right]>>
    BY <2>1, <1>2
  <2>3. q \in 1 .. Len(word) + 1 /\ q <= Len(word) /\ r >= r
    BY <1>2, LenProperties DEF Tables
  <2> QED
    BY <1>1, <1>2, <2>1, <2>2, <2>3 DEF CandidateOk
<1> QED
  BY <1>1, <1>4, <1>5

\* The heart of the matter: a candidate that passes the re-validation is the
\* candidate of the pair that stands at its position now.
LEMMA ValidCandidate ==
  ASSUME Tables, symbols \in [1 .. Len(word) -> SymbolSet], ListOk(symbols),
         NEW e \in CandidateSet, CandidateOk(symbols, e), StillValid(e)
  PROVE  /\ e.pos \in Live(symbols)
         /\ symbols[e.pos].next # None
         /\ e \in Candidate(symbols, e.pos)
<1> DEFINE p == e.pos
           q0 == symbols[p].next
           r0 == End(symbols, q0)
           pair0 == <<symbols[p].id, symbols[q0].id>>
<1>1. /\ p \in Live(symbols)
      /\ q0 # None
      /\ pair0 \in DOMAIN merges
      /\ merges[pair0].id = e.new_id
  BY DEF StillValid, Live, CandidateSet, SymbolSet
<1>2. /\ p \in 1 .. Len(word)
      /\ q0 = End(symbols, p)
      /\ q0 \in 1 .. Len(word)
      /\ p < q0
      /\ q0 < r0
      /\ r0 \in 1 .. Len(word) + 1
      /\ Slice(word, p, q0) \in DOMAIN vocab
      /\ symbols[p].id = vocab[Slice(word, p, q0)]
      /\ Slice(word, q0, r0) \in DOMAIN vocab
      /\ symbols[q0].id = vocab[Slice(word, q0, r0)]
      /\ Slice(word, p, q0) \o Slice(word, q0, r0) = Slice(word, p, r0)
  BY <1>1, Forward
<1>3. e.new_id = vocab[Slice(word, p, r0)] /\ Slice(word, p, r0) \in DOMAIN vocab
  BY <1>1, <1>2, MergedId, ZenonT(60)
<1>4. PICK q \in 1 .. Len(word) + 1, r \in 1 .. Len(word) + 1 :
        /\ p < q
        /\ q < r
        /\ Slice(word, p, q) \in DOMAIN vocab
        /\ Slice(word, q, r) \in DOMAIN vocab
        /\ <<vocab[Slice(word, p, q)], vocab[Slice(word, q, r)]>> \in DOMAIN merges
        /\ e.rank = merges[<<vocab[Slice(word, p, q)], vocab[Slice(word, q, r)]>>].rank
        /\ e.new_id = merges[<<vocab[Slice(word, p, q)], vocab[Slice(word, q, r)]>>].id
        /\ symbols[p].len > 0 =>
             \/ End(symbols, p) >= r
             \/ End(symbols, p) = q /\ q <= Len(word) /\ End(symbols, q) >= r
  BY DEF CandidateOk
<1>5. /\ word \in Seq(Char) /\ Len(word) \in Nat
      /\ p \in 1 .. Len(word) + 1
      /\ q \in p .. Len(word) + 1
      /\ r \in q .. Len(word) + 1
      /\ r \in p .. Len(word) + 1
      /\ r0 \in p .. Len(word) + 1
  BY <1>2, <1>4, LenProperties DEF Tables
<1>6. Slice(word, p, q) \o Slice(word, q, r) = Slice(word, p, r)
  BY <1>5, SliceConcat
<1>7. e.new_id = vocab[Slice(word, p, r)] /\ Slice(word, p, r) \in DOMAIN vocab
  BY <1>4, <1>6, MergedId
<1>8. Slice(word, p, r) = Slice(word, p, r0)
  BY <1>3, <1>7, VocabFacts DEF Tables
<1>9. r = r0
  BY <1>5, <1>8, SliceEnd
<1>10. q = q0
  <2>1. symbols[p].len > 0
    BY <1>1 DEF Live
  <2>2. ~ (End(symbols, p) >= r)
    BY <1>2, <1>5, <1>9
  <2> QED
    BY <2>1, <2>2, <1>2, <1>4
<1>11. e = [rank |-> merges[pair0].rank, pos |-> p, new_id |-> merges[pair0].id]
  BY <1>1, <1>2, <1>4, <1>9, <1>10 DEF CandidateSet
<1> QED
  BY <1>1, <1>11 DEF Candidate

\* Merging two neighbours keeps the list sound.
IsJoined(sym, old, p) ==
  /\ sym \in [1 .. Len(word) -> SymbolSet]
  /\ Live(sym) = Live(old) \ {old[p].next}
  /\ End(sym, p) = End(old, old[p].next)
  /\ \A c \in Live(sym) \ {p} : sym[c].id = old[c].id /\ End(sym, c) = End(old, c)
  /\ ListOk(sym)

LEMMA JoinedSound ==
  ASSUME Tables, symbols \in [1 .. Len(word) -> SymbolSet], ListOk(symbols),
         NEW p \in Live(symbols), symbols[p].next # None, NEW id,
         <<symbols[p].id, symbols[symbols[p].next].id>> \in DOMAIN merges,
         merges[<<symbols[p].id, symbols[symbols[p].next].id>>].id = id,
         NEW sym, sym = Joined(p, id)
  PROVE  IsJoined(sym, symbols, p)
<1> DEFINE q == symbols[p].next
           r == End(symbols, q)
           n == Len(word)
<1>0. n \in Nat /\ DOMAIN symbols = 1 .. n
  BY LenProperties DEF Tables
<1>1. /\ p \in 1 .. n
      /\ q = End(symbols, p)
      /\ q \in Live(symbols)
      /\ q \in 1 .. n
      /\ p < q
      /\ q < r
      /\ r \in 1 .. n + 1
      /\ Slice(word, p, q) \in DOMAIN vocab
      /\ symbols[p].id = vocab[Slice(word, p, q)]
      /\ Slice(word, q, r) \in DOMAIN vocab
      /\ symbols[q].id = vocab[Slice(word, q, r)]
      /\ Slice(word, p, q) \o Slice(word, q, r) = Slice(word, p, r)
      /\ symbols[q].prev = p
  BY Forward
<1>2. Slice(word, p, r) \in DOMAIN vocab /\ id = vocab[Slice(word, p, r)]
  BY <1>1, MergedId
<1>3. SymbolOk(symbols, p) /\ SymbolOk(symbols, q)
  BY <1>1 DEF ListOk
<1>4. symbols[q].next = IF r = n + 1 THEN None ELSE r
  BY <1>3 DEF SymbolOk
<1>5. \A k \in 1 .. n : /\ symbols[k] \in SymbolSet
                        /\ symbols[k].id \in Ids /\ symbols[k].prev \in 0 .. n
                        /\ symbols[k].next \in 0 .. n /\ symbols[k].len \in 0 .. n
  BY DEF SymbolSet
<1>6. /\ DOMAIN sym = 1 .. n
      /\ sym[p].id = id
      /\ sym[p].prev = symbols[p].prev
      /\ sym[p].next = symbols[q].next
      /\ sym[p].len = symbols[p].len + symbols[q].len
      /\ sym[q].len = 0
      /\ r # n + 1 => /\ sym[r].id = symbols[r].id
                      /\ sym[r].prev = p
                      /\ sym[r].next = symbols[r].next
                      /\ sym[r].len = symbols[r].len
      /\ \A k \in 1 .. n : k # p /\ k # q /\ k # r =>
           /\ sym[k].id = symbols[k].id
           /\ sym[k].prev = symbols[k].prev
           /\ sym[k].next = symbols[k].next
           /\ sym[k].len = symbols[k].len
  <2>1. r # p /\ r # q /\ p # q
    BY <1>1
  <2>2. \A k \in 1 .. n :
          /\ sym[k].id = IF k = p THEN id ELSE symbols[k].id
          /\ sym[k].prev = IF k = symbols[q].next THEN p ELSE symbols[k].prev
          /\ sym[k].next = IF k = p THEN symbols[q].next ELSE symbols[k].next
          /\ sym[k].len = IF k = p THEN symbols[p].len + symbols[q].len
                          ELSE IF k = q THEN 0 ELSE symbols[k].len
    BY <1>0, <1>1, <1>5 DEF Joined
  <2>3. r # n + 1 => r \in 1 .. n /\ symbols[q].next = r
    BY <1>0, <1>1, <1>4
  <2>4. r = n + 1 => symbols[q].next = 0
    BY <1>4 DEF None
  <2>5. p # symbols[q].next
    BY <2>1, <2>3, <2>4, <1>0, <1>1
  <2> QED
    BY <1>0, <1>1, <2>1, <2>2, <2>3, <2>4, <2>5 DEF Joined
<1>7. End(sym, p) = r
  <2> DEFINE a == symbols[p].len
             b == symbols[q].len
  <2>1. a \in Int /\ b \in Int /\ p \in Int
    BY <1>1, <1>5
  <2>2. q = p + a /\ r = q + b
    BY <1>1 DEF End
  <2>3. End(sym, p) = p + (a + b)
    BY <1>6 DEF End
  <2> HIDE DEF a, b, q, r
  <2> QED
    BY <2>1, <2>2, <2>3
<1>8. \A k \in 1 .. n : k # p /\ k # q => sym[k].len = symbols[k].len /\ sym[k].id = symbols[k].id
                                       /\ sym[k].next = symbols[k].next
                                       /\ (k # r => sym[k].prev = symbols[k].prev)
  BY <1>1, <1>6
<1>9. Live(sym) = Live(symbols) \ {q}
  <2>1. \A k \in 1 .. n : sym[k].len > 0 <=> symbols[k].len > 0 /\ k # q
    <3>1. sym[p].len > 0 /\ symbols[p].len > 0
      BY <1>0, <1>1, <1>5, <1>6 DEF Live
    <3> QED
      BY <1>1, <1>6, <1>8, <3>1
  <2> QED
    BY <2>1, <1>0, <1>6 DEF Live
<1>10. sym \in [1 .. n -> SymbolSet]
  <2>1. id \in Ids
    BY <1>2 DEF Ids
  <2>2. symbols[p].len + symbols[q].len \in 0 .. n
    <3>1. p + (symbols[p].len + symbols[q].len) = r
      BY <1>6, <1>7 DEF End
    <3>2. symbols[p].len \in 0 .. n /\ symbols[q].len \in 0 .. n
      BY <1>1, <1>5
    <3> QED
      BY <1>0, <1>1, <3>1, <3>2
  <2>3. p \in 0 .. n /\ 0 \in 0 .. n /\ symbols[q].next \in 0 .. n
    BY <1>0, <1>1, <1>5
  <2>4. \A k \in 1 .. n : /\ (IF k = p THEN id ELSE symbols[k].id) \in Ids
                          /\ (IF k = symbols[q].next THEN p ELSE symbols[k].prev) \in 0 .. n
                          /\ (IF k = p THEN symbols[q].next ELSE symbols[k].next) \in 0 .. n
                          /\ (IF k = p THEN symbols[p].len + symbols[q].len
                              ELSE IF k = q THEN 0 ELSE symbols[k].len) \in 0 .. n
    BY <1>5, <2>1, <2>2, <2>3
  <2> QED
    BY <1>0, <2>4 DEF Joined, SymbolSet
<1>11. \A c \in Live(sym) \ {p} : sym[c].id = symbols[c].id /\ End(sym, c) = End(symbols, c)
  BY <1>0, <1>6, <1>8, <1>9 DEF End, Live
<1>12. SymbolOk(sym, p)
  <2>1. \A c \in p + 1 .. r - 1 : sym[c].len = 0
    <3> SUFFICES ASSUME NEW c \in p + 1 .. r - 1, c # q PROVE sym[c].len = 0
      BY <1>0, <1>1, <1>6
    <3>1. c \in 1 .. n /\ c # p /\ (c \in p + 1 .. q - 1 \/ c \in q + 1 .. r - 1)
      BY <1>0, <1>1
    <3>2. symbols[c].len = 0
      BY <1>1, <1>3, <3>1 DEF SymbolOk
    <3> QED
      BY <1>8, <3>1, <3>2
  <2>2. r # n + 1 => sym[p].next = r /\ sym[r].len > 0 /\ sym[r].prev = p
    BY <1>3, <1>4, <1>6 DEF SymbolOk
  <2>3. r = n + 1 => sym[p].next = None
    BY <1>4, <1>6
  <2>4. p # 1 => /\ sym[p].prev \in 1 .. p - 1
                 /\ sym[sym[p].prev].len > 0
                 /\ sym[sym[p].prev].next = p
    <3> SUFFICES ASSUME p # 1
                 PROVE  /\ sym[p].prev \in 1 .. p - 1
                        /\ sym[sym[p].prev].len > 0
                        /\ sym[sym[p].prev].next = p
      OBVIOUS
    <3>1. /\ symbols[p].prev \in 1 .. p - 1
          /\ symbols[symbols[p].prev].len > 0
          /\ symbols[symbols[p].prev].next = p
      BY <1>3 DEF SymbolOk
    <3>2. symbols[p].prev \in 1 .. n /\ symbols[p].prev # p /\ symbols[p].prev # q
      BY <1>0, <1>1, <3>1
    <3> QED
      BY <1>6, <1>8, <3>1, <3>2
  <2>5. p = 1 => sym[p].prev = None
    BY <1>3, <1>6 DEF SymbolOk
  <2> QED
    BY <1>1, <1>2, <1>6, <1>7, <2>1, <2>2, <2>3, <2>4, <2>5 DEF SymbolOk
<1>13. ASSUME NEW c \in Live(sym), c # p PROVE SymbolOk(sym, c)
  <2>1. c \in Live(symbols) /\ c # q /\ c \in 1 .. n /\ SymbolOk(symbols, c)
    BY <1>0, <1>9, <1>13 DEF ListOk, Live
  <2>2. End(sym, c) = End(symbols, c) /\ sym[c].id = symbols[c].id /\ sym[c].next = symbols[c].next
    BY <1>8, <1>11, <1>13, <2>1
  <2>3. End(symbols, c) \in 1 .. n + 1
    BY <1>0, <1>5, <2>1 DEF SymbolOk, End, Live
  <2>4. \A k \in c + 1 .. End(sym, c) - 1 : sym[k].len = 0
    <3> SUFFICES ASSUME NEW k \in c + 1 .. End(symbols, c) - 1 PROVE sym[k].len = 0
      BY <2>2
    <3>1. symbols[k].len = 0 /\ k \in 1 .. n
      BY <1>0, <2>1, <2>3 DEF SymbolOk
    <3>2. k # p
      BY <3>1 DEF Live
    <3> QED
      BY <1>6, <1>8, <3>1, <3>2
  <2>5. End(symbols, c) # n + 1 =>
          /\ symbols[c].next = End(symbols, c)
          /\ symbols[End(symbols, c)].len > 0
          /\ symbols[End(symbols, c)].prev = c
    BY <2>1 DEF SymbolOk
  <2>6. End(symbols, c) # n + 1 => /\ sym[c].next = End(sym, c)
                                   /\ sym[End(sym, c)].len > 0
                                   /\ sym[End(sym, c)].prev = c
    <3> SUFFICES ASSUME End(symbols, c) # n + 1
                 PROVE  /\ sym[End(symbols, c)].len > 0
                        /\ sym[End(symbols, c)].prev = c
      BY <2>2, <2>5
    <3> DEFINE d == End(symbols, c)
    <3>1. d \in 1 .. n /\ d # q
      BY <1>0, <1>1, <1>13, <2>3, <2>5
    <3>2. d # r
      <4>1. r # n + 1 => symbols[r].prev = q
        BY <1>3, <1>4 DEF SymbolOk
      <4> QED
        BY <4>1, <2>1, <2>5
    <3>3. CASE d = p
      BY <3>3, <1>0, <1>1, <1>5, <1>6, <2>5
    <3>4. CASE d # p
      BY <3>1, <3>2, <3>4, <1>8, <2>5
    <3> QED
      BY <3>3, <3>4
  <2>7. c # 1 => /\ sym[c].prev \in 1 .. c - 1
                 /\ sym[sym[c].prev].len > 0
                 /\ sym[sym[c].prev].next = c
    <3> SUFFICES ASSUME c # 1
                 PROVE  /\ sym[c].prev \in 1 .. c - 1
                        /\ sym[sym[c].prev].len > 0
                        /\ sym[sym[c].prev].next = c
      OBVIOUS
    <3>1. /\ symbols[c].prev \in 1 .. c - 1
          /\ symbols[symbols[c].prev].len > 0
          /\ symbols[symbols[c].prev].next = c
      BY <2>1 DEF SymbolOk
    <3>2. CASE c = r
      <4>1. sym[c].prev = p /\ p \in 1 .. c - 1 /\ r # n + 1
        BY <3>2, <2>1, <1>0, <1>1, <1>6
      <4>2. sym[p].len > 0 /\ sym[p].next = r
        BY <4>1, <1>0, <1>1, <1>4, <1>5, <1>6 DEF Live
      <4> QED
        BY <3>2, <4>1, <4>2
    <3>3. CASE c # r
      <4>1. sym[c].prev = symbols[c].prev
        BY <3>3, <1>8, <1>13, <2>1
      <4> DEFINE b == symbols[c].prev
      <4>2. b \in 1 .. n
        BY <1>0, <2>1, <3>1
      <4>3. b # p
        BY <2>1, <3>1
      <4>4. b # q
        <5>1. symbols[q].next = c => c = r
          BY <1>0, <1>4, <2>1 DEF None
        <5> QED
          BY <5>1, <3>1, <3>3
      <4> QED
        BY <1>8, <3>1, <4>1, <4>2, <4>3, <4>4
    <3> QED
      BY <3>2, <3>3
  <2>8. c = 1 => sym[c].prev = None
    <3>1. c = 1 => c # r
      BY <1>1
    <3> QED
      BY <3>1, <1>8, <1>13, <2>1 DEF SymbolOk
  <2>9. End(symbols, c) = n + 1 => sym[c].next = None
    BY <2>1, <2>2 DEF SymbolOk
  <2> QED
    BY <2>1, <2>2, <2>4, <2>6, <2>7, <2>8, <2>9 DEF SymbolOk
<1>14. word # << >> => sym[1].len > 0
  <2>1. word # << >> => symbols[1].len > 0 /\ 1 \in 1 .. n
    BY <1>0, EmptySeq DEF ListOk, Tables
  <2>2. 1 # q
    BY <1>1
  <2>3. word # << >> => 1 \in Live(symbols) \ {q}
    BY <2>1, <2>2, <1>0 DEF Live
  <2> QED
    BY <2>3, <1>9 DEF Live
<1> QED
  BY <1>7, <1>9, <1>10, <1>11, <1>12, <1>13, <1>14 DEF ListOk, IsJoined

-----------------------------------------------------------------------------
(* The steps.                                                              *)

LEMMA TablesHold ==
  ASSUME IInv, pc \in {"seed", "merge", "done"}
  PROVE  Tables
BY WordsAssumption DEF IInv, TypeOK, Context, Tables

\* The symbols encode_word starts from.
LEMMA SeedSound ==
  ASSUME Tables, \A p \in DOMAIN word : <<word[p]>> \in DOMAIN vocab,
         NEW sym, sym = InitialSymbols
  PROVE  sym \in [1 .. Len(word) -> SymbolSet] /\ ListOk(sym)
<1> DEFINE n == Len(word)
<1>0. DOMAIN word = 1 .. n /\ word \in Seq(Char)
  BY LenProperties DEF Tables
<1>n. n \in Nat
  BY LenProperties DEF Tables
<1>1. /\ \A p \in 1 .. n : sym[p].prev = p - 1
      /\ \A p \in 1 .. n : sym[p].next = IF p = n THEN 0 ELSE p + 1
      /\ \A p \in 1 .. n : sym[p].len = 1
  BY DEF InitialSymbols, None
<1>i. \A p \in 1 .. n : sym[p].id = vocab[<<word[p]>>]
  BY DEF InitialSymbols, None
<1>2. sym \in [1 .. n -> SymbolSet]
  <2>1. \A p \in 1 .. n : vocab[<<word[p]>>] \in Ids
    BY <1>0 DEF Ids
  <2>2. \A p \in 1 .. n : /\ p - 1 \in 0 .. n
                          /\ (IF p = n THEN 0 ELSE p + 1) \in 0 .. n
                          /\ 1 \in 0 .. n
    <3> HIDE DEF n
    <3> QED
      BY <1>n
  <2>3. \A p \in 1 .. n :
          [id |-> vocab[<<word[p]>>], prev |-> p - 1,
           next |-> IF p = n THEN 0 ELSE p + 1, len |-> 1] \in SymbolSet
    BY <2>1, <2>2 DEF SymbolSet
  <2>4. sym = [p \in 1 .. n |->
                 [id |-> vocab[<<word[p]>>], prev |-> p - 1,
                  next |-> IF p = n THEN 0 ELSE p + 1, len |-> 1]]
    BY DEF InitialSymbols, None
  <2> HIDE DEF n
  <2> QED
    BY <2>3, <2>4
<1>3. DOMAIN sym = 1 .. n
  BY DEF InitialSymbols
<1>4. ASSUME NEW p \in 1 .. n PROVE SymbolOk(sym, p)
  <2>1. End(sym, p) = p + 1
    BY <1>1 DEF End
  <2>2. Slice(word, p, End(sym, p)) = <<word[p]>>
    BY <1>0, <2>1, SliceChar
  <2>3. p = n => sym[p].next = 0
    BY <1>1
  <2>4. p # n => sym[p].next = p + 1 /\ sym[p + 1].len > 0 /\ sym[p + 1].prev = p
    <3> HIDE DEF n
    <3>1. p # n => p + 1 \in 1 .. n
      BY <1>n
    <3>2. \A k \in 1 .. n : sym[k].len = 1 /\ sym[k].prev = k - 1
      BY <1>1
    <3> QED
      BY <1>n, <1>1, <3>1, <3>2
  <2>5. p # 1 => /\ sym[p].prev \in 1 .. p - 1
                 /\ sym[sym[p].prev].len > 0
                 /\ sym[sym[p].prev].next = p
    <3> HIDE DEF n
    <3>1. p # 1 => p - 1 \in 1 .. n /\ p - 1 \in 1 .. p - 1 /\ p - 1 # n /\ (p - 1) + 1 = p
      BY <1>n
    <3> QED
      BY <1>n, <1>1, <3>1
  <2>6. p = 1 => sym[p].prev = 0
    BY <1>1
  <2>7. \A c \in p + 1 .. End(sym, p) - 1 : sym[c].len = 0
    <3> HIDE DEF n
    <3> QED
      BY <1>n, <2>1
  <2>8. End(sym, p) <= n + 1 /\ (End(sym, p) = n + 1 <=> p = n)
    <3> HIDE DEF n
    <3> QED
      BY <1>n, <2>1
  <2>9. <<word[p]>> \in DOMAIN vocab /\ sym[p].id = vocab[<<word[p]>>]
    BY <1>0, <1>i
  <2> QED
    BY <2>1, <2>2, <2>3, <2>4, <2>5, <2>6, <2>7, <2>8, <2>9 DEF SymbolOk, None
<1>5. word # << >> => sym[1].len > 0
  <2>1. word # << >> => 1 \in 1 .. n
    BY <1>0, <1>n, EmptySeq
  <2> HIDE DEF n
  <2> QED
    BY <1>1, <2>1
<1> QED
  BY <1>2, <1>3, <1>4, <1>5 DEF ListOk, Live

LEMMA SeedStep ==
  ASSUME IInv, Seed
  PROVE  IInv'
<1>1. Tables /\ pc = "seed" /\ pc' = "merge"
  BY TablesHold DEF Seed
<1>2. /\ file' = file /\ word' = word /\ vocab' = vocab /\ merges' = merges
      /\ symbols' = InitialSymbols
      /\ queue' = UNION {Candidate(symbols', p) : p \in DOMAIN symbols'}
  BY DEF Seed
<1>3. symbols' \in [1 .. Len(word) -> SymbolSet] /\ ListOk(symbols')
  BY <1>1, <1>2, SeedSound DEF Seed
<1>4. \A p \in DOMAIN symbols' : p \in Live(symbols')
  BY <1>2 DEF InitialSymbols, Live
<1>5. \A e \in queue' : e \in CandidateSet /\ CandidateOk(symbols', e)
  <2> SUFFICES ASSUME NEW e \in queue' PROVE e \in CandidateSet /\ CandidateOk(symbols', e)
    OBVIOUS
  <2>1. PICK p \in DOMAIN symbols' : e \in Candidate(symbols', p)
    BY <1>2
  <2> QED
    BY <1>1, <1>3, <1>4, <2>1, CandidateSound
<1>6. \A p \in Live(symbols') : Candidate(symbols', p) \subseteq queue'
  BY <1>2 DEF Live
<1>7. TypeOK'
  BY <1>1, <1>2, <1>3, <1>5 DEF IInv, TypeOK, SymbolSet, CandidateSet, Ids
<1>8. Context'
  BY <1>1, <1>2 DEF IInv, Context
<1>9. ListSound'
  BY <1>1, <1>2, <1>3 DEF ListSound, ListOk, SymbolOk, End
<1>10. QueueComplete'
  BY <1>1, <1>2, <1>6 DEF QueueComplete, Candidate
<1>11. QueueSound'
  BY <1>1, <1>2, <1>5 DEF QueueSound, CandidateOk, End
<1> QED
  BY <1>7, <1>8, <1>9, <1>10, <1>11 DEF IInv

LEMMA DiscardStep ==
  ASSUME IInv, NEW e \in queue, Discard(e)
  PROVE  IInv'
<1>1. /\ pc = "merge" /\ pc' = pc /\ file' = file /\ word' = word
      /\ vocab' = vocab /\ merges' = merges /\ symbols' = symbols
      /\ queue' = queue \ {e}
      /\ ~ StillValid(e)
  BY DEF Discard
<1>2. \A p \in Live(symbols) : e \notin Candidate(symbols, p)
  BY <1>1 DEF Candidate, StillValid, Live
<1>3. QueueComplete'
  BY <1>1, <1>2 DEF IInv, QueueComplete, Candidate
<1>4. TypeOK' /\ Context'
  BY <1>1 DEF IInv, TypeOK, Context, SymbolSet, CandidateSet, Ids
<1>5. ListSound'
  BY <1>1 DEF IInv, ListSound, ListOk, SymbolOk, End
<1>6. QueueSound'
  BY <1>1 DEF IInv, QueueSound, CandidateOk, End
<1> QED
  BY <1>3, <1>4, <1>5, <1>6 DEF IInv

\* What an applied candidate does to the list.
LEMMA ApplyFacts ==
  ASSUME IInv, NEW e \in queue, Apply(e)
  PROVE  /\ Tables
         /\ symbols \in [1 .. Len(word) -> SymbolSet] /\ ListOk(symbols)
         /\ e \in CandidateSet
         /\ e.pos \in Live(symbols)
         /\ symbols[e.pos].next # None
         /\ e \in Candidate(symbols, e.pos)
         /\ symbols' \in [1 .. Len(word) -> SymbolSet]
         /\ Live(symbols') = Live(symbols) \ {symbols[e.pos].next}
         /\ End(symbols', e.pos) = End(symbols, symbols[e.pos].next)
         /\ \A c \in Live(symbols') \ {e.pos} :
              symbols'[c].id = symbols[c].id /\ End(symbols', c) = End(symbols, c)
         /\ ListOk(symbols')
<1>1. pc = "merge" /\ StillValid(e) /\ symbols' = Joined(e.pos, e.new_id)
  BY DEF Apply
<1>2. /\ Tables
      /\ symbols \in [1 .. Len(word) -> SymbolSet] /\ ListOk(symbols)
      /\ e \in CandidateSet /\ CandidateOk(symbols, e)
  BY <1>1, TablesHold DEF IInv, TypeOK, ListSound, QueueSound
<1>3. /\ e.pos \in Live(symbols)
      /\ symbols[e.pos].next # None
      /\ e \in Candidate(symbols, e.pos)
  BY <1>1, <1>2, ValidCandidate
<1>4. /\ <<symbols[e.pos].id, symbols[symbols[e.pos].next].id>> \in DOMAIN merges
      /\ merges[<<symbols[e.pos].id, symbols[symbols[e.pos].next].id>>].id = e.new_id
  BY <1>1 DEF StillValid
<1>5. IsJoined(symbols', symbols, e.pos)
  BY <1>1, <1>2, <1>3, <1>4, JoinedSound, Zenon
<1> QED
  BY <1>2, <1>3, <1>5, Zenon DEF IsJoined

LEMMA ApplyStep ==
  ASSUME IInv, NEW e \in queue, Apply(e)
  PROVE  IInv'
<1> DEFINE p == e.pos
           q == symbols[p].next
<1>1. /\ pc = "merge" /\ pc' = pc /\ file' = file /\ word' = word
      /\ vocab' = vocab /\ merges' = merges
      /\ queue' = (queue \ {e}) \cup Created(symbols', p)
  BY DEF Apply
<1>2. /\ Tables
      /\ symbols \in [1 .. Len(word) -> SymbolSet] /\ ListOk(symbols)
      /\ e \in CandidateSet
      /\ p \in Live(symbols)
      /\ q # None
      /\ symbols' \in [1 .. Len(word) -> SymbolSet]
      /\ Live(symbols') = Live(symbols) \ {q}
      /\ End(symbols', p) = End(symbols, q)
      /\ \A c \in Live(symbols') \ {p} :
           symbols'[c].id = symbols[c].id /\ End(symbols', c) = End(symbols, c)
      /\ ListOk(symbols')
  BY ApplyFacts
<1>3. /\ p \in 1 .. Len(word)
      /\ q = End(symbols, p)
      /\ q \in Live(symbols)
      /\ p < q
      /\ q < End(symbols, q)
      /\ End(symbols, q) \in 1 .. Len(word) + 1
      /\ symbols[q].prev = p
  BY <1>2, Forward
<1>4. p \in Live(symbols')
  BY <1>2, <1>3
<1>5. Len(word) \in Nat /\ DOMAIN symbols = 1 .. Len(word) /\ DOMAIN symbols' = 1 .. Len(word)
  BY <1>2, LenProperties DEF Tables
<1>e. /\ \A c \in Live(symbols) : End(symbols, c) \in Int
      /\ \A c \in Live(symbols') : End(symbols', c) \in Int
  <2>1. ASSUME NEW f \in [1 .. Len(word) -> SymbolSet], NEW c \in Live(f)
        PROVE  End(f, c) \in Int
    <3>1. c \in 1 .. Len(word) /\ f[c].len \in 0 .. Len(word)
      BY DEF Live, SymbolSet
    <3>2. c \in Int /\ f[c].len \in Int
      BY <1>5, <3>1
    <3> QED
      BY <3>2 DEF End
  <2> QED
    BY <1>2, <2>1
<1>6. \A x \in Created(symbols', p) : x \in CandidateSet /\ CandidateOk(symbols', x)
  <2>1. symbols'[p].prev # None => symbols'[p].prev \in Live(symbols')
    <3>1. SymbolOk(symbols', p)
      BY <1>2, <1>4 DEF ListOk
    <3> QED
      BY <1>3, <1>5, <3>1 DEF SymbolOk, Live
  <2> SUFFICES ASSUME NEW x \in Created(symbols', p)
               PROVE  x \in CandidateSet /\ CandidateOk(symbols', x)
    OBVIOUS
  <2>2. PICK c \in Live(symbols') : x \in Candidate(symbols', c)
    BY <1>4, <2>1 DEF Created
  <2> QED
    BY <1>2, <2>2, CandidateSound
<1>7. ASSUME NEW x \in queue \ {e} PROVE CandidateOk(symbols', x)
  <2>1. CandidateOk(symbols, x) /\ x \in CandidateSet
    BY <1>1 DEF IInv, QueueSound, TypeOK
  <2>2. PICK y \in 1 .. Len(word) + 1, z \in 1 .. Len(word) + 1 :
          /\ x.pos < y
          /\ y < z
          /\ Slice(word, x.pos, y) \in DOMAIN vocab
          /\ Slice(word, y, z) \in DOMAIN vocab
          /\ <<vocab[Slice(word, x.pos, y)], vocab[Slice(word, y, z)]>> \in DOMAIN merges
          /\ x.rank = merges[<<vocab[Slice(word, x.pos, y)], vocab[Slice(word, y, z)]>>].rank
          /\ x.new_id = merges[<<vocab[Slice(word, x.pos, y)], vocab[Slice(word, y, z)]>>].id
          /\ symbols[x.pos].len > 0 =>
               \/ End(symbols, x.pos) >= z
               \/ End(symbols, x.pos) = y /\ y <= Len(word) /\ End(symbols, y) >= z
    BY <2>1 DEF CandidateOk
  <2>3. x.pos \in 1 .. Len(word)
    BY <2>1 DEF CandidateSet
  <2>4. symbols'[x.pos].len > 0 =>
          \/ End(symbols', x.pos) >= z
          \/ End(symbols', x.pos) = y /\ y <= Len(word) /\ End(symbols', y) >= z
    <3> SUFFICES ASSUME symbols'[x.pos].len > 0
                 PROVE  \/ End(symbols', x.pos) >= z
                        \/ End(symbols', x.pos) = y /\ y <= Len(word) /\ End(symbols', y) >= z
      OBVIOUS
    <3>1. x.pos \in Live(symbols') /\ x.pos \in Live(symbols) /\ x.pos # q
      BY <1>2, <1>5, <2>3 DEF Live
    <3>2. \/ End(symbols, x.pos) >= z
          \/ End(symbols, x.pos) = y /\ y <= Len(word) /\ End(symbols, y) >= z
      BY <2>2, <3>1 DEF Live
    <3>3. CASE x.pos = p
      <4>1. End(symbols', x.pos) = End(symbols, q)
        BY <1>2, <3>3
      <4>2. q < End(symbols, q) /\ q = End(symbols, x.pos)
        BY <1>3, <3>3
      <4>3. q \in Int /\ y \in Int /\ z \in Int /\ End(symbols, q) \in Int
        BY <1>3, <1>5, <2>2 DEF Live
      <4>4. CASE End(symbols, x.pos) >= z
        <5> HIDE DEF q
        <5> QED
          BY <4>1, <4>2, <4>3, <4>4
      <4>5. CASE End(symbols, x.pos) = y /\ End(symbols, y) >= z
        <5>1. End(symbols', x.pos) >= z
          BY <4>1, <4>2, <4>5
        <5> QED
          BY <5>1
      <4> QED
        BY <3>2, <4>4, <4>5
    <3>4. CASE x.pos # p
      <4>1. End(symbols', x.pos) = End(symbols, x.pos)
        BY <1>2, <3>1, <3>4
      <4>2. CASE End(symbols, x.pos) >= z
        BY <4>1, <4>2
      <4>3. CASE End(symbols, x.pos) = y /\ y <= Len(word) /\ End(symbols, y) >= z
        <5>1. y \in Live(symbols) /\ symbols[y].prev = x.pos
          <6>1. SymbolOk(symbols, x.pos)
            BY <1>2, <3>1 DEF ListOk
          <6>2. y # Len(word) + 1 /\ y \in 1 .. Len(word)
            BY <1>5, <4>3
          <6> QED
            BY <1>5, <4>3, <6>1, <6>2 DEF SymbolOk, Live
        <5>2. y # q
          BY <1>3, <3>4, <5>1
        <5>3. y \in Live(symbols')
          BY <1>2, <5>1, <5>2
        <5>4. End(symbols', y) >= End(symbols, y)
          <6>1. CASE y = p
            <7>1. End(symbols', y) = End(symbols, q) /\ End(symbols, y) = q
              BY <6>1, <1>2, <1>3
            <7>2. q \in Int /\ End(symbols, q) \in Int /\ q < End(symbols, q)
              BY <1>3, <1>5 DEF Live
            <7> HIDE DEF q
            <7> QED
              BY <7>1, <7>2
          <6>2. CASE y # p
            <7>1. End(symbols', y) = End(symbols, y)
              BY <1>2, <5>3, <6>2
            <7>2. End(symbols, y) \in Int
              BY <1>e, <5>1
            <7> QED
              BY <7>1, <7>2
          <6> QED
            BY <6>1, <6>2
        <5>5. End(symbols', y) \in Int /\ End(symbols, y) \in Int
          BY <1>e, <1>2, <5>1, <5>3
        <5> QED
          BY <4>1, <4>3, <5>4, <5>5
      <4> QED
        BY <3>2, <4>2, <4>3
    <3> QED
      BY <3>3, <3>4
  <2> QED
    BY <2>2, <2>4 DEF CandidateOk
<1>8. ASSUME NEW c \in Live(symbols') PROVE Candidate(symbols', c) \subseteq queue'
  <2>1. CASE c = p
    BY <1>1, <2>1 DEF Created
  <2>2. CASE c # p /\ symbols'[c].next = p
    <3>1. SymbolOk(symbols', c) /\ SymbolOk(symbols', p)
      BY <1>2, <1>4 DEF ListOk
    <3>2. symbols'[p].prev = c
      BY <1>3, <1>5, <2>2, <3>1 DEF SymbolOk, None
    <3>3. c # None
      BY <1>5 DEF Live, None
    <3> QED
      BY <1>1, <3>2, <3>3 DEF Created
  <2>3. CASE c # p /\ symbols'[c].next # p
    <3>1. c \in Live(symbols) /\ symbols'[c].id = symbols[c].id
      BY <1>2, <2>3
    <3>2. symbols'[c].next = symbols[c].next
      BY <1>5, <2>3, <3>1 DEF Apply, Joined, Live
    <3>3. symbols'[c].next # None => symbols'[symbols'[c].next].id = symbols[symbols[c].next].id
      <4>1. symbols'[c].next # None => symbols'[c].next \in Live(symbols')
        <5>1. SymbolOk(symbols', c)
          BY <1>2 DEF ListOk
        <5>2. symbols'[c].next \in 0 .. Len(word)
          BY <1>2, <1>5 DEF Live, SymbolSet
        <5> QED
          BY <1>5, <5>1, <5>2 DEF SymbolOk, Live, None
      <4> QED
        BY <1>2, <2>3, <3>2, <4>1
    <3>4. Candidate(symbols', c) = Candidate(symbols, c)
      BY <3>1, <3>2, <3>3 DEF Candidate
    <3>5. Candidate(symbols, c) \subseteq queue
      BY <1>1, <3>1 DEF IInv, QueueComplete
    <3>6. e \notin Candidate(symbols, c)
      BY <2>3 DEF Candidate
    <3> QED
      BY <1>1, <3>4, <3>5, <3>6
  <2> QED
    BY <2>1, <2>2, <2>3
<1>9. TypeOK'
  BY <1>1, <1>2, <1>6 DEF IInv, TypeOK, SymbolSet, CandidateSet, Ids
<1>10. Context'
  BY <1>1 DEF IInv, Context
<1>11. ListSound'
  BY <1>1, <1>2 DEF ListSound, ListOk, SymbolOk, End
<1>12. QueueComplete'
  BY <1>1, <1>8 DEF QueueComplete, Candidate
<1>13. QueueSound'
  <2>1. \A x \in queue' : CandidateOk(symbols', x)
    BY <1>1, <1>6, <1>7
  <2>2. ASSUME NEW x, CandidateOk(symbols', x) PROVE CandidateOk(symbols, x)'
    BY <1>1, <2>2 DEF CandidateOk, End
  <2> QED
    BY <2>1, <2>2 DEF QueueSound
<1> QED
  BY <1>9, <1>10, <1>11, <1>12, <1>13 DEF IInv

\* The steps that leave the list alone.
LEMMA QuietStep ==
  ASSUME IInv, file' = file, word' = word, vocab' = vocab, merges' = merges,
         symbols' = symbols, queue' = queue,
         pc' = pc \/ (pc = "merge" /\ pc' = "done") \/ pc' \in {"refused", "error"}
  PROVE  IInv'
<1>1. pc' \in {"merge", "done"} => pc \in {"merge", "done"}
  BY DEF IInv, TypeOK
<1>2. TypeOK' /\ Context'
  BY <1>1 DEF IInv, TypeOK, Context, SymbolSet, CandidateSet, Ids
<1>3. ListSound'
  BY <1>1 DEF IInv, ListSound, ListOk, SymbolOk, End
<1>4. QueueComplete'
  BY <1>1 DEF IInv, QueueComplete, Candidate
<1>5. QueueSound'
  BY <1>1 DEF IInv, QueueSound, CandidateOk, End
<1> QED
  BY <1>2, <1>3, <1>4, <1>5 DEF IInv

LEMMA LoadStep ==
  ASSUME IInv, Load
  PROVE  IInv'
<1>1. TypeOK' /\ Context'
  BY DEF IInv, TypeOK, Context, Load
<1>2. ListSound' /\ QueueComplete' /\ QueueSound'
  BY DEF Load, ListSound, QueueComplete, QueueSound
<1> QED
  BY <1>1, <1>2 DEF IInv

LEMMA Step ==
  ASSUME IInv, [Next]_vars
  PROVE  IInv'
<1>1. CASE Load
  BY <1>1, LoadStep
<1>2. CASE Refuse
  BY <1>2, QuietStep DEF Refuse
<1>3. CASE Seed
  BY <1>3, SeedStep
<1>4. CASE SeedError
  BY <1>4, QuietStep DEF SeedError
<1>5. ASSUME NEW e \in queue, Discard(e) PROVE IInv'
  BY <1>5, DiscardStep
<1>6. ASSUME NEW e \in queue, Apply(e) PROVE IInv'
  BY <1>6, ApplyStep
<1>7. CASE Finish
  BY <1>7, QuietStep DEF Finish
<1>8. CASE UNCHANGED vars
  BY <1>8, QuietStep DEF vars
<1> QED
  BY <1>1, <1>2, <1>3, <1>4, <1>5, <1>6, <1>7, <1>8 DEF Next

\* For every tokenizer file and every word, the invariant holds in every state
\* from_json and encode_word go through.
THEOREM Inductive == Spec => []IInv
<1>1. Init => IInv
  BY DEF Init, IInv, TypeOK, Context, ListSound, QueueComplete, QueueSound
<1>2. IInv /\ [Next]_vars => IInv'
  BY Step
<1> QED
  BY <1>1, <1>2, PTL DEF Spec

\* The links of the symbol list never leave the vector, and the tables are
\* those of the file.
THEOREM TypeCorrect == Spec => []TypeOK
<1>1. IInv => TypeOK
  BY DEF IInv
<1> QED
  BY <1>1, Inductive, PTL

\* The live symbols always tile the word, and each one's id is the id of the
\* text it covers.
THEOREM ListIsSound == Spec => []ListSound
<1>1. IInv => ListSound
  BY DEF IInv
<1> QED
  BY <1>1, Inductive, PTL

\* The heap holds a candidate for every mergeable pair of neighbours.
THEOREM QueueIsComplete == Spec => []QueueComplete
<1>1. IInv => QueueComplete
  BY DEF IInv
<1> QED
  BY <1>1, Inductive, PTL

\* A stale candidate never passes the re-validation of encode_word.
THEOREM RevalidationIsSound == Spec => []ValidIsCurrent
<1>1. IInv => ValidIsCurrent
  <2> SUFFICES ASSUME IInv, pc = "merge", NEW e \in queue, StillValid(e)
               PROVE  e \in Candidate(symbols, e.pos)
    BY DEF ValidIsCurrent
  <2>1. /\ Tables
        /\ symbols \in [1 .. Len(word) -> SymbolSet] /\ ListOk(symbols)
        /\ e \in CandidateSet /\ CandidateOk(symbols, e)
    BY TablesHold DEF IInv, TypeOK, ListSound, QueueSound
  <2> QED
    BY <2>1, ValidCandidate
<1> QED
  BY <1>1, Inductive, PTL

\* Where a candidate of a live symbol ends: what it produces is the text from
\* its position up to there.
LEMMA CandidateText ==
  ASSUME Tables, NEW sym \in [1 .. Len(word) -> SymbolSet], ListOk(sym),
         NEW c \in Live(sym), NEW x \in Candidate(sym, c)
  PROVE  /\ sym[c].next # None /\ x.pos = c
         /\ Slice(word, c, End(sym, sym[c].next)) \in DOMAIN vocab
         /\ x.new_id = vocab[Slice(word, c, End(sym, sym[c].next))]
<1>1. /\ sym[c].next # None
      /\ <<sym[c].id, sym[sym[c].next].id>> \in DOMAIN merges
      /\ x.pos = c
      /\ x.new_id = merges[<<sym[c].id, sym[sym[c].next].id>>].id
  BY DEF Candidate
<1> DEFINE q == sym[c].next
           s == Slice(word, c, q)
           t == Slice(word, q, End(sym, q))
<1>2. /\ s \in DOMAIN vocab /\ sym[c].id = vocab[s]
      /\ t \in DOMAIN vocab /\ sym[q].id = vocab[t]
      /\ s \o t = Slice(word, c, End(sym, q))
  BY <1>1, Forward
<1>3. <<vocab[s], vocab[t]>> \in DOMAIN merges /\ x.new_id = merges[<<vocab[s], vocab[t]>>].id
  BY <1>1, <1>2
<1> HIDE DEF s, t
<1>4. s \o t \in DOMAIN vocab /\ x.new_id = vocab[s \o t]
  BY <1>2, <1>3, MergedId
<1> QED
  BY <1>1, <1>2, <1>4

\* A queued candidate of a live symbol makes a text that ends no later than the
\* symbol's right neighbour does.
LEMMA QueuedReach ==
  ASSUME Tables, symbols \in [1 .. Len(word) -> SymbolSet],
         NEW x \in queue, x \in CandidateSet, CandidateOk(symbols, x),
         x.pos \in Live(symbols), NEW r \in x.pos .. Len(word) + 1,
         Slice(word, x.pos, r) \in DOMAIN vocab, x.new_id = vocab[Slice(word, x.pos, r)]
  PROVE  End(symbols, x.pos) >= r \/ End(symbols, End(symbols, x.pos)) >= r
<1> DEFINE c == x.pos
<1>1. PICK q \in 1 .. Len(word) + 1, t \in 1 .. Len(word) + 1 :
        /\ c < q
        /\ q < t
        /\ Slice(word, c, q) \in DOMAIN vocab
        /\ Slice(word, q, t) \in DOMAIN vocab
        /\ <<vocab[Slice(word, c, q)], vocab[Slice(word, q, t)]>> \in DOMAIN merges
        /\ x.new_id = merges[<<vocab[Slice(word, c, q)], vocab[Slice(word, q, t)]>>].id
        /\ symbols[c].len > 0 =>
             \/ End(symbols, c) >= t
             \/ End(symbols, c) = q /\ q <= Len(word) /\ End(symbols, q) >= t
  BY DEF CandidateOk
<1>2. Len(word) \in Nat /\ word \in Seq(Char) /\ c \in 1 .. Len(word)
  BY LenProperties DEF Tables, CandidateSet
<1>3. /\ c \in 1 .. Len(word) + 1 /\ q \in c .. Len(word) + 1
      /\ t \in q .. Len(word) + 1 /\ t \in c .. Len(word) + 1
  BY <1>1, <1>2
<1>4. Slice(word, c, q) \o Slice(word, q, t) = Slice(word, c, t)
  BY <1>2, <1>3, SliceConcat
<1>5. x.new_id = vocab[Slice(word, c, t)] /\ Slice(word, c, t) \in DOMAIN vocab
  BY <1>1, <1>4, MergedId
<1>6. Slice(word, c, t) = Slice(word, c, r)
  BY <1>5, VocabFacts DEF Tables
<1>7. t = r
  BY <1>2, <1>3, <1>6, SliceEnd
<1> QED
  BY <1>1, <1>7 DEF Live

\* A merge queues nothing that is in the heap.
LEMMA CreatedIsNew ==
  ASSUME IInv, NEW e \in queue, Apply(e)
  PROVE  Created(symbols', e.pos) \cap queue = {}
<1> DEFINE p == e.pos
           q == symbols[p].next
           sym == symbols'
           n == Len(word)
<1>1. /\ Tables
      /\ symbols \in [1 .. n -> SymbolSet] /\ ListOk(symbols)
      /\ p \in Live(symbols) /\ q # None
      /\ sym \in [1 .. n -> SymbolSet] /\ ListOk(sym)
      /\ Live(sym) = Live(symbols) \ {q}
      /\ End(sym, p) = End(symbols, q)
      /\ \A c \in Live(sym) \ {p} : End(sym, c) = End(symbols, c)
  BY ApplyFacts
<1>2. /\ p \in 1 .. n /\ q = End(symbols, p) /\ q \in 1 .. n
      /\ p < q /\ q < End(symbols, q) /\ End(symbols, q) \in 1 .. n + 1
  BY <1>1, Forward
<1>3. p \in Live(sym) /\ n \in Nat /\ DOMAIN sym = 1 .. n
  BY <1>1, <1>2, LenProperties DEF Tables
<1>4. \A x \in queue : x \in CandidateSet /\ CandidateOk(symbols, x)
  BY DEF Apply, IInv, TypeOK, QueueSound
<1> HIDE DEF sym
<1>5. ASSUME NEW x \in Candidate(sym, p) PROVE x \notin queue
  <2> DEFINE r == End(sym, sym[p].next)
  <2>1. /\ sym[p].next # None /\ x.pos = p
        /\ Slice(word, p, r) \in DOMAIN vocab /\ x.new_id = vocab[Slice(word, p, r)]
    BY <1>1, <1>3, CandidateText
  <2>2. sym[p].next = End(sym, p) /\ sym[p].next < r /\ r \in 1 .. n + 1
    BY <1>1, <1>3, <2>1, Forward
  <2>3. r \in p .. n + 1 /\ ~ (End(symbols, p) >= r) /\ ~ (End(symbols, q) >= r)
    BY <1>1, <1>2, <1>3, <2>2
  <2> HIDE DEF r
  <2> QED
    BY <1>1, <1>2, <1>4, <2>1, <2>3, QueuedReach
<1>6. ASSUME sym[p].prev # None, NEW x \in Candidate(sym, sym[p].prev) PROVE x \notin queue
  <2> DEFINE o == sym[p].prev
  <2>1. /\ o \in 1 .. p - 1 /\ o \in Live(sym) /\ sym[o].next = p
    <3>1. SymbolOk(sym, p)
      BY <1>1, <1>3 DEF ListOk
    <3> QED
      BY <1>2, <1>3, <1>6, <3>1 DEF SymbolOk, Live
  <2> DEFINE r == End(sym, p)
  <2>2. /\ x.pos = o
        /\ Slice(word, o, r) \in DOMAIN vocab /\ x.new_id = vocab[Slice(word, o, r)]
    BY <1>1, <1>6, <2>1, CandidateText
  <2>3. p # None /\ p = End(sym, o)
    <3>1. p # None /\ sym[o].next # None
      BY <1>2, <2>1 DEF None
    <3>2. sym[o].next = End(sym, o)
      BY <1>1, <2>1, <3>1, NextIsEnd
    <3> QED
      BY <2>1, <3>1, <3>2
  <2>4. End(symbols, o) = p /\ o \in Live(symbols)
    BY <1>1, <1>2, <2>1, <2>3
  <2>5. r \in o .. n + 1 /\ ~ (p >= r) /\ ~ (End(symbols, p) >= r)
    BY <1>1, <1>2, <1>3, <2>1
  <2> HIDE DEF r, o
  <2> QED
    BY <1>1, <1>4, <2>2, <2>4, <2>5, QueuedReach
<1>7. \A x \in Created(sym, p) :
        x \in Candidate(sym, p) \/ (sym[p].prev # None /\ x \in Candidate(sym, sym[p].prev))
  BY DEF Created
<1>8. Created(sym, p) \cap queue = {}
  BY <1>5, <1>6, <1>7
<1> QED
  BY <1>8 DEF sym

\* No candidate is queued while it is in the heap: what a merge queues reaches
\* further into the word than anything queued at its position before.
THEOREM QueuedOnce == Spec => NeverRequeued
<1>1. IInv => \A e \in queue : Apply(e) => Created(symbols', e.pos) \cap queue = {}
  BY CreatedIsNew
<1> QED
  BY <1>1, Inductive, PTL DEF NeverRequeued

-----------------------------------------------------------------------------
(* The queue-driven merge loop implements the greedy one of BpeMerge: every *)
(* step maps to a step of it or leaves its state alone.                     *)

Cuts == IF pc \in {"merge", "done"} THEN Live(symbols) ELSE 1 .. Len(word)

Outcome ==
  CASE pc = "done" -> "done"
    [] pc \in {"refused", "error"} -> "failed"
    [] OTHER -> "merging"

\* The facts about a running merge loop that the lemmas below start from.
Merging ==
  /\ Tables
  /\ pc = "merge"
  /\ symbols \in [1 .. Len(word) -> SymbolSet]
  /\ ListOk(symbols)

LEMMA MergingHolds ==
  ASSUME IInv, pc = "merge"
  PROVE  Merging
BY TablesHold DEF IInv, TypeOK, ListSound, Merging

LEMMA Extent ==
  ASSUME Merging, NEW p \in Live(symbols)
  PROVE  /\ Len(word) \in Nat
         /\ p \in 1 .. Len(word)
         /\ p < End(symbols, p)
         /\ End(symbols, p) \in 1 .. Len(word) + 1
         /\ \A c \in p + 1 .. End(symbols, p) - 1 : c \notin Live(symbols)
         /\ End(symbols, p) # Len(word) + 1 =>
              /\ End(symbols, p) \in Live(symbols)
              /\ symbols[p].next = End(symbols, p)
<1>1. Len(word) \in Nat /\ DOMAIN symbols = 1 .. Len(word)
  BY LenProperties DEF Merging, Tables
<1>2. /\ p \in 1 .. Len(word)
      /\ symbols[p].len \in 1 .. Len(word)
      /\ SymbolOk(symbols, p)
  BY <1>1 DEF Merging, Live, ListOk, SymbolSet
<1>3. p < End(symbols, p) /\ End(symbols, p) \in 1 .. Len(word) + 1
  BY <1>1, <1>2 DEF SymbolOk, End
<1>4. \A c \in p + 1 .. End(symbols, p) - 1 : c \notin Live(symbols)
  BY <1>2 DEF SymbolOk, Live
<1>5. ASSUME End(symbols, p) # Len(word) + 1
      PROVE  End(symbols, p) \in Live(symbols) /\ symbols[p].next = End(symbols, p)
  <2>1. End(symbols, p) \in 1 .. Len(word)
    BY <1>1, <1>3, <1>5
  <2> QED
    BY <1>1, <1>2, <1>5, <2>1 DEF SymbolOk, Live
<1> QED
  BY <1>1, <1>2, <1>3, <1>4, <1>5

\* The consecutive cuts are the extents of the live symbols.
LEMMA AdjacentIsExtent ==
  ASSUME Merging, NEW p, NEW q
  PROVE  Greedy!Adjacent(p, q) <=> p \in Live(symbols) /\ q = End(symbols, p)
<1>1. Cuts = Live(symbols)
  BY DEF Cuts, Merging
<1>2. Greedy!Adjacent(p, q) <=>
        /\ p \in Live(symbols)
        /\ q \in Live(symbols) \cup {Len(word) + 1}
        /\ p < q
        /\ \A c \in Live(symbols) : c <= p \/ c >= q
  BY <1>1 DEF Greedy!Adjacent, Cuts
<1>3. ASSUME NEW c \in Live(symbols) PROVE c \in 1 .. Len(word)
  BY <1>3, Extent
<1>4. ASSUME Greedy!Adjacent(p, q)
      PROVE  p \in Live(symbols) /\ q = End(symbols, p)
  <2> DEFINE r == End(symbols, p)
             n == Len(word)
  <2>1. p \in Live(symbols)
    BY <1>2, <1>4
  <2>2. /\ n \in Nat /\ p \in 1 .. n /\ p < r /\ r \in 1 .. n + 1
        /\ \A c \in p + 1 .. r - 1 : c \notin Live(symbols)
        /\ r # n + 1 => r \in Live(symbols)
    BY <2>1, Extent
  <2>3. q \in Live(symbols) \cup {n + 1} /\ p < q /\ \A c \in Live(symbols) : c <= p \/ c >= q
    BY <1>2, <1>4
  <2>4. q \in 1 .. n + 1
    BY <1>3, <2>2, <2>3
  <2> HIDE DEF r, n
  <2>5. ~ (r < q)
    <3>1. r < q => r \in Live(symbols)
      BY <2>2, <2>4
    <3> QED
      BY <2>2, <2>3, <2>4, <3>1
  <2>6. ~ (q < r)
    <3>1. q < r => q \in p + 1 .. r - 1 /\ q # n + 1
      BY <2>2, <2>3, <2>4
    <3> QED
      BY <2>2, <2>3, <3>1
  <2>7. q = r
    BY <2>2, <2>4, <2>5, <2>6
  <2> QED
    BY <2>1, <2>7 DEF r
<1>5. ASSUME p \in Live(symbols), q = End(symbols, p)
      PROVE  Greedy!Adjacent(p, q)
  <2> DEFINE n == Len(word)
  <2>1. /\ n \in Nat /\ p \in 1 .. n /\ p < q /\ q \in 1 .. n + 1
        /\ \A c \in p + 1 .. q - 1 : c \notin Live(symbols)
        /\ q # n + 1 => q \in Live(symbols)
    BY <1>5, Extent
  <2>2. ASSUME NEW c \in Live(symbols) PROVE c <= p \/ c >= q
    <3>1. c \in 1 .. n
      BY <1>3
    <3> HIDE DEF n
    <3> QED
      BY <2>1, <3>1
  <2> QED
    BY <1>2, <1>5, <2>1, <2>2
<1> QED
  BY <1>4, <1>5

\* Every occurrence of a listed pair has a candidate in the heap, with the rank
\* of the first entry for the same pair.
LEMMA OccurrenceQueued ==
  ASSUME IInv, pc = "merge",
         NEW i \in DOMAIN file.merges, NEW p, NEW q, NEW r, Greedy!Occurs(i, p, q, r)
  PROVE  \E c \in queue :
           /\ c.pos = p
           /\ c.rank \in DOMAIN file.merges
           /\ c.rank <= i
           /\ file.merges[c.rank] = file.merges[i]
<1> DEFINE s == Slice(word, p, q)
           t == Slice(word, q, r)
           pair == <<vocab[s], vocab[t]>>
           c == [rank |-> merges[pair].rank, pos |-> p, new_id |-> merges[pair].id]
<1>1. Merging /\ Tables
  BY MergingHolds DEF Merging
<1>2. /\ p \in Live(symbols) /\ q = End(symbols, p)
      /\ q \in Live(symbols) /\ r = End(symbols, q)
      /\ file.merges[i] = <<s, t>>
  BY <1>1, AdjacentIsExtent DEF Greedy!Occurs, Greedy!Slice, Slice
<1>3. q \in 1 .. Len(word) /\ Len(word) \in Nat /\ symbols[p].next = q /\ q # None
  <2>1. q \in 1 .. Len(word) /\ Len(word) \in Nat
    BY <1>1, <1>2, Extent
  <2>2. q # Len(word) + 1 /\ q # None
    BY <2>1 DEF None
  <2> QED
    BY <1>1, <1>2, <2>1, <2>2, Extent
<1>4. /\ s \in DOMAIN vocab /\ symbols[p].id = vocab[s]
      /\ t \in DOMAIN vocab /\ symbols[q].id = vocab[t]
  <2>1. symbols \in [1 .. Len(word) -> SymbolSet] /\ ListOk(symbols)
    BY <1>1 DEF Merging
  <2>2. symbols[p].next # None
    BY <1>3
  <2> DEFINE next == symbols[p].next
  <2>3. /\ Slice(word, p, next) \in DOMAIN vocab
        /\ symbols[p].id = vocab[Slice(word, p, next)]
        /\ Slice(word, next, End(symbols, next)) \in DOMAIN vocab
        /\ symbols[next].id = vocab[Slice(word, next, End(symbols, next))]
    BY <1>1, <1>2, <2>1, <2>2, Forward
  <2> QED
    BY <1>2, <1>3, <2>3
<1>5. IdPair(vocab, file.merges, i) = pair
  BY <1>2 DEF IdPair
<1>6. pair \in DOMAIN merges
  BY <1>1, <1>5, TableComplete DEF Tables
<1>7. Candidate(symbols, p) = {c}
  BY <1>3, <1>4, <1>6 DEF Candidate
<1>8. c \in queue
  BY <1>2, <1>7 DEF IInv, QueueComplete
<1>9. c.rank \in DOMAIN file.merges /\ file.merges[c.rank] = file.merges[i]
  BY <1>1, <1>2, <1>4, <1>6, MergedId
<1>10. c.rank <= i
  <2>1. \A j \in DOMAIN file.merges : IdPair(vocab, file.merges, j) = pair => merges[pair].rank <= j
    <3> HIDE DEF pair
    <3> QED
      BY <1>1, <1>6, TableFacts DEF Tables
  <2> QED
    BY <1>5, <2>1
<1> QED
  BY <1>8, <1>9, <1>10

LEMMA ApplyMerges ==
  ASSUME IInv, NEW e \in queue, Apply(e)
  PROVE  Greedy!Merge
<1> DEFINE p == e.pos
           q == symbols[p].next
           r == End(symbols, q)
           i == e.rank
<1>1. pc = "merge" /\ pc' = "merge" /\ file' = file /\ word' = word /\ IsTop(e)
  BY DEF Apply
<1>2. /\ Merging /\ Tables
      /\ p \in Live(symbols)
      /\ q # None
      /\ e \in Candidate(symbols, p)
      /\ Live(symbols') = Live(symbols) \ {q}
  BY <1>1, MergingHolds, ApplyFacts
<1>3. /\ p \in 1 .. Len(word)
      /\ q = End(symbols, p)
      /\ q \in Live(symbols)
      /\ q \in 1 .. Len(word)
      /\ r \in 1 .. Len(word) + 1
      /\ Slice(word, p, q) \in DOMAIN vocab
      /\ symbols[p].id = vocab[Slice(word, p, q)]
      /\ Slice(word, q, r) \in DOMAIN vocab
      /\ symbols[q].id = vocab[Slice(word, q, r)]
  BY <1>2, Forward DEF Merging
<1>4. i \in DOMAIN file.merges /\ file.merges[i] = <<Slice(word, p, q), Slice(word, q, r)>>
  BY <1>2, <1>3, MergedId DEF Candidate
<1>5. Greedy!Occurs(i, p, q, r)
  BY <1>2, <1>3, <1>4, AdjacentIsExtent DEF Greedy!Occurs, Greedy!Slice, Slice
<1>6. ASSUME NEW j \in DOMAIN file.merges, NEW p2, NEW q2, NEW r2, Greedy!Occurs(j, p2, q2, r2)
      PROVE  i < j \/ (file.merges[i] = file.merges[j] /\ p <= p2)
  <2>1. PICK c \in queue : /\ c.pos = p2
                           /\ c.rank \in DOMAIN file.merges
                           /\ c.rank <= j
                           /\ file.merges[c.rank] = file.merges[j]
    BY <1>1, <1>6, OccurrenceQueued
  <2>2. i < c.rank \/ (i = c.rank /\ p <= c.pos)
    BY <1>1 DEF IsTop, Before
  <2>3. DOMAIN file.merges \subseteq Int
    BY <1>2, FilesAssumption, LenProperties DEF Tables
  <2>4. i \in Int /\ j \in Int /\ c.rank \in Int
    BY <1>4, <2>1, <2>3
  <2>5. CASE i < c.rank
    BY <2>1, <2>4, <2>5
  <2>6. CASE i = c.rank /\ p <= c.pos
    BY <2>1, <2>6
  <2> QED
    BY <2>2, <2>5, <2>6
<1>7. Cuts = Live(symbols) /\ Cuts' = Cuts \ {q}
  BY <1>1, <1>2 DEF Cuts
<1>8. Outcome = "merging" /\ Outcome' = "merging"
  BY <1>1 DEF Outcome
<1>9. p \in Greedy!Positions /\ q \in Greedy!Positions /\ r \in Greedy!Positions
  BY <1>3, LenProperties DEF Greedy!Positions, Merging, Tables
<1> HIDE DEF p, q, r, i
<1> QED
  BY <1>1, <1>4, <1>5, <1>6, <1>7, <1>8, <1>9 DEF Greedy!Merge, Cuts, Outcome

LEMMA FinishStops ==
  ASSUME IInv, Finish
  PROVE  Greedy!Stop
<1>1. /\ pc = "merge" /\ pc' = "done" /\ queue = {}
      /\ file' = file /\ word' = word /\ symbols' = symbols
  BY DEF Finish
<1>2. ~ \E i \in DOMAIN file.merges, p, q, r \in Greedy!Positions : Greedy!Occurs(i, p, q, r)
  BY <1>1, OccurrenceQueued
<1>3. Cuts' = Cuts /\ Outcome = "merging" /\ Outcome' = "done"
  BY <1>1 DEF Cuts, Outcome, Live
<1> QED
  BY <1>1, <1>2, <1>3 DEF Greedy!Stop, Cuts, Outcome

LEMMA Refines ==
  ASSUME IInv, [Next]_vars
  PROVE  [Greedy!Next]_(Greedy!vars)
<1>1. CASE Load
  BY <1>1 DEF Load, Greedy!vars
<1>2. CASE Refuse \/ SeedError
  BY <1>2 DEF Refuse, SeedError, Greedy!Next, Greedy!Fail
<1>3. CASE Seed
  <2>1. Live(symbols') = 1 .. Len(word)
    BY <1>3 DEF Seed, InitialSymbols, Live
  <2> QED
    BY <1>3, <2>1 DEF Seed, Greedy!vars
<1>4. ASSUME NEW e \in queue, Discard(e) PROVE UNCHANGED Greedy!vars
  BY <1>4 DEF Discard, Greedy!vars, Live
<1>5. ASSUME NEW e \in queue, Apply(e) PROVE Greedy!Next
  BY <1>5, ApplyMerges DEF Greedy!Next
<1>6. CASE Finish
  BY <1>6, FinishStops DEF Greedy!Next
<1>7. CASE UNCHANGED vars
  BY <1>7 DEF vars, Greedy!vars, Live
<1> QED
  BY <1>1, <1>2, <1>3, <1>4, <1>5, <1>6, <1>7 DEF Next

\* The lazy heap and the linked list compute the greedy merge order of CIS-2
\* section 3.1.5.c: every run of from_json and encode_word is a run of BpeMerge,
\* for every tokenizer file and every word.
THEOREM QueueImplementsMerge == Spec => ImplementsMerge
<1>1. Init => Greedy!Init
  BY DEF Init, Greedy!Init
<1>2. IInv /\ [Next]_vars => [Greedy!Next]_(Greedy!vars)
  BY Refines
<1> QED
  BY <1>1, <1>2, Inductive, PTL DEF Spec, ImplementsMerge, Greedy!Spec

-----------------------------------------------------------------------------
(* The greedy loop from cuts to cuts: it is determined by list and word.    *)

Neighbours(w, c, p, q) ==
  /\ p \in c
  /\ q \in c \cup {Len(w) + 1}
  /\ p < q
  /\ \A x \in c : x <= p \/ x >= q

Meets(l, w, c, i, p, q, r) ==
  /\ Neighbours(w, c, p, q)
  /\ Neighbours(w, c, q, r)
  /\ l[i] = <<Slice(w, p, q), Slice(w, q, r)>>

\* As BpeMerge's Merge.
MergedTo(l, w, c, d) ==
  \E i \in DOMAIN l, p, q, r \in 1 .. Len(w) + 1 :
    /\ Meets(l, w, c, i, p, q, r)
    /\ \A j \in DOMAIN l, p2, q2, r2 \in 1 .. Len(w) + 1 :
         Meets(l, w, c, j, p2, q2, r2) => i < j \/ (l[i] = l[j] /\ p <= p2)
    /\ d = c \ {q}

Settled(l, w, c) ==
  ~ \E i \in DOMAIN l, p, q, r \in 1 .. Len(w) + 1 : Meets(l, w, c, i, p, q, r)

Trace(l, w, s) ==
  /\ s \in Seq(SUBSET (1 .. Len(w)))
  /\ s # << >>
  /\ s[1] = 1 .. Len(w)
  /\ \A j \in 1 .. Len(s) - 1 : MergedTo(l, w, s[j], s[j + 1])

\* What the loop can get to.
Reached(l, w, c) == \E s : Trace(l, w, s) /\ s[Len(s)] = c

LEMMA OneNeighbour ==
  ASSUME NEW w, Len(w) \in Nat, NEW c, NEW p \in Nat,
         NEW q \in 1 .. Len(w) + 1, NEW r \in 1 .. Len(w) + 1,
         Neighbours(w, c, p, q), Neighbours(w, c, p, r)
  PROVE  q = r
<1>1. ~ (q < r)
  BY DEF Neighbours
<1>2. ~ (r < q)
  BY DEF Neighbours
<1> QED
  BY <1>1, <1>2

LEMMA MergedOnce ==
  ASSUME NEW l, DOMAIN l \subseteq Int, NEW w, Len(w) \in Nat, NEW c, NEW d, NEW e,
         MergedTo(l, w, c, d), MergedTo(l, w, c, e)
  PROVE  d = e
<1> DEFINE P == 1 .. Len(w) + 1
           First(i, p) == \A j \in DOMAIN l, p2, q2, r2 \in P :
                            Meets(l, w, c, j, p2, q2, r2) => i < j \/ (l[i] = l[j] /\ p <= p2)
<1>1. PICK i \in DOMAIN l, p \in P, q \in P, r \in P :
        Meets(l, w, c, i, p, q, r) /\ First(i, p) /\ d = c \ {q}
  BY DEF MergedTo
<1>2. PICK j \in DOMAIN l, p2 \in P, q2 \in P, r2 \in P :
        Meets(l, w, c, j, p2, q2, r2) /\ First(j, p2) /\ e = c \ {q2}
  BY DEF MergedTo
<1>3. i < j \/ (l[i] = l[j] /\ p <= p2)
  BY <1>1, <1>2
<1>4. j < i \/ (l[j] = l[i] /\ p2 <= p)
  BY <1>1, <1>2
<1>5. i \in Int /\ j \in Int /\ p \in Nat /\ p2 \in Nat
  OBVIOUS
<1>6. l[i] = l[j]
  BY <1>3, <1>4, <1>5
<1>7. Meets(l, w, c, i, p2, q2, r2) /\ Meets(l, w, c, j, p, q, r)
  BY <1>1, <1>2, <1>6 DEF Meets
<1>8. p <= p2 /\ p2 <= p
  <2>1. i < i \/ p <= p2
    BY <1>1, <1>7
  <2>2. j < j \/ p2 <= p
    BY <1>2, <1>7
  <2> HIDE DEF P, First
  <2> QED
    BY <1>5, <2>1, <2>2
<1>9. p = p2
  BY <1>5, <1>8
<1>10. q = q2
  BY <1>1, <1>2, <1>5, <1>9, OneNeighbour DEF Meets
<1> QED
  BY <1>1, <1>2, <1>10

LEMMA ReachedFirst ==
  ASSUME NEW l, NEW w
  PROVE  Reached(l, w, 1 .. Len(w))
<1> DEFINE s == <<1 .. Len(w)>>
<1>1. s \in Seq(SUBSET (1 .. Len(w))) /\ Len(s) = 1 /\ s[1] = 1 .. Len(w) /\ s # << >>
  OBVIOUS
<1> HIDE DEF s
<1>2. Trace(l, w, s)
  BY <1>1 DEF Trace
<1> QED
  BY <1>1, <1>2 DEF Reached

LEMMA ReachedNext ==
  ASSUME NEW l, NEW w, NEW c, NEW d, Reached(l, w, c), MergedTo(l, w, c, d)
  PROVE  Reached(l, w, d)
<1>1. PICK s : Trace(l, w, s) /\ s[Len(s)] = c
  BY DEF Reached
<1> DEFINE n == Len(s)
           t == Append(s, d)
<1>2. s \in Seq(SUBSET (1 .. Len(w))) /\ n \in Nat /\ n # 0 /\ s # << >>
  BY <1>1, EmptySeq DEF Trace
<1>3. d \in SUBSET (1 .. Len(w))
  <2>1. c \in SUBSET (1 .. Len(w))
    BY <1>1, <1>2, ElementOfSeq
  <2> QED
    BY <2>1 DEF MergedTo
<1>4. /\ t \in Seq(SUBSET (1 .. Len(w))) /\ t # << >> /\ Len(t) = n + 1
      /\ t[n + 1] = d /\ \A j \in 1 .. n : t[j] = s[j]
  BY <1>2, <1>3, AppendProperties
<1> HIDE DEF n, t
<1>5. ASSUME NEW j \in 1 .. (n + 1) - 1 PROVE MergedTo(l, w, t[j], t[j + 1])
  <2>1. CASE j = n
    <3>1. t[j] = c /\ t[j + 1] = d
      BY <1>1, <1>2, <1>4, <2>1 DEF n
    <3> QED
      BY <3>1
  <2>2. CASE j # n
    <3>1. j \in 1 .. n - 1 /\ j \in 1 .. n /\ j + 1 \in 1 .. n
      BY <1>2, <2>2
    <3>2. MergedTo(l, w, s[j], s[j + 1])
      BY <1>1, <3>1 DEF Trace, n
    <3> QED
      BY <1>4, <3>1, <3>2
  <2> QED
    BY <2>1, <2>2
<1>6. t[1] = 1 .. Len(w)
  <2>1. 1 \in 1 .. n
    BY <1>2
  <2> QED
    BY <1>1, <1>4, <2>1 DEF Trace
<1>7. Trace(l, w, t)
  BY <1>4, <1>5, <1>6 DEF Trace
<1> QED
  BY <1>4, <1>7 DEF Reached

LEMMA SameTrace ==
  ASSUME NEW l, DOMAIN l \subseteq Int, NEW w, Len(w) \in Nat,
         NEW s, NEW t, Trace(l, w, s), Trace(l, w, t),
         NEW m \in Nat, m + 1 <= Len(s), m + 1 <= Len(t)
  PROVE  s[m + 1] = t[m + 1]
<1> DEFINE Same == {j \in 0 .. m : s[j + 1] = t[j + 1]}
<1>0. Len(s) \in Nat /\ Len(t) \in Nat
  BY LenProperties DEF Trace
<1>1. 0 \in Same
  BY DEF Trace
<1>2. ASSUME NEW j \in 0 .. m - 1, j \in Same PROVE j + 1 \in Same
  <2>1. j + 1 \in 1 .. Len(s) - 1 /\ j + 1 \in 1 .. Len(t) - 1 /\ j + 1 \in 0 .. m
    BY <1>0
  <2>2. MergedTo(l, w, s[j + 1], s[(j + 1) + 1]) /\ MergedTo(l, w, t[j + 1], t[(j + 1) + 1])
    BY <2>1 DEF Trace
  <2>3. s[(j + 1) + 1] = t[(j + 1) + 1]
    BY <1>2, <2>2, MergedOnce
  <2> QED
    BY <2>1, <2>3
<1> HIDE DEF Same
<1>3. 0 .. m \subseteq Same
  BY <1>1, <1>2, UpTo
<1> QED
  BY <1>3 DEF Same

\* It ends in one way only.
LEMMA OneEnd ==
  ASSUME NEW l, DOMAIN l \subseteq Int, NEW w, Len(w) \in Nat, NEW c, NEW d,
         Reached(l, w, c), Settled(l, w, c), Reached(l, w, d), Settled(l, w, d)
  PROVE  c = d
<1>1. PICK s : Trace(l, w, s) /\ s[Len(s)] = c
  BY DEF Reached
<1>2. PICK t : Trace(l, w, t) /\ t[Len(t)] = d
  BY DEF Reached
<1>3. Len(s) \in Nat \ {0} /\ Len(t) \in Nat \ {0}
  BY <1>1, <1>2, EmptySeq DEF Trace
<1>4. ASSUME Len(s) < Len(t) PROVE FALSE
  <2> DEFINE m == Len(s) - 1
  <2>1. m \in Nat /\ m + 1 = Len(s) /\ m + 1 <= Len(t) /\ m + 1 \in 1 .. Len(t) - 1
    BY <1>3, <1>4
  <2> HIDE DEF m
  <2>2. s[m + 1] = t[m + 1]
    BY <1>1, <1>2, <2>1, SameTrace
  <2>3. MergedTo(l, w, c, t[(m + 1) + 1])
    BY <1>1, <1>2, <2>1, <2>2 DEF Trace
  <2> QED
    BY <2>3 DEF MergedTo, Settled
<1>5. ASSUME Len(t) < Len(s) PROVE FALSE
  <2> DEFINE m == Len(t) - 1
  <2>1. m \in Nat /\ m + 1 = Len(t) /\ m + 1 <= Len(s) /\ m + 1 \in 1 .. Len(s) - 1
    BY <1>3, <1>5
  <2> HIDE DEF m
  <2>2. s[m + 1] = t[m + 1]
    BY <1>1, <1>2, <2>1, SameTrace, SMTT(30)
  <2>3. MergedTo(l, w, d, s[(m + 1) + 1])
    BY <1>1, <1>2, <2>1, <2>2 DEF Trace
  <2> QED
    BY <2>3 DEF MergedTo, Settled
<1>6. Len(s) = Len(t)
  BY <1>3, <1>4, <1>5
<1> DEFINE m == Len(s) - 1
<1>7. m \in Nat /\ m + 1 = Len(s) /\ m + 1 = Len(t)
  BY <1>3, <1>6
<1> HIDE DEF m
<1>8. m \in Nat /\ m + 1 <= Len(s) /\ m + 1 <= Len(t)
  BY <1>3, <1>7
<1>9. s[m + 1] = t[m + 1]
  BY <1>1, <1>2, <1>8, SameTrace
<1> QED
  BY <1>1, <1>2, <1>7, <1>9

-----------------------------------------------------------------------------
(* verify3's symbols c as a cut of the word w.                              *)

\* The symbols c are the texts between the positions pos.
Spells(w, c, pos) ==
  /\ c \in Seq(Seq(Char))
  /\ pos \in [1 .. Len(c) + 1 -> 1 .. Len(w) + 1]
  /\ pos[1] = 1
  /\ pos[Len(c) + 1] = Len(w) + 1
  /\ \A i, j \in 1 .. Len(c) + 1 : i < j => pos[i] < pos[j]
  /\ \A j \in 1 .. Len(c) : c[j] = Slice(w, pos[j], pos[j + 1])

Starts(c, pos) == {pos[j] : j \in 1 .. Len(c)}

LEMMA SpellsFacts ==
  ASSUME NEW w, Len(w) \in Nat, NEW c, NEW pos, Spells(w, c, pos)
  PROVE  /\ Len(c) \in Nat
         /\ DOMAIN c = 1 .. Len(c)
         /\ \A j \in 1 .. Len(c) + 1 : pos[j] \in 1 .. Len(w) + 1
         /\ \A j \in 1 .. Len(c) : pos[j] \in 1 .. Len(w)
<1>1. Len(c) \in Nat /\ DOMAIN c = 1 .. Len(c)
  BY LenProperties DEF Spells
<1>2. \A j \in 1 .. Len(c) + 1 : pos[j] \in 1 .. Len(w) + 1
  BY <1>1 DEF Spells
<1>3. ASSUME NEW j \in 1 .. Len(c) PROVE pos[j] \in 1 .. Len(w)
  <2>1. j \in 1 .. Len(c) + 1 /\ Len(c) + 1 \in 1 .. Len(c) + 1 /\ j < Len(c) + 1
    BY <1>1
  <2>2. pos[j] < Len(w) + 1
    BY <2>1 DEF Spells
  <2> QED
    BY <1>2, <2>1, <2>2
<1> QED
  BY <1>1, <1>2, <1>3

\* The positions are different.
LEMMA SpellsOnce ==
  ASSUME NEW w, Len(w) \in Nat, NEW c, NEW pos, Spells(w, c, pos),
         NEW i \in 1 .. Len(c) + 1, NEW j \in 1 .. Len(c) + 1, pos[i] = pos[j]
  PROVE  i = j
<1>1. Len(c) \in Nat /\ pos[i] \in Nat /\ pos[j] \in Nat
  BY SpellsFacts
<1>2. ~ (i < j) /\ ~ (j < i)
  BY <1>1 DEF Spells
<1> QED
  BY <1>1, <1>2

\* Neighbours are the texts of the symbols.
LEMMA SymbolIsNeighbour ==
  ASSUME NEW w, Len(w) \in Nat, NEW c, NEW pos, Spells(w, c, pos), NEW j \in 1 .. Len(c)
  PROVE  Neighbours(w, Starts(c, pos), pos[j], pos[j + 1])
<1> DEFINE m == Len(c)
           n == Len(w)
<1>1. m \in Nat /\ (\A k \in 1 .. m + 1 : pos[k] \in 1 .. n + 1)
  BY SpellsFacts
<1>2. pos[m + 1] = n + 1 /\ \A k, k2 \in 1 .. m + 1 : k < k2 => pos[k] < pos[k2]
  BY DEF Spells
<1>3. j \in 1 .. m + 1 /\ j + 1 \in 1 .. m + 1 /\ j < j + 1
  BY <1>1
<1>4. pos[j] \in Starts(c, pos)
  BY DEF Starts
<1>5. pos[j + 1] \in Starts(c, pos) \cup {n + 1}
  <2>1. j + 1 = m + 1 \/ j + 1 \in 1 .. m
    BY <1>1, <1>3
  <2> QED
    BY <1>2, <2>1 DEF Starts
<1>6. pos[j] < pos[j + 1]
  BY <1>2, <1>3
<1>7. ASSUME NEW x \in Starts(c, pos) PROVE x <= pos[j] \/ x >= pos[j + 1]
  <2>1. PICK k \in 1 .. m : x = pos[k]
    BY DEF Starts
  <2>2. k \in 1 .. m + 1 /\ (k = j \/ k < j \/ k = j + 1 \/ j + 1 < k)
    BY <1>1, <1>3
  <2>3. pos[k] \in 1 .. n + 1 /\ pos[j] \in 1 .. n + 1 /\ pos[j + 1] \in 1 .. n + 1
    BY <1>1, <1>3, <2>2
  <2>4. k < j => pos[k] < pos[j]
    BY <1>2, <1>3, <2>2
  <2>5. j + 1 < k => pos[j + 1] < pos[k]
    BY <1>2, <1>3, <2>2
  <2>6. pos[k] \in Int /\ pos[j] \in Int /\ pos[j + 1] \in Int
    BY <2>3
  <2>7. pos[k] <= pos[j] \/ pos[k] >= pos[j + 1]
    <3>1. CASE k = j \/ k = j + 1
      BY <2>6, <3>1
    <3>2. CASE k < j
      BY <2>4, <2>6, <3>2
    <3>3. CASE j + 1 < k
      BY <2>5, <2>6, <3>3
    <3> QED
      BY <2>2, <3>1, <3>2, <3>3
  <2> QED
    BY <2>1, <2>7
<1> QED
  BY <1>4, <1>5, <1>6, <1>7 DEF Neighbours

LEMMA NeighbourIsSymbol ==
  ASSUME NEW w, Len(w) \in Nat, NEW c, NEW pos, Spells(w, c, pos), NEW p, NEW q,
         Neighbours(w, Starts(c, pos), p, q)
  PROVE  \E j \in 1 .. Len(c) : p = pos[j] /\ q = pos[j + 1]
<1>1. PICK j \in 1 .. Len(c) : p = pos[j]
  BY DEF Neighbours, Starts
<1>2. Neighbours(w, Starts(c, pos), p, pos[j + 1])
  BY <1>1, SymbolIsNeighbour
<1>3. Len(c) \in Nat /\ (\A k \in 1 .. Len(c) + 1 : pos[k] \in 1 .. Len(w) + 1)
  BY SpellsFacts
<1>4. j \in 1 .. Len(c) + 1 /\ j + 1 \in 1 .. Len(c) + 1
  BY <1>3
<1>5. p \in Nat /\ pos[j + 1] \in 1 .. Len(w) + 1
  BY <1>1, <1>3, <1>4
<1>6. q \in 1 .. Len(w) + 1
  <2>1. Len(w) + 1 \in 1 .. Len(w) + 1
    OBVIOUS
  <2>2. \A x \in Starts(c, pos) : x \in 1 .. Len(w) + 1
    <3>1. \A k \in 1 .. Len(c) : k \in 1 .. Len(c) + 1
      BY <1>3
    <3> QED
      BY <1>3, <3>1 DEF Starts
  <2> QED
    BY <2>1, <2>2 DEF Neighbours
<1>7. q = pos[j + 1]
  BY <1>2, <1>5, <1>6, OneNeighbour
<1> QED
  BY <1>1, <1>7

\* A pair meets where two symbols after one another are its parts.
LEMMA MeetsAtSymbols ==
  ASSUME NEW w, Len(w) \in Nat, NEW c, NEW pos, Spells(w, c, pos), NEW l, NEW i,
         NEW j \in 1 .. Len(c) - 1, l[i] = <<c[j], c[j + 1]>>
  PROVE  Meets(l, w, Starts(c, pos), i, pos[j], pos[j + 1], pos[j + 2])
<1>1. Len(c) \in Nat
  BY SpellsFacts
<1>2. j \in 1 .. Len(c) /\ j + 1 \in 1 .. Len(c) /\ (j + 1) + 1 = j + 2
  BY <1>1
<1>3. Neighbours(w, Starts(c, pos), pos[j], pos[j + 1])
  BY <1>2, SymbolIsNeighbour
<1>4. Neighbours(w, Starts(c, pos), pos[j + 1], pos[j + 2])
  <2>1. Neighbours(w, Starts(c, pos), pos[j + 1], pos[(j + 1) + 1])
    BY <1>2, SymbolIsNeighbour
  <2> QED
    BY <1>2, <2>1
<1>5. c[j] = Slice(w, pos[j], pos[j + 1])
  BY <1>2 DEF Spells
<1>6. c[j + 1] = Slice(w, pos[j + 1], pos[j + 2])
  <2>1. c[j + 1] = Slice(w, pos[j + 1], pos[(j + 1) + 1])
    BY <1>2 DEF Spells
  <2> QED
    BY <1>2, <2>1
<1> QED
  BY <1>3, <1>4, <1>5, <1>6 DEF Meets

LEMMA SymbolsWhereMeets ==
  ASSUME NEW w, Len(w) \in Nat, NEW c, NEW pos, Spells(w, c, pos), NEW l, NEW i,
         NEW p, NEW q, NEW r, Meets(l, w, Starts(c, pos), i, p, q, r)
  PROVE  \E j \in 1 .. Len(c) - 1 : p = pos[j] /\ l[i] = <<c[j], c[j + 1]>>
<1>1. PICK j \in 1 .. Len(c) : p = pos[j] /\ q = pos[j + 1]
  BY NeighbourIsSymbol DEF Meets
<1>2. PICK k \in 1 .. Len(c) : q = pos[k] /\ r = pos[k + 1]
  BY NeighbourIsSymbol DEF Meets
<1>3. Len(c) \in Nat
  BY SpellsFacts
<1>4. j + 1 \in 1 .. Len(c) + 1 /\ k \in 1 .. Len(c) + 1
  BY <1>3
<1>5. k = j + 1
  <2>1. pos[k] = pos[j + 1]
    BY <1>1, <1>2
  <2> QED
    BY <1>4, <2>1, SpellsOnce
<1>6. j \in 1 .. Len(c) - 1
  BY <1>3, <1>5
<1>7. c[j] = Slice(w, p, q) /\ c[k] = Slice(w, q, r)
  BY <1>1, <1>2 DEF Spells
<1> QED
  BY <1>1, <1>5, <1>6, <1>7 DEF Meets

-----------------------------------------------------------------------------
(* verify3's tables.                                                        *)

LEMMA GreatestUpTo ==
  ASSUME NEW n \in Nat, NEW S \in SUBSET (1 .. n), S # {}
  PROVE  \E k \in S : \A j \in S : j <= k
<1> DEFINE T == {n - k : k \in S}
<1>0. \A k \in S : k \in 1 .. n /\ n - k \in Nat
  OBVIOUS
<1>1. T \in SUBSET Nat /\ T # {}
  BY <1>0
<1>2. PICK t \in T : \A u \in T : t <= u
  <2> HIDE DEF T
  <2> QED
    BY <1>1, LeastNat
<1>3. PICK k \in S : t = n - k
  BY <1>2
<1>4. ASSUME NEW j \in S PROVE j <= k
  <2>1. n - k <= n - j
    BY <1>2, <1>3
  <2> QED
    BY <2>1
<1> QED
  BY <1>4

\* A key has its last value.
LEMMA PutAllFacts ==
  ASSUME NEW n \in Nat, NEW keys, DOMAIN keys = 1 .. n, NEW values,
         NEW i \in 1 .. n
  PROVE  \E last \in 1 .. n :
           /\ keys[last] = keys[i]
           /\ \A j \in 1 .. n : keys[j] = keys[i] => j <= last
           /\ V3!PutAll(keys, values)[keys[i]] = values[last]
<1> DEFINE k == keys[i]
           Last(x) == keys[x] = k /\ \A j \in DOMAIN keys : keys[j] = k => j <= x
           last == CHOOSE x \in DOMAIN keys : Last(x)
<1>1. V3!PutAll(keys, values)[k] = values[last]
  BY DEF V3!PutAll
<1>2. \E x \in 1 .. n : Last(x)
  <2> DEFINE S == {x \in 1 .. n : keys[x] = k}
  <2>1. S \in SUBSET (1 .. n) /\ i \in S
    OBVIOUS
  <2>2. PICK x \in S : \A j \in S : j <= x
    <3> HIDE DEF S
    <3> QED
      BY <2>1, GreatestUpTo
  <2> QED
    BY <2>2
<1>3. last \in 1 .. n /\ Last(last)
  BY <1>2
<1> QED
  BY <1>1, <1>3

LEMMA PutAllDomain ==
  ASSUME NEW keys, NEW values
  PROVE  DOMAIN V3!PutAll(keys, values) = {keys[i] : i \in DOMAIN keys}
BY DEF V3!PutAll

Listed(pair) == \E i \in DOMAIN file.merges : file.merges[i] = pair

LEMMA MergesAre ==
  ASSUME file \in Files
  PROVE  /\ Len(file.merges) \in Nat
         /\ DOMAIN file.merges = 1 .. Len(file.merges)
         /\ \A i \in DOMAIN file.merges :
              /\ file.merges[i] = <<file.merges[i][1], file.merges[i][2]>>
              /\ file.merges[i][1] \in Seq(Char)
              /\ file.merges[i][2] \in Seq(Char)
<1>1. file.merges \in Seq(Seq(Char) \X Seq(Char))
  BY FilesAssumption
<1>2. \A i \in DOMAIN file.merges : file.merges[i] \in Seq(Char) \X Seq(Char)
  BY <1>1, ElementOfSeq, LenProperties
<1>3. Len(file.merges) \in Nat /\ DOMAIN file.merges = 1 .. Len(file.merges)
  BY <1>1, LenProperties
<1> QED
  BY <1>2, <1>3

LEMMA FirstPlaceFacts ==
  ASSUME file \in Files, NEW pair, Listed(pair)
  PROVE  /\ FirstPlace(pair) \in DOMAIN file.merges
         /\ file.merges[FirstPlace(pair)] = pair
         /\ \A j \in DOMAIN file.merges : file.merges[j] = pair => FirstPlace(pair) <= j
<1> DEFINE S == {i \in DOMAIN file.merges : file.merges[i] = pair}
<1>1. S \in SUBSET Nat /\ S # {}
  BY MergesAre DEF Listed
<1>2. PICK i \in S : \A j \in S : i <= j
  <2> HIDE DEF S
  <2> QED
    BY <1>1, LeastNat
<1> QED
  BY <1>2 DEF FirstPlace

\* The rank of listed neighbours is the last place of their pair.
LEMMA RankIsLastPlace ==
  ASSUME file \in Files, KeysApart, NEW l \in Strands, NEW r \in Strands
  PROVE  /\ V3!Key(l, r) \in DOMAIN V3!RankTable(file) <=> Listed(<<l, r>>)
         /\ Listed(<<l, r>>) =>
              /\ V3!RankTable(file)[V3!Key(l, r)] = LastPlace(<<l, r>>)
              /\ LastPlace(<<l, r>>) \in DOMAIN file.merges
              /\ file.merges[LastPlace(<<l, r>>)] = <<l, r>>
<1> DEFINE n == Len(file.merges)
           keys == [i \in DOMAIN file.merges |-> V3!ListedKey(file.merges[i])]
           values == [i \in DOMAIN file.merges |-> i]
           pair == <<l, r>>
           Last(x) == file.merges[x] = pair /\ \A j \in DOMAIN file.merges : file.merges[j] = pair => j <= x
<1>1. n \in Nat /\ DOMAIN file.merges = 1 .. n /\ DOMAIN keys = 1 .. n
  BY MergesAre
<1>2. V3!RankTable(file) = V3!PutAll(keys, values)
  BY DEF V3!RankTable
<1>3. \A i \in 1 .. n : keys[i] = V3!Key(l, r) <=> file.merges[i] = pair
  BY <1>1 DEF KeysApart
<1>4. V3!Key(l, r) \in DOMAIN V3!RankTable(file) <=> Listed(pair)
  <2> HIDE DEF n, keys, values
  <2>1. V3!Key(l, r) \in DOMAIN V3!RankTable(file) <=> \E i \in 1 .. n : keys[i] = V3!Key(l, r)
    BY <1>1, <1>2, PutAllDomain, ZenonT(60)
  <2> QED
    BY <1>1, <1>3, <2>1 DEF Listed
<1>5. ASSUME Listed(pair)
      PROVE  /\ V3!RankTable(file)[V3!Key(l, r)] = LastPlace(pair)
             /\ LastPlace(pair) \in DOMAIN file.merges
             /\ file.merges[LastPlace(pair)] = pair
  <2>1. PICK i \in 1 .. n : file.merges[i] = pair
    BY <1>1, <1>5 DEF Listed
  <2>2. keys[i] = V3!Key(l, r)
    BY <1>3, <2>1
  <2> HIDE DEF n, keys, values
  <2>3. PICK last \in 1 .. n :
          /\ keys[last] = keys[i]
          /\ \A j \in 1 .. n : keys[j] = keys[i] => j <= last
          /\ V3!PutAll(keys, values)[keys[i]] = values[last]
    BY <1>1, PutAllFacts
  <2>4. Last(last)
    BY <1>1, <1>3, <2>2, <2>3
  <2>5. LastPlace(pair) = CHOOSE x \in DOMAIN file.merges : Last(x)
    BY DEF LastPlace
  <2>6. LastPlace(pair) \in DOMAIN file.merges /\ Last(LastPlace(pair))
    <3> HIDE DEF Last
    <3> QED
      BY <1>1, <2>4, <2>5
  <2>7. LastPlace(pair) = last
    <3>1. LastPlace(pair) <= last /\ last <= LastPlace(pair)
      BY <1>1, <2>4, <2>6
    <3>2. LastPlace(pair) \in Int /\ last \in Int
      BY <1>1, <2>6
    <3> QED
      BY <3>1, <3>2
  <2>8. values[last] = last
    BY <1>1 DEF values
  <2> QED
    BY <1>2, <2>2, <2>3, <2>6, <2>7, <2>8
<1> QED
  BY <1>4, <1>5

-----------------------------------------------------------------------------
(* A step of verify3's loop.                                                *)

\* As BpeRescan's Joined, for any symbols.
JoinedAt(c, i) ==
  [j \in 1 .. Len(c) - 1 |->
     CASE j < i -> c[j]
       [] j = i -> c[i] \o c[i + 1]
       [] j > i -> c[j + 1]]

LEMMA JoinedEntry ==
  ASSUME NEW c, NEW i \in Int, NEW j \in 1 .. Len(c) - 1
  PROVE  /\ j < i => JoinedAt(c, i)[j] = c[j]
         /\ j = i => JoinedAt(c, i)[j] = c[i] \o c[i + 1]
         /\ j > i => JoinedAt(c, i)[j] = c[j + 1]
<1> DEFINE d == JoinedAt(c, i)
<1>1. d[j] = CASE j < i -> c[j] [] j = i -> c[i] \o c[i + 1] [] j > i -> c[j + 1]
  BY DEF JoinedAt
<1> HIDE DEF d
<1>2. j \in Int
  OBVIOUS
<1>3. CASE j < i
  <2>1. ~ (j = i) /\ ~ (j > i)
    BY <1>2, <1>3
  <2> QED
    BY <1>1, <1>3, <2>1 DEF d
<1>4. CASE j = i
  <2>1. ~ (j < i) /\ ~ (j > i)
    BY <1>2, <1>4
  <2> QED
    BY <1>1, <1>4, <2>1 DEF d
<1>5. CASE j > i
  <2>1. ~ (j < i) /\ ~ (j = i)
    BY <1>2, <1>5
  <2> QED
    BY <1>1, <1>5, <2>1 DEF d
<1> QED
  BY <1>2, <1>3, <1>4, <1>5

\* Joining two symbols takes the position between them away.
LEMMA JoinedSpells ==
  ASSUME NEW w \in Seq(Char), NEW c, NEW pos, Spells(w, c, pos), NEW i \in 1 .. Len(c) - 1
  PROVE  \E pos2 : /\ Spells(w, JoinedAt(c, i), pos2)
                   /\ Starts(JoinedAt(c, i), pos2) = Starts(c, pos) \ {pos[i + 1]}
<1> DEFINE d == JoinedAt(c, i)
           m == Len(c)
           n == Len(w)
           pos2 == [j \in 1 .. m |-> IF j <= i THEN pos[j] ELSE pos[j + 1]]
<1>1. m \in Nat /\ n \in Nat /\ (\A j \in 1 .. m + 1 : pos[j] \in 1 .. n + 1)
  BY LenProperties, SpellsFacts
<1>2. /\ c \in Seq(Seq(Char))
      /\ pos[1] = 1 /\ pos[m + 1] = n + 1
      /\ \A j, k \in 1 .. m + 1 : j < k => pos[j] < pos[k]
      /\ \A j \in 1 .. m : c[j] = Slice(w, pos[j], pos[j + 1])
  BY DEF Spells
<1> HIDE DEF m, n
<1>3. i \in 1 .. m - 1 /\ i \in 1 .. m /\ i + 1 \in 1 .. m
  BY <1>1 DEF m
<1>4. \A j \in 1 .. m : c[j] \in Seq(Char)
  BY <1>2, ElementOfSeq DEF m
<1>5. /\ DOMAIN d = 1 .. m - 1
      /\ \A j \in 1 .. m - 1 : /\ j < i => d[j] = c[j]
                               /\ j = i => d[j] = c[i] \o c[i + 1]
                               /\ j > i => d[j] = c[j + 1]
  <2>1. DOMAIN d = 1 .. m - 1
    BY DEF JoinedAt, m
  <2>2. ASSUME NEW j \in 1 .. m - 1
        PROVE  /\ j < i => d[j] = c[j]
               /\ j = i => d[j] = c[i] \o c[i + 1]
               /\ j > i => d[j] = c[j + 1]
    <3>1. i \in Int /\ j \in 1 .. Len(c) - 1
      BY <1>3 DEF m
    <3> QED
      BY <3>1, JoinedEntry, Zenon
  <2> HIDE DEF d
  <2> QED
    BY <2>1, <2>2
<1> HIDE DEF d
<1>6. \A j \in 1 .. m - 1 : j \in 1 .. m /\ j + 1 \in 1 .. m /\ j \in Int
  BY <1>1
<1>7. \A j \in 1 .. m - 1 : d[j] \in Seq(Char)
  <2>1. c[i] \o c[i + 1] \in Seq(Char)
    BY <1>3, <1>4, ConcatProperties
  <2>2. ASSUME NEW j \in 1 .. m - 1 PROVE d[j] \in Seq(Char)
    <3>1. j \in 1 .. m /\ j + 1 \in 1 .. m /\ (j < i \/ j = i \/ j > i)
      BY <1>3, <1>6
    <3>2. CASE j < i
      BY <1>4, <1>5, <3>1, <3>2
    <3>3. CASE j = i
      BY <1>5, <2>1, <3>3
    <3>4. CASE j > i
      BY <1>4, <1>5, <3>1, <3>4
    <3> QED
      BY <3>1, <3>2, <3>3, <3>4
  <2> QED
    BY <2>2
<1>8. d \in Seq(Seq(Char)) /\ Len(d) = m - 1
  <2>1. m - 1 \in Nat
    BY <1>1, <1>3
  <2>2. d \in [1 .. m - 1 -> Seq(Char)]
    <3>1. d = [j \in 1 .. m - 1 |-> d[j]]
      BY <1>5 DEF d, JoinedAt, m
    <3> QED
      BY <1>7, <3>1
  <2>3. d \in Seq(Seq(Char))
    BY <2>1, <2>2, IsASeq
  <2> QED
    BY <1>5, <2>1, <2>3, LenProperties
<1>9. /\ \A j \in 1 .. m : j <= i => pos2[j] = pos[j]
      /\ \A j \in 1 .. m : j > i => pos2[j] = pos[j + 1]
      /\ \A j \in 1 .. m : pos2[j] \in 1 .. n + 1
      /\ pos2 \in [1 .. m -> 1 .. n + 1]
  <2>1. \A j \in 1 .. m : j \in 1 .. m + 1 /\ j + 1 \in 1 .. m + 1
    BY <1>1
  <2>2. \A j \in 1 .. m : j > i <=> ~ (j <= i)
    BY <1>1, <1>3
  <2>3. \A j \in 1 .. m : pos2[j] = IF j <= i THEN pos[j] ELSE pos[j + 1]
    OBVIOUS
  <2>4. pos2 = [j \in 1 .. m |-> pos2[j]]
    OBVIOUS
  <2> HIDE DEF pos2
  <2>5. \A j \in 1 .. m : pos2[j] \in 1 .. n + 1
    BY <1>1, <2>1, <2>3
  <2>6. pos2 \in [1 .. m -> 1 .. n + 1]
    BY <2>4, <2>5
  <2>7. /\ \A j \in 1 .. m : j <= i => pos2[j] = pos[j]
        /\ \A j \in 1 .. m : j > i => pos2[j] = pos[j + 1]
    BY <2>2, <2>3
  <2> QED
    BY <2>5, <2>6, <2>7
<1> HIDE DEF pos2
<1>10. pos2[1] = 1 /\ pos2[m] = n + 1
  <2>1. 1 \in 1 .. m /\ m \in 1 .. m /\ 1 <= i /\ m > i
    BY <1>1, <1>3
  <2>2. pos2[1] = pos[1] /\ pos2[m] = pos[m + 1]
    BY <1>9, <2>1
  <2> QED
    BY <1>2, <2>2
<1>11. ASSUME NEW j \in 1 .. m, NEW k \in 1 .. m, j < k PROVE pos2[j] < pos2[k]
  <2>1. /\ j \in 1 .. m + 1 /\ j + 1 \in 1 .. m + 1 /\ k \in 1 .. m + 1 /\ k + 1 \in 1 .. m + 1
        /\ j < k + 1 /\ j + 1 < k + 1 /\ j \in Int /\ k \in Int /\ i \in Int
    BY <1>1, <1>3, <1>11
  <2>2. pos[j] < pos[k] /\ pos[j] < pos[k + 1] /\ pos[j + 1] < pos[k + 1]
    BY <1>2, <1>11, <2>1
  <2>3. CASE k <= i
    BY <1>9, <1>11, <2>1, <2>2, <2>3
  <2>4. CASE j <= i /\ i < k
    BY <1>9, <2>1, <2>2, <2>4
  <2>5. CASE i < j
    BY <1>9, <1>11, <2>1, <2>2, <2>5
  <2> QED
    BY <1>11, <2>1, <2>3, <2>4, <2>5
<1>12. ASSUME NEW j \in 1 .. m - 1 PROVE d[j] = Slice(w, pos2[j], pos2[j + 1])
  <2>1. j \in 1 .. m /\ j + 1 \in 1 .. m /\ j \in Int /\ i \in Int
    BY <1>3, <1>6
  <2>2. CASE j < i
    <3>1. pos2[j] = pos[j] /\ pos2[j + 1] = pos[j + 1]
      BY <1>9, <2>1, <2>2
    <3> QED
      BY <1>2, <1>5, <2>1, <2>2, <3>1
  <2>3. CASE j > i
    <3>1. pos2[j] = pos[j + 1] /\ pos2[j + 1] = pos[(j + 1) + 1]
      BY <1>9, <2>1, <2>3
    <3> QED
      BY <1>2, <1>5, <2>1, <2>3, <3>1
  <2>4. CASE j = i
    <3>1. pos2[j] = pos[i] /\ pos2[j + 1] = pos[(i + 1) + 1]
      BY <1>9, <2>1, <2>4
    <3>2. c[i] = Slice(w, pos[i], pos[i + 1]) /\ c[i + 1] = Slice(w, pos[i + 1], pos[(i + 1) + 1])
      BY <1>2, <1>3
    <3>3. /\ i \in 1 .. m + 1 /\ i + 1 \in 1 .. m + 1 /\ (i + 1) + 1 \in 1 .. m + 1
          /\ i < i + 1 /\ i + 1 < (i + 1) + 1
      BY <1>1, <1>3
    <3>4. /\ pos[i] \in 1 .. n + 1 /\ pos[i + 1] \in 1 .. n + 1 /\ pos[(i + 1) + 1] \in 1 .. n + 1
          /\ pos[i] < pos[i + 1] /\ pos[i + 1] < pos[(i + 1) + 1]
      BY <1>1, <1>2, <3>3
    <3>5. pos[i + 1] \in pos[i] .. n + 1 /\ pos[(i + 1) + 1] \in pos[i + 1] .. n + 1
      BY <1>1, <3>4
    <3>6. Slice(w, pos[i], pos[i + 1]) \o Slice(w, pos[i + 1], pos[(i + 1) + 1])
            = Slice(w, pos[i], pos[(i + 1) + 1])
      BY <3>4, <3>5, SliceConcat DEF n
    <3> QED
      BY <1>5, <2>4, <3>1, <3>2, <3>6
  <2> QED
    BY <2>1, <2>2, <2>3, <2>4
<1>13. Spells(w, d, pos2)
  <2>1. Len(d) + 1 = m
    BY <1>1, <1>8
  <2> QED
    BY <1>8, <1>9, <1>10, <1>11, <1>12, <2>1 DEF Spells, n
<1>14. Starts(d, pos2) = Starts(c, pos) \ {pos[i + 1]}
  <2>1. ASSUME NEW j \in 1 .. m - 1 PROVE pos2[j] \in Starts(c, pos) \ {pos[i + 1]}
    <3>1. j \in 1 .. m /\ j + 1 \in 1 .. m /\ j \in Int /\ i \in Int
      BY <1>3, <1>6
    <3>2. j \in 1 .. m + 1 /\ j + 1 \in 1 .. m + 1 /\ i + 1 \in 1 .. m + 1
      BY <1>1, <1>3, <3>1
    <3>3. CASE j <= i
      <4>1. pos2[j] = pos[j] /\ j # i + 1
        BY <1>9, <3>1, <3>3
      <4>2. pos[j] # pos[i + 1]
        BY <1>1, <3>2, <4>1, SpellsOnce DEF m, n
      <4> QED
        BY <3>1, <4>1, <4>2 DEF Starts, m
    <3>4. CASE j > i
      <4>1. pos2[j] = pos[j + 1] /\ j + 1 # i + 1
        BY <1>9, <3>1, <3>4
      <4>2. pos[j + 1] # pos[i + 1]
        BY <1>1, <3>2, <4>1, SpellsOnce, SMTT(30) DEF m, n
      <4> QED
        BY <3>1, <4>1, <4>2 DEF Starts, m
    <3> QED
      BY <3>1, <3>3, <3>4
  <2>2. ASSUME NEW j \in 1 .. m, pos[j] # pos[i + 1] PROVE \E k \in 1 .. m - 1 : pos[j] = pos2[k]
    <3>1. j # i + 1 /\ j \in Int /\ i \in Int
      BY <1>3, <2>2
    <3>2. CASE j <= i
      <4>1. j \in 1 .. m - 1 /\ pos2[j] = pos[j]
        BY <1>1, <1>3, <1>9, <3>2
      <4> QED
        BY <4>1
    <3>3. CASE j > i
      <4>1. j - 1 \in 1 .. m - 1 /\ j - 1 \in 1 .. m /\ j - 1 > i /\ (j - 1) + 1 = j
        BY <1>1, <1>3, <3>1, <3>3
      <4>2. pos2[j - 1] = pos[j]
        BY <1>9, <4>1
      <4> QED
        BY <4>1, <4>2
    <3> QED
      BY <3>1, <3>2, <3>3
  <2>3. Starts(d, pos2) = {pos2[j] : j \in 1 .. m - 1} /\ Starts(c, pos) = {pos[j] : j \in 1 .. m}
    BY <1>8 DEF Starts, m
  <2> QED
    BY <2>1, <2>2, <2>3
<1> QED
  BY <1>13, <1>14 DEF d

\* What a state of verify3's loop is, as far as the lemmas below need it.
Scanning(pos) ==
  /\ file \in Files
  /\ word \in Seq(Char)
  /\ KeysApart
  /\ RepeatsKeepOrder
  /\ cranks = V3!RankTable(file)
  /\ Spells(word, csymbols, pos)
  /\ \A j \in 1 .. Len(csymbols) : csymbols[j] \in Strands

PairAt(j) == <<csymbols[j], csymbols[j + 1]>>

LEMMA FoundIsListed ==
  ASSUME NEW pos, Scanning(pos), NEW j \in 1 .. Len(csymbols) - 1
  PROVE  /\ j \in V3!Found <=> Listed(PairAt(j))
         /\ Listed(PairAt(j)) => /\ cranks[V3!PairKey(j)] = LastPlace(PairAt(j))
                                 /\ LastPlace(PairAt(j)) \in DOMAIN file.merges
                                 /\ file.merges[LastPlace(PairAt(j))] = PairAt(j)
<1>1. Len(csymbols) \in Nat
  BY LenProperties DEF Scanning, Spells
<1>2. j \in 1 .. Len(csymbols) /\ j + 1 \in 1 .. Len(csymbols)
  BY <1>1
<1>3. csymbols[j] \in Strands /\ csymbols[j + 1] \in Strands
  BY <1>2 DEF Scanning
<1>4. V3!PairKey(j) = V3!Key(csymbols[j], csymbols[j + 1])
  BY DEF V3!PairKey
<1>5. j \in V3!Found <=> V3!PairKey(j) \in DOMAIN cranks
  BY DEF V3!Found
<1>6. file \in Files /\ KeysApart /\ cranks = V3!RankTable(file)
  BY DEF Scanning
<1> QED
  BY <1>3, <1>4, <1>5, <1>6, RankIsLastPlace DEF PairAt

LEMMA PositionsAre ==
  ASSUME NEW pos, Scanning(pos)
  PROVE  /\ Len(word) \in Nat
         /\ Len(csymbols) \in Nat
         /\ \A j \in 1 .. Len(csymbols) + 1 : pos[j] \in 1 .. Len(word) + 1
         /\ \A j, k \in 1 .. Len(csymbols) + 1 : j <= k => pos[j] <= pos[k]
<1>1. Len(word) \in Nat /\ Spells(word, csymbols, pos)
  BY LenProperties DEF Scanning
<1>2. Len(csymbols) \in Nat /\ \A j \in 1 .. Len(csymbols) + 1 : pos[j] \in 1 .. Len(word) + 1
  BY <1>1, SpellsFacts
<1>3. ASSUME NEW j \in 1 .. Len(csymbols) + 1, NEW k \in 1 .. Len(csymbols) + 1, j <= k
      PROVE  pos[j] <= pos[k]
  <2>1. pos[j] \in Int /\ pos[k] \in Int
    BY <1>2
  <2>2. j = k \/ j < k
    BY <1>3
  <2>3. j < k => pos[j] < pos[k]
    BY <1>1 DEF Spells
  <2> QED
    BY <2>1, <2>2, <2>3
<1> QED
  BY <1>1, <1>2, <1>3

LEMMA BestMerges ==
  ASSUME NEW pos, Scanning(pos), NEW i \in V3!Found, V3!Best(i)
  PROVE  /\ i \in 1 .. Len(csymbols) - 1
         /\ Listed(PairAt(i))
         /\ MergedTo(file.merges, word, Starts(csymbols, pos), Starts(csymbols, pos) \ {pos[i + 1]})
<1> DEFINE pair == PairAt(i)
           f == FirstPlace(pair)
           c == Starts(csymbols, pos)
           P == 1 .. Len(word) + 1
<1>1. i \in 1 .. Len(csymbols) - 1
  BY DEF V3!Found
<1>2. file \in Files /\ Spells(word, csymbols, pos) /\ RepeatsKeepOrder
  BY DEF Scanning
<1>3. /\ Len(word) \in Nat /\ Len(csymbols) \in Nat
      /\ \A j \in 1 .. Len(csymbols) + 1 : pos[j] \in P
      /\ \A j, k \in 1 .. Len(csymbols) + 1 : j <= k => pos[j] <= pos[k]
  BY PositionsAre
<1>4. Listed(pair)
  BY <1>1, FoundIsListed
<1>5. /\ f \in DOMAIN file.merges /\ file.merges[f] = pair
      /\ \A j \in DOMAIN file.merges : file.merges[j] = pair => f <= j
  BY <1>2, <1>4, FirstPlaceFacts
<1>6. DOMAIN file.merges \subseteq Int
  BY <1>2, MergesAre
<1>7. pos[i] \in P /\ pos[i + 1] \in P /\ pos[i + 2] \in P
  BY <1>1, <1>3
<1>8. Meets(file.merges, word, c, f, pos[i], pos[i + 1], pos[i + 2])
  BY <1>1, <1>2, <1>3, <1>5, MeetsAtSymbols DEF PairAt
<1>9. ASSUME NEW j \in DOMAIN file.merges, NEW p2 \in P, NEW q2 \in P, NEW r2 \in P,
             Meets(file.merges, word, c, j, p2, q2, r2)
      PROVE  f < j \/ (file.merges[f] = file.merges[j] /\ pos[i] <= p2)
  <2>1. PICK k \in 1 .. Len(csymbols) - 1 :
          p2 = pos[k] /\ file.merges[j] = <<csymbols[k], csymbols[k + 1]>>
    BY <1>2, <1>3, <1>9, SymbolsWhereMeets
  <2> DEFINE other == PairAt(k)
             g == FirstPlace(other)
  <2>2. file.merges[j] = other
    BY <2>1 DEF PairAt
  <2>3. Listed(other)
    BY <2>2 DEF Listed
  <2>4. k \in V3!Found
    BY <2>3, FoundIsListed
  <2>5. \/ cranks[V3!PairKey(k)] > cranks[V3!PairKey(i)]
        \/ cranks[V3!PairKey(k)] = cranks[V3!PairKey(i)] /\ i <= k
    BY <2>4 DEF V3!Best
  <2>6. /\ cranks[V3!PairKey(k)] = LastPlace(other) /\ cranks[V3!PairKey(i)] = LastPlace(pair)
        /\ file.merges[LastPlace(other)] = other /\ file.merges[LastPlace(pair)] = pair
        /\ LastPlace(other) \in DOMAIN file.merges /\ LastPlace(pair) \in DOMAIN file.merges
    BY <1>1, <1>4, <2>1, <2>3, FoundIsListed
  <2>7. /\ g \in DOMAIN file.merges
        /\ \A x \in DOMAIN file.merges : file.merges[x] = other => g <= x
    BY <1>2, <2>3, FirstPlaceFacts
  <2>8. CASE LastPlace(pair) < LastPlace(other)
    <3>1. pair \in {file.merges[x] : x \in DOMAIN file.merges} /\ other \in {file.merges[x] : x \in DOMAIN file.merges}
      BY <2>6
    <3>2. f < g
      BY <1>2, <2>8, <3>1 DEF RepeatsKeepOrder
    <3>3. g <= j
      BY <2>2, <2>7
    <3>4. f \in Int /\ g \in Int /\ j \in Int
      BY <1>5, <1>6, <2>7
    <3> HIDE DEF f, g
    <3> QED
      BY <3>2, <3>3, <3>4
  <2>9. CASE LastPlace(pair) = LastPlace(other) /\ i <= k
    <3>1. pair = other
      BY <2>6, <2>9
    <3>2. pos[i] <= pos[k]
      <4>1. i \in 1 .. Len(csymbols) + 1 /\ k \in 1 .. Len(csymbols) + 1
        BY <1>1, <1>3
      <4> QED
        BY <1>3, <2>9, <4>1
    <3> QED
      BY <1>5, <2>1, <2>2, <3>1, <3>2
  <2>10. LastPlace(pair) \in Int /\ LastPlace(other) \in Int
    BY <1>6, <2>6
  <2> QED
    BY <2>5, <2>6, <2>8, <2>9, <2>10
<1> HIDE DEF pair, f, c, P
<1>10. MergedTo(file.merges, word, c, c \ {pos[i + 1]})
  BY <1>5, <1>7, <1>8, <1>9 DEF MergedTo, P
<1> QED
  BY <1>1, <1>4, <1>10 DEF c, pair

LEMMA NothingFoundSettles ==
  ASSUME NEW pos, Scanning(pos), V3!Found = {}
  PROVE  Settled(file.merges, word, Starts(csymbols, pos))
<1>1. Spells(word, csymbols, pos) /\ Len(word) \in Nat
  BY LenProperties DEF Scanning
<1>2. ASSUME NEW i \in DOMAIN file.merges, NEW p, NEW q, NEW r,
             Meets(file.merges, word, Starts(csymbols, pos), i, p, q, r)
      PROVE  FALSE
  <2>1. PICK j \in 1 .. Len(csymbols) - 1 : file.merges[i] = PairAt(j)
    BY <1>1, <1>2, SymbolsWhereMeets DEF PairAt
  <2>2. j \in V3!Found
    BY <2>1, FoundIsListed DEF Listed
  <2> QED
    BY <2>2
<1> QED
  BY <1>2 DEF Settled

-----------------------------------------------------------------------------
(* verify3's loop as a walk from cuts to cuts.                              *)

\* The symbols c are cuts the greedy loop gets to, and it has ended when p says
\* that verify3's loop has.
Scanned(l, w, c, p) ==
  \E pos : /\ Spells(w, c, pos)
           /\ Reached(l, w, Starts(c, pos))
           /\ p # "merge" => Settled(l, w, Starts(c, pos))

RescanOk ==
  /\ cpc \in {"load", "split", "merge", "ids", "done", "exit"}
  /\ cpc # "load" => cvocab = V3!VocabTable(file) /\ cranks = V3!RankTable(file)
  /\ KeysApart /\ RepeatsKeepOrder /\ cpc \in {"merge", "ids", "done", "exit"} =>
       /\ Scanned(file.merges, word, csymbols, cpc)
       /\ \A j \in 1 .. Len(csymbols) : csymbols[j] \in Strands
  /\ cpc = "done" =>
       /\ cout = [i \in DOMAIN csymbols |-> cvocab[csymbols[i]]]
       /\ \A i \in DOMAIN csymbols : csymbols[i] \in DOMAIN cvocab
  /\ cpc = "exit" => \E i \in DOMAIN csymbols : csymbols[i] \notin DOMAIN cvocab

LEMMA SameInputs ==
  ASSUME file' = file, word' = word
  PROVE  /\ KeysApart' <=> KeysApart
         /\ RepeatsKeepOrder' <=> RepeatsKeepOrder
         /\ Strands' = Strands
BY DEF KeysApart, RepeatsKeepOrder, FirstPlace, LastPlace, Strands

\* The first symbols are the characters.
LEMMA SplitSpells ==
  ASSUME NEW w \in Seq(Char), NEW c, c = [i \in 1 .. Len(w) |-> <<w[i]>>]
  PROVE  Len(c) = Len(w) /\ \E pos : Spells(w, c, pos) /\ Starts(c, pos) = 1 .. Len(w)
<1> DEFINE n == Len(w)
           pos == [j \in 1 .. n + 1 |-> j]
<1>1. n \in Nat /\ \A i \in 1 .. n : w[i] \in Char
  BY LenProperties, ElementOfSeq
<1>2. c \in Seq(Seq(Char)) /\ Len(c) = n
  <2>1. \A i \in 1 .. n : <<w[i]>> \in Seq(Char)
    BY <1>1
  <2>2. c \in [1 .. n -> Seq(Char)]
    BY <2>1
  <2>3. c \in Seq(Seq(Char))
    BY <1>1, <2>2, IsASeq
  <2> QED
    BY <1>1, <2>2, <2>3, LenProperties
<1>3. \A i \in 1 .. n : c[i] = Slice(w, i, i + 1)
  BY SliceChar
<1>4. \A i \in 1 .. n : i \in 1 .. n + 1 /\ i + 1 \in 1 .. n + 1
  BY <1>1
<1>5. Spells(w, c, pos)
  <2>1. /\ pos \in [1 .. n + 1 -> 1 .. n + 1] /\ pos[1] = 1 /\ pos[n + 1] = n + 1
        /\ \A i \in 1 .. n + 1 : pos[i] = i
    BY <1>1
  <2> HIDE DEF pos, n
  <2>2. \A i \in 1 .. n : c[i] = Slice(w, pos[i], pos[i + 1])
    BY <1>3, <1>4, <2>1
  <2> QED
    BY <1>2, <2>1, <2>2 DEF Spells, n
<1>6. Starts(c, pos) = 1 .. n
  <2>1. \A i \in 1 .. n : pos[i] = i
    BY <1>4
  <2> HIDE DEF pos
  <2> QED
    BY <1>2, <2>1 DEF Starts
<1> QED
  BY <1>2, <1>5, <1>6

LEMMA RescanSplits ==
  ASSUME Context, RescanOk, V3!Split
  PROVE  RescanOk'
<1>1. /\ cpc = "split" /\ cpc' = "merge" /\ file' = file /\ word' = word
      /\ cvocab' = cvocab /\ cranks' = cranks
      /\ csymbols' = [i \in 1 .. Len(word) |-> <<word[i]>>]
  BY DEF V3!Split
<1>2. word \in Seq(Char)
  BY WordsAssumption DEF Context
<1>3. Len(csymbols') = Len(word)
  BY <1>1, <1>2, SplitSpells
<1>4. PICK pos : Spells(word, csymbols', pos) /\ Starts(csymbols', pos) = 1 .. Len(word)
  BY <1>1, <1>2, SplitSpells
<1>5. Scanned(file.merges, word, csymbols', "merge")
  BY <1>4, ReachedFirst DEF Scanned
<1>6. \A j \in 1 .. Len(csymbols') : csymbols'[j] \in Strands
  <2>1. DOMAIN word = 1 .. Len(word)
    BY <1>2, LenProperties
  <2> QED
    BY <1>1, <1>3, <2>1 DEF Strands
<1>7. cvocab = V3!VocabTable(file) /\ cranks = V3!RankTable(file)
  BY <1>1 DEF RescanOk
<1>8. (V3!VocabTable(file))' = V3!VocabTable(file) /\ (V3!RankTable(file))' = V3!RankTable(file)
  BY <1>1 DEF V3!VocabTable, V3!RankTable
<1>9. Strands' = Strands
  BY <1>1, SameInputs
<1> QED
  BY <1>1, <1>5, <1>6, <1>7, <1>8, <1>9 DEF RescanOk

LEMMA RescanMerges ==
  ASSUME Context, RescanOk, V3!Merge
  PROVE  RescanOk'
<1>1. /\ cpc = "merge" /\ cpc' = "merge" /\ file' = file /\ word' = word
      /\ cvocab' = cvocab /\ cranks' = cranks
  BY DEF V3!Merge
<1>2. PICK i \in V3!Found : V3!Best(i) /\ csymbols' = V3!Joined(i)
  BY DEF V3!Merge
<1>3. cvocab = V3!VocabTable(file) /\ cranks = V3!RankTable(file)
  BY <1>1 DEF RescanOk
<1>4. (V3!VocabTable(file))' = V3!VocabTable(file) /\ (V3!RankTable(file))' = V3!RankTable(file)
  BY <1>1 DEF V3!VocabTable, V3!RankTable
<1>5. /\ KeysApart' <=> KeysApart
      /\ RepeatsKeepOrder' <=> RepeatsKeepOrder
      /\ Strands' = Strands
  BY <1>1, SameInputs
<1>6. csymbols' = JoinedAt(csymbols, i)
  BY <1>2 DEF V3!Joined, JoinedAt
<1>7. ASSUME KeysApart, RepeatsKeepOrder
      PROVE  /\ Scanned(file.merges, word, csymbols', "merge")
             /\ \A j \in 1 .. Len(csymbols') : csymbols'[j] \in Strands
  <2>1. file \in Files /\ word \in Seq(Char)
    BY WordsAssumption DEF Context
  <2>2. /\ Scanned(file.merges, word, csymbols, "merge")
        /\ \A j \in 1 .. Len(csymbols) : csymbols[j] \in Strands
    BY <1>1, <1>7 DEF RescanOk
  <2>3. PICK pos : Spells(word, csymbols, pos) /\ Reached(file.merges, word, Starts(csymbols, pos))
    BY <2>2 DEF Scanned
  <2>4. Scanning(pos)
    BY <1>3, <1>7, <2>1, <2>2, <2>3 DEF Scanning
  <2>5. /\ i \in 1 .. Len(csymbols) - 1
        /\ Listed(PairAt(i))
        /\ MergedTo(file.merges, word, Starts(csymbols, pos), Starts(csymbols, pos) \ {pos[i + 1]})
    BY <1>2, <2>4, BestMerges
  <2>6. PICK pos2 : /\ Spells(word, csymbols', pos2)
                    /\ Starts(csymbols', pos2) = Starts(csymbols, pos) \ {pos[i + 1]}
    BY <1>6, <2>1, <2>3, <2>5, JoinedSpells
  <2>7. Reached(file.merges, word, Starts(csymbols', pos2))
    BY <2>3, <2>5, <2>6, ReachedNext
  <2>8. Scanned(file.merges, word, csymbols', "merge")
    BY <2>6, <2>7 DEF Scanned
  <2>9. ASSUME NEW j \in 1 .. Len(csymbols') PROVE csymbols'[j] \in Strands
    <3>1. csymbols[i] \o csymbols[i + 1] \in Strands
      <4>1. PICK k \in DOMAIN file.merges : file.merges[k] = <<csymbols[i], csymbols[i + 1]>>
        BY <2>5 DEF Listed, PairAt
      <4>2. csymbols[i] = file.merges[k][1] /\ csymbols[i + 1] = file.merges[k][2]
        BY <4>1
      <4> QED
        BY <4>2 DEF Strands
    <3>2. Len(csymbols) \in Nat /\ Len(csymbols') \in Nat
      BY <2>3, <2>6, LenProperties DEF Spells
    <3>3. DOMAIN csymbols' = 1 .. Len(csymbols) - 1 /\ DOMAIN csymbols' = 1 .. Len(csymbols')
      BY <1>6, <2>6, LenProperties DEF JoinedAt, Spells
    <3>4. j \in 1 .. Len(csymbols) - 1
      BY <3>3
    <3>5. /\ j < i => csymbols'[j] = csymbols[j]
          /\ j = i => csymbols'[j] = csymbols[i] \o csymbols[i + 1]
          /\ j > i => csymbols'[j] = csymbols[j + 1]
      <4>1. i \in Int
        BY <2>5
      <4> QED
        BY <1>6, <3>4, <4>1, JoinedEntry, Zenon
    <3>6. j \in 1 .. Len(csymbols) /\ j + 1 \in 1 .. Len(csymbols) /\ (j < i \/ j = i \/ j > i)
      BY <2>5, <3>2, <3>4
    <3> QED
      BY <2>2, <3>1, <3>5, <3>6
  <2> QED
    BY <2>8, <2>9
<1> QED
  BY <1>1, <1>3, <1>4, <1>5, <1>7 DEF RescanOk

LEMMA RescanSettles ==
  ASSUME Context, RescanOk, V3!Settle
  PROVE  RescanOk'
<1>1. /\ cpc = "merge" /\ cpc' = "ids" /\ file' = file /\ word' = word
      /\ cvocab' = cvocab /\ cranks' = cranks /\ csymbols' = csymbols /\ V3!Found = {}
  BY DEF V3!Settle
<1>2. cvocab = V3!VocabTable(file) /\ cranks = V3!RankTable(file)
  BY <1>1 DEF RescanOk
<1>3. (V3!VocabTable(file))' = V3!VocabTable(file) /\ (V3!RankTable(file))' = V3!RankTable(file)
  BY <1>1 DEF V3!VocabTable, V3!RankTable
<1>4. /\ KeysApart' <=> KeysApart
      /\ RepeatsKeepOrder' <=> RepeatsKeepOrder
      /\ Strands' = Strands
  BY <1>1, SameInputs
<1>5. ASSUME KeysApart, RepeatsKeepOrder
      PROVE  /\ Scanned(file.merges, word, csymbols, "ids")
             /\ \A j \in 1 .. Len(csymbols) : csymbols[j] \in Strands
  <2>1. file \in Files /\ word \in Seq(Char)
    BY WordsAssumption DEF Context
  <2>2. /\ Scanned(file.merges, word, csymbols, "merge")
        /\ \A j \in 1 .. Len(csymbols) : csymbols[j] \in Strands
    BY <1>1, <1>5 DEF RescanOk
  <2>3. PICK pos : Spells(word, csymbols, pos) /\ Reached(file.merges, word, Starts(csymbols, pos))
    BY <2>2 DEF Scanned
  <2>4. Scanning(pos)
    BY <1>2, <1>5, <2>1, <2>2, <2>3 DEF Scanning
  <2>5. Settled(file.merges, word, Starts(csymbols, pos))
    BY <1>1, <2>4, NothingFoundSettles
  <2> QED
    BY <2>2, <2>3, <2>5 DEF Scanned
<1> QED
  BY <1>1, <1>2, <1>3, <1>4, <1>5 DEF RescanOk

LEMMA RescanQuiet ==
  ASSUME RescanOk, UNCHANGED <<file, word>>, UNCHANGED cvars
  PROVE  RescanOk'
<1>1. /\ cpc' = cpc /\ file' = file /\ word' = word /\ cout' = cout
      /\ cvocab' = cvocab /\ cranks' = cranks /\ csymbols' = csymbols
  BY DEF cvars
<1>2. (V3!VocabTable(file))' = V3!VocabTable(file) /\ (V3!RankTable(file))' = V3!RankTable(file)
  BY <1>1 DEF V3!VocabTable, V3!RankTable
<1>3. /\ KeysApart' <=> KeysApart
      /\ RepeatsKeepOrder' <=> RepeatsKeepOrder
      /\ Strands' = Strands
  BY <1>1, SameInputs
<1>4. Scanned(file.merges, word, csymbols, cpc)' <=> Scanned(file.merges, word, csymbols, cpc)
  BY <1>1 DEF Scanned
<1> QED
  BY <1>1, <1>2, <1>3, <1>4 DEF RescanOk

LEMMA RescanLoads ==
  ASSUME V3!Load
  PROVE  RescanOk'
<1>1. /\ cpc' = "split" /\ file' = file
      /\ cvocab' = V3!VocabTable(file) /\ cranks' = V3!RankTable(file)
  BY DEF V3!Load
<1>2. (V3!VocabTable(file))' = V3!VocabTable(file) /\ (V3!RankTable(file))' = V3!RankTable(file)
  BY <1>1 DEF V3!VocabTable, V3!RankTable
<1> QED
  BY <1>1, <1>2 DEF RescanOk

\* The lookup of the ids, with and without success.
LEMMA RescanEnds ==
  ASSUME RescanOk, V3!LookUp \/ V3!Exit
  PROVE  RescanOk'
<1>1. /\ cpc = "ids" /\ cpc' \in {"done", "exit"} /\ file' = file /\ word' = word
      /\ cvocab' = cvocab /\ cranks' = cranks /\ csymbols' = csymbols
  BY DEF V3!LookUp, V3!Exit
<1>2. (V3!VocabTable(file))' = V3!VocabTable(file) /\ (V3!RankTable(file))' = V3!RankTable(file)
  BY <1>1 DEF V3!VocabTable, V3!RankTable
<1>3. /\ KeysApart' <=> KeysApart
      /\ RepeatsKeepOrder' <=> RepeatsKeepOrder
      /\ Strands' = Strands
  BY <1>1, SameInputs
<1>4. Scanned(file.merges, word, csymbols, cpc)' <=> Scanned(file.merges, word, csymbols, cpc)
  BY <1>1 DEF Scanned
<1>5. cpc' = "done" =>
        /\ cout' = [i \in DOMAIN csymbols |-> cvocab[csymbols[i]]]
        /\ \A i \in DOMAIN csymbols : csymbols[i] \in DOMAIN cvocab
  BY DEF V3!LookUp, V3!Exit
<1>6. cpc' = "exit" => \E i \in DOMAIN csymbols : csymbols[i] \notin DOMAIN cvocab
  BY DEF V3!LookUp, V3!Exit
<1> QED
  BY <1>1, <1>2, <1>3, <1>4, <1>5, <1>6 DEF RescanOk

LEMMA RescanStep ==
  ASSUME Context, RescanOk, V3!Next
  PROVE  RescanOk'
BY RescanLoads, RescanSplits, RescanMerges, RescanSettles, RescanEnds DEF V3!Next

-----------------------------------------------------------------------------
(* cis2-verify's loop as a walk from cuts to cuts.                          *)

QueueWalk ==
  /\ Reached(file.merges, word, Cuts)
  /\ pc = "done" => /\ Settled(file.merges, word, Live(symbols))
                    /\ out = Result(symbols)

LEMMA MergeIsMergedTo ==
  ASSUME Greedy!Merge
  PROVE  MergedTo(file.merges, word, Cuts, Cuts') /\ file'.merges = file.merges /\ word' = word
BY DEF Greedy!Merge, Greedy!Occurs, Greedy!Adjacent, Greedy!Slice, Greedy!Positions,
       MergedTo, Meets, Neighbours, Slice, Cuts

LEMMA StopIsSettled ==
  ASSUME Greedy!Stop
  PROVE  Settled(file.merges, word, Cuts)
BY DEF Greedy!Stop, Greedy!Occurs, Greedy!Adjacent, Greedy!Slice, Greedy!Positions,
       Settled, Meets, Neighbours, Slice, Cuts

LEMMA WalkStep ==
  ASSUME IInv, QueueWalk, [Next]_vars
  PROVE  QueueWalk'
<1>0. file' = file /\ word' = word
  BY DEF Next, Load, Refuse, Seed, SeedError, Discard, Apply, Finish, vars
<1>1. ASSUME NEW e \in queue, Apply(e) PROVE QueueWalk'
  <2>1. MergedTo(file.merges, word, Cuts, Cuts')
    BY <1>1, ApplyMerges, MergeIsMergedTo
  <2>2. Reached(file.merges, word, Cuts')
    BY <2>1, ReachedNext DEF QueueWalk
  <2>3. pc' # "done"
    BY <1>1 DEF Apply
  <2> QED
    BY <1>0, <2>2, <2>3 DEF QueueWalk
<1>2. CASE Finish
  <2>1. /\ pc = "merge" /\ pc' = "done" /\ symbols' = symbols /\ out' = Result(symbols)
    BY <1>2 DEF Finish
  <2>2. /\ Cuts' = Cuts /\ Cuts = Live(symbols)
        /\ Live(symbols)' = Live(symbols) /\ Result(symbols)' = Result(symbols)
    BY <1>0, <2>1 DEF Cuts
  <2>3. Settled(file.merges, word, Live(symbols))
    BY <1>2, <2>2, FinishStops, StopIsSettled
  <2> QED
    BY <1>0, <2>1, <2>2, <2>3 DEF QueueWalk
<1>3. CASE Seed
  <2>1. pc' = "merge" /\ Live(symbols)' = 1 .. Len(word) /\ pc = "seed"
    BY <1>3 DEF Seed, InitialSymbols, Live
  <2>2. Cuts' = Cuts
    BY <1>0, <2>1 DEF Cuts
  <2> QED
    BY <1>0, <2>1, <2>2 DEF QueueWalk
<1>4. ASSUME NEW e \in queue, Discard(e) PROVE QueueWalk'
  <2>1. pc = "merge" /\ pc' = "merge" /\ Cuts' = Cuts
    BY <1>0, <1>4 DEF Discard, Cuts, Live
  <2> QED
    BY <1>0, <2>1 DEF QueueWalk
<1>5. CASE Load \/ Refuse \/ SeedError
  <2>1. pc' # "done" /\ Cuts' = Cuts
    BY <1>0, <1>5 DEF Load, Refuse, SeedError, Cuts
  <2> QED
    BY <1>0, <2>1 DEF QueueWalk
<1>6. CASE UNCHANGED vars
  <2>1. /\ pc' = pc /\ Cuts' = Cuts /\ out' = out
        /\ Live(symbols)' = Live(symbols) /\ Result(symbols)' = Result(symbols)
    BY <1>6 DEF vars, Cuts
  <2> QED
    BY <1>0, <2>1 DEF QueueWalk
<1> QED
  BY <1>1, <1>2, <1>3, <1>4, <1>5, <1>6 DEF Next

-----------------------------------------------------------------------------
(* The ids.                                                                 *)

\* The positions pos, m of them and in order, are those of the live symbols.
Enumerates(sym, pos, m) ==
  /\ m \in Nat
  /\ \A j \in 1 .. m : pos[j] \in 1 .. Len(sym) /\ sym[pos[j]].len > 0
  /\ \A i, j \in 1 .. m : i < j => pos[i] < pos[j]
  /\ \A p \in 1 .. Len(sym) : sym[p].len > 0 => \E j \in 1 .. m : p = pos[j]

\* The ids encode_word returns are those of the live symbols, in order.
LEMMA ResultIs ==
  ASSUME NEW sym, Len(sym) \in Nat, NEW pos, NEW m, Enumerates(sym, pos, m)
  PROVE  Result(sym) = [j \in 1 .. m |-> sym[pos[j]].id]
<1> DEFINE n == Len(sym)
           id(p) == sym[p].id
           T == {id(p) : p \in 1 .. n}
           After(k, s) == IF sym[k].len > 0 THEN Append(s, id(k)) ELSE s
           step == [x \in (1 .. n) \X Seq(T) |-> After(x[1], x[2])]
           Solves(f) == f = [p \in 0 .. n |-> IF p = 0 THEN << >> ELSE After(p, f[p - 1])]
           ids == CHOOSE f : Solves(f)
<1>1. /\ n \in Nat /\ m \in Nat
      /\ \A j \in 1 .. m : pos[j] \in 1 .. n /\ sym[pos[j]].len > 0
      /\ \A i, j \in 1 .. m : i < j => pos[i] < pos[j]
      /\ \A p \in 1 .. n : sym[p].len > 0 => \E j \in 1 .. m : p = pos[j]
  BY DEF Enumerates
<1>2. Result(sym) = ids[n]
  BY DEF Result
<1>3. << >> \in Seq(T) /\ \A k \in 1 .. n, s \in Seq(T) : After(k, s) \in Seq(T)
  <2>1. ASSUME NEW k \in 1 .. n, NEW s \in Seq(T) PROVE After(k, s) \in Seq(T)
    <3>1. id(k) \in T
      OBVIOUS
    <3> HIDE DEF T, id
    <3> QED
      BY <3>1, AppendProperties
  <2> HIDE DEF T
  <2> QED
    BY <2>1, EmptySeq
<1> HIDE DEF n, T, After
<1>4. step \in StepTable(n, Seq(T))
  BY <1>3 DEF StepTable
<1>5. PICK g : Follows(g, n, Seq(T), << >>, step)
  <2> HIDE DEF step
  <2> QED
    BY <1>1, <1>3, <1>4, RecursionExists
<1>6. /\ g = [p \in 0 .. n |-> g[p]] /\ g[0] = << >>
      /\ \A p \in 1 .. n : g[p] = After(p, g[p - 1])
      /\ \A p \in 0 .. n : g[p] \in Seq(T)
  <2>1. g \in [0 .. n -> Seq(T)] /\ g[0] = << >>
    BY <1>5 DEF Follows
  <2>2. ASSUME NEW p \in 1 .. n PROVE g[p] = After(p, g[p - 1])
    <3>1. g[p] = step[<<p, g[p - 1]>>]
      BY <1>5 DEF Follows
    <3>2. p - 1 \in 0 .. n
      BY <1>1
    <3>3. <<p, g[p - 1]>> \in (1 .. n) \X Seq(T)
      BY <2>1, <3>2
    <3> QED
      BY <3>1, <3>3
  <2> QED
    BY <2>1, <2>2
<1>7. Solves(g)
  <2>1. \A p \in 0 .. n : p = 0 \/ p \in 1 .. n
    BY <1>1
  <2>2. \A p \in 0 .. n : g[p] = IF p = 0 THEN << >> ELSE After(p, g[p - 1])
    BY <1>6, <2>1
  <2> QED
    BY <1>6, <2>2
<1>8. Solves(ids)
  BY <1>7
<1> HIDE DEF ids
<1>9. ids[0] = << >> /\ \A p \in 1 .. n : ids[p] = After(p, ids[p - 1])
  <2>1. 0 \in 0 .. n /\ \A p \in 1 .. n : p \in 0 .. n /\ p # 0
    BY <1>1
  <2> QED
    BY <1>8, <2>1
<1> HIDE DEF Solves, step
\* Up to k there are the ids of the first j symbols.
<1> DEFINE Part(j) == [i \in 1 .. j |-> id(pos[i])]
           UpToIs(k, j) == /\ \A i \in 1 .. m : pos[i] <= k <=> i <= j
                           /\ ids[k] = Part(j)
           Done == {k \in 0 .. n : \E j \in 0 .. m : UpToIs(k, j)}
<1>10. \A j \in 0 .. m : Part(j) \in Seq(T) /\ Len(Part(j)) = j
  <2>1. ASSUME NEW j \in 0 .. m PROVE Part(j) \in Seq(T) /\ Len(Part(j)) = j
    <3>1. j \in Nat /\ \A i \in 1 .. j : i \in 1 .. m
      BY <1>1
    <3>2. \A i \in 1 .. j : id(pos[i]) \in T
      BY <1>1, <3>1 DEF T
    <3>3. Part(j) \in [1 .. j -> T]
      BY <3>2
    <3>4. Part(j) \in Seq(T)
      BY <3>1, <3>3, IsASeq
    <3>5. DOMAIN Part(j) = 1 .. j
      OBVIOUS
    <3> HIDE DEF Part
    <3> QED
      BY <3>1, <3>4, <3>5, LenProperties
  <2> QED
    BY <2>1
<1>11. 0 \in Done
  <2>1. \A i \in 1 .. m : ~ (pos[i] <= 0) /\ ~ (i <= 0)
    BY <1>1
  <2>2. Part(0) \in Seq(T) /\ Len(Part(0)) = 0
    BY <1>1, <1>10
  <2> HIDE DEF Part
  <2>3. ids[0] = Part(0)
    BY <1>9, <2>2, EmptySeq
  <2>4. UpToIs(0, 0)
    BY <2>1, <2>3
  <2> QED
    BY <1>1, <2>4
<1>12. ASSUME NEW k \in 0 .. n - 1, k \in Done PROVE k + 1 \in Done
  <2>1. PICK j \in 0 .. m : UpToIs(k, j)
    BY <1>12
  <2>2. /\ k + 1 \in 1 .. n /\ k + 1 \in 0 .. n /\ k \in Int /\ j \in Int /\ (k + 1) - 1 = k
        /\ \A i \in 1 .. m : pos[i] \in Int /\ i \in Int
    BY <1>1
  <2>3. ids[k + 1] = After(k + 1, Part(j))
    BY <1>9, <2>1, <2>2
  <2>4. CASE sym[k + 1].len > 0
    <3>1. PICK i0 \in 1 .. m : k + 1 = pos[i0]
      BY <1>1, <2>2, <2>4
    <3>2. ~ (i0 <= j)
      BY <2>1, <2>2, <3>1
    <3>3. j + 1 \in 1 .. m /\ j + 1 \in 0 .. m /\ (j + 1 < i0 \/ j + 1 = i0)
      BY <1>1, <2>2, <3>2
    <3>4. ~ (j + 1 < i0)
      <4>1. ASSUME j + 1 < i0 PROVE pos[j + 1] <= k
        <5>1. pos[j + 1] < pos[i0]
          BY <1>1, <3>3, <4>1
        <5>2. pos[j + 1] \in Int
          BY <2>2, <3>3
        <5> QED
          BY <2>2, <3>1, <5>1, <5>2
      <4>2. ~ (j + 1 <= j)
        BY <2>2
      <4> QED
        BY <2>1, <3>3, <4>1, <4>2
    <3>5. i0 = j + 1
      BY <3>3, <3>4
    <3>6. ASSUME NEW i \in 1 .. m PROVE pos[i] <= k + 1 <=> i <= j + 1
      <4>1. pos[i] <= k <=> i <= j
        BY <2>1
      <4>2. i > j + 1 => pos[i] > k + 1
        BY <1>1, <3>1, <3>5
      <4>3. i = j + 1 => pos[i] = k + 1
        BY <3>1, <3>5
      <4>4. pos[i] \in Int /\ i \in Int
        BY <2>2
      <4> QED
        BY <2>2, <4>1, <4>2, <4>3, <4>4
    <3>7. ids[k + 1] = Append(Part(j), id(k + 1))
      BY <2>3, <2>4 DEF After
    <3>8. Append(Part(j), id(k + 1)) = Part(j + 1)
      <4>1. id(k + 1) \in T
        BY <2>2 DEF T
      <4>2. Part(j) \in Seq(T) /\ Len(Part(j)) = j /\ Part(j + 1) \in Seq(T) /\ Len(Part(j + 1)) = j + 1
        BY <1>10, <3>3
      <4>3. /\ Append(Part(j), id(k + 1)) \in Seq(T)
            /\ Len(Append(Part(j), id(k + 1))) = j + 1
            /\ \A i \in 1 .. j : Append(Part(j), id(k + 1))[i] = Part(j)[i]
            /\ Append(Part(j), id(k + 1))[j + 1] = id(k + 1)
        <5> HIDE DEF Part, id
        <5> QED
          BY <4>1, <4>2, AppendProperties
      <4>4. ASSUME NEW i \in 1 .. j + 1 PROVE Append(Part(j), id(k + 1))[i] = Part(j + 1)[i]
        <5>1. Part(j + 1)[i] = id(pos[i])
          OBVIOUS
        <5>2. CASE i = j + 1
          BY <3>1, <3>5, <4>3, <5>1, <5>2
        <5>3. CASE i # j + 1
          <6>1. i \in 1 .. j
            BY <2>2, <5>3
          <6>2. Part(j)[i] = id(pos[i])
            BY <6>1
          <6> HIDE DEF Part
          <6> QED
            BY <4>3, <5>1, <6>1, <6>2
        <5> QED
          BY <5>2, <5>3
      <4> HIDE DEF Part
      <4> QED
        BY <4>2, <4>3, <4>4, SeqEqual
    <3> HIDE DEF Part
    <3>9. UpToIs(k + 1, j + 1)
      BY <3>6, <3>7, <3>8
    <3> HIDE DEF UpToIs
    <3> QED
      BY <2>2, <3>3, <3>9
  <2>5. CASE ~ (sym[k + 1].len > 0)
    <3>1. ASSUME NEW i \in 1 .. m PROVE pos[i] <= k + 1 <=> i <= j
      <4>1. pos[i] # k + 1
        BY <1>1, <2>5
      <4>2. pos[i] <= k <=> i <= j
        BY <2>1
      <4> QED
        BY <2>2, <4>1, <4>2
    <3>2. ids[k + 1] = Part(j)
      BY <2>3, <2>5 DEF After
    <3> HIDE DEF Part
    <3>3. UpToIs(k + 1, j)
      BY <3>1, <3>2
    <3> HIDE DEF UpToIs
    <3> QED
      BY <2>2, <3>3
  <2> QED
    BY <2>4, <2>5
<1> HIDE DEF Part
<1>13. 0 .. n \subseteq Done
  <2> HIDE DEF Done
  <2> QED
    BY <1>1, <1>11, <1>12, UpTo
<1>14. PICK j \in 0 .. m : UpToIs(n, j)
  BY <1>1, <1>13
<1>15. j = m
  <2>1. m = 0 \/ (m \in 1 .. m /\ pos[m] <= n)
    BY <1>1
  <2> QED
    BY <1>1, <1>14, <2>1
<1> QED
  BY <1>2, <1>14, <1>15 DEF Part

-----------------------------------------------------------------------------
(* Both programs.                                                           *)

\* Of a file that cis2-verify loads, both have the same vocabulary.
LEMMA SameVocab ==
  ASSUME file \in Files, LoadOk(file)
  PROVE  /\ DOMAIN V3!VocabTable(file) = Names(file)
         /\ \A s \in Names(file) : V3!VocabTable(file)[s] = VocabOf(file)[s]
<1> DEFINE v == file.vocab
           n == Len(v)
           keys == [i \in DOMAIN v |-> v[i][1]]
           values == [i \in DOMAIN v |-> v[i][2]]
<1>1. n \in Nat /\ DOMAIN v = 1 .. n
  BY FilesAssumption, LenProperties
<1>2. V3!VocabTable(file) = V3!PutAll(keys, values)
  BY DEF V3!VocabTable
<1>3. /\ DOMAIN keys = 1 .. n
      /\ \A i \in 1 .. n : keys[i] = v[i][1] /\ values[i] = v[i][2]
  BY <1>1
<1>4. Names(file) = {v[i][1] : i \in 1 .. n}
  BY <1>1 DEF Names
<1> HIDE DEF keys, values
<1>5. DOMAIN V3!VocabTable(file) = Names(file)
  <2>1. DOMAIN V3!PutAll(keys, values) = {keys[i] : i \in DOMAIN keys}
    BY PutAllDomain
  <2>2. {keys[i] : i \in DOMAIN keys} = {v[i][1] : i \in 1 .. n}
    BY <1>3
  <2> QED
    BY <1>2, <1>4, <2>1, <2>2
<1>6. \A i, j \in 1 .. n : v[i][1] = v[j][1] => i = j
  BY <1>1 DEF LoadOk
<1>7. ASSUME NEW s \in Names(file) PROVE V3!VocabTable(file)[s] = VocabOf(file)[s]
  <2>1. PICK i \in 1 .. n : s = v[i][1]
    BY <1>4
  <2> HIDE DEF n
  <2>2. PICK last \in 1 .. n :
          /\ keys[last] = keys[i]
          /\ V3!PutAll(keys, values)[keys[i]] = values[last]
    BY <1>1, <1>3, PutAllFacts
  <2>3. V3!VocabTable(file)[s] = v[i][2]
    <3>1. last = i
      BY <1>3, <1>6, <2>2
    <3> QED
      BY <1>2, <1>3, <2>1, <2>2, <3>1
  <2>4. VocabOf(file)[s] = v[i][2]
    <3> DEFINE k == CHOOSE x \in DOMAIN v : v[x][1] = s
    <3>1. k \in 1 .. n /\ v[k][1] = s
      BY <1>1, <2>1
    <3>2. k = i
      BY <1>6, <2>1, <3>1
    <3>3. VocabOf(file)[s] = v[k][2]
      BY DEF VocabOf
    <3> HIDE DEF k
    <3> QED
      BY <3>2, <3>3
  <2> QED
    BY <2>3, <2>4
<1> QED
  BY <1>5, <1>7

\* The symbols at the end of cis2-verify's loop.
LEMMA LiveText ==
  ASSUME ListSound, TypeOK, Context, pc = "done", NEW p \in Live(symbols), NEW q,
         Neighbours(word, Live(symbols), p, q)
  PROVE  Slice(word, p, q) \in DOMAIN vocab /\ symbols[p].id = vocab[Slice(word, p, q)]
<1> DEFINE n == Len(word)
           r == End(symbols, p)
<1>1. n \in Nat
  BY WordsAssumption, LenProperties DEF Context
<1>2. symbols \in [1 .. n -> SymbolSet] /\ ListOk(symbols)
  BY DEF TypeOK, ListSound
<1>3. \A x \in Live(symbols) : x \in 1 .. n /\ symbols[x].len \in 1 .. n
  BY <1>1, <1>2 DEF Live, SymbolSet
<1>4. SymbolOk(symbols, p)
  BY <1>2 DEF ListOk
<1>5. p \in 1 .. n /\ p < r /\ r <= n + 1 /\ r \in Nat
  BY <1>1, <1>3, <1>4 DEF SymbolOk, End
<1>6. r = n + 1 \/ r \in Live(symbols)
  <2>1. r # n + 1 => symbols[r].len > 0
    BY <1>4 DEF SymbolOk
  <2>2. r # n + 1 => r \in DOMAIN symbols
    BY <1>1, <1>2, <1>5
  <2> HIDE DEF r, n
  <2> QED
    BY <2>1, <2>2 DEF Live
<1>7. \A x \in p + 1 .. r - 1 : x \notin Live(symbols)
  BY <1>4 DEF SymbolOk, Live
<1>8. /\ q \in Live(symbols) \cup {n + 1} /\ p < q
      /\ \A x \in Live(symbols) : x <= p \/ x >= q
  BY DEF Neighbours
<1>9. q \in 1 .. n + 1
  BY <1>1, <1>3, <1>8
<1> HIDE DEF r, n
<1>10. ~ (r < q)
  <2>1. r < q => r # n + 1
    BY <1>1, <1>5, <1>9
  <2> QED
    BY <1>5, <1>6, <1>8, <1>9, <2>1
<1>11. ~ (q < r)
  <2>1. q < r => q \in p + 1 .. r - 1 /\ q # n + 1
    BY <1>1, <1>5, <1>8, <1>9
  <2> QED
    BY <1>7, <1>8, <2>1
<1>12. q = r
  BY <1>5, <1>9, <1>10, <1>11
<1> QED
  BY <1>4, <1>12 DEF SymbolOk, r

LEMMA TheSameIds ==
  ASSUME IInv, QueueWalk, RescanOk
  PROVE  SameIds
<1> SUFFICES ASSUME pc = "done", cpc \in {"done", "exit"}, RepeatsKeepOrder, KeysApart
             PROVE  cpc = "done" /\ cout = out
  BY DEF SameIds
<1> DEFINE c == csymbols
           m == Len(c)
           n == Len(word)
           l == file.merges
<1>1. file \in Files /\ word \in Seq(Char) /\ LoadOk(file) /\ n \in Nat
  BY WordsAssumption, LenProperties DEF IInv, Context
<1>2. Reached(l, word, Live(symbols)) /\ Settled(l, word, Live(symbols)) /\ out = Result(symbols)
  BY DEF QueueWalk, Cuts
<1>3. PICK pos : /\ Spells(word, c, pos)
                 /\ Reached(l, word, Starts(c, pos))
                 /\ Settled(l, word, Starts(c, pos))
  <2>1. Scanned(l, word, c, cpc)
    BY DEF RescanOk
  <2> QED
    BY <2>1 DEF Scanned
<1>4. DOMAIN l \subseteq Int
  BY <1>1, MergesAre
<1>5. Starts(c, pos) = Live(symbols)
  <2> HIDE DEF l, c, n
  <2> QED
    BY <1>1, <1>2, <1>3, <1>4, OneEnd DEF n
<1>6. m \in Nat /\ DOMAIN c = 1 .. m /\ \A j \in 1 .. m : pos[j] \in 1 .. n
  BY <1>1, <1>3, SpellsFacts
<1>7. ASSUME NEW j \in 1 .. m
      PROVE  /\ pos[j] \in Live(symbols)
             /\ c[j] \in DOMAIN cvocab
             /\ cvocab[c[j]] = symbols[pos[j]].id
  <2>1. pos[j] \in Live(symbols)
    BY <1>5 DEF Starts
  <2>2. Neighbours(word, Live(symbols), pos[j], pos[j + 1])
    BY <1>1, <1>3, <1>5, SymbolIsNeighbour
  <2>3. c[j] = Slice(word, pos[j], pos[j + 1])
    BY <1>3 DEF Spells
  <2>4. c[j] \in DOMAIN vocab /\ symbols[pos[j]].id = vocab[c[j]]
    BY <2>1, <2>2, <2>3, LiveText DEF IInv
  <2>5. vocab = VocabOf(file) /\ DOMAIN vocab = Names(file)
    BY <1>1, VocabFacts DEF IInv, TypeOK
  <2>6. cvocab = V3!VocabTable(file)
    BY DEF RescanOk
  <2> QED
    BY <1>1, <2>1, <2>4, <2>5, <2>6, SameVocab
<1>8. cpc = "done" /\ cout = [j \in 1 .. m |-> cvocab[c[j]]]
  BY <1>6, <1>7 DEF RescanOk
<1>9. symbols \in [1 .. n -> SymbolSet] /\ Len(symbols) = n
  <2>1. symbols \in [1 .. n -> SymbolSet]
    BY DEF IInv, TypeOK
  <2>2. symbols \in Seq(SymbolSet)
    BY <1>1, <2>1, IsASeq
  <2> QED
    BY <1>1, <2>1, <2>2, LenProperties
<1>10. Enumerates(symbols, pos, m)
  <2>1. \A j \in 1 .. m : pos[j] \in 1 .. Len(symbols) /\ symbols[pos[j]].len > 0
    BY <1>6, <1>7, <1>9 DEF Live
  <2>2. \A i, j \in 1 .. m : i < j => pos[i] < pos[j]
    <3>1. \A i \in 1 .. m : i \in 1 .. m + 1
      BY <1>6
    <3> QED
      BY <1>3, <3>1 DEF Spells
  <2>3. ASSUME NEW p \in 1 .. Len(symbols), symbols[p].len > 0
        PROVE  \E j \in 1 .. m : p = pos[j]
    <3>1. p \in Live(symbols)
      BY <1>9, <2>3 DEF Live
    <3> QED
      BY <1>5, <3>1 DEF Starts
  <2> QED
    BY <1>6, <2>1, <2>2, <2>3 DEF Enumerates
<1>11. Result(symbols) = [j \in 1 .. m |-> symbols[pos[j]].id]
  BY <1>1, <1>9, <1>10, ResultIs
<1>12. cout = Result(symbols)
  BY <1>7, <1>8, <1>11
<1> QED
  BY <1>2, <1>8, <1>12

PairInv == IInv /\ QueueWalk /\ RescanOk

LEMMA PairStart ==
  ASSUME PairInit
  PROVE  PairInv
<1>1. Init => IInv
  BY DEF Init, IInv, TypeOK, Context, ListSound, QueueComplete, QueueSound
<1>2. pc = "load" /\ Cuts = 1 .. Len(word)
  BY DEF PairInit, Init, Cuts
<1>3. QueueWalk
  BY <1>2, ReachedFirst DEF QueueWalk
<1>4. RescanOk
  BY DEF PairInit, V3!Init, RescanOk
<1> QED
  BY <1>1, <1>3, <1>4 DEF PairInv, PairInit

LEMMA PairStep ==
  ASSUME PairInv, [PairNext]_<<vars, cvars>>
  PROVE  PairInv'
<1>1. CASE Queue
  <2>1. [Next]_vars /\ UNCHANGED cvars /\ UNCHANGED <<file, word>>
    BY <1>1 DEF Queue, Next, Load, Refuse, Seed, SeedError, Discard, Apply, Finish
  <2> QED
    BY <2>1, Step, WalkStep, RescanQuiet DEF PairInv
<1>2. CASE Rescan
  <2>1. [Next]_vars /\ V3!Next
    BY <1>2 DEF Rescan
  <2>2. Context
    BY DEF PairInv, IInv
  <2> QED
    BY <2>1, <2>2, Step, WalkStep, RescanStep DEF PairInv
<1>3. CASE UNCHANGED <<vars, cvars>>
  <2>1. [Next]_vars /\ UNCHANGED cvars /\ UNCHANGED <<file, word>>
    BY <1>3 DEF vars
  <2> QED
    BY <2>1, Step, WalkStep, RescanQuiet DEF PairInv
<1> QED
  BY <1>1, <1>2, <1>3 DEF PairNext

\* Two tokenizers that share no line of code answer alike: where cis2-verify
\* returns ids for a word, verify3 returns the same ones and does not exit,
\* whatever the file and the word, as long as repeated merges keep their order
\* and no key is lost at the end of a buffer.
THEOREM TokenizersAgree == PairSpec => []SameIds
<1>1. PairInit => PairInv
  BY PairStart
<1>2. PairInv /\ [PairNext]_<<vars, cvars>> => PairInv'
  BY PairStep
<1>3. PairInv => SameIds
  BY TheSameIds DEF PairInv
<1> QED
  BY <1>1, <1>2, <1>3, PTL DEF PairSpec
=============================================================================
