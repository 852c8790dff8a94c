------------------------------ MODULE BpeQueue ------------------------------
(***************************************************************************)
(* The tokenizer of cis2-verify: Tokenizer::from_json builds the           *)
(* vocabulary and the merge table, encode_word runs the merge loop for one *)
(* word with a linked list of symbols and a heap of candidate merges.      *)
(*                                                                         *)
(* The heap is lazy: a merge does not remove the candidates it makes       *)
(* invalid.  A popped candidate is re-validated, but only by asking        *)
(* whether the pair now standing at its position still produces the token  *)
(* id it was queued for.  The properties below say why that is enough.     *)
(*                                                                         *)
(* Positions and merge ranks count from 1, so that 0 is the "no            *)
(* neighbour" link the code writes as -1.                                  *)
(***************************************************************************)
EXTENDS Integers, Sequences

CONSTANTS
  Char,    \* the characters of byte-remapped text
  Files,   \* tokenizer files: [vocab: Seq(<<string, id>>), merges: Seq(<<left, right>>)]
  Words    \* the byte-remapped words to encode

ASSUME FilesAssumption ==
  \A f \in Files :
    /\ f.vocab \in Seq(Seq(Char) \X Nat)
    /\ f.merges \in Seq(Seq(Char) \X Seq(Char))

ASSUME WordsAssumption == Words \subseteq Seq(Char)

VARIABLES
  file,    \* the tokenizer file being loaded
  word,    \* the word being encoded
  vocab,   \* Tokenizer.vocab: string -> id
  merges,  \* Tokenizer.merges: <<left id, right id>> -> [rank, id]
  symbols, \* the Symbol vector: position -> [id, prev, next, len]
  queue,   \* the heap of Queued candidates: [rank, pos, new_id]
  pc,      \* "load", "seed", "merge", then "done", "refused" or "error"
  out      \* the ids encode_word returns

vars == <<file, word, vocab, merges, symbols, queue, pc, out>>

None == 0

-----------------------------------------------------------------------------
(***************************************************************************)
(* Loading.                                                                *)
(***************************************************************************)
Names(f) == {f.vocab[i][1] : i \in DOMAIN f.vocab}

\* Mutation: a vocabulary in which two strings share an id is accepted.
LoadOkAnyIds(f) ==
  /\ \A i, j \in DOMAIN f.vocab : f.vocab[i][1] = f.vocab[j][1] => i = j
  /\ \A i \in DOMAIN f.merges :
       {f.merges[i][1], f.merges[i][2], f.merges[i][1] \o f.merges[i][2]} \subseteq Names(f)

\* No string is listed twice, no id stands for two strings, and every merge
\* names a left part, a right part and a result that the vocabulary holds.
LoadOk(f) ==
  /\ \A i, j \in DOMAIN f.vocab :
       f.vocab[i][1] = f.vocab[j][1] \/ f.vocab[i][2] = f.vocab[j][2] => i = j
  /\ \A i \in DOMAIN f.merges :
       {f.merges[i][1], f.merges[i][2], f.merges[i][1] \o f.merges[i][2]} \subseteq Names(f)

VocabOf(f) ==
  [s \in Names(f) |->
     LET i == CHOOSE k \in DOMAIN f.vocab : f.vocab[k][1] = s IN f.vocab[i][2]]

\* The id pair that entry i of the merge list becomes.
IdPair(v, list, i) == <<v[list[i][1]], v[list[i][2]]>>

\* The place of the first entry of the list for an id pair: a repeated pair
\* keeps its first rank.
FirstRank(v, list, pair) ==
  CHOOSE i \in DOMAIN list :
    /\ IdPair(v, list, i) = pair
    /\ \A j \in DOMAIN list : IdPair(v, list, j) = pair => i <= j

MergeTable(v, list) ==
  [pair \in {IdPair(v, list, i) : i \in DOMAIN list} |->
     LET i == FirstRank(v, list, pair)
     IN  [rank |-> i, id |-> v[list[i][1] \o list[i][2]]]]

-----------------------------------------------------------------------------
(***************************************************************************)
(* The merge loop.                                                         *)
(***************************************************************************)
Live(sym) == {p \in DOMAIN sym : sym[p].len > 0}

\* Mutation: the position is taken one too low.
CandidateShifted(sym, p) ==
  LET pair == <<sym[p].id, sym[sym[p].next].id>>
  IN  IF sym[p].next # None /\ pair \in DOMAIN merges
        THEN {[rank |-> merges[pair].rank, pos |-> p - 1, new_id |-> merges[pair].id]}
        ELSE {}

\* The candidate for the symbol at p and its right neighbour, if the table
\* has a merge for them: the empty set or a singleton.
Candidate(sym, p) ==
  LET pair == <<sym[p].id, sym[sym[p].next].id>>
  IN  IF sym[p].next # None /\ pair \in DOMAIN merges
        THEN {[rank |-> merges[pair].rank, pos |-> p, new_id |-> merges[pair].id]}
        ELSE {}

\* Mutation: among equal ranks the rightmost position is popped first.
BeforeRightmost(a, b) == a.rank < b.rank \/ (a.rank = b.rank /\ a.pos >= b.pos)

\* The order of the heap: lowest rank first, then leftmost position.
Before(a, b) == a.rank < b.rank \/ (a.rank = b.rank /\ a.pos <= b.pos)

\* The re-validation of a popped candidate.
StillValid(e) ==
  LET s == symbols[e.pos]
      pair == <<s.id, symbols[s.next].id>>
  IN  /\ s.len # 0
      /\ s.next # None
      /\ pair \in DOMAIN merges
      /\ merges[pair].id = e.new_id

\* Mutation: the right neighbour's back link is left dangling.
JoinedNoBackLink(p, id) ==
  LET q == symbols[p].next
  IN  [symbols EXCEPT ![p].id = id,
                      ![p].len = @ + symbols[q].len,
                      ![p].next = symbols[q].next,
                      ![q].len = 0]

\* The symbols after merging the one at p with its right neighbour into id.
Joined(p, id) ==
  LET q == symbols[p].next
      r == symbols[q].next
  IN  [k \in DOMAIN symbols |->
         [id   |-> IF k = p THEN id ELSE symbols[k].id,
          prev |-> IF k = r THEN p ELSE symbols[k].prev,
          next |-> IF k = p THEN r ELSE symbols[k].next,
          len  |-> IF k = p THEN symbols[p].len + symbols[q].len
                   ELSE IF k = q THEN 0 ELSE symbols[k].len]]

\* Mutations: the pair with the left neighbour is not queued; every pair is
\* queued again.
CreatedRightOnly(sym, p) == Candidate(sym, p)
CreatedReseed(sym, p) == UNION {Candidate(sym, k) : k \in Live(sym)}

\* The candidates a merge at p creates, with the left and the right neighbour.
Created(sym, p) ==
  (IF sym[p].prev # None THEN Candidate(sym, sym[p].prev) ELSE {})
    \cup Candidate(sym, p)

\* The ids of the live symbols, in the order of the vector.
Result(sym) ==
  LET ids[p \in 0 .. Len(sym)] ==
        IF p = 0 THEN << >>
        ELSE IF sym[p].len > 0 THEN Append(ids[p - 1], sym[p].id) ELSE ids[p - 1]
  IN  ids[Len(sym)]

-----------------------------------------------------------------------------
Init ==
  /\ file \in Files
  /\ word \in Words
  /\ vocab = << >>
  /\ merges = << >>
  /\ symbols = << >>
  /\ queue = {}
  /\ pc = "load"
  /\ out = << >>

\* Tokenizer::from_json returns a tokenizer ...
Load ==
  /\ pc = "load"
  /\ LoadOk(file)
  /\ vocab' = VocabOf(file)
  /\ merges' = MergeTable(vocab', file.merges)
  /\ pc' = "seed"
  /\ UNCHANGED <<file, word, symbols, queue, out>>

\* ... or refuses the file.
Refuse ==
  /\ pc = "load"
  /\ ~ LoadOk(file)
  /\ pc' = "refused"
  /\ UNCHANGED <<file, word, vocab, merges, symbols, queue, out>>

InitialSymbols ==
  [p \in 1 .. Len(word) |->
     [id |-> vocab[<<word[p]>>],
      prev |-> p - 1,
      next |-> IF p = Len(word) THEN None ELSE p + 1,
      len |-> 1]]

\* encode_word (b) and (c.i): one symbol per character, every mergeable
\* adjacent pair queued.
Seed ==
  /\ pc = "seed"
  /\ \A p \in DOMAIN word : <<word[p]>> \in DOMAIN vocab
  /\ symbols' = InitialSymbols
  /\ queue' = UNION {Candidate(symbols', p) : p \in DOMAIN symbols'}
  /\ pc' = "merge"
  /\ UNCHANGED <<file, word, vocab, merges, out>>

\* A character without a base vocabulary entry ends encode_word with an error.
SeedError ==
  /\ pc = "seed"
  /\ \E p \in DOMAIN word : <<word[p]>> \notin DOMAIN vocab
  /\ pc' = "error"
  /\ UNCHANGED <<file, word, vocab, merges, symbols, queue, out>>

\* encode_word (c.ii): e is the candidate the heap pops.
IsTop(e) == e \in queue /\ \A f \in queue : Before(e, f)

\* Mutation: the stale candidate is looked at but left in the heap.
DiscardPeek(e) ==
  /\ pc = "merge"
  /\ IsTop(e)
  /\ ~ StillValid(e)
  /\ UNCHANGED vars

\* (c.iii): a stale candidate is discarded.
Discard(e) ==
  /\ pc = "merge"
  /\ IsTop(e)
  /\ ~ StillValid(e)
  /\ queue' = queue \ {e}
  /\ UNCHANGED <<file, word, vocab, merges, symbols, pc, out>>

\* (c.iv): a valid one is applied and the pairs it creates are queued.
Apply(e) ==
  /\ pc = "merge"
  /\ IsTop(e)
  /\ StillValid(e)
  /\ symbols' = Joined(e.pos, e.new_id)
  /\ queue' = (queue \ {e}) \cup Created(symbols', e.pos)
  /\ UNCHANGED <<file, word, vocab, merges, pc, out>>

\* (c.v): the queue is empty, the live symbols are the word's ids.
Finish ==
  /\ pc = "merge"
  /\ queue = {}
  /\ out' = Result(symbols)
  /\ pc' = "done"
  /\ UNCHANGED <<file, word, vocab, merges, symbols, queue>>

Next ==
  \/ Load
  \/ Refuse
  \/ Seed
  \/ SeedError
  \/ \E e \in queue : Discard(e) \/ Apply(e)
  \/ Finish

Spec == Init /\ [][Next]_vars

\* encode_word is a sequential loop that runs until it returns.
FairSpec == Spec /\ WF_vars(Next)

-----------------------------------------------------------------------------
(***************************************************************************)
(* Properties.                                                             *)
(***************************************************************************)
Slice(w, p, q) == SubSeq(w, p, q - 1)

Ids == {vocab[s] : s \in DOMAIN vocab}

SymbolSet ==
  [id : Ids, prev : 0 .. Len(word), next : 0 .. Len(word), len : 0 .. Len(word)]

CandidateSet == [rank : DOMAIN file.merges, pos : 1 .. Len(word), new_id : Ids]

\* The state has the shape of the code's structures: every link is in bounds.
TypeOK ==
  /\ pc \in {"load", "seed", "merge", "done", "refused", "error"}
  /\ pc \in {"seed", "merge", "done"} =>
       /\ vocab = VocabOf(file)
       /\ merges = MergeTable(vocab, file.merges)
  /\ pc \in {"merge", "done"} =>
       /\ symbols \in [1 .. Len(word) -> SymbolSet]
       /\ queue \subseteq CandidateSet

\* The symbol at p covers the text from p up to its end.
End(sym, p) == p + sym[p].len

\* The links of the live symbol at p agree with its extent, and its id spells
\* the text it covers.
SymbolOk(sym, p) ==
  /\ End(sym, p) <= Len(word) + 1
  /\ \A c \in p + 1 .. End(sym, p) - 1 : sym[c].len = 0
  /\ Slice(word, p, End(sym, p)) \in DOMAIN vocab
  /\ sym[p].id = vocab[Slice(word, p, End(sym, p))]
  /\ IF End(sym, p) = Len(word) + 1
       THEN sym[p].next = None
       ELSE /\ sym[p].next = End(sym, p)
            /\ sym[End(sym, p)].len > 0
            /\ sym[End(sym, p)].prev = p
  /\ IF p = 1
       THEN sym[p].prev = None
       ELSE /\ sym[p].prev \in 1 .. p - 1
            /\ sym[sym[p].prev].len > 0
            /\ sym[sym[p].prev].next = p

ListOk(sym) ==
  /\ word # << >> => sym[1].len > 0
  /\ \A p \in Live(sym) : SymbolOk(sym, p)

\* The linked list never loses, duplicates or reorders a byte of the word,
\* whatever merges were applied and however the absorbed entries dangle: the
\* live symbols tile the word and each one's id is the id of its text.
ListSound == pc \in {"merge", "done"} => ListOk(symbols)

\* No mergeable neighbours are forgotten: the heap holds a candidate for each,
\* so an empty heap means that the encoding is final.
QueueComplete ==
  pc \in {"merge", "done"} =>
    \A p \in Live(symbols) : Candidate(symbols, p) \subseteq queue

\* The re-validation compares only the resulting token id.  It never lets a
\* stale candidate through: one that passes was queued for the very pair that
\* stands at its position now, so it carries that pair's rank.
ValidIsCurrent ==
  pc = "merge" =>
    \A e \in queue : StillValid(e) => e \in Candidate(symbols, e.pos)

\* A merge queues no candidate that is in the heap already: the code's heap,
\* modelled as a set, never holds two equal entries.
NeverRequeued ==
  [][\A e \in queue : Apply(e) => Created(symbols', e.pos) \cap queue = {}]_vars

\* encode_word returns, with ids or with an error.
Terminates == <>(pc \in {"done", "refused", "error"})

\* The queue-driven loop applies the merges of the merge list in the order
\* CIS-2 section 3.1.5.c asks for, and fails only before the first of them.
Greedy == INSTANCE BpeMerge WITH
  MergeLists <- {f.merges : f \in Files},
  list <- file.merges,
  cuts <- IF pc \in {"merge", "done"} THEN Live(symbols) ELSE 1 .. Len(word),
  outcome <- CASE pc = "done" -> "done"
               [] pc \in {"refused", "error"} -> "failed"
               [] OTHER -> "merging"

ImplementsMerge == Greedy!Spec
=============================================================================
