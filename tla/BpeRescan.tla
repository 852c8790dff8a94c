----------------------------- MODULE BpeRescan ------------------------------
(***************************************************************************)
(* The tokenizer of verify3: cis2_tokenizer_load puts the vocabulary and   *)
(* the merge list into two hash tables keyed by strings, encode_word looks *)
(* through all neighbours for the one of least rank, joins it, and starts  *)
(* again, until no neighbours are in the table.                            *)
(*                                                                         *)
(* Unlike cis2-verify it checks nothing of the file: a string or a merge   *)
(* that is listed again overwrites its entry, two strings may share an id, *)
(* and whether a merge makes a token is found out after the last merge.    *)
(* The key of a merge is written to a buffer of a fixed size and cut off   *)
(* at its end.                                                             *)
(***************************************************************************)
EXTENDS Integers, Sequences, FiniteSets

CONSTANTS
  Files,    \* tokenizer files, as in BpeQueue
  Words,    \* the byte-remapped words to encode
  Between,  \* the character \x01 that separates the parts of a key
  KeyMax,   \* the characters keybuf holds
  LeftMax   \* the characters of a merge's left part that load copies

VARIABLES
  file,     \* the tokenizer file being loaded
  word,     \* the word being encoded
  vocab,    \* the hash table string -> id
  ranks,    \* the hash table key -> rank
  symbols,  \* the strings of the word's symbols
  pc,       \* "load", "split", "merge", "ids", then "done" or "exit"
  out       \* the ids

vars == <<file, word, vocab, ranks, symbols, pc, out>>

-----------------------------------------------------------------------------
Cut(s, n) == SubSeq(s, 1, IF Len(s) <= n THEN Len(s) ELSE n)

\* The key of a pair of strings, as snprintf leaves it in the buffer.
Key(l, r) == Cut(l \o <<Between>> \o r, KeyMax)

\* The key load makes of the text "left right" of a merge.  A merge that is listed
\* as an array of two strings is not cut: it is as if LeftMax were greater.
ListedKey(pair) == Key(Cut(pair[1], LeftMax), pair[2])

\* hm_put of each key with its value, in order: a key put again has its last value.
PutAll(keys, values) ==
  [k \in {keys[i] : i \in DOMAIN keys} |->
     values[CHOOSE i \in DOMAIN keys : keys[i] = k /\ \A j \in DOMAIN keys : keys[j] = k => j <= i]]

VocabTable(f) ==
  PutAll([i \in DOMAIN f.vocab |-> f.vocab[i][1]], [i \in DOMAIN f.vocab |-> f.vocab[i][2]])

RankTable(f) ==
  PutAll([i \in DOMAIN f.merges |-> ListedKey(f.merges[i])], [i \in DOMAIN f.merges |-> i])

-----------------------------------------------------------------------------
PairKey(i) == Key(symbols[i], symbols[i + 1])

\* The places whose neighbours are in the table.
Found == {i \in 1 .. Len(symbols) - 1 : PairKey(i) \in DOMAIN ranks}

\* Mutation: of equal ranks the last one found is taken.
BestLast(i) ==
  /\ i \in Found
  /\ \A j \in Found :
       ranks[PairKey(j)] > ranks[PairKey(i)] \/ (ranks[PairKey(j)] = ranks[PairKey(i)] /\ j <= i)

\* The scan keeps the first place of the least rank: its comparison is strict.
Best(i) ==
  /\ i \in Found
  /\ \A j \in Found :
       ranks[PairKey(j)] > ranks[PairKey(i)] \/ (ranks[PairKey(j)] = ranks[PairKey(i)] /\ i <= j)

\* The symbols after joining those at i and i + 1 and closing the gap.
Joined(i) ==
  [j \in 1 .. Len(symbols) - 1 |->
     CASE j < i -> symbols[j]
       [] j = i -> symbols[i] \o symbols[i + 1]
       [] j > i -> symbols[j + 1]]

-----------------------------------------------------------------------------
Init ==
  /\ file \in Files
  /\ word \in Words
  /\ vocab = << >>
  /\ ranks = << >>
  /\ symbols = << >>
  /\ pc = "load"
  /\ out = << >>

Load ==
  /\ pc = "load"
  /\ vocab' = VocabTable(file)
  /\ ranks' = RankTable(file)
  /\ pc' = "split"
  /\ UNCHANGED <<file, word, symbols, out>>

\* One symbol per byte, each the string of its character.
Split ==
  /\ pc = "split"
  /\ symbols' = [i \in 1 .. Len(word) |-> <<word[i]>>]
  /\ pc' = "merge"
  /\ UNCHANGED <<file, word, vocab, ranks, out>>

Merge ==
  /\ pc = "merge"
  /\ \E i \in Found : Best(i) /\ symbols' = Joined(i)
  /\ UNCHANGED <<file, word, vocab, ranks, pc, out>>

\* One symbol is left, or the scan found nothing.
Settle ==
  /\ pc = "merge"
  /\ Found = {}
  /\ pc' = "ids"
  /\ UNCHANGED <<file, word, vocab, ranks, symbols, out>>

\* Every symbol is looked up in the vocabulary ...
LookUp ==
  /\ pc = "ids"
  /\ \A i \in DOMAIN symbols : symbols[i] \in DOMAIN vocab
  /\ out' = [i \in DOMAIN symbols |-> vocab[symbols[i]]]
  /\ pc' = "done"
  /\ UNCHANGED <<file, word, vocab, ranks, symbols>>

\* ... and one that is not there ends the program with status 96.
Exit ==
  /\ pc = "ids"
  /\ \E i \in DOMAIN symbols : symbols[i] \notin DOMAIN vocab
  /\ pc' = "exit"
  /\ UNCHANGED <<file, word, vocab, ranks, symbols, out>>

Next == Load \/ Split \/ Merge \/ Settle \/ LookUp \/ Exit

Spec == Init /\ [][Next]_vars
=============================================================================
