----------------------------- MODULE MCBpeQueue -----------------------------
(* Tokenizer files over two characters for BpeQueue.                       *)
EXTENDS Tokenizers, SequencesExt

Chars == {"a", "b"}
Strings(n) == UNION {[1 .. k -> Chars] : k \in 1 .. n}

\* Merge lists: pairs that make strings of up to three characters, each part a
\* character or the result of a merge of the list.  The first pair starts with
\* "a": exchanging the two characters gives the other lists.
Pairs == {p \in Strings(2) \X Strings(2) : Len(p[1]) + Len(p[2]) <= 3}
Results(l) == {l[i][1] \o l[i][2] : i \in DOMAIN l}
Made(l) == {<<c>> : c \in Chars} \cup Results(l)
Useful(l) ==
  /\ l[1][1][1] = "a"
  /\ \A i \in DOMAIN l : l[i][1] \in Made(l) /\ l[i][2] \in Made(l)
Lists(n) == {l \in [1 .. n -> Pairs] : Useful(l)}

\* The vocabulary a list needs, and three that from_json or encode_word must
\* refuse: two strings with one id, a string listed twice, no entry for "b".
Numbered(strings) ==
  LET s == SetToSeq(strings) IN [k \in DOMAIN s |-> <<s[k], 100 + k>>]
FullVocab(l) == Numbered(Made(l))
ClashVocab(l) ==
  [k \in DOMAIN FullVocab(l) |->
     IF FullVocab(l)[k][1] \in Results(l) THEN <<FullVocab(l)[k][1], 100>>
                                          ELSE FullVocab(l)[k]]
RepeatVocab(l) == Append(FullVocab(l), <<<<"a">>, 999>>)
PartialVocab(l) == Numbered(Made(l) \ {<<"b">>})

File(v(_), l) == [vocab |-> v(l), merges |-> l]
SmallFiles ==
  {File(FullVocab, l) : l \in Lists(2) \cup Lists(3)}
    \cup {File(ClashVocab, l) : l \in Lists(3)}
    \cup {File(RepeatVocab, l) : l \in Lists(2)}
    \cup {File(PartialVocab, l) : l \in Lists(2)}
MCFiles == SmallFiles

MCWords == {<< >>, <<"a">>} \cup [1 .. 5 -> Chars]

\* The key of a listed merge fits; that of longer neighbours is cut.
MCKeyMax == 4
MCLeftMax == 2
=============================================================================
