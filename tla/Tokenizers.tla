----------------------------- MODULE Tokenizers -----------------------------
(***************************************************************************)
(* Two tokenizers on one file and one word: cis2-verify's (BpeQueue), then *)
(* verify3's (BpeRescan).  They are separate programs that share nothing   *)
(* but the file and the text, so the order in which they run is of no      *)
(* matter.  A verdict on a receipt needs them to give the same ids.        *)
(***************************************************************************)
EXTENDS BpeQueue, FiniteSets

CONSTANTS
  Between,  \* see BpeRescan
  KeyMax,
  LeftMax

ASSUME SizesAssumption == KeyMax \in Nat /\ LeftMax \in Nat

VARIABLES
  cvocab,   \* verify3's tables, symbols, program counter and ids
  cranks,
  csymbols,
  cpc,
  cout

V3 == INSTANCE BpeRescan WITH
  vocab <- cvocab,
  ranks <- cranks,
  symbols <- csymbols,
  pc <- cpc,
  out <- cout

cvars == <<cvocab, cranks, csymbols, cpc, cout>>

Ended == pc \in {"done", "refused", "error"}

PairInit == Init /\ V3!Init

Queue == Next /\ UNCHANGED cvars
Rescan == Ended /\ V3!Next /\ UNCHANGED vars

PairNext == Queue \/ Rescan

\* Both programs run until they end.
PairSpec == PairInit /\ [][PairNext]_<<vars, cvars>> /\ WF_<<vars, cvars>>(PairNext)

-----------------------------------------------------------------------------
\* The strings a symbol of the word may ever be.
Strands == {<<word[p]>> : p \in DOMAIN word}
             \cup {file.merges[i][1] \o file.merges[i][2] : i \in DOMAIN file.merges}

\* The buffers lose nothing that matters: neighbours have the key of a listed
\* merge when they are its parts, and only then.
KeysApart ==
  \A l, r \in Strands, i \in DOMAIN file.merges :
    V3!Key(l, r) = V3!ListedKey(file.merges[i]) <=> file.merges[i] = <<l, r>>

\* The first and the last place of a pair in the merge list.
FirstPlace(pair) ==
  CHOOSE i \in DOMAIN file.merges :
    file.merges[i] = pair /\ \A j \in DOMAIN file.merges : file.merges[j] = pair => i <= j
LastPlace(pair) ==
  CHOOSE i \in DOMAIN file.merges :
    file.merges[i] = pair /\ \A j \in DOMAIN file.merges : file.merges[j] = pair => j <= i

\* Merges that are listed again stand in the same order the second time.
RepeatsKeepOrder ==
  LET pairs == {file.merges[i] : i \in DOMAIN file.merges}
  IN  \A a, b \in pairs : FirstPlace(a) < FirstPlace(b) <=> LastPlace(a) < LastPlace(b)

\* Two clean-room tokenizers give one answer: where cis2-verify returns ids,
\* verify3 does not exit and returns the same ones, although it looks ids up
\* only at the end and ranks a repeated merge by its last place instead of its
\* first, provided that such repetitions keep the order of the list and that
\* no key loses, at the end of a buffer, what it is found by.
SameIds ==
  pc = "done" /\ cpc \in {"done", "exit"} /\ RepeatsKeepOrder /\ KeysApart =>
    cpc = "done" /\ cout = out
=============================================================================
