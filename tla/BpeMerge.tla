------------------------------ MODULE BpeMerge ------------------------------
(***************************************************************************)
(* What the byte-level BPE merge loop promises (CIS-2 section 3.1.5.c),    *)
(* independently of the data structures that compute it.                   *)
(*                                                                         *)
(* A word is cut into symbols.  The state of the loop is the set of the    *)
(* positions at which a symbol starts; positions count from 1.  The merge  *)
(* list is ordered: the entry that comes first has priority, and among     *)
(* several occurrences of one entry the leftmost is merged.  Merging two   *)
(* neighbours removes the cut between them.  The loop ends when no         *)
(* neighbours form a listed pair.                                          *)
(***************************************************************************)
EXTENDS Integers, Sequences

CONSTANTS
  MergeLists,   \* the ordered merge lists a tokenizer file may hold
  Words         \* the byte-remapped words that may be encoded

VARIABLES
  list,         \* the merge list in force: a sequence of pairs of strings
  word,         \* the word being encoded: a sequence of characters
  cuts,         \* the positions where a symbol starts
  outcome       \* "merging", then "done" or "failed"

vars == <<list, word, cuts, outcome>>

\* The text of w from position p up to, not including, position q.
Slice(w, p, q) == SubSeq(w, p, q - 1)

\* p and q are consecutive cuts, q possibly the end of the word.
Adjacent(p, q) ==
  /\ p \in cuts
  /\ q \in cuts \cup {Len(word) + 1}
  /\ p < q
  /\ \A c \in cuts : c <= p \/ c >= q

\* The neighbours [p, q) and [q, r) form the pair at place i of the list.
Occurs(i, p, q, r) ==
  /\ Adjacent(p, q)
  /\ Adjacent(q, r)
  /\ list[i] = <<Slice(word, p, q), Slice(word, q, r)>>

Positions == 1 .. Len(word) + 1

-----------------------------------------------------------------------------
Init ==
  /\ list \in MergeLists
  /\ word \in Words
  /\ cuts = 1 .. Len(word)
  /\ outcome = "merging"

\* Merge the leftmost occurrence of the first listed pair that occurs.
Merge ==
  /\ outcome = "merging"
  /\ \E i \in DOMAIN list, p, q, r \in Positions :
       /\ Occurs(i, p, q, r)
       /\ \A j \in DOMAIN list, p2, q2, r2 \in Positions :
            Occurs(j, p2, q2, r2) => i < j \/ (list[i] = list[j] /\ p <= p2)
       /\ cuts' = cuts \ {q}
  /\ UNCHANGED <<list, word, outcome>>

\* Nothing is left to merge: the symbols are the encoding of the word.
Stop ==
  /\ outcome = "merging"
  /\ ~ \E i \in DOMAIN list, p, q, r \in Positions : Occurs(i, p, q, r)
  /\ outcome' = "done"
  /\ UNCHANGED <<list, word, cuts>>

\* The tokenizer file or the word is refused before anything was merged.
Fail ==
  /\ outcome = "merging"
  /\ cuts = 1 .. Len(word)
  /\ outcome' = "failed"
  /\ UNCHANGED <<list, word, cuts>>

Next == Merge \/ Stop \/ Fail

Spec == Init /\ [][Next]_vars
=============================================================================
