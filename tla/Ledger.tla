------------------------------- MODULE Ledger -------------------------------
(***************************************************************************)
(* The public ledger of experiments and verify_ledger.py.  The owner       *)
(* appends lines; somebody rewrites what was published; a reader runs the  *)
(* program on the page, one line after another, and saves the head it      *)
(* prints, to compare it with a later page.                                *)
(*                                                                         *)
(* sha256 is injective: the hash of a line is the line, which holds the    *)
(* hash of the line before it.                                             *)
(***************************************************************************)
EXTENDS Integers, Sequences, SequencesExt

CONSTANTS
  Exps,       \* experiment numbers as they are written: the number, and how many digits
  Kinds,      \* the kinds that lines are published with
  Records,    \* the fingerprints of records that the owner publishes
  Forged,     \* one of another record
  MaxLines,   \* bound: lines of a page
  MaxEdited   \* bound: lines of a page that is changed

ASSUME PagesAssumption == MaxLines \in Nat /\ MaxEdited \in Nat

VARIABLES
  page,           \* the lines of LEDGER.tsv
  edited,         \* whether it was changed other than by appending
  saved,          \* the page whose head the reader has saved, if any
  reading,        \* "no", "lines", "OK" or "FAIL"
  i,              \* the lines read
  prev_expected,  \* the hash of the last one
  seen, started, judged, next_exp,
  errors          \* whether there was one

pageVars == <<page, edited, saved>>
readVars == <<reading, i, prev_expected, seen, started, judged, next_exp, errors>>
ledgerVars == <<pageVars, readVars>>

NoNumber == -1        \* the number of what is not of the form E-0001
Unhex == "unhex"      \* a fingerprint that is not 64 hex characters

BASE_KINDS == {"bar", "bar-amended", "start", "verdict"}
BACKFILL_KINDS == {"bar-backfill", "bar-amended-backfill", "start-backfill", "verdict-backfill"}
KINDS == BASE_KINDS \cup BACKFILL_KINDS \cup {"start-unanchored"}

\* Mutation: the ending stays on.
BaseUnstripped(kind) == kind

\* The kind without its ending.
Base(kind) ==
  CASE kind = "bar-backfill" -> "bar"
    [] kind = "bar-amended-backfill" -> "bar-amended"
    [] kind = "start-backfill" -> "start"
    [] kind = "verdict-backfill" -> "verdict"
    [] OTHER -> kind

ZERO == << >>

\* Mutation: the hash of a line is that of its first four fields.
LineHashUnchained(line) == <<[line EXCEPT !.prev = ZERO]>>

LineHash(line) == <<line>>

HeadHash(lines) == IF lines = << >> THEN ZERO ELSE LineHash(Last(lines))

-----------------------------------------------------------------------------
\* The owner's next line, with whatever is in its second and third fields; what
\* is appended to a changed page is not looked at.
Publish ==
  /\ reading = "no"
  /\ ~edited
  /\ Len(page) < MaxLines
  /\ \E exp \in Exps, kind \in Kinds, com \in Records :
       page' = Append(page, [torn |-> FALSE, seq |-> Len(page) + 1, exp |-> exp, kind |-> kind,
                             com |-> com, prev |-> HeadHash(page)])
  /\ UNCHANGED <<edited, saved, readVars>>

\* A line that stands there, with another record or beyond reading.
Rewritten(line) ==
  {[line EXCEPT !.com = Forged], [line EXCEPT !.com = Unhex], [line EXCEPT !.torn = TRUE]}

\* Lines from k on, numbered and chained anew.
Relinked(lines, k) ==
  LET from[n \in 0 .. Len(lines)] ==
        IF n = 0 THEN << >>
        ELSE IF n < k THEN Append(from[n - 1], lines[n])
        ELSE Append(from[n - 1], [lines[n] EXCEPT !.seq = n, !.prev = HeadHash(from[n - 1])])
  IN  from[Len(lines)]

\* A line is changed, removed or moved.
Changed(lines) ==
  (UNION {{ReplaceAt(lines, k, l) : l \in Rewritten(lines[k])} : k \in DOMAIN lines}) \cup
  {RemoveAt(lines, k) : k \in DOMAIN lines} \cup
  {ReplaceAt(ReplaceAt(lines, k, lines[k + 1]), k + 1, lines[k]) : k \in 1 .. Len(lines) - 1}

\* The rest may be linked anew.  Only what happens after a head was saved can be
\* told from what was published.
Edit ==
  /\ reading = "no"
  /\ saved # << >>
  /\ ~edited
  /\ Len(page) <= MaxEdited
  /\ \E lines \in Changed(page) :
       page' \in {lines} \cup {Relinked(lines, k) : k \in DOMAIN lines}
  /\ edited' = TRUE
  /\ UNCHANGED <<saved, readVars>>

-----------------------------------------------------------------------------
\* parse_ledger, called with the whole file.
BeginRead ==
  /\ reading = "no"
  /\ reading' = "lines"
  /\ i' = 0
  /\ prev_expected' = ZERO
  /\ seen' = {}
  /\ started' = {}
  /\ judged' = {}
  /\ next_exp' = 1
  /\ errors' = (page = << >>)
  /\ UNCHANGED pageVars

\* A line that is not text, or not of five fields, is passed over.
ReadTorn ==
  /\ reading = "lines"
  /\ i < Len(page)
  /\ page[i + 1].torn
  /\ errors' = TRUE
  /\ prev_expected' = LineHash(page[i + 1])
  /\ i' = i + 1
  /\ UNCHANGED <<pageVars, reading, seen, started, judged, next_exp>>

Opens(row) == row.exp.n # NoNumber /\ row.exp \notin seen

\* An experiment that appears for the first time.
OpeningErrors(row) == row.exp.n # next_exp \/ row.kind \notin {"bar", "bar-backfill"}

\* What the kind of a line forbids.
KindErrors(row, base) ==
  \/ base = "bar-amended" /\ row.exp \in started
  \/ base \in {"start", "start-unanchored"} /\ row.exp \in started
  \/ base = "verdict" /\ (row.exp \notin started \/ row.exp \in judged)

RowErrors(row) ==
  \/ row.seq # i + 1
  \/ row.exp.n = NoNumber
  \/ Opens(row) /\ OpeningErrors(row)
  \/ row.kind \notin KINDS
  \/ row.kind \in KINDS /\ KindErrors(row, Base(row.kind))
  \/ row.com = Unhex
  \/ row.prev # prev_expected

\* Whatever errors there are, the sets go on as if there were none.
ReadRow ==
  /\ reading = "lines"
  /\ i < Len(page)
  /\ LET row == page[i + 1]
         base == IF row.kind \in KINDS THEN Base(row.kind) ELSE "none"
     IN  /\ ~row.torn
         /\ errors' = (errors \/ RowErrors(row))
         /\ seen' = IF Opens(row) THEN seen \cup {row.exp} ELSE seen
         /\ next_exp' = IF Opens(row) THEN row.exp.n + 1 ELSE next_exp
         /\ started' = IF base \in {"start", "start-unanchored"} THEN started \cup {row.exp} ELSE started
         /\ judged' = IF base = "verdict" THEN judged \cup {row.exp} ELSE judged
         /\ prev_expected' = LineHash(row)
  /\ i' = i + 1
  /\ UNCHANGED <<pageVars, reading>>

\* The verdict, and the head when it is OK.
EndRead ==
  /\ reading = "lines"
  /\ i = Len(page)
  /\ reading' = IF errors THEN "FAIL" ELSE "OK"
  /\ UNCHANGED <<pageVars, i, prev_expected, seen, started, judged, next_exp, errors>>

\* The reader may save the head that was printed, and is done with this page.
Leave ==
  /\ reading \in {"OK", "FAIL"}
  /\ \/ reading = "OK" /\ saved' = page
     \/ UNCHANGED saved
  /\ reading' = "no"
  /\ i' = 0
  /\ prev_expected' = ZERO
  /\ seen' = {} /\ started' = {} /\ judged' = {}
  /\ next_exp' = 1
  /\ errors' = FALSE
  /\ UNCHANGED <<page, edited>>

LedgerInit ==
  /\ page = << >>
  /\ edited = FALSE
  /\ saved = << >>
  /\ reading = "no"
  /\ i = 0
  /\ prev_expected = ZERO
  /\ seen = {} /\ started = {} /\ judged = {}
  /\ next_exp = 1
  /\ errors = FALSE

LedgerNext ==
  Publish \/ Edit \/ BeginRead \/ ReadTorn \/ ReadRow \/ EndRead \/ Leave

LedgerSpec == LedgerInit /\ [][LedgerNext]_ledgerVars

-----------------------------------------------------------------------------
LedgerTypeOK ==
  /\ Len(page) <= MaxLines
  /\ edited \in BOOLEAN
  /\ reading \in {"no", "lines", "OK", "FAIL"}
  /\ i \in 0 .. Len(page)
  /\ started \cup judged \cup seen \subseteq {page[k].exp : k \in 1 .. i}
  /\ errors \in BOOLEAN

Bars == {"bar", "bar-backfill"}
Amendments == {"bar-amended", "bar-amended-backfill"}
Starts == {"start", "start-backfill", "start-unanchored"}
Verdicts == {"verdict", "verdict-backfill"}

\* "a bar line comes before anything else, no amended bar after a start, no
\* second start, and a verdict comes after a start and no more than once"
\* (ledger/verify_ledger.py:7), "the experiment numbers run E-0001, E-0002 ...
\* without a gap": of numbers, however they are written.
InOrder(lines, k) ==
  LET line == lines[k]
      before == {lines[j].exp.n : j \in 1 .. k - 1}
      Own(kinds) == \E j \in 1 .. k - 1 : lines[j].exp.n = line.exp.n /\ lines[j].kind \in kinds
  IN  /\ line.exp.n \notin before => line.kind \in Bars /\ before = 1 .. line.exp.n - 1
      /\ line.kind \in Amendments => ~Own(Starts)
      /\ line.kind \in Starts => ~Own(Starts)
      /\ line.kind \in Verdicts => Own(Starts) /\ ~Own(Verdicts)

Ordered(lines) == \A k \in DOMAIN lines : InOrder(lines, k)

\* A page that the program accepts is in order, experiment by experiment, though
\* their lines interleave; and up to the line with the head that the reader
\* saved, it is the page of that time, whatever was done to it since: "A line
\* that was published earlier cannot be changed, removed or moved later without
\* breaking the chain, for anyone who compares the head hash with a saved copy"
\* (ledger/README.md:56).
AcceptedIsPublished ==
  reading = "OK" =>
    /\ Ordered(page)
    /\ saved # << >> =>
         \A k \in DOMAIN page :
           LineHash(page[k]) = HeadHash(saved) => SubSeq(page, 1, k) = saved
=============================================================================
