------------------------------ MODULE Conformance ------------------------------
(***************************************************************************)
(* cis2-conformance: every vector is given to a candidate program that     *)
(* anybody may have written, over pipes and within ten seconds.            *)
(*                                                                         *)
(* The runner and the candidate run concurrently.  The candidate may do    *)
(* what a process can do with three pipes: read its input or not, write    *)
(* lines, leave a process behind, exit at any moment, or hang, as it does  *)
(* when it logs more than fits in the pipe of stderr, which is never read. *)
(***************************************************************************)
EXTENDS Integers, Sequences, FiniteSets

CONSTANTS
  Vectors,  \* the number of vectors
  Capacity  \* the lines a pipe holds; one more blocks the writer

ASSUME SizesAssumption == Vectors \in Nat \ {0} /\ Capacity \in Nat \ {0}

\* The right and a wrong out_sha256 line, another line, bytes that are no text.
Lines == {"right", "wrong", "noise", "bytes"}

VARIABLES
  pc,       \* of the runner: "spawn", "write", "poll", "clock", "read", "done"
  status,   \* of the candidate: "none", "running", "ok" or "bad" once it exited
  stdin,    \* "empty", "full", "read", or "closed" by the candidate
  stdout,   \* the lines in the pipe
  helper,   \* a process left behind holds stdout
  late,     \* the ten seconds are over
  exited,   \* when the candidate exited: "no", "early", "late", or "gap", which is in
            \* time, too, but since the runner's last try_wait
  strays,   \* candidates of earlier vectors that still run
  results   \* for every vector so far, why it passed or failed, and what happened

vars == <<pc, status, stdin, stdout, helper, late, exited, strays, results>>

candidate == <<status, stdin, stdout, helper, exited>>

-----------------------------------------------------------------------------
\* The vector is done with, and the next begins.
Conclude(why) ==
  /\ results' = Append(results, [why |-> why, said |-> stdout, exit |-> status,
                                 input |-> stdin, exited |-> exited])
  /\ pc' = IF Len(results) + 1 = Vectors THEN "done" ELSE "spawn"
  /\ status' = "none" /\ stdin' = "empty" /\ stdout' = << >>
  /\ helper' = FALSE /\ late' = FALSE /\ exited' = "no"

Init ==
  /\ pc = "spawn"
  /\ status = "none" /\ stdin = "empty" /\ stdout = << >>
  /\ helper = FALSE /\ late = FALSE /\ exited = "no"
  /\ strays = 0
  /\ results = << >>

Spawn ==
  /\ pc = "spawn"
  /\ pc' = "write"
  /\ status' = "running"
  /\ UNCHANGED <<stdin, stdout, helper, late, exited, strays, results>>

\* The vector's files cannot be used, or the candidate cannot be started.
SpawnFails ==
  /\ pc = "spawn"
  /\ Conclude("spawn")
  /\ UNCHANGED strays

\* The vector is written and the pipe closed; then the clock starts.  A vector
\* is shorter than a pipe, so the write does not wait for a reader.
Write ==
  /\ pc = "write"
  /\ status = "running" /\ stdin = "empty"
  /\ stdin' = "full"
  /\ pc' = "poll"
  /\ UNCHANGED <<status, stdout, helper, late, exited, strays, results>>

\* The candidate has closed its input or is gone.  The runner returns at once:
\* it neither kills the candidate nor waits for it.
WriteFails ==
  /\ pc = "write"
  /\ stdin = "closed"
  /\ strays' = IF status = "running" THEN strays + 1 ELSE strays
  /\ Conclude("write")

\* Mutation: stdout is read without waiting for the exit.
ExitedUnseen ==
  /\ pc = "poll"
  /\ pc' = "read"
  /\ UNCHANGED <<candidate, late, strays, results>>

\* try_wait sees the exit, whatever the time.
Exited ==
  /\ pc = "poll"
  /\ status # "running"
  /\ pc' = "read"
  /\ UNCHANGED <<candidate, late, strays, results>>

\* try_wait sees none: next the runner looks at the clock, and the candidate goes
\* on meanwhile.
StillRuns ==
  /\ pc = "poll"
  /\ status = "running"
  /\ pc' = "clock"
  /\ UNCHANGED <<candidate, late, strays, results>>

\* Mutation: the time is looked at before try_wait.
TimeOutFirst ==
  /\ pc = "poll"
  /\ late
  /\ Conclude("timeout")
  /\ UNCHANGED strays

\* Mutation: the candidate is waited for and not killed.
TimeOutWaits ==
  /\ pc = "clock"
  /\ status # "running"
  /\ late
  /\ Conclude("timeout")
  /\ UNCHANGED strays

\* Mutation: it is neither killed nor waited for.
TimeOutSpared ==
  /\ pc = "clock"
  /\ late
  /\ Conclude("timeout")
  /\ strays' = IF status = "running" THEN strays + 1 ELSE strays

\* The ten seconds are over: the candidate is killed and waited for, and has
\* failed even if it exited since try_wait.
TimeOut ==
  /\ pc = "clock"
  /\ late
  /\ Conclude("timeout")
  /\ UNCHANGED strays

\* They are not over: the runner sleeps and takes another turn.
Sleep ==
  /\ pc = "clock"
  /\ ~ late
  /\ pc' = "poll"
  /\ exited' = IF exited = "gap" THEN "early" ELSE exited
  /\ UNCHANGED <<status, stdin, stdout, helper, late, strays, results>>

\* Mutation: any of the digest lines will do.
DigestAny == IF "right" \in {stdout[i] : i \in DOMAIN stdout} THEN "right" ELSE "none"

\* parse_field: the first line that has the key.
Digest ==
  LET Found == {i \in DOMAIN stdout : stdout[i] \in {"right", "wrong"}}
  IN  IF Found = {} THEN "none" ELSE stdout[CHOOSE i \in Found : \A j \in Found : i <= j]

\* stdout is read to its end, which comes when no process holds it open; then
\* the exit status counts, then the digest.
Judge ==
  /\ pc = "read"
  /\ ~ helper
  /\ Conclude(IF "bytes" \in {stdout[i] : i \in DOMAIN stdout} THEN "read"
              ELSE IF status = "bad" THEN "exit"
              ELSE IF Digest = "right" THEN "ok" ELSE "digest")
  /\ UNCHANGED strays

Runner ==
  \/ Spawn \/ SpawnFails \/ Write \/ WriteFails
  \/ Exited \/ StillRuns \/ TimeOut \/ Sleep \/ Judge

\* Ten seconds have passed since the clock started.
Elapse ==
  /\ pc \in {"poll", "clock"} /\ ~ late
  /\ late' = TRUE
  /\ UNCHANGED <<pc, candidate, strays, results>>

-----------------------------------------------------------------------------
(***************************************************************************)
(* The candidate.                                                          *)
(***************************************************************************)
ReadInput ==
  /\ status = "running" /\ stdin = "full"
  /\ stdin' = "read"
  /\ UNCHANGED <<pc, status, stdout, helper, late, exited, strays, results>>

CloseInput ==
  /\ status = "running" /\ stdin = "empty"
  /\ stdin' = "closed"
  /\ UNCHANGED <<pc, status, stdout, helper, late, exited, strays, results>>

\* A line is written, by the candidate or the process it left.
Say(line) ==
  /\ status = "running" \/ helper
  /\ Len(stdout) < Capacity
  /\ stdout' = Append(stdout, line)
  /\ UNCHANGED <<pc, status, stdin, helper, late, exited, strays, results>>

LeaveHelper ==
  /\ status = "running" /\ ~ helper
  /\ helper' = TRUE
  /\ UNCHANGED <<pc, status, stdin, stdout, late, exited, strays, results>>

HelperEnds ==
  /\ helper
  /\ helper' = FALSE
  /\ UNCHANGED <<pc, status, stdin, stdout, late, exited, strays, results>>

Exit(code) ==
  /\ status = "running"
  /\ status' = code
  /\ stdin' = IF stdin = "empty" THEN "closed" ELSE stdin
  /\ exited' = IF late THEN "late" ELSE IF pc = "clock" THEN "gap" ELSE "early"
  /\ UNCHANGED <<pc, stdout, helper, late, strays, results>>

\* A candidate of an earlier vector ends.
StrayEnds ==
  /\ strays > 0
  /\ strays' = strays - 1
  /\ UNCHANGED <<pc, candidate, late, results>>

Candidate ==
  \/ ReadInput \/ CloseInput \/ LeaveHelper \/ HelperEnds \/ StrayEnds
  \/ \E line \in Lines : Say(line)
  \/ \E code \in {"ok", "bad"} : Exit(code)

Next == Runner \/ Elapse \/ Candidate

Spec == Init /\ [][Next]_vars

\* The runner runs and time passes; nothing is expected of the candidate.
FairSpec == Spec /\ WF_vars(Runner) /\ WF_vars(Elapse)

-----------------------------------------------------------------------------
(***************************************************************************)
(* Properties.                                                             *)
(***************************************************************************)
\* There is a candidate to speak to while there is a vector in hand.
TypeOK ==
  /\ pc \in {"spawn", "write", "poll", "clock", "read", "done"}
  /\ status = "none" <=> pc \in {"spawn", "done"}
  /\ pc = "read" => status # "running"
  /\ pc \in {"poll", "clock", "read"} => stdin \in {"full", "read"}
  /\ Len(stdout) <= Capacity
  /\ Len(results) <= Vectors /\ (pc = "done" => Len(results) = Vectors)

FirstDigest(said, line) ==
  \E i \in DOMAIN said :
    said[i] = line /\ \A j \in 1 .. i - 1 : said[j] \notin {"right", "wrong"}

\* PROTOCOL.md: what passes is a candidate that exited with 0 and whose first
\* out_sha256 line, of all it wrote, is the pinned one.
PassIsEarned ==
  \A k \in DOMAIN results :
    results[k].why = "ok" => results[k].exit = "ok" /\ FirstDigest(results[k].said, "right")

\* It read its input, wrote the right digest first and nothing but text, and
\* exited with 0 before the time was up.
Conforming(r) ==
  /\ r.input = "read" /\ r.exit = "ok" /\ r.exited \in {"early", "gap"}
  /\ FirstDigest(r.said, "right")
  /\ \A i \in DOMAIN r.said : r.said[i] # "bytes"

\* A candidate that kept to the protocol passes, however late the runner looks,
\* but for one case: it exits behind the runner's back, after a try_wait that saw
\* it running (cis2_conformance.rs:53), and the ten seconds end before that same
\* turn of the loop comes to the clock (:66).
ConformingFailsInGapOnly ==
  \A k \in DOMAIN results :
    Conforming(results[k]) =>
      \/ results[k].why = "ok"
      \/ results[k].why = "timeout" /\ results[k].exited = "gap"

\* Candidates are not run side by side, which could cost one of them its time:
\* the runner leaves only those running that would not take their input.
OneAtATime == strays <= Cardinality({k \in DOMAIN results : results[k].why = "write"})

\* PROTOCOL.md: the timeout is there "to keep a hung or blocking candidate
\* binary from stalling the whole run".
RunEnds == <>(pc = "done")

\* What holds of it: the run ends if no process that a candidate leaves behind
\* keeps stdout open for ever, whatever else candidates do or fail to do.
RunEndsAfterHelpers == []<>(~ helper) => RunEnds
=============================================================================
