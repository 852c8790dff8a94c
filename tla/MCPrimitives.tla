---------------------------- MODULE MCPrimitives ----------------------------
(***************************************************************************)
(* Small instances of the floating-point start-up, of the digests, of the  *)
(* ledger and of the JSON readers: an f32 of 3 bits of mantissa and 5 of   *)
(* exponent, an f64 of 6 and 5 (6 where JSON's numbers are converted).     *)
(* They have nothing to do with one another and are looked at side by side.*)
(***************************************************************************)
EXTENDS Startup, Sha256Stream, Ledger, Json

VARIABLE part  \* "floats", "digests", "ledger" or "json"

MCSingle == [man |-> 3, exp |-> 5]
MCDouble == [man |-> 6, exp |-> 5]

C == INSTANCE SmallFloat WITH
  Single <- MCSingle, Double <- MCDouble, Env <- [isa |-> "x86_64", out |-> TRUE, in |-> TRUE]

\* n / 2 ^ k as a float.
F(n, k) == C!Pack(MCSingle, IF n < 0 THEN 1 ELSE 0, IF n < 0 THEN -n ELSE n, -k)

MCTinyFactor == F(1, 5)
MCExpMax == F(11, 0)
MCExpMin == F(-11, 0)
MCLog2e == F(12, 3)
MCC1 == F(11, 4)
MCC2 == F(-10, 10)
MCExpP == <<F(8, 9), F(8, 8), F(10, 8), F(11, 8), F(11, 6), F(8, 4)>>
MCPi2 == C!Pack(MCDouble, 0, 101, -6)
MCSinC == <<F(-11, 6), F(9, 9), F(-8, 9)>>
MCCosC == <<F(11, 8), F(-9, 9), F(8, 9)>>
MCSqrtHf == F(11, 4)
MCCuts == 1 .. 136
MCLogP == <<F(9, 7), F(-15, 7), F(15, 7), F(-8, 6), F(9, 6), F(-11, 6), F(13, 6), F(-8, 5), F(11, 5)>>

\* E-0001, E-00001 and E-0002.
MCExps == {[n |-> 1, digits |-> 4], [n |-> 1, digits |-> 5], [n |-> 2, digits |-> 4]}

\* 7 bits of significand for 3 digits and 3 powers of ten are what 53 are for 16
\* and 22: fewer digits than the most are exact, and so is every power.
MCFloat64 == [man |-> 6, exp |-> 6]
MCWorth == [d \in {"0", "1", "9"} |-> CASE d = "0" -> 0 [] d = "1" -> 1 [] d = "9" -> 9]

Singly(symbols) == {<<symbol>> : symbol \in symbols}
MCAlphabets == {
  [first |-> << >>, longest |-> 7,
   chunks |-> Singly({"{", "}", "[", "]", ",", ":", " ", "1"}) \cup {<<"quote", "a", "quote">>}],
  [first |-> <<"{">>, longest |-> 15,
   chunks |-> Singly({"{", "}", ",", ":", "true"}) \cup {<<"quote", "a", "quote">>}],
  [first |-> <<"quote">>, longest |-> 7,
   chunks |-> Singly({"quote", "a", High, Low, Pair, "control", "not UTF-8", "bad escape"})],
  [first |-> << >>, longest |-> 7,
   chunks |-> Singly({"0", "1", "9", "-", "+", ".", "e"})]}

-----------------------------------------------------------------------------
Idle == [isa |-> "x86_64", sticks |-> {}, obeyed |-> {}]

\* No program starts up.
NoStart ==
  /\ phase = "idle" /\ program = "cis2_verify" /\ host = Idle /\ control = {}
  /\ env = Effective({}) /\ probes = << >> /\ call = [f |-> "none", x |-> 0, value |-> 0]

NoHash == hasher = New("rust") /\ fed = 0 /\ digest = << >>

NoText == alphabet = [first |-> << >>, longest |-> 0, chunks |-> {}] /\ text = << >>

Init ==
  \/ part = "floats" /\ StartInit /\ NoHash /\ LedgerInit /\ NoText
  \/ part = "digests" /\ NoStart /\ HashInit /\ LedgerInit /\ NoText
  \/ part = "ledger" /\ NoStart /\ NoHash /\ LedgerInit /\ NoText
  \/ part = "json" /\ NoStart /\ NoHash /\ LedgerInit /\ JsonInit

Next ==
  /\ UNCHANGED part
  /\ \/ part = "floats" /\ StartNext /\ UNCHANGED <<hashVars, ledgerVars, jsonVars>>
     \/ part = "digests" /\ HashNext /\ UNCHANGED <<startVars, ledgerVars, jsonVars>>
     \/ part = "ledger" /\ LedgerNext /\ UNCHANGED <<startVars, hashVars, jsonVars>>
     \/ part = "json" /\ JsonNext /\ UNCHANGED <<startVars, hashVars, ledgerVars>>

vars == <<part, startVars, hashVars, ledgerVars, jsonVars>>

Spec == Init /\ [][Next]_vars

TypeOK == StartTypeOK /\ HashTypeOK /\ LedgerTypeOK /\ JsonTypeOK
=============================================================================
