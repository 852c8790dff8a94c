------------------------------ MODULE Startup ------------------------------
(***************************************************************************)
(* How each program pins the floating-point environment (specification     *)
(* 1.3), checks that it did, and only then computes with the pinned        *)
(* functions.  The host need not do as it is told: a control bit may not   *)
(* stick, or stick and change nothing.                                     *)
(***************************************************************************)
EXTENDS Integers, Sequences

CONSTANTS
  Single, Double,    \* the formats of f32 and f64
  Programs,          \* a subset of {"cis2_verify", "reference", "verify2", "verify3"}
  Isas,              \* a subset of {"x86_64", "aarch64"}
  TinyFactor,        \* 1.0e-10: below half of the least float over MIN_POSITIVE
  ExpMax, ExpMin, EXP_LOG2E, EXP_C1, EXP_C2, EXP_P, PI_2_F64, SIN_C, COS_C,
  LOG_SQRTHF, LOG_Q1, LOG_Q2, LOG_P

VARIABLES
  phase,    \* "start", "pinned", "probing", "ready", "called" or "refused"
  program,  \* the program that starts
  host,     \* isa, the control bits that stick, and the flushes that they cause
  control,  \* the bits set in the control register
  env,      \* what they make of arithmetic: isa, and which floats are flushed
  probes,   \* the results of the self-test so far
  call      \* the function called last, its argument and its value

startVars == <<phase, program, host, control, env, probes, call>>

\* Arithmetic in the environment, and the programs' functions in it.
Cpu == INSTANCE SmallFloat WITH Env <- env
Cis2Verify == INSTANCE PinnedMath WITH Program <- "cis2_verify", Env <- env
Reference == INSTANCE PinnedMath WITH Program <- "reference", Env <- env
Verify2 == INSTANCE PinnedMath WITH Program <- "verify2", Env <- env
Verify3 == INSTANCE PinnedMath WITH Program <- "verify3", Env <- env

\* What the functions are to give: an x86-64 with both flushes stands for all.
Meaning == INSTANCE PinnedMath WITH
  Program <- "meaning", Env <- [isa |-> "x86_64", out |-> TRUE, in |-> TRUE]

Bits(isa) == IF isa = "x86_64" THEN {"FTZ", "DAZ"} ELSE {"FZ"}
Flushes == {"out", "in"}
Hosts == UNION {[isa : {isa}, sticks : SUBSET Bits(isa), obeyed : SUBSET Flushes] : isa \in Isas}

\* The environment that the bits set up on the host; aarch64's one bit stands
\* for both flushes.
Effective(bits) ==
  LET On(flush, bit) == bits \cap {bit, "FZ"} # {} /\ flush \in host.obeyed
  IN  [isa |-> host.isa, out |-> On("out", "FTZ"), in |-> On("in", "DAZ")]

-----------------------------------------------------------------------------
\* The products and sums of the self-tests, on f32::MIN_POSITIVE and on the
\* least subnormal.  The factor was 1.0e-10 everywhere once (erratum E-11).
MinPositive == 2 ^ Single.man
Half == Cpu!Word(Single, 0, Cpu!Bias(Single) - 1, 0)

\* Mutation: the factor before the erratum.
ProbeFactorUncorrected == TinyFactor

ProbeFactor == IF program = "cis2_verify" THEN Half ELSE TinyFactor
UnderflowProbe == Cpu!Mul(Single, MinPositive, ProbeFactor)
DenormalProbe == Cpu!Add(Single, 1, 0)

\* verify2 compares with 0.0 and asks for the sign of the product, the others
\* look at the bits.
Passes(x) ==
  IF program = "verify2"
  THEN Cpu!IsZeroIn(Single, x) /\ (probes = << >> => Cpu!Sign(Single, x) = 0)
  ELSE x = 0

-----------------------------------------------------------------------------
StartInit ==
  /\ phase = "start"
  /\ program \in Programs
  /\ host \in Hosts
  /\ control = {}
  /\ env = Effective({})
  /\ probes = << >>
  /\ call = [f |-> "none", x |-> 0, value |-> 0]

\* Read, set the bits, write.
Pin ==
  /\ phase = "start"
  /\ control' = (control \cup Bits(host.isa)) \cap host.sticks
  /\ env' = Effective(control')
  /\ phase' = "pinned"
  /\ UNCHANGED <<program, host, probes, call>>

\* The bits are read back.  The reference goes on from there; the other
\* programs run the self-test first.
ReadBack ==
  /\ phase = "pinned"
  /\ Bits(host.isa) \subseteq control
  /\ phase' = IF program = "reference" THEN "ready" ELSE "probing"
  /\ UNCHANGED <<program, host, control, env, probes, call>>

ReadBackFails ==
  /\ phase = "pinned"
  /\ ~(Bits(host.isa) \subseteq control)
  /\ phase' = "refused"
  /\ UNCHANGED <<program, host, control, env, probes, call>>

\* One probe and its verdict.
Probe(result) ==
  /\ phase = "probing"
  /\ probes' = Append(probes, result)
  /\ phase' = IF ~Passes(result) THEN "refused"
              ELSE IF Len(probes) = 1 THEN "ready" ELSE "probing"
  /\ UNCHANGED <<program, host, control, env, call>>

ProbeUnderflow == probes = << >> /\ Probe(UnderflowProbe)
ProbeDenormal == Len(probes) = 1 /\ Probe(DenormalProbe)

\* The functions of the decode path, and the three that cis2-verify has of its
\* own.  Sine, cosine and the rounding inside of them see finite numbers; f64
\* having so small a range here, sine and cosine only such that no step of them
\* leaves it.
Functions == {"rsqrt", "exp", "silu", "ln", "sin", "cos"} \cup
             (IF program = "cis2_verify" THEN {"sqrt", "floor", "round"} ELSE {})
Format(f) == IF f = "round" THEN Double ELSE Single
Defined(f, x) ==
  /\ f = "round" => Cpu!Finite(Double, x)
  /\ f \in {"sin", "cos"} => Cpu!ExpField(Single, x) < Cpu!Top(Single) - 2

\* What a call gives in each program.
Cis2VerifyValue(f, x) == Cis2Verify!Value(f, x)
ReferenceValue(f, x) == Reference!Value(f, x)
Verify2Value(f, x) == Verify2!Value(f, x)
Verify3Value(f, x) == Verify3!Value(f, x)

Result(f, x) ==
  CASE program = "cis2_verify" -> Cis2VerifyValue(f, x)
    [] program = "reference"   -> ReferenceValue(f, x)
    [] program = "verify2"     -> Verify2Value(f, x)
    [] program = "verify3"     -> Verify3Value(f, x)

Call ==
  /\ phase = "ready"
  /\ \E f \in Functions : \E x \in Cpu!Words(Format(f)) :
       /\ Defined(f, x)
       /\ call' = [f |-> f, x |-> x, value |-> Result(f, x)]
  /\ phase' = "called"
  /\ UNCHANGED <<program, host, control, env, probes>>

StartNext ==
  \/ Pin
  \/ ReadBack
  \/ ReadBackFails
  \/ ProbeUnderflow
  \/ ProbeDenormal
  \/ Call

-----------------------------------------------------------------------------
StartTypeOK ==
  /\ phase \in {"start", "pinned", "probing", "ready", "called", "refused", "idle"}
  /\ program \in Programs
  /\ host \in Hosts
  /\ control \subseteq host.sticks
  /\ env = Effective(control)
  /\ Len(probes) <= 2
  /\ phase = "called" => {call.x, call.value} \subseteq Cpu!Words(Format(call.f))

\* Whatever program computes a function of the decode path, on whatever host,
\* its result has the bits that the definition of the function gives, the same
\* on both instruction sets: cis2-verify's integer square root and its floor and round
\* by masking (softfp.rs), scaling and splitting by exponent fields, and the
\* processors' different notions of a tiny result make no difference, nor does it
\* whether exp's smallest results would be flushed (erratum E-12).  For
\* cis2-verify this holds on every host that gets past its self-test; the other
\* programs' tests let hosts through that flush no results, so that they need a
\* host that does as it is told.  Subnormal arguments are set apart: no test
\* sees whether they are read as zero (see SelfTestSeesDaz).
FunctionsAgree ==
  phase = "called" =>
    LET f == call.f
        inDomain == f = "ln" => call.x # Cpu!Inf(Single, 0)
        sound == program = "cis2_verify" \/ host.obeyed = Flushes
    IN  sound /\ inDomain /\ ~Cpu!IsSubnormal(Format(f), call.x) =>
          Cpu!Same(Format(f), call.value, Meaning!Value(f, call.x))

\* "The DAZ half of the self-test (0x00000001 + 0.0) always did discriminate"
\* (docs/CIS2_SPEC_v0.3b.md:153): a program past the corrected self-test reads
\* subnormal operands as zero.  A product with a large float shows it.
SelfTestSeesDaz ==
  phase = "ready" /\ program = "cis2_verify" =>
    LET large == Cpu!Word(Single, 0, 2 ^ Single.exp - 2, 0)
    IN  \A x \in Cpu!Words(Single) :
          Cpu!IsSubnormal(Single, x) =>
            Cpu!IsZeroIn(Single, Cpu!Mul(Single, x, large))
=============================================================================
