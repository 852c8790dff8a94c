-------------------------- MODULE PreTokenizeProofs --------------------------
(***************************************************************************)
(* Proofs about PreTokenize, for texts of any length and any classes of    *)
(* letters, numbers and blanks.                                            *)
(***************************************************************************)
EXTENDS PreTokenize, Induction

Chars == {text[j] : j \in DOMAIN text}
IsText == text \in Seq(Chars)

LEMMA TextHas ==
  ASSUME IsText
  PROVE  /\ Len(text) \in Nat /\ DOMAIN text = 1 .. Len(text)
         /\ \A j \in 1 .. Len(text) : text[j] \in Chars
BY LenProperties, ElementOfSeq DEF IsText

-----------------------------------------------------------------------------
(* Where runs of a class and segments end.                                 *)

\* A run of a class from p, no longer than to stop, has an end.
LEMMA RunEndIs ==
  ASSUME NEW class, NEW p \in Nat, NEW stop \in Nat, p <= stop
  PROVE  /\ RunEnd(class, p, stop) \in p .. stop
         /\ \A k \in p .. RunEnd(class, p, stop) - 1 : Holds(class, text[k])
         /\ RunEnd(class, p, stop) < stop => ~ Holds(class, text[RunEnd(class, p, stop)])
<1> DEFINE Ends(q) == /\ \A k \in p .. q - 1 : Holds(class, text[k])
                      /\ q < stop => ~ Holds(class, text[q])
           Stops == {q \in p .. stop : q = stop \/ ~ Holds(class, text[q])}
<1>1. PICK q \in Stops : \A r \in Stops : q <= r
  <2>1. Stops # {} /\ Stops \in SUBSET Nat
    <3>1. stop \in Stops
      OBVIOUS
    <3> QED
      BY <3>1
  <2> HIDE DEF Stops
  <2> QED
    BY <2>1, LeastNat
<1>2. q \in p .. stop /\ Ends(q)
  <2>1. ASSUME NEW k \in p .. q - 1 PROVE Holds(class, text[k])
    <3>1. k \in p .. stop /\ ~ (q <= k)
      BY <1>1
    <3> QED
      BY <1>1, <3>1
  <2> QED
    BY <1>1, <2>1
<1>3. RunEnd(class, p, stop) = CHOOSE r \in p .. stop : Ends(r)
  BY DEF RunEnd
<1> HIDE DEF Ends
<1>4. RunEnd(class, p, stop) \in p .. stop /\ Ends(RunEnd(class, p, stop))
  BY <1>2, <1>3
<1> QED
  BY <1>4 DEF Ends

LEMMA SegmentEndIs ==
  ASSUME IsText, NEW p \in 1 .. Len(text)
  PROVE  /\ SegmentEnd(text, p) \in p + 1 .. Len(text) + 1
         /\ text[p] \in Number => SegmentEnd(text, p) = p + 1
         /\ text[p] \notin Number =>
              /\ \A k \in p .. SegmentEnd(text, p) - 1 : text[k] \notin Number
              /\ SegmentEnd(text, p) <= Len(text) => text[SegmentEnd(text, p)] \in Number
<1> DEFINE n == Len(text)
           Ends(q) == /\ \A k \in p .. q - 1 : text[k] \notin Number
                      /\ q <= n => text[q] \in Number
           Stops == {q \in p + 1 .. n + 1 : q = n + 1 \/ text[q] \in Number}
<1>0. n \in Nat
  BY TextHas
<1>1. CASE text[p] \in Number
  BY <1>0, <1>1 DEF SegmentEnd
<1>2. CASE text[p] \notin Number
  <2>1. PICK q \in Stops : \A r \in Stops : q <= r
    <3>1. Stops # {} /\ Stops \in SUBSET Nat
      <4>1. n + 1 \in Stops
        BY <1>0
      <4>2. p + 1 .. n + 1 \subseteq Nat
        BY <1>0
      <4> QED
        BY <4>1, <4>2
    <3> HIDE DEF Stops
    <3> QED
      BY <3>1, LeastNat
  <2>2. q \in p + 1 .. n + 1 /\ Ends(q)
    <3>1. ASSUME NEW k \in p .. q - 1 PROVE text[k] \notin Number
      <4>1. k = p \/ (k \in p + 1 .. n + 1 /\ ~ (q <= k))
        BY <1>0, <2>1
      <4> QED
        BY <1>2, <2>1, <4>1
    <3> QED
      BY <1>0, <2>1, <3>1
  <2>3. SegmentEnd(text, p) = CHOOSE r \in p + 1 .. n + 1 : Ends(r)
    BY <1>2 DEF SegmentEnd
  <2> HIDE DEF Ends
  <2>4. SegmentEnd(text, p) \in p + 1 .. n + 1 /\ Ends(SegmentEnd(text, p))
    BY <2>2, <2>3
  <2> QED
    BY <1>2, <2>4 DEF Ends
<1> QED
  BY <1>1, <1>2

-----------------------------------------------------------------------------
(* What the alternatives of the expression match, in terms of runs.        *)

\* The ends of ` ?C+`.
ClassEnds(class, p, stop) ==
  {q \in p + 1 .. stop : AfterSpace(p) < q /\ \A k \in AfterSpace(p) .. q - 1 : Holds(class, text[k])}

LEMMA LongestIs ==
  ASSUME NEW S, NEW q \in S, S \subseteq Nat, \A r \in S : r <= q
  PROVE  Longest(S) = q
<1>1. \A x \in S : (\A r \in S : r <= x) => x = q
  BY SMT
<1> QED
  BY <1>1 DEF Longest

LEMMA AfterSpaceIs ==
  ASSUME NEW p \in Nat
  PROVE  /\ text[p] = " " => AfterSpace(p) = p + 1
         /\ text[p] # " " => AfterSpace(p) = p
         /\ AfterSpace(p) = p \/ AfterSpace(p) = p + 1
         /\ AfterSpace(p) \in Nat /\ p <= AfterSpace(p) /\ AfterSpace(p) <= p + 1
<1>1. text[p] = " " => AfterSpace(p) = p + 1
  BY DEF AfterSpace
<1>2. text[p] # " " => AfterSpace(p) = p
  BY DEF AfterSpace
<1>3. AfterSpace(p) = p \/ AfterSpace(p) = p + 1
  BY <1>1, <1>2
<1>4. AfterSpace(p) \in Nat /\ p <= AfterSpace(p) /\ AfterSpace(p) <= p + 1
  BY <1>3
<1> QED
  BY <1>1, <1>2, <1>3, <1>4

\* The longest of these is a run.
LEMMA ClassEndIs ==
  ASSUME NEW class, NEW p \in Nat, NEW stop \in Nat, p < stop
  PROVE  LET end == RunEnd(class, AfterSpace(p), stop)
         IN  /\ end \in p .. stop
             /\ ClassEnds(class, p, stop) # {} <=> end # AfterSpace(p)
             /\ end # AfterSpace(p) =>
                  /\ Longest(ClassEnds(class, p, stop)) = end
                  /\ end \in p + 1 .. stop
                  /\ Holds(class, text[AfterSpace(p)])
                  /\ AfterSpace(p) < stop
<1> DEFINE body == AfterSpace(p)
           end == RunEnd(class, body, stop)
           S == ClassEnds(class, p, stop)
<1>1. body \in Nat /\ p <= body /\ body <= p + 1 /\ body <= stop
  <2> HIDE DEF body
  <2>1. body \in Nat /\ p <= body /\ body <= p + 1
    BY AfterSpaceIs DEF body
  <2> QED
    BY <2>1
<1>2. /\ end \in body .. stop
      /\ \A k \in body .. end - 1 : Holds(class, text[k])
      /\ end < stop => ~ Holds(class, text[end])
  BY <1>1, RunEndIs
<1>3. S = {q \in p + 1 .. stop : body < q /\ \A k \in body .. q - 1 : Holds(class, text[k])}
  BY DEF ClassEnds
<1> HIDE DEF body, end, S
<1>4. ASSUME NEW r \in S PROVE r <= end
  <2>1. SUFFICES ASSUME end < r PROVE FALSE
    BY <1>1, <1>2, <1>3
  <2>2. end \in body .. r - 1 /\ end < stop
    BY <1>1, <1>2, <1>3, <2>1
  <2> QED
    BY <1>2, <1>3, <2>2
<1>5. CASE end = body
  <2>1. S = {}
    BY <1>1, <1>3, <1>4, <1>5
  <2> QED
    BY <1>1, <1>2, <1>5, <2>1 DEF body, end, S
<1>6. CASE end # body
  <2>1. end \in p + 1 .. stop /\ body < end /\ body \in body .. end - 1
    BY <1>1, <1>2, <1>6
  <2>2. end \in S
    BY <1>2, <1>3, <2>1
  <2>3. Longest(S) = end
    <3>1. S \subseteq Nat
      BY <1>3
    <3> QED
      BY <1>4, <2>2, <3>1, LongestIs
  <2>4. Holds(class, text[body]) /\ body < stop
    BY <1>1, <1>2, <2>1
  <2> QED
    BY <1>6, <2>1, <2>2, <2>3, <2>4 DEF body, end, S
<1> QED
  BY <1>5, <1>6

LEMMA Classes ==
  /\ Letter \cap Number = {} /\ Letter \cap Blank = {} /\ Number \cap Blank = {}
  /\ " " \in Blank /\ " " \notin Letter \cup Number
  /\ "'" \notin Letter \cup Number \cup Blank
BY ClassesAssumption

LEMMA HoldsIs ==
  ASSUME NEW c
  PROVE  /\ Holds("Letter", c) <=> c \in Letter
         /\ Holds("Number", c) <=> c \in Number
         /\ Holds("Other", c) <=> c \notin Letter \cup Number \cup Blank
         /\ Holds("Blank", c) <=> c \in Blank
<1>1. (Holds("Letter", c) <=> c \in Letter) /\ (Holds("Number", c) <=> c \in Number)
  BY DEF Holds
<1>2. Holds("Other", c) <=> Other(c)
  BY DEF Holds
<1>3. Holds("Blank", c) <=> c \in Blank
  BY DEF Holds
<1>4. Other(c) <=> c \notin Letter \cup Number \cup Blank
  BY DEF Other
<1> QED
  BY <1>1, <1>2, <1>3, <1>4

LEMMA OneClass ==
  ASSUME NEW c, NEW k \in {"Letter", "Number", "Other"}, NEW l \in {"Letter", "Number", "Other"},
         Holds(k, c), Holds(l, c)
  PROVE  k = l
<1>1. /\ Holds("Letter", c) <=> c \in Letter
      /\ Holds("Number", c) <=> c \in Number
      /\ Holds("Other", c) <=> c \notin Letter \cup Number \cup Blank
      /\ Letter \cap Number = {}
  BY HoldsIs, Classes
<1>2. /\ ~ (Holds("Letter", c) /\ Holds("Number", c))
      /\ ~ (Holds("Letter", c) /\ Holds("Other", c))
      /\ ~ (Holds("Number", c) /\ Holds("Other", c))
  BY <1>1
<1> QED
  BY <1>2

\* ` ?C+` by the expression and by the scanners.
LEMMA ClassMatches ==
  ASSUME NEW p \in Nat, NEW stop \in Nat
  PROVE  /\ Lettered(text, p, stop) = ClassEnds("Letter", p, stop)
         /\ Numbered(text, p, stop) = ClassEnds("Number", p, stop)
         /\ Punctuated(text, p, stop) = ClassEnds("Other", p, stop)
<1> DEFINE Ends(class, q) ==
             /\ AfterSpace(p) < q
             /\ \A k \in AfterSpace(p) .. q - 1 : Holds(class, text[k])
           Plainly(class, q) ==
             \/ \A k \in p .. q - 1 : Holds(class, text[k])
             \/ text[p] = " " /\ q > p + 1 /\ \A k \in p + 1 .. q - 1 : Holds(class, text[k])
<1>1. ASSUME NEW class \in {"Letter", "Number", "Other"}, NEW q \in p + 1 .. stop
      PROVE  Ends(class, q) <=> Plainly(class, q)
  <2>0. p \in p .. q - 1 /\ p < q
    OBVIOUS
  <2>1. CASE text[p] = " "
    <3>1. ~ Holds(class, text[p])
      BY <2>1, HoldsIs, Classes
    <3>2. AfterSpace(p) = p + 1
      BY <2>1, AfterSpaceIs
    <3>3. p + 1 < q <=> q > p + 1
      OBVIOUS
    <3> QED
      BY <2>0, <2>1, <3>1, <3>2, <3>3
  <2>2. CASE text[p] # " "
    <3>1. AfterSpace(p) = p
      BY <2>2, AfterSpaceIs
    <3> QED
      BY <2>0, <2>2, <3>1
  <2> QED
    BY <2>1, <2>2
<1>2. \A class : ClassEnds(class, p, stop) = {q \in p + 1 .. stop : Ends(class, q)}
  BY DEF ClassEnds
<1>3. Lettered(text, p, stop) = {q \in p + 1 .. stop : Plainly("Letter", q)}
  BY HoldsIs DEF Lettered, All
<1>4. Numbered(text, p, stop) = {q \in p + 1 .. stop : Plainly("Number", q)}
  BY HoldsIs DEF Numbered, All
<1>5. Punctuated(text, p, stop) = {q \in p + 1 .. stop : Plainly("Other", q)}
  BY HoldsIs DEF Punctuated, NoneOf
<1> HIDE DEF Ends, Plainly
<1>6. ASSUME NEW class \in {"Letter", "Number", "Other"}
      PROVE  {q \in p + 1 .. stop : Plainly(class, q)} = ClassEnds(class, p, stop)
  BY <1>1, <1>2
<1> QED
  BY <1>3, <1>4, <1>5, <1>6

\* Of the three classes no more than one goes on at a place.
LEMMA OneBody ==
  ASSUME NEW p \in Nat, NEW stop \in Nat, p < stop,
         NEW class \in {"Letter", "Number", "Other"},
         RunEnd(class, AfterSpace(p), stop) # AfterSpace(p)
  PROVE  /\ BodyEnds(p, stop) = {RunEnd(class, AfterSpace(p), stop)}
         /\ \A other \in {"Letter", "Number", "Other"} \ {class} : ClassEnds(other, p, stop) = {}
<1> DEFINE body == AfterSpace(p)
<1>1. Holds(class, text[body]) /\ body < stop
  BY ClassEndIs
<1>2. ASSUME NEW other \in {"Letter", "Number", "Other"} \ {class}
      PROVE  ClassEnds(other, p, stop) = {} /\ RunEnd(other, body, stop) = body
  <2>1. ~ Holds(other, text[body])
    BY <1>1, OneClass
  <2>2. RunEnd(other, body, stop) = body
    BY <2>1, ClassEndIs
  <2> QED
    BY <2>2, ClassEndIs
<1>3. BodyEnds(p, stop) = {RunEnd(k, body, stop) : k \in {"Letter", "Number", "Other"}} \ {body}
  BY DEF BodyEnds
<1> HIDE DEF body
<1>4. BodyEnds(p, stop) = {RunEnd(class, body, stop)}
  <2>1. RunEnd(class, body, stop) # body
    BY DEF body
  <2> QED
    BY <1>2, <1>3, <2>1
<1> QED
  BY <1>2, <1>4 DEF body

\* Contractions differ in their first letter.
LEMMA Heads ==
  /\ \A v \in Contractions : Len(v) \in Nat \ {0}
  /\ \A v, w \in Contractions : v[1] = w[1] => v = w
<1> DEFINE s == <<"s">>
           t == <<"t">>
           re == <<"r", "e">>
           ve == <<"v", "e">>
           m == <<"m">>
           ll == <<"l", "l">>
           d == <<"d">>
<1>1. /\ Len(s) = 1 /\ Len(t) = 1 /\ Len(re) = 2 /\ Len(ve) = 2
      /\ Len(m) = 1 /\ Len(ll) = 2 /\ Len(d) = 1
  OBVIOUS
<1>2. /\ s[1] = "s" /\ t[1] = "t" /\ re[1] = "r" /\ ve[1] = "v"
      /\ m[1] = "m" /\ ll[1] = "l" /\ d[1] = "d"
  OBVIOUS
<1>3. Contractions = {s, t, re, ve, m, ll, d}
  BY DEF Contractions
<1> HIDE DEF s, t, re, ve, m, ll, d
<1>4. \A v \in Contractions : Len(v) \in Nat \ {0}
  BY <1>1, <1>3
<1>5. \A v, w \in Contractions : v[1] = w[1] => v = w
  BY <1>2, <1>3
<1> QED
  BY <1>4, <1>5

LEMMA ContractionsSame ==
  ASSUME IsText, NEW p \in 1 .. Len(text), NEW stop \in p + 1 .. Len(text) + 1
  PROVE  /\ ContractionEnds(p, stop) = Contracted(text, p, stop)
         /\ ContractionEnds(p, stop) \subseteq p + 1 .. stop
         /\ \A q, r \in ContractionEnds(p, stop) : q = r
<1> DEFINE Fits(v) == /\ text[p] = "'" /\ p + 1 + Len(v) <= stop
                      /\ SubSeq(text, p + 1, p + Len(v)) = v
<1>0. Len(text) \in Nat /\ p \in Nat /\ stop \in Nat
  BY TextHas
<1>1. ContractionEnds(p, stop) = {p + 1 + Len(w) : w \in {v \in Contractions : Fits(v)}}
  BY DEF ContractionEnds
<1>2. Contracted(text, p, stop) =
        {q \in p + 1 .. stop : text[p] = "'" /\ SubSeq(text, p + 1, q - 1) \in Contractions}
  BY DEF Contracted
<1>3. ASSUME NEW v \in Contractions, Fits(v)
      PROVE  p + 1 + Len(v) \in Contracted(text, p, stop) /\ v[1] = text[p + 1]
  <2>1. Len(v) \in Nat \ {0}
    BY Heads
  <2>2. p + 1 + Len(v) \in p + 1 .. stop /\ (p + 1 + Len(v)) - 1 = p + Len(v)
    BY <1>0, <1>3, <2>1
  <2>3. SubSeq(text, p + 1, p + Len(v))[1] = text[p + 1]
    <3>1. /\ p + 1 \in 1 .. Len(text) + 1 /\ p + Len(v) \in p .. Len(text)
          /\ p + 1 <= p + Len(v) /\ (p + 1) + 1 - 1 = p + 1
          /\ 1 \in 1 .. (p + Len(v)) - (p + 1) + 1
      BY <1>0, <2>1, <2>2
    <3>2. \A j \in p + 1 .. p + Len(v) : text[j] \in Chars
      BY <1>0, <3>1, TextHas
    <3> QED
      BY <1>0, <3>1, <3>2, SubSeqProperties
  <2> QED
    BY <1>2, <1>3, <2>2, <2>3
<1>4. ASSUME NEW q \in Contracted(text, p, stop)
      PROVE  \E v \in Contractions : Fits(v) /\ q = p + 1 + Len(v)
  <2> DEFINE v == SubSeq(text, p + 1, q - 1)
  <2>1. q \in p + 1 .. stop /\ text[p] = "'" /\ v \in Contractions
    BY <1>2
  <2>2. Len(v) = (q - 1) - p
    <3>1. \A j \in p + 1 .. q - 1 : text[j] \in Chars
      BY <1>0, <2>1, TextHas
    <3> QED
      BY <1>0, <2>1, <3>1, SubSeqProperties
  <2>3. q = p + 1 + Len(v) /\ p + Len(v) = q - 1
    BY <1>0, <2>1, <2>2
  <2>4. SubSeq(text, p + 1, p + Len(v)) = v
    BY <2>3
  <2>5. p + 1 + Len(v) <= stop
    BY <2>1, <2>3
  <2>6. Fits(v)
    BY <2>1, <2>4, <2>5
  <2> HIDE DEF v, Fits
  <2> QED
    BY <2>1, <2>3, <2>6
<1> HIDE DEF Fits
<1>5. ContractionEnds(p, stop) = Contracted(text, p, stop)
  BY <1>1, <1>3, <1>4
<1>6. ContractionEnds(p, stop) \subseteq p + 1 .. stop
  BY <1>2, <1>5
<1>7. ASSUME NEW q \in ContractionEnds(p, stop), NEW r \in ContractionEnds(p, stop)
      PROVE  q = r
  <2>1. PICK v \in Contractions : Fits(v) /\ q = p + 1 + Len(v)
    BY <1>4, <1>5
  <2>2. PICK w \in Contractions : Fits(w) /\ r = p + 1 + Len(w)
    BY <1>4, <1>5
  <2>3. v = w
    BY <1>3, <2>1, <2>2, Heads
  <2> QED
    BY <2>1, <2>2, <2>3
<1> QED
  BY <1>5, <1>6, <1>7

\* The longest match of the last two alternatives.
LEMMA BlankMatches ==
  ASSUME NEW p \in Nat, NEW stop \in Nat, p < stop, text[p] \in Blank
  PROVE  /\ BlankEnd(p, stop) \in p + 1 .. stop
         /\ Spaced(text, p, stop) # {} => Longest(Spaced(text, p, stop)) = BlankEnd(p, stop)
         /\ Spaced(text, p, stop) = {} =>
              /\ Blanks(text, p, stop) # {}
              /\ Longest(Blanks(text, p, stop)) = BlankEnd(p, stop)
<1> DEFINE end == RunEnd("Blank", p, stop)
<1>1. /\ end \in p .. stop
      /\ \A k \in p .. end - 1 : text[k] \in Blank
      /\ end < stop => text[end] \notin Blank
  BY RunEndIs, HoldsIs
<1>2. BlankEnd(p, stop) = IF end < stop /\ end - 1 > p THEN end - 1 ELSE end
  BY DEF BlankEnd
<1>3. Blanks(text, p, stop) = {q \in p + 1 .. stop : \A k \in p .. q - 1 : text[k] \in Blank}
  BY DEF Blanks, All
<1>4. Spaced(text, p, stop) = {q \in Blanks(text, p, stop) : q < stop => text[q] \in Blank}
  BY <1>3 DEF Spaced, All
<1> HIDE DEF end
<1>5. end \in p + 1 .. stop
  BY <1>1
<1>6. ASSUME NEW q \in Blanks(text, p, stop) PROVE q <= end
  <2>1. SUFFICES ASSUME end < q PROVE FALSE
    BY <1>1, <1>3
  <2>2. end \in p .. q - 1 /\ end < stop
    BY <1>3, <1>5, <2>1
  <2> QED
    BY <1>1, <1>3, <2>2
<1>7. end \in Blanks(text, p, stop) /\ Blanks(text, p, stop) \subseteq Nat
  BY <1>1, <1>3, <1>5
<1>8. Longest(Blanks(text, p, stop)) = end
  BY <1>6, <1>7, LongestIs
<1>9. CASE end = stop
  <2>1. end \in Spaced(text, p, stop)
    BY <1>4, <1>7, <1>9
  <2>2. Longest(Spaced(text, p, stop)) = end
    <3>1. Spaced(text, p, stop) \subseteq Nat /\ \A q \in Spaced(text, p, stop) : q <= end
      BY <1>4, <1>6, <1>7
    <3> QED
      BY <2>1, <3>1, LongestIs
  <2> QED
    BY <1>2, <1>5, <1>9, <2>1, <2>2
<1>10. CASE end < stop /\ end - 1 > p
  <2>1. ASSUME NEW q \in Spaced(text, p, stop) PROVE q <= end - 1
    <3>1. q \in Nat /\ q <= end /\ q # end
      BY <1>1, <1>4, <1>6, <1>7, <1>10
    <3> QED
      BY <1>5, <3>1
  <2>2. end - 1 \in Spaced(text, p, stop)
    <3>1. end - 1 \in p + 1 .. stop /\ \A k \in p .. (end - 1) - 1 : k \in p .. end - 1
      BY <1>5, <1>10
    <3>2. end - 1 \in p .. end - 1
      BY <1>5
    <3> QED
      BY <1>1, <1>3, <1>4, <3>1, <3>2
  <2>3. Longest(Spaced(text, p, stop)) = end - 1
    <3>1. Spaced(text, p, stop) \subseteq Nat
      BY <1>4, <1>7
    <3> QED
      BY <2>1, <2>2, <3>1, LongestIs
  <2> QED
    BY <1>2, <1>5, <1>10, <2>2, <2>3
<1>11. CASE end < stop /\ ~ (end - 1 > p)
  <2>1. end = p + 1
    BY <1>5, <1>11
  <2>2. ASSUME NEW q \in Spaced(text, p, stop) PROVE FALSE
    <3>1. q \in p + 1 .. stop /\ q <= end /\ q # end
      BY <1>1, <1>3, <1>4, <1>6, <1>11
    <3> QED
      BY <2>1, <3>1
  <2> QED
    BY <1>2, <1>5, <1>7, <1>8, <1>11, <2>2
<1> QED
  BY <1>5, <1>9, <1>10, <1>11

-----------------------------------------------------------------------------
(* Both scanners go as far as the expression.                              *)

LEMMA FirstOf ==
  ASSUME NEW alts, NEW k \in 1 .. 6, alts[k] # {}, \A j \in 1 .. k - 1 : alts[j] = {}
  PROVE  (CHOOSE i \in 1 .. 6 : alts[i] # {} /\ \A j \in 1 .. i - 1 : alts[j] = {}) = k
<1>1. ASSUME NEW i \in 1 .. 6, alts[i] # {}, \A j \in 1 .. i - 1 : alts[j] = {}
      PROVE  i = k
  <2>1. ~ (i < k)
    <3>1. i < k => i \in 1 .. k - 1
      OBVIOUS
    <3> QED
      BY <1>1, <3>1
  <2>2. ~ (k < i)
    <3>1. k < i => k \in 1 .. i - 1
      OBVIOUS
    <3> QED
      BY <1>1, <3>1
  <2> QED
    BY <2>1, <2>2
<1> QED
  BY <1>1

\* The first alternative that matches is the one that counts.
LEMMA FirstMatches ==
  ASSUME NEW p, NEW stop, stop = SegmentEnd(text, p)
  PROVE  LET C == Contracted(text, p, stop)
             L == Lettered(text, p, stop)
             N == Numbered(text, p, stop)
             P == Punctuated(text, p, stop)
             S == Spaced(text, p, stop)
             B == Blanks(text, p, stop)
         IN  /\ C # {} => WordEnd(text, p) = Longest(C)
             /\ C = {} /\ L # {} => WordEnd(text, p) = Longest(L)
             /\ C = {} /\ L = {} /\ N # {} => WordEnd(text, p) = Longest(N)
             /\ C = {} /\ L = {} /\ N = {} /\ P # {} => WordEnd(text, p) = Longest(P)
             /\ C = {} /\ L = {} /\ N = {} /\ P = {} /\ S # {} => WordEnd(text, p) = Longest(S)
             /\ C = {} /\ L = {} /\ N = {} /\ P = {} /\ S = {} /\ B # {} =>
                  WordEnd(text, p) = Longest(B)
<1> DEFINE C == Contracted(text, p, stop)
           L == Lettered(text, p, stop)
           N == Numbered(text, p, stop)
           P == Punctuated(text, p, stop)
           S == Spaced(text, p, stop)
           B == Blanks(text, p, stop)
           alts == <<C, L, N, P, S, B>>
           first == CHOOSE i \in 1 .. 6 : alts[i] # {} /\ \A j \in 1 .. i - 1 : alts[j] = {}
<1>1. WordEnd(text, p) = Longest(alts[first])
  BY DEF WordEnd
<1> HIDE DEF C, L, N, P, S, B
<1>2. /\ alts[1] = C /\ alts[2] = L /\ alts[3] = N
      /\ alts[4] = P /\ alts[5] = S /\ alts[6] = B
  OBVIOUS
<1> HIDE DEF alts
<1>3. ASSUME NEW k \in 1 .. 6, alts[k] # {}, \A j \in 1 .. k - 1 : alts[j] = {}
      PROVE  WordEnd(text, p) = Longest(alts[k])
  <2>1. first = k
    BY <1>3, FirstOf
  <2> QED
    BY <1>1, <2>1
<1>4. C # {} => WordEnd(text, p) = Longest(C)
  <2>1. 1 .. 1 - 1 = {}
    OBVIOUS
  <2> QED
    BY <1>2, <1>3, <2>1
<1>5. C = {} /\ L # {} => WordEnd(text, p) = Longest(L)
  <2>1. 1 .. 2 - 1 = {1}
    OBVIOUS
  <2> QED
    BY <1>2, <1>3, <2>1
<1>6. C = {} /\ L = {} /\ N # {} => WordEnd(text, p) = Longest(N)
  <2>1. 1 .. 3 - 1 = {1, 2}
    OBVIOUS
  <2> QED
    BY <1>2, <1>3, <2>1
<1>7. C = {} /\ L = {} /\ N = {} /\ P # {} => WordEnd(text, p) = Longest(P)
  <2>1. 1 .. 4 - 1 = {1, 2, 3}
    OBVIOUS
  <2> QED
    BY <1>2, <1>3, <2>1
<1>8. C = {} /\ L = {} /\ N = {} /\ P = {} /\ S # {} => WordEnd(text, p) = Longest(S)
  <2>1. 1 .. 5 - 1 = {1, 2, 3, 4}
    OBVIOUS
  <2> QED
    BY <1>2, <1>3, <2>1
<1>9. C = {} /\ L = {} /\ N = {} /\ P = {} /\ S = {} /\ B # {} => WordEnd(text, p) = Longest(B)
  <2>1. 1 .. 6 - 1 = {1, 2, 3, 4, 5}
    OBVIOUS
  <2> QED
    BY <1>2, <1>3, <2>1
<1> QED
  BY <1>4, <1>5, <1>6, <1>7, <1>8, <1>9 DEF C, L, N, P, S, B

\* Where nothing but blanks matches there is a blank.
LEMMA NoBody ==
  ASSUME NEW p \in Nat, NEW stop \in Nat, p < stop, BodyEnds(p, stop) = {}
  PROVE  /\ \A class \in {"Letter", "Number", "Other"} : ClassEnds(class, p, stop) = {}
         /\ text[p] \in Blank
<1>1. ASSUME NEW class \in {"Letter", "Number", "Other"}
      PROVE  RunEnd(class, AfterSpace(p), stop) = AfterSpace(p)
  BY DEF BodyEnds
<1>2. \A class \in {"Letter", "Number", "Other"} : ClassEnds(class, p, stop) = {}
  BY <1>1, ClassEndIs
<1>3. text[p] \in Blank
  <2>1. SUFFICES ASSUME text[p] \notin Blank PROVE FALSE
    OBVIOUS
  <2>2. AfterSpace(p) = p
    BY <2>1, AfterSpaceIs, Classes
  <2>3. ASSUME NEW class \in {"Letter", "Number", "Other"}
        PROVE  ~ Holds(class, text[p])
    BY <1>1, <2>2, RunEndIs
  <2> QED
    BY <2>1, <2>3, HoldsIs
<1> QED
  BY <1>2, <1>3

\* A word of the expression ends where the scanners' first match ends.
LEMMA WordEndIs ==
  ASSUME IsText, NEW p \in 1 .. Len(text), NEW stop, stop = SegmentEnd(text, p)
  PROVE  /\ WordEnd(text, p) \in p + 1 .. stop
         /\ ContractionEnds(p, stop) # {} => ContractionEnds(p, stop) = {WordEnd(text, p)}
         /\ ContractionEnds(p, stop) = {} /\ BodyEnds(p, stop) # {} =>
              BodyEnds(p, stop) = {WordEnd(text, p)}
         /\ ContractionEnds(p, stop) = {} /\ BodyEnds(p, stop) = {} =>
              WordEnd(text, p) = BlankEnd(p, stop) /\ text[p] \in Blank
<1> DEFINE C == ContractionEnds(p, stop)
           B == BodyEnds(p, stop)
           end == WordEnd(text, p)
<1>0. Len(text) \in Nat /\ p \in Nat /\ stop \in Nat /\ stop \in p + 1 .. Len(text) + 1 /\ p < stop
  BY TextHas, SegmentEndIs
<1>1. /\ C = Contracted(text, p, stop) /\ C \subseteq p + 1 .. stop
      /\ \A q, r \in C : q = r
  BY <1>0, ContractionsSame
<1>2. CASE C # {}
  <2>1. PICK q \in C : TRUE
    BY <1>2
  <2>2. q \in p + 1 .. stop /\ C = {q} /\ C \subseteq Nat /\ \A r \in C : r <= q
    BY <1>0, <1>1, <2>1
  <2>3. Longest(C) = q
    BY <2>2, LongestIs
  <2>4. end = q
    BY <1>1, <1>2, <2>3, FirstMatches
  <2> QED
    BY <1>2, <2>2, <2>4
<1>3. CASE C = {} /\ B # {}
  <2>1. PICK class \in {"Letter", "Number", "Other"} :
           RunEnd(class, AfterSpace(p), stop) # AfterSpace(p)
    BY <1>3 DEF BodyEnds
  <2> DEFINE q == RunEnd(class, AfterSpace(p), stop)
  <2>2. /\ B = {q}
        /\ \A other \in {"Letter", "Number", "Other"} \ {class} : ClassEnds(other, p, stop) = {}
    BY <1>0, <2>1, OneBody
  <2>3. /\ ClassEnds(class, p, stop) # {}
        /\ Longest(ClassEnds(class, p, stop)) = q
        /\ q \in p + 1 .. stop
    BY <1>0, <2>1, ClassEndIs
  <2>4. /\ Lettered(text, p, stop) = ClassEnds("Letter", p, stop)
        /\ Numbered(text, p, stop) = ClassEnds("Number", p, stop)
        /\ Punctuated(text, p, stop) = ClassEnds("Other", p, stop)
    BY <1>0, ClassMatches
  <2> HIDE DEF q
  <2>5. end = q
    <3>1. CASE class = "Letter"
      BY <1>1, <1>3, <2>3, <2>4, <3>1, FirstMatches
    <3>2. CASE class = "Number"
      <4>1. ClassEnds("Letter", p, stop) = {}
        BY <2>2, <3>2
      <4> QED
        BY <1>1, <1>3, <2>3, <2>4, <3>2, <4>1, FirstMatches
    <3>3. CASE class = "Other"
      <4>1. ClassEnds("Letter", p, stop) = {} /\ ClassEnds("Number", p, stop) = {}
        BY <2>2, <3>3
      <4> QED
        BY <1>1, <1>3, <2>3, <2>4, <3>3, <4>1, FirstMatches
    <3> QED
      BY <3>1, <3>2, <3>3
  <2> QED
    BY <1>3, <2>2, <2>3, <2>5
<1>4. CASE C = {} /\ B = {}
  <2>1. /\ Lettered(text, p, stop) = {} /\ Numbered(text, p, stop) = {}
        /\ Punctuated(text, p, stop) = {} /\ text[p] \in Blank
    BY <1>0, <1>4, NoBody, ClassMatches
  <2>2. /\ BlankEnd(p, stop) \in p + 1 .. stop
        /\ Spaced(text, p, stop) # {} => Longest(Spaced(text, p, stop)) = BlankEnd(p, stop)
        /\ Spaced(text, p, stop) = {} =>
             /\ Blanks(text, p, stop) # {}
             /\ Longest(Blanks(text, p, stop)) = BlankEnd(p, stop)
    BY <1>0, <2>1, BlankMatches
  <2>3. end = BlankEnd(p, stop)
    <3>1. CASE Spaced(text, p, stop) # {}
      BY <1>1, <1>4, <2>1, <2>2, <3>1, FirstMatches
    <3>2. CASE Spaced(text, p, stop) = {}
      BY <1>1, <1>4, <2>1, <2>2, <3>2, FirstMatches
    <3> QED
      BY <3>1, <3>2
  <2> QED
    BY <1>4, <2>1, <2>2, <2>3
<1> QED
  BY <1>2, <1>3, <1>4

LEMMA MatchIs ==
  ASSUME IsText, NEW p \in 1 .. Len(text), NEW stop, stop = SegmentEnd(text, p)
  PROVE  MatchOne(p, stop) = WordEnd(text, p)
BY WordEndIs DEF MatchOne

\* verify3 goes on, and not beyond the text.
LEMMA SpanIs ==
  ASSUME IsText, NEW p \in 1 .. Len(text), NEW stop, stop = Len(text) + 1
  PROVE  Span(p, stop) \in p + 1 .. stop
<1> DEFINE C == ContractionEnds(p, stop)
           B == BodyEnds(p, stop)
           blank_end == RunEnd("Blank", AfterSpace(p), stop)
           step == IF blank_end = p THEN p + 1 ELSE blank_end
<1>0. Len(text) \in Nat /\ p \in Nat /\ stop \in Nat /\ stop \in p + 1 .. Len(text) + 1 /\ p < stop
  BY TextHas
<1>1. C \subseteq p + 1 .. stop
  BY <1>0, ContractionsSame
<1>2. B \subseteq p + 1 .. stop
  <2>1. ASSUME NEW q \in B PROVE q \in p + 1 .. stop
    <3>1. PICK class \in {"Letter", "Number", "Other"} :
             q = RunEnd(class, AfterSpace(p), stop) /\ q # AfterSpace(p)
      BY DEF BodyEnds
    <3> QED
      BY <1>0, <3>1, ClassEndIs
  <2> QED
    BY <2>1
<1>3. step \in p + 1 .. stop
  <2>1. AfterSpace(p) \in Nat /\ p <= AfterSpace(p) /\ AfterSpace(p) <= stop
    <3>1. AfterSpace(p) \in Nat /\ p <= AfterSpace(p) /\ AfterSpace(p) <= p + 1
      BY <1>0, AfterSpaceIs
    <3> QED
      BY <1>0, <3>1
  <2>2. blank_end \in AfterSpace(p) .. stop
    BY <1>0, <2>1, RunEndIs
  <2> HIDE DEF blank_end
  <2> QED
    BY <1>0, <2>1, <2>2
<1>4. Span(p, stop) = CHOOSE q \in (IF C # {} THEN C ELSE IF B # {} THEN B ELSE {step}) : TRUE
  BY DEF Span
<1> HIDE DEF C, B, step
<1> QED
  BY <1>1, <1>2, <1>3, <1>4

-----------------------------------------------------------------------------
(* The recursive definitions, a step at a time.                            *)

Pieces == Seq(Seq(Chars))

LEMMA WordsFromIs ==
  ASSUME IsText
  PROVE  /\ WordsFrom(text) \in [1 .. Len(text) + 1 -> Pieces]
         /\ WordsFrom(text)[Len(text) + 1] = << >>
         /\ \A p \in 1 .. Len(text) :
              WordsFrom(text)[p] =
                <<SubSeq(text, p, WordEnd(text, p) - 1)>> \o WordsFrom(text)[WordEnd(text, p)]
<1> DEFINE n == Len(text)
           T == Pieces
           jump == [p \in 1 .. n |-> WordEnd(text, p)]
           Word(p) == SubSeq(text, p, WordEnd(text, p) - 1)
           step == [x \in (1 .. n) \X T |-> <<Word(x[1])>> \o x[2]]
           Body(f, p) == IF p > n THEN << >> ELSE <<Word(p)>> \o f[WordEnd(text, p)]
           Solves(f) == f = [p \in 1 .. n + 1 |-> Body(f, p)]
<1>0. n \in Nat /\ << >> \in T
  BY TextHas DEF Pieces
<1>1. \A p \in 1 .. n : WordEnd(text, p) \in p + 1 .. n + 1
  <2> SUFFICES ASSUME NEW p \in 1 .. n PROVE WordEnd(text, p) \in p + 1 .. n + 1
    OBVIOUS
  <2>1. WordEnd(text, p) \in p + 1 .. SegmentEnd(text, p) /\ SegmentEnd(text, p) \in p + 1 .. n + 1
    BY WordEndIs, SegmentEndIs
  <2> HIDE DEF n
  <2> QED
    BY <1>0, <2>1
<1>2. \A p \in 1 .. n : Word(p) \in Seq(Chars)
  <2> SUFFICES ASSUME NEW p \in 1 .. n PROVE Word(p) \in Seq(Chars)
    OBVIOUS
  <2>1. WordEnd(text, p) \in p + 1 .. n + 1
    BY <1>1
  <2>2. \A j \in p .. WordEnd(text, p) - 1 : text[j] \in Chars
    BY <1>0, <2>1, TextHas
  <2> QED
    BY <1>0, <2>1, <2>2, SubSeqProperties
<1> HIDE DEF n, Word
<1>3. \A p \in 1 .. n : \A r \in T : <<Word(p)>> \o r \in T
  <2> SUFFICES ASSUME NEW p \in 1 .. n, NEW r \in T PROVE <<Word(p)>> \o r \in T
    OBVIOUS
  <2>1. <<Word(p)>> \in T
    BY <1>2 DEF Pieces
  <2> QED
    BY <2>1, ConcatProperties DEF Pieces
<1> HIDE DEF T
<1>4. step \in StepTable(n, T)
  BY <1>3 DEF StepTable
<1>5. \A p \in 1 .. n : jump[p] = WordEnd(text, p)
  OBVIOUS
<1>6. PICK g : Jumps(g, n, T, << >>, jump, step)
  <2> HIDE DEF step, jump
  <2> QED
    BY <1>0, <1>1, <1>4, <1>5, JumpExists
<1>7. ASSUME NEW p \in 1 .. n
      PROVE  step[<<p, g[WordEnd(text, p)]>>] = <<Word(p)>> \o g[WordEnd(text, p)]
  <2>1. g[WordEnd(text, p)] \in T
    <3>1. WordEnd(text, p) \in 1 .. n + 1
      BY <1>0, <1>1
    <3> QED
      BY <1>6, <3>1 DEF Jumps
  <2>2. <<p, g[WordEnd(text, p)]>> \in (1 .. n) \X T
    BY <2>1
  <2> QED
    BY <2>2
<1>8. Solves(g)
  <2>1. g = [p \in 1 .. n + 1 |-> g[p]] /\ g[n + 1] = << >>
    BY <1>6 DEF Jumps
  <2>2. \A p \in 1 .. n : g[p] = <<Word(p)>> \o g[WordEnd(text, p)]
    <3> HIDE DEF step, jump
    <3> QED
      BY <1>5, <1>6, <1>7 DEF Jumps
  <2>3. \A p \in 1 .. n + 1 : g[p] = Body(g, p)
    <3>1. \A p \in 1 .. n + 1 : IF p > n THEN p = n + 1 ELSE p \in 1 .. n
      BY <1>0
    <3> QED
      BY <2>1, <2>2, <3>1
  <2> HIDE DEF Body
  <2> QED
    BY <2>1, <2>3
<1>9. WordsFrom(text) = CHOOSE f : Solves(f)
  BY DEF WordsFrom, n, Word
<1> DEFINE h == WordsFrom(text)
<1>10. Solves(h)
  <2> HIDE DEF Solves
  <2> QED
    BY <1>8, <1>9
<1> HIDE DEF h
<1>11. h[n + 1] = << >> /\ \A p \in 1 .. n : h[p] = <<Word(p)>> \o h[WordEnd(text, p)]
  <2>1. \A p \in 1 .. n + 1 : h[p] = Body(h, p)
    <3> HIDE DEF Body
    <3> QED
      BY <1>10
  <2>2. n + 1 \in 1 .. n + 1 /\ n + 1 > n
    BY <1>0
  <2>3. h[n + 1] = << >>
    BY <2>1, <2>2
  <2>4. \A p \in 1 .. n : p \in 1 .. n + 1 /\ ~ (p > n)
    BY <1>0
  <2> QED
    BY <2>1, <2>3, <2>4
<1>12. \A p \in 1 .. n + 1 : h[p] \in T
  <2> DEFINE Typed == {m \in 0 .. n : \A p \in n + 1 - m .. n + 1 : h[p] \in T}
  <2>1. 0 \in Typed
    <3>1. \A p \in n + 1 - 0 .. n + 1 : p = n + 1
      BY <1>0
    <3> QED
      BY <1>0, <1>11, <3>1
  <2>2. ASSUME NEW m \in 0 .. n - 1, m \in Typed PROVE m + 1 \in Typed
    <3>1. n - m \in 1 .. n /\ m + 1 \in 0 .. n
      BY <1>0
    <3>2. WordEnd(text, n - m) \in n + 1 - m .. n + 1
      <4>1. WordEnd(text, n - m) \in (n - m) + 1 .. n + 1
        BY <1>1, <3>1
      <4>2. (n - m) + 1 = n + 1 - m
        BY <1>0
      <4> QED
        BY <4>1, <4>2
    <3>3. h[WordEnd(text, n - m)] \in T
      BY <2>2, <3>2
    <3>4. h[n - m] \in T
      BY <1>3, <1>11, <3>1, <3>3
    <3>5. \A p \in n + 1 - (m + 1) .. n + 1 : p = n - m \/ p \in n + 1 - m .. n + 1
      BY <1>0
    <3> QED
      BY <2>2, <3>1, <3>4, <3>5
  <2>3. n \in Typed
    <3> HIDE DEF Typed
    <3>1. 0 .. n \subseteq Typed
      BY <1>0, <2>1, <2>2, UpTo
    <3> QED
      BY <1>0, <3>1
  <2>4. n + 1 - n = 1
    BY <1>0
  <2> QED
    BY <2>3, <2>4
<1>13. h \in [1 .. n + 1 -> T]
  <2>1. h = [p \in 1 .. n + 1 |-> h[p]]
    BY <1>10
  <2> QED
    BY <1>12, <2>1
<1> QED
  BY <1>11, <1>13 DEF h, n, T, Word

LEMMA FlattenedIs ==
  ASSUME NEW S, NEW parts \in Seq(Seq(S))
  PROVE  \E g \in [0 .. Len(parts) -> Seq(S)] :
           /\ Flattened(parts) = g[Len(parts)]
           /\ g[0] = << >>
           /\ \A j \in 1 .. Len(parts) : g[j] = g[j - 1] \o parts[j]
<1> DEFINE n == Len(parts)
           T == Seq(S)
           step == [x \in (1 .. n) \X T |-> x[2] \o parts[x[1]]]
           Solves(f) == f = [j \in 0 .. n |-> IF j = 0 THEN << >> ELSE f[j - 1] \o parts[j]]
<1>1. n \in Nat /\ << >> \in T
  OBVIOUS
<1>2. ASSUME NEW j \in 1 .. n, NEW r \in T PROVE r \o parts[j] \in T
  <2>1. parts[j] \in T
    BY ElementOfSeq
  <2> QED
    BY <2>1, ConcatProperties
<1> HIDE DEF n, T
<1>3. step \in StepTable(n, T)
  BY <1>2 DEF StepTable
<1>4. PICK g : Follows(g, n, T, << >>, step)
  <2> HIDE DEF step
  <2> QED
    BY <1>1, <1>3, RecursionExists
<1>5. \A j \in 1 .. n : step[<<j, g[j - 1]>>] = g[j - 1] \o parts[j]
  <2> SUFFICES ASSUME NEW j \in 1 .. n PROVE step[<<j, g[j - 1]>>] = g[j - 1] \o parts[j]
    OBVIOUS
  <2>1. g[j - 1] \in T
    BY <1>1, <1>4 DEF Follows
  <2>2. <<j, g[j - 1]>> \in (1 .. n) \X T
    BY <2>1
  <2> QED
    BY <2>2
<1>6. Solves(g)
  <2>1. g = [j \in 0 .. n |-> g[j]]
    BY <1>4 DEF Follows
  <2>2. g[0] = << >> /\ \A j \in 1 .. n : g[j] = g[j - 1] \o parts[j]
    <3> HIDE DEF step
    <3> QED
      BY <1>4, <1>5 DEF Follows
  <2>3. \A j \in 0 .. n : j = 0 \/ (j # 0 /\ j \in 1 .. n)
    BY <1>1
  <2>4. \A j \in 0 .. n : g[j] = IF j = 0 THEN << >> ELSE g[j - 1] \o parts[j]
    BY <2>2, <2>3
  <2> QED
    BY <2>1, <2>4
<1>7. Flattened(parts) = (CHOOSE f : Solves(f))[n]
  BY DEF Flattened, n
<1> DEFINE h == CHOOSE f : Solves(f)
<1>8. Solves(h)
  <2> HIDE DEF Solves
  <2> QED
    BY <1>6
<1> HIDE DEF h
<1>9. h[0] = << >> /\ \A j \in 1 .. n : h[j] = h[j - 1] \o parts[j]
  <2>1. \A j \in 0 .. n : h[j] = IF j = 0 THEN << >> ELSE h[j - 1] \o parts[j]
    BY <1>8
  <2>2. 0 \in 0 .. n /\ \A j \in 1 .. n : j \in 0 .. n /\ j # 0
    BY <1>1
  <2>3. h[0] = << >>
    BY <2>1, <2>2
  <2>4. ASSUME NEW j \in 1 .. n PROVE h[j] = h[j - 1] \o parts[j]
    BY <2>1, <2>2
  <2> QED
    BY <2>3, <2>4
<1>10. \A j \in 0 .. n : h[j] \in T
  <2> DEFINE Typed == {j \in 0 .. n : h[j] \in T}
  <2>1. 0 \in Typed
    BY <1>1, <1>9
  <2>2. ASSUME NEW j \in 0 .. n - 1, j \in Typed PROVE j + 1 \in Typed
    <3>1. j + 1 \in 1 .. n /\ (j + 1) - 1 = j /\ j + 1 \in 0 .. n
      BY <1>1
    <3>2. h[j + 1] = h[j] \o parts[j + 1]
      BY <1>9, <3>1
    <3>3. h[j] \in T
      BY <2>2
    <3> QED
      BY <1>2, <3>1, <3>2, <3>3
  <2> HIDE DEF Typed
  <2>3. 0 .. n \subseteq Typed
    BY <1>1, <2>1, <2>2, UpTo
  <2> QED
    BY <2>3 DEF Typed
<1>11. h \in [0 .. n -> T]
  <2>1. h = [j \in 0 .. n |-> h[j]]
    BY <1>8
  <2> QED
    BY <1>10, <2>1
<1> QED
  <2>1. Flattened(parts) = h[n]
    BY <1>7 DEF h
  <2> QED
    BY <1>9, <1>11, <2>1 DEF n, T

\* One more word is put at the end.
LEMMA FlattenedAppend ==
  ASSUME NEW S, NEW parts \in Seq(Seq(S)), NEW w \in Seq(S)
  PROVE  Flattened(Append(parts, w)) = Flattened(parts) \o w
<1> DEFINE n == Len(parts)
           more == Append(parts, w)
<1>1. /\ more \in Seq(Seq(S)) /\ Len(more) = n + 1 /\ n \in Nat
      /\ more[n + 1] = w /\ \A j \in 1 .. n : more[j] = parts[j]
  BY AppendProperties, LenProperties
<1>2. PICK g \in [0 .. n -> Seq(S)] :
        /\ Flattened(parts) = g[n]
        /\ g[0] = << >>
        /\ \A j \in 1 .. n : g[j] = g[j - 1] \o parts[j]
  BY FlattenedIs
<1> HIDE DEF n, more
<1>3. PICK h \in [0 .. n + 1 -> Seq(S)] :
        /\ Flattened(more) = h[n + 1]
        /\ h[0] = << >>
        /\ \A j \in 1 .. n + 1 : h[j] = h[j - 1] \o more[j]
  <2>1. PICK h \in [0 .. Len(more) -> Seq(S)] :
          /\ Flattened(more) = h[Len(more)]
          /\ h[0] = << >>
          /\ \A j \in 1 .. Len(more) : h[j] = h[j - 1] \o more[j]
    BY <1>1, FlattenedIs
  <2> QED
    BY <1>1, <2>1
<1> DEFINE Same == {j \in 0 .. n : g[j] = h[j]}
<1>4. 0 \in Same
  BY <1>1, <1>2, <1>3
<1>5. ASSUME NEW j \in 0 .. n - 1, j \in Same PROVE j + 1 \in Same
  <2>1. j + 1 \in 1 .. n /\ j + 1 \in 1 .. n + 1 /\ (j + 1) - 1 = j
    BY <1>1
  <2>2. g[j + 1] = g[j] \o parts[j + 1] /\ h[j + 1] = h[j] \o more[j + 1]
    BY <1>2, <1>3, <2>1
  <2>3. g[j] = h[j] /\ more[j + 1] = parts[j + 1] /\ j + 1 \in 0 .. n
    BY <1>1, <1>5, <2>1
  <2> QED
    BY <2>2, <2>3
<1>6. 0 .. n \subseteq Same
  <2> HIDE DEF Same
  <2> QED
    BY <1>1, <1>4, <1>5, UpTo
<1>7. g[n] = h[n]
  BY <1>1, <1>6
<1>8. n + 1 \in 1 .. n + 1 /\ (n + 1) - 1 = n
  <2>1. n \in Nat
    BY <1>1
  <2> QED
    BY <2>1
<1>9. h[n + 1] = h[n] \o w
  BY <1>1, <1>3, <1>8
<1> QED
  BY <1>2, <1>3, <1>7, <1>9 DEF more

-----------------------------------------------------------------------------
(* Segments.                                                               *)

Segment == [from : Nat, to : Nat]

\* A segment goes as far as the expression may look from anywhere in it.
SegmentOk(input, x) ==
  /\ x.from \in 1 .. Len(input) /\ x.to \in x.from + 1 .. Len(input) + 1
  /\ \A p \in x.from .. x.to - 1 : SegmentEnd(input, p) = x.to

\* Segments that cover the input from a to b.
Chain(input, s, a, b) ==
  /\ s \in Seq(Segment)
  /\ \A j \in 1 .. Len(s) : SegmentOk(input, s[j])
  /\ \A j \in 1 .. Len(s) - 1 : s[j].to = s[j + 1].from
  /\ s = << >> => a = b
  /\ s # << >> => s[1].from = a /\ s[Len(s)].to = b

LEMMA ChainEmpty ==
  ASSUME NEW a
  PROVE  Chain(text, << >>, a, a)
<1>1. << >> \in Seq(Segment) /\ Len(<< >>) = 0
  OBVIOUS
<1>2. 1 .. 0 = {} /\ 1 .. 0 - 1 = {}
  OBVIOUS
<1> QED
  BY <1>1, <1>2 DEF Chain

LEMMA ChainAppend ==
  ASSUME NEW s, NEW a, NEW b, Chain(text, s, a, b), NEW x \in Segment, SegmentOk(text, x), x.from = b
  PROVE  Chain(text, s \o <<x>>, a, x.to)
<1> DEFINE n == Len(s)
           t == Append(s, x)
<1>1. s \in Seq(Segment) /\ n \in Nat /\ (s = << >> <=> n = 0)
  BY EmptySeq, LenProperties DEF Chain
<1>2. /\ t \in Seq(Segment) /\ Len(t) = n + 1 /\ t # << >>
      /\ t[n + 1] = x /\ \A j \in 1 .. n : t[j] = s[j]
  BY <1>1, AppendProperties
<1>3. s \o <<x>> = t
  BY <1>1, AppendIsConcat
<1> HIDE DEF n, t
<1>4. ASSUME NEW j \in 1 .. n + 1 PROVE SegmentOk(text, t[j])
  <2>1. CASE j = n + 1
    BY <1>2, <2>1
  <2>2. CASE j # n + 1
    <3>1. j \in 1 .. n
      BY <1>1, <2>2
    <3> QED
      BY <1>2, <3>1 DEF Chain, n
  <2> QED
    BY <2>1, <2>2
<1>5. ASSUME NEW j \in 1 .. (n + 1) - 1 PROVE t[j].to = t[j + 1].from
  <2>1. j \in 1 .. n /\ n # 0 /\ s # << >>
    BY <1>1
  <2>2. CASE j = n
    <3>1. s[n].to = b
      BY <2>1 DEF Chain, n
    <3> QED
      BY <1>2, <2>1, <2>2, <3>1
  <2>3. CASE j # n
    <3>1. j \in 1 .. n - 1 /\ j + 1 \in 1 .. n
      BY <1>1, <2>1, <2>3
    <3>2. s[j].to = s[j + 1].from
      BY <3>1 DEF Chain, n
    <3> QED
      BY <1>2, <2>1, <3>1, <3>2
  <2> QED
    BY <2>2, <2>3
<1>6. t[1].from = a
  <2>1. CASE n = 0
    BY <1>1, <1>2, <2>1 DEF Chain
  <2>2. CASE n # 0
    <3>1. 1 \in 1 .. n /\ s # << >>
      BY <1>1, <2>2
    <3> QED
      BY <1>2, <3>1 DEF Chain
  <2> QED
    BY <2>1, <2>2
<1>7. Chain(text, t, a, x.to)
  BY <1>2, <1>4, <1>5, <1>6 DEF Chain
<1> QED
  BY <1>3, <1>7

LEMMA ChainTail ==
  ASSUME NEW s, NEW a, NEW b, Chain(text, s, a, b), s # << >>
  PROVE  Chain(text, Tail(s), s[1].to, b)
<1> DEFINE n == Len(s)
           t == Tail(s)
<1>1. s \in Seq(Segment) /\ n \in Nat /\ n # 0
  BY EmptySeq, LenProperties DEF Chain
<1>2. /\ t \in Seq(Segment) /\ Len(t) = n - 1
      /\ \A j \in 1 .. n - 1 : t[j] = s[j + 1]
  <2>1. s # << >>
    OBVIOUS
  <2> QED
    BY <1>1, <2>1, HeadTailProperties
<1>3. t = << >> <=> n = 1
  <2> HIDE DEF t, n
  <2>1. t = << >> <=> Len(t) = 0
    BY <1>2, EmptySeq
  <2> QED
    BY <1>1, <1>2, <2>1
<1> HIDE DEF n, t
<1>4. ASSUME NEW j \in 1 .. n - 1 PROVE SegmentOk(text, t[j])
  <2>1. j + 1 \in 1 .. n
    BY <1>1
  <2> QED
    BY <1>2, <2>1 DEF Chain, n
<1>5. ASSUME NEW j \in 1 .. (n - 1) - 1 PROVE t[j].to = t[j + 1].from
  <2>1. j + 1 \in 1 .. n - 1 /\ j \in 1 .. n - 1
    BY <1>1
  <2>2. s[j + 1].to = s[(j + 1) + 1].from
    BY <2>1 DEF Chain, n
  <2> QED
    BY <1>2, <2>1, <2>2
<1>6. s[n].to = b /\ s # << >>
  BY DEF Chain, n
<1>7. CASE n = 1
  BY <1>2, <1>3, <1>4, <1>5, <1>6, <1>7 DEF Chain
<1>8. CASE n # 1
  <2>1. 1 \in 1 .. n - 1 /\ n - 1 \in 1 .. n - 1 /\ (n - 1) + 1 = n /\ 1 + 1 = 2
    BY <1>1, <1>8
  <2>2. s[1].to = s[2].from
    BY <2>1 DEF Chain, n
  <2>3. t[1].from = s[1].to /\ t[n - 1].to = b
    BY <1>2, <1>6, <2>1, <2>2
  <2>4. t # << >> /\ t \in Seq(Segment) /\ Len(t) = n - 1
    BY <1>2, <1>3, <1>8
  <2>5. Chain(text, t, s[1].to, b)
    BY <1>4, <1>5, <2>3, <2>4 DEF Chain
  <2> QED
    BY <2>5 DEF t
<1> QED
  BY <1>7, <1>8

\* Where a segment ends is determined.
LEMMA SegmentEndAt ==
  ASSUME IsText, NEW p \in 1 .. Len(text), NEW q \in p + 1 .. Len(text) + 1,
         \A k \in p .. q - 1 : text[k] \notin Number,
         q <= Len(text) => text[q] \in Number
  PROVE  SegmentEnd(text, p) = q
<1> DEFINE e == SegmentEnd(text, p)
<1>0. Len(text) \in Nat /\ p \in 1 .. Len(text)
  BY TextHas
<1>1. text[p] \notin Number
  BY <1>0
<1>2. /\ e \in p + 1 .. Len(text) + 1
      /\ \A k \in p .. e - 1 : text[k] \notin Number
      /\ e <= Len(text) => text[e] \in Number
  BY <1>1, SegmentEndIs
<1> HIDE DEF e
<1>3. ~ (e < q)
  <2>1. SUFFICES ASSUME e < q PROVE FALSE
    OBVIOUS
  <2>2. e \in p .. q - 1 /\ e <= Len(text)
    BY <1>0, <1>2, <2>1
  <2> QED
    BY <1>2, <2>2
<1>4. ~ (q < e)
  <2>1. SUFFICES ASSUME q < e PROVE FALSE
    OBVIOUS
  <2>2. q \in p .. e - 1 /\ q <= Len(text)
    BY <1>0, <1>2, <2>1
  <2> QED
    BY <1>2, <2>2
<1>5. e = q
  BY <1>0, <1>2, <1>3, <1>4
<1> QED
  BY <1>5 DEF e

\* What split_digits puts between two places.
Piece(from, to) == IF from < to THEN <<[from |-> from, to |-> to]>> ELSE << >>

LEMMA PieceIs ==
  ASSUME IsText, NEW s, NEW a \in 1 .. Len(text) + 1, NEW b \in a .. Len(text) + 1,
         Chain(text, s, 1, a), \A p \in a .. b - 1 : SegmentEnd(text, p) = b
  PROVE  Chain(text, s \o Piece(a, b), 1, b)
<1>0. Len(text) \in Nat /\ a \in Nat /\ b \in Nat /\ a <= b
  BY TextHas
<1>1. CASE a < b
  <2> DEFINE x == [from |-> a, to |-> b]
  <2>1. x \in Segment /\ x.from = a /\ x.to = b
    BY <1>0 DEF Segment
  <2>2. a \in 1 .. Len(text) /\ b \in a + 1 .. Len(text) + 1
    BY <1>0, <1>1
  <2>3. Piece(a, b) = <<x>>
    BY <1>1 DEF Piece
  <2> HIDE DEF x
  <2>4. SegmentOk(text, x)
    BY <2>1, <2>2 DEF SegmentOk
  <2> QED
    BY <2>1, <2>3, <2>4, ChainAppend
<1>2. CASE ~ (a < b)
  <2>1. a = b /\ Piece(a, b) = << >>
    BY <1>0, <1>2 DEF Piece
  <2>2. s \in Seq(Segment)
    BY DEF Chain
  <2>3. s \o << >> = s
    BY <2>2, ConcatEmptySeq
  <2> QED
    BY <2>1, <2>3
<1> QED
  BY <1>1, <1>2

\* The segments of split_digits cover the text.
LEMMA SplitIs ==
  ASSUME IsText
  PROVE  Chain(text, Split, 1, Len(text) + 1)
<1> DEFINE n == Len(text)
           T == [out : Seq(Segment), run_start : Nat]
           base == [out |-> << >>, run_start |-> 1]
           Then(i, r) == IF text[i] \in Number
                           THEN [out |-> r.out \o Piece(r.run_start, i) \o Piece(i, i + 1),
                                 run_start |-> i + 1]
                         ELSE r
           step == [x \in (1 .. n) \X T |-> Then(x[1], x[2])]
           Solves(f) == f = [i \in 0 .. n |-> IF i = 0 THEN base ELSE Then(i, f[i - 1])]
<1>1. n \in Nat /\ base \in T
  BY TextHas
<1>2. ASSUME NEW i \in 1 .. n, NEW r \in T PROVE Then(i, r) \in T
  <2>1. r.out \in Seq(Segment) /\ r.run_start \in Nat /\ i \in Nat
    BY <1>1
  <2>2. ASSUME NEW a \in Nat, NEW b \in Nat PROVE Piece(a, b) \in Seq(Segment)
    <3>1. [from |-> a, to |-> b] \in Segment
      BY DEF Segment
    <3>2. <<[from |-> a, to |-> b]>> \in Seq(Segment) /\ << >> \in Seq(Segment)
      BY <3>1
    <3> QED
      BY <3>2 DEF Piece
  <2>3. Piece(r.run_start, i) \in Seq(Segment) /\ Piece(i, i + 1) \in Seq(Segment)
    <3>1. i + 1 \in Nat
      BY <2>1
    <3> QED
      BY <2>1, <2>2, <3>1
  <2>4. r.out \o Piece(r.run_start, i) \in Seq(Segment)
    BY <2>1, <2>3, ConcatProperties
  <2>5. r.out \o Piece(r.run_start, i) \o Piece(i, i + 1) \in Seq(Segment)
    BY <2>3, <2>4, ConcatProperties
  <2> QED
    BY <2>1, <2>5
<1> HIDE DEF T, n, base, Then
<1>3. step \in StepTable(n, T)
  BY <1>2 DEF StepTable
<1>4. PICK g : Follows(g, n, T, base, step)
  <2> HIDE DEF step
  <2> QED
    BY <1>1, <1>3, RecursionExists
<1>5. \A j \in 1 .. n : step[<<j, g[j - 1]>>] = Then(j, g[j - 1])
  <2> SUFFICES ASSUME NEW j \in 1 .. n PROVE step[<<j, g[j - 1]>>] = Then(j, g[j - 1])
    OBVIOUS
  <2>1. g[j - 1] \in T
    BY <1>1, <1>4 DEF Follows
  <2>2. <<j, g[j - 1]>> \in (1 .. n) \X T
    BY <2>1
  <2> QED
    BY <2>2
<1>6. Solves(g)
  <2>1. g = [j \in 0 .. n |-> g[j]]
    BY <1>4 DEF Follows
  <2>2. g[0] = base /\ \A j \in 1 .. n : g[j] = Then(j, g[j - 1])
    <3> HIDE DEF step
    <3> QED
      BY <1>4, <1>5 DEF Follows
  <2>3. \A j \in 0 .. n : j = 0 \/ (j # 0 /\ j \in 1 .. n)
    BY <1>1
  <2>4. \A j \in 0 .. n : g[j] = IF j = 0 THEN base ELSE Then(j, g[j - 1])
    BY <2>2, <2>3
  <2> QED
    BY <2>1, <2>4
<1> DEFINE h == CHOOSE f : Solves(f)
<1>7. Split = h[n].out \o Piece(h[n].run_start, n + 1)
  BY DEF Split, Piece, n, base, Then
<1>8. Solves(h)
  <2> HIDE DEF Solves
  <2> QED
    BY <1>6
<1> HIDE DEF h
<1>9. h[0] = base /\ \A j \in 1 .. n : h[j] = Then(j, h[j - 1])
  <2>1. \A j \in 0 .. n : h[j] = IF j = 0 THEN base ELSE Then(j, h[j - 1])
    BY <1>8
  <2>2. 0 \in 0 .. n /\ \A j \in 1 .. n : j \in 0 .. n /\ j # 0
    BY <1>1
  <2>3. h[0] = base
    BY <2>1, <2>2
  <2>4. ASSUME NEW j \in 1 .. n PROVE h[j] = Then(j, h[j - 1])
    BY <2>1, <2>2
  <2> QED
    BY <2>3, <2>4
<1> DEFINE Good == {j \in 0 .. n :
                      /\ Chain(text, h[j].out, 1, h[j].run_start)
                      /\ h[j].run_start \in 1 .. j + 1
                      /\ \A k \in h[j].run_start .. j : text[k] \notin Number}
<1>10. 0 \in Good
  <2>1. h[0].out = << >> /\ h[0].run_start = 1
    BY <1>9 DEF base
  <2>2. Chain(text, << >>, 1, 1)
    BY ChainEmpty
  <2> QED
    BY <1>1, <2>1, <2>2
<1>11. ASSUME NEW j \in 0 .. n - 1, j \in Good PROVE j + 1 \in Good
  <2> DEFINE i == j + 1
             a == h[j].run_start
             s == h[j].out
  <2>1. i \in 1 .. n /\ i - 1 = j /\ i \in 0 .. n /\ i \in Nat
    BY <1>1
  <2>2. Chain(text, s, 1, a) /\ a \in 1 .. i /\ \A k \in a .. i - 1 : text[k] \notin Number
    BY <1>11, <2>1
  <2>3. h[i] = Then(i, h[j])
    BY <1>9, <2>1
  <2>4. CASE text[i] \in Number
    <3>1. h[i].out = s \o Piece(a, i) \o Piece(i, i + 1) /\ h[i].run_start = i + 1
      <4> HIDE DEF i, s, a
      <4>1. Then(i, h[j]) = [out |-> s \o Piece(a, i) \o Piece(i, i + 1), run_start |-> i + 1]
        BY <2>4 DEF Then, s, a
      <4>2. h[i] = [out |-> s \o Piece(a, i) \o Piece(i, i + 1), run_start |-> i + 1]
        BY <2>3, <4>1
      <4> QED
        BY <4>2
    <3> HIDE DEF i, s, a
    <3>2. \A p \in a .. i - 1 : SegmentEnd(text, p) = i
      <4> SUFFICES ASSUME NEW p \in a .. i - 1 PROVE SegmentEnd(text, p) = i
        OBVIOUS
      <4>1. p \in 1 .. n /\ i \in p + 1 .. n + 1 /\ \A k \in p .. i - 1 : text[k] \notin Number
        BY <1>1, <2>1, <2>2
      <4> QED
        BY <2>4, <4>1, SegmentEndAt DEF n
    <3>3. Chain(text, s \o Piece(a, i), 1, i)
      <4>1. a \in 1 .. n + 1 /\ i \in a .. n + 1
        BY <1>1, <2>1, <2>2
      <4> QED
        BY <2>2, <3>2, <4>1, PieceIs DEF n
    <3>4. Chain(text, s \o Piece(a, i) \o Piece(i, i + 1), 1, i + 1)
      <4>1. i \in 1 .. n + 1 /\ i + 1 \in i .. n + 1
        BY <1>1, <2>1
      <4>2. \A p \in i .. (i + 1) - 1 : p = i
        BY <2>1
      <4>3. SegmentEnd(text, i) = i + 1
        BY <2>1, <2>4, SegmentEndIs DEF n
      <4>4. \A p \in i .. (i + 1) - 1 : SegmentEnd(text, p) = i + 1
        BY <4>2, <4>3
      <4> QED
        BY <3>3, <4>1, <4>4, PieceIs DEF n
    <3>5. i + 1 \in 1 .. i + 1 /\ i + 1 .. i = {}
      BY <2>1
    <3>6. i \in Good
      BY <2>1, <3>1, <3>4, <3>5
    <3> QED
      BY <3>6 DEF i
  <2>5. CASE text[i] \notin Number
    <3>1. h[i] = h[j]
      BY <2>3, <2>5 DEF Then
    <3>2. a \in 1 .. i + 1
      BY <2>1, <2>2
    <3>3. \A k \in a .. i : text[k] \notin Number
      <4>1. \A k \in a .. i : k = i \/ k \in a .. i - 1
        BY <2>1, <2>2
      <4> QED
        BY <2>2, <2>5, <4>1
    <3> QED
      BY <2>1, <2>2, <3>1, <3>2, <3>3
  <2> QED
    BY <2>4, <2>5
<1>12. n \in Good
  <2> HIDE DEF Good
  <2>1. 0 .. n \subseteq Good
    BY <1>1, <1>10, <1>11, UpTo
  <2> QED
    BY <1>1, <2>1
<1> DEFINE a == h[n].run_start
           s == h[n].out
<1>13. Chain(text, s, 1, a) /\ a \in 1 .. n + 1 /\ \A k \in a .. n : text[k] \notin Number
  BY <1>12
<1> HIDE DEF a, s
<1>14. \A p \in a .. (n + 1) - 1 : SegmentEnd(text, p) = n + 1
  <2> SUFFICES ASSUME NEW p \in a .. (n + 1) - 1 PROVE SegmentEnd(text, p) = n + 1
    OBVIOUS
  <2>1. /\ p \in 1 .. n /\ n + 1 \in p + 1 .. n + 1 /\ ~ (n + 1 <= n)
        /\ \A k \in p .. (n + 1) - 1 : text[k] \notin Number
    BY <1>1, <1>13
  <2> QED
    BY <2>1, SegmentEndAt DEF n
<1>15. Chain(text, s \o Piece(a, n + 1), 1, n + 1)
  <2>1. n + 1 \in a .. n + 1
    BY <1>1, <1>13
  <2> QED
    BY <1>13, <1>14, <2>1, PieceIs DEF n
<1> QED
  BY <1>7, <1>15 DEF a, s, n

-----------------------------------------------------------------------------
(* verify3's spans, on the texts it is right about.                        *)

\* A run from the place after its first character ends where the run ends.
LEMMA RunEndAfter ==
  ASSUME NEW class, NEW p \in Nat, NEW stop \in Nat, p < stop, Holds(class, text[p])
  PROVE  RunEnd(class, p + 1, stop) = RunEnd(class, p, stop)
<1> DEFINE a == RunEnd(class, p, stop)
           b == RunEnd(class, p + 1, stop)
<1>1. /\ a \in p .. stop /\ \A k \in p .. a - 1 : Holds(class, text[k])
      /\ a < stop => ~ Holds(class, text[a])
  BY RunEndIs
<1>2. /\ b \in p + 1 .. stop /\ \A k \in p + 1 .. b - 1 : Holds(class, text[k])
      /\ b < stop => ~ Holds(class, text[b])
  BY RunEndIs
<1> HIDE DEF a, b
<1>3. a # p
  BY <1>1
<1>4. ~ (a < b)
  <2>1. SUFFICES ASSUME a < b PROVE FALSE
    OBVIOUS
  <2>2. a \in p + 1 .. b - 1 /\ a < stop
    BY <1>1, <1>2, <1>3, <2>1
  <2> QED
    BY <1>1, <1>2, <2>2
<1>5. ~ (b < a)
  <2>1. SUFFICES ASSUME b < a PROVE FALSE
    OBVIOUS
  <2>2. b \in p .. a - 1 /\ b < stop
    BY <1>1, <1>2, <2>1
  <2> QED
    BY <1>1, <1>2, <2>2
<1>6. a = b
  BY <1>1, <1>2, <1>4, <1>5
<1> QED
  BY <1>6 DEF a, b

\* There a span is a word of the expression.
LEMMA SpanIsWord ==
  ASSUME IsText, Plain, NEW p \in 1 .. Len(text), NEW stop, stop = Len(text) + 1
  PROVE  Span(p, stop) = WordEnd(text, p)
<1> DEFINE C == ContractionEnds(p, stop)
           B == BodyEnds(p, stop)
           blank_end == RunEnd("Blank", AfterSpace(p), stop)
           step == IF blank_end = p THEN p + 1 ELSE blank_end
           end == WordEnd(text, p)
           n == Len(text)
<1>0. n \in Nat /\ p \in Nat /\ stop \in Nat /\ p < stop /\ DOMAIN text = 1 .. n
  BY TextHas
<1>1. stop = SegmentEnd(text, p)
  <2>1. /\ n + 1 \in p + 1 .. n + 1 /\ ~ (n + 1 <= n)
        /\ \A k \in p .. (n + 1) - 1 : k \in DOMAIN text
    BY <1>0
  <2>2. \A k \in p .. (n + 1) - 1 : text[k] \notin Number
    BY <2>1 DEF Plain
  <2> QED
    BY <2>1, <2>2, SegmentEndAt
<1>2. /\ C # {} => C = {end}
      /\ C = {} /\ B # {} => B = {end}
      /\ C = {} /\ B = {} => end = BlankEnd(p, stop) /\ text[p] \in Blank
  BY <1>1, WordEndIs
<1>3. ASSUME text[p] \in Blank
      PROVE  step = BlankEnd(p, stop)
  <2> DEFINE run_end == RunEnd("Blank", p, stop)
  <2>1. Holds("Blank", text[p])
    BY <1>3, HoldsIs
  <2>2. /\ run_end \in p .. stop
        /\ \A k \in p .. run_end - 1 : text[k] \in Blank
        /\ run_end < stop => text[run_end] \notin Blank
    BY <1>0, RunEndIs, HoldsIs
  <2>3. blank_end = run_end
    <3>1. CASE AfterSpace(p) = p
      BY <3>1
    <3>2. CASE AfterSpace(p) = p + 1
      BY <1>0, <2>1, <3>2, RunEndAfter
    <3>3. AfterSpace(p) = p \/ AfterSpace(p) = p + 1
      BY <1>0, AfterSpaceIs
    <3> QED
      BY <3>1, <3>2, <3>3
  <2>4. BlankEnd(p, stop) = IF run_end < stop /\ run_end - 1 > p THEN run_end - 1 ELSE run_end
    BY DEF BlankEnd
  <2> HIDE DEF run_end, blank_end
  <2>5. run_end # p
    BY <1>0, <1>3, <2>2
  <2>6. ~ (run_end < stop /\ run_end - 1 > p)
    <3>1. SUFFICES ASSUME run_end < stop, run_end - 1 > p PROVE FALSE
      OBVIOUS
    <3> HIDE DEF n
    <3>2. p + 1 \in p .. run_end - 1 /\ p + 1 < n /\ run_end \in p .. n /\ p \in 1 .. n
      BY <1>0, <2>2, <3>1 DEF n
    <3>3. text[p + 1] \in Blank
      BY <2>2, <3>2
    <3>4. \A k \in p .. n : text[k] \in Blank
      BY <1>0, <1>3, <3>2, <3>3 DEF Plain, n
    <3> QED
      BY <2>2, <3>1, <3>2, <3>4
  <2> QED
    BY <2>3, <2>4, <2>5, <2>6
<1>4. Span(p, stop) = CHOOSE q \in (IF C # {} THEN C ELSE IF B # {} THEN B ELSE {step}) : TRUE
  BY DEF Span
<1> HIDE DEF C, B, step, end
<1> QED
  BY <1>2, <1>3, <1>4 DEF end

-----------------------------------------------------------------------------
(* The inductive invariant.                                                *)

\* What never changes, and where nothing has happened yet.
Scanning ==
  /\ text \in Texts
  /\ scanner \in {"cis2_verify", "verify3"}
  /\ pc \in {"split", "scan", "done"}
  /\ pc = "split" => segments = << >> /\ at = 1 /\ words = << >>

\* The scan is in the first of the segments, or at the end.
InSegment ==
  pc # "split" =>
    IF segments = << >> THEN at = Len(text) + 1
    ELSE at \in segments[1].from .. segments[1].to - 1

\* What is left of split_digits' segments goes to the end of the text.
Cut == pc # "split" /\ scanner = "cis2_verify" /\ segments # << >>
         => Chain(text, segments, segments[1].from, Len(text) + 1)

\* verify3 has one segment.
Whole == pc # "split" /\ scanner = "verify3" /\ segments # << >>
           => segments = <<[from |-> 1, to |-> Len(text) + 1]>>

\* The words so far, with those the expression finds from here on, are those it
\* finds in the text.
SoFar ==
  /\ words \in Pieces
  /\ Flattened(words) = SubSeq(text, 1, at - 1)
  /\ scanner = "cis2_verify" \/ Plain => words \o WordsFrom(text)[at] = Words(text)

Bounded ==
  /\ scanner = "verify3" => Len(words) <= MaxSpans
  /\ pc = "done" => segments = << >> \/ ~ Room

IInv == Scanning /\ InSegment /\ Cut /\ Whole /\ SoFar /\ Bounded

\* The texts are sequences.
LEMMA TextIs ==
  ASSUME Scanning
  PROVE  IsText
BY TextsAssumption DEF Scanning, IsText, Chars

\* The scan is in the text, and the segment it is in does not go beyond it.
LEMMA AtIs ==
  ASSUME IInv
  PROVE  /\ Len(text) \in Nat /\ at \in 1 .. Len(text) + 1
         /\ segments = << >> /\ pc # "split" => at = Len(text) + 1
         /\ pc # "split" /\ segments # << >> =>
              /\ at \in 1 .. Len(text) /\ segments[1].to \in at + 1 .. Len(text) + 1
              /\ segments[1].from \in 1 .. at /\ Head(segments) = segments[1]
              /\ scanner = "cis2_verify" => segments[1].to = SegmentEnd(text, at)
              /\ scanner = "verify3" => segments[1].to = Len(text) + 1
<1> DEFINE n == Len(text)
           from == segments[1].from
           to == segments[1].to
<1>0. n \in Nat
  BY TextIs, TextHas DEF IInv
<1>1. CASE pc = "split"
  BY <1>0, <1>1 DEF IInv, Scanning
<1>2. CASE pc # "split" /\ segments = << >>
  BY <1>0, <1>2 DEF IInv, InSegment
<1>3. CASE pc # "split" /\ segments # << >> /\ scanner = "cis2_verify"
  <2>1. at \in from .. to - 1
    BY <1>3 DEF IInv, InSegment
  <2>2. SegmentOk(text, segments[1]) /\ segments \in Seq(Segment)
    <3>1. Chain(text, segments, from, n + 1)
      BY <1>3 DEF IInv, Cut
    <3>2. segments \in Seq(Segment) /\ Len(segments) \in Nat \ {0}
      BY <1>3, <3>1, EmptySeq DEF Chain
    <3>3. 1 \in 1 .. Len(segments)
      BY <3>2
    <3> QED
      BY <3>1, <3>2, <3>3 DEF Chain
  <2>3. from \in 1 .. n /\ to \in from + 1 .. n + 1
    BY <2>2 DEF SegmentOk
  <2>4. to = SegmentEnd(text, at)
    BY <2>1, <2>2 DEF SegmentOk
  <2>5. Head(segments) = segments[1]
    OBVIOUS
  <2> HIDE DEF n, from, to
  <2>6. at \in 1 .. n /\ to \in at + 1 .. n + 1 /\ from \in 1 .. at /\ at \in 1 .. n + 1
    BY <1>0, <2>1, <2>3
  <2> QED
    BY <1>0, <1>3, <2>4, <2>5, <2>6 DEF n, from, to
<1>4. CASE pc # "split" /\ segments # << >> /\ scanner # "cis2_verify"
  <2>1. at \in from .. to - 1
    BY <1>4 DEF IInv, InSegment
  <2>2. scanner = "verify3" /\ segments = <<[from |-> 1, to |-> n + 1]>>
    BY <1>4 DEF IInv, Scanning, Whole
  <2>3. from = 1 /\ to = n + 1
    BY <2>2
  <2>4. Head(segments) = segments[1]
    OBVIOUS
  <2> HIDE DEF n, from, to
  <2>5. at \in 1 .. n /\ to \in at + 1 .. n + 1 /\ from \in 1 .. at /\ at \in 1 .. n + 1
    BY <1>0, <2>1, <2>3
  <2> QED
    BY <1>0, <1>4, <2>2, <2>3, <2>4, <2>5 DEF n, from, to
<1> QED
  BY <1>1, <1>2, <1>3, <1>4

\* Initially.
LEMMA InitHolds ==
  ASSUME Init
  PROVE  IInv
<1>1. Scanning /\ InSegment /\ Cut /\ Whole
  BY DEF Init, Scanning, InSegment, Cut, Whole
<1>2. IsText
  BY <1>1, TextIs
<1>3. SoFar
  <2> DEFINE From == WordsFrom(text)
  <2>1. words = << >> /\ at = 1
    BY DEF Init
  <2>2. Len(text) \in Nat /\ << >> \in Seq(Seq(Chars)) /\ << >> \in Seq(Chars)
    BY <1>2, TextHas
  <2>3. << >> \in Pieces
    BY <2>2 DEF Pieces
  <2>4. Flattened(<< >>) = << >>
    <3>1. PICK g \in [0 .. Len(<< >>) -> Seq(Chars)] :
             /\ Flattened(<< >>) = g[Len(<< >>)] /\ g[0] = << >>
      BY <2>2, FlattenedIs
    <3> QED
      BY <3>1
  <2>5. SubSeq(text, 1, 1 - 1) = << >>
    BY SubSeqEmpty
  <2>6. From[1] \in Pieces
    <3>1. 1 \in 1 .. Len(text) + 1
      BY <2>2
    <3> QED
      BY <1>2, <3>1, WordsFromIs
  <2>7. << >> \o From[1] = From[1]
    BY <2>6, ConcatEmptySeq DEF Pieces
  <2>8. Words(text) = From[1]
    BY DEF Words
  <2> HIDE DEF From
  <2>9. words \o From[at] = Words(text)
    BY <2>1, <2>7, <2>8
  <2>10. Flattened(words) = SubSeq(text, 1, at - 1)
    BY <2>1, <2>4, <2>5
  <2> QED
    BY <2>1, <2>3, <2>9, <2>10 DEF SoFar, From
<1>4. Bounded
  <2>1. words = << >> /\ pc = "split" /\ Len(<< >>) = 0
    BY DEF Init
  <2>2. Len(words) <= MaxSpans
    BY <2>1, MaxSpansAssumption
  <2> QED
    BY <2>1, <2>2 DEF Bounded
<1> QED
  BY <1>1, <1>3, <1>4 DEF IInv

\* Putting the segments in place.
LEMMA BeginKeeps ==
  ASSUME IInv, Begin
  PROVE  IInv'
<1> DEFINE n == Len(text)
<1>1. /\ pc = "split" /\ pc' = "scan" /\ at = 1 /\ at' = 1
      /\ text' = text /\ scanner' = scanner /\ words' = words
      /\ scanner \in {"cis2_verify", "verify3"}
  BY DEF Begin, IInv, Scanning
<1>2. IsText /\ n \in Nat
  BY TextIs, TextHas DEF IInv
<1>3. Scanning'
  BY <1>1 DEF IInv, Scanning
<1>4. SoFar'
  <2>1. SoFar /\ Plain' = Plain /\ Pieces' = Pieces
    BY <1>1 DEF IInv, Plain, Pieces, Chars
  <2> QED
    BY <1>1, <2>1 DEF SoFar
<1>5. Bounded'
  BY <1>1 DEF IInv, Bounded
<1>6. CASE scanner = "cis2_verify"
  <2>1. segments' = Split
    BY <1>6 DEF Begin
  <2>2. Chain(text, Split, 1, n + 1)
    BY <1>2, SplitIs
  <2>3. Chain(text', segments', 1, Len(text') + 1)
    BY <1>1, <2>1, <2>2
  <2>4. CASE segments' = << >>
    <3>1. 1 = n + 1
      BY <2>1, <2>2, <2>4 DEF Chain
    <3> QED
      BY <1>1, <1>3, <1>4, <1>5, <1>6, <2>4, <3>1 DEF IInv, InSegment, Cut, Whole
  <2>5. CASE segments' # << >>
    <3>1. Split \in Seq(Segment) /\ Len(Split) \in Nat \ {0} /\ Split[1].from = 1
      BY <2>1, <2>2, <2>5, EmptySeq DEF Chain
    <3>2. SegmentOk(text, Split[1])
      <4>1. 1 \in 1 .. Len(Split)
        BY <3>1
      <4> QED
        BY <2>2, <4>1 DEF Chain
    <3>3. Split[1].to \in 1 + 1 .. n + 1
      BY <3>1, <3>2 DEF SegmentOk
    <3>4. at' \in segments'[1].from .. segments'[1].to - 1
      BY <1>1, <1>2, <2>1, <3>1, <3>3
    <3>5. InSegment' /\ Cut' /\ Whole'
      BY <1>1, <1>6, <2>1, <2>3, <2>5, <3>1, <3>4 DEF InSegment, Cut, Whole
    <3> QED
      BY <1>3, <1>4, <1>5, <3>5 DEF IInv
  <2> QED
    BY <2>4, <2>5
<1>7. CASE scanner = "verify3" /\ text = << >>
  <2>1. segments' = << >> /\ n = 0
    BY <1>7 DEF Begin
  <2> QED
    BY <1>1, <1>3, <1>4, <1>5, <1>7, <2>1 DEF IInv, InSegment, Cut, Whole
<1>8. CASE scanner = "verify3" /\ text # << >>
  <2>1. segments' = <<[from |-> 1, to |-> n + 1]>>
    BY <1>8 DEF Begin
  <2>2. n # 0
    BY <1>2, <1>8, EmptySeq DEF IsText
  <2>3. segments'[1].from = 1 /\ segments'[1].to = n + 1 /\ segments' # << >>
    BY <2>1
  <2>4. at' \in segments'[1].from .. segments'[1].to - 1
    BY <1>1, <1>2, <2>2, <2>3
  <2>5. InSegment' /\ Cut' /\ Whole'
    BY <1>1, <1>8, <2>1, <2>3, <2>4 DEF InSegment, Cut, Whole
  <2> QED
    BY <1>3, <1>4, <1>5, <2>5 DEF IInv
<1> QED
  BY <1>1, <1>6, <1>7, <1>8

\* A word has been found, from where the scan was to q: where the scan goes on.
LEMMA TakeMoves ==
  ASSUME IInv, pc = "scan", segments # << >>, NEW q \in at + 1 .. segments[1].to, Take(q)
  PROVE  at' = q /\ InSegment' /\ Cut' /\ Whole'
<1> DEFINE n == Len(text)
           to == segments[1].to
           from == segments[1].from
<1>0. /\ n \in Nat /\ at \in 1 .. n /\ to \in at + 1 .. n + 1 /\ from \in 1 .. at
      /\ Head(segments) = segments[1]
  BY AtIs
<1>1. /\ text' = text /\ scanner' = scanner /\ pc' = "scan"
      /\ segments' = IF q < to THEN segments ELSE Tail(segments)
      /\ at' = IF q >= to /\ Len(segments) > 1 THEN segments[2].from ELSE q
  BY <1>0 DEF Take
<1>2. CASE q < to
  <2>1. segments' = segments /\ at' = q
    BY <1>0, <1>1, <1>2
  <2>2. at' \in from .. to - 1
    BY <1>0, <1>2, <2>1
  <2>3. InSegment'
    BY <1>1, <2>1, <2>2 DEF InSegment
  <2>4. Cut' /\ Whole'
    BY <1>1, <2>1 DEF IInv, Cut, Whole
  <2> QED
    BY <2>1, <2>3, <2>4
<1>3. CASE ~ (q < to) /\ scanner = "cis2_verify"
  <2>1. q = to /\ segments' = Tail(segments)
    BY <1>0, <1>1, <1>3
  <2>2. Chain(text, segments, from, n + 1)
    BY <1>3 DEF IInv, Cut
  <2>3. Chain(text, Tail(segments), to, n + 1)
    BY <2>2, ChainTail
  <2>4. /\ segments \in Seq(Segment) /\ Len(segments) \in Nat /\ Tail(segments) \in Seq(Segment)
        /\ Len(Tail(segments)) = Len(segments) - 1
        /\ \A j \in 1 .. Len(Tail(segments)) : Tail(segments)[j] = segments[j + 1]
    BY <2>2, LenProperties, HeadTailProperties DEF Chain
  <2>5. CASE Tail(segments) = << >>
    <3>1. to = n + 1 /\ Len(segments) = 1
      <4>1. to = n + 1
        BY <2>3, <2>5 DEF Chain
      <4> DEFINE rest == Tail(segments)
      <4>2. rest = << >> /\ Len(rest) = Len(segments) - 1 /\ Len(segments) \in Nat
        BY <2>4, <2>5
      <4> HIDE DEF rest
      <4>3. Len(segments) = 1
        BY <4>2
      <4> QED
        BY <4>1, <4>3
    <3>2. at' = q
      BY <1>1, <3>1
    <3> QED
      BY <1>1, <1>3, <2>1, <2>5, <3>1, <3>2 DEF InSegment, Cut, Whole
  <2>6. CASE Tail(segments) # << >>
    <3> DEFINE t == Tail(segments)
    <3>1. Len(t) \in Nat \ {0} /\ t[1].from = to
      BY <2>3, <2>4, <2>6, EmptySeq DEF Chain
    <3>2. 1 \in 1 .. Len(t) /\ Len(segments) > 1 /\ 1 + 1 = 2
      BY <2>4, <3>1
    <3>3. segments[2] = t[1] /\ SegmentOk(text, t[1])
      BY <2>3, <2>4, <3>2 DEF Chain
    <3> HIDE DEF t
    <3>4. at' = q
      <4>1. q >= to
        BY <1>0, <2>1
      <4> QED
        BY <1>1, <2>1, <3>1, <3>2, <3>3, <4>1
    <3>5. t[1].from \in 1 .. n /\ t[1].to \in t[1].from + 1 .. n + 1
      BY <3>3 DEF SegmentOk
    <3>6. at' \in t[1].from .. t[1].to - 1
      <4> HIDE DEF n, to
      <4>1. at' = t[1].from
        BY <2>1, <3>1, <3>4
      <4> QED
        BY <1>0, <3>5, <4>1
    <3>7. segments' = t
      BY <2>1 DEF t
    <3>8. InSegment'
      BY <2>6, <3>6, <3>7 DEF InSegment, t
    <3>9. Chain(text', segments', segments'[1].from, Len(text') + 1)
      BY <1>1, <2>3, <3>1, <3>7 DEF t
    <3> QED
      BY <1>1, <1>3, <3>4, <3>8, <3>9 DEF Cut, Whole
  <2> QED
    BY <2>5, <2>6
<1>4. CASE ~ (q < to) /\ scanner # "cis2_verify"
  <2>1. q = to /\ segments' = Tail(segments)
    BY <1>0, <1>1, <1>4
  <2>2. scanner = "verify3" /\ segments = <<[from |-> 1, to |-> n + 1]>>
    BY <1>4 DEF IInv, Scanning, Whole
  <2>3. Tail(segments) = << >> /\ Len(segments) = 1 /\ to = n + 1
    BY <2>2
  <2>4. at' = q
    BY <1>1, <2>3
  <2> QED
    BY <1>1, <2>1, <2>2, <2>3, <2>4 DEF InSegment, Cut, Whole
<1> QED
  BY <1>2, <1>3, <1>4

\* What the words are then.
LEMMA TakeFinds ==
  ASSUME IInv, pc = "scan", segments # << >>, NEW q \in at + 1 .. segments[1].to, Take(q),
         scanner = "cis2_verify" \/ Plain => q = WordEnd(text, at)
  PROVE  SoFar'
<1> DEFINE n == Len(text)
           w == SubSeq(text, at, q - 1)
           From == WordsFrom(text)
<1>0. /\ n \in Nat /\ at \in 1 .. n /\ at' = q /\ text' = text /\ scanner' = scanner
      /\ words' = Append(words, w) /\ IsText
      /\ Plain' = Plain /\ Pieces' = Pieces
  <2>1. n \in Nat /\ at \in 1 .. n /\ at' = q /\ IsText
    BY AtIs, TextIs, TakeMoves DEF IInv
  <2>2. text' = text /\ scanner' = scanner /\ words' = Append(words, w)
    BY DEF Take
  <2> QED
    BY <2>1, <2>2 DEF Plain, Pieces, Chars
<1>1. q \in at + 1 .. n + 1
  <2>1. segments[1].to \in at + 1 .. n + 1
    BY AtIs
  <2> HIDE DEF n
  <2> QED
    BY <1>0, <2>1
<1>2. w \in Seq(Chars)
  <2>1. at \in Int /\ q - 1 \in Int /\ \A j \in at .. q - 1 : j \in 1 .. n
    BY <1>0, <1>1
  <2>2. \A j \in at .. q - 1 : text[j] \in Chars
    BY <1>0, <2>1, TextHas
  <2> QED
    BY <2>1, <2>2, SubSeqProperties
<1>3. words \in Seq(Seq(Chars)) /\ Flattened(words) = SubSeq(text, 1, at - 1)
  BY DEF IInv, SoFar, Pieces
<1>4. words' \in Pieces
  BY <1>0, <1>2, <1>3, AppendProperties DEF Pieces
<1>5. Flattened(words') = SubSeq(text', 1, at' - 1)
  <2>1. Flattened(words') = SubSeq(text, 1, at - 1) \o w
    BY <1>0, <1>2, <1>3, FlattenedAppend
  <2>2. SubSeq(text, 1, at - 1) \o SubSeq(text, (at - 1) + 1, q - 1) = SubSeq(text, 1, q - 1)
    <3>1. /\ 1 \in 1 .. Len(text) + 1 /\ at - 1 \in 1 - 1 .. Len(text)
          /\ q - 1 \in at - 1 .. Len(text) /\ text \in Seq(Chars)
      BY <1>0, <1>1 DEF IsText
    <3> QED
      BY <3>1, ConcatAdjacentSubSeq
  <2>3. (at - 1) + 1 = at
    BY <1>0
  <2> QED
    BY <1>0, <2>1, <2>2, <2>3
<1>6. ASSUME scanner = "cis2_verify" \/ Plain
      PROVE  words' \o From[q] = Words(text)
  <2>1. words \o From[at] = Words(text)
    BY <1>6 DEF IInv, SoFar
  <2>2. From[at] = <<w>> \o From[q]
    BY <1>0, <1>6, WordsFromIs
  <2>3. From[q] \in Seq(Seq(Chars))
    <3>1. q \in 1 .. Len(text) + 1
      BY <1>0, <1>1
    <3> QED
      BY <1>0, <3>1, WordsFromIs DEF Pieces
  <2> HIDE DEF From, w
  <2>4. words' = words \o <<w>> /\ <<w>> \in Seq(Seq(Chars))
    BY <1>0, <1>2, <1>3, AppendIsConcat
  <2>5. words' \o From[q] = (words \o <<w>>) \o From[q]
    BY <2>4
  <2>6. (words \o <<w>>) \o From[q] = words \o (<<w>> \o From[q])
    <3>1. \A s, t, u \in Seq(Seq(Chars)) : (s \o t) \o u = s \o (t \o u)
      BY ConcatAssociative, SMTT(30)
    <3> QED
      BY <1>3, <2>3, <2>4, <3>1
  <2> QED
    BY <2>1, <2>2, <2>5, <2>6
<1> QED
  BY <1>0, <1>4, <1>5, <1>6 DEF SoFar

LEMMA TakeKeeps ==
  ASSUME IInv, pc = "scan", segments # << >>, NEW q \in at + 1 .. segments[1].to, Take(q), Room,
         scanner = "cis2_verify" \/ Plain => q = WordEnd(text, at)
  PROVE  IInv'
<1>1. at' = q /\ InSegment' /\ Cut' /\ Whole'
  BY TakeMoves
<1>2. SoFar'
  BY TakeFinds
<1>3. text' = text /\ scanner' = scanner /\ pc' = pc /\ Len(words') = Len(words) + 1
  <2>1. SubSeq(text, at, q - 1) \in Seq(Chars) /\ words \in Seq(Seq(Chars))
    <3>1. Len(text) \in Nat /\ at \in 1 .. Len(text) /\ q \in at + 1 .. Len(text) + 1 /\ IsText
      <4>1. Len(text) \in Nat /\ at \in 1 .. Len(text) /\ segments[1].to \in at + 1 .. Len(text) + 1
        BY AtIs
      <4>2. IsText
        BY TextIs DEF IInv
      <4> QED
        BY <4>1, <4>2
    <3>2. at \in Int /\ q - 1 \in Int /\ \A j \in at .. q - 1 : j \in 1 .. Len(text)
      BY <3>1
    <3>3. \A j \in at .. q - 1 : text[j] \in Chars
      BY <3>1, <3>2, TextHas
    <3> QED
      BY <3>2, <3>3, SubSeqProperties DEF IInv, SoFar, Pieces
  <2> QED
    BY <2>1, AppendProperties DEF Take
<1>4. Scanning'
  BY <1>3 DEF IInv, Scanning
<1>5. Bounded'
  <2>1. Len(words) \in Nat
    BY LenProperties DEF IInv, SoFar, Pieces
  <2>2. scanner = "verify3" => Len(words) < MaxSpans
    BY DEF Room
  <2>3. scanner' = "verify3" => Len(words') <= MaxSpans
    BY <1>3, <2>1, <2>2, MaxSpansAssumption
  <2> QED
    BY <1>3, <2>3 DEF Bounded
<1> QED
  BY <1>1, <1>2, <1>4, <1>5 DEF IInv

LEMMA ScanKeeps ==
  ASSUME IInv, Scan
  PROVE  IInv'
<1> DEFINE to == segments[1].to
           end == MatchOne(at, to)
<1>1. /\ pc = "scan" /\ scanner = "cis2_verify" /\ segments # << >>
      /\ at \in 1 .. Len(text) /\ to = SegmentEnd(text, at) /\ Head(segments) = segments[1]
      /\ IsText
  BY AtIs, TextIs DEF Scan, IInv
<1>2. end = WordEnd(text, at) /\ end \in at + 1 .. to
  BY <1>1, MatchIs, WordEndIs
<1>3. Take(IF end > at THEN end ELSE at + 1)
  BY <1>1 DEF Scan
<1> HIDE DEF end, to
<1>4. end > at /\ end \in at + 1 .. segments[1].to
  BY <1>1, <1>2 DEF to
<1>5. Take(end)
  BY <1>3, <1>4
<1>6. Room
  BY <1>1 DEF Room
<1> QED
  BY <1>1, <1>2, <1>4, <1>5, <1>6, TakeKeeps

LEMMA ScanSpanKeeps ==
  ASSUME IInv, ScanSpan
  PROVE  IInv'
<1> DEFINE to == segments[1].to
           q == Span(at, to)
<1>1. /\ pc = "scan" /\ scanner = "verify3" /\ segments # << >> /\ Room
      /\ at \in 1 .. Len(text) /\ to = Len(text) + 1 /\ Head(segments) = segments[1]
      /\ IsText
  BY AtIs, TextIs DEF ScanSpan, IInv
<1>2. q \in at + 1 .. to
  BY <1>1, SpanIs
<1>3. Plain => q = WordEnd(text, at)
  BY <1>1, SpanIsWord
<1>4. Take(q)
  BY <1>1 DEF ScanSpan
<1> QED
  BY <1>1, <1>2, <1>3, <1>4, TakeKeeps

LEMMA ReturnKeeps ==
  ASSUME IInv, Return
  PROVE  IInv'
<1>1. /\ pc = "scan" /\ pc' = "done"
      /\ segments = << >> \/ ~ Room
      /\ UNCHANGED <<scanner, text, segments, at, words>>
  BY DEF Return
<1>2. Scanning' /\ InSegment' /\ Cut' /\ Whole'
  <2>1. Scanning'
    BY <1>1 DEF IInv, Scanning
  <2>2. InSegment'
    BY <1>1 DEF IInv, InSegment
  <2>3. Cut'
    BY <1>1 DEF IInv, Cut
  <2>4. Whole'
    BY <1>1 DEF IInv, Whole
  <2> QED
    BY <2>1, <2>2, <2>3, <2>4
<1>3. SoFar'
  <2>1. Plain' = Plain /\ Pieces' = Pieces
    BY <1>1 DEF Plain, Pieces, Chars
  <2> QED
    BY <1>1, <2>1 DEF IInv, SoFar
<1>4. Bounded'
  BY <1>1 DEF IInv, Bounded, Room
<1> QED
  BY <1>2, <1>3, <1>4 DEF IInv

-----------------------------------------------------------------------------
LEMMA Inductive ==
  Spec => []IInv
<1>1. IInv /\ [Next]_vars => IInv'
  <2> SUFFICES ASSUME IInv, [Next]_vars PROVE IInv'
    OBVIOUS
  <2>1. CASE Next
    <3>1. CASE Begin
      BY <3>1, BeginKeeps
    <3>2. CASE Scan
      BY <3>2, ScanKeeps
    <3>3. CASE ScanSpan
      BY <3>3, ScanSpanKeeps
    <3>4. CASE Return
      BY <3>4, ReturnKeeps
    <3> QED
      BY <2>1, <3>1, <3>2, <3>3, <3>4 DEF Next
  <2>2. CASE UNCHANGED vars
    <3>1. /\ text' = text /\ scanner' = scanner /\ pc' = pc /\ segments' = segments
          /\ at' = at /\ words' = words
      BY <2>2 DEF vars
    <3>2. Scanning' /\ InSegment' /\ Cut' /\ Whole'
      <4>1. Scanning'
        BY <3>1 DEF IInv, Scanning
      <4>2. InSegment'
        BY <3>1 DEF IInv, InSegment
      <4>3. Cut'
        BY <3>1 DEF IInv, Cut
      <4>4. Whole'
        BY <3>1 DEF IInv, Whole
      <4> QED
        BY <4>1, <4>2, <4>3, <4>4
    <3>3. SoFar'
      <4>1. Plain' = Plain /\ Pieces' = Pieces
        BY <3>1 DEF Plain, Pieces, Chars
      <4> QED
        BY <3>1, <4>1 DEF IInv, SoFar
    <3>4. Bounded'
      BY <3>1 DEF IInv, Bounded, Room
    <3> QED
      BY <3>2, <3>3, <3>4 DEF IInv
  <2> QED
    BY <2>1, <2>2
<1> QED
  BY <1>1, InitHolds, PTL DEF Spec

\* The segments that are left are pieces of the text.
LEMMA SegmentsAre ==
  ASSUME IInv, NEW i \in DOMAIN segments
  PROVE  1 <= segments[i].from /\ segments[i].from < segments[i].to
<1> DEFINE n == Len(text)
<1>0. n \in Nat
  BY AtIs
<1>1. CASE segments = << >>
  BY <1>1
<1>2. CASE segments # << >> /\ scanner = "cis2_verify"
  <2>1. pc # "split"
    BY <1>2 DEF IInv, Scanning
  <2>2. Chain(text, segments, segments[1].from, n + 1)
    BY <1>2, <2>1 DEF IInv, Cut
  <2>3. i \in 1 .. Len(segments)
    BY <2>2, LenProperties DEF Chain
  <2>4. SegmentOk(text, segments[i])
    BY <2>2, <2>3 DEF Chain
  <2>5. segments[i].from \in 1 .. n /\ segments[i].to \in segments[i].from + 1 .. n + 1
    BY <2>4 DEF SegmentOk
  <2> HIDE DEF n
  <2> QED
    BY <1>0, <2>5
<1>3. CASE segments # << >> /\ scanner = "verify3"
  <2>1. pc # "split"
    BY <1>3 DEF IInv, Scanning
  <2>2. segments = <<[from |-> 1, to |-> n + 1]>>
    BY <1>3, <2>1 DEF IInv, Whole
  <2>3. i = 1 /\ segments[1].from = 1 /\ segments[1].to = n + 1
    BY <2>2
  <2>4. n # 0
    <3>1. at \in 1 .. n
      BY <1>3, <2>1, AtIs
    <3> QED
      BY <1>0, <3>1
  <2> HIDE DEF n
  <2> QED
    BY <1>0, <2>3, <2>4
<1> QED
  BY <1>1, <1>2, <1>3 DEF IInv, Scanning

\* The scan stays in the text, its segments are pieces of the text, and
\* verify3's spans stay in their array.
THEOREM TypeCorrect ==
  Spec => []TypeOK
<1>1. IInv => TypeOK
  <2> SUFFICES ASSUME IInv PROVE TypeOK
    OBVIOUS
  <2>1. at \in 1 .. Len(text) + 1
    BY AtIs
  <2>2. \A i \in DOMAIN segments : 1 <= segments[i].from /\ segments[i].from < segments[i].to
    BY SegmentsAre
  <2> QED
    BY <2>1, <2>2 DEF IInv, Scanning, Bounded, TypeOK
<1> QED
  BY <1>1, Inductive, PTL

\* Both scanners of a tokenizer cut any text into words that make the text up
\* to where they are, and all of it unless verify3's array is full.
THEOREM WordsMakeTheText ==
  Spec => []Tiles
<1>1. IInv => Tiles
  <2> SUFFICES ASSUME IInv PROVE Tiles
    OBVIOUS
  <2>1. Flattened(words) = SubSeq(text, 1, at - 1)
    BY DEF IInv, SoFar
  <2>2. ASSUME pc = "done", scanner = "verify3" => Len(words) < MaxSpans
        PROVE  at = Len(text) + 1
    <3>1. scanner = "cis2_verify" \/ scanner = "verify3"
      BY DEF IInv, Scanning
    <3>2. Room
      BY <2>2, <3>1 DEF Room
    <3>3. segments = << >>
      BY <2>2, <3>2 DEF IInv, Bounded
    <3> QED
      BY <2>2, <3>3, AtIs
  <2> QED
    BY <2>1, <2>2 DEF Tiles
<1> QED
  BY <1>1, Inductive, PTL

\* At the end of the text nothing is left to find.
LEMMA AtTheEnd ==
  ASSUME IInv, at = Len(text) + 1, scanner = "cis2_verify" \/ Plain
  PROVE  words = Words(text)
<1>1. words \o WordsFrom(text)[at] = Words(text) /\ words \in Seq(Seq(Chars))
  BY DEF IInv, SoFar, Pieces
<1>2. WordsFrom(text)[at] = << >>
  <2>1. IsText
    BY TextIs DEF IInv
  <2> QED
    BY <2>1, WordsFromIs
<1> QED
  BY <1>1, <1>2, ConcatEmptySeq

\* The hand-written scanner of cis2-verify finds what the regular expression
\* finds, in every text.
THEOREM ScannerIsTheExpression ==
  Spec => []FollowsRegex
<1>1. IInv => FollowsRegex
  <2> SUFFICES ASSUME IInv, pc = "done", scanner = "cis2_verify" PROVE words = Words(text)
    BY DEF FollowsRegex
  <2>1. segments = << >>
    BY DEF IInv, Bounded, Room
  <2> QED
    BY <2>1, AtIs, AtTheEnd
<1> QED
  BY <1>1, Inductive, PTL

\* So does verify3's on the texts that have no digits and no blanks before the
\* last blank of a word, up to the last word its array has a place for.
THEOREM SpansAreTheExpression ==
  Spec => []PlainAgrees
<1>1. IInv => PlainAgrees
  <2> DEFINE all == Words(text)
  <2> SUFFICES ASSUME IInv, pc = "done", scanner = "verify3", Plain
               PROVE  words = IF Len(all) <= MaxSpans THEN all ELSE SubSeq(all, 1, MaxSpans)
    BY DEF PlainAgrees
  <2> DEFINE rest == WordsFrom(text)[at]
  <2>1. words \o rest = all /\ words \in Seq(Seq(Chars))
    BY DEF IInv, SoFar, Pieces
  <2>2. rest \in Seq(Seq(Chars))
    <3>1. at \in 1 .. Len(text) + 1 /\ IsText
      BY AtIs, TextIs DEF IInv
    <3> QED
      BY <3>1, WordsFromIs DEF Pieces
  <2>3. Len(words) \in Nat /\ Len(words) <= MaxSpans
    BY <2>1, LenProperties DEF IInv, Scanning, Bounded
  <2>4. segments = << >> \/ ~ Room
    BY DEF IInv, Bounded
  <2>5. CASE segments = << >>
    <3>1. words = all
      BY <2>5, AtIs, AtTheEnd
    <3> HIDE DEF all
    <3> QED
      BY <2>3, <3>1
  <2>6. CASE ~ Room
    <3> HIDE DEF rest, all
    <3>1. Len(words) = MaxSpans
      BY <2>3, <2>6, MaxSpansAssumption DEF Room
    <3>2. /\ all \in Seq(Seq(Chars)) /\ Len(all) = Len(words) + Len(rest) /\ Len(rest) \in Nat
          /\ \A k \in 1 .. Len(words) : all[k] = words[k]
      <4>1. words \in Seq(Seq(Chars)) /\ Len(rest) \in Nat
        BY <2>1, <2>2, LenProperties
      <4>2. /\ words \o rest \in Seq(Seq(Chars)) /\ Len(words \o rest) = Len(words) + Len(rest)
            /\ \A k \in 1 .. Len(words) + Len(rest) :
                 (words \o rest)[k] = IF k <= Len(words) THEN words[k] ELSE rest[k - Len(words)]
        BY <2>2, <4>1, ConcatProperties
      <4>3. \A k \in 1 .. Len(words) : k \in 1 .. Len(words) + Len(rest) /\ k <= Len(words)
        BY <2>3, <4>1
      <4> QED
        BY <2>1, <4>1, <4>2, <4>3
    <3>3. CASE Len(all) <= MaxSpans
      <4>1. rest = << >>
        BY <2>2, <2>3, <3>1, <3>2, <3>3, EmptySeq
      <4>2. words = all
        BY <2>1, <4>1, ConcatEmptySeq
      <4> QED
        BY <3>3, <4>2
    <3>4. CASE ~ (Len(all) <= MaxSpans)
      <4> DEFINE first == SubSeq(all, 1, MaxSpans)
      <4>1. first \in Seq(Seq(Chars)) /\ Len(first) = MaxSpans
            /\ \A k \in 1 .. MaxSpans : first[k] = all[k]
        BY <2>3, <3>1, <3>2, <3>4, MaxSpansAssumption, SubSeqProperties
      <4> HIDE DEF first
      <4>2. words = first
        BY <2>1, <2>3, <3>1, <3>2, <4>1, SeqEqual
      <4> QED
        BY <3>4, <4>2 DEF first
    <3> QED
      BY <3>3, <3>4
  <2> QED
    BY <2>4, <2>5, <2>6
<1> QED
  BY <1>1, Inductive, PTL
=============================================================================
