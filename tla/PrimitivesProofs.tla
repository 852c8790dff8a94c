--------------------------- MODULE PrimitivesProofs ---------------------------
(***************************************************************************)
(* Proofs about four small systems that have nothing in common but their   *)
(* size.  Sha256Stream: for messages of any length, fed in pieces of any   *)
(* lengths.  Ledger: for a page of any length, any numbers and kinds on    *)
(* its lines, and any records.  Conformance: for any number of vectors,    *)
(* pipes of any size and any candidate.  Json: for any text.               *)
(***************************************************************************)
EXTENDS Sha256Stream, Ledger, Conformance, Json, Induction, FiniteSetTheorems, TLAPS

(* The digests.                                                            *)

Hashers == [code : Codes, blocks : Seq(Nat), buf : Seq(Nat), len : Nat, total : Nat]

\* The blocks and the buffer together hold the first n bytes of f.
Holds(h, f, n) ==
  /\ h \in Hashers /\ n \in Nat
  /\ h.len \in 0 .. 63 /\ Len(h.buf) = 64
  /\ \E b \in Nat : Len(h.blocks) = 64 * b
  /\ Len(h.blocks) + h.len = n
  /\ \A u \in 1 .. Len(h.blocks) : h.blocks[u] = f[u]
  /\ \A u \in 1 .. h.len : h.buf[u] = f[Len(h.blocks) + u]

-----------------------------------------------------------------------------
(* The operators on sequences.                                             *)

IsCopy(new, S, buf, at, data) ==
  /\ new \in Seq(S) /\ Len(new) = Len(buf)
  /\ \A u \in 1 .. Len(buf) :
       new[u] = IF u \in at + 1 .. at + Len(data) THEN data[u - at] ELSE buf[u]

LEMMA CopyIntoIs ==
  ASSUME NEW S, NEW buf \in Seq(S), NEW at \in Nat, NEW data \in Seq(S)
  PROVE  IsCopy(CopyInto(buf, at, data), S, buf, at, data)
<1> DEFINE new == [u \in 1 .. Len(buf) |-> IF u \in at + 1 .. at + Len(data) THEN data[u - at] ELSE buf[u]]
<1>1. Len(buf) \in Nat /\ Len(data) \in Nat
  BY LenProperties
<1>2. \A u \in 1 .. Len(buf) : u \in at + 1 .. at + Len(data) => u - at \in 1 .. Len(data)
  BY <1>1
<1>3. \A u \in 1 .. Len(buf) : (IF u \in at + 1 .. at + Len(data) THEN data[u - at] ELSE buf[u]) \in S
  BY <1>2, ElementOfSeq
<1>4. new \in [1 .. Len(buf) -> S]
  BY <1>3
<1>5. new \in Seq(S) /\ Len(new) = Len(buf)
  <2> HIDE DEF new
  <2> QED
    BY <1>1, <1>4
<1> QED
  BY <1>5 DEF CopyInto, IsCopy

\* t is the elements of s after m, up to n.
IsSlice(t, S, s, m, n) ==
  /\ t \in Seq(S) /\ Len(t) = n - m
  /\ \A u \in 1 .. n - m : t[u] = s[m + u]

LEMMA SliceIs ==
  ASSUME NEW S, NEW s \in Seq(S), NEW m \in 0 .. Len(s), NEW n \in m .. Len(s)
  PROVE  IsSlice(SubSeq(s, m + 1, n), S, s, m, n)
<1>0. Len(s) \in Nat
  BY LenProperties
<1>1. m + 1 \in Int /\ n \in Int /\ \A u \in m + 1 .. n : u \in 1 .. Len(s)
  BY <1>0
<1>2. \A u \in m + 1 .. n : s[u] \in S
  BY <1>1, ElementOfSeq
<1>3. /\ SubSeq(s, m + 1, n) \in Seq(S)
      /\ Len(SubSeq(s, m + 1, n)) = IF m + 1 <= n THEN n - (m + 1) + 1 ELSE 0
      /\ \A u \in 1 .. n - (m + 1) + 1 : SubSeq(s, m + 1, n)[u] = s[(m + 1) + u - 1]
  BY <1>1, <1>2, SubSeqProperties
<1>4. /\ n - (m + 1) + 1 = n - m /\ (m + 1 <= n \/ n - m = 0)
      /\ \A u \in 1 .. n - m : (m + 1) + u - 1 = m + u
  BY <1>0
<1> QED
  BY <1>3, <1>4 DEF IsSlice

LEMMA ZerosAre ==
  ASSUME NEW n \in Nat
  PROVE  Zeros(n) \in Seq(Nat) /\ Len(Zeros(n)) = n /\ \A u \in 1 .. n : Zeros(n)[u] = 0
<1>1. Zeros(n) \in [1 .. n -> Nat]
  BY DEF Zeros
<1>2. \A u \in 1 .. n : Zeros(n)[u] = 0
  BY DEF Zeros
<1> HIDE DEF Zeros
<1> QED
  BY <1>1, <1>2

LEMMA BytesAre ==
  ASSUME NEW from \in Nat, NEW to \in Nat, from <= to
  PROVE  /\ Bytes(from, to) \in Seq(Nat) /\ Len(Bytes(from, to)) = to - from
         /\ \A u \in 1 .. to - from : Bytes(from, to)[u] = 255 + from + u
<1>1. Bytes(from, to) \in [1 .. to - from -> Nat] /\ to - from \in Nat
  BY DEF Bytes
<1>2. \A u \in 1 .. to - from : Bytes(from, to)[u] = 255 + from + u
  BY DEF Bytes
<1> QED
  BY <1>1, <1>2

-----------------------------------------------------------------------------
(* Bytes into the buffer.                                                  *)

\* data is what f has after its first n bytes.
Continues(data, f, n) == \A u \in 1 .. Len(data) : data[u] = f[n + u]

\* Bytes that fit into the buffer are copied there, and when they fill it, it is
\* hashed and begins anew.
Filled(g, h, data) ==
  \/ /\ h.len + Len(data) < 64
     /\ g.blocks = h.blocks
     /\ g.buf = CopyInto(h.buf, h.len, data)
     /\ g.len = h.len + Len(data)
  \/ /\ h.len + Len(data) = 64
     /\ g.blocks = h.blocks \o CopyInto(h.buf, h.len, data)
     /\ g.len = 0

\* Holds, with the lengths named: m bytes in b blocks, and l in the buffer.
HoldsOf(g, f, n, m, l, b) ==
  /\ g \in Hashers /\ n \in Nat /\ b \in Nat
  /\ Len(g.blocks) = m /\ g.len = l /\ m = 64 * b /\ m + l = n
  /\ l \in 0 .. 63 /\ Len(g.buf) = 64
  /\ \A u \in 1 .. m : g.blocks[u] = f[u]
  /\ \A u \in 1 .. l : g.buf[u] = f[m + u]

LEMMA HoldsWhen ==
  ASSUME NEW g, NEW f, NEW n, NEW m, NEW l, NEW b, HoldsOf(g, f, n, m, l, b)
  PROVE  Holds(g, f, n)
BY DEF Holds, HoldsOf

LEMMA FilledHolds ==
  ASSUME NEW h, NEW f, NEW n, Holds(h, f, n),
         NEW data \in Seq(Nat), h.len + Len(data) <= 64, Continues(data, f, n),
         NEW g \in Hashers, Len(g.buf) = 64, Filled(g, h, data)
  PROVE  Holds(g, f, n + Len(data))
<1> DEFINE buf == CopyInto(h.buf, h.len, data)
           k == Len(data)
           m == Len(h.blocks)
           l == h.len
<1>1. /\ h.blocks \in Seq(Nat) /\ h.buf \in Seq(Nat) /\ Len(h.buf) = 64
      /\ l \in 0 .. 63 /\ n \in Nat /\ m + l = n
      /\ \A u \in 1 .. m : h.blocks[u] = f[u]
      /\ \A u \in 1 .. l : h.buf[u] = f[m + u]
  BY DEF Holds, Hashers
<1>2. k \in Nat /\ m \in Nat /\ l \in Nat /\ l + k <= 64
  <2>1. k \in Nat
    BY LenProperties
  <2>2. m \in Nat
    BY <1>1, LenProperties
  <2>3. l + k <= 64
    OBVIOUS
  <2> HIDE DEF k, m, l
  <2> QED
    BY <1>1, <2>1, <2>2, <2>3
<1>3. PICK b \in Nat : m = 64 * b
  BY DEF Holds
<1>4. /\ buf \in Seq(Nat) /\ Len(buf) = 64
      /\ \A u \in 1 .. 64 : buf[u] = IF u \in l + 1 .. l + k THEN data[u - l] ELSE h.buf[u]
  <2>1. h.buf \in Seq(Nat) /\ l \in Nat /\ Len(h.buf) = 64
    BY <1>1, <1>2
  <2> HIDE DEF l
  <2>2. /\ CopyInto(h.buf, l, data) \in Seq(Nat)
        /\ Len(CopyInto(h.buf, l, data)) = Len(h.buf)
        /\ \A u \in 1 .. Len(h.buf) :
             CopyInto(h.buf, l, data)[u] = IF u \in l + 1 .. l + Len(data) THEN data[u - l] ELSE h.buf[u]
    <3>1. IsCopy(CopyInto(h.buf, l, data), Nat, h.buf, l, data)
      BY <2>1, CopyIntoIs
    <3> QED
      BY <3>1 DEF IsCopy
  <2>3. /\ CopyInto(h.buf, l, data) \in Seq(Nat)
        /\ Len(CopyInto(h.buf, l, data)) = 64
        /\ \A u \in 1 .. 64 :
             CopyInto(h.buf, l, data)[u] = IF u \in l + 1 .. l + k THEN data[u - l] ELSE h.buf[u]
    BY <2>1, <2>2
  <2> QED
    BY <2>3 DEF l
<1>0. \A u \in 1 .. k : data[u] = f[n + u]
  BY DEF Continues
<1>8. \/ l + k < 64 /\ g.blocks = h.blocks /\ g.buf = buf /\ g.len = l + k
      \/ l + k = 64 /\ g.blocks = h.blocks \o buf /\ g.len = 0
  BY DEF Filled
<1> HIDE DEF k, l, buf
<1>5. ASSUME NEW u \in 1 .. l + k PROVE buf[u] = f[m + u]
  <2> HIDE DEF m
  <2>1. u \in 1 .. 64
    BY <1>2
  <2>2. CASE u <= l
    <3>1. u \in 1 .. l /\ u \notin l + 1 .. l + k
      BY <1>2, <2>2
    <3> QED
      BY <1>1, <1>4, <2>1, <3>1
  <2>3. CASE ~ (u <= l)
    <3>1. u \in l + 1 .. l + k /\ u - l \in 1 .. k /\ n + (u - l) = m + u
      BY <1>1, <1>2, <2>3
    <3>2. buf[u] = data[u - l]
      BY <1>4, <2>1, <3>1
    <3> QED
      BY <1>0, <3>1, <3>2
  <2> QED
    BY <1>2, <2>2, <2>3
<1>6. CASE l + k < 64 /\ g.blocks = h.blocks /\ g.buf = buf /\ g.len = l + k
  <2>1. Len(g.blocks) = m
    BY <1>6
  <2> HIDE DEF m
  <2>2. g.len \in 0 .. 63 /\ m + g.len = n + k /\ n + k \in Nat
    BY <1>1, <1>2, <1>6
  <2>3. \A u \in 1 .. m : g.blocks[u] = f[u]
    BY <1>1, <1>6
  <2>4. \A u \in 1 .. g.len : g.buf[u] = f[m + u]
    BY <1>5, <1>6
  <2> QED
    BY <1>3, <2>1, <2>2, <2>3, <2>4 DEF Holds, k
<1>7. CASE l + k = 64 /\ g.blocks = h.blocks \o buf /\ g.len = 0
  <2>1. /\ Len(g.blocks) = m + 64
        /\ \A u \in 1 .. m + 64 : g.blocks[u] = IF u <= m THEN h.blocks[u] ELSE buf[u - m]
    <3>1. /\ Len(h.blocks \o buf) = Len(h.blocks) + Len(buf)
          /\ \A u \in 1 .. Len(h.blocks) + Len(buf) :
               (h.blocks \o buf)[u] = IF u <= Len(h.blocks) THEN h.blocks[u] ELSE buf[u - Len(h.blocks)]
      <4>1. h.blocks \in Seq(Nat) /\ buf \in Seq(Nat)
        BY <1>1, <1>4
      <4>2. Len(h.blocks \o buf) = Len(h.blocks) + Len(buf)
        BY <4>1, ConcatProperties
      <4> QED
        BY <4>1, <4>2, ConcatProperties
    <3> QED
      BY <3>1, <1>4, <1>7
  <2> HIDE DEF m
  <2>2. \A u \in 1 .. m + 64 : g.blocks[u] = f[u]
    <3> SUFFICES ASSUME NEW u \in 1 .. m + 64 PROVE g.blocks[u] = f[u]
      OBVIOUS
    <3>1. CASE u <= m
      <4>1. u \in 1 .. m
        BY <1>2, <3>1
      <4> QED
        BY <1>1, <2>1, <3>1, <4>1
    <3>2. CASE ~ (u <= m)
      <4>1. u - m \in 1 .. l + k /\ m + (u - m) = u
        BY <1>2, <1>7, <3>2
      <4> QED
        BY <1>5, <2>1, <3>2, <4>1
    <3> QED
      BY <3>1, <3>2
  <2> DEFINE c == b + 1
             to == m + 64
             sum == n + k
  <2>3. c \in Nat /\ to = 64 * c /\ to + 0 = sum /\ sum \in Nat
    BY <1>1, <1>2, <1>3, <1>7
  <2>4. g.len = 0 /\ 0 \in 0 .. 63 /\ \A u \in 1 .. 0 : g.buf[u] = f[to + u]
    BY <1>7
  <2> HIDE DEF c, sum
  <2>5. Len(g.blocks) = to /\ \A u \in 1 .. to : g.blocks[u] = f[u]
    BY <2>1, <2>2
  <2> HIDE DEF to
  <2>6. HoldsOf(g, f, sum, to, 0, c)
    BY <2>3, <2>4, <2>5 DEF HoldsOf
  <2>7. Holds(g, f, sum)
    BY <2>6, HoldsWhen
  <2> QED
    BY <2>7 DEF k, sum
<1> QED
  BY <1>6, <1>7, <1>8

\* Bytes that fit, under the count of whole blocks.
HoldsC(h, f, n) == Holds(h, f, n) /\ h.total = 8 * Len(h.blocks)

Hasher(code, blocks, buf, len, total) ==
  [code |-> code, blocks |-> blocks, buf |-> buf, len |-> len, total |-> total]

WellTyped(code, blocks, buf, len, total) ==
  /\ code \in Codes /\ blocks \in Seq(Nat) /\ buf \in Seq(Nat)
  /\ len \in Nat /\ total \in Nat

Has(h, code, blocks, buf, len, total) ==
  /\ h \in Hashers /\ h = Hasher(code, blocks, buf, len, total)
  /\ h.code = code /\ h.blocks = blocks /\ h.buf = buf /\ h.len = len /\ h.total = total
  /\ WellTyped(code, blocks, buf, len, total)

LEMMA HasherHas ==
  ASSUME NEW code, NEW blocks, NEW buf, NEW len, NEW total,
         WellTyped(code, blocks, buf, len, total)
  PROVE  Has(Hasher(code, blocks, buf, len, total), code, blocks, buf, len, total)
BY DEF Hashers, Hasher, Has, WellTyped

LEMMA HashersHave ==
  ASSUME NEW h \in Hashers
  PROVE  Has(h, h.code, h.blocks, h.buf, h.len, h.total)
BY DEF Hashers, Hasher, Has, WellTyped

\* What each kind of EXCEPT gives.
LEMMA SetLen ==
  ASSUME NEW h, NEW code, NEW blocks, NEW buf, NEW len, NEW total,
         Has(h, code, blocks, buf, len, total), NEW l \in Nat
  PROVE  Has([h EXCEPT !.len = l], code, blocks, buf, l, total)
<1> DEFINE g == [h EXCEPT !.len = l]
<1>1. g \in Hashers /\ WellTyped(code, blocks, buf, l, total)
  BY DEF Has, WellTyped, Hashers
<1>2. g.code = code /\ g.blocks = blocks /\ g.buf = buf /\ g.len = l /\ g.total = total
  BY DEF Has, WellTyped, Hashers
<1> HIDE DEF g
<1>3. Has(g, g.code, g.blocks, g.buf, g.len, g.total)
  BY <1>1, HashersHave
<1> QED
  BY <1>2, <1>3 DEF g

LEMMA SetBufLen ==
  ASSUME NEW h, NEW code, NEW blocks, NEW buf, NEW len, NEW total,
         Has(h, code, blocks, buf, len, total), NEW b \in Seq(Nat), NEW l \in Nat
  PROVE  Has([h EXCEPT !.buf = b, !.len = l], code, blocks, b, l, total)
<1> DEFINE g == [h EXCEPT !.buf = b, !.len = l]
<1>1. g \in Hashers /\ WellTyped(code, blocks, b, l, total)
  BY DEF Has, WellTyped, Hashers
<1>2. g.code = code /\ g.blocks = blocks /\ g.buf = b /\ g.len = l /\ g.total = total
  BY DEF Has, WellTyped, Hashers
<1> HIDE DEF g
<1>3. Has(g, g.code, g.blocks, g.buf, g.len, g.total)
  BY <1>1, HashersHave
<1> QED
  BY <1>2, <1>3 DEF g

LEMMA SetBufLenTotal ==
  ASSUME NEW h, NEW code, NEW blocks, NEW buf, NEW len, NEW total,
         Has(h, code, blocks, buf, len, total), NEW b \in Seq(Nat), NEW l \in Nat, NEW t \in Nat
  PROVE  Has([h EXCEPT !.buf = b, !.len = l, !.total = t], code, blocks, b, l, t)
<1> DEFINE g == [h EXCEPT !.buf = b, !.len = l, !.total = t]
<1>1. g \in Hashers /\ WellTyped(code, blocks, b, l, t)
  BY DEF Has, WellTyped, Hashers
<1>2. g.code = code /\ g.blocks = blocks /\ g.buf = b /\ g.len = l /\ g.total = t
  BY DEF Has, WellTyped, Hashers
<1> HIDE DEF g
<1>3. Has(g, g.code, g.blocks, g.buf, g.len, g.total)
  BY <1>1, HashersHave
<1> QED
  BY <1>2, <1>3 DEF g

LEMMA SetTotalLen ==
  ASSUME NEW h, NEW code, NEW blocks, NEW buf, NEW len, NEW total,
         Has(h, code, blocks, buf, len, total), NEW l \in Nat, NEW t \in Nat
  PROVE  Has([h EXCEPT !.total = t, !.len = l], code, blocks, buf, l, t)
<1> DEFINE g == [h EXCEPT !.total = t, !.len = l]
<1>1. g \in Hashers /\ WellTyped(code, blocks, buf, l, t)
  BY DEF Has, WellTyped, Hashers
<1>2. g.code = code /\ g.blocks = blocks /\ g.buf = buf /\ g.len = l /\ g.total = t
  BY DEF Has, WellTyped, Hashers
<1> HIDE DEF g
<1>3. Has(g, g.code, g.blocks, g.buf, g.len, g.total)
  BY <1>1, HashersHave
<1> QED
  BY <1>2, <1>3 DEF g

LEMMA CompressHas ==
  ASSUME NEW h, NEW code, NEW blocks, NEW buf, NEW len, NEW total,
         Has(h, code, blocks, buf, len, total), NEW block \in Seq(Nat)
  PROVE  Has(Compress(h, block), code, blocks \o block, buf, len, total)
<1> DEFINE bs == blocks \o block
           g == [h EXCEPT !.blocks = bs]
<1>1. bs \in Seq(Nat)
  <2>1. blocks \in Seq(Nat)
    BY DEF Has, WellTyped
  <2> QED
    BY <2>1, ConcatProperties
<1>2. g = Compress(h, block)
  BY DEF Compress, Has
<1> HIDE DEF bs
<1>3. g \in Hashers /\ WellTyped(code, bs, buf, len, total)
  BY <1>1 DEF Has, WellTyped, Hashers
<1>4. g.code = code /\ g.blocks = bs /\ g.buf = buf /\ g.len = len /\ g.total = total
  BY <1>1 DEF Has, WellTyped, Hashers
<1> HIDE DEF g
<1>5. Has(g, g.code, g.blocks, g.buf, g.len, g.total)
  BY <1>3, HashersHave
<1> QED
  BY <1>2, <1>4, <1>5 DEF bs

\* Put fills the buffer, and hashes it when it is full.
LEMMA PutHas ==
  ASSUME NEW h, NEW code, NEW blocks, NEW buf, NEW len, NEW total,
         Has(h, code, blocks, buf, len, total), NEW data \in Seq(Nat)
  PROVE  LET new == CopyInto(buf, len, data)
         IN  IF len + Len(data) = 64
               THEN Has(Put(h, data), code, blocks \o new, new, 0, total + 512)
               ELSE Has(Put(h, data), code, blocks, new, len + Len(data), total)
<1> DEFINE new == CopyInto(buf, len, data)
           k == Len(data)
           l == len + k
           t == total + 512
           filled == [h EXCEPT !.buf = new, !.len = l]
           hashed == Compress(filled, new)
<1>1. buf \in Seq(Nat) /\ len \in Nat /\ total \in Nat /\ h.buf = buf /\ h.len = len
  BY DEF Has, WellTyped
<1>2. IsCopy(new, Nat, buf, len, data)
  BY <1>1, CopyIntoIs
<1>3. new \in Seq(Nat)
  BY <1>2 DEF IsCopy
<1>4. k \in Nat
  BY LenProperties
<1>5. l \in Nat /\ t \in Nat /\ 0 \in Nat
  <2> HIDE DEF k
  <2> QED
    BY <1>1, <1>4
<1>6. Put(h, data) = IF filled.len = 64
                       THEN [Compress(filled, filled.buf) EXCEPT !.total = @ + 512, !.len = 0]
                       ELSE filled
  BY <1>1 DEF Put
<1> HIDE DEF new, l
<1>7. Has(filled, code, blocks, new, l, total)
  BY <1>3, <1>5, SetBufLen, ZenonT(60)
<1> HIDE DEF filled
<1>8. Has(hashed, code, blocks \o new, new, l, total)
  BY <1>3, <1>7, CompressHas
<1> HIDE DEF hashed
<1>9. Has([hashed EXCEPT !.total = t, !.len = 0], code, blocks \o new, new, 0, t)
  <2> HIDE DEF t
  <2> QED
    BY <1>5, <1>8, SetTotalLen
<1>10. filled.len = l /\ filled.buf = new /\ hashed.total = total
  BY <1>7, <1>8 DEF Has
<1>11. Put(h, data) = IF l = 64 THEN [hashed EXCEPT !.total = t, !.len = 0] ELSE filled
  BY <1>6, <1>10 DEF hashed
<1>12. IF l = 64 THEN Has(Put(h, data), code, blocks \o new, new, 0, t)
       ELSE Has(Put(h, data), code, blocks, new, l, total)
  <2> HIDE DEF t
  <2> QED
    BY <1>7, <1>9, <1>11, Zenon
<1> QED
  BY <1>12 DEF new, l

\* g is what h becomes when buf, of which it fills k bytes more, is its buffer.
PutGives(g, h, buf, k) ==
  /\ g \in Hashers /\ g.code = h.code /\ g.buf = buf /\ Len(buf) = Len(h.buf)
  /\ IF h.len + k = 64
       THEN g.blocks = h.blocks \o buf /\ g.len = 0 /\ g.total = h.total + 512
       ELSE g.blocks = h.blocks /\ g.len = h.len + k /\ g.total = h.total

LEMMA PutIs ==
  ASSUME NEW h \in Hashers, NEW data \in Seq(Nat)
  PROVE  PutGives(Put(h, data), h, CopyInto(h.buf, h.len, data), Len(data))
<1> DEFINE new == CopyInto(h.buf, h.len, data)
           g == Put(h, data)
<1>1. Has(h, h.code, h.blocks, h.buf, h.len, h.total)
  BY HashersHave
<1>2. IF h.len + Len(data) = 64
        THEN Has(g, h.code, h.blocks \o new, new, 0, h.total + 512)
        ELSE Has(g, h.code, h.blocks, new, h.len + Len(data), h.total)
  BY <1>1, PutHas
<1>3. h.buf \in Seq(Nat) /\ h.len \in Nat
  BY <1>1 DEF Has, WellTyped
<1>4. IsCopy(new, Nat, h.buf, h.len, data)
  BY <1>3, CopyIntoIs
<1>5. Len(new) = Len(h.buf)
  BY <1>4 DEF IsCopy
<1> HIDE DEF g, new
<1>6. CASE h.len + Len(data) = 64
  <2>1. Has(g, h.code, h.blocks \o new, new, 0, h.total + 512)
    BY <1>2, <1>6
  <2>2. PutGives(g, h, new, Len(data))
    BY <1>5, <1>6, <2>1 DEF Has, PutGives
  <2> QED
    BY <2>2 DEF g, new
<1>7. CASE h.len + Len(data) # 64
  <2>1. Has(g, h.code, h.blocks, new, h.len + Len(data), h.total)
    BY <1>2, <1>7
  <2>2. PutGives(g, h, new, Len(data))
    BY <1>5, <1>7, <2>1 DEF Has, PutGives
  <2> QED
    BY <2>2 DEF g, new
<1> QED
  BY <1>6, <1>7

LEMMA PutHolds ==
  ASSUME NEW h, NEW f, NEW n, HoldsC(h, f, n),
         NEW data \in Seq(Nat), h.len + Len(data) <= 64, Continues(data, f, n)
  PROVE  /\ HoldsC(Put(h, data), f, n + Len(data))
         /\ Put(h, data).len = IF h.len + Len(data) = 64 THEN 0 ELSE h.len + Len(data)
<1> DEFINE g == Put(h, data)
           k == Len(data)
           buf == CopyInto(h.buf, h.len, data)
           l == h.len
           m == Len(h.blocks)
<1>0. h \in Hashers /\ Len(h.buf) = 64 /\ h.len \in 0 .. 63 /\ h.blocks \in Seq(Nat)
      /\ h.buf \in Seq(Nat) /\ h.total = 8 * Len(h.blocks)
  BY DEF HoldsC, Holds, Hashers
<1>1. /\ g \in Hashers /\ Len(g.buf) = Len(h.buf) /\ g.buf = buf
      /\ IF l + k = 64
           THEN g.blocks = h.blocks \o buf /\ g.len = 0 /\ g.total = h.total + 512
           ELSE g.blocks = h.blocks /\ g.len = l + k /\ g.total = h.total
  <2>1. PutGives(g, h, buf, k)
    BY <1>0, PutIs
  <2> HIDE DEF g, buf, k
  <2> QED
    BY <2>1 DEF PutGives
<1> HIDE DEF g
<1>2. k \in Nat
  BY LenProperties
<1>3. Holds(h, f, n)
  BY DEF HoldsC
<1>4. Filled(g, h, data)
  <2>1. l + k <= 64 /\ l \in 0 .. 63
    BY <1>0
  <2>2. l + k = 64 \/ (l + k # 64 /\ l + k < 64)
    <3> HIDE DEF k, l
    <3> QED
      BY <1>2, <2>1
  <2> QED
    BY <1>1, <2>2, Zenon DEF Filled
<1>5. g \in Hashers /\ Len(g.buf) = 64
  BY <1>0, <1>1
<1>6. Holds(g, f, n + k)
  BY <1>3, <1>4, <1>5, FilledHolds
<1>7. g.total = 8 * Len(g.blocks)
  <2>1. buf \in Seq(Nat) /\ Len(buf) = 64
    BY <1>0, <1>1, <1>5 DEF Hashers
  <2>2. m \in Nat
    BY <1>0, LenProperties
  <2> HIDE DEF buf, k, l
  <2>3. CASE l + k = 64
    <3>1. Len(h.blocks \o buf) = m + 64
      <4>1. h.blocks \in Seq(Nat) /\ buf \in Seq(Nat)
        BY <1>0, <2>1
      <4>2. Len(h.blocks \o buf) = Len(h.blocks) + Len(buf)
        BY <4>1, ConcatProperties
      <4> QED
        BY <2>1, <4>2
    <3>2. g.blocks = h.blocks \o buf /\ g.total = 8 * m + 512
      BY <1>0, <1>1, <2>3
    <3>3. Len(g.blocks) = m + 64
      BY <3>1, <3>2
    <3> HIDE DEF m
    <3> QED
      BY <2>2, <3>2, <3>3
  <2>4. CASE l + k # 64
    BY <1>0, <1>1, <2>4
  <2> QED
    BY <2>3, <2>4
<1> QED
  BY <1>1, <1>6, <1>7 DEF HoldsC, g

-----------------------------------------------------------------------------
(* verify3's update.                                                       *)

\* The round after one that ended at a: it fills the buffer up to 64 bytes, or
\* ends the data.
Round(r, q, k, l, a, b, held) ==
  /\ r \in Nat /\ q = r + 1 /\ k \in Nat /\ l \in 0 .. 63
  /\ a \in Nat /\ b \in Nat /\ held \in 0 .. 63
  /\ b = Least(64 * q - l, k)
  /\ r = 0 => a = 0 /\ held = l
  /\ r # 0 => a = Least(64 * r - l, k)
  /\ held = 0 \/ r = 0 \/ a # 64 * r - l

LEMMA RoundFits ==
  ASSUME NEW r, NEW q, NEW k, NEW l, NEW a, NEW b, NEW held, Round(r, q, k, l, a, b, held)
  PROVE  held + (b - a) <= 64 /\ (b = 64 * q - l => held + (b - a) = 64)
<1>1. CASE r = 0
  BY <1>1 DEF Round, Least
<1>2. CASE r # 0 /\ a = 64 * r - l
  BY <1>2 DEF Round, Least
<1>3. CASE r # 0 /\ a # 64 * r - l
  <2>1. a = k /\ k < 64 * r - l
    BY <1>3 DEF Round, Least
  <2>2. b = k /\ k # 64 * q - l /\ k \in Nat /\ held \in 0 .. 63
    BY <2>1 DEF Round, Least
  <2> QED
    BY <2>1, <2>2
<1> QED
  BY <1>1, <1>2, <1>3

\* Piece after piece, up to the end of a block at a time: a block that is filled
\* leaves the buffer empty.
LEMMA UpdateCHolds ==
  ASSUME NEW h, NEW f, NEW n, HoldsC(h, f, n),
         NEW data \in Seq(Nat), Continues(data, f, n)
  PROVE  /\ HoldsC(UpdateC(h, data), f, n + Len(data))
         /\ UpdateC(h, data).code = h.code
<1> DEFINE k == Len(data)
           l == h.len
           last == k \div 64 + 2
           End(r) == IF r = 0 THEN 0 ELSE Least(64 * r - l, k)
           Piece(r) == SubSeq(data, End(r - 1) + 1, End(r))
           After(r, g) == Put(g, Piece(r))
           step == [x \in (1 .. last) \X Hashers |-> After(x[1], x[2])]
           Solves(p) == p = [r \in 0 .. last |-> IF r = 0 THEN h ELSE After(r, p[r - 1])]
<1>1. k \in Nat /\ l \in 0 .. 63 /\ h \in Hashers /\ n \in Nat
  <2>1. k \in Nat
    BY LenProperties
  <2> QED
    BY <2>1 DEF HoldsC, Holds
<1> HIDE DEF k, l
<1>2. last \in Nat /\ 64 * last - l >= k
  BY <1>1
<1> HIDE DEF last
<1>3. End(0) = 0 /\ (\A r \in 1 .. last : End(r) = Least(64 * r - l, k)) /\ last \in 1 .. last
  <2>1. last # 0
    BY <1>1 DEF last
  <2> QED
    BY <1>2, <2>1
<1>4. \A r \in 0 .. last : End(r) \in 0 .. k
  BY <1>1, <1>2, <1>3 DEF Least
<1>5. End(last) = k
  BY <1>1, <1>2, <1>3 DEF Least
<1>6. \A r \in 1 .. last : r - 1 \in 0 .. last /\ End(r - 1) <= End(r)
  BY <1>1, <1>2, <1>3 DEF Least
<1> HIDE DEF End
<1>7. ASSUME NEW r \in 1 .. last
      PROVE  /\ Piece(r) \in Seq(Nat) /\ Len(Piece(r)) = End(r) - End(r - 1)
             /\ Continues(Piece(r), f, n + End(r - 1))
  <2>1. /\ End(r - 1) \in 0 .. Len(data) /\ End(r) \in End(r - 1) .. Len(data)
    BY <1>1, <1>4, <1>6 DEF k
  <2>2. IsSlice(Piece(r), Nat, data, End(r - 1), End(r))
    BY <2>1, SliceIs, Zenon
  <2>3. \A u \in 1 .. k : data[u] = f[n + u]
    BY DEF Continues, k
  <2>4. \A u \in 1 .. End(r) - End(r - 1) :
          End(r - 1) + u \in 1 .. k /\ n + (End(r - 1) + u) = (n + End(r - 1)) + u
    <3> DEFINE a == End(r - 1)
               b == End(r)
    <3>1. a \in 0 .. k /\ b \in a .. k
      BY <2>1 DEF k
    <3> HIDE DEF a, b
    <3>2. \A u \in 1 .. b - a : a + u \in 1 .. k /\ n + (a + u) = (n + a) + u
      BY <1>1, <3>1
    <3> QED
      BY <3>2 DEF a, b
  <2> HIDE DEF Piece
  <2>5. /\ Piece(r) \in Seq(Nat) /\ Len(Piece(r)) = End(r) - End(r - 1)
        /\ \A u \in 1 .. End(r) - End(r - 1) : Piece(r)[u] = data[End(r - 1) + u]
    BY <2>2 DEF IsSlice
  <2> QED
    BY <2>3, <2>4, <2>5 DEF Continues
<1> HIDE DEF Piece
<1>8. ASSUME NEW r \in 1 .. last, NEW g \in Hashers
      PROVE  After(r, g) \in Hashers /\ After(r, g).code = g.code
  <2>1. PutGives(After(r, g), g, CopyInto(g.buf, g.len, Piece(r)), Len(Piece(r)))
    BY <1>7, PutIs
  <2> HIDE DEF After, Piece
  <2> QED
    BY <2>1 DEF PutGives
<1> HIDE DEF After
<1>9. step \in StepTable(last, Hashers)
  BY <1>8 DEF StepTable
<1>10. PICK g : Follows(g, last, Hashers, h, step)
  <2> HIDE DEF step
  <2> QED
    BY <1>1, <1>2, <1>9, RecursionExists
<1>11. Solves(g)
  <2>1. g = [r \in 0 .. last |-> g[r]] /\ g[0] = h
    BY <1>10 DEF Follows
  <2>2. ASSUME NEW r \in 1 .. last PROVE g[r] = After(r, g[r - 1])
    <3>1. g[r - 1] \in Hashers /\ g[r] = step[<<r, g[r - 1]>>]
      BY <1>6, <1>10 DEF Follows
    <3>2. <<r, g[r - 1]>> \in (1 .. last) \X Hashers
      BY <3>1
    <3> QED
      BY <3>1, <3>2
  <2>3. \A r \in 0 .. last : r = 0 \/ r \in 1 .. last
    BY <1>2
  <2>4. \A r \in 0 .. last : g[r] = IF r = 0 THEN h ELSE After(r, g[r - 1])
    BY <2>1, <2>2, <2>3
  <2> QED
    BY <2>1, <2>4
<1>12. UpdateC(h, data) = (CHOOSE p : Solves(p))[last]
  BY DEF UpdateC, last, After, Piece, End, k, l
<1> DEFINE put == CHOOSE p : Solves(p)
<1>13. Solves(put)
  <2> HIDE DEF Solves
  <2> QED
    BY <1>11
<1> HIDE DEF put
<1>14. put[0] = h /\ \A r \in 1 .. last : put[r] = Put(put[r - 1], Piece(r))
  BY <1>2, <1>13 DEF After
<1> DEFINE Good == {r \in 0 .. last :
                      /\ HoldsC(put[r], f, n + End(r)) /\ put[r].code = h.code
                      /\ put[r].len = 0 \/ r = 0 \/ End(r) # 64 * r - l}
<1>15. 0 \in Good
  <2>1. n + End(0) = n /\ 0 \in 0 .. last
    BY <1>1, <1>2, <1>3
  <2> QED
    BY <1>14, <2>1
<1>16. ASSUME NEW r \in 0 .. last - 1, r \in Good PROVE r + 1 \in Good
  <2> DEFINE q == r + 1
             piece == Piece(q)
             old == put[r]
             new == put[q]
             d == End(q) - End(r)
  <2>1. q \in 1 .. last /\ q \in 0 .. last /\ q - 1 = r /\ r \in 0 .. last /\ q # 0
    BY <1>2
  <2>2. new = Put(old, piece)
    <3> HIDE DEF q
    <3> QED
      BY <1>14, <2>1
  <2>3. /\ piece \in Seq(Nat) /\ Len(piece) = d /\ Continues(piece, f, n + End(r))
    <3> HIDE DEF q
    <3> QED
      BY <1>7, <2>1
  <2>4. /\ HoldsC(old, f, n + End(r)) /\ old.code = h.code
        /\ old.len = 0 \/ r = 0 \/ End(r) # 64 * r - l
    BY <1>16
  <2>5. old \in Hashers /\ old.len \in 0 .. 63
    BY <2>4 DEF HoldsC, Holds
  <2>6. r = 0 => old.len = l
    BY <1>14 DEF l
  <2>7. /\ End(q) = Least(64 * q - l, k) /\ End(q) \in 0 .. k /\ End(r) \in 0 .. k
        /\ r = 0 => End(r) = 0
        /\ r # 0 => End(r) = Least(64 * r - l, k)
    <3>1. r # 0 => r \in 1 .. last
      BY <2>1
    <3> HIDE DEF q
    <3> QED
      BY <1>3, <1>4, <2>1, <3>1
  <2>8. old.len + d <= 64 /\ (End(q) = 64 * q - l => old.len + d = 64)
    <3>1. r \in Nat /\ q = r + 1
      BY <2>1
    <3>2. End(q) \in Nat /\ End(r) \in Nat
      BY <2>7
    <3> HIDE DEF q, old
    <3>3. /\ old.len + (End(q) - End(r)) <= 64
          /\ End(q) = 64 * q - l => old.len + (End(q) - End(r)) = 64
      <4>1. Round(r, q, k, l, End(r), End(q), old.len)
        BY <1>1, <2>4, <2>5, <2>6, <2>7, <3>1, <3>2 DEF Round
      <4> QED
        BY <4>1, RoundFits
    <3> QED
      BY <3>3
  <2> HIDE DEF q, piece, old, new, d
  <2>9. HoldsC(new, f, n + End(r) + d) /\ new.len = IF old.len + d = 64 THEN 0 ELSE old.len + d
    BY <2>2, <2>3, <2>4, <2>8, PutHolds
  <2>10. n + End(r) + d = n + End(q)
    BY <1>1, <2>7 DEF d
  <2>11. new.code = h.code
    <3>1. PutGives(new, old, CopyInto(old.buf, old.len, piece), Len(piece))
      BY <2>2, <2>3, <2>5, PutIs
    <3> QED
      BY <2>4, <3>1 DEF PutGives
  <2>12. new.len = 0 \/ End(q) # 64 * q - l
    BY <2>8, <2>9
  <2> QED
    BY <2>1, <2>9, <2>10, <2>11, <2>12 DEF new, q
<1>17. 0 .. last \subseteq Good
  <2> HIDE DEF Good
  <2> QED
    BY <1>2, <1>15, <1>16, UpTo
<1>18. HoldsC(put[last], f, n + k) /\ put[last].code = h.code
  BY <1>3, <1>5, <1>17
<1> QED
  BY <1>12, <1>18 DEF put, k

-----------------------------------------------------------------------------
(* cis2-verify's update.                                                   *)

\* Whole blocks may be hashed from the data when the buffer is empty.
LEMMA WholeHolds ==
  ASSUME NEW h, NEW f, NEW n, Holds(h, f, n),
         NEW data \in Seq(Nat), Continues(data, f, n), h.len = 0 \/ Len(data) = 0,
         NEW c \in Nat, Len(data) = 64 * c,
         NEW g \in Hashers, g.blocks = h.blocks \o data, g.len = h.len, g.buf = h.buf
  PROVE  Holds(g, f, n + Len(data))
<1> DEFINE k == Len(data)
           m == Len(h.blocks)
           l == h.len
<1>1. /\ h.blocks \in Seq(Nat) /\ Len(h.buf) = 64
      /\ l \in 0 .. 63 /\ n \in Nat /\ m + l = n
      /\ \A u \in 1 .. m : h.blocks[u] = f[u]
      /\ \A u \in 1 .. l : h.buf[u] = f[m + u]
  BY DEF Holds, Hashers
<1>2. PICK b \in Nat : m = 64 * b
  BY DEF Holds
<1>3. k \in Nat /\ m \in Nat
  BY <1>1, LenProperties
<1>4. Len(h.blocks \o data) = m + k
  <2> DEFINE held == h.blocks
  <2>1. held \in Seq(Nat) /\ data \in Seq(Nat)
    BY <1>1
  <2> HIDE DEF held
  <2>2. Len(held \o data) = Len(held) + Len(data)
    BY <2>1, ConcatProperties
  <2> QED
    BY <2>2 DEF held
<1>5. \A u \in 1 .. m + k : (h.blocks \o data)[u] = IF u <= m THEN h.blocks[u] ELSE data[u - m]
  <2> DEFINE held == h.blocks
  <2>1. held \in Seq(Nat) /\ data \in Seq(Nat)
    BY <1>1
  <2> HIDE DEF held
  <2>2. \A u \in 1 .. Len(held) + Len(data) :
          (held \o data)[u] = IF u <= Len(held) THEN held[u] ELSE data[u - Len(held)]
    BY <2>1, ConcatProperties
  <2> QED
    BY <2>2 DEF held
<1>6. k = 64 * c /\ (l = 0 \/ k = 0)
  OBVIOUS
<1>7. \A u \in 1 .. k : data[u] = f[n + u]
  BY DEF Continues
<1> HIDE DEF k, m, l
<1>8. ASSUME NEW u \in 1 .. m + k PROVE g.blocks[u] = f[u]
  <2>1. CASE u <= m
    <3>1. u \in 1 .. m
      BY <1>3, <2>1
    <3> QED
      BY <1>1, <1>5, <2>1, <3>1
  <2>2. CASE ~ (u <= m)
    <3>1. u - m \in 1 .. k /\ l = 0 /\ n + (u - m) = u
      BY <1>1, <1>3, <1>6, <2>2
    <3>2. g.blocks[u] = data[u - m]
      BY <1>5, <2>2
    <3> QED
      BY <1>7, <3>1, <3>2
  <2> QED
    BY <2>1, <2>2
<1>9. ASSUME NEW u \in 1 .. l PROVE g.buf[u] = f[(m + k) + u]
  <2>1. k = 0 /\ m + k = m
    BY <1>1, <1>3, <1>6
  <2> QED
    BY <1>1, <2>1
<1> DEFINE d == b + c
           to == m + k
           sum == n + k
<1>10. d \in Nat /\ to = 64 * d /\ to + l = sum /\ sum \in Nat
  BY <1>1, <1>2, <1>3, <1>6
<1>11. Len(g.blocks) = to /\ g.len = l /\ Len(g.buf) = 64 /\ l \in 0 .. 63
  BY <1>1, <1>4 DEF l
<1>12. /\ \A u \in 1 .. to : g.blocks[u] = f[u]
       /\ \A u \in 1 .. l : g.buf[u] = f[to + u]
  BY <1>8, <1>9
<1> HIDE DEF d, to, sum
<1>13. HoldsOf(g, f, sum, to, l, d)
  BY <1>10, <1>11, <1>12 DEF HoldsOf
<1>14. Holds(g, f, sum)
  BY <1>13, HoldsWhen
<1> QED
  BY <1>14 DEF k, sum

HoldsRust(h, f, n) == Holds(h, f, n) /\ h.total = n

\* A part of the data continues what is held.
LEMMA PartContinues ==
  ASSUME NEW f, NEW n \in Nat, NEW data \in Seq(Nat), Continues(data, f, n),
         NEW a \in 0 .. Len(data), NEW b \in a .. Len(data)
  PROVE  /\ SubSeq(data, a + 1, b) \in Seq(Nat) /\ Len(SubSeq(data, a + 1, b)) = b - a
         /\ Continues(SubSeq(data, a + 1, b), f, n + a)
<1> DEFINE part == SubSeq(data, a + 1, b)
           k == Len(data)
<1>1. /\ part \in Seq(Nat) /\ Len(part) = b - a
      /\ \A u \in 1 .. b - a : part[u] = data[a + u]
  BY SliceIs DEF IsSlice
<1>2. \A u \in 1 .. k : data[u] = f[n + u]
  BY DEF Continues
<1>3. k \in Nat /\ a \in 0 .. k /\ b \in a .. k
  BY LenProperties
<1> HIDE DEF k, part
<1>4. \A u \in 1 .. b - a : a + u \in 1 .. k /\ n + (a + u) = (n + a) + u
  BY <1>3
<1>5. Continues(part, f, n + a)
  BY <1>1, <1>2, <1>4 DEF Continues
<1> QED
  BY <1>1, <1>5 DEF part

\* The rest of the data after a full buffer: whole blocks, and the tail into the
\* buffer.
AfterRest(h, data) ==
  LET whole == 64 * (Len(data) \div 64)
      hashed == Compress(h, SubSeq(data, 1, whole))
      tail == Drop(data, whole)
  IN  IF tail = << >> THEN hashed
      ELSE [hashed EXCEPT !.buf = CopyInto(@, 0, tail), !.len = Len(tail)]

LEMMA RestHolds ==
  ASSUME NEW h, NEW f, NEW n, Holds(h, f, n),
         NEW data \in Seq(Nat), Continues(data, f, n), h.len = 0 \/ Len(data) = 0
  PROVE  /\ Holds(AfterRest(h, data), f, n + Len(data))
         /\ AfterRest(h, data).code = h.code /\ AfterRest(h, data).total = h.total
<1> DEFINE k == Len(data)
           c == k \div 64
           whole == 64 * c
           first == SubSeq(data, 1, whole)
           hashed == Compress(h, first)
           tail == Drop(data, whole)
           buf == CopyInto(h.buf, 0, tail)
           filled == [hashed EXCEPT !.buf = buf, !.len = Len(tail)]
           bs == h.blocks \o first
           g == IF tail = << >> THEN hashed
                ELSE [hashed EXCEPT !.buf = CopyInto(@, 0, tail), !.len = Len(tail)]
<1>1. h \in Hashers /\ n \in Nat /\ Len(h.buf) = 64 /\ h.buf \in Seq(Nat)
  BY DEF Holds, Hashers
<1>2. k \in Nat
  BY LenProperties
<1>3. c \in Nat /\ whole \in 0 .. k /\ k - whole < 64 /\ (k = 0 => whole = 0)
  <2> HIDE DEF k
  <2> QED
    BY <1>2
<1>4. /\ first \in Seq(Nat) /\ Len(first) = whole
      /\ Continues(first, f, n)
  <2> HIDE DEF whole, c
  <2>1. 0 \in 0 .. Len(data) /\ whole \in 0 .. Len(data) /\ 0 + 1 = 1 /\ whole - 0 = whole /\ n + 0 = n
    BY <1>1, <1>2, <1>3
  <2>2. /\ SubSeq(data, 0 + 1, whole) \in Seq(Nat) /\ Len(SubSeq(data, 0 + 1, whole)) = whole - 0
        /\ Continues(SubSeq(data, 0 + 1, whole), f, n + 0)
    BY <1>1, <2>1, PartContinues
  <2> QED
    BY <2>1, <2>2
<1>5. /\ tail \in Seq(Nat) /\ Len(tail) = k - whole
      /\ Continues(tail, f, n + whole)
  <2> HIDE DEF whole, c
  <2>1. whole \in 0 .. Len(data) /\ Len(data) \in whole .. Len(data)
    BY <1>2, <1>3
  <2> QED
    BY <1>1, <2>1, PartContinues DEF Drop
<1>6. Has(h, h.code, h.blocks, h.buf, h.len, h.total)
  BY <1>1, HashersHave
<1> HIDE DEF first
<1>7. Has(hashed, h.code, bs, h.buf, h.len, h.total)
  BY <1>4, <1>6, CompressHas
<1> HIDE DEF hashed, bs
<1>8. Holds(hashed, f, n + whole)
  <2>1. /\ hashed \in Hashers /\ hashed.blocks = h.blocks \o first
        /\ hashed.len = h.len /\ hashed.buf = h.buf
    BY <1>7 DEF Has, bs
  <2>2. h.len = 0 \/ Len(first) = 0
    <3> HIDE DEF whole
    <3> QED
      BY <1>3, <1>4
  <2>3. Len(first) = 64 * c
    BY <1>4
  <2> HIDE DEF c
  <2> QED
    BY <1>3, <1>4, <2>1, <2>2, <2>3, WholeHolds
<1>9. ASSUME tail = << >>
      PROVE  Holds(g, f, n + k) /\ g.code = h.code /\ g.total = h.total
  <2>1. k - whole = 0 /\ n + whole = n + k
    <3>1. Len(tail) = 0
      BY <1>9
    <3> HIDE DEF k, whole, tail
    <3> QED
      BY <1>1, <1>2, <1>3, <1>5, <3>1
  <2>2. hashed.code = h.code /\ hashed.total = h.total
    BY <1>7 DEF Has
  <2>3. g = hashed
    BY <1>9
  <2> HIDE DEF g, tail, k, whole
  <2> QED
    BY <1>8, <2>1, <2>2, <2>3
<1>10. ASSUME tail # << >>
       PROVE  Holds(g, f, n + k) /\ g.code = h.code /\ g.total = h.total
  <2> DEFINE t == Len(tail)
  <2>1. t \in 1 .. 63 /\ t = k - whole
    <3>1. Len(tail) # 0
      BY <1>5, <1>10, EmptySeq
    <3> HIDE DEF k, whole, tail
    <3> QED
      BY <1>2, <1>3, <1>5, <3>1
  <2> HIDE DEF tail
  <2>2. IsCopy(buf, Nat, h.buf, 0, tail)
    BY <1>1, <1>5, CopyIntoIs
  <2>3. buf \in Seq(Nat) /\ Len(buf) = 64
    BY <1>1, <2>2 DEF IsCopy
  <2> HIDE DEF buf
  <2>4. Has(filled, h.code, bs, buf, t, h.total)
    <3>1. t \in Nat
      BY <2>1
    <3> HIDE DEF t
    <3>2. Has([hashed EXCEPT !.buf = buf, !.len = t], h.code, bs, buf, t, h.total)
      BY <1>7, <2>3, <3>1, SetBufLen, ZenonT(60)
    <3> QED
      BY <3>2 DEF t
  <2> HIDE DEF filled, whole
  <2>5. hashed.len = 0 /\ hashed.blocks = bs /\ hashed.buf = h.buf
    <3>1. h.len = 0
      <4>1. h.len = 0 \/ k = 0
        OBVIOUS
      <4> HIDE DEF k, t
      <4> QED
        BY <1>2, <1>3, <2>1, <4>1
    <3> QED
      BY <1>7, <3>1 DEF Has
  <2>6. /\ filled \in Hashers /\ filled.code = h.code /\ filled.blocks = bs /\ filled.buf = buf
        /\ filled.len = t /\ filled.total = h.total
    BY <2>4 DEF Has
  <2>7. 0 + t < 64 /\ 0 + t = t
    <3>1. t \in 1 .. 63
      BY <2>1
    <3> HIDE DEF k, t
    <3> QED
      BY <3>1
  <2>8. Filled(filled, hashed, tail)
    BY <2>5, <2>6, <2>7 DEF Filled, buf
  <2>9. Holds(filled, f, n + whole + t)
    <3>1. hashed.len + Len(tail) <= 64
      BY <2>5, <2>7
    <3> QED
      BY <1>5, <1>8, <2>3, <2>6, <2>8, <3>1, FilledHolds
  <2>10. n + whole + t = n + k
    <3> HIDE DEF k, t
    <3> QED
      BY <1>1, <1>2, <1>3, <2>1
  <2>11. g = filled
    BY <1>10, <2>5 DEF filled, buf
  <2> HIDE DEF g, k, t
  <2> QED
    BY <2>6, <2>9, <2>10, <2>11
<1>11. Holds(g, f, n + k) /\ g.code = h.code /\ g.total = h.total
  BY <1>9, <1>10
<1> QED
  BY <1>11 DEF hashed, first, AfterRest

\* The buffer is filled first, and hashed when it is full; then the rest.
LEMMA UpdateRustHolds ==
  ASSUME NEW h, NEW f, NEW n, HoldsRust(h, f, n),
         NEW data \in Seq(Nat), Continues(data, f, n)
  PROVE  /\ HoldsRust(UpdateRust(h, data), f, n + Len(data))
         /\ UpdateRust(h, data).code = h.code
<1> DEFINE k == Len(data)
           l == h.len
           take == IF l > 0 THEN Least(64 - l, k) ELSE 0
           part == SubSeq(data, 1, take)
           buf == CopyInto(h.buf, l, part)
           sum == l + take
           t == h.total + k
           topped == [h EXCEPT !.buf = buf, !.len = sum, !.total = t]
           opened == IF topped.len = 64 THEN [Compress(topped, topped.buf) EXCEPT !.len = 0] ELSE topped
           rest == Drop(data, take)
           g == AfterRest(opened, rest)
<1>1. /\ Holds(h, f, n) /\ h \in Hashers /\ n \in Nat /\ h.total = n
      /\ Len(h.buf) = 64 /\ h.buf \in Seq(Nat) /\ l \in 0 .. 63 /\ l \in Nat
  BY DEF HoldsRust, Holds, Hashers
<1>2. k \in Nat
  BY LenProperties
<1>3. g = UpdateRust(h, data)
  BY DEF UpdateRust, AfterRest
<1> HIDE DEF k, l
<1>4. /\ take \in 0 .. k /\ sum \in Nat /\ sum <= 64 /\ t = n + k /\ t \in Nat
      /\ take = k \/ sum = 64 \/ (l = 0 /\ take = 0)
  BY <1>1, <1>2 DEF Least
<1> HIDE DEF take
<1>5. part \in Seq(Nat) /\ Len(part) = take /\ Continues(part, f, n)
  <2>0. n \in Nat
    BY <1>1
  <2>1. 0 \in 0 .. Len(data) /\ take \in 0 .. Len(data) /\ 0 + 1 = 1 /\ take - 0 = take /\ n + 0 = n
    BY <1>1, <1>2, <1>4 DEF k
  <2>2. /\ SubSeq(data, 0 + 1, take) \in Seq(Nat) /\ Len(SubSeq(data, 0 + 1, take)) = take - 0
        /\ Continues(SubSeq(data, 0 + 1, take), f, n + 0)
    BY <2>0, <2>1, PartContinues
  <2> QED
    BY <2>1, <2>2
<1>6. rest \in Seq(Nat) /\ Len(rest) = k - take /\ Continues(rest, f, n + take)
  <2>0. n \in Nat
    BY <1>1
  <2>1. take \in 0 .. Len(data) /\ Len(data) \in take .. Len(data)
    BY <1>2, <1>4 DEF k
  <2> QED
    BY <2>0, <2>1, PartContinues DEF Drop, k
<1> HIDE DEF part, rest
<1>7. buf \in Seq(Nat) /\ Len(buf) = 64
  <2>1. IsCopy(buf, Nat, h.buf, l, part)
    BY <1>1, <1>5, CopyIntoIs
  <2> QED
    BY <1>1, <2>1 DEF IsCopy
<1> HIDE DEF buf, sum, t
<1>8. Has(topped, h.code, h.blocks, buf, sum, t)
  <2>1. Has(h, h.code, h.blocks, h.buf, h.len, h.total)
    BY <1>1, HashersHave
  <2> QED
    BY <1>4, <1>7, <2>1, SetBufLenTotal, ZenonT(60)
<1> HIDE DEF topped
<1>9. topped.len = sum /\ topped.buf = buf
  BY <1>8 DEF Has
<1>10. /\ opened \in Hashers /\ Len(opened.buf) = 64 /\ Filled(opened, h, part)
       /\ opened.code = h.code /\ opened.total = t
       /\ opened.len = 0 \/ Len(rest) = 0
  <2>1. ASSUME sum = 64
        PROVE  Has(opened, h.code, h.blocks \o buf, buf, 0, t)
    <3> DEFINE c == Compress(topped, buf)
    <3>1. Has(c, h.code, h.blocks \o buf, buf, sum, t)
      BY <1>7, <1>8, CompressHas
    <3>2. 0 \in Nat
      OBVIOUS
    <3> HIDE DEF c
    <3>3. Has([c EXCEPT !.len = 0], h.code, h.blocks \o buf, buf, 0, t)
      BY <3>1, <3>2, SetLen
    <3>4. opened = [c EXCEPT !.len = 0]
      BY <1>9, <2>1 DEF c
    <3> QED
      BY <3>3, <3>4
  <2>2. ASSUME sum # 64
        PROVE  Has(opened, h.code, h.blocks, buf, sum, t)
    <3>1. opened = topped
      BY <1>9, <2>2
    <3> QED
      BY <1>8, <3>1
  <2> HIDE DEF opened
  <2>3. CASE sum = 64
    <3>1. /\ opened \in Hashers /\ opened.code = h.code /\ opened.blocks = h.blocks \o buf
          /\ opened.buf = buf /\ opened.len = 0 /\ opened.total = t
      BY <2>1, <2>3 DEF Has
    <3>2. h.len + Len(part) = 64
      BY <1>5, <2>3 DEF sum, l
    <3>3. Filled(opened, h, part)
      BY <3>1, <3>2, Zenon DEF Filled, buf, l
    <3> QED
      BY <1>7, <3>1, <3>3
  <2>4. CASE sum # 64
    <3>1. /\ opened \in Hashers /\ opened.code = h.code /\ opened.blocks = h.blocks
          /\ opened.buf = buf /\ opened.len = sum /\ opened.total = t
      BY <2>2, <2>4 DEF Has
    <3>2. sum < 64
      BY <1>4, <2>4
    <3>3. Filled(opened, h, part)
      BY <1>5, <3>1, <3>2, Zenon DEF Filled, buf, l, sum
    <3>4. sum = 0 \/ Len(rest) = 0
      BY <1>1, <1>2, <1>4, <1>6, <2>4 DEF sum
    <3> QED
      BY <1>7, <3>1, <3>3, <3>4
  <2> QED
    BY <2>3, <2>4
<1> HIDE DEF opened
<1>11. Holds(opened, f, n + take)
  <2>1. h.len + Len(part) <= 64
    BY <1>4, <1>5 DEF sum, l
  <2>2. Holds(opened, f, n + Len(part))
    BY <1>1, <1>5, <1>10, <2>1, FilledHolds
  <2> QED
    BY <1>5, <2>2
<1>12. Holds(g, f, (n + take) + Len(rest)) /\ g.code = opened.code /\ g.total = opened.total
  BY <1>6, <1>10, <1>11, RestHolds
<1>13. (n + take) + Len(rest) = n + k
  BY <1>1, <1>2, <1>4, <1>6
<1> HIDE DEF g
<1> QED
  BY <1>3, <1>4, <1>10, <1>12, <1>13 DEF HoldsRust, k

LEMMA HoldsSame ==
  ASSUME NEW h, NEW f, NEW n, Holds(h, f, n), NEW e, \A u \in 1 .. n : e[u] = f[u]
  PROVE  Holds(h, e, n)
<1> DEFINE m == Len(h.blocks)
           l == h.len
<1>1. /\ h.blocks \in Seq(Nat) /\ n \in Nat /\ l \in 0 .. 63 /\ m + l = n
      /\ \A u \in 1 .. m : h.blocks[u] = f[u]
      /\ \A u \in 1 .. l : h.buf[u] = f[m + u]
  BY DEF Holds, Hashers
<1>2. m \in Nat
  BY <1>1, LenProperties
<1> HIDE DEF m, l
<1>3. (\A u \in 1 .. m : u \in 1 .. n) /\ \A u \in 1 .. l : m + u \in 1 .. n
  BY <1>1, <1>2
<1>4. (\A u \in 1 .. m : h.blocks[u] = e[u]) /\ \A u \in 1 .. l : h.buf[u] = e[m + u]
  BY <1>1, <1>3
<1> QED
  BY <1>4 DEF Holds, m, l

-----------------------------------------------------------------------------
(* The padding.                                                            *)

LEMMA BigEndianIs ==
  ASSUME NEW n \in Nat
  PROVE  BigEndian(n) \in Seq(Nat) /\ Len(BigEndian(n)) = 8
<1> DEFINE high == n \div 16777216
<1>1. \A k \in Nat : \A d \in Nat \ {0} : k \div d \in Nat
  OBVIOUS
<1>2. \A k \in Nat : k % 256 \in Nat
  OBVIOUS
<1>3. high \in Nat
  BY <1>1, SMT
<1> HIDE DEF high
<1>4. /\ high \div 16777216 \in Nat /\ high \div 65536 \in Nat /\ high \div 256 \in Nat
      /\ n \div 65536 \in Nat /\ n \div 256 \in Nat
  BY <1>1, <1>3, SMT
<1>5. (high \div 16777216) \div 256 \in Nat
  BY <1>1, <1>4, SMT
<1>6. /\ ((high \div 16777216) \div 256) % 256 \in Nat /\ (high \div 16777216) % 256 \in Nat
      /\ (high \div 65536) % 256 \in Nat /\ (high \div 256) % 256 \in Nat /\ high % 256 \in Nat
      /\ (n \div 65536) % 256 \in Nat /\ (n \div 256) % 256 \in Nat /\ n % 256 \in Nat
  BY <1>2, <1>3, <1>4, <1>5, SMT
<1>7. BigEndian(n) =
        <<((high \div 16777216) \div 256) % 256, (high \div 16777216) % 256,
          (high \div 65536) % 256, (high \div 256) % 256, high % 256,
          (n \div 65536) % 256, (n \div 256) % 256, n % 256>>
  BY DEF BigEndian, high
<1> QED
  BY <1>6, <1>7, SMT

\* The parts of the padded message: z zeros bring it to a block's 56th byte.
PaddedParts(p, m, z) ==
  /\ p \in Seq(Nat) /\ Len(p) = Len(m) + 1 + z + 8
  /\ \A u \in 1 .. Len(m) : p[u] = m[u]
  /\ Continues(<<128>>, p, Len(m))
  /\ \A u \in 1 .. z : p[Len(m) + 1 + u] = 0
  /\ Continues(BigEndian(8 * Len(m)), p, Len(m) + 1 + z)

LEMMA ConcatParts ==
  ASSUME NEW a \in Seq(Nat), NEW b \in Seq(Nat)
  PROVE  /\ a \o b \in Seq(Nat) /\ Len(a \o b) = Len(a) + Len(b)
         /\ \A u \in 1 .. Len(a) : (a \o b)[u] = a[u]
         /\ Continues(b, a \o b, Len(a))
<1>1. Len(a \o b) = Len(a) + Len(b) /\ a \o b \in Seq(Nat)
  BY ConcatProperties
<1>2. \A u \in 1 .. Len(a) + Len(b) : (a \o b)[u] = IF u <= Len(a) THEN a[u] ELSE b[u - Len(a)]
  BY <1>1, ConcatProperties
<1> DEFINE m == Len(a)
           k == Len(b)
           ab == a \o b
<1>3. m \in Nat /\ k \in Nat
  BY LenProperties
<1>4. \A u \in 1 .. m + k : ab[u] = IF u <= m THEN a[u] ELSE b[u - m]
  BY <1>2
<1> HIDE DEF m, k, ab
<1>5. \A u \in 1 .. m : u \in 1 .. m + k /\ u <= m
  BY <1>3
<1>6. \A u \in 1 .. k : m + u \in 1 .. m + k /\ ~ (m + u <= m) /\ (m + u) - m = u
  BY <1>3
<1>7. \A u \in 1 .. m : ab[u] = a[u]
  BY <1>4, <1>5
<1>8. \A u \in 1 .. k : ab[m + u] = b[u]
  BY <1>4, <1>6
<1> QED
  BY <1>1, <1>7, <1>8 DEF Continues, m, k, ab

LEMMA PaddedIs ==
  ASSUME NEW m \in Seq(Nat), NEW z \in 0 .. 63, NEW q \in Nat, Len(m) + 1 + z = 64 * q + 56
  PROVE  PaddedParts(Padded(m), m, z)
<1> DEFINE n == Len(m)
           zeros == CHOOSE k \in 0 .. 63 : (n + 1 + k) % 64 = 56
           mark == <<128>>
           bits == BigEndian(8 * n)
           p1 == m \o mark
           p2 == p1 \o Zeros(z)
           p == p2 \o bits
<1>1. n \in Nat /\ 8 * n \in Nat /\ z \in Nat /\ n + 1 + z = 64 * q + 56
  <2>1. n \in Nat
    BY LenProperties
  <2> HIDE DEF n
  <2>2. 8 * n \in Nat /\ z \in Nat
    BY <2>1
  <2> QED
    BY <2>1, <2>2 DEF n
<1>2. zeros = z
  <2> HIDE DEF n
  <2>1. (n + 1 + z) % 64 = 56
    BY <1>1
  <2>2. ASSUME NEW k \in 0 .. 63, (n + 1 + k) % 64 = 56
        PROVE  k = z
    <3> DEFINE c == (n + 1 + k) \div 64
    <3>1. c \in Int /\ n + 1 + k = 64 * c + 56
      BY <1>1, <2>2
    <3> HIDE DEF c
    <3> DEFINE e == c - q
    <3>2. e \in Int /\ k - z = 64 * e
      BY <1>1, <3>1
    <3> HIDE DEF e
    <3>3. k \in 0 .. 63 /\ z \in 0 .. 63 /\ z \in Int
      BY <1>1
    <3>4. e = 0
      BY <3>2, <3>3
    <3> QED
      BY <3>2, <3>3, <3>4
  <2> QED
    BY <2>1, <2>2
<1>3. Padded(m) = p
  BY <1>2 DEF Padded
<1>4. mark \in Seq(Nat) /\ Len(mark) = 1
  OBVIOUS
<1>5. Zeros(z) \in Seq(Nat) /\ Len(Zeros(z)) = z /\ \A u \in 1 .. z : Zeros(z)[u] = 0
  BY <1>1, ZerosAre
<1>6. bits \in Seq(Nat) /\ Len(bits) = 8
  <2> HIDE DEF n
  <2> QED
    BY <1>1, BigEndianIs
<1> HIDE DEF mark, bits
<1>7. /\ p1 \in Seq(Nat) /\ Len(p1) = n + 1
      /\ (\A u \in 1 .. n : p1[u] = m[u]) /\ Continues(mark, p1, n)
  <2>1. /\ p1 \in Seq(Nat) /\ Len(p1) = Len(m) + Len(mark)
        /\ (\A u \in 1 .. Len(m) : p1[u] = m[u]) /\ Continues(mark, p1, Len(m))
    BY <1>4, ConcatParts
  <2> QED
    BY <1>4, <2>1
<1> HIDE DEF p1, n
<1>8. /\ p2 \in Seq(Nat) /\ Len(p2) = n + 1 + z
      /\ (\A u \in 1 .. n + 1 : p2[u] = p1[u]) /\ Continues(Zeros(z), p2, n + 1)
  <2>1. /\ p2 \in Seq(Nat) /\ Len(p2) = Len(p1) + Len(Zeros(z))
        /\ (\A u \in 1 .. Len(p1) : p2[u] = p1[u]) /\ Continues(Zeros(z), p2, Len(p1))
    BY <1>5, <1>7, ConcatParts
  <2> QED
    BY <1>5, <1>7, <2>1
<1> HIDE DEF p2
<1>9. /\ p \in Seq(Nat) /\ Len(p) = n + 1 + z + 8
      /\ (\A u \in 1 .. n + 1 + z : p[u] = p2[u]) /\ Continues(bits, p, n + 1 + z)
  <2>1. /\ p \in Seq(Nat) /\ Len(p) = Len(p2) + Len(bits)
        /\ (\A u \in 1 .. Len(p2) : p[u] = p2[u]) /\ Continues(bits, p, Len(p2))
    BY <1>6, <1>8, ConcatParts
  <2> QED
    BY <1>6, <1>8, <2>1
<1> HIDE DEF p
<1>10. \A u \in 1 .. n : u \in 1 .. n + 1 /\ u \in 1 .. n + 1 + z
  BY <1>1
<1>11. \A u \in 1 .. n : p[u] = m[u]
  BY <1>7, <1>8, <1>9, <1>10
<1>12. Continues(mark, p, n)
  <2>1. \A u \in 1 .. 1 : n + u \in 1 .. n + 1 /\ n + u \in 1 .. n + 1 + z
    BY <1>1
  <2>2. \A u \in 1 .. 1 : mark[u] = p1[n + u]
    BY <1>4, <1>7 DEF Continues
  <2> QED
    BY <1>4, <1>8, <1>9, <2>1, <2>2 DEF Continues
<1>13. \A u \in 1 .. z : p[n + 1 + u] = 0
  <2>1. \A u \in 1 .. z : n + 1 + u \in 1 .. n + 1 + z
    BY <1>1
  <2>2. \A u \in 1 .. z : Zeros(z)[u] = p2[n + 1 + u]
    BY <1>5, <1>8 DEF Continues
  <2> QED
    BY <1>5, <1>9, <2>1, <2>2
<1> QED
  BY <1>3, <1>9, <1>11, <1>12, <1>13 DEF PaddedParts, n, mark, bits

\* When everything but the length has been put, the last block completes it.
LEMMA LastHolds ==
  ASSUME NEW h, NEW m \in Seq(Nat), NEW z \in 0 .. 63, NEW p, PaddedParts(p, m, z),
         Holds(h, p, Len(m) + 1 + z), h.len = 56
  PROVE  h.blocks \o CopyInto(h.buf, 56, BigEndian(8 * Len(m))) = p
<1> DEFINE n == Len(m)
           bits == BigEndian(8 * n)
           buf == CopyInto(h.buf, 56, bits)
           g == [h EXCEPT !.blocks = h.blocks \o buf, !.len = 0]
<1>1. n \in Nat
  BY LenProperties
<1>2. bits \in Seq(Nat) /\ Len(bits) = 8
  <2> HIDE DEF n
  <2>1. 8 * n \in Nat
    BY <1>1
  <2> QED
    BY <2>1, BigEndianIs
<1>3. Continues(bits, p, n + 1 + z) /\ p \in Seq(Nat) /\ Len(p) = (n + 1 + z) + 8
  BY DEF PaddedParts
<1>4. Holds(h, p, n + 1 + z) /\ h.len = 56
  OBVIOUS
<1>5. h \in Hashers /\ h.blocks \in Seq(Nat) /\ h.buf \in Seq(Nat) /\ Len(h.buf) = 64
  BY <1>4 DEF Holds, Hashers
<1> HIDE DEF bits
<1>6. buf \in Seq(Nat)
  <2>1. IsCopy(buf, Nat, h.buf, 56, bits)
    BY <1>2, <1>5, CopyIntoIs
  <2> QED
    BY <2>1 DEF IsCopy
<1>7. h.blocks \o buf \in Seq(Nat)
  <2> HIDE DEF buf
  <2> QED
    BY <1>5, <1>6, ConcatProperties
<1>8. g \in Hashers /\ g.blocks = h.blocks \o buf /\ g.len = 0 /\ g.buf = h.buf
  <2> DEFINE bs == h.blocks \o buf
  <2> HIDE DEF bs
  <2>1. bs \in Seq(Nat)
    BY <1>7 DEF bs
  <2>2. [h EXCEPT !.blocks = bs, !.len = 0] \in Hashers
    BY <1>5, <2>1 DEF Hashers
  <2> QED
    BY <1>5, <2>1, <2>2 DEF bs, Hashers
<1> HIDE DEF g, buf, n
<1>9. Holds(g, p, (n + 1 + z) + 8)
  <2>1. h.len + Len(bits) = 64 /\ h.len + Len(bits) <= 64
    BY <1>2, <1>4
  <2>2. Filled(g, h, bits)
    BY <1>4, <1>8, <2>1 DEF Filled, buf
  <2>3. Len(g.buf) = 64
    BY <1>5, <1>8
  <2>4. Holds(g, p, (n + 1 + z) + Len(bits))
    BY <1>2, <1>3, <1>4, <1>8, <2>1, <2>2, <2>3, FilledHolds
  <2> QED
    BY <1>2, <2>4
<1>10. /\ Len(g.blocks) + 0 = Len(p)
       /\ \A u \in 1 .. Len(g.blocks) : g.blocks[u] = p[u]
  BY <1>3, <1>8, <1>9 DEF Holds
<1>11. g.blocks \in Seq(Nat)
  BY <1>7, <1>8
<1>12. Len(g.blocks) = Len(p)
  BY <1>10, <1>11, LenProperties
<1>13. g.blocks = p
  BY <1>3, <1>10, <1>11, <1>12, SeqEqual
<1> QED
  BY <1>8, <1>13 DEF buf, bits, n

LEMMA ZerosContinue ==
  ASSUME NEW m \in Seq(Nat), NEW z \in 0 .. 63, NEW p, PaddedParts(p, m, z),
         NEW j \in 0 .. z, NEW w \in 0 .. z - j
  PROVE  Continues(Zeros(w), p, Len(m) + 1 + j)
<1> DEFINE n == Len(m)
<1>1. n \in Nat
  BY LenProperties
<1>2. \A u \in 1 .. z : p[n + 1 + u] = 0
  BY DEF PaddedParts
<1>3. Len(Zeros(w)) = w /\ \A u \in 1 .. w : Zeros(w)[u] = 0
  BY ZerosAre
<1> HIDE DEF n
<1>4. \A u \in 1 .. w : j + u \in 1 .. z /\ n + 1 + (j + u) = (n + 1 + j) + u
  BY <1>1
<1>5. \A u \in 1 .. w : p[(n + 1 + j) + u] = 0
  BY <1>2, <1>4
<1> QED
  BY <1>3, <1>5 DEF Continues, n

MarkAnd(j) == <<128>> \o Zeros(j)

IsMarked(s, j, p, n) == s \in Seq(Nat) /\ Len(s) = 1 + j /\ Continues(s, p, n)

LEMMA MarkContinues ==
  ASSUME NEW m \in Seq(Nat), NEW z \in 0 .. 63, NEW p, PaddedParts(p, m, z), NEW j \in 0 .. z
  PROVE  IsMarked(MarkAnd(j), j, p, Len(m))
<1> DEFINE n == Len(m)
           mark == <<128>>
           s == mark \o Zeros(j)
<1>1. n \in Nat
  BY LenProperties
<1>2. mark \in Seq(Nat) /\ Len(mark) = 1
  OBVIOUS
<1>3. Continues(mark, p, n)
  BY DEF PaddedParts
<1> HIDE DEF mark
<1>4. Zeros(j) \in Seq(Nat) /\ Len(Zeros(j)) = j /\ j \in Nat
  BY ZerosAre
<1>5. Continues(Zeros(j), p, n + 1)
  <2>1. 0 \in 0 .. z /\ j \in 0 .. z - 0
    OBVIOUS
  <2>2. Continues(Zeros(j), p, Len(m) + 1 + 0)
    BY <2>1, ZerosContinue
  <2>3. n + 1 + 0 = n + 1
    BY <1>1
  <2> QED
    BY <2>2, <2>3
<1>6. /\ s \in Seq(Nat) /\ Len(s) = Len(mark) + Len(Zeros(j))
      /\ (\A u \in 1 .. Len(mark) : s[u] = mark[u]) /\ Continues(Zeros(j), s, Len(mark))
  BY <1>2, <1>4, ConcatParts
<1> HIDE DEF s, n
<1>7. Len(s) = 1 + j
  BY <1>2, <1>4, <1>6
<1>8. ASSUME NEW u \in 1 .. 1 + j PROVE s[u] = p[n + u]
  <2>1. CASE u = 1
    <3>1. 1 \in 1 .. Len(mark)
      BY <1>2
    <3>2. mark[1] = p[n + 1]
      BY <1>3, <3>1 DEF Continues
    <3> QED
      BY <1>6, <2>1, <3>1, <3>2
  <2>2. CASE u # 1
    <3>1. u - 1 \in 1 .. j /\ 1 + (u - 1) = u /\ (n + 1) + (u - 1) = n + u
      BY <1>1, <1>4, <2>2
    <3>2. Zeros(j)[u - 1] = s[1 + (u - 1)]
      BY <1>2, <1>4, <1>6, <3>1 DEF Continues
    <3>3. Zeros(j)[u - 1] = p[(n + 1) + (u - 1)]
      BY <1>4, <1>5, <3>1 DEF Continues
    <3> QED
      BY <3>1, <3>2, <3>3
  <2> QED
    BY <2>1, <2>2
<1>9. Continues(s, p, n)
  BY <1>7, <1>8 DEF Continues
<1>10. IsMarked(s, j, p, n)
  BY <1>6, <1>7, <1>9 DEF IsMarked
<1> QED
  BY <1>10 DEF s, mark, n, MarkAnd

LEMMA CompressBlocks ==
  ASSUME NEW h \in Hashers, NEW block
  PROVE  Compress(h, block).blocks = h.blocks \o block
BY DEF Compress, Hashers

LEMMA SetBuf ==
  ASSUME NEW h \in Hashers, NEW b \in Seq(Nat)
  PROVE  LET g == [h EXCEPT !.buf = b]
         IN  g \in Hashers /\ g.buf = b /\ g.blocks = h.blocks
BY DEF Hashers

\* Where verify3 puts the mark, the zeros and the length.
LEMMA FinalizeCIs ==
  ASSUME NEW h, NEW m \in Seq(Nat), HoldsC(h, m, Len(m))
  PROVE  FinalizeC(h) = Padded(m)
<1> DEFINE n == Len(m)
           l == h.len
           p == Padded(m)
           bits == h.total + 8 * l
           length == BigEndian(8 * n)
<1>1. /\ Holds(h, m, n) /\ h \in Hashers /\ l \in 0 .. 63 /\ l \in Nat
      /\ h.buf \in Seq(Nat) /\ Len(h.buf) = 64 /\ h.blocks \in Seq(Nat)
  BY DEF HoldsC, Holds, Hashers
<1>0. Has(h, h.code, h.blocks, h.buf, h.len, h.total)
  BY <1>1, HashersHave
<1>2. n \in Nat
  BY LenProperties
<1>3. PICK b \in Nat : Len(h.blocks) = 64 * b
  BY <1>1 DEF Holds
<1>4. 64 * b + l = n /\ h.total = 8 * (64 * b)
  BY <1>1, <1>3 DEF Holds, HoldsC
<1> HIDE DEF n, l
<1>5. bits = 8 * n
  BY <1>1, <1>2, <1>4
<1> HIDE DEF bits, p
<1>6. CASE l < 56
  <2> DEFINE z == 55 - l
             data == MarkAnd(z)
             marked == CopyInto(h.buf, l, data)
             room == [h EXCEPT !.buf = marked, !.len = 56]
             kept == [h EXCEPT !.buf = marked]
  <2>1. z \in 0 .. 63 /\ 56 - l - 1 = z /\ n + 1 + z = 64 * b + 56
        /\ l + (1 + z) = 56 /\ n + (1 + z) = n + 1 + z
    BY <1>1, <1>2, <1>4, <1>6
  <2> HIDE DEF z
  <2>2. PaddedParts(p, m, z)
    BY <2>1, PaddedIs DEF p, n
  <2>3. Holds(h, p, n)
    <3>1. \A u \in 1 .. n : p[u] = m[u]
      BY <2>2 DEF PaddedParts, n
    <3> QED
      BY <1>1, <3>1, HoldsSame
  <2>4. data \in Seq(Nat) /\ Len(data) = 1 + z /\ Continues(data, p, n)
    <3>1. z \in 0 .. z
      BY <2>1
    <3>2. IsMarked(data, z, p, n)
      BY <2>1, <2>2, <3>1, MarkContinues, Zenon DEF n
    <3> HIDE DEF data
    <3> QED
      BY <3>2 DEF IsMarked
  <2> HIDE DEF data
  <2>5. marked \in Seq(Nat) /\ Len(marked) = 64
    <3>1. IsCopy(marked, Nat, h.buf, l, data)
      BY <1>1, <2>4, CopyIntoIs
    <3> QED
      BY <1>1, <3>1 DEF IsCopy
  <2> HIDE DEF marked
  <2>6. Has(room, h.code, h.blocks, marked, 56, h.total)
    <3>1. 56 \in Nat
      OBVIOUS
    <3> QED
      BY <1>0, <2>5, <3>1, SetBufLen, ZenonT(60)
  <2> HIDE DEF room
  <2>7. room \in Hashers /\ room.blocks = h.blocks /\ room.buf = marked /\ room.len = 56
    BY <2>6 DEF Has
  <2>8. Holds(room, p, n + (1 + z))
    <3>1. h.len + Len(data) <= 64 /\ h.len + Len(data) = 56 /\ h.len + Len(data) < 64
      BY <2>1, <2>4 DEF l
    <3>2. Filled(room, h, data)
      BY <2>7, <3>1, Zenon DEF Filled, marked, l
    <3>3. Len(room.buf) = 64
      BY <2>5, <2>7
    <3>4. Holds(room, p, n + Len(data))
      BY <2>3, <2>4, <2>7, <3>1, <3>2, <3>3, FilledHolds
    <3> QED
      BY <2>4, <3>4
  <2>9. room.blocks \o CopyInto(room.buf, 56, length) = p
    BY <2>1, <2>2, <2>7, <2>8, LastHolds DEF n
  <2>10. FinalizeC(h) = Compress(kept, CopyInto(kept.buf, 56, length)).blocks
    BY <1>5, <1>6, <2>1 DEF FinalizeC, marked, data, l, bits, MarkAnd
  <2>11. kept \in Hashers /\ kept.buf = marked /\ kept.blocks = h.blocks
    BY <1>1, <2>5, SetBuf
  <2> HIDE DEF kept, length
  <2>12. FinalizeC(h) = h.blocks \o CopyInto(marked, 56, length)
    BY <2>10, <2>11, CompressBlocks
  <2> QED
    BY <2>7, <2>9, <2>12 DEF p
<1>7. CASE ~ (l < 56)
  <2> DEFINE z == 119 - l
             j == 63 - l
             data == MarkAnd(j)
             marked == CopyInto(h.buf, l, data)
             opened == Compress(h, marked)
             emptied == [opened EXCEPT !.buf = marked, !.len = 0]
             zeroed == CopyInto(marked, 0, Zeros(56))
             room == [emptied EXCEPT !.buf = zeroed, !.len = 56]
             kept == [opened EXCEPT !.buf = zeroed]
  <2>1. z \in 0 .. 63 /\ j \in 0 .. z /\ 56 \in 0 .. z - j /\ 64 - l - 1 = j
        /\ n + 1 + z = 64 * (b + 1) + 56 /\ b + 1 \in Nat
        /\ l + (1 + j) = 64 /\ n + (1 + j) = n + 1 + j /\ (n + 1 + j) + 56 = n + 1 + z
    BY <1>1, <1>2, <1>3, <1>4, <1>7
  <2> HIDE DEF z, j
  <2>2. PaddedParts(p, m, z)
    BY <2>1, PaddedIs DEF p, n
  <2>3. Holds(h, p, n)
    <3>1. \A u \in 1 .. n : p[u] = m[u]
      BY <2>2 DEF PaddedParts, n
    <3> QED
      BY <1>1, <3>1, HoldsSame
  <2>4. data \in Seq(Nat) /\ Len(data) = 1 + j /\ Continues(data, p, n)
    <3>1. IsMarked(data, j, p, n)
      BY <2>1, <2>2, MarkContinues, Zenon DEF n
    <3> HIDE DEF data
    <3> QED
      BY <3>1 DEF IsMarked
  <2> HIDE DEF data
  <2>5. marked \in Seq(Nat) /\ Len(marked) = 64
    <3>1. IsCopy(marked, Nat, h.buf, l, data)
      BY <1>1, <2>4, CopyIntoIs
    <3> QED
      BY <1>1, <3>1 DEF IsCopy
  <2> HIDE DEF marked
  <2>6. Has(opened, h.code, h.blocks \o marked, h.buf, h.len, h.total)
    BY <1>0, <2>5, CompressHas
  <2> HIDE DEF opened
  <2>7. Has(emptied, h.code, h.blocks \o marked, marked, 0, h.total)
    <3>1. 0 \in Nat
      OBVIOUS
    <3> QED
      BY <2>5, <2>6, <3>1, SetBufLen, ZenonT(60)
  <2> HIDE DEF emptied
  <2>8. /\ emptied \in Hashers /\ emptied.blocks = h.blocks \o marked /\ emptied.buf = marked
        /\ emptied.len = 0
    BY <2>7 DEF Has
  <2>9. Holds(emptied, p, n + (1 + j))
    <3>1. h.len + Len(data) <= 64 /\ h.len + Len(data) = 64
      BY <2>1, <2>4 DEF l
    <3>2. Filled(emptied, h, data)
      BY <2>8, <3>1, Zenon DEF Filled, marked, l
    <3>3. Len(emptied.buf) = 64
      BY <2>5, <2>8
    <3>4. Holds(emptied, p, n + Len(data))
      BY <2>3, <2>4, <2>8, <3>1, <3>2, <3>3, FilledHolds
    <3> QED
      BY <2>4, <3>4
  <2>10. Zeros(56) \in Seq(Nat) /\ Len(Zeros(56)) = 56 /\ Continues(Zeros(56), p, n + 1 + j)
    <3>1. 56 \in Nat
      OBVIOUS
    <3>2. Zeros(56) \in Seq(Nat) /\ Len(Zeros(56)) = 56
      BY <3>1, ZerosAre
    <3> QED
      BY <2>1, <2>2, <3>2, ZerosContinue DEF n
  <2>11. zeroed \in Seq(Nat) /\ Len(zeroed) = 64
    <3>1. 0 \in Nat
      OBVIOUS
    <3>2. IsCopy(zeroed, Nat, marked, 0, Zeros(56))
      BY <2>5, <2>10, <3>1, CopyIntoIs
    <3> QED
      BY <2>5, <3>2 DEF IsCopy
  <2> HIDE DEF zeroed
  <2>12. Has(room, h.code, h.blocks \o marked, zeroed, 56, h.total)
    <3> DEFINE bs == h.blocks \o marked
    <3>1. 56 \in Nat /\ zeroed \in Seq(Nat) /\ Has(emptied, h.code, bs, marked, 0, h.total)
      BY <2>7, <2>11
    <3> HIDE DEF bs
    <3>2. Has([emptied EXCEPT !.buf = zeroed, !.len = 56], h.code, bs, zeroed, 56, h.total)
      BY <3>1, SetBufLen, ZenonT(60)
    <3> QED
      BY <3>2 DEF bs
  <2> HIDE DEF room
  <2>13. room \in Hashers /\ room.blocks = h.blocks \o marked /\ room.buf = zeroed /\ room.len = 56
    BY <2>12 DEF Has
  <2>14. Holds(room, p, n + 1 + z)
    <3>1. /\ emptied.len + Len(Zeros(56)) <= 64 /\ emptied.len + Len(Zeros(56)) = 56
          /\ emptied.len + Len(Zeros(56)) < 64
      <4>1. emptied.len = 0 /\ Len(Zeros(56)) = 56
        BY <2>8, <2>10
      <4>2. 0 + 56 <= 64 /\ 0 + 56 = 56 /\ 0 + 56 < 64
        OBVIOUS
      <4> QED
        BY <4>1, <4>2, Zenon
    <3>2. Filled(room, emptied, Zeros(56))
      BY <2>8, <2>13, <3>1, Zenon DEF Filled, zeroed
    <3>3. Len(room.buf) = 64
      BY <2>11, <2>13
    <3>4. Holds(emptied, p, n + 1 + j)
      BY <2>1, <2>9
    <3>5. Holds(room, p, (n + 1 + j) + Len(Zeros(56)))
      BY <2>10, <2>13, <3>1, <3>2, <3>3, <3>4, FilledHolds
    <3> QED
      BY <2>1, <2>10, <3>5
  <2>15. room.blocks \o CopyInto(room.buf, 56, length) = p
    BY <2>1, <2>2, <2>13, <2>14, LastHolds DEF n
  <2>16. FinalizeC(h) = Compress(kept, CopyInto(kept.buf, 56, length)).blocks
    BY <1>5, <1>7, <2>1 DEF FinalizeC, zeroed, opened, marked, data, l, bits, MarkAnd
  <2>17. kept \in Hashers /\ kept.buf = zeroed /\ kept.blocks = h.blocks \o marked
    <3>1. opened \in Hashers /\ opened.blocks = h.blocks \o marked
      BY <2>6 DEF Has
    <3> QED
      BY <2>11, <3>1, SetBuf
  <2> HIDE DEF kept, length
  <2>18. FinalizeC(h) = (h.blocks \o marked) \o CopyInto(zeroed, 56, length)
    BY <2>16, <2>17, CompressBlocks
  <2> QED
    BY <2>13, <2>15, <2>18 DEF p
<1> QED
  BY <1>6, <1>7

\* Hashers that have been fed something.
Fed == {g \in Hashers : \E f, n : HoldsRust(g, f, n)}

LEMMA FedZero ==
  ASSUME NEW g \in Fed
  PROVE  UpdateRust(g, <<0>>) \in Fed
<1>1. PICK f, n : HoldsRust(g, f, n)
  BY DEF Fed
<1>2. n \in Nat /\ Holds(g, f, n)
  BY <1>1 DEF HoldsRust, Holds
<1> DEFINE e == [u \in 1 .. n + 1 |-> IF u <= n THEN f[u] ELSE 0]
           zero == <<0>>
<1>3. (\A u \in 1 .. n : e[u] = f[u]) /\ e[n + 1] = 0
  BY <1>2
<1> HIDE DEF e
<1>4. Holds(g, e, n)
  BY <1>2, <1>3, HoldsSame
<1>5. HoldsRust(g, e, n)
  BY <1>1, <1>4 DEF HoldsRust
<1>6. zero \in Seq(Nat) /\ Len(zero) = 1 /\ zero[1] = 0
  OBVIOUS
<1>7. Continues(zero, e, n)
  BY <1>3, <1>6 DEF Continues
<1> HIDE DEF zero
<1>8. HoldsRust(UpdateRust(g, zero), e, n + Len(zero))
  BY <1>5, <1>6, <1>7, UpdateRustHolds
<1>9. UpdateRust(g, zero) \in Hashers
  BY <1>8 DEF HoldsRust, Holds
<1> QED
  BY <1>8, <1>9 DEF Fed, zero

\* cis2-verify's padding stops at a block's 56th byte, which it reaches.
LEMMA FinalizeRustIs ==
  ASSUME NEW h, NEW m \in Seq(Nat), HoldsRust(h, m, Len(m))
  PROVE  FinalizeRust(h) = Padded(m)
<1> DEFINE n == Len(m)
           l == h.len
           p == Padded(m)
           z == IF l < 56 THEN 55 - l ELSE 119 - l
           mark == <<128>>
           zero == <<0>>
           first == UpdateRust(h, mark)
           After(g) == IF g.len = 56 THEN g ELSE UpdateRust(g, zero)
           step == [x \in (1 .. 63) \X Fed |-> After(x[2])]
           Solves(s) == s = [k \in 0 .. 63 |-> IF k = 0 THEN first ELSE After(s[k - 1])]
<1>1. Holds(h, m, n) /\ h.total = n /\ l \in 0 .. 63
  BY DEF HoldsRust, Holds
<1>2. n \in Nat
  BY LenProperties
<1>3. PICK b \in Nat : Len(h.blocks) = 64 * b
  BY <1>1 DEF Holds
<1>4. 64 * b + l = n
  BY <1>1, <1>3 DEF Holds
<1> HIDE DEF n, l
<1>5. PICK q \in Nat : z \in 0 .. 63 /\ n + 1 + z = 64 * q + 56
  <2>1. CASE l < 56
    <3>1. z \in 0 .. 63 /\ n + 1 + z = 64 * b + 56
      BY <1>1, <1>2, <1>4, <2>1
    <3> QED
      BY <3>1
  <2>2. CASE ~ (l < 56)
    <3>1. z \in 0 .. 63 /\ n + 1 + z = 64 * (b + 1) + 56 /\ b + 1 \in Nat
      BY <1>1, <1>2, <1>4, <2>2
    <3> QED
      BY <3>1
  <2> QED
    BY <2>1, <2>2
<1> HIDE DEF z, p
<1>6. PaddedParts(p, m, z)
  BY <1>5, PaddedIs DEF p, n
<1>7. Holds(h, p, n) /\ HoldsRust(h, p, n)
  <2>1. \A u \in 1 .. n : p[u] = m[u]
    BY <1>6 DEF PaddedParts, n
  <2>2. Holds(h, p, n)
    BY <1>1, <2>1, HoldsSame
  <2> QED
    BY <1>1, <2>2 DEF HoldsRust
<1>8. mark \in Seq(Nat) /\ Len(mark) = 1 /\ zero \in Seq(Nat) /\ Len(zero) = 1 /\ zero[1] = 0
  OBVIOUS
<1>9. Continues(mark, p, n)
  BY <1>6 DEF PaddedParts, n
<1> HIDE DEF mark, zero
<1>10. HoldsRust(first, p, n + 1)
  <2>1. HoldsRust(first, p, n + Len(mark))
    BY <1>7, <1>8, <1>9, UpdateRustHolds
  <2> QED
    BY <1>8, <2>1
<1>11. first \in Fed
  <2>1. first \in Hashers
    BY <1>10 DEF HoldsRust, Holds
  <2> QED
    BY <1>10, <2>1 DEF Fed
<1>12. \A g \in Fed : After(g) \in Fed
  BY FedZero DEF zero
<1> HIDE DEF first, After
<1>13. step \in StepTable(63, Fed)
  BY <1>12 DEF StepTable
<1>14. PICK g : Follows(g, 63, Fed, first, step)
  <2>1. 63 \in Nat
    OBVIOUS
  <2> HIDE DEF step
  <2> QED
    BY <1>11, <1>13, <2>1, RecursionExists
<1>15. Solves(g)
  <2>1. g = [k \in 0 .. 63 |-> g[k]] /\ g[0] = first
    BY <1>14 DEF Follows
  <2>2. ASSUME NEW k \in 1 .. 63 PROVE g[k] = After(g[k - 1])
    <3>1. k - 1 \in 0 .. 63
      OBVIOUS
    <3>2. g[k - 1] \in Fed /\ g[k] = step[<<k, g[k - 1]>>]
      BY <1>14, <3>1 DEF Follows
    <3>3. <<k, g[k - 1]>> \in (1 .. 63) \X Fed
      BY <3>2
    <3> QED
      BY <3>2, <3>3
  <2>3. \A k \in 0 .. 63 : k = 0 \/ k \in 1 .. 63
    OBVIOUS
  <2>4. \A k \in 0 .. 63 : g[k] = IF k = 0 THEN first ELSE After(g[k - 1])
    BY <2>1, <2>2, <2>3
  <2> QED
    BY <2>1, <2>4
<1> DEFINE pad == CHOOSE s : Solves(s)
           length == BigEndian(8 * h.total)
<1>16. FinalizeRust(h) = Compress(pad[63], CopyInto(pad[63].buf, 56, length)).blocks
  BY DEF FinalizeRust, first, After, mark, zero
<1>17. Solves(pad)
  <2> HIDE DEF Solves
  <2> QED
    BY <1>15
<1> HIDE DEF pad
<1>18. pad[0] = first /\ \A k \in 1 .. 63 : pad[k] = After(pad[k - 1])
  BY <1>17
<1> DEFINE Good == {k \in 0 .. 63 : HoldsRust(pad[k], p, n + 1 + Least(k, z))}
<1>19. 0 \in Good
  <2>1. n + 1 + Least(0, z) = n + 1
    BY <1>2, <1>5 DEF Least
  <2>2. HoldsRust(pad[0], p, n + 1 + Least(0, z)) /\ 0 \in 0 .. 63
    BY <1>10, <1>18, <2>1
  <2> QED
    BY <2>2
<1>20. ASSUME NEW k \in 0 .. 62, k \in Good PROVE k + 1 \in Good
  <2> DEFINE old == pad[k]
             new == pad[k + 1]
             held == old.len
             had == n + 1 + Least(k, z)
  <2>1. new = After(old) /\ k + 1 \in 0 .. 63
    <3> DEFINE j == k + 1
    <3>1. j \in 1 .. 63 /\ j \in 0 .. 63 /\ j - 1 = k
      OBVIOUS
    <3> HIDE DEF j
    <3>2. pad[j] = After(pad[k])
      BY <1>18, <3>1
    <3> QED
      BY <3>1, <3>2 DEF j
  <2>2. HoldsRust(old, p, had)
    BY <1>20
  <2> HIDE DEF old, new
  <2>3. PICK c \in Nat : 64 * c + held = had
    <3>1. PICK c \in Nat : Len(old.blocks) = 64 * c
      BY <2>2 DEF HoldsRust, Holds
    <3>2. Len(old.blocks) + old.len = had
      BY <2>2 DEF HoldsRust, Holds
    <3> QED
      BY <3>1, <3>2
  <2>4. held \in 0 .. 63
    BY <2>2 DEF HoldsRust, Holds
  <2>5. CASE k < z
    <3>1. had = n + 1 + k /\ n + 1 + Least(k + 1, z) = had + 1 /\ z - k \in 1 .. 63
      BY <1>2, <1>5, <2>5 DEF Least
    <3>2. held # 56
      <4> SUFFICES ASSUME held = 56 PROVE FALSE
        OBVIOUS
      <4>1. 64 * c + 56 = (64 * q + 56) - (z - k)
        BY <1>2, <1>5, <2>3, <3>1
      <4> DEFINE e == q - c
                 d == z - k
      <4>2. e \in Int /\ d = 64 * e /\ d \in 1 .. 63
        BY <1>5, <3>1, <4>1
      <4> HIDE DEF e, d
      <4> QED
        BY <4>2
    <3>3. new = UpdateRust(old, zero)
      BY <2>1, <3>2 DEF After
    <3>4. Continues(zero, p, had)
      <4>1. p[(n + 1) + (k + 1)] = 0
        <5>1. k + 1 \in 1 .. z
          BY <1>5, <2>5
        <5> QED
          BY <1>6, <5>1 DEF PaddedParts, n
      <4>2. (n + 1) + (k + 1) = had + 1
        BY <1>2, <3>1
      <4> HIDE DEF had
      <4> QED
        BY <1>8, <4>1, <4>2 DEF Continues
    <3> HIDE DEF had
    <3>5. HoldsRust(new, p, had + Len(zero))
      BY <1>8, <2>2, <3>3, <3>4, UpdateRustHolds
    <3> QED
      BY <1>8, <2>1, <3>1, <3>5 DEF new
  <2>6. CASE ~ (k < z)
    <3>1. had = 64 * q + 56 /\ n + 1 + Least(k + 1, z) = had
      BY <1>2, <1>5, <2>6 DEF Least
    <3> HIDE DEF had
    <3>2. held = 56
      <4>0. 64 * c + held = 64 * q + 56
        BY <2>3, <3>1
      <4> HIDE DEF held
      <4> DEFINE e == q - c
      <4>1. e \in Int /\ held = 64 * e + 56
        BY <2>4, <4>0
      <4> HIDE DEF e
      <4>2. e = 0
        BY <2>4, <4>1
      <4> QED
        BY <4>1, <4>2
    <3>3. new = old
      BY <2>1, <3>2 DEF After
    <3> QED
      BY <2>1, <2>2, <3>1, <3>3 DEF new
  <2> QED
    BY <2>5, <2>6
<1>21. 0 .. 63 \subseteq Good
  <2>1. 63 \in Nat /\ 63 - 1 = 62
    OBVIOUS
  <2> HIDE DEF Good
  <2> QED
    BY <1>19, <1>20, <2>1, UpTo
<1> DEFINE last == pad[63]
<1>22. HoldsRust(last, p, n + 1 + z)
  <2>1. Least(63, z) = z
    BY <1>5 DEF Least
  <2>2. 63 \in Good
    BY <1>21
  <2> QED
    BY <2>1, <2>2
<1> HIDE DEF last
<1>23. Holds(last, p, n + 1 + z) /\ last \in Hashers
  BY <1>22 DEF HoldsRust, Holds
<1>24. last.len = 56
  <2> DEFINE held == last.len
  <2>1. PICK c \in Nat : Len(last.blocks) = 64 * c
    BY <1>23 DEF Holds
  <2>2. Len(last.blocks) + held = n + 1 + z /\ held \in 0 .. 63
    BY <1>23 DEF Holds
  <2>3. 64 * c + held = 64 * q + 56
    BY <1>5, <2>1, <2>2
  <2> HIDE DEF held
  <2> DEFINE e == q - c
  <2>4. e \in Int /\ held = 64 * e + 56
    BY <2>2, <2>3
  <2> HIDE DEF e
  <2>5. e = 0
    BY <2>2, <2>4
  <2> QED
    BY <2>4, <2>5 DEF held
<1>25. last.blocks \o CopyInto(last.buf, 56, BigEndian(8 * n)) = p
  <2>1. Holds(last, p, Len(m) + 1 + z) /\ last.len = 56 /\ PaddedParts(p, m, z) /\ z \in 0 .. 63
    BY <1>5, <1>6, <1>23, <1>24 DEF n
  <2> QED
    BY <2>1, LastHolds, Zenon DEF n
<1>26. length = BigEndian(8 * n)
  BY <1>1
<1> HIDE DEF length
<1> QED
  BY <1>16, <1>23, <1>25, <1>26, CompressBlocks DEF last, p

-----------------------------------------------------------------------------
(* The invariant: at every moment the hasher holds the bytes fed so far,   *)
(* and keeps the count its own code keeps.                                 *)

Message == [u \in Nat |-> 255 + u]

LEMMA Constants == Codes \subseteq {"rust", "c", "crate"} /\ MaxLength \in Nat /\ Cuts \subseteq Nat
BY LengthsAssumption

HashInv ==
  /\ fed \in 0 .. MaxLength
  /\ hasher \in Hashers /\ hasher.len \in 0 .. 63 /\ Len(hasher.buf) = 64
  /\ hasher.code = "rust" => HoldsRust(hasher, Message, fed)
  /\ hasher.code = "c" => HoldsC(hasher, Message, fed)
  /\ hasher.code = "crate" => hasher.blocks = Bytes(0, fed)
  /\ DigestIsOfMessage

LEMMA NewHolds ==
  ASSUME NEW code \in Codes
  PROVE  /\ Has(New(code), code, << >>, Zeros(64), 0, 0) /\ Len(Zeros(64)) = 64
         /\ Holds(New(code), Message, 0)
<1> DEFINE h == New(code)
           buf == Zeros(64)
           none == << >>
<1>1. buf \in Seq(Nat) /\ Len(buf) = 64
  <2>1. 64 \in Nat
    OBVIOUS
  <2> QED
    BY <2>1, ZerosAre
<1>2. none \in Seq(Nat) /\ Len(none) = 0
  OBVIOUS
<1> HIDE DEF buf, none
<1>3. h = Hasher(code, none, buf, 0, 0)
  BY DEF New, Hasher, none, buf
<1>4. WellTyped(code, none, buf, 0, 0)
  BY <1>1, <1>2 DEF WellTyped
<1> HIDE DEF h
<1>5. Has(h, code, none, buf, 0, 0)
  BY <1>3, <1>4, HasherHas
<1>6. h \in Hashers /\ h.blocks = none /\ h.buf = buf /\ h.len = 0
  BY <1>5 DEF Has
<1>7. Holds(h, Message, 0)
  <2>1. Len(h.blocks) = 64 * 0 /\ Len(h.blocks) + h.len = 0 /\ h.len \in 0 .. 63
    BY <1>2, <1>6
  <2>2. /\ \A u \in 1 .. Len(h.blocks) : h.blocks[u] = Message[u]
        /\ \A u \in 1 .. h.len : h.buf[u] = Message[Len(h.blocks) + u]
    BY <1>2, <1>6
  <2> QED
    BY <1>1, <1>6, <2>1, <2>2 DEF Holds
<1> QED
  BY <1>1, <1>5, <1>7 DEF h, buf, none

LEMMA HashBegins == HashInit => HashInv
<1> SUFFICES ASSUME HashInit PROVE HashInv
  OBVIOUS
<1>1. PICK code \in Codes : hasher = New(code)
  BY DEF HashInit
<1>2. fed = 0 /\ digest = << >> /\ fed \in 0 .. MaxLength
  BY Constants DEF HashInit
<1>3. Has(hasher, code, << >>, Zeros(64), 0, 0) /\ Len(Zeros(64)) = 64 /\ Holds(hasher, Message, 0)
  BY <1>1, NewHolds
<1>4. /\ hasher \in Hashers /\ hasher.blocks = << >> /\ hasher.buf = Zeros(64)
      /\ hasher.len = 0 /\ hasher.total = 0
  BY <1>3 DEF Has
<1>5. hasher.blocks = Bytes(0, 0) /\ hasher.total = 8 * Len(hasher.blocks)
  <2>1. Bytes(0, 0) \in Seq(Nat) /\ Len(Bytes(0, 0)) = 0
    BY BytesAre
  <2>2. Bytes(0, 0) = << >>
    BY <2>1, EmptySeq
  <2> QED
    BY <1>4, <2>2
<1>6. hasher.len \in 0 .. 63 /\ Len(hasher.buf) = 64
  BY <1>3, <1>4
<1> QED
  BY <1>2, <1>3, <1>4, <1>5, <1>6 DEF HashInv, HoldsRust, HoldsC, DigestIsOfMessage

LEMMA PieceContinues ==
  ASSUME NEW n \in Nat, NEW k \in Nat
  PROVE  /\ Bytes(n, n + k) \in Seq(Nat) /\ Len(Bytes(n, n + k)) = k
         /\ Continues(Bytes(n, n + k), Message, n)
<1> DEFINE piece == Bytes(n, n + k)
<1>1. n <= n + k /\ n + k \in Nat /\ (n + k) - n = k
  OBVIOUS
<1>2. /\ piece \in Seq(Nat) /\ Len(piece) = k
      /\ \A u \in 1 .. k : piece[u] = 255 + n + u
  <2> DEFINE to == n + k
  <2> HIDE DEF to
  <2>1. /\ Bytes(n, to) \in Seq(Nat) /\ Len(Bytes(n, to)) = to - n
        /\ \A u \in 1 .. to - n : Bytes(n, to)[u] = 255 + n + u
    BY <1>1, BytesAre DEF to
  <2> QED
    BY <1>1, <2>1 DEF to
<1> HIDE DEF piece
<1>3. \A u \in 1 .. k : n + u \in Nat /\ 255 + n + u = 255 + (n + u)
  OBVIOUS
<1>4. \A u \in 1 .. k : Message[n + u] = 255 + n + u
  BY <1>3 DEF Message
<1> QED
  BY <1>2, <1>4 DEF Continues, piece

LEMMA BytesJoin ==
  ASSUME NEW n \in Nat, NEW k \in Nat
  PROVE  Bytes(0, n) \o Bytes(n, n + k) = Bytes(0, n + k)
<1> DEFINE a == Bytes(0, n)
           b == Bytes(n, n + k)
           c == Bytes(0, n + k)
<1>1. a \in Seq(Nat) /\ Len(a) = n /\ Continues(a, Message, 0)
  <2>1. 0 \in Nat /\ 0 + n = n
    OBVIOUS
  <2>2. Bytes(0, 0 + n) \in Seq(Nat) /\ Len(Bytes(0, 0 + n)) = n /\ Continues(Bytes(0, 0 + n), Message, 0)
    BY <2>1, PieceContinues
  <2> QED
    BY <2>1, <2>2
<1>2. b \in Seq(Nat) /\ Len(b) = k /\ Continues(b, Message, n)
  BY PieceContinues
<1>3. c \in Seq(Nat) /\ Len(c) = n + k /\ Continues(c, Message, 0)
  <2>1. 0 \in Nat /\ 0 + (n + k) = n + k /\ n + k \in Nat
    OBVIOUS
  <2>2. /\ Bytes(0, 0 + (n + k)) \in Seq(Nat) /\ Len(Bytes(0, 0 + (n + k))) = n + k
        /\ Continues(Bytes(0, 0 + (n + k)), Message, 0)
    BY <2>1, PieceContinues
  <2> QED
    BY <2>1, <2>2
<1> HIDE DEF a, b, c
<1>4. /\ a \o b \in Seq(Nat) /\ Len(a \o b) = Len(a) + Len(b)
      /\ (\A u \in 1 .. Len(a) : (a \o b)[u] = a[u]) /\ Continues(b, a \o b, Len(a))
  BY <1>1, <1>2, ConcatParts
<1> DEFINE ab == a \o b
<1> HIDE DEF ab
<1>5. ab \in Seq(Nat) /\ Len(ab) = n + k
  BY <1>1, <1>2, <1>4 DEF ab
<1>6. ASSUME NEW u \in 1 .. n + k PROVE ab[u] = c[u]
  <2>1. c[u] = Message[u] /\ 0 + u = u
    BY <1>3 DEF Continues
  <2>2. CASE u <= n
    <3>1. u \in 1 .. n
      BY <2>2
    <3>2. ab[u] = a[u] /\ a[u] = Message[0 + u]
      BY <1>1, <1>4, <3>1 DEF Continues, ab
    <3> QED
      BY <2>1, <3>2
  <2>3. CASE ~ (u <= n)
    <3>1. u - n \in 1 .. k /\ n + (u - n) = u
      BY <2>3
    <3>2. b[u - n] = ab[n + (u - n)] /\ b[u - n] = Message[n + (u - n)]
      BY <1>1, <1>2, <1>4, <3>1 DEF Continues, ab
    <3> QED
      BY <2>1, <3>1, <3>2
  <2> QED
    BY <2>2, <2>3
<1>7. ab = c
  BY <1>3, <1>5, <1>6, SeqEqual
<1> QED
  BY <1>7 DEF ab, a, b, c

LEMMA FeedKeeps ==
  ASSUME HashInv, NEW k \in Cuts, Feed(k)
  PROVE  HashInv'
<1> DEFINE data == Bytes(fed, fed + k)
           n == fed + k
<1>1. /\ k \in Nat /\ fed \in Nat /\ hasher \in Hashers /\ n \in 0 .. MaxLength
  BY Constants DEF HashInv, Feed
<1>2. hasher' = Update(hasher, data) /\ fed' = n /\ digest = << >> /\ digest' = << >>
  BY DEF Feed
<1>3. data \in Seq(Nat) /\ Len(data) = k /\ Continues(data, Message, fed)
  BY <1>1, PieceContinues
<1>4. hasher.code \in {"rust", "c", "crate"}
  BY <1>1, Constants DEF Hashers
<1>5. DigestIsOfMessage'
  BY <1>2 DEF DigestIsOfMessage
<1> HIDE DEF data, n
<1>6. CASE hasher.code = "rust"
  <2>1. HoldsRust(hasher, Message, fed)
    BY <1>6 DEF HashInv
  <2>2. hasher' = UpdateRust(hasher, data)
    BY <1>2, <1>6 DEF Update
  <2>3. HoldsRust(hasher', Message, fed + Len(data)) /\ hasher'.code = hasher.code
    BY <1>3, <2>1, <2>2, UpdateRustHolds
  <2>4. HoldsRust(hasher', Message, n)
    BY <1>3, <2>3 DEF n
  <2>5. hasher' \in Hashers /\ hasher'.len \in 0 .. 63 /\ Len(hasher'.buf) = 64
    BY <2>4 DEF HoldsRust, Holds
  <2> QED
    BY <1>1, <1>2, <1>5, <1>6, <2>3, <2>4, <2>5 DEF HashInv
<1>7. CASE hasher.code = "c"
  <2>1. HoldsC(hasher, Message, fed)
    BY <1>7 DEF HashInv
  <2>2. hasher' = UpdateC(hasher, data)
    BY <1>2, <1>7 DEF Update
  <2>3. HoldsC(hasher', Message, fed + Len(data)) /\ hasher'.code = hasher.code
    BY <1>3, <2>1, <2>2, UpdateCHolds
  <2>4. HoldsC(hasher', Message, n)
    BY <1>3, <2>3 DEF n
  <2>5. hasher' \in Hashers /\ hasher'.len \in 0 .. 63 /\ Len(hasher'.buf) = 64
    BY <2>4 DEF HoldsC, Holds
  <2> QED
    BY <1>1, <1>2, <1>5, <1>7, <2>3, <2>4, <2>5 DEF HashInv
<1>8. CASE hasher.code = "crate"
  <2>1. hasher.blocks = Bytes(0, fed) /\ hasher.len \in 0 .. 63 /\ Len(hasher.buf) = 64
    BY <1>8 DEF HashInv
  <2>2. hasher' = Compress(hasher, data)
    BY <1>2, <1>8 DEF Update, UpdateCrate
  <2>3. Has(hasher, hasher.code, hasher.blocks, hasher.buf, hasher.len, hasher.total)
    BY <1>1, HashersHave
  <2>4. Has(hasher', hasher.code, hasher.blocks \o data, hasher.buf, hasher.len, hasher.total)
    BY <1>3, <2>2, <2>3, CompressHas
  <2>5. /\ hasher' \in Hashers /\ hasher'.code = hasher.code /\ hasher'.blocks = hasher.blocks \o data
        /\ hasher'.buf = hasher.buf /\ hasher'.len = hasher.len
    BY <2>4 DEF Has
  <2>6. hasher'.blocks = Bytes(0, n)
    BY <1>1, <2>1, <2>5, BytesJoin DEF data, n
  <2>7. hasher'.len \in 0 .. 63 /\ Len(hasher'.buf) = 64
    BY <2>1, <2>5
  <2> QED
    BY <1>1, <1>2, <1>5, <1>8, <2>5, <2>6, <2>7 DEF HashInv
<1> QED
  BY <1>4, <1>6, <1>7, <1>8

LEMMA FinishKeeps ==
  ASSUME HashInv, Finish
  PROVE  HashInv'
<1> DEFINE m == Bytes(0, fed)
<1>1. hasher \in Hashers /\ fed \in Nat
  BY Constants DEF HashInv
<1>2. hasher' = hasher /\ fed' = fed /\ digest' = Finalize(hasher)
  BY DEF Finish
<1>3. m \in Seq(Nat) /\ Len(m) = fed /\ \A u \in 1 .. fed : m[u] = Message[u]
  <2>1. 0 \in Nat /\ 0 + fed = fed /\ \A u \in 1 .. fed : 0 + u = u
    BY <1>1
  <2>2. /\ Bytes(0, 0 + fed) \in Seq(Nat) /\ Len(Bytes(0, 0 + fed)) = fed
        /\ Continues(Bytes(0, 0 + fed), Message, 0)
    BY <1>1, <2>1, PieceContinues
  <2> QED
    BY <2>1, <2>2 DEF Continues
<1> HIDE DEF m
<1>4. hasher.code \in {"rust", "c", "crate"}
  BY <1>1, Constants DEF Hashers
<1>5. Finalize(hasher) = Padded(m)
  <2>1. CASE hasher.code = "rust"
    <3>1. Holds(hasher, Message, fed) /\ hasher.total = fed
      BY <2>1 DEF HashInv, HoldsRust
    <3>2. Holds(hasher, m, fed)
      BY <1>3, <3>1, HoldsSame
    <3>3. HoldsRust(hasher, m, Len(m))
      BY <1>3, <3>1, <3>2 DEF HoldsRust
    <3>4. FinalizeRust(hasher) = Padded(m)
      BY <1>3, <3>3, FinalizeRustIs
    <3> QED
      BY <2>1, <3>4 DEF Finalize
  <2>2. CASE hasher.code = "c"
    <3>1. Holds(hasher, Message, fed) /\ hasher.total = 8 * Len(hasher.blocks)
      BY <2>2 DEF HashInv, HoldsC
    <3>2. Holds(hasher, m, fed)
      BY <1>3, <3>1, HoldsSame
    <3>3. HoldsC(hasher, m, Len(m))
      BY <1>3, <3>1, <3>2 DEF HoldsC
    <3>4. FinalizeC(hasher) = Padded(m)
      BY <1>3, <3>3, FinalizeCIs
    <3> QED
      BY <2>2, <3>4 DEF Finalize
  <2>3. CASE hasher.code = "crate"
    BY <2>3 DEF HashInv, Finalize, FinalizeCrate, m
  <2> QED
    BY <1>4, <2>1, <2>2, <2>3
<1>6. DigestIsOfMessage'
  BY <1>2, <1>5 DEF DigestIsOfMessage, m
<1> QED
  BY <1>2, <1>6 DEF HashInv

LEMMA HashInductive == HashInv /\ [HashNext]_hashVars => HashInv'
<1> SUFFICES ASSUME HashInv, [HashNext]_hashVars PROVE HashInv'
  OBVIOUS
<1>1. CASE \E k \in Cuts : Feed(k)
  BY <1>1, FeedKeeps
<1>2. CASE Finish
  BY <1>2, FinishKeeps
<1>3. CASE UNCHANGED hashVars
  BY <1>3 DEF hashVars, HashInv, DigestIsOfMessage
<1> QED
  BY <1>1, <1>2, <1>3 DEF HashNext

LEMMA HashInvAlways == HashSpec => []HashInv
BY HashBegins, HashInductive, PTL DEF HashSpec

\* The buffers never overflow: between two calls fewer than 64 bytes wait in the
\* buffer of 64, which sha256.c writes at their count unchecked.
THEOREM HashTypeCorrect == HashSpec => []HashTypeOK
<1>1. HashInv => HashTypeOK
  BY DEF HashInv, HashTypeOK
<1> QED
  BY <1>1, HashInvAlways, PTL

\* However a message of any length is cut into calls of update, cis2-verify's
\* and verify3's SHA-256 hash the blocks of the padded message, as the sha2
\* crate of the other programs is taken to.
THEOREM DigestIsRight == HashSpec => []DigestIsOfMessage
<1>1. HashInv => DigestIsOfMessage
  BY DEF HashInv
<1> QED
  BY <1>1, HashInvAlways, PTL

-----------------------------------------------------------------------------
(* The ledger.                                                             *)

IsSeq(s) == \E S : s \in Seq(S)

-----------------------------------------------------------------------------
(* Pages stay sequences of lines, whatever is done to them.                *)

LEMMA SeqHas ==
  ASSUME NEW s, IsSeq(s)
  PROVE  Len(s) \in Nat /\ DOMAIN s = 1 .. Len(s)
BY LenProperties DEF IsSeq

LEMMA AppendKeeps ==
  ASSUME NEW s, IsSeq(s), NEW x
  PROVE  /\ IsSeq(Append(s, x)) /\ Len(Append(s, x)) = Len(s) + 1
         /\ Append(s, x) # << >>
<1>1. PICK S : s \in Seq(S)
  BY DEF IsSeq
<1>2. s \in Seq(S \cup {x})
  BY <1>1, SeqMonotonic
<1> QED
  BY <1>2, AppendProperties DEF IsSeq

LEMMA ReplaceKeeps ==
  ASSUME NEW s, IsSeq(s), NEW k \in DOMAIN s, NEW x
  PROVE  IsSeq(ReplaceAt(s, k, x)) /\ Len(ReplaceAt(s, k, x)) = Len(s)
<1>1. PICK S : s \in Seq(S)
  BY DEF IsSeq
<1>2. s \in Seq(S \cup {x}) /\ k \in 1 .. Len(s)
  BY <1>1, SeqMonotonic, LenProperties
<1> QED
  BY <1>2, ExceptSeq DEF IsSeq, ReplaceAt

LEMMA RemoveKeeps ==
  ASSUME NEW s, IsSeq(s), NEW k \in DOMAIN s
  PROVE  IsSeq(RemoveAt(s, k)) /\ Len(RemoveAt(s, k)) = Len(s) - 1
<1>1. PICK S : s \in Seq(S)
  BY DEF IsSeq
<1>2. Len(s) \in Nat /\ k \in 1 .. Len(s) /\ \A j \in 1 .. Len(s) : s[j] \in S
  BY <1>1, LenProperties
<1> DEFINE a == SubSeq(s, 1, k - 1)
           b == SubSeq(s, k + 1, Len(s))
<1>3. a \in Seq(S) /\ Len(a) = k - 1
  <2>1. \A j \in 1 .. k - 1 : s[j] \in S
    BY <1>2
  <2> QED
    BY <1>2, <2>1, SubSeqProperties
<1>4. b \in Seq(S) /\ Len(b) = Len(s) - k
  <2>1. \A j \in k + 1 .. Len(s) : s[j] \in S
    BY <1>2
  <2> QED
    BY <1>2, <2>1, SubSeqProperties
<1>5. a \o b \in Seq(S) /\ Len(a \o b) = Len(a) + Len(b)
  <2> HIDE DEF a, b
  <2> QED
    BY <1>3, <1>4, ConcatProperties
<1>6. RemoveAt(s, k) = a \o b
  BY DEF RemoveAt
<1> HIDE DEF a, b
<1>7. Len(a) + Len(b) = Len(s) - 1
  BY <1>2, <1>3, <1>4
<1> QED
  BY <1>5, <1>6, <1>7 DEF IsSeq

\* The rest of a page can be linked anew: the recursion has a solution.
LEMMA RelinkedKeeps ==
  ASSUME NEW lines, IsSeq(lines), NEW k
  PROVE  IsSeq(Relinked(lines, k)) /\ Len(Relinked(lines, k)) = Len(lines)
<1> DEFINE n == Len(lines)
           More(s, m) == IF m < k THEN Append(s, lines[m])
                         ELSE Append(s, [lines[m] EXCEPT !.seq = m, !.prev = HeadHash(s)])
           Body(g, m) == IF m = 0 THEN << >> ELSE More(g[m - 1], m)
           Solves(g, m) == g = [l \in 0 .. m |-> Body(g, l)]
           Solved == {m \in 0 .. n : \E g : Solves(g, m)}
<1>0. n \in Nat
  BY SeqHas
<1> HIDE DEF More, n
<1>1. 0 \in Solved
  <2>1. Solves([l \in 0 .. 0 |-> << >>], 0)
    OBVIOUS
  <2> HIDE DEF Solves
  <2> QED
    BY <1>0, <2>1
<1>2. ASSUME NEW m \in 0 .. n - 1, m \in Solved
      PROVE  m + 1 \in Solved
  <2>1. PICK g : Solves(g, m)
    BY <1>2
  <2> DEFINE h == [l \in 0 .. m + 1 |-> IF l <= m THEN g[l] ELSE More(g[m], m + 1)]
  <2>2. ASSUME NEW l \in 0 .. m + 1 PROVE h[l] = Body(h, l)
    <3>1. CASE l = 0
      BY <2>1, <3>1
    <3>2. CASE l \in 1 .. m
      <4>1. h[l] = g[l] /\ l - 1 \in 0 .. m + 1 /\ l - 1 <= m /\ l # 0
        BY <3>2
      <4>2. h[l - 1] = g[l - 1]
        BY <4>1
      <4>3. g[l] = Body(g, l)
        BY <2>1, <3>2
      <4> QED
        BY <4>1, <4>2, <4>3
    <3>3. CASE l = m + 1
      <4>1. h[l] = More(g[m], m + 1) /\ l # 0 /\ l - 1 = m
        BY <3>3
      <4>2. h[m] = g[m]
        OBVIOUS
      <4> QED
        BY <3>3, <4>1, <4>2
    <3> QED
      BY <3>1, <3>2, <3>3
  <2>3. h = [l \in 0 .. m + 1 |-> Body(h, l)]
    <3>1. h = [l \in 0 .. m + 1 |-> h[l]]
      OBVIOUS
    <3> HIDE DEF h, Body
    <3> QED
      BY <2>2, <3>1
  <2>4. Solves(h, m + 1)
    BY <2>3
  <2> HIDE DEF Solves
  <2> QED
    BY <1>0, <2>4
<1>3. n \in Solved
  <2> HIDE DEF Solved
  <2> QED
    BY <1>0, <1>1, <1>2, UpTo
<1> DEFINE from == CHOOSE g : Solves(g, n)
<1>4. Solves(from, n)
  <2>1. \E g : Solves(g, n)
    BY <1>3
  <2> HIDE DEF Solves
  <2> QED
    BY <2>1
<1>5. Relinked(lines, k) = from[n]
  BY DEF Relinked, More, n
<1> HIDE DEF from
<1>6. ASSUME NEW m \in 0 .. n PROVE from[m] = Body(from, m)
  <2> HIDE DEF Body
  <2> QED
    BY <1>4
<1> DEFINE Kept == {m \in 0 .. n : IsSeq(from[m]) /\ Len(from[m]) = m}
<1>7. 0 \in Kept
  <2>1. from[0] = << >>
    BY <1>0, <1>6
  <2>2. << >> \in Seq({}) /\ Len(<< >>) = 0
    BY EmptySeq
  <2>3. IsSeq(from[0]) /\ Len(from[0]) = 0
    BY <2>1, <2>2 DEF IsSeq
  <2> QED
    BY <1>0, <2>3
<1>8. ASSUME NEW m \in 0 .. n - 1, m \in Kept PROVE m + 1 \in Kept
  <2>1. m + 1 \in 0 .. n /\ m + 1 # 0 /\ (m + 1) - 1 = m
    BY <1>0
  <2>2. from[m + 1] = More(from[m], m + 1)
    BY <1>6, <2>1
  <2>3. IsSeq(from[m]) /\ Len(from[m]) = m
    BY <1>8
  <2>4. IsSeq(More(from[m], m + 1)) /\ Len(More(from[m], m + 1)) = m + 1
    BY <2>3, AppendKeeps DEF More
  <2> QED
    BY <2>1, <2>2, <2>4
<1>9. n \in Kept
  <2> HIDE DEF Kept
  <2> QED
    BY <1>0, <1>7, <1>8, UpTo
<1> QED
  BY <1>5, <1>9 DEF n

-----------------------------------------------------------------------------
(* What the reader knows of the lines it has read.                         *)

HashBefore(lines, k) == IF k = 1 THEN ZERO ELSE LineHash(lines[k - 1])

\* The lines are numbered, and each holds the hash of the one before it.
Chained(lines, n) ==
  \A k \in 1 .. n : lines[k].seq = k /\ lines[k].prev = HashBefore(lines, k)

ExpsOf(n, kinds) == {page[k].exp : k \in {j \in 1 .. n : page[j].kind \in kinds}}

\* As long as there was no error, the sets and numbers of the program are those
\* of the lines so far, and no experiment number is written in two ways.
Summed(n) ==
  /\ next_exp \in Nat \ {0}
  /\ seen = {page[k].exp : k \in 1 .. n}
  /\ {page[k].exp.n : k \in 1 .. n} = 1 .. next_exp - 1
  /\ \A j, k \in 1 .. n : page[j].exp.n = page[k].exp.n => page[j].exp = page[k].exp
  /\ started = ExpsOf(n, Starts)
  /\ judged = ExpsOf(n, Verdicts)

\* What is accepted so far is chained and in order.
ReadSoFar ==
  reading \in {"lines", "OK"} /\ ~errors =>
    /\ Summed(i)
    /\ Chained(page, i)
    /\ \A k \in 1 .. i : InOrder(page, k)

\* The page whose head was saved had been accepted.
SavedIsChained == Chained(saved, Len(saved))

LedgerInv ==
  /\ LedgerTypeOK
  /\ IsSeq(page) /\ IsSeq(saved)
  /\ reading = "no" => i = 0
  /\ reading = "lines" => prev_expected = HashBefore(page, i + 1)
  /\ reading = "OK" => ~errors /\ i = Len(page)
  /\ ReadSoFar
  /\ SavedIsChained

\* Without its ending a kind is what the lists of kinds say.
LEMMA BaseIs ==
  ASSUME NEW kind \in KINDS
  PROVE  /\ Base(kind) = "bar-amended" <=> kind \in Amendments
         /\ Base(kind) \in {"start", "start-unanchored"} <=> kind \in Starts
         /\ Base(kind) = "verdict" <=> kind \in Verdicts
BY DEF KINDS, BASE_KINDS, BACKFILL_KINDS, Base, Amendments, Starts, Verdicts

\* One more line without an error keeps the order and the sums.
LEMMA RowKeeps ==
  ASSUME LedgerInv, ReadRow, ~errors'
  PROVE  Summed(i)' /\ Chained(page, i)' /\ (\A k \in 1 .. i : InOrder(page, k))'
<1> DEFINE row == page[i + 1]
           base == IF row.kind \in KINDS THEN Base(row.kind) ELSE "none"
<1>1. /\ reading = "lines" /\ i < Len(page)
      /\ ~errors /\ ~RowErrors(row)
      /\ seen' = IF Opens(row) THEN seen \cup {row.exp} ELSE seen
      /\ next_exp' = IF Opens(row) THEN row.exp.n + 1 ELSE next_exp
      /\ started' = IF base \in {"start", "start-unanchored"} THEN started \cup {row.exp} ELSE started
      /\ judged' = IF base = "verdict" THEN judged \cup {row.exp} ELSE judged
      /\ page' = page /\ i' = i + 1
  BY DEF ReadRow, pageVars
<1>2. /\ i \in Nat /\ i + 1 \in 1 .. i + 1 /\ 1 .. i + 1 = (1 .. i) \cup {i + 1}
      /\ prev_expected = HashBefore(page, i + 1)
  <2>1. i \in 0 .. Len(page) /\ Len(page) \in Nat
    BY SeqHas DEF LedgerInv, LedgerTypeOK
  <2> QED
    BY <1>1, <2>1 DEF LedgerInv
<1>3. Summed(i) /\ Chained(page, i) /\ \A k \in 1 .. i : InOrder(page, k)
  BY <1>1 DEF LedgerInv, ReadSoFar
<1>4. /\ row.seq = i + 1 /\ row.exp.n # NoNumber /\ row.kind \in KINDS
      /\ row.prev = prev_expected
      /\ Opens(row) => row.exp.n = next_exp /\ row.kind \in Bars
      /\ ~KindErrors(row, base)
  BY <1>1 DEF RowErrors, OpeningErrors, Bars
<1>5. Opens(row) <=> row.exp \notin seen
  BY <1>4 DEF Opens
<1> HIDE DEF row
<1>6. /\ base = "bar-amended" <=> row.kind \in Amendments
      /\ base \in {"start", "start-unanchored"} <=> row.kind \in Starts
      /\ base = "verdict" <=> row.kind \in Verdicts
  BY <1>4, BaseIs
<1> HIDE DEF base
<1> DEFINE before == {page[k].exp.n : k \in 1 .. i}
<1>7. before = 1 .. next_exp - 1 /\ next_exp \in Nat \ {0}
  BY <1>3 DEF Summed
<1>8. Opens(row) => row.exp.n \notin before
  BY <1>4, <1>7
\* A line with the same number is one of the same experiment.
<1>9. ASSUME NEW j \in 1 .. i, page[j].exp.n = row.exp.n
      PROVE  page[j].exp = row.exp
  <2>1. row.exp.n \in before
    BY <1>9
  <2>2. row.exp \in seen
    BY <1>5, <1>8, <2>1
  <2>3. PICK k \in 1 .. i : page[k].exp = row.exp
    BY <1>3, <2>2 DEF Summed
  <2> QED
    BY <1>3, <1>9, <2>3 DEF Summed
<1>10. Chained(page, i + 1)
  <2>1. page[i + 1].seq = i + 1 /\ page[i + 1].prev = HashBefore(page, i + 1)
    BY <1>2, <1>4 DEF row
  <2> QED
    BY <1>2, <1>3, <2>1 DEF Chained
<1>11. InOrder(page, i + 1)
  <2> DEFINE Own(kinds) == \E j \in 1 .. i : page[j].exp.n = row.exp.n /\ page[j].kind \in kinds
  <2>1. \A kinds : Own(kinds) <=> row.exp \in ExpsOf(i, kinds)
    BY <1>9 DEF ExpsOf
  <2>2. row.exp.n \notin before => row.kind \in Bars /\ before = 1 .. row.exp.n - 1
    <3>1. row.exp \in seen => row.exp.n \in before
      BY <1>3 DEF Summed
    <3> QED
      BY <1>4, <1>5, <1>7, <3>1
  <2>3. /\ row.kind \in Amendments => row.exp \notin started
        /\ row.kind \in Starts => row.exp \notin started
        /\ row.kind \in Verdicts => row.exp \in started /\ row.exp \notin judged
    BY <1>4, <1>6 DEF KindErrors
  <2>4. started = ExpsOf(i, Starts) /\ judged = ExpsOf(i, Verdicts)
    BY <1>3 DEF Summed
  <2>5. /\ row.kind \in Amendments => ~Own(Starts)
        /\ row.kind \in Starts => ~Own(Starts)
        /\ row.kind \in Verdicts => Own(Starts) /\ ~Own(Verdicts)
    BY <2>1, <2>3, <2>4
  <2>6. (i + 1) - 1 = i
    BY <1>2
  <2> QED
    BY <2>2, <2>5, <2>6 DEF InOrder, row
<1>12. \A k \in 1 .. i + 1 : InOrder(page, k)
  BY <1>2, <1>3, <1>11
<1>13. seen' = {page[k].exp : k \in 1 .. i + 1}
  <2>1. seen = {page[k].exp : k \in 1 .. i}
    BY <1>3 DEF Summed
  <2>2. {page[k].exp : k \in 1 .. i + 1} = seen \cup {row.exp}
    BY <1>2, <2>1 DEF row
  <2> QED
    BY <1>1, <1>5, <2>2
<1>14. {page[k].exp.n : k \in 1 .. i + 1} = before \cup {row.exp.n}
  BY <1>2 DEF row
<1>15. next_exp' \in Nat \ {0} /\ before \cup {row.exp.n} = 1 .. next_exp' - 1
  <2>1. CASE Opens(row)
    <3>1. next_exp' = next_exp + 1 /\ row.exp.n = next_exp
      BY <1>1, <1>4, <2>1
    <3>2. (1 .. next_exp - 1) \cup {next_exp} = 1 .. (next_exp + 1) - 1
      BY <1>7
    <3> QED
      BY <1>7, <3>1, <3>2
  <2>2. CASE ~Opens(row)
    <3>1. row.exp.n \in before
      BY <1>3, <1>5, <2>2 DEF Summed
    <3> QED
      BY <1>1, <1>7, <2>2, <3>1
  <2> QED
    BY <2>1, <2>2
<1>16. \A j, k \in 1 .. i + 1 : page[j].exp.n = page[k].exp.n => page[j].exp = page[k].exp
  <2>1. page[i + 1] = row
    BY DEF row
  <2> QED
    BY <1>2, <1>3, <1>9, <2>1 DEF Summed
<1>17. ASSUME NEW kinds
       PROVE  ExpsOf(i + 1, kinds)
                = IF row.kind \in kinds THEN ExpsOf(i, kinds) \cup {row.exp} ELSE ExpsOf(i, kinds)
  BY <1>2 DEF ExpsOf, row
<1>18. started' = ExpsOf(i + 1, Starts) /\ judged' = ExpsOf(i + 1, Verdicts)
  <2>1. started = ExpsOf(i, Starts) /\ judged = ExpsOf(i, Verdicts)
    BY <1>3 DEF Summed
  <2>2. started' = IF row.kind \in Starts THEN started \cup {row.exp} ELSE started
    BY <1>1, <1>6
  <2>3. judged' = IF row.kind \in Verdicts THEN judged \cup {row.exp} ELSE judged
    BY <1>1, <1>6
  <2> QED
    BY <1>17, <2>1, <2>2, <2>3
<1>19. Summed(i)'
  <2>1. ExpsOf(i, Starts)' = ExpsOf(i + 1, Starts) /\ ExpsOf(i, Verdicts)' = ExpsOf(i + 1, Verdicts)
    BY <1>1 DEF ExpsOf
  <2>2. {page[k].exp.n : k \in 1 .. i + 1} = 1 .. next_exp' - 1
    BY <1>14, <1>15
  <2>3. {page[k].exp : k \in 1 .. i}' = seen'
    BY <1>1, <1>13
  <2>4. {page[k].exp.n : k \in 1 .. i}' = 1 .. next_exp' - 1
    BY <1>1, <2>2
  <2>5. (\A j, k \in 1 .. i : page[j].exp.n = page[k].exp.n => page[j].exp = page[k].exp)'
    BY <1>1, <1>16
  <2> QED
    BY <1>15, <1>18, <2>1, <2>3, <2>4, <2>5 DEF Summed
<1> QED
  BY <1>1, <1>10, <1>12, <1>19 DEF Chained, HashBefore, InOrder

\* Reading one line more.
LEMMA LineKeeps ==
  ASSUME LedgerInv, ReadRow \/ ReadTorn
  PROVE  LedgerInv'
<1> DEFINE row == page[i + 1]
<1>1. /\ reading = "lines" /\ reading' = "lines" /\ i < Len(page) /\ i' = i + 1
      /\ page' = page /\ saved' = saved /\ edited' = edited
      /\ prev_expected' = LineHash(row)
      /\ errors' \in BOOLEAN
      /\ seen' \cup started' \cup judged' \subseteq seen \cup started \cup judged \cup {row.exp}
  <2>1. errors \in BOOLEAN
    BY DEF LedgerInv, LedgerTypeOK
  <2>2. CASE ReadTorn
    BY <2>2 DEF ReadTorn, pageVars
  <2>3. CASE ReadRow
    BY <2>1, <2>3 DEF ReadRow, pageVars
  <2> QED
    BY <2>2, <2>3
<1>2. i \in Nat /\ Len(page) \in Nat /\ i + 1 \in 1 .. i + 1 /\ i + 1 \in 0 .. Len(page)
      /\ \A k \in 1 .. i : k \in 1 .. i + 1
  <2>1. Len(page) \in Nat /\ i \in 0 .. Len(page)
    BY SeqHas DEF LedgerInv, LedgerTypeOK
  <2> QED
    BY <1>1, <2>1
<1>3. LedgerTypeOK'
  <2>1. seen \cup started \cup judged \subseteq {page[k].exp : k \in 1 .. i}
    BY DEF LedgerInv, LedgerTypeOK
  <2>2. seen' \cup started' \cup judged' \subseteq {page[k].exp : k \in 1 .. i + 1}
    BY <1>1, <1>2, <2>1
  <2> QED
    BY <1>1, <1>2, <2>2 DEF LedgerInv, LedgerTypeOK
<1>4. prev_expected' = HashBefore(page, i + 1)'
  <2>1. i + 2 # 1 /\ (i + 2) - 1 = i + 1 /\ (i + 1) + 1 = i + 2
    BY <1>2
  <2> QED
    BY <1>1, <2>1 DEF HashBefore
<1>5. ReadSoFar'
  <2>1. CASE ReadTorn
    BY <2>1 DEF ReadTorn, ReadSoFar
  <2>2. CASE ReadRow
    BY <2>2, RowKeeps DEF ReadSoFar
  <2> QED
    BY <2>1, <2>2
<1>6. SavedIsChained'
  BY <1>1 DEF LedgerInv, SavedIsChained, Chained, HashBefore
<1> QED
  BY <1>1, <1>3, <1>4, <1>5, <1>6 DEF LedgerInv, IsSeq

\* The page as the owner or somebody else leaves it.
LEMMA PageKeeps ==
  ASSUME LedgerInv, Publish \/ Edit
  PROVE  IsSeq(page') /\ Len(page') <= MaxLines
<1>1. IsSeq(page) /\ Len(page) \in Nat /\ DOMAIN page = 1 .. Len(page) /\ Len(page) <= MaxLines
  BY SeqHas DEF LedgerInv, LedgerTypeOK
<1>2. CASE Publish
  <2>1. PICK x : page' = Append(page, x) /\ Len(page) < MaxLines
    BY <1>2 DEF Publish
  <2>2. IsSeq(page') /\ Len(page') = Len(page) + 1
    BY <1>1, <2>1, AppendKeeps
  <2> QED
    BY <1>1, <2>1, <2>2, PagesAssumption
<1>3. CASE Edit
  <2>1. PICK lines \in Changed(page) : page' \in {lines} \cup {Relinked(lines, k) : k \in DOMAIN lines}
    BY <1>3 DEF Edit
  <2>2. IsSeq(lines) /\ (Len(lines) = Len(page) \/ Len(lines) = Len(page) - 1)
    <3>1. CASE \E k \in DOMAIN page : \E l \in Rewritten(page[k]) : lines = ReplaceAt(page, k, l)
      BY <1>1, <3>1, ReplaceKeeps
    <3>2. CASE \E k \in DOMAIN page : lines = RemoveAt(page, k)
      BY <1>1, <3>2, RemoveKeeps
    <3>3. CASE \E k \in 1 .. Len(page) - 1 :
                 lines = ReplaceAt(ReplaceAt(page, k, page[k + 1]), k + 1, page[k])
      <4>1. PICK k \in 1 .. Len(page) - 1 :
                   lines = ReplaceAt(ReplaceAt(page, k, page[k + 1]), k + 1, page[k])
        BY <3>3
      <4> DEFINE once == ReplaceAt(page, k, page[k + 1])
      <4>2. k \in DOMAIN page /\ k + 1 \in 1 .. Len(page)
        BY <1>1
      <4>3. IsSeq(once) /\ Len(once) = Len(page)
        BY <1>1, <4>2, ReplaceKeeps
      <4> HIDE DEF once
      <4>4. k + 1 \in DOMAIN once
        BY <4>2, <4>3, SeqHas
      <4>5. lines = ReplaceAt(once, k + 1, page[k])
        BY <4>1 DEF once
      <4> QED
        BY <4>3, <4>4, <4>5, ReplaceKeeps
    <3>4. \/ \E k \in DOMAIN page : \E l \in Rewritten(page[k]) : lines = ReplaceAt(page, k, l)
          \/ \E k \in DOMAIN page : lines = RemoveAt(page, k)
          \/ \E k \in 1 .. Len(page) - 1 :
               lines = ReplaceAt(ReplaceAt(page, k, page[k + 1]), k + 1, page[k])
      BY <2>1 DEF Changed
    <3> QED
      BY <3>1, <3>2, <3>3, <3>4
  <2>3. IsSeq(page') /\ Len(page') = Len(lines)
    BY <2>1, <2>2, RelinkedKeeps
  <2>4. Len(lines) <= MaxLines
    <3> DEFINE n == Len(page)
               m == Len(lines)
    <3>1. n \in Nat /\ n <= MaxLines /\ (m = n \/ m = n - 1) /\ MaxLines \in Nat
      BY <1>1, <2>2, PagesAssumption
    <3> HIDE DEF n, m
    <3>2. m <= MaxLines
      BY <3>1
    <3> QED
      BY <3>2 DEF m
  <2> QED
    BY <2>3, <2>4
<1> QED
  BY <1>2, <1>3

LEMMA StepKeeps ==
  ASSUME LedgerInv, [LedgerNext]_ledgerVars
  PROVE  LedgerInv'
<1>0. Len(page) \in Nat /\ IsSeq(page) /\ IsSeq(saved)
  BY SeqHas DEF LedgerInv
<1>1. CASE Publish \/ Edit
  <2>1. /\ reading = "no" /\ UNCHANGED <<saved, readVars>> /\ edited' \in BOOLEAN
    BY <1>1 DEF Publish, Edit, LedgerInv, LedgerTypeOK
  <2>2. i = 0 /\ seen = {} /\ started = {} /\ judged = {}
    <3>1. i = 0 /\ 1 .. 0 = {}
      BY <2>1 DEF LedgerInv
    <3> QED
      BY <3>1 DEF LedgerInv, LedgerTypeOK
  <2>3. IsSeq(page') /\ Len(page') <= MaxLines /\ Len(page') \in Nat
    BY <1>1, PageKeeps, SeqHas
  <2>4. LedgerTypeOK'
    BY <2>1, <2>2, <2>3 DEF LedgerInv, LedgerTypeOK, readVars
  <2> QED
    BY <2>1, <2>3, <2>4 DEF LedgerInv, readVars, ReadSoFar, SavedIsChained, Chained, HashBefore, IsSeq
<1>2. CASE BeginRead
  <2>1. /\ reading' = "lines" /\ i' = 0 /\ prev_expected' = ZERO /\ next_exp' = 1
        /\ seen' = {} /\ started' = {} /\ judged' = {} /\ errors' \in BOOLEAN
        /\ page' = page /\ edited' = edited /\ saved' = saved
    BY <1>2 DEF BeginRead, pageVars
  <2>2. LedgerTypeOK'
    BY <1>0, <2>1 DEF LedgerInv, LedgerTypeOK
  <2>3. prev_expected' = HashBefore(page, i + 1)'
    BY <2>1 DEF HashBefore
  <2>4. ReadSoFar'
    <3>1. Summed(i)'
      BY <2>1 DEF Summed, ExpsOf
    <3> QED
      BY <2>1, <3>1 DEF ReadSoFar, Chained
  <2> QED
    BY <2>1, <2>2, <2>3, <2>4 DEF LedgerInv, SavedIsChained, Chained, HashBefore, IsSeq
<1>3. CASE ReadTorn \/ ReadRow
  BY <1>3, LineKeeps
<1>4. CASE EndRead
  <2>1. /\ reading = "lines" /\ i = Len(page) /\ reading' = IF errors THEN "FAIL" ELSE "OK"
        /\ page' = page /\ edited' = edited /\ saved' = saved
        /\ UNCHANGED <<i, prev_expected, seen, started, judged, next_exp, errors>>
    BY <1>4 DEF EndRead, pageVars
  <2>2. LedgerTypeOK'
    BY <2>1 DEF LedgerInv, LedgerTypeOK
  <2>3. /\ Summed(i)' <=> Summed(i)
        /\ Chained(page, i)' <=> Chained(page, i)
        /\ \A k : InOrder(page, k)' <=> InOrder(page, k)
    <3>1. Summed(i)' <=> Summed(i)
      BY <2>1 DEF Summed, ExpsOf
    <3>2. Chained(page, i)' <=> Chained(page, i)
      BY <2>1 DEF Chained, HashBefore
    <3>3. \A k : InOrder(page, k)' <=> InOrder(page, k)
      BY <2>1 DEF InOrder
    <3> QED
      BY <3>1, <3>2, <3>3
  <2>4. ReadSoFar'
    BY <2>1, <2>3 DEF LedgerInv, ReadSoFar
  <2> QED
    BY <2>1, <2>2, <2>4 DEF LedgerInv, SavedIsChained, Chained, HashBefore, IsSeq
<1>5. CASE Leave
  <2>1. /\ reading' = "no" /\ i' = 0 /\ page' = page /\ edited' = edited
        /\ seen' = {} /\ started' = {} /\ judged' = {} /\ errors' \in BOOLEAN
        /\ (reading = "OK" /\ saved' = page) \/ saved' = saved
    BY <1>5 DEF Leave
  <2>2. LedgerTypeOK'
    BY <1>0, <2>1 DEF LedgerInv, LedgerTypeOK
  <2>3. SavedIsChained'
    <3>1. CASE saved' = saved
      BY <3>1 DEF LedgerInv, SavedIsChained, Chained, HashBefore
    <3>2. CASE reading = "OK" /\ saved' = page
      <4>1. Chained(page, Len(page))
        BY <3>2 DEF LedgerInv, ReadSoFar
      <4> QED
        BY <3>2, <4>1 DEF SavedIsChained, Chained, HashBefore
    <3> QED
      BY <2>1, <3>1, <3>2
  <2> QED
    BY <1>0, <2>1, <2>2, <2>3 DEF LedgerInv, ReadSoFar, IsSeq
<1>6. CASE UNCHANGED ledgerVars
  <2>1. /\ page' = page /\ edited' = edited /\ saved' = saved /\ reading' = reading /\ i' = i
        /\ prev_expected' = prev_expected /\ seen' = seen /\ started' = started
        /\ judged' = judged /\ next_exp' = next_exp /\ errors' = errors
    BY <1>6 DEF ledgerVars, pageVars, readVars
  <2>2. LedgerTypeOK'
    BY <2>1 DEF LedgerInv, LedgerTypeOK
  <2>3. /\ IsSeq(page)' /\ IsSeq(saved)' /\ (reading = "no" => i = 0)'
        /\ (reading = "lines" => prev_expected = HashBefore(page, i + 1))'
        /\ (reading = "OK" => ~ errors /\ i = Len(page))'
    BY <2>1 DEF LedgerInv
  <2>4. ReadSoFar'
    <3>1. Summed(i) => Summed(i)'
      BY <2>1 DEF Summed, ExpsOf
    <3> QED
      BY <2>1, <3>1 DEF LedgerInv, ReadSoFar
  <2>5. SavedIsChained'
    BY <2>1 DEF LedgerInv, SavedIsChained
  <2> QED
    BY <2>2, <2>3, <2>4, <2>5 DEF LedgerInv
<1> QED
  BY <1>1, <1>2, <1>3, <1>4, <1>5, <1>6 DEF LedgerNext

LEMMA LedgerBegins == LedgerInit => LedgerInv
<1> SUFFICES ASSUME LedgerInit PROVE LedgerInv
  OBVIOUS
<1>1. << >> \in Seq({}) /\ Len(<< >>) = 0
  BY EmptySeq
<1>2. page = << >> /\ saved = << >> /\ reading = "no" /\ i = 0
  BY DEF LedgerInit
<1>3. LedgerTypeOK
  <2>1. edited \in BOOLEAN /\ errors \in BOOLEAN
    BY DEF LedgerInit
  <2>2. seen = {} /\ started = {} /\ judged = {}
    BY DEF LedgerInit
  <2> QED
    BY <1>1, <1>2, <2>1, <2>2, PagesAssumption DEF LedgerTypeOK
<1> QED
  BY <1>1, <1>2, <1>3 DEF LedgerInv, IsSeq, ReadSoFar, SavedIsChained, Chained

\* While pages are published, changed and read, the invariant holds.
LEMMA LedgerInductive == LedgerSpec => []LedgerInv
<1>1. LedgerInv /\ [LedgerNext]_ledgerVars => LedgerInv'
  BY StepKeeps
<1> QED
  BY LedgerBegins, <1>1, PTL DEF LedgerSpec

\* Two chained pages that agree in a line agree in all lines before it.
LEMMA SameBefore ==
  ASSUME NEW a, NEW b, NEW n \in Nat, Chained(a, n), Chained(b, n), n > 0 => a[n] = b[n]
  PROVE  \A k \in 1 .. n : a[k] = b[k]
<1> DEFINE Same == {d \in 0 .. n : d = n \/ a[n - d] = b[n - d]}
<1>1. 0 \in Same
  OBVIOUS
<1>2. ASSUME NEW d \in 0 .. n - 1, d \in Same PROVE d + 1 \in Same
  <2>1. d + 1 \in 0 .. n /\ n - d \in 1 .. n /\ n - (d + 1) = (n - d) - 1
    OBVIOUS
  <2>2. CASE d + 1 = n
    BY <2>1, <2>2
  <2>3. CASE d + 1 # n
    <3>1. n - d # 1 /\ d # n
      BY <2>3
    <3>2. a[n - d] = b[n - d]
      BY <1>2, <3>1
    <3>3. HashBefore(a, n - d) = HashBefore(b, n - d)
      BY <2>1, <3>2 DEF Chained
    <3>4. <<a[(n - d) - 1]>> = <<b[(n - d) - 1]>>
      BY <3>1, <3>3 DEF HashBefore, LineHash
    <3> QED
      BY <2>1, <3>4
  <2> QED
    BY <2>2, <2>3
<1>3. 0 .. n \subseteq Same
  <2> HIDE DEF Same
  <2> QED
    BY <1>1, <1>2, UpTo
<1> SUFFICES ASSUME NEW k \in 1 .. n PROVE a[k] = b[k]
  OBVIOUS
<1>4. n - k \in 0 .. n /\ n - k # n /\ n - (n - k) = k
  OBVIOUS
<1>5. n - k \in Same
  BY <1>3, <1>4
<1> QED
  BY <1>4, <1>5

\* verify_ledger.py keeps its sets and its place in step with the lines.
THEOREM LedgerTypeCorrect == LedgerSpec => []LedgerTypeOK
<1>1. LedgerInv => LedgerTypeOK
  BY DEF LedgerInv
<1> QED
  BY <1>1, LedgerInductive, PTL

\* A page that verify_ledger.py accepts is in order, experiment by experiment,
\* and up to the line with the saved head it is the page that was saved.
THEOREM AcceptedIsRight == LedgerSpec => []AcceptedIsPublished
<1>1. LedgerInv => AcceptedIsPublished
  <2> SUFFICES ASSUME LedgerInv, reading = "OK"
               PROVE  /\ Ordered(page)
                      /\ saved # << >> =>
                           \A k \in DOMAIN page :
                             LineHash(page[k]) = HeadHash(saved) => SubSeq(page, 1, k) = saved
    BY DEF AcceptedIsPublished
  <2>1. /\ Len(page) \in Nat /\ DOMAIN page = 1 .. Len(page)
        /\ Chained(page, Len(page)) /\ \A k \in 1 .. Len(page) : InOrder(page, k)
    BY SeqHas DEF LedgerInv, ReadSoFar
  <2>2. Ordered(page)
    BY <2>1 DEF Ordered
  <2>3. ASSUME saved # << >>, NEW k \in DOMAIN page, LineHash(page[k]) = HeadHash(saved)
        PROVE  SubSeq(page, 1, k) = saved
    <3> DEFINE m == Len(saved)
    <3>1. PICK S : saved \in Seq(S)
      BY DEF LedgerInv, IsSeq
    <3>2. m \in Nat \ {0} /\ m \in 1 .. m
      BY <2>3, <3>1, EmptySeq
    <3>3. page[k] = saved[m]
      <4>1. <<page[k]>> = <<saved[m]>>
        BY <2>3 DEF LineHash, HeadHash, Last
      <4> QED
        BY <4>1
    <3>4. Chained(saved, m)
      BY DEF LedgerInv, SavedIsChained
    <3>5. k = m /\ k \in 1 .. Len(page)
      BY <2>1, <3>2, <3>3, <3>4 DEF Chained
    <3>6. Chained(page, m)
      BY <2>1, <3>2, <3>5 DEF Chained
    <3>7. \A j \in 1 .. m : page[j] = saved[j]
      BY <3>2, <3>3, <3>4, <3>5, <3>6, SameBefore
    <3>8. \A j \in 1 .. m : page[j] \in S
      BY <3>1, <3>7, ElementOfSeq
    <3>9. /\ SubSeq(page, 1, m) \in Seq(S) /\ Len(SubSeq(page, 1, m)) = m
          /\ \A j \in 1 .. m : SubSeq(page, 1, m)[j] = page[j]
      <4> HIDE DEF m
      <4>1. /\ SubSeq(page, 1, m) \in Seq(S)
            /\ Len(SubSeq(page, 1, m)) = IF 1 <= m THEN m - 1 + 1 ELSE 0
            /\ \A j \in 1 .. m - 1 + 1 : SubSeq(page, 1, m)[j] = page[1 + j - 1]
        BY <3>2, <3>8, SubSeqProperties
      <4>2. m - 1 + 1 = m /\ 1 <= m /\ \A j \in 1 .. m : 1 + j - 1 = j
        BY <3>2
      <4> QED
        BY <4>1, <4>2
    <3>10. SubSeq(page, 1, m) = saved
      BY <3>1, <3>7, <3>9, SeqEqual
    <3> QED
      BY <3>5, <3>10
  <2> QED
    BY <2>2, <2>3
<1> QED
  BY <1>1, LedgerInductive, PTL

-----------------------------------------------------------------------------
(* The conformance runner.                                                 *)

Reasons == {"spawn", "write", "timeout", "read", "exit", "ok", "digest"}

Outcomes == [why : Reasons, said : Seq(Lines), exit : {"none", "running", "ok", "bad"},
             input : {"empty", "full", "read", "closed"}, exited : {"no", "early", "gap", "late"}]

\* What a state has besides TypeOK: a candidate that has exited did so with one
\* of the two statuses, and its lines are lines; while the runner is at the clock,
\* an exit has come since try_wait.
Shape ==
  /\ status \in {"none", "running", "ok", "bad"}
  /\ stdin \in {"empty", "full", "read", "closed"}
  /\ stdout \in Seq(Lines)
  /\ results \in Seq(Outcomes)
  /\ exited \in {"no", "early", "gap", "late"}
  /\ pc = "clock" /\ status # "running" => exited \in {"gap", "late"}
  /\ strays \in Nat
  /\ pc # "done" => Len(results) < Vectors

IInv == TypeOK /\ Shape

-----------------------------------------------------------------------------
\* A vector that is done with adds one result, and a state as at the start.
LEMMA ConcludeShape ==
  ASSUME IInv, pc # "done",
         NEW why \in Reasons,
         Conclude(why), strays' \in Nat
  PROVE  IInv'
<1>1. results' \in Seq(Outcomes) /\ Len(results') = Len(results) + 1
  <2> DEFINE outcome == [why |-> why, said |-> stdout, exit |-> status,
                         input |-> stdin, exited |-> exited]
  <2>1. outcome \in Outcomes
    BY DEF IInv, Shape, Outcomes
  <2>2. results' = Append(results, outcome) /\ results \in Seq(Outcomes)
    BY DEF Conclude, IInv, Shape
  <2> QED BY ONLY <2>1, <2>2
<1>2. Len(results) \in Nat /\ Vectors \in Nat /\ Len(results) < Vectors
  BY SizesAssumption DEF IInv, Shape
<1>3. Len(results') <= Vectors /\ (pc' = "done" <=> Len(results') = Vectors)
      /\ pc' \in {"done", "spawn"}
  BY <1>1, <1>2 DEF Conclude
<1>4. TypeOK'
  BY <1>3, <1>2, SizesAssumption DEF Conclude, TypeOK
<1>5. << >> \in Seq(Lines)
  OBVIOUS
<1>6. exited' \in {"no"} /\ status' \in {"none"} /\ stdin' \in {"empty"} /\ stdout' = << >>
  BY DEF Conclude
<1>7. pc' # "done" => Len(results') < Vectors
  BY <1>1, <1>2, <1>3
<1>9. /\ exited' \in {"no", "early", "gap", "late"}
      /\ status' \in {"none", "running", "ok", "bad"}
      /\ stdin' \in {"empty", "full", "read", "closed"}
      /\ stdout' \in Seq(Lines)
      /\ pc' # "clock"
  BY <1>3, <1>5, <1>6
<1>8. Shape'
  BY <1>1, <1>7, <1>9 DEF Shape
<1> QED BY <1>4, <1>8 DEF IInv

\* Every step keeps the shape.
LEMMA StepShape ==
  ASSUME IInv, [Next]_vars
  PROVE  IInv'
<1> USE DEF IInv
<1>1. ASSUME Conclude("spawn"), pc = "spawn", strays' = strays PROVE IInv'
  BY <1>1, ConcludeShape DEF Shape, Reasons
<1>2. CASE Spawn
  BY <1>2 DEF Spawn, TypeOK, Shape
<1>3. CASE SpawnFails
  BY <1>1, <1>3 DEF SpawnFails
<1>4. CASE Write
  BY <1>4 DEF Write, TypeOK, Shape
<1>5. CASE WriteFails
  BY <1>5, ConcludeShape DEF WriteFails, Shape, Reasons
<1>6. CASE Exited
  BY <1>6 DEF Exited, TypeOK, Shape, candidate
<1>7. CASE TimeOut
  BY <1>7, ConcludeShape DEF TimeOut, Shape, Reasons
<1>18. CASE StillRuns
  BY <1>18 DEF StillRuns, TypeOK, Shape, candidate
<1>19. CASE Sleep
  BY <1>19 DEF Sleep, TypeOK, Shape
<1>8. CASE Judge
  BY <1>8, ConcludeShape DEF Judge, Shape, Reasons
<1>9. CASE Elapse
  BY <1>9 DEF Elapse, TypeOK, Shape, candidate
<1>10. CASE ReadInput
  BY <1>10 DEF ReadInput, TypeOK, Shape
<1>11. CASE CloseInput
  BY <1>11 DEF CloseInput, TypeOK, Shape
<1>12. ASSUME NEW line \in Lines, Say(line) PROVE IInv'
  <2>1. stdout' \in Seq(Lines) /\ Len(stdout') = Len(stdout) + 1 /\ Len(stdout) \in Nat
    BY <1>12 DEF Say, Shape
  <2>2. Len(stdout') <= Capacity
    BY <1>12, <2>1, SizesAssumption DEF Say
  <2> QED BY <1>12, <2>1, <2>2 DEF Say, TypeOK, Shape
<1>13. CASE LeaveHelper
  BY <1>13 DEF LeaveHelper, TypeOK, Shape
<1>14. CASE HelperEnds
  BY <1>14 DEF HelperEnds, TypeOK, Shape
<1>15. ASSUME NEW code \in {"ok", "bad"}, Exit(code) PROVE IInv'
  BY <1>15 DEF Exit, TypeOK, Shape
<1>16. CASE StrayEnds
  BY <1>16 DEF StrayEnds, TypeOK, Shape, candidate
<1>17. CASE UNCHANGED vars
  BY <1>17 DEF vars, TypeOK, Shape
<1> QED BY <1>2, <1>3, <1>4, <1>5, <1>6, <1>7, <1>8, <1>9, <1>10, <1>11, <1>12, <1>13,
           <1>14, <1>15, <1>16, <1>17, <1>18, <1>19 DEF Next, Runner, Candidate

\* The shape holds in every state.
THEOREM Inductive == Spec => []IInv
<1>0. << >> \in Seq(Lines) /\ << >> \in Seq(Outcomes) /\ Len(<< >>) = 0
  OBVIOUS
<1>1. Init => IInv
  <2>1. Init => TypeOK
    BY SizesAssumption DEF Init, TypeOK
  <2>2. Init => Shape
    <3> SUFFICES ASSUME Init PROVE Shape
      OBVIOUS
    <3>1. stdout \in Seq(Lines) /\ results \in Seq(Outcomes) /\ Len(results) = 0
      BY <1>0 DEF Init
    <3>2. exited \in {"no"} /\ pc # "clock" /\ strays \in Nat
      BY DEF Init
    <3>4. Len(results) < Vectors
      BY <3>1, SizesAssumption
    <3>3. status \in {"none"} /\ stdin \in {"empty"}
      BY DEF Init
    <3> QED BY <3>1, <3>2, <3>3, <3>4 DEF Shape
  <2> QED BY <2>1, <2>2 DEF IInv
<1>2. IInv /\ [Next]_vars => IInv'
  BY StepShape
<1> QED BY <1>1, <1>2, PTL DEF Spec

\* TypeOK of Conformance holds: the runner's view and the candidate's agree.
THEOREM TypeCorrect == Spec => []TypeOK
<1>1. IInv => TypeOK
  BY DEF IInv
<1> QED BY <1>1, Inductive, PTL

-----------------------------------------------------------------------------
\* A PASS is earned by a candidate that exited with 0 and gave the pinned
\* digest first: PassIsEarned of Conformance holds.
THEOREM PassesAreEarned == Spec => []PassIsEarned
<1>1. Init => PassIsEarned
  BY DEF Init, PassIsEarned
<1>2. IInv /\ PassIsEarned /\ [Next]_vars => PassIsEarned'
  <2> SUFFICES ASSUME IInv, PassIsEarned, [Next]_vars PROVE PassIsEarned'
    OBVIOUS
  <2>1. ASSUME NEW why, Conclude(why),
               why = "ok" => status = "ok" /\ FirstDigest(stdout, "right")
        PROVE  PassIsEarned'
    <3> DEFINE Earned(r) == r.why = "ok" => r.exit = "ok" /\ FirstDigest(r.said, "right")
               r == [why |-> why, said |-> stdout, exit |-> status,
                     input |-> stdin, exited |-> exited]
    <3>1. results \in Seq(Outcomes) /\ results' = Append(results, r)
      BY <2>1 DEF Conclude, IInv, Shape
    <3>2. r.why = why /\ r.exit = status /\ r.said = stdout
      OBVIOUS
    <3> HIDE DEF r
    <3>3. /\ DOMAIN results' = 1 .. Len(results) + 1 /\ results'[Len(results) + 1] = r
          /\ \A k \in 1 .. Len(results) : k \in DOMAIN results /\ results'[k] = results[k]
          /\ \A k \in 1 .. Len(results) + 1 : k \in 1 .. Len(results) \/ k = Len(results) + 1
      BY <3>1
    <3>4. Earned(r) /\ \A k \in DOMAIN results : Earned(results[k])
      BY <2>1, <3>2 DEF PassIsEarned
    <3> HIDE DEF Earned
    <3>5. \A k \in DOMAIN results' : Earned(results'[k])
      BY <3>3, <3>4
    <3> QED BY <3>5 DEF PassIsEarned, FirstDigest, Earned
  <2>2. ASSUME Judge, Digest = "right" PROVE FirstDigest(stdout, "right")
    <3> DEFINE Found == {u \in DOMAIN stdout : stdout[u] \in {"right", "wrong"}}
    <3>1. Found # {} /\ Found \in SUBSET Nat
      <4>1. Found # {}
        BY <2>2 DEF Digest
      <4>2. DOMAIN stdout = 1 .. Len(stdout) /\ Len(stdout) \in Nat
        BY DEF IInv, Shape
      <4> QED BY <4>1, <4>2
    <3>2. PICK u \in Found : u = (CHOOSE k \in Found : \A j \in Found : k <= j)
                            /\ \A j \in Found : u <= j
      BY <3>1, LeastNat
    <3>3. stdout[u] = "right"
      BY <2>2, <3>1, <3>2 DEF Digest
    <3> QED BY <3>2, <3>3 DEF FirstDigest, IInv, Shape
  <2>3. CASE Judge
    <3>1. status \in {"ok", "bad"}
      BY <2>3 DEF Judge, IInv, TypeOK, Shape
    <3> QED BY <2>1, <2>2, <2>3, <3>1 DEF Judge
  <2>4. CASE SpawnFails \/ WriteFails \/ TimeOut
    BY <2>1, <2>4 DEF SpawnFails, WriteFails, TimeOut
  <2>5. ASSUME UNCHANGED results PROVE PassIsEarned'
    BY <2>5 DEF PassIsEarned, FirstDigest
  <2> QED BY <2>3, <2>4, <2>5 DEF Next, Runner, Candidate, Spawn, Write, Exited, StillRuns, Sleep, Elapse,
            ReadInput, CloseInput, Say, LeaveHelper, HelperEnds, Exit, StrayEnds, vars
<1> QED BY <1>1, <1>2, Inductive, PTL DEF Spec

\* A candidate that kept to the protocol and was in time passes, whenever the
\* runner gets to look, or is timed out by a turn of the loop during which it exited
\* and the time ended: ConformingFailsInGapOnly of Conformance holds.
THEOREM ConformingFailsOnlyUnseen == Spec => []ConformingFailsInGapOnly
<1> DEFINE Just(r) == Conforming(r) => (r.why = "ok" \/ (r.why = "timeout" /\ r.exited = "gap"))
<1>1. Init => ConformingFailsInGapOnly
  BY DEF Init, ConformingFailsInGapOnly
<1>2. IInv /\ ConformingFailsInGapOnly /\ [Next]_vars => ConformingFailsInGapOnly'
  <2> SUFFICES ASSUME IInv, ConformingFailsInGapOnly, [Next]_vars PROVE ConformingFailsInGapOnly'
    OBVIOUS
  <2>1. ASSUME NEW why, Conclude(why),
               Just([why |-> why, said |-> stdout, exit |-> status,
                     input |-> stdin, exited |-> exited])
        PROVE  ConformingFailsInGapOnly'
    <3> DEFINE r == [why |-> why, said |-> stdout, exit |-> status,
                     input |-> stdin, exited |-> exited]
    <3>1. results \in Seq(Outcomes) /\ results' = Append(results, r)
      BY <2>1 DEF Conclude, IInv, Shape
    <3>2. Just(r) /\ \A k \in DOMAIN results : Just(results[k])
      BY <2>1 DEF ConformingFailsInGapOnly
    <3> HIDE DEF r, Just
    <3>3. /\ DOMAIN results' = 1 .. Len(results) + 1 /\ results'[Len(results) + 1] = r
          /\ \A k \in 1 .. Len(results) : k \in DOMAIN results /\ results'[k] = results[k]
          /\ \A k \in 1 .. Len(results) + 1 : k \in 1 .. Len(results) \/ k = Len(results) + 1
      BY <3>1
    <3>4. \A k \in DOMAIN results' : Just(results'[k])
      BY <3>2, <3>3
    <3> QED BY <3>4 DEF ConformingFailsInGapOnly, Just, Conforming, FirstDigest
  <2>2. ASSUME FirstDigest(stdout, "right") PROVE Digest = "right"
    <3> DEFINE Found == {u \in DOMAIN stdout : stdout[u] \in {"right", "wrong"}}
    <3>1. PICK u \in DOMAIN stdout :
            stdout[u] = "right" /\ \A j \in 1 .. u - 1 : stdout[j] \notin {"right", "wrong"}
      BY <2>2 DEF FirstDigest
    <3>2. u \in Found /\ Found \in SUBSET Nat /\ \A j \in Found : u <= j
      BY <3>1 DEF IInv, Shape
    <3>3. (CHOOSE k \in Found : \A j \in Found : k <= j) = u
      BY <3>2
    <3> QED BY <3>1, <3>2, <3>3 DEF Digest
  <2>3. CASE Judge
    <3> DEFINE why == IF "bytes" \in {stdout[u] : u \in DOMAIN stdout} THEN "read"
                      ELSE IF status = "bad" THEN "exit"
                      ELSE IF Digest = "right" THEN "ok" ELSE "digest"
               r == [why |-> why, said |-> stdout, exit |-> status,
                     input |-> stdin, exited |-> exited]
    <3>1. Conclude(why)
      BY <2>3 DEF Judge
    <3>2. ASSUME Conforming(r) PROVE why = "ok"
      <4>1. status = "ok" /\ FirstDigest(stdout, "right") /\ \A u \in DOMAIN stdout : stdout[u] # "bytes"
        BY <3>2 DEF Conforming
      <4> QED BY <2>2, <4>1
    <3>3. r.why = why
      OBVIOUS
    <3> HIDE DEF r, why
    <3>4. Just(r)
      BY <3>2, <3>3
    <3> QED BY <2>1, <3>1, <3>4 DEF r
  <2>4. CASE TimeOut
    <3> DEFINE r == [why |-> "timeout", said |-> stdout, exit |-> status,
                     input |-> stdin, exited |-> exited]
    <3>1. Conforming(r) => status = "ok" /\ exited \in {"early", "gap"}
      BY DEF Conforming
    <3>2. status = "ok" => exited \in {"gap", "late"}
      BY <2>4 DEF TimeOut, IInv, Shape
    <3>3. Conclude("timeout") /\ Just(r)
      BY <2>4, <3>1, <3>2 DEF TimeOut
    <3> QED BY <2>1, <3>3
  <2>5. CASE SpawnFails \/ WriteFails
    <3>1. PICK why : Conclude(why)
      BY <2>5 DEF SpawnFails, WriteFails
    <3>2. stdin # "read" \/ status # "ok"
      BY <2>5 DEF SpawnFails, WriteFails, IInv, TypeOK
    <3>3. ~ Conforming([why |-> why, said |-> stdout, exit |-> status,
                        input |-> stdin, exited |-> exited])
      BY <3>2 DEF Conforming
    <3> QED BY <2>1, <3>1, <3>3
  <2>6. ASSUME UNCHANGED results PROVE ConformingFailsInGapOnly'
    BY <2>6 DEF ConformingFailsInGapOnly, Conforming, FirstDigest
  <2> QED BY <2>3, <2>4, <2>5, <2>6 DEF Next, Runner, Candidate, Spawn, Write, Exited, StillRuns,
            Sleep, Elapse, ReadInput, CloseInput, Say, LeaveHelper, HelperEnds, Exit, StrayEnds, vars
<1> QED BY <1>1, <1>2, Inductive, PTL DEF Spec

\* The vectors whose candidate would not take its input.
Unheard == {k \in DOMAIN results : results[k].why = "write"}

\* A result more adds its own index to the set, if it is such a vector.
LEMMA UnheardGrows ==
  ASSUME IInv, NEW why \in Reasons, Conclude(why)
  PROVE  /\ Cardinality(Unheard) \in Nat /\ Cardinality(Unheard') \in Nat
         /\ Cardinality(Unheard') = IF why = "write" THEN Cardinality(Unheard) + 1
                                                     ELSE Cardinality(Unheard)
<1>1. results \in Seq(Outcomes) /\ Len(results) \in Nat
  BY DEF IInv, Shape
<1>2. /\ DOMAIN results = 1 .. Len(results) /\ DOMAIN results' = 1 .. Len(results) + 1
      /\ results'[Len(results) + 1].why = why
      /\ \A k \in DOMAIN results : results'[k] = results[k]
  BY <1>1 DEF Conclude
<1>3. IsFiniteSet(Unheard)
  <2>1. IsFiniteSet(1 .. Len(results))
    BY <1>1, FS_Interval
  <2>2. Unheard \subseteq 1 .. Len(results)
    BY <1>2 DEF Unheard
  <2> QED BY <2>1, <2>2, FS_Subset
<1>4. CASE why = "write"
  <2>1. Unheard' = Unheard \cup {Len(results) + 1} /\ Len(results) + 1 \notin Unheard
    BY <1>1, <1>2, <1>4 DEF Unheard
  <2> QED BY <1>3, <1>4, <2>1, FS_AddElement, FS_CardinalityType
<1>5. CASE why # "write"
  <2>1. Unheard' = Unheard
    BY <1>1, <1>2, <1>5 DEF Unheard
  <2> QED BY <1>3, <1>5, <2>1, FS_CardinalityType
<1> QED BY <1>4, <1>5

\* No candidate that took its input outlives its vector: OneAtATime of
\* Conformance holds.
THEOREM NoneLeftRunning == Spec => []OneAtATime
<1>1. Init => OneAtATime
  <2>1. Init => Unheard = {}
    BY DEF Init, Unheard
  <2> QED BY <2>1, FS_EmptySet DEF Init, OneAtATime, Unheard
<1>2. IInv /\ OneAtATime /\ [Next]_vars => OneAtATime'
  <2> SUFFICES ASSUME IInv, OneAtATime, [Next]_vars PROVE OneAtATime'
    OBVIOUS
  <2>1. strays \in Nat /\ strays <= Cardinality(Unheard)
    BY DEF IInv, Shape, OneAtATime, Unheard
  <2>2. ASSUME NEW why \in Reasons, Conclude(why),
               strays' = strays \/ (strays' = strays + 1 /\ why = "write")
        PROVE  OneAtATime'
    <3>1. strays' <= Cardinality(Unheard')
      BY <2>1, <2>2, UnheardGrows
    <3> QED BY <3>1 DEF OneAtATime, Unheard
  <2>3. CASE SpawnFails \/ TimeOut \/ Judge
    BY <2>2, <2>3 DEF SpawnFails, TimeOut, Judge, Reasons
  <2>4. CASE WriteFails
    BY <2>2, <2>4 DEF WriteFails, Reasons
  <2>5. ASSUME UNCHANGED results, strays' = strays \/ strays' = strays - 1 PROVE OneAtATime'
    <3>1. Cardinality(Unheard) \in Nat
      <4>1. DOMAIN results = 1 .. Len(results) /\ Len(results) \in Nat
        BY DEF IInv, Shape
      <4>2. Unheard \subseteq 1 .. Len(results)
        BY <4>1 DEF Unheard
      <4>3. IsFiniteSet(1 .. Len(results))
        BY <4>1, FS_Interval
      <4> QED BY <4>2, <4>3, FS_Subset, FS_CardinalityType
    <3>2. Unheard' = Unheard
      BY <2>5 DEF Unheard
    <3> QED BY <2>1, <2>5, <3>1, <3>2 DEF OneAtATime, Unheard
  <2> QED BY <2>3, <2>4, <2>5 DEF Next, Runner, Candidate, Spawn, Write, Exited, StillRuns, Sleep, Elapse,
            ReadInput, CloseInput, Say, LeaveHelper, HelperEnds, Exit, StrayEnds, vars
<1> QED BY <1>1, <1>2, Inductive, PTL DEF Spec

-----------------------------------------------------------------------------
(* The readers of JSON.  Each is a function on the places of a text that   *)
(* its definition fixes by what comes later: that such a function exists   *)
(* is shown by going through the definition again and again, as often as   *)
(* the text has places; that the two are the same where cis2-verify        *)
(* accepts, by going back from the end of the text.                        *)
(* First the places of a text.                                             *)

LEMMA AtInside ==
  ASSUME NEW S, NEW t \in Seq(S), NEW u \in 1 .. Len(t) + 1, At(t, u) # "end"
  PROVE  u \in 1 .. Len(t) /\ At(t, u) = t[u]
<1>1. Len(t) \in Nat
  BY LenProperties
<1> QED
  BY <1>1 DEF At

\* Where Past stops.
StopsAt(t, u, symbols, j) ==
  /\ j \in u .. Len(t) + 1
  /\ At(t, j) \notin symbols
  /\ \A k \in u .. j - 1 : t[k] \in symbols

LEMMA PastStops ==
  ASSUME NEW S, NEW t \in Seq(S), NEW u \in 1 .. Len(t) + 1, NEW symbols, "end" \notin symbols
  PROVE  StopsAt(t, u, symbols, Past(t, u, symbols))
<1> DEFINE Ends == {j \in u .. Len(t) + 1 : At(t, j) \notin symbols}
<1>1. Len(t) \in Nat
  BY LenProperties
<1>2. Len(t) + 1 \in Ends
  BY <1>1 DEF At
<1>3. Ends \in SUBSET Nat /\ Ends # {}
  BY <1>1, <1>2
<1>4. PICK j \in Ends : \A k \in Ends : j <= k
  <2> HIDE DEF Ends
  <2> QED
    BY <1>3, LeastNat
<1>5. ASSUME NEW k \in u .. j - 1 PROVE t[k] \in symbols
  <2>1. k \in u .. Len(t) + 1 /\ k <= Len(t) /\ ~ (j <= k) /\ k \in Int
    BY <1>1, <1>4
  <2>2. At(t, k) \in symbols
    BY <1>4, <2>1
  <2> QED
    BY <2>1, <2>2 DEF At
<1>6. StopsAt(t, u, symbols, j)
  BY <1>4, <1>5 DEF StopsAt
<1> HIDE DEF Ends
<1> QED
  BY <1>6 DEF StopsAt, Past

LEMMA PastIs ==
  ASSUME NEW S, NEW t \in Seq(S), NEW u \in 1 .. Len(t) + 1, NEW symbols, "end" \notin symbols,
         NEW j, StopsAt(t, u, symbols, j)
  PROVE  Past(t, u, symbols) = j
<1> DEFINE p == Past(t, u, symbols)
<1>1. Len(t) \in Nat
  BY LenProperties
<1>2. StopsAt(t, u, symbols, p)
  BY PastStops
<1> HIDE DEF p
<1>3. p \in Int /\ j \in Int /\ p \in u .. Len(t) + 1 /\ j \in u .. Len(t) + 1
  BY <1>1, <1>2 DEF StopsAt
<1>4. ~ (p < j)
  <2>1. SUFFICES ASSUME p < j PROVE FALSE
    OBVIOUS
  <2>2. p \in u .. j - 1 /\ p <= Len(t)
    BY <1>1, <1>3, <2>1
  <2> QED
    BY <1>2, <2>2 DEF StopsAt, At
<1>5. ~ (j < p)
  <2>1. SUFFICES ASSUME j < p PROVE FALSE
    OBVIOUS
  <2>2. j \in u .. p - 1 /\ j <= Len(t)
    BY <1>1, <1>3, <2>1
  <2> QED
    BY <1>2, <2>2 DEF StopsAt, At
<1> QED
  BY <1>3, <1>4, <1>5 DEF p

LEMMA SkipStops ==
  ASSUME NEW S, NEW t \in Seq(S), NEW u \in 1 .. Len(t) + 1
  PROVE  /\ StopsAt(t, u, Blanks, Skip(t, u))
         /\ SkipWs(t, u) = Skip(t, u)
         /\ Skip(t, u) \in u .. Len(t) + 1
         /\ Skip(t, u) \in 1 .. Len(t) + 1
         /\ SkipWs(t, u) \in u .. Len(t) + 1
         /\ SkipWs(t, u) \in 1 .. Len(t) + 1
         /\ Skip(t, Skip(t, u)) = Skip(t, u)
<1>1. Len(t) \in Nat
  BY LenProperties
<1>2. "end" \notin Blanks
  BY DEF Blanks
<1>3. StopsAt(t, u, Blanks, Skip(t, u))
  BY <1>2, PastStops DEF Skip
<1>4. Skip(t, u) \in u .. Len(t) + 1 /\ Skip(t, u) \in 1 .. Len(t) + 1
  BY <1>1, <1>3 DEF StopsAt
<1>5. StopsAt(t, Skip(t, u), Blanks, Skip(t, u))
  BY <1>1, <1>3, <1>4 DEF StopsAt
<1>6. Past(t, Skip(t, u), Blanks) = Skip(t, u)
  BY <1>2, <1>4, <1>5, PastIs
<1> QED
  BY <1>3, <1>4, <1>6 DEF Skip, SkipWs

-----------------------------------------------------------------------------
(* Results.                                                                *)

\* An attempt from u on that has succeeded has ended behind u.
Ended(t, r, u) ==
  /\ r.ok \in BOOLEAN
  /\ r.ok => r.i \in u + 1 .. Len(t) + 1

\* The C program's result is the Rust program's.
SameAs(c, r) == c.ok /\ c.v = r.v /\ c.i = r.i

LEMMA Prefixed ==
  ASSUME NEW r, NEW v
  PROVE  /\ r.ok => /\ Prepend(v, r) = Done(<<v>> \o r.v, r.i)
                    /\ Stored(v, r) = Value(<<v>> \o r.v, r.i)
         /\ ~ r.ok => Prepend(v, r) = r /\ Stored(v, r) = r
BY DEF Prepend, Stored, Then, And

LEMMA PrefixedEnd ==
  ASSUME NEW S, NEW t \in Seq(S), NEW k \in Nat, NEW l \in Nat, k <= l, NEW r, Ended(t, r, l), NEW v
  PROVE  Ended(t, Prepend(v, r), k) /\ Ended(t, Stored(v, r), k)
<1>1. \A x \in l + 1 .. Len(t) + 1 : x \in k + 1 .. Len(t) + 1
  <2>1. Len(t) \in Nat
    BY LenProperties
  <2> QED
    BY <2>1
<1>2. CASE r.ok
  <2>1. r.i \in k + 1 .. Len(t) + 1
    BY <1>1, <1>2 DEF Ended
  <2>2. Prepend(v, r) = Done(<<v>> \o r.v, r.i) /\ Stored(v, r) = Value(<<v>> \o r.v, r.i)
    BY <1>2, Prefixed
  <2> QED
    BY <2>1, <2>2 DEF Done, Value, Ended
<1>3. CASE ~ r.ok
  BY <1>3, Prefixed DEF Ended
<1> QED
  BY <1>2, <1>3

LEMMA PrefixedSame ==
  ASSUME NEW r, NEW c, r.ok => SameAs(c, r), NEW v, Prepend(v, r).ok
  PROVE  r.ok /\ SameAs(Stored(v, c), Prepend(v, r))
<1>1. r.ok
  BY Prefixed
<1>2. c.ok /\ c.v = r.v /\ c.i = r.i
  BY <1>1 DEF SameAs
<1>3. Prepend(v, r) = Done(<<v>> \o r.v, r.i) /\ Stored(v, c) = Value(<<v>> \o c.v, c.i)
  BY <1>1, <1>2, Prefixed
<1> QED
  BY <1>1, <1>2, <1>3 DEF Refused, Null, Done, Value, SameAs

-----------------------------------------------------------------------------
(* Strings.                                                                *)

\* The readers' functions, from every place of the text.
CharsOf(t, g) == g = [k \in 1 .. Len(t) + 1 |-> StringFrom(t, g, k)]
RawCharsOf(t, g) == g = [k \in 1 .. Len(t) + 1 |-> StringRawFrom(t, g, k)]

\* What is read from a place depends on what is read from later ones.
LEMMA StringLocal ==
  ASSUME NEW S, NEW t \in Seq(S), NEW k \in 1 .. Len(t) + 1, NEW g, NEW h,
         \A l \in k + 1 .. Len(t) + 1 : g[l] = h[l]
  PROVE  /\ StringFrom(t, g, k) = StringFrom(t, h, k)
         /\ StringRawFrom(t, g, k) = StringRawFrom(t, h, k)
<1>1. Len(t) \in Nat
  BY LenProperties
<1>2. At(t, k) # "end" => g[k + 1] = h[k + 1]
  BY <1>1, AtInside
<1>3. At(t, k) # "end" /\ At(t, k + 1) # "end" => g[k + 2] = h[k + 2]
  <2>1. SUFFICES ASSUME At(t, k) # "end", At(t, k + 1) # "end"
                 PROVE  g[k + 2] = h[k + 2]
    OBVIOUS
  <2>2. k + 1 \in 1 .. Len(t) + 1
    BY <1>1, <2>1, AtInside
  <2>3. k + 1 \in 1 .. Len(t)
    BY <2>1, <2>2, AtInside
  <2> QED
    BY <1>1, <2>3
<1>4. StringFrom(t, g, k) = StringFrom(t, h, k)
  <2>1. CASE At(t, k) = "quote" \/ At(t, k) \in Unstringed \cup {"end", Low}
    BY <2>1 DEF StringFrom, Unstringed, Low, High
  <2>2. CASE ~ (At(t, k) = "quote" \/ At(t, k) \in Unstringed \cup {"end", Low})
    BY <1>2, <1>3, <2>2 DEF StringFrom, Low
  <2> QED
    BY <2>1, <2>2
<1>5. StringRawFrom(t, g, k) = StringRawFrom(t, h, k)
  <2>1. CASE At(t, k) \in {"quote", "end", "bad escape"}
    BY <2>1 DEF StringRawFrom, High
  <2>2. CASE At(t, k) \notin {"quote", "end", "bad escape"}
    BY <1>2, <1>3, <2>2 DEF StringRawFrom, Low
  <2> QED
    BY <2>1, <2>2
<1> QED
  BY <1>4, <1>5

LEMMA CharsExist ==
  ASSUME NEW S, NEW t \in Seq(S)
  PROVE  \E g, h : CharsOf(t, g) /\ RawCharsOf(t, h)
<1> DEFINE n == Len(t)
           Solve(g, h, m) == \A k \in n + 1 - m .. n + 1 :
                               g[k] = StringFrom(t, g, k) /\ h[k] = StringRawFrom(t, h, k)
           Reached == {m \in 0 .. n : \E g, h : Solve(g, h, m)}
           Chars(g) == [k \in 1 .. n + 1 |-> StringFrom(t, g, k)]
           Raw(h) == [k \in 1 .. n + 1 |-> StringRawFrom(t, h, k)]
<1>0. n \in Nat
  BY LenProperties
<1>1. 0 \in Reached
  <2> DEFINE g == Chars(t)
             h == Raw(t)
  <2>1. g[n + 1] = StringFrom(t, t, n + 1) /\ h[n + 1] = StringRawFrom(t, t, n + 1)
    BY <1>0
  <2> HIDE DEF g, h
  <2>2. \A l \in (n + 1) + 1 .. n + 1 : t[l] = g[l] /\ t[l] = h[l]
    BY <1>0
  <2>3. n + 1 \in 1 .. n + 1
    BY <1>0
  <2>4. StringFrom(t, t, n + 1) = StringFrom(t, g, n + 1)
    BY <2>2, <2>3, StringLocal
  <2>5. StringRawFrom(t, t, n + 1) = StringRawFrom(t, h, n + 1)
    BY <2>2, <2>3, StringLocal
  <2>6. Solve(g, h, 0)
    BY <1>0, <2>1, <2>4, <2>5
  <2> QED
    BY <1>0, <2>6
\* Once more through the definition, and one more place is right.
<1>2. ASSUME NEW m \in 0 .. n, NEW g, NEW h, Solve(g, h, m)
      PROVE  \A k \in 1 .. n + 1 : k >= n - m =>
               /\ Chars(g)[k] = StringFrom(t, Chars(g), k)
               /\ Raw(h)[k] = StringRawFrom(t, Raw(h), k)
  <2> SUFFICES ASSUME NEW k \in 1 .. n + 1, k >= n - m
               PROVE  /\ Chars(g)[k] = StringFrom(t, Chars(g), k)
                      /\ Raw(h)[k] = StringRawFrom(t, Raw(h), k)
    OBVIOUS
  <2>1. \A l \in 1 .. n + 1 : Chars(g)[l] = StringFrom(t, g, l) /\ Raw(h)[l] = StringRawFrom(t, h, l)
    OBVIOUS
  <2>2. \A l \in k + 1 .. n + 1 : l \in n + 1 - m .. n + 1 /\ l \in 1 .. n + 1
    BY <1>0
  <2> HIDE DEF Chars, Raw
  <2>3. \A l \in k + 1 .. n + 1 : g[l] = Chars(g)[l] /\ h[l] = Raw(h)[l]
    BY <1>2, <2>1, <2>2
  <2>4. StringFrom(t, g, k) = StringFrom(t, Chars(g), k)
    BY <2>3, StringLocal
  <2>5. StringRawFrom(t, h, k) = StringRawFrom(t, Raw(h), k)
    BY <2>3, StringLocal
  <2> QED
    BY <2>1, <2>4, <2>5
<1>3. ASSUME NEW m \in 0 .. n - 1, m \in Reached PROVE m + 1 \in Reached
  <2>1. PICK g, h : Solve(g, h, m)
    BY <1>3
  <2>2. \A k \in n + 1 - (m + 1) .. n + 1 : k \in 1 .. n + 1 /\ k >= n - m
    BY <1>0
  <2>3. m \in 0 .. n
    BY <1>0
  <2> HIDE DEF Chars, Raw
  <2>4. \A k \in n + 1 - (m + 1) .. n + 1 : /\ Chars(g)[k] = StringFrom(t, Chars(g), k)
                                           /\ Raw(h)[k] = StringRawFrom(t, Raw(h), k)
    <3> HIDE DEF Solve, n
    <3> QED
      BY <1>2, <2>1, <2>2, <2>3
  <2>5. Solve(Chars(g), Raw(h), m + 1)
    BY <2>4
  <2> HIDE DEF Solve
  <2> QED
    BY <1>0, <2>5
<1>4. n \in Reached
  <2> HIDE DEF Reached
  <2>1. 0 .. n \subseteq Reached
    BY <1>0, <1>1, <1>3, UpTo
  <2> QED
    BY <1>0, <2>1
<1>5. PICK g, h : Solve(g, h, n)
  BY <1>4
<1>6. \A k \in 1 .. n + 1 : Chars(g)[k] = g[k] /\ Raw(h)[k] = h[k]
  BY <1>0, <1>5
<1>7. \A k \in 1 .. n + 1 : Chars(g)[k] = StringFrom(t, Chars(g), k)
                             /\ Raw(h)[k] = StringRawFrom(t, Raw(h), k)
  <2>1. n \in 0 .. n /\ \A k \in 1 .. n + 1 : k >= n - n
    BY <1>0
  <2> HIDE DEF Chars, Raw, Solve
  <2> QED
    BY <1>2, <1>5, <2>1
<1>8. Chars(g) = [k \in 1 .. n + 1 |-> Chars(g)[k]] /\ Raw(h) = [k \in 1 .. n + 1 |-> Raw(h)[k]]
  OBVIOUS
<1> HIDE DEF Chars, Raw
<1>9. /\ [k \in 1 .. n + 1 |-> Chars(g)[k]] = [k \in 1 .. n + 1 |-> StringFrom(t, Chars(g), k)]
      /\ [k \in 1 .. n + 1 |-> Raw(h)[k]] = [k \in 1 .. n + 1 |-> StringRawFrom(t, Raw(h), k)]
  BY <1>7
<1>10. CharsOf(t, Chars(g)) /\ RawCharsOf(t, Raw(h))
  BY <1>8, <1>9 DEF CharsOf, RawCharsOf
<1> QED
  BY <1>10

\* What verify3 makes of each string that cis2-verify takes.
LEMMA StringsAgree ==
  ASSUME NEW S, NEW t \in Seq(S), NEW u \in 1 .. Len(t) + 1
  PROVE  /\ Ended(t, String(t, u), u) /\ Ended(t, ParseStringRaw(t, u), u)
         /\ String(t, u).ok => SameAs(ParseStringRaw(t, u), String(t, u))
<1> DEFINE n == Len(t)
           g == CHOOSE f : CharsOf(t, f)
           h == CHOOSE f : RawCharsOf(t, f)
<1>0. n \in Nat
  BY LenProperties
<1>1. CharsOf(t, g) /\ RawCharsOf(t, h)
  BY CharsExist
<1>2. String(t, u) = IF At(t, u) = "quote" THEN g[u + 1] ELSE Refused(u)
  BY DEF String, CharsOf
<1>3. ParseStringRaw(t, u) = IF At(t, u) = "quote" THEN h[u + 1] ELSE Null(u)
  BY DEF ParseStringRaw, RawCharsOf
<1> HIDE DEF g, h
<1>4. \A k \in 1 .. n + 1 : g[k] = StringFrom(t, g, k) /\ h[k] = StringRawFrom(t, h, k)
  BY <1>1 DEF CharsOf, RawCharsOf
<1> DEFINE Right(k) == /\ Ended(t, g[k], k) /\ Ended(t, h[k], k)
                       /\ g[k].ok => SameAs(h[k], g[k])
           Reached == {m \in 0 .. n : \A k \in n + 1 - m .. n + 1 : Right(k)}
<1>5. ASSUME NEW k \in 1 .. n + 1, \A l \in k + 1 .. n + 1 : Right(l)
      PROVE  Right(k)
  <2>1. At(t, k) # "end" => k \in 1 .. n /\ At(t, k) = t[k] /\ Right(k + 1)
    <3>1. At(t, k) # "end" => k \in 1 .. n /\ At(t, k) = t[k]
      BY AtInside
    <3> HIDE DEF Right
    <3> QED
      BY <1>0, <1>5, <3>1
  <2>2. At(t, k) # "end" /\ At(t, k + 1) # "end" => k + 1 \in 1 .. n /\ Right(k + 2)
    <3>1. At(t, k) # "end" /\ At(t, k + 1) # "end" => k + 1 \in 1 .. n
      <4>1. At(t, k) # "end" => k + 1 \in 1 .. n + 1
        BY <1>0, <2>1
      <4> QED
        BY <4>1, AtInside
    <3> HIDE DEF Right
    <3> QED
      BY <1>0, <1>5, <3>1
  <2>3. CASE At(t, k) = "quote"
    <3>1. g[k] = Done(<< >>, k + 1) /\ h[k] = Value(<< >>, k + 1)
      <4>1. g[k] = Done(<< >>, k + 1)
        BY <1>4, <2>3 DEF StringFrom, Unstringed, Low, High
      <4>2. h[k] = Value(<< >>, k + 1)
        BY <1>4, <2>3 DEF StringRawFrom, High
      <4> QED
        BY <4>1, <4>2
    <3>2. k + 1 \in k + 1 .. n + 1
      BY <1>0, <2>1, <2>3
    <3>3. Ended(t, g[k], k) /\ Ended(t, h[k], k)
      BY <3>1, <3>2 DEF Refused, Null, Done, Value, Ended
    <3>4. SameAs(h[k], g[k])
      BY <3>1 DEF Refused, Null, Done, Value, SameAs
    <3> QED
      BY <3>3, <3>4
  <2>4. CASE At(t, k) = High /\ At(t, k + 1) = Low
    <3>1. g[k] = Prepend(Pair, g[k + 2])
      BY <1>4, <2>4 DEF StringFrom, Unstringed, Low, High
    <3>2. h[k] = Stored(Pair, h[k + 2])
      BY <1>4, <2>4 DEF StringRawFrom, Low, High
    <3>3. Right(k + 2) /\ k + 1 \in 1 .. n
      BY <2>2, <2>4 DEF High, Low
    <3>4. k \in Nat /\ k + 2 \in Nat /\ k <= k + 2
      BY <1>0
    <3>5. Ended(t, g[k], k) /\ Ended(t, h[k], k)
      BY <3>1, <3>2, <3>3, <3>4, PrefixedEnd
    <3> QED
      BY <3>1, <3>2, <3>3, <3>5, PrefixedSame
  <2>5. CASE At(t, k) \notin Unstringed \cup {"end", "quote", High, Low}
    <3>1. g[k] = Prepend(t[k], g[k + 1])
      BY <1>4, <2>5 DEF StringFrom
    <3>2. h[k] = Stored(t[k], h[k + 1])
      BY <1>4, <2>5 DEF StringRawFrom, Unstringed
    <3>3. Right(k + 1)
      BY <2>1, <2>5
    <3>4. k \in Nat /\ k + 1 \in Nat /\ k <= k + 1
      BY <1>0
    <3>5. Ended(t, g[k], k) /\ Ended(t, h[k], k)
      BY <3>1, <3>2, <3>3, <3>4, PrefixedEnd
    <3> QED
      BY <3>1, <3>2, <3>3, <3>5, PrefixedSame
  <2>6. CASE \/ At(t, k) \in Unstringed \cup {"end", Low}
             \/ At(t, k) = High /\ At(t, k + 1) # Low
    <3>1. g[k].ok = FALSE
      <4>1. CASE At(t, k) \in Unstringed \cup {"end", Low}
        <5>1. g[k] = Refused(k)
          BY <1>4, <4>1 DEF StringFrom, Unstringed, Low, High
        <5> QED
          BY <5>1 DEF Refused, Null, Done, Value
      <4>2. CASE At(t, k) = High /\ At(t, k + 1) # Low
        <5>1. g[k] = Refused(k + 1)
          BY <1>4, <4>2 DEF StringFrom, Unstringed, Low, High
        <5> QED
          BY <5>1 DEF Refused, Null, Done, Value
      <4> QED
        BY <2>6, <4>1, <4>2
    <3>2. Ended(t, h[k], k)
      <4>1. CASE At(t, k) \in {"end", "bad escape"}
        <5>1. h[k] = Null(k)
          BY <1>4, <4>1 DEF StringRawFrom, High
        <5> QED
          BY <5>1 DEF Refused, Null, Done, Value, Ended
      <4>2. CASE At(t, k) \notin {"end", "bad escape"}
        <5>1. h[k] = Stored(t[k], h[k + 1])
          BY <1>4, <2>6, <4>2 DEF StringRawFrom, Unstringed, Low, High
        <5>2. Right(k + 1)
          BY <2>1, <4>2
        <5>3. k \in Nat /\ k + 1 \in Nat /\ k <= k + 1
          BY <1>0
        <5> QED
          BY <5>1, <5>2, <5>3, PrefixedEnd
      <4> QED
        BY <4>1, <4>2
    <3> QED
      BY <3>1, <3>2 DEF Ended
  <2> QED
    BY <2>3, <2>4, <2>5, <2>6
<1>6. 0 .. n \subseteq Reached
  <2>1. 0 \in Reached
    <3>1. \A l \in (n + 1) + 1 .. n + 1 : Right(l)
      BY <1>0
    <3>2. Right(n + 1)
      BY <1>0, <1>5, <3>1
    <3> HIDE DEF Right
    <3> QED
      BY <1>0, <3>2
  <2>2. ASSUME NEW m \in 0 .. n - 1, m \in Reached PROVE m + 1 \in Reached
    <3> HIDE DEF Right
    <3>1. Right(n - m)
      BY <1>0, <1>5, <2>2
    <3> QED
      BY <1>0, <2>2, <3>1
  <2> HIDE DEF Reached
  <2> QED
    BY <1>0, <2>1, <2>2, UpTo
<1>7. \A k \in 1 .. n + 1 : Right(k)
  <2> HIDE DEF Right
  <2>1. n \in Reached
    BY <1>0, <1>6
  <2> QED
    BY <1>0, <2>1
<1>8. CASE At(t, u) = "quote"
  <2>1. u + 1 \in 1 .. n + 1 /\ \A x \in (u + 1) + 1 .. n + 1 : x \in u + 1 .. n + 1
    BY <1>0, <1>8, AtInside
  <2> QED
    BY <1>2, <1>3, <1>7, <1>8, <2>1 DEF Ended
<1>9. CASE At(t, u) # "quote"
  BY <1>2, <1>3, <1>9 DEF Refused, Null, Done, Value, Ended
<1> QED
  BY <1>8, <1>9

-----------------------------------------------------------------------------
(* Numbers.                                                                *)

Numeric == Digits \cup Marks

\* What stands before j, from u on, may be a number.
Spans(t, u, j) ==
  /\ j \in u + 1 .. Len(t) + 1
  /\ \A k \in u .. j - 1 : t[k] \in Numeric

\* An attempt at a number gives what it has gone over.
Numeral(t, u, r) ==
  /\ r.ok \in BOOLEAN
  /\ r.ok => Spans(t, u, r.i) /\ r.v = SubSeq(t, u, r.i - 1)

LEMMA NumericIs ==
  "end" \notin Digits /\ "end" \notin Numeric /\ "-" \notin Digits
BY DigitsAssumption DEF Numeric, Marks

\* Over digits the span grows.
LEMMA SpansOn ==
  ASSUME NEW S, NEW t \in Seq(S), NEW u \in 1 .. Len(t) + 1, NEW j \in u .. Len(t) + 1,
         \A k \in u .. j - 1 : t[k] \in Numeric
  PROVE  LET l == Past(t, j, Digits)
         IN  /\ l \in j .. Len(t) + 1 /\ At(t, l) \notin Digits
             /\ \A k \in u .. l - 1 : t[k] \in Numeric
<1> DEFINE l == Past(t, j, Digits)
<1>1. Len(t) \in Nat /\ j \in 1 .. Len(t) + 1
  BY LenProperties
<1>2. StopsAt(t, j, Digits, l)
  BY <1>1, PastStops, NumericIs
<1> HIDE DEF l
<1>3. l \in j .. Len(t) + 1 /\ At(t, l) \notin Digits /\ \A k \in j .. l - 1 : t[k] \in Digits
  BY <1>2 DEF StopsAt
<1>4. ASSUME NEW k \in u .. l - 1 PROVE t[k] \in Numeric
  <2>1. k \in u .. j - 1 \/ k \in j .. l - 1
    BY <1>1, <1>3
  <2> QED
    BY <1>3, <2>1 DEF Numeric
<1> QED
  BY <1>3, <1>4 DEF l

LEMMA SpanIsNumeral ==
  ASSUME NEW t, NEW u, NEW j, Spans(t, u, j)
  PROVE  Numeral(t, u, Done(SubSeq(t, u, j - 1), j))
<1> DEFINE w == SubSeq(t, u, j - 1)
           r == Done(w, j)
<1>1. w = SubSeq(t, u, j - 1)
  OBVIOUS
<1> HIDE DEF w
<1>2. r.ok = TRUE /\ r.i = j /\ r.v = w
  BY DEF Done
<1> HIDE DEF r
<1>3. r.ok \in BOOLEAN
  BY <1>2
<1>4. Spans(t, u, r.i)
  BY <1>2
<1>5. r.v = SubSeq(t, u, r.i - 1)
  BY <1>1, <1>2, Zenon
<1>6. Numeral(t, u, r)
  BY <1>3, <1>4, <1>5, Zenon DEF Numeral
<1> QED
  BY <1>1, <1>6, Zenon DEF r

LEMMA ExponentIs ==
  ASSUME NEW S, NEW t \in Seq(S), NEW u \in 1 .. Len(t), NEW j, Spans(t, u, j)
  PROVE  Numeral(t, u, NumberExp(t, u, j))
<1> DEFINE first == IF At(t, j + 1) \in {"+", "-"} THEN j + 2 ELSE j + 1
           last == Past(t, first, Digits)
<1>1. Len(t) \in Nat /\ j \in 1 .. Len(t) + 1 /\ j \in u + 1 .. Len(t) + 1 /\ u \in 1 .. Len(t) + 1
  BY LenProperties DEF Spans
<1>2. CASE At(t, j) # "e"
  <2>1. NumberExp(t, u, j) = Done(SubSeq(t, u, j - 1), j)
    BY <1>2 DEF NumberExp
  <2> QED
    BY <2>1, SpanIsNumeral
<1>3. CASE At(t, j) = "e"
  <2>1. j \in 1 .. Len(t) /\ t[j] = "e" /\ j + 1 \in 1 .. Len(t) + 1
    BY <1>1, <1>3, AtInside
  <2>2. At(t, j + 1) \in {"+", "-"} => j + 1 \in 1 .. Len(t) /\ t[j + 1] = At(t, j + 1)
    BY <2>1, AtInside
  <2>3. first \in j + 1 .. Len(t) + 1
    BY <1>1, <2>1, <2>2
  <2>4. ASSUME NEW k \in u .. first - 1 PROVE t[k] \in Numeric
    <3>1. k \in u .. j - 1 \/ k = j \/ (k = j + 1 /\ first = j + 2 /\ At(t, j + 1) \in {"+", "-"})
      BY <1>1
    <3> QED
      BY <2>1, <2>2, <3>1 DEF Spans, Numeric, Marks
  <2>5. first \in u .. Len(t) + 1
    BY <1>1, <2>3
  <2> HIDE DEF first
  <2>6. last \in first .. Len(t) + 1 /\ \A k \in u .. last - 1 : t[k] \in Numeric
    BY <1>1, <2>4, <2>5, SpansOn
  <2> DEFINE r == NumberExp(t, u, j)
  <2>7. r \in {Refused(first), Done(SubSeq(t, u, last - 1), last)}
    <3> USE DEF first
    <3>1. CASE last = first
      BY <1>3, <3>1 DEF NumberExp
    <3>2. CASE last # first
      BY <1>3, <3>2 DEF NumberExp
    <3> QED
      BY <3>1, <3>2
  <2> HIDE DEF last, r
  <2>8. Spans(t, u, last)
    BY <1>1, <2>3, <2>6 DEF Spans
  <2>9. CASE r = Refused(first)
    BY <2>9 DEF Numeral, Refused, r
  <2>10. CASE r = Done(SubSeq(t, u, last - 1), last)
    BY <2>8, <2>10, SpanIsNumeral DEF r
  <2> QED
    BY <2>7, <2>9, <2>10
<1> QED
  BY <1>2, <1>3

LEMMA FractionIs ==
  ASSUME NEW S, NEW t \in Seq(S), NEW u \in 1 .. Len(t), NEW j, Spans(t, u, j)
  PROVE  Numeral(t, u, NumberFrac(t, u, j))
<1> DEFINE last == Past(t, j + 1, Digits)
<1>1. Len(t) \in Nat /\ j \in 1 .. Len(t) + 1 /\ j \in u + 1 .. Len(t) + 1 /\ u \in 1 .. Len(t) + 1
  BY LenProperties DEF Spans
<1>2. CASE At(t, j) # "."
  <2>1. NumberFrac(t, u, j) = NumberExp(t, u, j)
    BY <1>2 DEF NumberFrac
  <2> QED
    BY <2>1, ExponentIs
<1>3. CASE At(t, j) = "."
  <2>1. j \in 1 .. Len(t) /\ t[j] = "." /\ j + 1 \in 1 .. Len(t) + 1
    BY <1>1, <1>3, AtInside
  <2>2. ASSUME NEW k \in u .. (j + 1) - 1 PROVE t[k] \in Numeric
    <3>1. k \in u .. j - 1 \/ k = j
      BY <1>1
    <3> QED
      BY <2>1, <3>1 DEF Spans, Numeric, Marks
  <2>3. j + 1 \in u .. Len(t) + 1
    BY <1>1, <2>1
  <2>4. last \in j + 1 .. Len(t) + 1 /\ \A k \in u .. last - 1 : t[k] \in Numeric
    BY <1>1, <2>2, <2>3, SpansOn
  <2>5. NumberFrac(t, u, j) = IF last = j + 1 THEN Refused(j + 1) ELSE NumberExp(t, u, last)
    BY <1>3 DEF NumberFrac
  <2> HIDE DEF last
  <2>6. Spans(t, u, last)
    BY <1>1, <2>4 DEF Spans
  <2>7. Numeral(t, u, NumberExp(t, u, last))
    BY <2>6, ExponentIs
  <2>8. Numeral(t, u, Refused(j + 1))
    BY DEF Numeral, Refused
  <2> QED
    BY <2>5, <2>7, <2>8
<1> QED
  BY <1>2, <1>3

LEMMA NumberIs ==
  ASSUME NEW S, NEW t \in Seq(S), NEW u \in 1 .. Len(t) + 1, At(t, u) \in Digits \cup {"-"}
  PROVE  Numeral(t, u, Number(t, u))
<1> DEFINE first == IF At(t, u) = "-" THEN u + 1 ELSE u
           last == Past(t, first, Digits)
<1>1. Len(t) \in Nat /\ u \in 1 .. Len(t) /\ At(t, u) = t[u]
  BY LenProperties, AtInside, NumericIs
<1>2. first \in u .. Len(t) + 1 /\ \A k \in u .. first - 1 : t[k] \in Numeric
  BY <1>1 DEF Numeric, Marks
<1>3. last \in first .. Len(t) + 1 /\ \A k \in u .. last - 1 : t[k] \in Numeric
  <2> HIDE DEF first
  <2> QED
    BY <1>1, <1>2, SpansOn
<1>4. Number(t, u) \in {Refused(first), NumberFrac(t, u, last)}
  <2>1. CASE last = first
    BY <2>1 DEF Number
  <2>2. CASE last # first
    BY <2>2 DEF Number
  <2> QED
    BY <2>1, <2>2
<1>5. CASE last = first
  <2>1. Number(t, u) = Refused(first)
    BY <1>5 DEF Number
  <2> QED
    BY <2>1 DEF Numeral, Refused
<1>6. CASE last # first
  <2> HIDE DEF last, first
  <2>1. Spans(t, u, last)
    BY <1>1, <1>2, <1>3, <1>6 DEF Spans
  <2>2. Numeral(t, u, NumberFrac(t, u, last))
    BY <1>1, <2>1, FractionIs
  <2>3. Numeral(t, u, Refused(first))
    BY DEF Numeral, Refused
  <2> QED
    BY <1>4, <2>2, <2>3
<1> QED
  BY <1>5, <1>6

\* verify3 takes all that may stand in a number, and cuts it at its buffer.
LEMMA NumberBranchIs ==
  ASSUME NEW S, NEW t \in Seq(S), NEW u \in 1 .. Len(t) + 1
  PROVE  /\ Ended(t, NumberBranch(t, u), u)
         /\ \A j : Spans(t, u, j) /\ At(t, j) \notin Numeric /\ j - u < NumBuf =>
              NumberBranch(t, u) = Value(SubSeq(t, u, j - 1), j)
<1> DEFINE first == IF At(t, u) \in {"-", "+"} THEN u + 1 ELSE u
           last == Past(t, first, Numeric)
<1>1. Len(t) \in Nat
  BY LenProperties
<1>2. At(t, u) \in {"-", "+"} => u \in 1 .. Len(t)
  BY AtInside
<1>3. first \in u .. Len(t) + 1 /\ first \in 1 .. Len(t) + 1
  BY <1>1, <1>2
<1>4. NumberBranch(t, u) =
        IF last = u THEN Null(u)
        ELSE Value(SubSeq(t, u, IF last - u >= NumBuf THEN u + NumBuf - 2 ELSE last - 1), last)
  BY DEF NumberBranch, Numeric
<1>5. StopsAt(t, first, Numeric, last)
  <2> HIDE DEF first
  <2> QED
    BY <1>3, PastStops, NumericIs
<1>6. Ended(t, NumberBranch(t, u), u)
  <2>1. last \in u .. Len(t) + 1
    <3> HIDE DEF first, last
    <3> QED
      BY <1>1, <1>3, <1>5 DEF StopsAt
  <2> HIDE DEF last
  <2>2. CASE last = u
    BY <1>4, <2>2 DEF Ended, Null
  <2>3. CASE last # u
    <3>1. last \in u + 1 .. Len(t) + 1
      BY <1>1, <2>1, <2>3
    <3> QED
      BY <1>4, <2>3, <3>1 DEF Ended, Value
  <2> QED
    BY <2>2, <2>3
<1>7. ASSUME NEW j, Spans(t, u, j), At(t, j) \notin Numeric, j - u < NumBuf
      PROVE  NumberBranch(t, u) = Value(SubSeq(t, u, j - 1), j)
  <2>1. j \in u + 1 .. Len(t) + 1 /\ j \in Int /\ u \in Int
    BY <1>1, <1>7 DEF Spans
  <2>2. first \in u .. u + 1
    BY <1>1
  <2> HIDE DEF first
  <2>3. j \in first .. Len(t) + 1 /\ \A k \in first .. j - 1 : k \in u .. j - 1
    BY <1>1, <2>1, <2>2
  <2>4. StopsAt(t, first, Numeric, j)
    BY <1>7, <2>3 DEF StopsAt, Spans
  <2>5. last = j
    BY <1>3, <2>4, PastIs, NumericIs
  <2> HIDE DEF last
  <2>6. j # u /\ ~ (j - u >= NumBuf)
    BY <1>7, <2>1, BufferAssumption
  <2> QED
    BY <1>4, <2>5, <2>6
<1> QED
  BY <1>6, <1>7

LEMMA NumbersAgree ==
  ASSUME NEW S, NEW t \in Seq(S), NEW u \in 1 .. Len(t) + 1, At(t, u) \in Digits \cup {"-"}
  PROVE  /\ Ended(t, Number(t, u), u)
         /\ LET r == Number(t, u)
            IN  r.ok /\ At(t, r.i) \notin Numeric /\ Len(r.v) < NumBuf =>
                  SameAs(NumberBranch(t, u), r)
<1> DEFINE r == Number(t, u)
<1>1. Len(t) \in Nat
  BY LenProperties
<1>2. Numeral(t, u, r)
  BY NumberIs
<1> HIDE DEF r
<1>3. Ended(t, r, u)
  BY <1>2 DEF Numeral, Ended, Spans
<1>4. ASSUME r.ok, At(t, r.i) \notin Numeric, Len(r.v) < NumBuf
      PROVE  SameAs(NumberBranch(t, u), r)
  <2>1. Spans(t, u, r.i) /\ r.v = SubSeq(t, u, r.i - 1)
    BY <1>2, <1>4 DEF Numeral
  <2>2. r.i \in u + 1 .. Len(t) + 1 /\ r.i - 1 \in u .. Len(t) /\ u \in Int /\ r.i \in Int
    BY <1>1, <2>1 DEF Spans
  <2>3. Len(r.v) = r.i - u
    <3>1. Len(SubSeq(t, u, r.i - 1)) = (r.i - 1) - u + 1
      BY <1>1, <2>2, SubSeqProperties
    <3> QED
      BY <2>1, <2>2, <3>1
  <2>4. NumberBranch(t, u) = Value(SubSeq(t, u, r.i - 1), r.i)
    BY <1>4, <2>1, <2>3, NumberBranchIs
  <2>5. NumberBranch(t, u) = Value(r.v, r.i)
    BY <2>1, <2>4
  <2> QED
    BY <2>5 DEF SameAs, Value
<1> QED
  BY <1>3, <1>4 DEF r

-----------------------------------------------------------------------------
(* The readers' recursion: what is read from a place depends on what is    *)
(* read from later ones, and a list on its first value.                    *)

Rank(what, u, n) == 2 * (n + 1 - u) + (IF what = "value" THEN 0 ELSE 1)

ReadDepths == 0 .. MAX_DEPTH + 1
ReadWhere(t) == {"value", "items", "fields"} \X (1 .. Len(t) + 1) \X ReadDepths
ReadIs(t, g) == g = [at \in ReadWhere(t) |-> ReadFrom(t, g, at[1], at[2], at[3])]

\* Below a rank, g and h are the same and end behind where they begin.
ReadBelow(t, g, h, m) ==
  \A what \in {"value", "items", "fields"}, u \in 1 .. Len(t) + 1, d \in ReadDepths :
    Rank(what, u, Len(t)) < m =>
      g[<<what, u, d>>] = h[<<what, u, d>>] /\ Ended(t, g[<<what, u, d>>], u)

AsObj(r) == As(LAMBDA v : [obj |-> v], r)
AsArr(r) == As(LAMBDA v : [arr |-> v], r)
AsStr(r) == As(LAMBDA v : [str |-> v], r)
AsNum(r) == As(LAMBDA v : [num |-> v], r)
AsField(key, r) == As(LAMBDA v : <<key.v, v>>, r)

LEMMA AsIs ==
  ASSUME NEW r, NEW key
  PROVE  /\ r.ok => /\ AsObj(r) = Done([obj |-> r.v], r.i) /\ AsArr(r) = Done([arr |-> r.v], r.i)
                    /\ AsStr(r) = Done([str |-> r.v], r.i) /\ AsNum(r) = Done([num |-> r.v], r.i)
                    /\ AsField(key, r) = Done(<<key.v, r.v>>, r.i)
         /\ ~ r.ok => AsObj(r) = r /\ AsArr(r) = r /\ AsStr(r) = r /\ AsNum(r) = r /\ AsField(key, r) = r
BY DEF AsObj, AsArr, AsStr, AsNum, AsField, As, Then

LEMMA EndedEarlier ==
  ASSUME NEW S, NEW t \in Seq(S), NEW k \in Nat, NEW l \in Nat, k <= l, NEW r, Ended(t, r, l)
  PROVE  Ended(t, r, k)
<1>1. \A x \in l + 1 .. Len(t) + 1 : x \in k + 1 .. Len(t) + 1
  <2>1. Len(t) \in Nat
    BY LenProperties
  <2> QED
    BY <2>1
<1> QED
  BY <1>1 DEF Ended

LEMMA AsEnded ==
  ASSUME NEW t, NEW u, NEW r, NEW key, Ended(t, r, u)
  PROVE  /\ Ended(t, AsObj(r), u) /\ Ended(t, AsArr(r), u)
         /\ Ended(t, AsStr(r), u) /\ Ended(t, AsNum(r), u) /\ Ended(t, AsField(key, r), u)
<1>1. CASE ~ r.ok
  <2>1. AsObj(r) = r /\ AsArr(r) = r /\ AsStr(r) = r /\ AsNum(r) = r /\ AsField(key, r) = r
    BY <1>1, AsIs
  <2> QED
    BY <2>1
<1>2. CASE r.ok
  <2>1. ASSUME NEW v PROVE Ended(t, Done(v, r.i), u)
    BY <1>2 DEF Ended, Done
  <2>2. /\ AsObj(r) = Done([obj |-> r.v], r.i) /\ AsArr(r) = Done([arr |-> r.v], r.i)
        /\ AsStr(r) = Done([str |-> r.v], r.i) /\ AsNum(r) = Done([num |-> r.v], r.i)
        /\ AsField(key, r) = Done(<<key.v, r.v>>, r.i)
    BY <1>2, AsIs
  <2> QED
    BY <2>1, <2>2, Zenon
<1> QED
  BY <1>1, <1>2

\* One value, by what it begins with.
LEMMA ReadValueIs ==
  ASSUME NEW t, NEW g, NEW u, NEW d
  PROVE  /\ At(t, u) = "{" => ReadValue(t, g, u, d) = AsObj(ReadList(t, g, "fields", u + 1, d, "}"))
         /\ At(t, u) = "[" => ReadValue(t, g, u, d) = AsArr(ReadList(t, g, "items", u + 1, d, "]"))
         /\ At(t, u) = "quote" => ReadValue(t, g, u, d) = AsStr(String(t, u))
         /\ At(t, u) = "true" => ReadValue(t, g, u, d) = Done([lit |-> "true"], u + 1)
         /\ At(t, u) \in Digits \cup {"-"} => ReadValue(t, g, u, d) = AsNum(Number(t, u))
         /\ At(t, u) \notin Digits \cup {"-", "{", "[", "quote", "true"} =>
              ReadValue(t, g, u, d) = Refused(u)
<1>1. Digits \cap {"{", "[", "quote", "true"} = {}
  BY DigitsAssumption
<1>2. At(t, u) = "{" => ReadValue(t, g, u, d) = AsObj(ReadList(t, g, "fields", u + 1, d, "}"))
  BY <1>1 DEF ReadValue, AsObj
<1>3. At(t, u) = "[" => ReadValue(t, g, u, d) = AsArr(ReadList(t, g, "items", u + 1, d, "]"))
  BY <1>1 DEF ReadValue, AsArr
<1>4. At(t, u) = "quote" => ReadValue(t, g, u, d) = AsStr(String(t, u))
  BY <1>1 DEF ReadValue, AsStr
<1>5. At(t, u) = "true" => ReadValue(t, g, u, d) = Done([lit |-> "true"], u + 1)
  BY <1>1 DEF ReadValue
<1>6. At(t, u) \in Digits \cup {"-"} => ReadValue(t, g, u, d) = AsNum(Number(t, u))
  BY <1>1 DEF ReadValue, AsNum
<1>7. At(t, u) \notin Digits \cup {"-", "{", "[", "quote", "true"} =>
        ReadValue(t, g, u, d) = Refused(u)
  BY DEF ReadValue
<1> QED
  BY <1>2, <1>3, <1>4, <1>5, <1>6, <1>7

\* Places behind u are below the rank of u.
LEMMA RankBelow ==
  ASSUME NEW n \in Nat, NEW u \in 1 .. n + 1, NEW j \in u .. n + 1, NEW what, NEW other
  PROVE  /\ j # u => Rank(other, j, n) < Rank(what, u, n)
         /\ what # "value" => Rank("value", j, n) < Rank(what, u, n)
         /\ Rank(what, u, n) \in 0 .. 2 * n + 1
BY DEF Rank

LEMMA ReadListLocal ==
  ASSUME NEW S, NEW t \in Seq(S), NEW g, NEW h, NEW u \in 1 .. Len(t), NEW d \in ReadDepths,
         NEW what \in {"items", "fields"}, NEW close, close # "end",
         ReadBelow(t, g, h, Rank("value", u, Len(t)))
  PROVE  /\ ReadList(t, g, what, u + 1, d, close) = ReadList(t, h, what, u + 1, d, close)
         /\ Ended(t, ReadList(t, g, what, u + 1, d, close), u)
<1> DEFINE j == Skip(t, u + 1)
<1>1. Len(t) \in Nat /\ u + 1 \in 1 .. Len(t) + 1 /\ u + 1 \in u .. Len(t) + 1 /\ u + 1 # u
      /\ u \in 1 .. Len(t) + 1
  BY LenProperties
<1>2. j \in u + 1 .. Len(t) + 1 /\ j \in 1 .. Len(t) + 1
  BY <1>1, SkipStops
<1> HIDE DEF j
<1>3. CASE At(t, j) = close
  <2>1. ReadList(t, g, what, u + 1, d, close) = Done(<< >>, j + 1)
        /\ ReadList(t, h, what, u + 1, d, close) = Done(<< >>, j + 1)
    BY <1>3 DEF ReadList, j
  <2>2. j \in 1 .. Len(t)
    BY <1>2, <1>3, AtInside
  <2>3. j + 1 \in u + 1 .. Len(t) + 1
    BY <1>1, <1>2, <2>2
  <2>4. Ended(t, Done(<< >>, j + 1), u)
    BY <2>3 DEF Ended, Done
  <2> QED
    BY <2>1, <2>4
<1>4. CASE At(t, j) # close
  <2>1. ReadList(t, g, what, u + 1, d, close) = g[<<what, u + 1, d>>]
        /\ ReadList(t, h, what, u + 1, d, close) = h[<<what, u + 1, d>>]
    BY <1>4 DEF ReadList, j
  <2>2. Rank(what, u + 1, Len(t)) < Rank("value", u, Len(t))
    BY <1>1, RankBelow
  <2>3. g[<<what, u + 1, d>>] = h[<<what, u + 1, d>>] /\ Ended(t, g[<<what, u + 1, d>>], u + 1)
    BY <1>1, <2>2 DEF ReadBelow
  <2>4. u \in Nat /\ u + 1 \in Nat /\ u <= u + 1
    BY <1>1
  <2>5. Ended(t, g[<<what, u + 1, d>>], u)
    BY <2>3, <2>4, EndedEarlier
  <2> QED
    BY <2>1, <2>3, <2>5
<1> QED
  BY <1>3, <1>4

LEMMA ReadValueLocal ==
  ASSUME NEW S, NEW t \in Seq(S), NEW g, NEW h, NEW u \in 1 .. Len(t) + 1, NEW d \in ReadDepths,
         ReadBelow(t, g, h, Rank("value", u, Len(t)))
  PROVE  ReadValue(t, g, u, d) = ReadValue(t, h, u, d) /\ Ended(t, ReadValue(t, g, u, d), u)
<1>1. CASE At(t, u) = "{"
  <2>1. u \in 1 .. Len(t)
    BY <1>1, AtInside
  <2> DEFINE l(f) == ReadList(t, f, "fields", u + 1, d, "}")
  <2>2. l(g) = l(h) /\ Ended(t, l(g), u)
    BY <2>1, ReadListLocal
  <2>3. ReadValue(t, g, u, d) = AsObj(l(g)) /\ ReadValue(t, h, u, d) = AsObj(l(h))
    BY <1>1, ReadValueIs, ZenonT(60)
  <2> HIDE DEF l
  <2> QED
    BY <2>2, <2>3, AsEnded
<1>2. CASE At(t, u) = "["
  <2>1. u \in 1 .. Len(t)
    BY <1>2, AtInside
  <2> DEFINE l(f) == ReadList(t, f, "items", u + 1, d, "]")
  <2>2. l(g) = l(h) /\ Ended(t, l(g), u)
    BY <2>1, ReadListLocal
  <2>3. ReadValue(t, g, u, d) = AsArr(l(g)) /\ ReadValue(t, h, u, d) = AsArr(l(h))
    BY <1>2, ReadValueIs, ZenonT(60)
  <2> HIDE DEF l
  <2> QED
    BY <2>2, <2>3, AsEnded
<1>3. CASE At(t, u) = "quote"
  <2>1. Ended(t, String(t, u), u)
    BY StringsAgree
  <2>2. ReadValue(t, g, u, d) = AsStr(String(t, u)) /\ ReadValue(t, h, u, d) = AsStr(String(t, u))
    BY <1>3, ReadValueIs, ZenonT(60)
  <2> QED
    BY <2>1, <2>2, AsEnded
<1>4. CASE At(t, u) = "true"
  <2>1. u \in 1 .. Len(t)
    BY <1>4, AtInside
  <2>2. u + 1 \in u + 1 .. Len(t) + 1
    BY <2>1, LenProperties
  <2>3. Ended(t, Done([lit |-> "true"], u + 1), u)
    BY <2>2 DEF Ended, Done
  <2>4. /\ ReadValue(t, g, u, d) = Done([lit |-> "true"], u + 1)
        /\ ReadValue(t, h, u, d) = Done([lit |-> "true"], u + 1)
    BY <1>4, ReadValueIs, ZenonT(60)
  <2> QED
    BY <2>3, <2>4
<1>5. CASE At(t, u) \in Digits \cup {"-"}
  <2>1. Ended(t, Number(t, u), u)
    BY <1>5, NumbersAgree
  <2>2. ReadValue(t, g, u, d) = AsNum(Number(t, u)) /\ ReadValue(t, h, u, d) = AsNum(Number(t, u))
    BY <1>5, ReadValueIs, ZenonT(60)
  <2> QED
    BY <2>1, <2>2, AsEnded
<1>6. CASE At(t, u) \notin Digits \cup {"-", "{", "[", "quote", "true"}
  <2>1. ReadValue(t, g, u, d) = Refused(u) /\ ReadValue(t, h, u, d) = Refused(u)
    BY <1>6, ReadValueIs, ZenonT(60)
  <2>2. Ended(t, Refused(u), u)
    BY DEF Ended, Refused
  <2> QED
    BY <2>1, <2>2
<1> QED
  BY <1>1, <1>2, <1>3, <1>4, <1>5, <1>6

\* What ends a list.
Closes(close) == close \in {"]", "}"}

LEMMA ReadOnLocal ==
  ASSUME NEW S, NEW t \in Seq(S), NEW g, NEW h, NEW u \in 1 .. Len(t) + 1, NEW d \in ReadDepths,
         NEW what \in {"items", "fields"}, NEW close, Closes(close), NEW r, r.ok, Ended(t, r, u),
         ReadBelow(t, g, h, Rank(what, u, Len(t)))
  PROVE  /\ ReadOn(t, g, what, r, d, close) = ReadOn(t, h, what, r, d, close)
         /\ Ended(t, ReadOn(t, g, what, r, d, close), u)
<1> DEFINE p == r.i
           j == Skip(t, p)
<1>0. Len(t) \in Nat
  BY LenProperties
<1>1. p \in u + 1 .. Len(t) + 1 /\ p \in 1 .. Len(t) + 1
  <2>1. p \in u + 1 .. Len(t) + 1
    BY DEF Ended
  <2> HIDE DEF p
  <2> QED
    BY <1>0, <2>1
<1> HIDE DEF p
<1>2. j \in u + 1 .. Len(t) + 1 /\ j \in 1 .. Len(t) + 1
  <2>1. j \in p .. Len(t) + 1 /\ j \in 1 .. Len(t) + 1
    BY <1>1, SkipStops
  <2> HIDE DEF j
  <2> QED
    BY <1>0, <1>1, <2>1
<1>3. At(t, j) # "end" => j + 1 \in u + 1 .. Len(t) + 1 /\ j + 1 \in 1 .. Len(t) + 1
  <2>1. At(t, j) # "end" => j \in 1 .. Len(t)
    BY <1>2, AtInside
  <2> HIDE DEF j
  <2> QED
    BY <1>0, <1>2, <2>1
<1> HIDE DEF j
<1>4. CASE At(t, j) = ","
  <2>1. ReadOn(t, g, what, r, d, close) = Prepend(r.v, g[<<what, j + 1, d>>])
        /\ ReadOn(t, h, what, r, d, close) = Prepend(r.v, h[<<what, j + 1, d>>])
    BY <1>4 DEF ReadOn, Closes, j, p
  <2>2. j + 1 \in u + 1 .. Len(t) + 1 /\ j + 1 \in 1 .. Len(t) + 1
    BY <1>3, <1>4
  <2>3. j + 1 \in u .. Len(t) + 1 /\ j + 1 # u /\ u \in Nat /\ j + 1 \in Nat /\ u <= j + 1
    BY <1>0, <2>2
  <2>4. Rank(what, j + 1, Len(t)) < Rank(what, u, Len(t))
    BY <1>0, <2>3, RankBelow
  <2>5. g[<<what, j + 1, d>>] = h[<<what, j + 1, d>>] /\ Ended(t, g[<<what, j + 1, d>>], j + 1)
    BY <2>2, <2>4 DEF ReadBelow
  <2>6. Ended(t, Prepend(r.v, g[<<what, j + 1, d>>]), u)
    BY <2>3, <2>5, PrefixedEnd
  <2> QED
    BY <2>1, <2>5, <2>6
<1>5. CASE At(t, j) # "," /\ At(t, j) = close
  <2>1. ReadOn(t, g, what, r, d, close) = Done(<<r.v>>, j + 1)
        /\ ReadOn(t, h, what, r, d, close) = Done(<<r.v>>, j + 1)
    BY <1>5 DEF ReadOn, j, p
  <2>2. j + 1 \in u + 1 .. Len(t) + 1
    BY <1>3, <1>5 DEF Closes
  <2>3. \A v : Ended(t, Done(v, j + 1), u)
    BY <2>2 DEF Ended, Done
  <2> QED
    BY <2>1, <2>3
<1>6. CASE At(t, j) # "," /\ At(t, j) # close
  <2>1. ReadOn(t, g, what, r, d, close) = Refused(j) /\ ReadOn(t, h, what, r, d, close) = Refused(j)
    BY <1>6 DEF ReadOn, j, p
  <2>2. Ended(t, Refused(j), u)
    BY DEF Ended, Refused
  <2> QED
    BY <2>1, <2>2
<1> QED
  BY <1>4, <1>5, <1>6

LEMMA ReadItemsLocal ==
  ASSUME NEW S, NEW t \in Seq(S), NEW g, NEW h, NEW u \in 1 .. Len(t) + 1, NEW d \in 0 .. MAX_DEPTH,
         ReadBelow(t, g, h, Rank("items", u, Len(t)))
  PROVE  ReadItems(t, g, u, d) = ReadItems(t, h, u, d) /\ Ended(t, ReadItems(t, g, u, d), u)
<1> DEFINE j == Skip(t, u)
           r == g[<<"value", j, d + 1>>]
<1>1. Len(t) \in Nat /\ d \in ReadDepths /\ d + 1 \in ReadDepths
  BY LenProperties, DepthsAssumption DEF ReadDepths
<1>2. j \in u .. Len(t) + 1 /\ j \in 1 .. Len(t) + 1
  BY SkipStops
<1>3. u \in Nat /\ j \in Nat /\ u <= j
  <2> HIDE DEF j
  <2> QED
    BY <1>1, <1>2
<1>4. r = h[<<"value", j, d + 1>>] /\ Ended(t, r, j)
  <2> HIDE DEF j
  <2>1. Rank("value", j, Len(t)) < Rank("items", u, Len(t))
    BY <1>1, <1>2, RankBelow
  <2> QED
    BY <1>1, <1>2, <2>1 DEF ReadBelow
<1>5. /\ ReadItems(t, g, u, d) = IF r.ok THEN ReadOn(t, g, "items", r, d, "]") ELSE r
      /\ ReadItems(t, h, u, d) = IF r.ok THEN ReadOn(t, h, "items", r, d, "]") ELSE r
  BY <1>4 DEF ReadItems, Then
<1> HIDE DEF j, r
<1>6. Ended(t, r, u)
  BY <1>3, <1>4, EndedEarlier
<1>7. CASE r.ok
  <2>1. Closes("]")
    BY DEF Closes
  <2>2. /\ ReadOn(t, g, "items", r, d, "]") = ReadOn(t, h, "items", r, d, "]")
        /\ Ended(t, ReadOn(t, g, "items", r, d, "]"), u)
    BY <1>1, <1>6, <1>7, <2>1, ReadOnLocal
  <2> QED
    BY <1>5, <1>7, <2>2
<1>8. CASE ~ r.ok
  BY <1>5, <1>6, <1>8
<1> QED
  BY <1>7, <1>8

LEMMA ReadFieldLocal ==
  ASSUME NEW S, NEW t \in Seq(S), NEW g, NEW h, NEW u \in 1 .. Len(t) + 1, NEW d \in 0 .. MAX_DEPTH,
         NEW key, key.ok, Ended(t, key, u), ReadBelow(t, g, h, Rank("fields", u, Len(t)))
  PROVE  ReadField(t, g, key, d) = ReadField(t, h, key, d) /\ Ended(t, ReadField(t, g, key, d), u)
<1> DEFINE j == Skip(t, key.i)
           k == Skip(t, j + 1)
           r == g[<<"value", k, d + 1>>]
<1>1. Len(t) \in Nat /\ d + 1 \in ReadDepths
      /\ key.i \in u + 1 .. Len(t) + 1 /\ key.i \in 1 .. Len(t) + 1
  BY LenProperties, DepthsAssumption DEF ReadDepths, Ended
<1>2. j \in u + 1 .. Len(t) + 1 /\ j \in 1 .. Len(t) + 1
  BY <1>1, SkipStops
<1>3. CASE At(t, j) # ":"
  <2>1. ReadField(t, g, key, d) = Refused(j) /\ ReadField(t, h, key, d) = Refused(j)
    BY <1>3 DEF ReadField
  <2>2. Ended(t, Refused(j), u)
    BY DEF Ended, Refused
  <2> QED
    BY <2>1, <2>2
<1>4. CASE At(t, j) = ":"
  <2>1. j \in 1 .. Len(t)
    BY <1>2, <1>4, AtInside
  <2>2. j + 1 \in 1 .. Len(t) + 1 /\ j + 1 \in u .. Len(t) + 1
    <3> HIDE DEF j
    <3> QED
      BY <1>1, <1>2, <2>1
  <2>3. k \in j + 1 .. Len(t) + 1 /\ k \in 1 .. Len(t) + 1
    BY <2>2, SkipStops
  <2>4. k \in u .. Len(t) + 1 /\ u \in Nat /\ k \in Nat /\ u <= k
    <3> HIDE DEF j, k
    <3> QED
      BY <1>1, <2>2, <2>3
  <2>5. ReadField(t, g, key, d) = AsField(key, r)
        /\ ReadField(t, h, key, d) = AsField(key, h[<<"value", k, d + 1>>])
    BY <1>4 DEF ReadField, AsField
  <2> HIDE DEF k
  <2>6. Rank("value", k, Len(t)) < Rank("fields", u, Len(t))
    BY <1>1, <2>4, RankBelow
  <2>7. r = h[<<"value", k, d + 1>>] /\ Ended(t, r, k)
    BY <1>1, <2>3, <2>6 DEF ReadBelow
  <2> HIDE DEF r
  <2>8. Ended(t, AsField(key, r), u)
    BY <2>4, <2>7, EndedEarlier, AsEnded
  <2> QED
    BY <2>5, <2>7, <2>8
<1> QED
  BY <1>3, <1>4

LEMMA ReadFieldsLocal ==
  ASSUME NEW S, NEW t \in Seq(S), NEW g, NEW h, NEW u \in 1 .. Len(t) + 1, NEW d \in 0 .. MAX_DEPTH,
         ReadBelow(t, g, h, Rank("fields", u, Len(t)))
  PROVE  ReadFields(t, g, u, d) = ReadFields(t, h, u, d) /\ Ended(t, ReadFields(t, g, u, d), u)
<1> DEFINE j == Skip(t, u)
           key == String(t, j)
           r(f) == IF key.ok THEN ReadField(t, f, key, d) ELSE key
<1>1. Len(t) \in Nat /\ d \in ReadDepths
  BY LenProperties, DepthsAssumption DEF ReadDepths
<1>2. j \in u .. Len(t) + 1 /\ j \in 1 .. Len(t) + 1
  BY SkipStops
<1>3. u \in Nat /\ j \in Nat /\ u <= j
  <2> HIDE DEF j
  <2> QED
    BY <1>1, <1>2
<1>4. ASSUME NEW f
      PROVE  ReadFields(t, f, u, d) = IF r(f).ok THEN ReadOn(t, f, "fields", r(f), d, "}") ELSE r(f)
  BY DEF ReadFields, Then
<1>5. Ended(t, key, u)
  <2>1. Ended(t, key, j)
    BY <1>2, StringsAgree
  <2> HIDE DEF j, key
  <2> QED
    BY <1>3, <2>1, EndedEarlier
<1> HIDE DEF j, key
<1>6. r(g) = r(h) /\ Ended(t, r(g), u)
  <2>1. CASE key.ok
    BY <1>5, <2>1, ReadFieldLocal
  <2>2. CASE ~ key.ok
    BY <1>5, <2>2
  <2> QED
    BY <2>1, <2>2
<1> HIDE DEF r
<1>7. CASE r(g).ok
  <2>0. Closes("}")
    BY DEF Closes
  <2>1. /\ ReadOn(t, g, "fields", r(g), d, "}") = ReadOn(t, h, "fields", r(g), d, "}")
        /\ Ended(t, ReadOn(t, g, "fields", r(g), d, "}"), u)
    BY <1>1, <1>6, <1>7, <2>0, ReadOnLocal
  <2>2. ReadFields(t, g, u, d) = ReadOn(t, g, "fields", r(g), d, "}")
    BY <1>4, <1>7
  <2>3. ReadFields(t, h, u, d) = ReadOn(t, h, "fields", r(g), d, "}")
    BY <1>4, <1>6, <1>7
  <2> QED
    BY <2>1, <2>2, <2>3
<1>8. CASE ~ r(g).ok
  <2>1. ReadFields(t, g, u, d) = r(g) /\ ReadFields(t, h, u, d) = r(g)
    BY <1>4, <1>6, <1>8
  <2> QED
    BY <1>6, <2>1
<1> QED
  BY <1>7, <1>8

\* From here the same is read with g as with h, and it ends behind this place.
ReadAlike(t, g, h, what, u, d) ==
  /\ ReadFrom(t, g, what, u, d) = ReadFrom(t, h, what, u, d)
  /\ Ended(t, ReadFrom(t, g, what, u, d), u)

LEMMA ReadLocal ==
  ASSUME NEW S, NEW t \in Seq(S), NEW g, NEW h, NEW what \in {"value", "items", "fields"},
         NEW u \in 1 .. Len(t) + 1, NEW d \in ReadDepths,
         ReadBelow(t, g, h, Rank(what, u, Len(t)))
  PROVE  ReadAlike(t, g, h, what, u, d)
<1> SUFFICES /\ ReadFrom(t, g, what, u, d) = ReadFrom(t, h, what, u, d)
             /\ Ended(t, ReadFrom(t, g, what, u, d), u)
  BY DEF ReadAlike
<1>1. CASE d > MAX_DEPTH
  <2>1. ReadFrom(t, g, what, u, d) = Refused(u) /\ ReadFrom(t, h, what, u, d) = Refused(u)
    BY <1>1, DepthsAssumption DEF ReadFrom, ReadDepths
  <2>2. Ended(t, Refused(u), u)
    BY DEF Ended, Refused
  <2> QED
    BY <2>1, <2>2
<1>2. CASE d <= MAX_DEPTH
  <2>1. ~ (d > MAX_DEPTH) /\ d \in 0 .. MAX_DEPTH
    BY <1>2, DepthsAssumption DEF ReadDepths
  <2>2. CASE what = "value"
    <3>1. ReadFrom(t, g, what, u, d) = ReadValue(t, g, u, d)
          /\ ReadFrom(t, h, what, u, d) = ReadValue(t, h, u, d)
      BY <1>2, <2>1, <2>2 DEF ReadFrom
    <3> QED
      BY <2>2, <3>1, ReadValueLocal
  <2>3. CASE what = "items"
    <3>1. ReadFrom(t, g, what, u, d) = ReadItems(t, g, u, d)
          /\ ReadFrom(t, h, what, u, d) = ReadItems(t, h, u, d)
      BY <1>2, <2>1, <2>3 DEF ReadFrom
    <3> QED
      BY <2>1, <2>3, <3>1, ReadItemsLocal
  <2>4. CASE what = "fields"
    <3>1. ReadFrom(t, g, what, u, d) = ReadFields(t, g, u, d)
          /\ ReadFrom(t, h, what, u, d) = ReadFields(t, h, u, d)
      BY <1>2, <2>1, <2>4 DEF ReadFrom
    <3> QED
      BY <2>1, <2>4, <3>1, ReadFieldsLocal
  <2> QED
    BY <2>2, <2>3, <2>4
<1> QED
  BY <1>1, <1>2, DepthsAssumption DEF ReadDepths

LEMMA ReadBelowLess ==
  ASSUME NEW S, NEW t \in Seq(S), NEW g, NEW h, NEW m \in Nat, NEW k \in Nat, k <= m, ReadBelow(t, g, h, m)
  PROVE  ReadBelow(t, g, h, k)
<1>1. ASSUME NEW what \in {"value", "items", "fields"}, NEW u \in 1 .. Len(t) + 1,
             Rank(what, u, Len(t)) < k
      PROVE  Rank(what, u, Len(t)) < m
  <2>1. Len(t) \in Nat
    BY LenProperties
  <2>2. Rank(what, u, Len(t)) \in 0 .. 2 * Len(t) + 1
    BY <2>1, RankBelow
  <2> DEFINE r == Rank(what, u, Len(t))
  <2>3. r \in Int /\ r < k
    BY <1>1, <2>1, <2>2
  <2> HIDE DEF r
  <2>4. r < m
    BY <2>3
  <2> QED
    BY <2>4 DEF r
<1> QED
  BY <1>1 DEF ReadBelow

LEMMA ReadUpTo ==
  ASSUME NEW S, NEW t \in Seq(S), NEW g, NEW h, NEW m \in Nat, ReadBelow(t, g, h, m),
         NEW what \in {"value", "items", "fields"}, NEW u \in 1 .. Len(t) + 1, NEW d \in ReadDepths,
         Rank(what, u, Len(t)) <= m
  PROVE  ReadAlike(t, g, h, what, u, d)
<1>1. Len(t) \in Nat /\ u \in u .. Len(t) + 1
  BY LenProperties
<1>2. Rank(what, u, Len(t)) \in 0 .. 2 * Len(t) + 1
  BY <1>1, RankBelow
<1>3. Rank(what, u, Len(t)) \in Nat
  BY <1>1, <1>2
<1>4. ReadBelow(t, g, h, Rank(what, u, Len(t)))
  BY <1>3, ReadBelowLess
<1> QED
  BY <1>4, ReadLocal

LEMMA ReadSolution ==
  ASSUME NEW S, NEW t \in Seq(S)
  PROVE  \E g : ReadIs(t, g)
<1> DEFINE n == Len(t)
           Solved(g, what, u, d) ==
             g[<<what, u, d>>] = ReadFrom(t, g, what, u, d) /\ Ended(t, g[<<what, u, d>>], u)
           Solve(g, m) ==
             \A what \in {"value", "items", "fields"}, u \in 1 .. n + 1, d \in ReadDepths :
               Rank(what, u, n) < m => Solved(g, what, u, d)
           Once(g) == [at \in ReadWhere(t) |-> ReadFrom(t, g, at[1], at[2], at[3])]
           Reached == {m \in 0 .. 2 * n + 2 : \E g : Solve(g, m)}
<1>0. n \in Nat
  BY LenProperties
<1>1. \A what \in {"value", "items", "fields"}, u \in 1 .. n + 1 : Rank(what, u, n) \in 0 .. 2 * n + 1
  <2>1. \A u \in 1 .. n + 1 : u \in u .. n + 1
    BY <1>0
  <2> QED
    BY <1>0, <2>1, RankBelow
\* Once more through the definition, and one more rank is right.
<1>2. ASSUME NEW m \in 0 .. 2 * n + 2, NEW g, Solve(g, m),
             NEW what \in {"value", "items", "fields"}, NEW u \in 1 .. n + 1, NEW d \in ReadDepths,
             Rank(what, u, n) <= m
      PROVE  Solved(Once(g), what, u, d)
  <2>1. \A w \in {"value", "items", "fields"}, j \in 1 .. n + 1, e \in ReadDepths :
          Once(g)[<<w, j, e>>] = ReadFrom(t, g, w, j, e)
    BY DEF ReadWhere
  <2> HIDE DEF Once
  <2>2. ReadBelow(t, g, Once(g), m)
    BY <1>2, <2>1 DEF ReadBelow
  <2>3. m \in Nat /\ Rank(what, u, Len(t)) <= m /\ u \in 1 .. Len(t) + 1
    BY <1>0, <1>2
  <2>4. PICK h : h = Once(g)
    OBVIOUS
  <2>5. ReadBelow(t, g, h, m)
    BY <2>2, <2>4
  <2> HIDE DEF Solve, Solved, n
  <2>6. ReadAlike(t, g, h, what, u, d)
    BY <2>3, <2>5, ReadUpTo
  <2>7. Once(g)[<<what, u, d>>] = ReadFrom(t, g, what, u, d)
    BY <2>1
  <2> QED
    BY <2>4, <2>6, <2>7 DEF Solved, ReadAlike
<1>3. 0 \in Reached
  <2>1. ASSUME NEW what \in {"value", "items", "fields"}, NEW u \in 1 .. n + 1
        PROVE  ~ (Rank(what, u, n) < 0)
    <3> HIDE DEF n
    <3> QED
      BY <1>0, <1>1
  <2>2. Solve(t, 0)
    BY <2>1
  <2> HIDE DEF Solve
  <2> QED
    BY <1>0, <2>2
<1>4. ASSUME NEW m \in 0 .. (2 * n + 2) - 1, m \in Reached PROVE m + 1 \in Reached
  <2>1. PICK g : Solve(g, m)
    BY <1>4
  <2>2. m \in 0 .. 2 * n + 2 /\ m + 1 \in 0 .. 2 * n + 2
    BY <1>0
  <2>3. ASSUME NEW what \in {"value", "items", "fields"}, NEW u \in 1 .. n + 1, Rank(what, u, n) < m + 1
        PROVE  Rank(what, u, n) <= m
    <3> HIDE DEF n
    <3> QED
      BY <1>0, <1>1, <2>2, <2>3
  <2> HIDE DEF Once, Solved
  <2>4. Solve(Once(g), m + 1)
    <3> SUFFICES ASSUME NEW what \in {"value", "items", "fields"}, NEW u \in 1 .. n + 1,
                        NEW d \in ReadDepths, Rank(what, u, n) < m + 1
                 PROVE  Solved(Once(g), what, u, d)
      OBVIOUS
    <3>1. Rank(what, u, n) <= m
      BY <2>3
    <3> HIDE DEF Solve
    <3> QED
      BY <1>2, <2>1, <2>2, <3>1
  <2> HIDE DEF Solve
  <2> QED
    BY <2>2, <2>4
<1>5. 2 * n + 2 \in Reached
  <2> HIDE DEF Reached
  <2>1. 2 * n + 2 \in Nat
    BY <1>0
  <2>2. 0 .. 2 * n + 2 \subseteq Reached
    <3> DEFINE top == 2 * n + 2
    <3>1. top \in Nat /\ 0 \in Reached /\ \A m \in 0 .. top - 1 : m \in Reached => m + 1 \in Reached
      BY <1>3, <1>4, <2>1
    <3> HIDE DEF top
    <3>2. 0 .. top \subseteq Reached
      BY <3>1, UpTo
    <3> QED
      BY <3>2 DEF top
  <2> QED
    BY <2>1, <2>2
<1>6. PICK g : Solve(g, 2 * n + 2)
  BY <1>5
<1>7. \A what \in {"value", "items", "fields"}, u \in 1 .. n + 1, d \in ReadDepths :
        Solved(Once(g), what, u, d)
  <2>1. 2 * n + 2 \in 0 .. 2 * n + 2
    BY <1>0
  <2>2. \A what \in {"value", "items", "fields"}, u \in 1 .. n + 1 : Rank(what, u, n) <= 2 * n + 2
    <3> HIDE DEF n
    <3> QED
      BY <1>0, <1>1
  <2> HIDE DEF Solve, Solved, Once
  <2> QED
    BY <1>2, <1>6, <2>1, <2>2
<1>8. \A at \in ReadWhere(t) : Once(g)[at] = ReadFrom(t, Once(g), at[1], at[2], at[3])
  <2> HIDE DEF Once
  <2> QED
    BY <1>7 DEF ReadWhere
<1>9. Once(g) = [at \in ReadWhere(t) |-> Once(g)[at]]
  OBVIOUS
<1> HIDE DEF Once
<1>10. [at \in ReadWhere(t) |-> Once(g)[at]]
         = [at \in ReadWhere(t) |-> ReadFrom(t, Once(g), at[1], at[2], at[3])]
  BY <1>8
<1>11. ReadIs(t, Once(g))
  BY <1>9, <1>10 DEF ReadIs
<1> QED
  BY <1>11

LEMMA ReadEnds ==
  ASSUME NEW S, NEW t \in Seq(S), NEW g, ReadIs(t, g)
  PROVE  \A what \in {"value", "items", "fields"}, u \in 1 .. Len(t) + 1, d \in ReadDepths :
           /\ g[<<what, u, d>>] = ReadFrom(t, g, what, u, d)
           /\ Ended(t, g[<<what, u, d>>], u)
<1> DEFINE n == Len(t)
           Solve(m) ==
             \A what \in {"value", "items", "fields"}, u \in 1 .. n + 1, d \in ReadDepths :
               Rank(what, u, n) < m => Ended(t, g[<<what, u, d>>], u)
           Reached == {m \in 0 .. 2 * n + 2 : Solve(m)}
<1>0. n \in Nat
  BY LenProperties
<1>1. \A what \in {"value", "items", "fields"}, u \in 1 .. n + 1 : Rank(what, u, n) \in 0 .. 2 * n + 1
  <2>1. \A u \in 1 .. n + 1 : u \in u .. n + 1
    BY <1>0
  <2> QED
    BY <1>0, <2>1, RankBelow
<1>2. \A what \in {"value", "items", "fields"}, u \in 1 .. n + 1, d \in ReadDepths :
        g[<<what, u, d>>] = ReadFrom(t, g, what, u, d)
  BY DEF ReadIs, ReadWhere
<1>3. 0 \in Reached
  <2>1. ASSUME NEW what \in {"value", "items", "fields"}, NEW u \in 1 .. n + 1
        PROVE  ~ (Rank(what, u, n) < 0)
    <3> HIDE DEF n
    <3> QED
      BY <1>0, <1>1
  <2>2. Solve(0)
    BY <2>1
  <2> HIDE DEF Solve
  <2> QED
    BY <1>0, <2>2
<1>4. ASSUME NEW m \in 0 .. (2 * n + 2) - 1, m \in Reached PROVE m + 1 \in Reached
  <2>1. m \in Nat /\ m + 1 \in 0 .. 2 * n + 2
    BY <1>0
  <2>2. ReadBelow(t, g, g, m)
    BY <1>4 DEF ReadBelow
  <2>3. ASSUME NEW what \in {"value", "items", "fields"}, NEW u \in 1 .. n + 1, NEW d \in ReadDepths,
               Rank(what, u, n) < m + 1
        PROVE  Ended(t, g[<<what, u, d>>], u)
    <3>1. Rank(what, u, n) <= m /\ Rank(what, u, n) \in Nat
      <4> HIDE DEF n
      <4> QED
        BY <1>0, <1>1, <2>1, <2>3
    <3>2. ReadBelow(t, g, g, Rank(what, u, n))
      BY <2>1, <2>2, <3>1, ReadBelowLess
    <3>3. Ended(t, ReadFrom(t, g, what, u, d), u)
      BY <3>2, ReadLocal DEF ReadAlike
    <3> QED
      BY <1>2, <3>3
  <2>4. Solve(m + 1)
    BY <2>3
  <2> HIDE DEF Solve
  <2> QED
    BY <2>1, <2>4
<1>5. 2 * n + 2 \in Reached
  <2> HIDE DEF Reached
  <2> DEFINE top == 2 * n + 2
  <2>1. top \in Nat /\ 0 \in Reached /\ \A m \in 0 .. top - 1 : m \in Reached => m + 1 \in Reached
    BY <1>0, <1>3, <1>4
  <2> HIDE DEF top
  <2>2. 0 .. top \subseteq Reached /\ top \in 0 .. top
    BY <2>1, UpTo
  <2>3. top \in Reached
    BY <2>2
  <2> QED
    BY <2>3 DEF top
<1>6. ASSUME NEW what \in {"value", "items", "fields"}, NEW u \in 1 .. n + 1, NEW d \in ReadDepths
      PROVE  Ended(t, g[<<what, u, d>>], u)
  <2>1. Rank(what, u, n) < 2 * n + 2
    <3> HIDE DEF n
    <3> QED
      BY <1>0, <1>1
  <2> QED
    BY <1>5, <2>1
<1> QED
  BY <1>2, <1>6

-----------------------------------------------------------------------------
(* The same of the C program's.                                            *)

ParseDepths == 0 .. JSON_MAX_DEPTH
ParseWhere(t) == {"value", "items", "pairs"} \X (1 .. Len(t) + 1) \X ParseDepths
ParseIs(t, g) == g = [at \in ParseWhere(t) |-> ParseFrom(t, g, at[1], at[2], at[3])]

\* Below a rank, g and h are the same and end behind where they begin.
ParseBelow(t, g, h, m) ==
  \A what \in {"value", "items", "pairs"}, u \in 1 .. Len(t) + 1, d \in ParseDepths :
    Rank(what, u, Len(t)) < m =>
      g[<<what, u, d>>] = h[<<what, u, d>>] /\ Ended(t, g[<<what, u, d>>], u)

TypedObj(r) == Typed(LAMBDA v : [obj |-> v], r)
TypedArr(r) == Typed(LAMBDA v : [arr |-> v], r)
TypedStr(r) == Typed(LAMBDA v : [str |-> v], r)
TypedNum(r) == Typed(LAMBDA v : [num |-> v], r)
TypedMember(key, r) == Typed(LAMBDA v : <<key.v, v>>, r)

LEMMA TypedIs ==
  ASSUME NEW r, NEW key
  PROVE  /\ r.ok => /\ TypedObj(r) = Value([obj |-> r.v], r.i) /\ TypedArr(r) = Value([arr |-> r.v], r.i)
                    /\ TypedStr(r) = Value([str |-> r.v], r.i) /\ TypedNum(r) = Value([num |-> r.v], r.i)
                    /\ TypedMember(key, r) = Value(<<key.v, r.v>>, r.i)
         /\ ~ r.ok => /\ TypedObj(r) = r /\ TypedArr(r) = r /\ TypedStr(r) = r /\ TypedNum(r) = r
                      /\ TypedMember(key, r) = r
BY DEF TypedObj, TypedArr, TypedStr, TypedNum, TypedMember, Typed, And

LEMMA TypedEnded ==
  ASSUME NEW t, NEW u, NEW r, NEW key, Ended(t, r, u)
  PROVE  /\ Ended(t, TypedObj(r), u) /\ Ended(t, TypedArr(r), u)
         /\ Ended(t, TypedStr(r), u) /\ Ended(t, TypedNum(r), u) /\ Ended(t, TypedMember(key, r), u)
<1>1. CASE ~ r.ok
  <2>1. TypedObj(r) = r /\ TypedArr(r) = r /\ TypedStr(r) = r /\ TypedNum(r) = r /\ TypedMember(key, r) = r
    BY <1>1, TypedIs
  <2> QED
    BY <2>1
<1>2. CASE r.ok
  <2>1. ASSUME NEW v PROVE Ended(t, Value(v, r.i), u)
    BY <1>2 DEF Ended, Value
  <2>2. /\ TypedObj(r) = Value([obj |-> r.v], r.i) /\ TypedArr(r) = Value([arr |-> r.v], r.i)
        /\ TypedStr(r) = Value([str |-> r.v], r.i) /\ TypedNum(r) = Value([num |-> r.v], r.i)
        /\ TypedMember(key, r) = Value(<<key.v, r.v>>, r.i)
    BY <1>2, TypedIs
  <2> QED
    BY <2>1, <2>2, Zenon
<1> QED
  BY <1>1, <1>2

\* One value, by what it begins with.
LEMMA ParseInnerIs ==
  ASSUME NEW t, NEW g, NEW u, NEW d
  PROVE  /\ At(t, u) = "{" =>
              ParseInner(t, g, u, d) = TypedObj(ParseList(t, g, "pairs", u + 1, d + 1, "}"))
         /\ At(t, u) = "[" =>
              ParseInner(t, g, u, d) = TypedArr(ParseList(t, g, "items", u + 1, d + 1, "]"))
         /\ At(t, u) = "quote" => ParseInner(t, g, u, d) = TypedStr(ParseStringRaw(t, u))
         /\ At(t, u) = "true" => ParseInner(t, g, u, d) = Value([lit |-> "true"], u + 1)
         /\ At(t, u) \notin {"{", "[", "quote", "true"} =>
              ParseInner(t, g, u, d) = TypedNum(NumberBranch(t, u))
<1>1. At(t, u) = "{" =>
        ParseInner(t, g, u, d) = TypedObj(ParseList(t, g, "pairs", u + 1, d + 1, "}"))
  BY DEF ParseInner, TypedObj
<1>2. At(t, u) = "[" =>
        ParseInner(t, g, u, d) = TypedArr(ParseList(t, g, "items", u + 1, d + 1, "]"))
  BY DEF ParseInner, TypedArr
<1>3. At(t, u) = "quote" => ParseInner(t, g, u, d) = TypedStr(ParseStringRaw(t, u))
  BY DEF ParseInner, TypedStr
<1>4. At(t, u) = "true" => ParseInner(t, g, u, d) = Value([lit |-> "true"], u + 1)
  BY DEF ParseInner
<1>5. At(t, u) \notin {"{", "[", "quote", "true"} =>
        ParseInner(t, g, u, d) = TypedNum(NumberBranch(t, u))
  BY DEF ParseInner, TypedNum
<1> QED
  BY <1>1, <1>2, <1>3, <1>4, <1>5

LEMMA ParseListLocal ==
  ASSUME NEW S, NEW t \in Seq(S), NEW g, NEW h, NEW u \in 1 .. Len(t), NEW d \in ParseDepths,
         NEW what \in {"items", "pairs"}, NEW close, close # "end",
         ParseBelow(t, g, h, Rank("value", u, Len(t)))
  PROVE  /\ ParseList(t, g, what, u + 1, d, close) = ParseList(t, h, what, u + 1, d, close)
         /\ Ended(t, ParseList(t, g, what, u + 1, d, close), u)
<1> DEFINE j == SkipWs(t, u + 1)
<1>1. Len(t) \in Nat /\ u + 1 \in 1 .. Len(t) + 1 /\ u + 1 \in u .. Len(t) + 1 /\ u + 1 # u
      /\ u \in 1 .. Len(t) + 1
  BY LenProperties
<1>2. j \in u + 1 .. Len(t) + 1 /\ j \in 1 .. Len(t) + 1
  BY <1>1, SkipStops
<1> HIDE DEF j
<1>3. CASE At(t, j) = close
  <2>1. ParseList(t, g, what, u + 1, d, close) = Value(<< >>, j + 1)
        /\ ParseList(t, h, what, u + 1, d, close) = Value(<< >>, j + 1)
    BY <1>3 DEF ParseList, j
  <2>2. j \in 1 .. Len(t)
    BY <1>2, <1>3, AtInside
  <2>3. j + 1 \in u + 1 .. Len(t) + 1
    BY <1>1, <1>2, <2>2
  <2>4. Ended(t, Value(<< >>, j + 1), u)
    BY <2>3 DEF Ended, Value
  <2> QED
    BY <2>1, <2>4
<1>4. CASE At(t, j) # close
  <2>1. ParseList(t, g, what, u + 1, d, close) = g[<<what, u + 1, d>>]
        /\ ParseList(t, h, what, u + 1, d, close) = h[<<what, u + 1, d>>]
    BY <1>4 DEF ParseList, j
  <2>2. Rank(what, u + 1, Len(t)) < Rank("value", u, Len(t))
    BY <1>1, RankBelow
  <2>3. g[<<what, u + 1, d>>] = h[<<what, u + 1, d>>] /\ Ended(t, g[<<what, u + 1, d>>], u + 1)
    BY <1>1, <2>2 DEF ParseBelow
  <2>4. u \in Nat /\ u + 1 \in Nat /\ u <= u + 1
    BY <1>1
  <2>5. Ended(t, g[<<what, u + 1, d>>], u)
    BY <2>3, <2>4, EndedEarlier
  <2> QED
    BY <2>1, <2>3, <2>5
<1> QED
  BY <1>3, <1>4

LEMMA ParseInnerLocal ==
  ASSUME NEW S, NEW t \in Seq(S), NEW g, NEW h, NEW u \in 1 .. Len(t) + 1, NEW d \in 0 .. JSON_MAX_DEPTH - 1,
         ParseBelow(t, g, h, Rank("value", u, Len(t)))
  PROVE  ParseInner(t, g, u, d) = ParseInner(t, h, u, d) /\ Ended(t, ParseInner(t, g, u, d), u)
<1>0. d + 1 \in ParseDepths
  BY DepthsAssumption DEF ParseDepths
<1>1. CASE At(t, u) = "{"
  <2>1. u \in 1 .. Len(t)
    BY <1>1, AtInside
  <2> DEFINE l(f) == ParseList(t, f, "pairs", u + 1, d + 1, "}")
  <2>2. l(g) = l(h) /\ Ended(t, l(g), u)
    BY <1>0, <2>1, ParseListLocal
  <2>3. ParseInner(t, g, u, d) = TypedObj(l(g)) /\ ParseInner(t, h, u, d) = TypedObj(l(h))
    BY <1>1, ParseInnerIs, ZenonT(60)
  <2> HIDE DEF l
  <2> QED
    BY <2>2, <2>3, TypedEnded
<1>2. CASE At(t, u) = "["
  <2>1. u \in 1 .. Len(t)
    BY <1>2, AtInside
  <2> DEFINE l(f) == ParseList(t, f, "items", u + 1, d + 1, "]")
  <2>2. l(g) = l(h) /\ Ended(t, l(g), u)
    BY <1>0, <2>1, ParseListLocal
  <2>3. ParseInner(t, g, u, d) = TypedArr(l(g)) /\ ParseInner(t, h, u, d) = TypedArr(l(h))
    BY <1>2, ParseInnerIs, ZenonT(60)
  <2> HIDE DEF l
  <2> QED
    BY <2>2, <2>3, TypedEnded
<1>3. CASE At(t, u) = "quote"
  <2>1. Ended(t, ParseStringRaw(t, u), u)
    BY StringsAgree
  <2>2. /\ ParseInner(t, g, u, d) = TypedStr(ParseStringRaw(t, u))
        /\ ParseInner(t, h, u, d) = TypedStr(ParseStringRaw(t, u))
    BY <1>3, ParseInnerIs, ZenonT(60)
  <2> QED
    BY <2>1, <2>2, TypedEnded
<1>4. CASE At(t, u) = "true"
  <2>1. u \in 1 .. Len(t)
    BY <1>4, AtInside
  <2>2. u + 1 \in u + 1 .. Len(t) + 1
    BY <2>1, LenProperties
  <2>3. Ended(t, Value([lit |-> "true"], u + 1), u)
    BY <2>2 DEF Ended, Value
  <2>4. /\ ParseInner(t, g, u, d) = Value([lit |-> "true"], u + 1)
        /\ ParseInner(t, h, u, d) = Value([lit |-> "true"], u + 1)
    BY <1>4, ParseInnerIs, ZenonT(60)
  <2> QED
    BY <2>3, <2>4
<1>5. CASE At(t, u) \notin {"{", "[", "quote", "true"}
  <2>1. Ended(t, NumberBranch(t, u), u)
    BY NumberBranchIs
  <2>2. /\ ParseInner(t, g, u, d) = TypedNum(NumberBranch(t, u))
        /\ ParseInner(t, h, u, d) = TypedNum(NumberBranch(t, u))
    BY <1>5, ParseInnerIs, ZenonT(60)
  <2> QED
    BY <2>1, <2>2, TypedEnded
<1> QED
  BY <1>1, <1>2, <1>3, <1>4, <1>5

LEMMA ParseOnLocal ==
  ASSUME NEW S, NEW t \in Seq(S), NEW g, NEW h, NEW u \in 1 .. Len(t) + 1, NEW d \in ParseDepths,
         NEW what \in {"items", "pairs"}, NEW close, Closes(close), NEW r, r.ok, Ended(t, r, u),
         ParseBelow(t, g, h, Rank(what, u, Len(t)))
  PROVE  /\ ParseOn(t, g, what, r, d, close) = ParseOn(t, h, what, r, d, close)
         /\ Ended(t, ParseOn(t, g, what, r, d, close), u)
<1> DEFINE p == r.i
           j == SkipWs(t, p)
<1>0. Len(t) \in Nat
  BY LenProperties
<1>1. p \in u + 1 .. Len(t) + 1 /\ p \in 1 .. Len(t) + 1
  <2>1. p \in u + 1 .. Len(t) + 1
    BY DEF Ended
  <2> HIDE DEF p
  <2> QED
    BY <1>0, <2>1
<1> HIDE DEF p
<1>2. j \in u + 1 .. Len(t) + 1 /\ j \in 1 .. Len(t) + 1
  <2>1. j \in p .. Len(t) + 1 /\ j \in 1 .. Len(t) + 1
    BY <1>1, SkipStops
  <2> HIDE DEF j
  <2> QED
    BY <1>0, <1>1, <2>1
<1>3. At(t, j) # "end" => j + 1 \in u + 1 .. Len(t) + 1 /\ j + 1 \in 1 .. Len(t) + 1
  <2>1. At(t, j) # "end" => j \in 1 .. Len(t)
    BY <1>2, AtInside
  <2> HIDE DEF j
  <2> QED
    BY <1>0, <1>2, <2>1
<1> HIDE DEF j
<1>4. CASE At(t, j) = ","
  <2>1. ParseOn(t, g, what, r, d, close) = Stored(r.v, g[<<what, j + 1, d>>])
        /\ ParseOn(t, h, what, r, d, close) = Stored(r.v, h[<<what, j + 1, d>>])
    BY <1>4 DEF ParseOn, Closes, j, p
  <2>2. j + 1 \in u + 1 .. Len(t) + 1 /\ j + 1 \in 1 .. Len(t) + 1
    BY <1>3, <1>4
  <2>3. j + 1 \in u .. Len(t) + 1 /\ j + 1 # u /\ u \in Nat /\ j + 1 \in Nat /\ u <= j + 1
    BY <1>0, <2>2
  <2>4. Rank(what, j + 1, Len(t)) < Rank(what, u, Len(t))
    BY <1>0, <2>3, RankBelow
  <2>5. g[<<what, j + 1, d>>] = h[<<what, j + 1, d>>] /\ Ended(t, g[<<what, j + 1, d>>], j + 1)
    BY <2>2, <2>4 DEF ParseBelow
  <2>6. Ended(t, Stored(r.v, g[<<what, j + 1, d>>]), u)
    BY <2>3, <2>5, PrefixedEnd
  <2> QED
    BY <2>1, <2>5, <2>6
<1>5. CASE At(t, j) # "," /\ At(t, j) = close
  <2>1. ParseOn(t, g, what, r, d, close) = Value(<<r.v>>, j + 1)
        /\ ParseOn(t, h, what, r, d, close) = Value(<<r.v>>, j + 1)
    BY <1>5 DEF ParseOn, j, p
  <2>2. j + 1 \in u + 1 .. Len(t) + 1
    BY <1>3, <1>5 DEF Closes
  <2>3. \A v : Ended(t, Value(v, j + 1), u)
    BY <2>2 DEF Ended, Value
  <2> QED
    BY <2>1, <2>3
<1>6. CASE At(t, j) # "," /\ At(t, j) # close
  <2>1. ParseOn(t, g, what, r, d, close) = Null(j) /\ ParseOn(t, h, what, r, d, close) = Null(j)
    BY <1>6 DEF ParseOn, j, p
  <2>2. Ended(t, Null(j), u)
    BY DEF Ended, Null
  <2> QED
    BY <2>1, <2>2
<1> QED
  BY <1>4, <1>5, <1>6

LEMMA ParseItemsLocal ==
  ASSUME NEW S, NEW t \in Seq(S), NEW g, NEW h, NEW u \in 1 .. Len(t) + 1, NEW d \in ParseDepths,
         ParseBelow(t, g, h, Rank("items", u, Len(t)))
  PROVE  ParseItems(t, g, u, d) = ParseItems(t, h, u, d) /\ Ended(t, ParseItems(t, g, u, d), u)
<1> DEFINE r == g[<<"value", u, d>>]
<1>1. Len(t) \in Nat /\ u \in u .. Len(t) + 1
  BY LenProperties
<1>2. Rank("value", u, Len(t)) < Rank("items", u, Len(t))
  BY <1>1, RankBelow
<1>3. r = h[<<"value", u, d>>] /\ Ended(t, r, u)
  BY <1>2 DEF ParseBelow
<1>4. /\ ParseItems(t, g, u, d) = IF r.ok THEN ParseOn(t, g, "items", r, d, "]") ELSE r
      /\ ParseItems(t, h, u, d) = IF r.ok THEN ParseOn(t, h, "items", r, d, "]") ELSE r
  BY <1>3 DEF ParseItems, And
<1> HIDE DEF r
<1>5. CASE r.ok
  <2>1. Closes("]")
    BY DEF Closes
  <2>2. /\ ParseOn(t, g, "items", r, d, "]") = ParseOn(t, h, "items", r, d, "]")
        /\ Ended(t, ParseOn(t, g, "items", r, d, "]"), u)
    BY <1>3, <1>5, <2>1, ParseOnLocal
  <2> QED
    BY <1>4, <1>5, <2>2
<1>6. CASE ~ r.ok
  BY <1>3, <1>4, <1>6
<1> QED
  BY <1>5, <1>6

LEMMA ParseMemberLocal ==
  ASSUME NEW S, NEW t \in Seq(S), NEW g, NEW h, NEW u \in 1 .. Len(t) + 1, NEW d \in ParseDepths,
         NEW key, key.ok, Ended(t, key, u), ParseBelow(t, g, h, Rank("pairs", u, Len(t)))
  PROVE  ParseMember(t, g, key, d) = ParseMember(t, h, key, d) /\ Ended(t, ParseMember(t, g, key, d), u)
<1> DEFINE j == SkipWs(t, key.i)
           k == j + 1
           r == g[<<"value", k, d>>]
<1>1. Len(t) \in Nat
      /\ key.i \in u + 1 .. Len(t) + 1 /\ key.i \in 1 .. Len(t) + 1
  BY LenProperties DEF Ended
<1>2. j \in u + 1 .. Len(t) + 1 /\ j \in 1 .. Len(t) + 1
  BY <1>1, SkipStops
<1>3. CASE At(t, j) # ":"
  <2>1. ParseMember(t, g, key, d) = Null(j) /\ ParseMember(t, h, key, d) = Null(j)
    BY <1>3 DEF ParseMember
  <2>2. Ended(t, Null(j), u)
    BY DEF Ended, Null
  <2> QED
    BY <2>1, <2>2
<1>4. CASE At(t, j) = ":"
  <2>1. j \in 1 .. Len(t)
    BY <1>2, <1>4, AtInside
  <2>2. j + 1 \in 1 .. Len(t) + 1 /\ j + 1 \in u .. Len(t) + 1
    <3> HIDE DEF j
    <3> QED
      BY <1>1, <1>2, <2>1
  <2>3. k \in j + 1 .. Len(t) + 1 /\ k \in 1 .. Len(t) + 1
    <3> HIDE DEF j
    <3> QED
      BY <1>1, <2>2
  <2>4. k \in u .. Len(t) + 1 /\ u \in Nat /\ k \in Nat /\ u <= k
    <3> HIDE DEF j, k
    <3> QED
      BY <1>1, <2>2, <2>3
  <2>5. ParseMember(t, g, key, d) = TypedMember(key, r)
        /\ ParseMember(t, h, key, d) = TypedMember(key, h[<<"value", k, d>>])
    BY <1>4 DEF ParseMember, TypedMember
  <2> HIDE DEF k
  <2>6. Rank("value", k, Len(t)) < Rank("pairs", u, Len(t))
    BY <1>1, <2>4, RankBelow
  <2>7. r = h[<<"value", k, d>>] /\ Ended(t, r, k)
    BY <1>1, <2>3, <2>6 DEF ParseBelow
  <2> HIDE DEF r
  <2>8. Ended(t, TypedMember(key, r), u)
    BY <2>4, <2>7, EndedEarlier, TypedEnded
  <2> QED
    BY <2>5, <2>7, <2>8
<1> QED
  BY <1>3, <1>4

LEMMA ParsePairsLocal ==
  ASSUME NEW S, NEW t \in Seq(S), NEW g, NEW h, NEW u \in 1 .. Len(t) + 1, NEW d \in ParseDepths,
         ParseBelow(t, g, h, Rank("pairs", u, Len(t)))
  PROVE  ParsePairs(t, g, u, d) = ParsePairs(t, h, u, d) /\ Ended(t, ParsePairs(t, g, u, d), u)
<1> DEFINE j == SkipWs(t, u)
           key == ParseStringRaw(t, j)
           r(f) == IF key.ok THEN ParseMember(t, f, key, d) ELSE key
<1>1. Len(t) \in Nat
  BY LenProperties
<1>2. j \in u .. Len(t) + 1 /\ j \in 1 .. Len(t) + 1
  BY SkipStops
<1>3. u \in Nat /\ j \in Nat /\ u <= j
  <2> HIDE DEF j
  <2> QED
    BY <1>1, <1>2
<1>4. ASSUME NEW f
      PROVE  ParsePairs(t, f, u, d) = IF r(f).ok THEN ParseOn(t, f, "pairs", r(f), d, "}") ELSE r(f)
  BY DEF ParsePairs, And
<1>5. Ended(t, key, u)
  <2>1. Ended(t, key, j)
    BY <1>2, StringsAgree
  <2> HIDE DEF j, key
  <2> QED
    BY <1>3, <2>1, EndedEarlier
<1> HIDE DEF j, key
<1>6. r(g) = r(h) /\ Ended(t, r(g), u)
  <2>1. CASE key.ok
    BY <1>5, <2>1, ParseMemberLocal
  <2>2. CASE ~ key.ok
    BY <1>5, <2>2
  <2> QED
    BY <2>1, <2>2
<1> HIDE DEF r
<1>7. CASE r(g).ok
  <2>0. Closes("}")
    BY DEF Closes
  <2>1. /\ ParseOn(t, g, "pairs", r(g), d, "}") = ParseOn(t, h, "pairs", r(g), d, "}")
        /\ Ended(t, ParseOn(t, g, "pairs", r(g), d, "}"), u)
    BY <1>1, <1>6, <1>7, <2>0, ParseOnLocal
  <2>2. ParsePairs(t, g, u, d) = ParseOn(t, g, "pairs", r(g), d, "}")
    BY <1>4, <1>7
  <2>3. ParsePairs(t, h, u, d) = ParseOn(t, h, "pairs", r(g), d, "}")
    BY <1>4, <1>6, <1>7
  <2> QED
    BY <2>1, <2>2, <2>3
<1>8. CASE ~ r(g).ok
  <2>1. ParsePairs(t, g, u, d) = r(g) /\ ParsePairs(t, h, u, d) = r(g)
    BY <1>4, <1>6, <1>8
  <2> QED
    BY <1>6, <2>1
<1> QED
  BY <1>7, <1>8

LEMMA ParseBelowLess ==
  ASSUME NEW S, NEW t \in Seq(S), NEW g, NEW h, NEW m \in Nat, NEW k \in Nat, k <= m, ParseBelow(t, g, h, m)
  PROVE  ParseBelow(t, g, h, k)
<1>1. ASSUME NEW what \in {"value", "items", "pairs"}, NEW u \in 1 .. Len(t) + 1,
             Rank(what, u, Len(t)) < k
      PROVE  Rank(what, u, Len(t)) < m
  <2>1. Len(t) \in Nat
    BY LenProperties
  <2>2. Rank(what, u, Len(t)) \in 0 .. 2 * Len(t) + 1
    BY <2>1, RankBelow
  <2> DEFINE r == Rank(what, u, Len(t))
  <2>3. r \in Int /\ r < k
    BY <1>1, <2>1, <2>2
  <2> HIDE DEF r
  <2>4. r < m
    BY <2>3
  <2> QED
    BY <2>4 DEF r
<1> QED
  BY <1>1 DEF ParseBelow

\* From here the same is read with g as with h, and it ends behind this place.
ParseAlike(t, g, h, what, u, d) ==
  /\ ParseFrom(t, g, what, u, d) = ParseFrom(t, h, what, u, d)
  /\ Ended(t, ParseFrom(t, g, what, u, d), u)

LEMMA ParseLocal ==
  ASSUME NEW S, NEW t \in Seq(S), NEW g, NEW h, NEW what \in {"value", "items", "pairs"},
         NEW u \in 1 .. Len(t) + 1, NEW d \in ParseDepths,
         ParseBelow(t, g, h, Rank(what, u, Len(t)))
  PROVE  ParseAlike(t, g, h, what, u, d)
<1> SUFFICES /\ ParseFrom(t, g, what, u, d) = ParseFrom(t, h, what, u, d)
             /\ Ended(t, ParseFrom(t, g, what, u, d), u)
  BY DEF ParseAlike
<1>1. CASE d >= JSON_MAX_DEPTH
  <2>1. ParseFrom(t, g, what, u, d) = Null(u) /\ ParseFrom(t, h, what, u, d) = Null(u)
    BY <1>1, DepthsAssumption DEF ParseFrom, ParseDepths
  <2>2. Ended(t, Null(u), u)
    BY DEF Ended, Null
  <2> QED
    BY <2>1, <2>2
<1>2. CASE d < JSON_MAX_DEPTH
  <2>1. ~ (d >= JSON_MAX_DEPTH) /\ d \in 0 .. JSON_MAX_DEPTH - 1
    BY <1>2, DepthsAssumption DEF ParseDepths
  <2>2. CASE what = "value"
    <3> DEFINE j == SkipWs(t, u)
    <3>1. /\ ParseFrom(t, g, what, u, d) = ParseInner(t, g, j, d)
          /\ ParseFrom(t, h, what, u, d) = ParseInner(t, h, j, d)
      BY <1>2, <2>1, <2>2 DEF ParseFrom
    <3>2. Len(t) \in Nat /\ j \in u .. Len(t) + 1 /\ j \in 1 .. Len(t) + 1
      BY LenProperties, SkipStops
    <3> HIDE DEF j
    <3>3. u \in Nat /\ j \in Nat /\ u <= j
      BY <3>2
    <3>4. /\ Rank("value", j, Len(t)) \in Nat /\ Rank(what, u, Len(t)) \in Nat
          /\ Rank("value", j, Len(t)) <= Rank(what, u, Len(t))
      BY <2>2, <3>2 DEF Rank
    <3>5. ParseBelow(t, g, h, Rank("value", j, Len(t)))
      BY <3>4, ParseBelowLess
    <3>6. ParseInner(t, g, j, d) = ParseInner(t, h, j, d) /\ Ended(t, ParseInner(t, g, j, d), j)
      BY <2>1, <3>2, <3>5, ParseInnerLocal
    <3>7. Ended(t, ParseInner(t, g, j, d), u)
      BY <3>3, <3>6, EndedEarlier
    <3> QED
      BY <3>1, <3>6, <3>7
  <2>3. CASE what = "items"
    <3>1. ParseFrom(t, g, what, u, d) = ParseItems(t, g, u, d)
          /\ ParseFrom(t, h, what, u, d) = ParseItems(t, h, u, d)
      BY <1>2, <2>1, <2>3 DEF ParseFrom
    <3> QED
      BY <2>3, <3>1, ParseItemsLocal
  <2>4. CASE what = "pairs"
    <3>1. ParseFrom(t, g, what, u, d) = ParsePairs(t, g, u, d)
          /\ ParseFrom(t, h, what, u, d) = ParsePairs(t, h, u, d)
      BY <1>2, <2>1, <2>4 DEF ParseFrom
    <3> QED
      BY <2>4, <3>1, ParsePairsLocal
  <2> QED
    BY <2>2, <2>3, <2>4
<1> QED
  BY <1>1, <1>2, DepthsAssumption DEF ParseDepths

LEMMA ParseUpTo ==
  ASSUME NEW S, NEW t \in Seq(S), NEW g, NEW h, NEW m \in Nat, ParseBelow(t, g, h, m),
         NEW what \in {"value", "items", "pairs"}, NEW u \in 1 .. Len(t) + 1, NEW d \in ParseDepths,
         Rank(what, u, Len(t)) <= m
  PROVE  ParseAlike(t, g, h, what, u, d)
<1>1. Len(t) \in Nat /\ u \in u .. Len(t) + 1
  BY LenProperties
<1>2. Rank(what, u, Len(t)) \in 0 .. 2 * Len(t) + 1
  BY <1>1, RankBelow
<1>3. Rank(what, u, Len(t)) \in Nat
  BY <1>1, <1>2
<1>4. ParseBelow(t, g, h, Rank(what, u, Len(t)))
  BY <1>3, ParseBelowLess
<1> QED
  BY <1>4, ParseLocal

LEMMA ParseSolution ==
  ASSUME NEW S, NEW t \in Seq(S)
  PROVE  \E g : ParseIs(t, g)
<1> DEFINE n == Len(t)
           Solved(g, what, u, d) ==
             g[<<what, u, d>>] = ParseFrom(t, g, what, u, d) /\ Ended(t, g[<<what, u, d>>], u)
           Solve(g, m) ==
             \A what \in {"value", "items", "pairs"}, u \in 1 .. n + 1, d \in ParseDepths :
               Rank(what, u, n) < m => Solved(g, what, u, d)
           Once(g) == [at \in ParseWhere(t) |-> ParseFrom(t, g, at[1], at[2], at[3])]
           Reached == {m \in 0 .. 2 * n + 2 : \E g : Solve(g, m)}
<1>0. n \in Nat
  BY LenProperties
<1>1. \A what \in {"value", "items", "pairs"}, u \in 1 .. n + 1 : Rank(what, u, n) \in 0 .. 2 * n + 1
  <2>1. \A u \in 1 .. n + 1 : u \in u .. n + 1
    BY <1>0
  <2> QED
    BY <1>0, <2>1, RankBelow
\* Once more through the definition, and one more rank is right.
<1>2. ASSUME NEW m \in 0 .. 2 * n + 2, NEW g, Solve(g, m),
             NEW what \in {"value", "items", "pairs"}, NEW u \in 1 .. n + 1, NEW d \in ParseDepths,
             Rank(what, u, n) <= m
      PROVE  Solved(Once(g), what, u, d)
  <2>1. \A w \in {"value", "items", "pairs"}, j \in 1 .. n + 1, e \in ParseDepths :
          Once(g)[<<w, j, e>>] = ParseFrom(t, g, w, j, e)
    BY DEF ParseWhere
  <2> HIDE DEF Once
  <2>2. ParseBelow(t, g, Once(g), m)
    BY <1>2, <2>1 DEF ParseBelow
  <2>3. m \in Nat /\ Rank(what, u, Len(t)) <= m /\ u \in 1 .. Len(t) + 1
    BY <1>0, <1>2
  <2>4. PICK h : h = Once(g)
    OBVIOUS
  <2>5. ParseBelow(t, g, h, m)
    BY <2>2, <2>4
  <2> HIDE DEF Solve, Solved, n
  <2>6. ParseAlike(t, g, h, what, u, d)
    BY <2>3, <2>5, ParseUpTo
  <2>7. Once(g)[<<what, u, d>>] = ParseFrom(t, g, what, u, d)
    BY <2>1
  <2> QED
    BY <2>4, <2>6, <2>7 DEF Solved, ParseAlike
<1>3. 0 \in Reached
  <2>1. ASSUME NEW what \in {"value", "items", "pairs"}, NEW u \in 1 .. n + 1
        PROVE  ~ (Rank(what, u, n) < 0)
    <3> HIDE DEF n
    <3> QED
      BY <1>0, <1>1
  <2>2. Solve(t, 0)
    BY <2>1
  <2> HIDE DEF Solve
  <2> QED
    BY <1>0, <2>2
<1>4. ASSUME NEW m \in 0 .. (2 * n + 2) - 1, m \in Reached PROVE m + 1 \in Reached
  <2>1. PICK g : Solve(g, m)
    BY <1>4
  <2>2. m \in 0 .. 2 * n + 2 /\ m + 1 \in 0 .. 2 * n + 2
    BY <1>0
  <2>3. ASSUME NEW what \in {"value", "items", "pairs"}, NEW u \in 1 .. n + 1, Rank(what, u, n) < m + 1
        PROVE  Rank(what, u, n) <= m
    <3> HIDE DEF n
    <3> QED
      BY <1>0, <1>1, <2>2, <2>3
  <2> HIDE DEF Once, Solved
  <2>4. Solve(Once(g), m + 1)
    <3> SUFFICES ASSUME NEW what \in {"value", "items", "pairs"}, NEW u \in 1 .. n + 1,
                        NEW d \in ParseDepths, Rank(what, u, n) < m + 1
                 PROVE  Solved(Once(g), what, u, d)
      OBVIOUS
    <3>1. Rank(what, u, n) <= m
      BY <2>3
    <3> HIDE DEF Solve
    <3> QED
      BY <1>2, <2>1, <2>2, <3>1
  <2> HIDE DEF Solve
  <2> QED
    BY <2>2, <2>4
<1>5. 2 * n + 2 \in Reached
  <2> HIDE DEF Reached
  <2>1. 2 * n + 2 \in Nat
    BY <1>0
  <2>2. 0 .. 2 * n + 2 \subseteq Reached
    <3> DEFINE top == 2 * n + 2
    <3>1. top \in Nat /\ 0 \in Reached /\ \A m \in 0 .. top - 1 : m \in Reached => m + 1 \in Reached
      BY <1>3, <1>4, <2>1
    <3> HIDE DEF top
    <3>2. 0 .. top \subseteq Reached
      BY <3>1, UpTo
    <3> QED
      BY <3>2 DEF top
  <2> QED
    BY <2>1, <2>2
<1>6. PICK g : Solve(g, 2 * n + 2)
  BY <1>5
<1>7. \A what \in {"value", "items", "pairs"}, u \in 1 .. n + 1, d \in ParseDepths :
        Solved(Once(g), what, u, d)
  <2>1. 2 * n + 2 \in 0 .. 2 * n + 2
    BY <1>0
  <2>2. \A what \in {"value", "items", "pairs"}, u \in 1 .. n + 1 : Rank(what, u, n) <= 2 * n + 2
    <3> HIDE DEF n
    <3> QED
      BY <1>0, <1>1
  <2> HIDE DEF Solve, Solved, Once
  <2> QED
    BY <1>2, <1>6, <2>1, <2>2
<1>8. \A at \in ParseWhere(t) : Once(g)[at] = ParseFrom(t, Once(g), at[1], at[2], at[3])
  <2> HIDE DEF Once
  <2> QED
    BY <1>7 DEF ParseWhere
<1>9. Once(g) = [at \in ParseWhere(t) |-> Once(g)[at]]
  OBVIOUS
<1> HIDE DEF Once
<1>10. [at \in ParseWhere(t) |-> Once(g)[at]]
         = [at \in ParseWhere(t) |-> ParseFrom(t, Once(g), at[1], at[2], at[3])]
  BY <1>8
<1>11. ParseIs(t, Once(g))
  BY <1>9, <1>10 DEF ParseIs
<1> QED
  BY <1>11

LEMMA ParseEnds ==
  ASSUME NEW S, NEW t \in Seq(S), NEW g, ParseIs(t, g)
  PROVE  \A what \in {"value", "items", "pairs"}, u \in 1 .. Len(t) + 1, d \in ParseDepths :
           /\ g[<<what, u, d>>] = ParseFrom(t, g, what, u, d)
           /\ Ended(t, g[<<what, u, d>>], u)
<1> DEFINE n == Len(t)
           Solve(m) ==
             \A what \in {"value", "items", "pairs"}, u \in 1 .. n + 1, d \in ParseDepths :
               Rank(what, u, n) < m => Ended(t, g[<<what, u, d>>], u)
           Reached == {m \in 0 .. 2 * n + 2 : Solve(m)}
<1>0. n \in Nat
  BY LenProperties
<1>1. \A what \in {"value", "items", "pairs"}, u \in 1 .. n + 1 : Rank(what, u, n) \in 0 .. 2 * n + 1
  <2>1. \A u \in 1 .. n + 1 : u \in u .. n + 1
    BY <1>0
  <2> QED
    BY <1>0, <2>1, RankBelow
<1>2. \A what \in {"value", "items", "pairs"}, u \in 1 .. n + 1, d \in ParseDepths :
        g[<<what, u, d>>] = ParseFrom(t, g, what, u, d)
  BY DEF ParseIs, ParseWhere
<1>3. 0 \in Reached
  <2>1. ASSUME NEW what \in {"value", "items", "pairs"}, NEW u \in 1 .. n + 1
        PROVE  ~ (Rank(what, u, n) < 0)
    <3> HIDE DEF n
    <3> QED
      BY <1>0, <1>1
  <2>2. Solve(0)
    BY <2>1
  <2> HIDE DEF Solve
  <2> QED
    BY <1>0, <2>2
<1>4. ASSUME NEW m \in 0 .. (2 * n + 2) - 1, m \in Reached PROVE m + 1 \in Reached
  <2>1. m \in Nat /\ m + 1 \in 0 .. 2 * n + 2
    BY <1>0
  <2>2. ParseBelow(t, g, g, m)
    BY <1>4 DEF ParseBelow
  <2>3. ASSUME NEW what \in {"value", "items", "pairs"}, NEW u \in 1 .. n + 1, NEW d \in ParseDepths,
               Rank(what, u, n) < m + 1
        PROVE  Ended(t, g[<<what, u, d>>], u)
    <3>1. Rank(what, u, n) <= m /\ Rank(what, u, n) \in Nat
      <4> HIDE DEF n
      <4> QED
        BY <1>0, <1>1, <2>1, <2>3
    <3>2. ParseBelow(t, g, g, Rank(what, u, n))
      BY <2>1, <2>2, <3>1, ParseBelowLess
    <3>3. Ended(t, ParseFrom(t, g, what, u, d), u)
      BY <3>2, ParseLocal DEF ParseAlike
    <3> QED
      BY <1>2, <3>3
  <2>4. Solve(m + 1)
    BY <2>3
  <2> HIDE DEF Solve
  <2> QED
    BY <2>1, <2>4
<1>5. 2 * n + 2 \in Reached
  <2> HIDE DEF Reached
  <2> DEFINE top == 2 * n + 2
  <2>1. top \in Nat /\ 0 \in Reached /\ \A m \in 0 .. top - 1 : m \in Reached => m + 1 \in Reached
    BY <1>0, <1>3, <1>4
  <2> HIDE DEF top
  <2>2. 0 .. top \subseteq Reached /\ top \in 0 .. top
    BY <2>1, UpTo
  <2>3. top \in Reached
    BY <2>2
  <2> QED
    BY <2>3 DEF top
<1>6. ASSUME NEW what \in {"value", "items", "pairs"}, NEW u \in 1 .. n + 1, NEW d \in ParseDepths
      PROVE  Ended(t, g[<<what, u, d>>], u)
  <2>1. Rank(what, u, n) < 2 * n + 2
    <3> HIDE DEF n
    <3> QED
      BY <1>0, <1>1
  <2> QED
    BY <1>5, <2>1
<1> QED
  BY <1>2, <1>6

-----------------------------------------------------------------------------
(* What the two programs have read of the same place is the same.          *)

\* Values of which the parts are there too, and whose numbers fit the buffer.
Fitting(V) ==
  \A x \in V :
    /\ DOMAIN x = {"num"} => Len(x.num) < NumBuf
    /\ DOMAIN x = {"arr"} => \A k \in DOMAIN x.arr : x.arr[k] \in V
    /\ DOMAIN x = {"obj"} => \A k \in DOMAIN x.obj : x.obj[k][2] \in V

NumbersFit(v) == \E V : v \in V /\ Fitting(V)

\* The value in an element of an array or a member of an object.
Element(what, x) == IF what = "items" THEN x ELSE x[2]
Within(what, w, V) == \A k \in DOMAIN w : Element(what, w[k]) \in V
IsList(w) == \E U : w \in Seq(U)

LEMMA ListPrefixed ==
  ASSUME NEW what, NEW V, NEW v, NEW w, IsList(w)
  PROVE  /\ IsList(<<v>> \o w)
         /\ Within(what, <<v>> \o w, V) => Element(what, v) \in V /\ Within(what, w, V)
<1>1. PICK U : w \in Seq(U)
  BY DEF IsList
<1> DEFINE W == U \cup {v}
           x == <<v>> \o w
<1>2. w \in Seq(W) /\ <<v>> \in Seq(W) /\ Len(<<v>>) = 1 /\ <<v>>[1] = v
  BY <1>1
<1> HIDE DEF W
<1>3. x \in Seq(W)
  BY <1>2, ConcatProperties
<1>4. Len(w) \in Nat /\ DOMAIN w = 1 .. Len(w) /\ DOMAIN x = 1 .. Len(w) + 1
  BY <1>2, <1>3, ConcatProperties, LenProperties
<1>5. x[1] = v /\ \A k \in 1 .. Len(w) : k + 1 \in 1 .. Len(w) + 1 /\ x[k + 1] = w[k]
  BY <1>2, <1>4, ConcatProperties
<1> HIDE DEF x
<1>6. ASSUME Within(what, x, V) PROVE Element(what, v) \in V /\ Within(what, w, V)
  <2>1. 1 \in DOMAIN x
    BY <1>4
  <2>2. Element(what, v) \in V
    BY <1>5, <1>6, <2>1 DEF Within
  <2>3. ASSUME NEW k \in DOMAIN w PROVE Element(what, w[k]) \in V
    BY <1>4, <1>5, <1>6, <2>3 DEF Within
  <2> QED
    BY <2>2, <2>3 DEF Within
<1> QED
  BY <1>3, <1>6 DEF IsList, x

LEMMA ListOfOne ==
  ASSUME NEW what, NEW V, NEW v
  PROVE  /\ IsList(<<v>>)
         /\ Within(what, <<v>>, V) => Element(what, v) \in V
<1>1. <<v>> \in Seq({v}) /\ 1 \in DOMAIN <<v>> /\ <<v>>[1] = v
  OBVIOUS
<1>2. IsList(<<v>>)
  BY <1>1 DEF IsList
<1> QED
  BY <1>1, <1>2 DEF Within

\* What may follow a value is no part of a number.
Follower(c) == c \in {",", "]", "}", "end"}

LEMMA ValueEnds ==
  ASSUME NEW S, NEW t \in Seq(S), NEW u \in 1 .. Len(t) + 1,
         Follower(At(t, Skip(t, u)))
  PROVE  At(t, u) \notin Numeric
<1> DEFINE j == Skip(t, u)
<1>1. Len(t) \in Nat /\ j \in u .. Len(t) + 1
  BY LenProperties, SkipStops
<1>2. (\A c \in Numeric : ~ Follower(c)) /\ Blanks \cap Numeric = {}
  BY DigitsAssumption DEF Numeric, Marks, Blanks, Follower
<1>3. CASE j = u
  BY <1>2, <1>3
<1>4. CASE j # u
  <2>1. \A k \in u .. j - 1 : t[k] \in Blanks
    BY SkipStops DEF StopsAt
  <2>2. u \in u .. j - 1 /\ u <= Len(t)
    <3> HIDE DEF j
    <3> QED
      BY <1>1, <1>4
  <2>3. At(t, u) \in Blanks
    BY <2>1, <2>2 DEF At
  <2> QED
    BY <1>2, <2>3
<1> QED
  BY <1>3, <1>4

\* g and h are the readers' results from every place.
Reads(t, g) ==
  \A what \in {"value", "items", "fields"}, u \in 1 .. Len(t) + 1, d \in ReadDepths :
    g[<<what, u, d>>] = ReadFrom(t, g, what, u, d) /\ Ended(t, g[<<what, u, d>>], u)
Parses(t, h) ==
  \A what \in {"value", "items", "pairs"}, u \in 1 .. Len(t) + 1, d \in ParseDepths :
    h[<<what, u, d>>] = ParseFrom(t, h, what, u, d)

\* The two count the depth of a list differently, that of a value alike.
SameValue(t, g, h, V, u, d) ==
  LET r == g[<<"value", u, d>>]
  IN  r.ok /\ At(t, r.i) \notin Numeric /\ r.v \in V => SameAs(ParseInner(t, h, u, d), r)

Twin(what) == IF what = "items" THEN "items" ELSE "pairs"
SameList(t, g, h, V, what, u, d) ==
  LET r == g[<<what, u, d>>]
  IN  r.ok => /\ IsList(r.v)
              /\ Within(what, r.v, V) => SameAs(h[<<Twin(what), u, d + 1>>], r)

SameBelow(t, g, h, V, m) ==
  \A u \in 1 .. Len(t) + 1, d \in ReadDepths :
    /\ Rank("value", u, Len(t)) < m => SameValue(t, g, h, V, u, d)
    /\ \A what \in {"items", "fields"} :
         Rank(what, u, Len(t)) < m => SameList(t, g, h, V, what, u, d)

LEMMA ListSame ==
  ASSUME NEW S, NEW t \in Seq(S), NEW g, NEW h, NEW V, NEW u \in 1 .. Len(t), NEW d \in ReadDepths,
         NEW what \in {"items", "fields"}, NEW close,
         SameBelow(t, g, h, V, Rank("value", u, Len(t))),
         ReadList(t, g, what, u + 1, d, close).ok,
         Within(what, ReadList(t, g, what, u + 1, d, close).v, V)
  PROVE  SameAs(ParseList(t, h, Twin(what), u + 1, d + 1, close),
                ReadList(t, g, what, u + 1, d, close))
<1> DEFINE j == Skip(t, u + 1)
<1>1. Len(t) \in Nat /\ u + 1 \in 1 .. Len(t) + 1 /\ u + 1 \in u .. Len(t) + 1 /\ u + 1 # u
      /\ u \in 1 .. Len(t) + 1
  BY LenProperties
<1>2. SkipWs(t, u + 1) = j
  BY <1>1, SkipStops
<1> HIDE DEF j
<1>3. CASE At(t, j) = close
  <2>1. ReadList(t, g, what, u + 1, d, close) = Done(<< >>, j + 1)
    BY <1>3 DEF ReadList, j
  <2>2. ParseList(t, h, Twin(what), u + 1, d + 1, close) = Value(<< >>, j + 1)
    BY <1>2, <1>3 DEF ParseList
  <2> QED
    BY <2>1, <2>2 DEF SameAs, Done, Value
<1>4. CASE At(t, j) # close
  <2>1. ReadList(t, g, what, u + 1, d, close) = g[<<what, u + 1, d>>]
    BY <1>4 DEF ReadList, j
  <2>2. ParseList(t, h, Twin(what), u + 1, d + 1, close) = h[<<Twin(what), u + 1, d + 1>>]
    BY <1>2, <1>4 DEF ParseList
  <2>3. Rank(what, u + 1, Len(t)) < Rank("value", u, Len(t))
    BY <1>1, RankBelow
  <2>4. SameList(t, g, h, V, what, u + 1, d)
    BY <1>1, <2>3 DEF SameBelow
  <2> QED
    BY <2>1, <2>2, <2>4 DEF SameList
<1> QED
  BY <1>3, <1>4

LEMMA AsOk ==
  ASSUME NEW l, NEW r, r = AsObj(l) \/ r = AsArr(l) \/ r = AsStr(l) \/ r = AsNum(l), r.ok
  PROVE  l.ok
<1> SUFFICES ASSUME ~ l.ok PROVE FALSE
  OBVIOUS
<1>1. AsObj(l) = l /\ AsArr(l) = l /\ AsStr(l) = l /\ AsNum(l) = l
  BY AsIs
<1>2. r = l
  BY <1>1
<1> QED
  BY <1>2, Zenon

LEMMA ValueSame ==
  ASSUME NEW S, NEW t \in Seq(S), NEW g, NEW h, NEW V, Fitting(V),
         NEW u \in 1 .. Len(t) + 1, NEW d \in ReadDepths,
         SameBelow(t, g, h, V, Rank("value", u, Len(t))),
         NEW r, r = ReadValue(t, g, u, d), r.ok, At(t, r.i) \notin Numeric, r.v \in V
  PROVE  SameAs(ParseInner(t, h, u, d), r)
<1>1. CASE At(t, u) = "{"
  <2> DEFINE l == ReadList(t, g, "fields", u + 1, d, "}")
             c == ParseList(t, h, "pairs", u + 1, d + 1, "}")
  <2>1. u \in 1 .. Len(t)
    BY <1>1, AtInside
  <2>2. r = AsObj(l)
    BY <1>1, ReadValueIs, ZenonT(60)
  <2>3. ParseInner(t, h, u, d) = TypedObj(c)
    BY <1>1, ParseInnerIs, ZenonT(60)
  <2>4. l.ok
    BY <2>2, AsOk
  <2>5. r = Done([obj |-> l.v], l.i)
    BY <2>2, <2>4, AsIs
  <2>6. Within("fields", l.v, V)
    <3> HIDE DEF l
    <3>1. [obj |-> l.v] \in V
      BY <2>5 DEF Done
    <3> QED
      BY <3>1 DEF Fitting, Within, Element
  <2>7. SameAs(c, l)
    BY <2>1, <2>4, <2>6, ListSame DEF Twin
  <2> HIDE DEF l, c
  <2>8. TypedObj(c) = Value([obj |-> c.v], c.i)
    BY <2>7, TypedIs DEF SameAs
  <2> QED
    BY <2>3, <2>5, <2>7, <2>8 DEF SameAs, Done, Value
<1>2. CASE At(t, u) = "["
  <2> DEFINE l == ReadList(t, g, "items", u + 1, d, "]")
             c == ParseList(t, h, "items", u + 1, d + 1, "]")
  <2>1. u \in 1 .. Len(t)
    BY <1>2, AtInside
  <2>2. r = AsArr(l)
    BY <1>2, ReadValueIs, ZenonT(60)
  <2>3. ParseInner(t, h, u, d) = TypedArr(c)
    BY <1>2, ParseInnerIs, ZenonT(60)
  <2>4. l.ok
    BY <2>2, AsOk
  <2>5. r = Done([arr |-> l.v], l.i)
    BY <2>2, <2>4, AsIs
  <2>6. Within("items", l.v, V)
    <3> HIDE DEF l
    <3>1. [arr |-> l.v] \in V
      BY <2>5 DEF Done
    <3> QED
      BY <3>1 DEF Fitting, Within, Element
  <2>7. SameAs(c, l)
    BY <2>1, <2>4, <2>6, ListSame DEF Twin
  <2> HIDE DEF l, c
  <2>8. TypedArr(c) = Value([arr |-> c.v], c.i)
    BY <2>7, TypedIs DEF SameAs
  <2> QED
    BY <2>3, <2>5, <2>7, <2>8 DEF SameAs, Done, Value
<1>3. CASE At(t, u) = "quote"
  <2> DEFINE l == String(t, u)
             c == ParseStringRaw(t, u)
  <2>1. r = AsStr(l)
    BY <1>3, ReadValueIs, ZenonT(60)
  <2>2. ParseInner(t, h, u, d) = TypedStr(c)
    BY <1>3, ParseInnerIs, ZenonT(60)
  <2>3. l.ok => SameAs(c, l)
    BY StringsAgree
  <2> HIDE DEF l, c
  <2>4. l.ok
    BY <2>1, AsOk
  <2>5. r = Done([str |-> l.v], l.i)
    BY <2>1, <2>4, AsIs
  <2>6. TypedStr(c) = Value([str |-> c.v], c.i)
    BY <2>3, <2>4, TypedIs DEF SameAs
  <2> QED
    BY <2>2, <2>3, <2>4, <2>5, <2>6 DEF SameAs, Done, Value
<1>4. CASE At(t, u) = "true"
  <2>1. r = Done([lit |-> "true"], u + 1)
    BY <1>4, ReadValueIs, ZenonT(60)
  <2>2. ParseInner(t, h, u, d) = Value([lit |-> "true"], u + 1)
    BY <1>4, ParseInnerIs, ZenonT(60)
  <2> QED
    BY <2>1, <2>2 DEF SameAs, Done, Value
<1>5. CASE At(t, u) \in Digits \cup {"-"}
  <2> DEFINE l == Number(t, u)
             c == NumberBranch(t, u)
  <2>1. r = AsNum(l)
    BY <1>5, ReadValueIs, ZenonT(60)
  <2>2. At(t, u) \notin {"{", "[", "quote", "true"}
    BY <1>5, DigitsAssumption
  <2>3. ParseInner(t, h, u, d) = TypedNum(c)
    BY <2>2, ParseInnerIs, ZenonT(60)
  <2>4. l.ok /\ At(t, l.i) \notin Numeric /\ Len(l.v) < NumBuf => SameAs(c, l)
    BY <1>5, NumbersAgree
  <2> HIDE DEF l, c
  <2>5. l.ok
    BY <2>1, AsOk
  <2>6. r = Done([num |-> l.v], l.i)
    BY <2>1, <2>5, AsIs
  <2>7. Len(l.v) < NumBuf
    <3>1. [num |-> l.v] \in V
      BY <2>6 DEF Done
    <3> QED
      BY <3>1 DEF Fitting
  <2>8. At(t, l.i) \notin Numeric
    BY <2>6 DEF Done
  <2>9. SameAs(c, l)
    BY <2>4, <2>5, <2>7, <2>8
  <2>10. TypedNum(c) = Value([num |-> c.v], c.i)
    BY <2>9, TypedIs DEF SameAs
  <2> QED
    BY <2>3, <2>6, <2>9, <2>10 DEF SameAs, Done, Value
<1>6. CASE At(t, u) \notin Digits \cup {"-", "{", "[", "quote", "true"}
  <2>1. r = Refused(u)
    BY <1>6, ReadValueIs, ZenonT(60)
  <2> QED
    BY <2>1 DEF Refused
<1> QED
  BY <1>1, <1>2, <1>3, <1>4, <1>5, <1>6

\* With o a list goes on behind its first value, which is r.
OnIsSame(t, h, V, what, d, close, r, o) ==
  /\ IsList(o.v)
  /\ At(t, r.i) \notin Numeric
  /\ Within(what, o.v, V) =>
       /\ Element(what, r.v) \in V
       /\ \A c : SameAs(c, r) => SameAs(ParseOn(t, h, Twin(what), c, d + 1, close), o)

LEMMA OnSame ==
  ASSUME NEW S, NEW t \in Seq(S), NEW g, NEW h, NEW V, NEW u \in 1 .. Len(t) + 1, NEW d \in ReadDepths,
         NEW what \in {"items", "fields"}, NEW close, Closes(close),
         SameBelow(t, g, h, V, Rank(what, u, Len(t))),
         NEW r, r.ok, Ended(t, r, u), NEW o, o = ReadOn(t, g, what, r, d, close), o.ok
  PROVE  OnIsSame(t, h, V, what, d, close, r, o)
<1> DEFINE p == r.i
           j == Skip(t, p)
           next == g[<<what, j + 1, d>>]
           follows == h[<<Twin(what), j + 1, d + 1>>]
<1>0. Len(t) \in Nat
  BY LenProperties
<1>1. p \in u + 1 .. Len(t) + 1 /\ p \in 1 .. Len(t) + 1
  <2>1. p \in u + 1 .. Len(t) + 1
    BY DEF Ended
  <2> HIDE DEF p
  <2> QED
    BY <1>0, <2>1
<1>2. /\ o = CASE At(t, j) = "," -> Prepend(r.v, next)
               [] At(t, j) = close -> Done(<<r.v>>, j + 1)
               [] OTHER -> Refused(j)
      /\ \A c : SameAs(c, r) => SkipWs(t, c.i) = j
  BY <1>1, SkipStops DEF ReadOn, SameAs
<1>3. \A c : SameAs(c, r) =>
        ParseOn(t, h, Twin(what), c, d + 1, close) =
          CASE At(t, j) = "," -> Stored(r.v, follows)
            [] At(t, j) = close -> Value(<<r.v>>, j + 1)
            [] OTHER -> Null(j)
  BY <1>2 DEF ParseOn, SameAs
<1>4. Follower(At(t, j)) => At(t, r.i) \notin Numeric
  BY <1>1, ValueEnds
<1> HIDE DEF p
<1>5. j \in u + 1 .. Len(t) + 1 /\ j \in 1 .. Len(t) + 1
  <2>1. j \in p .. Len(t) + 1 /\ j \in 1 .. Len(t) + 1
    BY <1>1, SkipStops
  <2> HIDE DEF j
  <2> QED
    BY <1>0, <1>1, <2>1
<1>6. CASE At(t, j) = ","
  <2>1. j \in 1 .. Len(t)
    BY <1>5, <1>6, AtInside
  <2>2. j + 1 \in 1 .. Len(t) + 1 /\ j + 1 \in u .. Len(t) + 1 /\ j + 1 # u
    <3> HIDE DEF j
    <3> QED
      BY <1>0, <1>5, <2>1
  <2>3. o = Prepend(r.v, next) /\ \A c : SameAs(c, r) =>
          ParseOn(t, h, Twin(what), c, d + 1, close) = Stored(r.v, follows)
    BY <1>2, <1>3, <1>6 DEF Closes
  <2> HIDE DEF j
  <2>4. Rank(what, j + 1, Len(t)) < Rank(what, u, Len(t))
    BY <1>0, <2>2, RankBelow
  <2>5. SameList(t, g, h, V, what, j + 1, d)
    BY <2>2, <2>4 DEF SameBelow
  <2>6. next.ok => IsList(next.v) /\ (Within(what, next.v, V) => SameAs(follows, next))
    BY <2>5 DEF SameList
  <2> HIDE DEF next, follows
  <2>7. next.ok
    <3> SUFFICES ASSUME ~ next.ok PROVE FALSE
      OBVIOUS
    <3>1. o = next
      BY <2>3, Prefixed
    <3> QED
      BY <3>1, Zenon
  <2>8. o = Done(<<r.v>> \o next.v, next.i)
    BY <2>3, <2>7, Prefixed
  <2>9. o.v = <<r.v>> \o next.v /\ o.i = next.i
    BY <2>8 DEF Done
  <2>10. IsList(next.v)
    BY <2>6, <2>7
  <2>11. /\ IsList(o.v)
         /\ Within(what, o.v, V) => Element(what, r.v) \in V /\ Within(what, next.v, V)
    BY <2>9, <2>10, ListPrefixed
  <2>12. ASSUME Within(what, o.v, V), NEW c, SameAs(c, r)
         PROVE  SameAs(ParseOn(t, h, Twin(what), c, d + 1, close), o)
    <3>1. follows.ok /\ follows.v = next.v /\ follows.i = next.i
      BY <2>6, <2>7, <2>11, <2>12 DEF SameAs
    <3>2. Stored(r.v, follows) = Value(<<r.v>> \o next.v, next.i)
      BY <3>1, Prefixed
    <3>3. SameAs(Stored(r.v, follows), o)
      BY <2>9, <3>2 DEF SameAs, Value
    <3> QED
      BY <2>3, <2>12, <3>3
  <2>13. At(t, r.i) \notin Numeric
    BY <1>4, <1>6 DEF Follower
  <2> QED
    BY <2>11, <2>12, <2>13 DEF OnIsSame
<1>7. CASE At(t, j) # "," /\ At(t, j) = close
  <2>1. o = Done(<<r.v>>, j + 1) /\ \A c : SameAs(c, r) =>
          ParseOn(t, h, Twin(what), c, d + 1, close) = Value(<<r.v>>, j + 1)
    BY <1>2, <1>3, <1>7
  <2> HIDE DEF j
  <2>2. o.v = <<r.v>> /\ o.i = j + 1
    BY <2>1 DEF Done
  <2>3. SameAs(Value(<<r.v>>, j + 1), o)
    BY <2>2 DEF SameAs, Value
  <2>4. At(t, r.i) \notin Numeric
    BY <1>4, <1>7 DEF Follower, Closes
  <2>5. IsList(o.v) /\ (Within(what, o.v, V) => Element(what, r.v) \in V)
    BY <2>2, ListOfOne
  <2> QED
    BY <2>1, <2>3, <2>4, <2>5 DEF OnIsSame
<1>8. CASE At(t, j) # "," /\ At(t, j) # close
  <2>1. o = Refused(j)
    BY <1>2, <1>8
  <2> QED
    BY <2>1 DEF Refused
<1> QED
  BY <1>6, <1>7, <1>8

\* A place that is read is not too deep.
LEMMA ReadIsShallow ==
  ASSUME NEW t, NEW g, Reads(t, g), NEW what \in {"value", "items", "fields"},
         NEW u \in 1 .. Len(t) + 1, NEW d \in ReadDepths, g[<<what, u, d>>].ok
  PROVE  /\ d \in 0 .. MAX_DEPTH /\ d + 1 \in ReadDepths
         /\ d \in ParseDepths /\ d < JSON_MAX_DEPTH /\ ~ (d >= JSON_MAX_DEPTH)
         /\ what = "value" => g[<<what, u, d>>] = ReadValue(t, g, u, d)
         /\ what = "items" => g[<<what, u, d>>] = ReadItems(t, g, u, d)
         /\ what = "fields" => g[<<what, u, d>>] = ReadFields(t, g, u, d)
<1>1. g[<<what, u, d>>] = ReadFrom(t, g, what, u, d)
  BY DEF Reads
<1>2. CASE d > MAX_DEPTH
  <2>1. g[<<what, u, d>>] = Refused(u)
    BY <1>1, <1>2, DepthsAssumption DEF ReadFrom, ReadDepths
  <2> QED
    BY <2>1 DEF Refused
<1>3. CASE ~ (d > MAX_DEPTH)
  <2>1. d <= MAX_DEPTH /\ d \in 0 .. MAX_DEPTH /\ d + 1 \in ReadDepths
    BY <1>3, DepthsAssumption DEF ReadDepths
  <2>2. d \in ParseDepths /\ d < JSON_MAX_DEPTH /\ ~ (d >= JSON_MAX_DEPTH)
    BY <2>1, DepthsAssumption DEF ParseDepths
  <2> QED
    BY <1>1, <1>3, <2>1, <2>2 DEF ReadFrom
<1> QED
  BY <1>2, <1>3

LEMMA ItemsSame ==
  ASSUME NEW S, NEW t \in Seq(S), NEW g, NEW h, NEW V, Reads(t, g), Parses(t, h),
         NEW u \in 1 .. Len(t) + 1, NEW d \in ReadDepths,
         SameBelow(t, g, h, V, Rank("items", u, Len(t)))
  PROVE  SameList(t, g, h, V, "items", u, d)
<1> DEFINE o == g[<<"items", u, d>>]
           j == Skip(t, u)
           r == g[<<"value", j, d + 1>>]
           c == ParseInner(t, h, j, d + 1)
<1>1. SUFFICES ASSUME o.ok
               PROVE  IsList(o.v) /\ (Within("items", o.v, V) => SameAs(h[<<"items", u, d + 1>>], o))
  BY DEF SameList, Twin
<1>2. Len(t) \in Nat
  BY LenProperties
<1>3. /\ j \in u .. Len(t) + 1 /\ j \in 1 .. Len(t) + 1 /\ SkipWs(t, u) = j
  BY SkipStops
<1>4. d + 1 \in ReadDepths /\ o = ReadItems(t, g, u, d)
  BY <1>1, ReadIsShallow
<1>5. o = IF r.ok THEN ReadOn(t, g, "items", r, d, "]") ELSE r
  BY <1>4 DEF ReadItems, Then
<1>6. Ended(t, r, j)
  BY <1>3, <1>4 DEF Reads
<1>7. SameValue(t, g, h, V, j, d + 1)
  <2> HIDE DEF j
  <2>1. Rank("value", j, Len(t)) < Rank("items", u, Len(t))
    BY <1>2, <1>3, RankBelow
  <2> QED
    BY <1>3, <1>4, <2>1 DEF SameBelow
<1>8. r.ok
  <2> SUFFICES ASSUME ~ r.ok PROVE FALSE
    OBVIOUS
  <2> HIDE DEF o, r
  <2>1. o = r
    BY <1>5
  <2> QED
    BY <1>1, <2>1, Zenon
<1>9. d + 1 \in ParseDepths /\ d + 1 < JSON_MAX_DEPTH /\ ~ (d + 1 >= JSON_MAX_DEPTH)
  BY <1>3, <1>4, <1>8, ReadIsShallow
<1>10. /\ h[<<"items", u, d + 1>>] = ParseItems(t, h, u, d + 1)
       /\ h[<<"value", u, d + 1>>] = c
  BY <1>3, <1>9 DEF Parses, ParseFrom
<1>11. c.ok => h[<<"items", u, d + 1>>] = ParseOn(t, h, "items", c, d + 1, "]")
  BY <1>10 DEF ParseItems, And
<1>12. r.ok /\ At(t, r.i) \notin Numeric /\ r.v \in V => SameAs(c, r)
  BY <1>7 DEF SameValue
<1>13. Ended(t, r, u)
  <2>1. u \in Nat /\ j \in Nat /\ u <= j
    <3> HIDE DEF j
    <3> QED
      BY <1>2, <1>3
  <2> HIDE DEF j, r
  <2> QED
    BY <1>6, <2>1, EndedEarlier
<1> HIDE DEF o, j, r, c
<1>14. o = ReadOn(t, g, "items", r, d, "]")
  BY <1>5, <1>8
<1>15. Closes("]") /\ "items" \in {"items", "fields"} /\ Twin("items") = "items"
  BY DEF Closes, Twin
<1>16. /\ IsList(o.v) /\ At(t, r.i) \notin Numeric
       /\ Within("items", o.v, V) =>
            /\ Element("items", r.v) \in V
            /\ SameAs(c, r) => SameAs(ParseOn(t, h, "items", c, d + 1, "]"), o)
  <2>1. OnIsSame(t, h, V, "items", d, "]", r, o)
    BY <1>1, <1>8, <1>13, <1>14, <1>15, OnSame
  <2> QED
    BY <1>15, <2>1 DEF OnIsSame
<1>17. ASSUME Within("items", o.v, V) PROVE SameAs(h[<<"items", u, d + 1>>], o)
  <2>1. r.v \in V
    BY <1>16, <1>17 DEF Element
  <2>2. SameAs(c, r)
    BY <1>8, <1>12, <1>16, <2>1
  <2>3. c.ok
    BY <2>2 DEF SameAs
  <2> QED
    BY <1>11, <1>16, <1>17, <2>2, <2>3
<1> QED
  BY <1>16, <1>17

LEMMA FieldSame ==
  ASSUME NEW S, NEW t \in Seq(S), NEW g, NEW h, NEW V, Reads(t, g), Parses(t, h),
         NEW u \in 1 .. Len(t) + 1, NEW d \in 0 .. MAX_DEPTH,
         SameBelow(t, g, h, V, Rank("fields", u, Len(t))),
         NEW key, key.ok, Ended(t, key, u), NEW f, f = ReadField(t, g, key, d), f.ok
  PROVE  /\ Ended(t, f, u)
         /\ d + 1 \in ParseDepths /\ d + 1 < JSON_MAX_DEPTH /\ ~ (d + 1 >= JSON_MAX_DEPTH)
         /\ At(t, f.i) \notin Numeric /\ Element("fields", f.v) \in V =>
              \A c : SameAs(c, key) => SameAs(ParseMember(t, h, c, d + 1), f)
<1> DEFINE j == Skip(t, key.i)
           k == Skip(t, j + 1)
           r == g[<<"value", k, d + 1>>]
           w == ParseInner(t, h, k, d + 1)
<1>1. Len(t) \in Nat /\ d + 1 \in ReadDepths
      /\ key.i \in u + 1 .. Len(t) + 1 /\ key.i \in 1 .. Len(t) + 1
  BY LenProperties, DepthsAssumption DEF ReadDepths, Ended
<1>2. j \in u + 1 .. Len(t) + 1 /\ j \in 1 .. Len(t) + 1 /\ SkipWs(t, key.i) = j
  BY <1>1, SkipStops
<1>3. CASE At(t, j) # ":"
  <2>1. f = Refused(j)
    BY <1>3 DEF ReadField
  <2> QED
    BY <2>1 DEF Refused
<1>4. CASE At(t, j) = ":"
  <2>1. j \in 1 .. Len(t)
    BY <1>2, <1>4, AtInside
  <2>2. j + 1 \in 1 .. Len(t) + 1 /\ j + 1 \in u .. Len(t) + 1
    <3> HIDE DEF j
    <3> QED
      BY <1>1, <1>2, <2>1
  <2>3. /\ k \in j + 1 .. Len(t) + 1 /\ k \in 1 .. Len(t) + 1 /\ SkipWs(t, j + 1) = k
    BY <2>2, SkipStops
  <2>4. k \in u .. Len(t) + 1 /\ u \in Nat /\ k \in Nat /\ u <= k
    <3> HIDE DEF j, k
    <3> QED
      BY <1>1, <2>2, <2>3
  <2>5. f = AsField(key, r)
    BY <1>4 DEF ReadField, AsField
  <2>6. SameValue(t, g, h, V, k, d + 1)
    <3> HIDE DEF k
    <3>1. Rank("value", k, Len(t)) < Rank("fields", u, Len(t))
      BY <1>1, <2>4, RankBelow
    <3> QED
      BY <1>1, <2>3, <3>1 DEF SameBelow
  <2>7. Ended(t, r, k)
    BY <1>1, <2>3 DEF Reads
  <2>8. r.ok
    <3> SUFFICES ASSUME ~ r.ok PROVE FALSE
      OBVIOUS
    <3> HIDE DEF r
    <3>1. f = r
      BY <2>5, AsIs
    <3> QED
      BY <3>1, Zenon
  <2>9. d + 1 \in ParseDepths /\ d + 1 < JSON_MAX_DEPTH /\ ~ (d + 1 >= JSON_MAX_DEPTH)
    BY <1>1, <2>3, <2>8, ReadIsShallow
  <2>10. h[<<"value", j + 1, d + 1>>] = w
    BY <2>2, <2>3, <2>9 DEF Parses, ParseFrom
  <2>11. \A c : SameAs(c, key) => ParseMember(t, h, c, d + 1) = TypedMember(c, w)
    BY <1>2, <1>4, <2>10 DEF ParseMember, TypedMember, SameAs
  <2>12. At(t, r.i) \notin Numeric /\ r.v \in V => SameAs(w, r)
    BY <2>6, <2>8 DEF SameValue
  <2> HIDE DEF j, k, r, w
  <2>13. f = Done(<<key.v, r.v>>, r.i)
    BY <2>5, <2>8, AsIs
  <2>14. f.v = <<key.v, r.v>> /\ f.i = r.i /\ Element("fields", f.v) = r.v
    BY <2>13 DEF Done, Element
  <2>15. Ended(t, f, u)
    BY <2>4, <2>5, <2>7, EndedEarlier, AsEnded
  <2>16. ASSUME At(t, f.i) \notin Numeric, Element("fields", f.v) \in V, NEW c, SameAs(c, key)
         PROVE  SameAs(ParseMember(t, h, c, d + 1), f)
    <3>1. w.ok /\ w.v = r.v /\ w.i = r.i /\ c.v = key.v
      BY <2>12, <2>14, <2>16 DEF SameAs
    <3>2. TypedMember(c, w) = Value(<<c.v, w.v>>, w.i)
      BY <3>1, TypedIs
    <3>3. SameAs(TypedMember(c, w), f)
      BY <2>14, <3>1, <3>2 DEF SameAs, Value
    <3> QED
      BY <2>11, <2>16, <3>3
  <2> QED
    BY <2>9, <2>15, <2>16
<1> QED
  BY <1>3, <1>4

LEMMA FieldsSame ==
  ASSUME NEW S, NEW t \in Seq(S), NEW g, NEW h, NEW V, Reads(t, g), Parses(t, h),
         NEW u \in 1 .. Len(t) + 1, NEW d \in ReadDepths,
         SameBelow(t, g, h, V, Rank("fields", u, Len(t)))
  PROVE  SameList(t, g, h, V, "fields", u, d)
<1> DEFINE o == g[<<"fields", u, d>>]
           j == Skip(t, u)
           key == String(t, j)
           ckey == ParseStringRaw(t, j)
           f == IF key.ok THEN ReadField(t, g, key, d) ELSE key
           c == ParseMember(t, h, ckey, d + 1)
<1>1. SUFFICES ASSUME o.ok
               PROVE  IsList(o.v) /\ (Within("fields", o.v, V) => SameAs(h[<<"pairs", u, d + 1>>], o))
  BY DEF SameList, Twin
<1>2. Len(t) \in Nat
  BY LenProperties
<1>3. /\ j \in u .. Len(t) + 1 /\ j \in 1 .. Len(t) + 1 /\ SkipWs(t, u) = j
  BY SkipStops
<1>4. d \in 0 .. MAX_DEPTH /\ o = ReadFields(t, g, u, d)
  BY <1>1, ReadIsShallow
<1>5. o = IF f.ok THEN ReadOn(t, g, "fields", f, d, "}") ELSE f
  BY <1>4 DEF ReadFields, Then
<1>6. Ended(t, key, j) /\ (key.ok => SameAs(ckey, key))
  BY <1>3, StringsAgree
<1>7. Ended(t, key, u)
  <2>1. u \in Nat /\ j \in Nat /\ u <= j
    <3> HIDE DEF j
    <3> QED
      BY <1>2, <1>3
  <2> HIDE DEF j, key
  <2> QED
    BY <1>6, <2>1, EndedEarlier
<1>8. d + 1 \in ParseDepths /\ ~ (d + 1 >= JSON_MAX_DEPTH) /\ d + 1 < JSON_MAX_DEPTH =>
        h[<<"pairs", u, d + 1>>] =
          And(IF ckey.ok THEN c ELSE ckey, LAMBDA r : ParseOn(t, h, "pairs", r, d + 1, "}"))
  <2>1. ParsePairs(t, h, u, d + 1) =
          And(IF ckey.ok THEN c ELSE ckey, LAMBDA r : ParseOn(t, h, "pairs", r, d + 1, "}"))
    BY <1>3 DEF ParsePairs, And
  <2>2. d + 1 \in ParseDepths /\ ~ (d + 1 >= JSON_MAX_DEPTH) /\ d + 1 < JSON_MAX_DEPTH =>
          h[<<"pairs", u, d + 1>>] = ParsePairs(t, h, u, d + 1)
    <3> HIDE DEF j, key, ckey, c, f
    <3> QED
      BY DEF Parses, ParseFrom
  <2> HIDE DEF j, key, ckey, c, f
  <2> QED
    BY <2>1, <2>2
<1> HIDE DEF o, j, key, ckey, c
<1>9. key.ok /\ f.ok
  <2>1. CASE ~ key.ok
    <3>1. f = key
      BY <2>1
    <3> HIDE DEF f
    <3>2. o = key
      BY <1>5, <2>1, <3>1
    <3> QED
      BY <1>1, <2>1, <3>2, Zenon
  <2>2. CASE ~ f.ok
    <3> HIDE DEF f
    <3>1. o = f
      BY <1>5, <2>2
    <3> QED
      BY <1>1, <2>2, <3>1, Zenon
  <2> QED
    BY <2>1, <2>2
<1>10. f = ReadField(t, g, key, d)
  BY <1>9
<1> HIDE DEF f
<1>11. SameAs(ckey, key)
  BY <1>6, <1>9
<1>12. /\ Ended(t, f, u)
       /\ d + 1 \in ParseDepths /\ d + 1 < JSON_MAX_DEPTH /\ ~ (d + 1 >= JSON_MAX_DEPTH)
       /\ At(t, f.i) \notin Numeric /\ Element("fields", f.v) \in V => SameAs(c, f)
  BY <1>4, <1>7, <1>9, <1>10, <1>11, FieldSame DEF c
<1>13. c.ok => h[<<"pairs", u, d + 1>>] = ParseOn(t, h, "pairs", c, d + 1, "}")
  BY <1>8, <1>11, <1>12 DEF And, SameAs
<1>14. o = ReadOn(t, g, "fields", f, d, "}")
  BY <1>5, <1>9
<1>15. Closes("}") /\ "fields" \in {"items", "fields"} /\ Twin("fields") = "pairs"
  BY DEF Closes, Twin
<1>16. /\ IsList(o.v) /\ At(t, f.i) \notin Numeric
       /\ Within("fields", o.v, V) =>
            /\ Element("fields", f.v) \in V
            /\ SameAs(c, f) => SameAs(ParseOn(t, h, "pairs", c, d + 1, "}"), o)
  <2>1. OnIsSame(t, h, V, "fields", d, "}", f, o)
    BY <1>1, <1>9, <1>12, <1>14, <1>15, OnSame
  <2> QED
    BY <1>15, <2>1 DEF OnIsSame
<1>17. ASSUME Within("fields", o.v, V) PROVE SameAs(h[<<"pairs", u, d + 1>>], o)
  <2>1. SameAs(c, f)
    BY <1>12, <1>16, <1>17
  <2>2. c.ok
    BY <2>1 DEF SameAs
  <2> QED
    BY <1>13, <1>16, <1>17, <2>1, <2>2
<1> QED
  BY <1>16, <1>17

LEMMA SameEverywhere ==
  ASSUME NEW S, NEW t \in Seq(S), NEW g, NEW h, NEW V, Fitting(V), Reads(t, g), Parses(t, h)
  PROVE  SameBelow(t, g, h, V, 2 * Len(t) + 2)
<1> DEFINE top == 2 * Len(t) + 2
           Reached == {m \in 0 .. top : SameBelow(t, g, h, V, m)}
<1>0. Len(t) \in Nat /\ top \in Nat
  BY LenProperties
<1>1. \A what \in {"value", "items", "fields"}, u \in 1 .. Len(t) + 1 :
        Rank(what, u, Len(t)) \in 0 .. 2 * Len(t) + 1
  <2>1. \A u \in 1 .. Len(t) + 1 : u \in u .. Len(t) + 1
    BY <1>0
  <2> QED
    BY <1>0, <2>1, RankBelow
<1>2. ASSUME NEW m \in Nat, NEW n \in Nat, n <= m, SameBelow(t, g, h, V, m)
      PROVE  SameBelow(t, g, h, V, n)
  <2>1. ASSUME NEW what \in {"value", "items", "fields"}, NEW u \in 1 .. Len(t) + 1,
               Rank(what, u, Len(t)) < n
        PROVE  Rank(what, u, Len(t)) < m
    <3> DEFINE q == Rank(what, u, Len(t))
    <3>1. q \in Int /\ q < n
      BY <1>0, <1>1, <2>1
    <3> HIDE DEF q
    <3>2. q < m
      BY <1>2, <3>1
    <3> QED
      BY <3>2 DEF q
  <2> QED
    BY <1>2, <2>1 DEF SameBelow
<1>3. 0 \in Reached
  <2>1. \A what \in {"value", "items", "fields"}, u \in 1 .. Len(t) + 1 :
          ~ (Rank(what, u, Len(t)) < 0)
    BY <1>0, <1>1
  <2>2. SameBelow(t, g, h, V, 0)
    BY <2>1 DEF SameBelow
  <2> QED
    BY <1>0, <2>2
<1>4. ASSUME NEW m \in 0 .. top - 1, m \in Reached PROVE m + 1 \in Reached
  <2>1. m \in Nat /\ m + 1 \in 0 .. top /\ SameBelow(t, g, h, V, m)
    BY <1>0, <1>4
  <2> HIDE DEF top, Reached
  <2>2. ASSUME NEW what \in {"value", "items", "fields"}, NEW u \in 1 .. Len(t) + 1,
               Rank(what, u, Len(t)) < m + 1
        PROVE  SameBelow(t, g, h, V, Rank(what, u, Len(t)))
    <3>1. Rank(what, u, Len(t)) <= m /\ Rank(what, u, Len(t)) \in Nat
      BY <1>0, <1>1, <2>1, <2>2
    <3> QED
      BY <1>2, <2>1, <3>1
  <2>3. ASSUME NEW u \in 1 .. Len(t) + 1, NEW d \in ReadDepths, Rank("value", u, Len(t)) < m + 1
        PROVE  SameValue(t, g, h, V, u, d)
    <3> DEFINE r == g[<<"value", u, d>>]
    <3>1. SUFFICES ASSUME r.ok, At(t, r.i) \notin Numeric, r.v \in V
                   PROVE  SameAs(ParseInner(t, h, u, d), r)
      BY DEF SameValue
    <3>2. r = ReadValue(t, g, u, d)
      BY <3>1, ReadIsShallow
    <3>3. SameBelow(t, g, h, V, Rank("value", u, Len(t)))
      BY <2>2, <2>3
    <3> HIDE DEF r
    <3> QED
      BY <3>1, <3>2, <3>3, ValueSame
  <2>4. ASSUME NEW u \in 1 .. Len(t) + 1, NEW d \in ReadDepths, NEW what \in {"items", "fields"},
               Rank(what, u, Len(t)) < m + 1
        PROVE  SameList(t, g, h, V, what, u, d)
    <3>1. SameBelow(t, g, h, V, Rank(what, u, Len(t)))
      BY <2>2, <2>4
    <3>2. CASE what = "items"
      BY <3>1, <3>2, ItemsSame
    <3>3. CASE what = "fields"
      BY <3>1, <3>3, FieldsSame
    <3> QED
      BY <3>2, <3>3
  <2>5. SameBelow(t, g, h, V, m + 1)
    BY <2>3, <2>4 DEF SameBelow
  <2> QED
    BY <2>1, <2>5 DEF Reached
<1> HIDE DEF top, Reached
<1>5. 0 .. top \subseteq Reached /\ top \in 0 .. top
  BY <1>0, <1>3, <1>4, UpTo
<1> QED
  BY <1>5 DEF Reached, top

\* What cis2-verify accepts, verify3 accepts too and reads as the same value,
\* whatever the text and however long it is, if no number in it is longer than
\* verify3's buffer takes (json.rs:122 parse and json.c:267 json_parse).
THEOREM ReadersAgree ==
  ASSUME NEW S, NEW t \in Seq(S), Parse(t).ok, NumbersFit(Parse(t).v)
  PROVE  JsonParse(t).ok /\ JsonParse(t).v = Parse(t).v
<1> DEFINE g == CHOOSE f : ReadIs(t, f)
           h == CHOOSE f : ParseIs(t, f)
           first == Skip(t, 1)
           r == g[<<"value", first, 0>>]
           c == ParseInner(t, h, first, 0)
<1>0. Len(t) \in Nat /\ 1 \in 1 .. Len(t) + 1 /\ 0 \in ReadDepths
  BY LenProperties, DepthsAssumption DEF ReadDepths
<1>1. ReadIs(t, g) /\ ParseIs(t, h)
  BY ReadSolution, ParseSolution
<1>2. Read(t) = r
  BY DEF Read, ReadIs, ReadWhere, ReadDepths
<1>3. ParseValue(t) = h[<<"value", 1, 0>>]
  BY DEF ParseValue, ParseIs, ParseWhere, ParseDepths
<1> HIDE DEF g, h
<1>4. Reads(t, g) /\ Parses(t, h)
  BY <1>1, ReadEnds, ParseEnds DEF Reads, Parses
<1>5. first \in 1 .. Len(t) + 1 /\ SkipWs(t, 1) = first
  BY <1>0, SkipStops
<1>6. Ended(t, r, first)
  BY <1>0, <1>4, <1>5 DEF Reads
<1>7. Parse(t) = IF r.ok THEN IF Skip(t, r.i) = Len(t) + 1 THEN r ELSE Refused(Skip(t, r.i)) ELSE r
  BY <1>2 DEF Parse, Then
<1>8. r.ok /\ Skip(t, r.i) = Len(t) + 1 /\ Parse(t) = r
  <2> HIDE DEF r
  <2>1. CASE ~ r.ok
    <3>1. Parse(t) = r
      BY <1>7, <2>1
    <3> QED
      BY <2>1, <3>1, Zenon
  <2>2. CASE r.ok /\ Skip(t, r.i) # Len(t) + 1
    <3>1. Parse(t) = Refused(Skip(t, r.i))
      BY <1>7, <2>2
    <3> QED
      BY <3>1 DEF Refused
  <2> QED
    BY <1>7, <2>1, <2>2
<1>9. 0 \in ParseDepths /\ 0 < JSON_MAX_DEPTH /\ ~ (0 >= JSON_MAX_DEPTH)
  BY DepthsAssumption DEF ParseDepths
<1>10. h[<<"value", 1, 0>>] = c
  BY <1>0, <1>4, <1>5, <1>9 DEF Parses, ParseFrom
<1>11. PICK V : r.v \in V /\ Fitting(V)
  BY <1>8 DEF NumbersFit
<1>12. SameValue(t, g, h, V, first, 0)
  <2>1. SameBelow(t, g, h, V, 2 * Len(t) + 2)
    BY <1>4, <1>11, SameEverywhere
  <2>2. first \in first .. Len(t) + 1
    BY <1>0, <1>5
  <2> HIDE DEF first
  <2>3. Rank("value", first, Len(t)) \in 0 .. 2 * Len(t) + 1
    BY <1>0, <1>5, <2>2, RankBelow
  <2>4. Rank("value", first, Len(t)) < 2 * Len(t) + 2
    BY <1>0, <2>3
  <2> QED
    BY <1>0, <1>5, <2>1, <2>4 DEF SameBelow
<1>13. r.ok /\ At(t, r.i) \notin Numeric /\ r.v \in V => SameAs(c, r)
  BY <1>12 DEF SameValue
<1> HIDE DEF r, c, first
<1>14. r.i \in 1 .. Len(t) + 1 /\ first <= Len(t) /\ first \in Int
  <2>1. r.i \in first + 1 .. Len(t) + 1
    BY <1>6, <1>8 DEF Ended
  <2> DEFINE p == r.i
  <2>2. p \in first + 1 .. Len(t) + 1
    BY <2>1
  <2> HIDE DEF p
  <2>3. p \in 1 .. Len(t) + 1 /\ first <= Len(t) /\ first \in Int
    BY <1>0, <1>5, <2>2
  <2> QED
    BY <2>3 DEF p
<1>15. At(t, Len(t) + 1) = "end"
  BY <1>0 DEF At
<1>16. At(t, r.i) \notin Numeric
  BY <1>8, <1>14, <1>15, ValueEnds DEF Follower
<1>17. SameAs(c, r)
  BY <1>8, <1>11, <1>13, <1>16
<1>18. JsonParse(t) = c
  <2>1. Past(t, 1, Blanks) = first
    BY <1>5 DEF SkipWs
  <2>2. ~ (first > Len(t))
    BY <1>0, <1>14
  <2> QED
    BY <1>3, <1>10, <2>1, <2>2 DEF JsonParse
<1> QED
  BY <1>8, <1>17, <1>18 DEF SameAs
===============================================================================
