---------------------------- MODULE Sha256Stream ----------------------------
(***************************************************************************)
(* SHA-256 as a stream: cis2-verify's buffer (sha256.rs), verify3's        *)
(* (sha256.c) and the sha2 crate of the other two programs, which take a   *)
(* message in pieces and hash it in blocks of 64 bytes.  The compression   *)
(* function is left out: a digest is the sequence of blocks it was given.  *)
(* A message's bytes are numbers from 256 on, all different; the bytes of  *)
(* the padding and of the length are numbers below 256, as they are.       *)
(***************************************************************************)
EXTENDS Integers, Sequences

CONSTANTS
  Codes,       \* a subset of {"rust", "c", "crate"}
  MaxLength,   \* bound: how long a message gets
  Cuts         \* the lengths of the pieces it is fed in

ASSUME LengthsAssumption ==
  /\ Codes \subseteq {"rust", "c", "crate"}
  /\ MaxLength \in Nat
  /\ Cuts \subseteq Nat

VARIABLES
  hasher,   \* code, blocks hashed, buffer, bytes in it, and the count it keeps
  fed,      \* bytes of the message fed so far
  digest    \* the blocks behind the digest; <<>> before the end

hashVars == <<hasher, fed, digest>>

Least(a, b) == IF a < b THEN a ELSE b
Zeros(n) == [i \in 1 .. n |-> 0]
Bytes(from, to) == [i \in 1 .. to - from |-> 255 + from + i]
Drop(s, n) == SubSeq(s, n + 1, Len(s))

\* buf[at..at + data.len()].copy_from_slice(data)
CopyInto(buf, at, data) ==
  [i \in 1 .. Len(buf) |-> IF i \in at + 1 .. at + Len(data) THEN data[i - at] ELSE buf[i]]

\* The 8 bytes of a count, the highest first: what is left of it in 64 bits.
BigEndian(n) ==
  LET high == n \div 16777216
  IN  <<((high \div 16777216) \div 256) % 256, (high \div 16777216) % 256,
        (high \div 65536) % 256, (high \div 256) % 256, high % 256,
        (n \div 65536) % 256, (n \div 256) % 256, n % 256>>

\* FIPS 180-4: a one bit, zeros up to a block's 56th byte, the length in bits.
Padded(m) ==
  LET zeros == CHOOSE k \in 0 .. 63 : (Len(m) + 1 + k) % 64 = 56
  IN  m \o <<128>> \o Zeros(zeros) \o BigEndian(8 * Len(m))

-----------------------------------------------------------------------------
New(code) == [code |-> code, blocks |-> << >>, buf |-> Zeros(64), len |-> 0, total |-> 0]

Compress(h, block) == [h EXCEPT !.blocks = @ \o block]

\* Mutation: a call that fills the buffer leaves it marked as full.
UpdateRustStaysFull(h, data) ==
  LET take == IF h.len > 0 THEN Least(64 - h.len, Len(data)) ELSE 0
      topped == [h EXCEPT !.buf = CopyInto(@, h.len, SubSeq(data, 1, take)),
                          !.len = @ + take, !.total = @ + Len(data)]
      opened == IF topped.len = 64 /\ take > 0 THEN Compress(topped, topped.buf) ELSE topped
      rest == Drop(data, take)
      whole == 64 * (Len(rest) \div 64)
      hashed == Compress(opened, SubSeq(rest, 1, whole))
      tail == Drop(rest, whole)
  IN  IF tail = << >> THEN hashed
      ELSE [hashed EXCEPT !.buf = CopyInto(@, 0, tail), !.len = Len(tail)]

\* Sha256::update: fill what is in the buffer up to a block, hash whole blocks
\* from the data, keep the rest.
UpdateRust(h, data) ==
  LET take == IF h.len > 0 THEN Least(64 - h.len, Len(data)) ELSE 0
      topped == [h EXCEPT !.buf = CopyInto(@, h.len, SubSeq(data, 1, take)),
                          !.len = @ + take, !.total = @ + Len(data)]
      opened == IF topped.len = 64 THEN [Compress(topped, topped.buf) EXCEPT !.len = 0] ELSE topped
      rest == Drop(data, take)
      whole == 64 * (Len(rest) \div 64)
      hashed == Compress(opened, SubSeq(rest, 1, whole))
      tail == Drop(rest, whole)
  IN  IF tail = << >> THEN hashed
      ELSE [hashed EXCEPT !.buf = CopyInto(@, 0, tail), !.len = Len(tail)]

\* Sha256::finalize: the padding goes through update, a byte at a time; after at
\* most 63 zeros there are 56 bytes in the buffer.
FinalizeRust(h) ==
  LET pad[k \in 0 .. 63] ==
        IF k = 0 THEN UpdateRust(h, <<128>>)
        ELSE LET g == pad[k - 1] IN IF g.len = 56 THEN g ELSE UpdateRust(g, <<0>>)
  IN  Compress(pad[63], CopyInto(pad[63].buf, 56, BigEndian(8 * h.total))).blocks

\* Bytes are put into the buffer, at most what it has room for; bitlen counts
\* whole blocks.
Put(h, data) ==
  LET filled == [h EXCEPT !.buf = CopyInto(@, h.len, data), !.len = @ + Len(data)]
  IN  IF filled.len = 64
        THEN [Compress(filled, filled.buf) EXCEPT !.total = @ + 512, !.len = 0]
        ELSE filled

\* cis2_sha256_update: byte after byte, here up to the end of a block at a time.
UpdateC(h, data) ==
  LET End(r) == IF r = 0 THEN 0 ELSE Least(64 * r - h.len, Len(data))
      put[r \in 0 .. Len(data) \div 64 + 2] ==
        IF r = 0 THEN h ELSE Put(put[r - 1], SubSeq(data, End(r - 1) + 1, End(r)))
  IN  put[Len(data) \div 64 + 2]

\* Mutation: the mark and the length always go into one block.
FinalizeCOneBlock(h) ==
  LET marked == CopyInto(h.buf, h.len, <<128>> \o Zeros(63 - h.len))
      bits == h.total + 8 * h.len
  IN  Compress(h, CopyInto(marked, 56, BigEndian(bits))).blocks

\* cis2_sha256_final: when the mark leaves no room for the length, one more
\* block; the count of bits is completed by what is in the buffer.
FinalizeC(h) ==
  LET end == IF h.len < 56 THEN 56 ELSE 64
      marked == CopyInto(h.buf, h.len, <<128>> \o Zeros(end - h.len - 1))
      room == IF h.len < 56 THEN [h EXCEPT !.buf = marked]
              ELSE [Compress(h, marked) EXCEPT !.buf = CopyInto(marked, 0, Zeros(56))]
      bits == h.total + 8 * h.len
  IN  Compress(room, CopyInto(room.buf, 56, BigEndian(bits))).blocks

\* The sha2 crate, by what it promises.
UpdateCrate(h, data) == Compress(h, data)
FinalizeCrate(h) == Padded(h.blocks)

Update(h, data) ==
  CASE h.code = "rust"  -> UpdateRust(h, data)
    [] h.code = "c"     -> UpdateC(h, data)
    [] h.code = "crate" -> UpdateCrate(h, data)

Finalize(h) ==
  CASE h.code = "rust"  -> FinalizeRust(h)
    [] h.code = "c"     -> FinalizeC(h)
    [] h.code = "crate" -> FinalizeCrate(h)

-----------------------------------------------------------------------------
HashInit ==
  /\ hasher \in {New(code) : code \in Codes}
  /\ fed = 0
  /\ digest = << >>

\* One call of update with the next k bytes.
Feed(k) ==
  /\ digest = << >>
  /\ fed + k <= MaxLength
  /\ hasher' = Update(hasher, Bytes(fed, fed + k))
  /\ fed' = fed + k
  /\ UNCHANGED digest

Finish ==
  /\ digest = << >>
  /\ digest' = Finalize(hasher)
  /\ UNCHANGED <<hasher, fed>>

HashNext == (\E k \in Cuts : Feed(k)) \/ Finish

HashSpec == HashInit /\ [][HashNext]_hashVars

HashTypeOK ==
  /\ hasher.len \in 0 .. 63
  /\ Len(hasher.buf) = 64
  /\ fed \in 0 .. MaxLength

\* However a message is cut into calls of update, and whichever of the programs'
\* codes hashes it, the digest is that of the blocks of the padded message
\* (FIPS 180-4): nothing is lost, repeated or left over from an earlier block
\* when a call fills the buffer, ends where a block ends, or leaves no room for
\* the length.
DigestIsOfMessage == digest # << >> => digest = Padded(Bytes(0, fed))
=============================================================================
