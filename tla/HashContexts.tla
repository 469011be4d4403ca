---------------------------- MODULE HashContexts ----------------------------
(***************************************************************************)
(* The contexts of three families of hash algorithms and what their        *)
(* routines do to them: the block hashes on top of hash-common.c with      *)
(* SHA-256's padding, BLAKE2 (src/cipher/blake2.c) and SHAKE and cSHAKE    *)
(* (src/cipher/keccak.c).  Bytes are symbols and the compression functions *)
(* are free: a digest is the list of the blocks that went into it.  Beside *)
(* each family stands what the algorithm's definition gives for an input.  *)
(***************************************************************************)
EXTENDS BlockBuffer, SequencesExt

CONSTANTS
  LenField,    \* bytes of the message length at the end of the padding
  Lane, Rate,  \* bytes of a Keccak lane, and of what a permutation absorbs
  OutLen       \* bytes a read of SHAKE returns

ASSUME ContextsAssumption ==
  /\ {LenField, Lane, Rate, OutLen} \subseteq Nat \ {0}
  /\ LenField < BlockLen /\ Rate % Lane = 0 /\ Rate > Lane

Zeros(n) == [i \in 1..n |-> Byte0]
None == <<"none">>

-----------------------------------------------------------------------------
(* Block hashes.  nblocks is Len(hash), count is Len(buf). *)

ShaInit == [hash |-> <<>>, buf |-> <<>>, out |-> None]

\* _gcry_md_block_write: the buffer is filled up and flushed first.
MdBlockWrite(c, in) ==
  LET n    == IF c.buf = <<>> THEN 0
              ELSE Lesser(BlockLen - Len(c.buf), Len(in))
      buf  == c.buf \o First(in, n)
      rest == Behind(in, n)
      full == Len(buf) = BlockLen
      h    == IF full THEN Append(c.hash, buf) ELSE c.hash
  IN  IF rest = <<>> THEN [c EXCEPT !.hash = h, !.buf = IF full THEN <<>> ELSE buf]
      ELSE [c EXCEPT !.hash = h \o FullBlocks(rest), !.buf = Tail0(rest)]

LengthBytes(n) == [i \in 1..LenField |-> <<"len", n>>]

\* sha256_final: one block more if the length does not fit in this one.
ShaFinal(c) ==
  LET room == BlockLen - LenField
      n    == Len(c.hash) * BlockLen + Len(c.buf)
      pad  == Append(c.buf, Byte80)
      up   == IF Len(c.buf) < room THEN room ELSE BlockLen + room
      all  == pad \o Zeros(up - Len(pad)) \o LengthBytes(n)
  IN  [hash |-> <<>>, buf |-> <<>>, out |-> <<"sha", c.hash \o FullBlocks(all)>>]

\* The definition: 0x80, the least zeros, the length.
ShaDigest(s) ==
  LET pads == {z \in 0..BlockLen : (Len(s) + 1 + z + LenField) % BlockLen = 0}
      z    == CHOOSE y \in pads : \A x \in pads : y <= x
  IN  <<"sha", FullBlocks(Append(s, Byte80) \o Zeros(z) \o LengthBytes(Len(s)))>>

-----------------------------------------------------------------------------
(* BLAKE2.  A compressed block is recorded with the counter and the flag. *)

Compressed(t, block, end) == [t |-> t, block |-> block, end |-> end]

\* blake2_write: the last block stays in the buffer until more is coming.
BlakeWrite(c, in) ==
  LET fill == BlockLen - Len(c.buf)
      rest == Behind(in, fill)
      n    == (Len(rest) - 1) \div BlockLen
      new  == <<c.buf \o First(in, fill)>> \o FullBlocks(First(rest, n * BlockLen))
  IN  IF Len(in) <= fill THEN [c EXCEPT !.buf = @ \o in]
      ELSE [c EXCEPT
              !.hash = @ \o [i \in 1..Len(new) |->
                               Compressed(c.t + i * BlockLen, new[i], FALSE)],
              !.t = @ + Len(new) * BlockLen,
              !.buf = Behind(rest, n * BlockLen)]

\* blake2b_init: the key is a block in front of the data.
BlakeInit(key) ==
  LET c == [param |-> key, hash |-> <<>>, buf |-> <<>>, t |-> 0, out |-> None]
  IN  IF key = None THEN c
      ELSE BlakeWrite(BlakeWrite(c, <<key>>), Zeros(BlockLen - 1))

\* blake2b_final
BlakeFinal(c) ==
  IF c.out # None THEN c
  ELSE [c EXCEPT !.out = <<"blake", c.param,
          Append(c.hash, Compressed(c.t + Len(c.buf),
                   c.buf \o Zeros(BlockLen - Len(c.buf)), TRUE))>>]

\* The definition: blocks of the key and the data, counted by bytes.
BlakeDigest(key, data) ==
  LET s == IF key = None THEN data
           ELSE <<key>> \o Zeros(BlockLen - 1) \o data
      n == IF s = <<>> THEN 1 ELSE ((Len(s) - 1) \div BlockLen) + 1
      p == s \o Zeros(n * BlockLen - Len(s))
  IN  <<"blake", key,
        [i \in 1..n |-> Compressed(Lesser(i * BlockLen, Len(s)),
                          SubSeq(p, (i - 1) * BlockLen + 1, i * BlockLen), i = n)]>>

-----------------------------------------------------------------------------
(* Keccak.  cur holds what each byte of the state was xored with since the    *)
(* last permutation, done the blocks permuted, squeezed the permutations      *)
(* since the end of the input.                                                *)

ZeroState == [p \in 0..(Rate - 1) |-> <<>>]
KeccakInit == [done |-> <<>>, cur |-> ZeroState, count |-> 0, suffix |-> <<"1f">>,
               squeezed |-> 0, way |-> "none", out |-> None]

AbsorbAt(k, at, in) ==
  [k EXCEPT !.cur = [p \in 0..(Rate - 1) |->
     IF at <= p /\ p < at + Len(in) THEN Append(@[p], in[p - at + 1]) ELSE @[p]]]

\* ops->absorb of one lane; the last lane of a block runs the permutation.
AbsorbLane(k, at, in, permutes) ==
  LET a == AbsorbAt(k, at, in)
  IN  IF permutes /\ at \div Lane = (Rate \div Lane) - 1
      THEN [a EXCEPT !.done = Append(@, a.cur), !.cur = ZeroState] ELSE a

\* Its loop over whole lanes: the contexts after 0, 1, 2... of them.
AbsorbSteps(k, at, in) ==
  LET step[i \in 0..(Len(in) \div Lane)] ==
        IF i = 0 THEN k
        ELSE AbsorbLane(step[i - 1], (at + (i - 1) * Lane) % Rate,
                        SubSeq(in, (i - 1) * Lane + 1, i * Lane), TRUE)
  IN  step

\* keccak_write: the rest of a lane, whole lanes, a part of a lane.
KeccakWrite(k, in) ==
  LET n     == IF k.count % Lane = 0 THEN 0
               ELSE Lesser(Lane - (k.count % Lane), Len(in))
      c1    == IF k.count + n = Rate THEN 0 ELSE k.count + n
      k1    == IF n = 0 THEN k
               ELSE AbsorbLane(k, k.count, First(in, n), c1 % Lane = 0)
      rest  == Behind(in, n)
      m     == Len(rest) \div Lane
      k2    == AbsorbSteps(k1, c1, rest)[m]
      c2    == (c1 + m * Lane) % Rate
      part  == Behind(rest, m * Lane)
      k3    == IF part = <<>> THEN k2 ELSE AbsorbLane(k2, c2, part, FALSE)
  IN  IF in = <<>> THEN k ELSE [k3 EXCEPT !.count = c2 + Len(part)]

\* Mutant: the count of absorbed bytes is not reset for the extraction.
KeccakFinal_Count(k) ==
  LET a == AbsorbAt(AbsorbAt(k, k.count, <<k.suffix>>), Rate - 1, <<Byte80>>)
  IN  [a EXCEPT !.done = Append(@, a.cur), !.cur = ZeroState]

\* keccak_final for SHAKE: the first permutation is left to the extraction.
KeccakFinal(k) ==
  LET a == AbsorbAt(AbsorbAt(k, k.count, <<k.suffix>>), Rate - 1, <<Byte80>>)
  IN  [a EXCEPT !.done = Append(@, a.cur), !.cur = ZeroState, !.count = 0]

StateByte(k, p) == <<"z", k.done, k.squeezed, p>>

\* do_keccak_extract, part by part.  s.n bytes are still to come; m of them are
\* taken from where the context stands.
Taken(s, m) ==
  [k   |-> [s.k EXCEPT !.count = (@ + m) % Rate],
   n   |-> s.n - m,
   out |-> s.out \o [i \in 1..m |-> StateByte(s.k, s.k.count + i - 1)]]

\* A part of a lane.  A turn ends the lane or the output, so two are enough.
PartialLane(s) ==
  IF s.k.count > 0 /\ s.n > 0 /\ (s.n < Lane \/ s.k.count % Lane # 0)
  THEN Taken(s, Lesser(Lane - (s.k.count % Lane), s.n)) ELSE s

\* The lanes up to the end of the block.
TailLanes(s) ==
  IF s.n >= Lane /\ s.k.count > 0
  THEN Taken(s, Lane * Lesser(s.n \div Lane, (Rate - s.k.count) \div Lane)) ELSE s

\* Whole blocks, each after a permutation.
WholeBlocks(s) ==
  LET after(q) == [s.k EXCEPT !.squeezed = @ + q]
      q == s.n \div Rate
  IN  [k   |-> after(q),
       n   |-> s.n - q * Rate,
       out |-> s.out \o [i \in 1..(q * Rate) |->
                 StateByte(after(((i - 1) \div Rate) + 1), (i - 1) % Rate)]]

\* The head of a block, or of the lane where the tail ended.
BlockHead(s) ==
  IF s.n = 0 THEN s
  ELSE Taken([s EXCEPT !.k.squeezed = IF s.k.count = 0 THEN @ + 1 ELSE @], s.n)

KeccakExtract(k, n) ==
  LET s == PartialLane(PartialLane([k |-> k, n |-> n, out |-> <<>>]))
      r == BlockHead(WholeBlocks(TailLanes(s)))
  IN  [k |-> r.k, out |-> r.out]

\* _gcry_cshake_customize and its two helpers: the names of function and
\* caller, each behind its length, padded to a whole number of blocks.
CshakeHead(n, s) == <<<<"rate", 1>>, <<"rate", 2>>, <<"n", n, 1>>, <<"n", n, 2>>>>
                    \o [i \in 1..n |-> <<"N", i>>]
                    \o <<<<"s", s, 1>>, <<"s", s, 2>>>>
                    \o [i \in 1..s |-> <<"S", i>>]
CshakeCustomize(k, n, s) ==
  LET head == CshakeHead(n, s)
      pad  == Rate - (Len(head) % Rate)
  IN  IF n = 0 /\ s = 0 THEN k
      ELSE [KeccakWrite(KeccakWrite(k, head), Zeros(pad)) EXCEPT
              !.suffix = <<"04">>]

\* The definition: the padded input in blocks, and byte i of the output.
KeccakBlocks(s, suffix) ==
  LET n    == Len(s) \div Rate
      at(i, p) == i * Rate + p + 1
  IN  [i \in 1..(n + 1) |->
         [p \in 0..(Rate - 1) |->
            (IF at(i - 1, p) <= Len(s) THEN <<s[at(i - 1, p)]>> ELSE <<>>)
            \o (IF at(i - 1, p) = Len(s) + 1 THEN <<suffix>> ELSE <<>>)
            \o (IF i = n + 1 /\ p = Rate - 1 THEN <<Byte80>> ELSE <<>>)]]
ShakeByte(s, suffix, i) ==
  <<"z", KeccakBlocks(s, suffix), ((i - 1) \div Rate) + 1, (i - 1) % Rate>>
ShakeDigest(s, suffix) == [i \in 1..OutLen |-> ShakeByte(s, suffix, i)]

\* cSHAKE: bytepad fills up with zeros to the next multiple of the rate.
CshakeInput(n, s, data) ==
  LET head == CshakeHead(n, s)
  IN  IF n = 0 /\ s = 0 THEN data
      ELSE head \o Zeros((Rate - (Len(head) % Rate)) % Rate) \o data
=============================================================================
