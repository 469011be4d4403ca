----------------------------- MODULE BlockBuffer -----------------------------
(***************************************************************************)
(* How the code collects bytes into blocks.  A collector is a record       *)
(* [hash, buf]: the blocks handed to the compression function so far, in   *)
(* order, and the bytes that wait in the buffer for a block to be full.    *)
(* Bytes are symbols; a block is a sequence of BlockLen of them.           *)
(*                                                                         *)
(* The routines differ in when a full buffer is processed, which is where  *)
(* they go wrong if they do: at once (do_ghash_buf, Poly1305), only when   *)
(* more is coming (do_cbc_mac), or never before the end (CMAC, whose last  *)
(* block is special).                                                      *)
(***************************************************************************)
EXTENDS Integers, Sequences

CONSTANT BlockLen

ASSUME BlockLenAssumption == BlockLen \in Nat \ {0}

Byte0 == <<"00">>                 \* the byte 0x00
Byte80 == <<"80">>                \* the byte 0x80

Lesser(m, n) == IF m < n THEN m ELSE n
First(s, n) == SubSeq(s, 1, n)
Behind(s, n) == SubSeq(s, n + 1, Len(s))

\* The full blocks at the head of s, and the bytes after them.
FullBlocks(s) ==
  [i \in 1..(Len(s) \div BlockLen) |->
     SubSeq(s, (i - 1) * BlockLen + 1, i * BlockLen)]
Tail0(s) == Behind(s, (Len(s) \div BlockLen) * BlockLen)

\* s filled up with zeros to a multiple of the block length.
ZeroPadded(s) ==
  s \o [i \in 1..((BlockLen - (Len(s) % BlockLen)) % BlockLen) |-> Byte0]

Empty == [hash |-> <<>>, buf |-> <<>>]

-----------------------------------------------------------------------------
(* The loop of do_ghash_buf, do_polyval_buf and do_cbc_mac.  s.in is what   *)
(* is left of the input; lazy: a full buffer waits until more is coming.    *)

\* The buffer is topped up from the input.
Topped(s) ==
  LET n == IF Len(s.in) + Len(s.buf) < BlockLen \/ s.buf # <<>>
           THEN Lesser(BlockLen - Len(s.buf), Len(s.in)) ELSE 0
  IN  [s EXCEPT !.buf = @ \o First(s.in, n), !.in = Behind(@, n)]

\* It is padded when the input is used up and processed, and after it the full
\* blocks of the input; or it waits.
Processed(s, pad, lazy) ==
  IF s.in = <<>> /\ ~pad /\ (lazy \/ Len(s.buf) < BlockLen) THEN s
  ELSE [hash |-> s.hash
                 \o (IF s.buf = <<>> THEN <<>> ELSE <<ZeroPadded(s.buf)>>)
                 \o FullBlocks(s.in),
        buf  |-> <<>>,
        in   |-> Tail0(s.in)]

\* A turn that leaves input has emptied the buffer, so two turns are enough.
Turn(s, pad, lazy) == Processed(Topped(s), pad, lazy)
SecondTurn(s, pad, lazy) == IF s.in = <<>> THEN s ELSE Turn(s, pad, lazy)

Collector(s) == [hash |-> s.hash, buf |-> s.buf]
Collect(c, bytes, pad, lazy) ==
  IF bytes = <<>> /\ (c.buf = <<>> \/ ~pad) THEN c
  ELSE Collector(SecondTurn(Turn([hash |-> c.hash, buf |-> c.buf, in |-> bytes],
                                 pad, lazy), pad, lazy))

\* do_ghash_buf and do_polyval_buf
GhashBuf(c, bytes, pad) == Collect(c, bytes, pad, FALSE)

\* do_cbc_mac
CbcMac(c, bytes, pad) == Collect(c, bytes, pad, TRUE)

-----------------------------------------------------------------------------
(* Poly1305 and CMAC *)

\* _gcry_poly1305_update
Poly1305Update(c, bytes) ==
  LET n    == IF c.buf = <<>> THEN 0
              ELSE Lesser(BlockLen - Len(c.buf), Len(bytes))
      buf  == c.buf \o First(bytes, n)
      rest == Behind(bytes, n)
  IN  IF buf # <<>> /\ Len(buf) < BlockLen THEN [c EXCEPT !.buf = buf]
      ELSE [hash |-> c.hash \o FullBlocks(buf) \o FullBlocks(rest),
            buf  |-> Tail0(rest)]

\* _gcry_cmac_write: the last block, full or not, always stays in the buffer.
CmacWrite(c, bytes) ==
  LET all == c.buf \o bytes
      n   == (Len(all) - 1) \div BlockLen
  IN  IF bytes = <<>> \/ Len(all) <= BlockLen THEN [c EXCEPT !.buf = all]
      ELSE [hash |-> c.hash \o FullBlocks(First(all, n * BlockLen)),
            buf  |-> Behind(all, n * BlockLen)]

\* _gcry_cmac_final: a full last block is masked with K1, one padded by 0x80
\* and zeros with K2.
CmacFinal(c) ==
  LET last == IF Len(c.buf) = BlockLen THEN Append(c.buf, <<"K1">>)
              ELSE Append(ZeroPadded(Append(c.buf, Byte80)), <<"K2">>)
  IN  [hash |-> Append(c.hash, last), buf |-> <<>>]
=============================================================================
