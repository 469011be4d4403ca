------------------------------ MODULE MdHandle ------------------------------
(***************************************************************************)
(* Message digest handles (src/cipher/md.c): several algorithms on one     *)
(* handle, a buffer for gcry_md_putc in front of them, HMAC and keyed      *)
(* BLAKE2, copies, resets, reads and extractions, in any order.            *)
(*                                                                         *)
(* wrote is what the caller has given the handle since it was opened or    *)
(* reset; an entry has taken part in it from place `from` on.              *)
(***************************************************************************)
EXTENDS HashContexts

CONSTANTS
  Algos,       \* the algorithms: "sha", "blake", "shake"
  BufSize,     \* hd->bufsize
  Chunks,      \* lengths of gcry_md_write calls
  OutChunks,   \* lengths of gcry_md_extract calls
  MaxBytes,    \* bytes written to a handle since it was opened or reset
  MaxOut,      \* bytes extracted from an entry
  Customs,     \* lengths of the caller's name for cSHAKE
  MaxEntries,  \* algorithms on one handle
  Keys         \* the caller's keys

ASSUME HandleAssumption ==
  /\ Algos \subseteq {"sha", "blake", "shake"}
  /\ {BufSize, MaxBytes, MaxOut} \subseteq Nat
  /\ BufSize >= BlockLen /\ Chunks \union OutChunks \subseteq Nat
  /\ Customs \subseteq Nat /\ MaxEntries \in Nat

VARIABLES
  hd,          \* the handle
  last         \* what the last call returned

vars == <<hd, last>>

-----------------------------------------------------------------------------
(* The routines of an algorithm (gcry_md_spec_t) *)

CtxInit(algo) ==
  CASE algo = "sha" -> ShaInit
    [] algo = "blake" -> BlakeInit(None)
    [] algo = "shake" -> KeccakInit

CtxWrite(algo, c, in) ==
  CASE algo = "sha" -> MdBlockWrite(c, in)
    [] algo = "blake" -> BlakeWrite(c, in)
    [] algo = "shake" -> KeccakWrite(c, in)

\* keccak_shake_read is part of the reading, below.
CtxFinal(algo, c) ==
  CASE algo = "sha" -> ShaFinal(c)
    [] algo = "blake" -> BlakeFinal(c)
    [] algo = "shake" -> KeccakFinal(c)

\* spec->read: SHAKE squeezes its digest out at the first read, and gives
\* nothing once it is in extract mode.
CtxRead(algo, c) ==
  IF algo # "shake" \/ c.way # "none" THEN c
  ELSE LET x == KeccakExtract(c, OutLen)
       IN  [x.k EXCEPT !.way = "read", !.out = <<"shake", x.out>>]

-----------------------------------------------------------------------------
(* Handles *)

\* junk: the result of the entry has no meaning, as its HMAC contexts hold
\* memory nobody has set or as it came when data was on its way.  What such an
\* entry takes in is left out.
Entry(algo, from, junk) ==
  [algo |-> algo, ctx |-> CtxInit(algo), inner |-> None, outer |-> None,
   from |-> from, junk |-> junk, key |-> None, custom |-> <<0, 0>>, taken |-> 0]

\* md_open.  spoiled: data was written after the end.
MdOpen(hmac) ==
  [hmac |-> hmac, list |-> <<>>, buf |-> <<>>, fin |-> FALSE,
   wrote |-> <<>>, key |-> None, spoiled |-> FALSE]

\* f of every entry of the list.
Each(f(_), list) == [i \in 1..Len(list) |-> f(list[i])]

\* md_write: what gcry_md_putc left, then the data, to every entry.
MdWrite(h, in) ==
  [h EXCEPT !.list = Each(LAMBDA e :
              IF e.junk THEN e
              ELSE [e EXCEPT !.ctx =
                      CtxWrite(e.algo, CtxWrite(e.algo, e.ctx, h.buf), in)], @),
            !.buf = <<>>]

\* Mutant: finalizing leaves what is still in the buffer behind.
Flushed_Not(h) == [h EXCEPT !.buf = <<>>]

\* The buffer is written before a copy is made and before the end.
Flushed(h) == IF h.buf = <<>> THEN h ELSE MdWrite(h, <<>>)

\* md_final: in HMAC, the digest goes through the outer context.
MdFinal(h) ==
  LET Outer(e) ==
        LET d == CtxRead(e.algo, CtxFinal(e.algo, e.ctx)).out
        IN  CtxFinal(e.algo, CtxWrite(e.algo, e.outer, <<d>>))
  IN  IF h.fin THEN h
      ELSE [Flushed(h) EXCEPT
              !.fin = TRUE,
              !.list = Each(LAMBDA e : [e EXCEPT !.ctx =
                              IF e.junk THEN e.ctx
                              ELSE IF h.hmac THEN Outer(e)
                              ELSE CtxFinal(e.algo, e.ctx)], @)]

\* _gcry_md_reset: an HMAC entry goes back to the inner context, the others to
\* the start, without key or customization.
MdReset(h) ==
  [h EXCEPT !.fin = FALSE, !.buf = <<>>, !.wrote = <<>>, !.spoiled = FALSE,
     !.list = Each(LAMBDA e : [Entry(e.algo, 0, h.hmac /\ e.junk) EXCEPT
                      !.ctx = IF h.hmac /\ ~e.junk THEN e.inner ELSE CtxInit(e.algo),
                      !.inner = e.inner, !.outer = e.outer], @)]

\* prepare_macpads: a pad is a whole block.
Pad(name, key) == [i \in 1..BlockLen |-> <<name, key>>]
Keyed(h, key) ==
  [h EXCEPT !.key = key,
     !.list = Each(LAMBDA e : [e EXCEPT
                      !.inner = CtxWrite(e.algo, CtxInit(e.algo), Pad("36", key)),
                      !.outer = CtxWrite(e.algo, CtxInit(e.algo), Pad("5c", key)),
                      !.junk = FALSE], @)]

\* md_setkey: entries are keyed from the head of the list on; the first that
\* cannot be makes the call fail, and then those keyed before are reset.
BlakeKeyed(h, key) ==
  LET heads == {i \in 1..Len(h.list) :
                  \A j \in 1..i : h.list[j].algo = "blake"}
  IN  IF heads = {} THEN h
      ELSE IF Cardinality(heads) < Len(h.list) THEN MdReset(h)
      ELSE [MdReset(h) EXCEPT
              !.list = Each(LAMBDA e : [e EXCEPT !.ctx = BlakeInit(key),
                                                 !.key = key], @)]

-----------------------------------------------------------------------------
(* The calls *)

Nothing == [op |-> "none"]

Init ==
  /\ \E hmac \in BOOLEAN : hd = MdOpen(hmac)
  /\ last = Nothing

\* Bound: a handle that was written to after its end is only reset or copied.
Usable == ~hd.spoiled
Fresh(n) == [j \in 1..n |-> <<"d", Len(hd.wrote) + j>>]

\* gcry_md_enable: in HMAC the entry has no pads yet.
Enable(algo) ==
  /\ Usable /\ Len(hd.list) < MaxEntries
  /\ \A j \in 1..Len(hd.list) : hd.list[j].algo # algo
  /\ hd' = [hd EXCEPT !.list =
              <<Entry(algo, Len(hd.wrote), hd.hmac \/ hd.fin \/ hd.buf # <<>>)>> \o @]
  /\ last' = Nothing

\* gcry_md_write
Write(n) ==
  /\ Usable /\ Len(hd.wrote) + n <= MaxBytes
  /\ hd' = [MdWrite(hd, Fresh(n)) EXCEPT !.wrote = @ \o Fresh(n),
                                         !.spoiled = hd.fin]
  /\ last' = Nothing

\* gcry_md_putc
Putc ==
  LET h == IF Len(hd.buf) = BufSize THEN MdWrite(hd, <<>>) ELSE hd
  IN  /\ Usable /\ Len(hd.wrote) < MaxBytes
      /\ hd' = [h EXCEPT !.buf = @ \o Fresh(1), !.wrote = @ \o Fresh(1),
                         !.spoiled = hd.fin]
      /\ last' = Nothing

\* gcry_md_setkey
SetKey(key) ==
  /\ Usable
  /\ hd' = CASE hd.hmac /\ hd.list # <<>> -> MdReset(Keyed(hd, key))
             [] hd.hmac /\ hd.list = <<>> -> hd
             [] ~hd.hmac -> BlakeKeyed(hd, key)
  /\ last' = Nothing

\* GCRYCTL_MD_CUSTOMIZE (md_customize), by the caller before any data: fails
\* like md_setkey at the first entry that is not cSHAKE.
Customize(n, s) ==
  /\ ~hd.hmac /\ hd.wrote = <<>> /\ ~hd.fin
  /\ hd.list # <<>> /\ hd.list[1].algo = "shake"
  /\ hd.list[1].custom = <<0, 0>>
  /\ hd' = IF Len(hd.list) > 1 THEN MdReset(hd)
           ELSE [hd EXCEPT !.list[1].ctx = CshakeCustomize(@, n, s),
                           !.list[1].custom = <<n, s>>]
  /\ last' = Nothing

\* gcry_md_reset
Reset ==
  /\ hd' = MdReset(hd)
  /\ last' = Nothing

\* gcry_md_copy: the buffer is flushed, and the list is turned round in the
\* copy.  The two share no memory: the behaviour goes on with either.
Copy ==
  /\ \/ hd' = Flushed(hd)
     \/ hd' = [Flushed(hd) EXCEPT !.list = Reverse(@)]
  /\ last' = Nothing

\* gcry_md_read of entry j
Read(j) ==
  LET h == MdFinal(hd)
      c == CtxRead(h.list[j].algo, h.list[j].ctx)
  IN  /\ Usable /\ j <= Len(hd.list)
      /\ hd' = [h EXCEPT !.list[j].ctx = c]
      /\ last' = IF c.out = None THEN Nothing
                 ELSE [op |-> "read", entry |-> j, out |-> c.out]

\* gcry_md_extract of entry j, in HMAC too.
Extract(j, n) ==
  LET h == MdFinal(hd)
      e == h.list[j]
      x == KeccakExtract(e.ctx, n)
  IN  /\ Usable /\ j <= Len(hd.list)
      /\ e.algo = "shake" /\ e.ctx.way # "read" /\ e.taken + n <= MaxOut
      /\ hd' = [h EXCEPT !.list[j] = [e EXCEPT !.ctx = [x.k EXCEPT !.way = "extract"],
                                               !.taken = @ + n]]
      /\ last' = [op |-> "extract", entry |-> j, out |-> x.out]

Next ==
  \/ Copy \/ Putc \/ Reset
  \/ \E algo \in Algos : Enable(algo)
  \/ \E key \in Keys : SetKey(key)
  \/ \E s \in Customs : Customize(1, s)
  \/ \E n \in Chunks : Write(n)
  \/ \E j \in 1..MaxEntries : Read(j) \/ \E n \in OutChunks : Extract(j, n)

Spec == Init /\ [][Next]_vars

-----------------------------------------------------------------------------
(* Properties *)

\* What the algorithm of entry e defines for input s.
Defined(e, s) ==
  CASE e.algo = "sha" -> ShaDigest(s)
    [] e.algo = "blake" -> BlakeDigest(e.key, s)
    [] e.algo = "shake" -> <<"shake", ShakeDigest(s, <<"1f">>)>>

\* The input of entry e, and in HMAC that of its outer hash.
Input(h, e) ==
  LET s == SubSeq(h.wrote, e.from + 1, Len(h.wrote))
  IN  IF h.hmac THEN Pad("5c", h.key) \o <<Defined(e, Pad("36", h.key) \o s)>>
      ELSE IF e.algo = "shake" THEN CshakeInput(e.custom[1], e.custom[2], s)
      ELSE s
Suffix(e) == IF e.custom = <<0, 0>> THEN <<"1f">> ELSE <<"04">>

\* The handle and entry the last call was about, unless the result is one the
\* interface gives no meaning: written to after the end, or an entry enabled
\* after the HMAC key was set or when data had gone before it.
Claimed == /\ last.op # "none"
           /\ ~hd.spoiled
           /\ ~hd.list[last.entry].junk

\* However the data is cut into writes and single bytes, whichever other
\* algorithms the handle computes, and through copies and resets, a digest or
\* HMAC read is the one the algorithm defines for the bytes given to this handle
\* (md_write, md_final, _gcry_md_block_write, sha256_final, blake2_write).
DigestRight ==
  Claimed /\ last.op = "read" =>
    LET e == hd.list[last.entry]
    IN  last.out = IF e.algo = "shake"
                   THEN <<"shake", ShakeDigest(Input(hd, e), Suffix(e))>>
                   ELSE Defined(e, Input(hd, e))

\* Output extracted in pieces of any size is the output stream of the whole
\* input, without a gap or a repetition (keccak_write, do_keccak_extract).
StreamRight ==
  Claimed /\ last.op = "extract" =>
    LET e == hd.list[last.entry]
        n == Len(last.out)
    IN  last.out = [i \in 1..n |->
                      ShakeByte(Input(hd, e), Suffix(e), e.taken - n + i)]
=============================================================================
