---------------------------- MODULE CipherModes ----------------------------
(***************************************************************************)
(* The authenticated modes of a cipher handle (src/cipher/cipher-gcm.c,    *)
(* -ccm.c, -eax.c, -ocb.c, -poly1305.c, -siv.c, -gcm-siv.c) and the        *)
(* counter mode below them (cipher-ctr.c): what each routine does to the   *)
(* handle and what it returns.                                             *)
(*                                                                         *)
(* Bytes are symbols and the ciphers, GHASH, POLYVAL, CBC-MAC and CMAC are *)
(* free functions of their inputs, so two values are equal only if they    *)
(* were made from the same inputs in the same order.  A routine returns    *)
(* [h, ok, out]: the handle afterwards, success, and the output bytes.     *)
(***************************************************************************)
EXTENDS BlockBuffer, FiniteSets, FiniteSetsExt

CONSTANTS
  CtrMod,      \* the modulus of the 32 bit part of a GCM counter
  IvLow,       \* that part of a counter block made from a hashed IV
  MaxData,     \* bytes of data of one message (2^36 - 32 in GCM)
  MaxAad,      \* bytes of AAD of one message (2^61 - 1 in GCM)
  CountMod,    \* the modulus of Poly1305's byte counters (2^64)
  MaxParts,    \* components before the plaintext in SIV (126)
  TableSize    \* OCB_L_TABLE_SIZE

ASSUME ModesAssumption ==
  /\ CtrMod \in Nat \ {0} /\ IvLow \in 0..(CtrMod - 1)
  /\ MaxData \in Nat /\ MaxData <= (CtrMod - 2) * BlockLen
  /\ MaxAad \in Nat /\ CountMod \in Nat \ {0} /\ MaxParts \in Nat /\ TableSize \in Nat

\* A nonce: its name and how it enters the counter.
Nonce(id, hashed) == [id |-> id, hashed |-> hashed]
ZeroIv == Nonce(0, TRUE)

NoValue == <<"none">>
NoCtr == [base |-> NoValue, hi |-> 0, lo |-> 0]
NoBlock == [k |-> 0, ctr |-> NoCtr]

\* The handle after gcry_cipher_open: what struct gcry_cipher_handle keeps and
\* the modes use of it.  keyno is the key in context.c (0: none).
Opened ==
  [fips |-> FALSE, keyno |-> 0, key |-> FALSE,
   iv |-> FALSE, tag |-> FALSE, fin |-> FALSE,
   unused |-> 0, last |-> NoBlock, ctr |-> NoCtr,
   mac |-> Empty, aad |-> Empty, aadlen |-> 0, datalen |-> 0,
   over |-> FALSE, aadfin |-> FALSE, datafin |-> FALSE, disallow |-> FALSE,
   tagiv |-> NoValue, val |-> NoValue,
   lengths |-> FALSE, authlen |-> 0,
   offset |-> <<>>, aadoffset |-> <<>>, taglen |-> 16,
   parts |-> <<>>, dectag |-> FALSE, dead |-> FALSE]

Result(h, ok, out) == [h |-> h, ok |-> ok, out |-> out]
Refused(h) == Result(h, FALSE, <<>>)
Done(h) == Result(h, TRUE, <<>>)

-----------------------------------------------------------------------------
(* Counter mode *)

\* cipher_block_add: the carry runs into the upper part of the block.
Inc(ctr, n) ==
  [ctr EXCEPT !.lo = (@ + n) % CtrMod, !.hi = @ + (ctr.lo + n) \div CtrMod]

KeyByte(b, off) == <<"ks", b.k, b.ctr.base, b.ctr.hi, b.ctr.lo, off>>

\* Exclusive or with a byte of the key stream.
Xor(k, d) == IF d[1] = "xor" THEN IF d[2] = k THEN d[3] ELSE <<"xor", k, d>>
             ELSE <<"xor", k, d>>

\* _gcry_cipher_ctr_encrypt_ctx with key k: first the rest of the last counter
\* block, then whole blocks, then part of one, whose rest is kept.
CtrEncrypt(h, in, k) ==
  LET n    == Lesser(h.unused, Len(in))
      r    == Len(in) - n
      part == r % BlockLen
      At(j) == [k |-> k, ctr |-> Inc(h.ctr, j)]
      ks(i) == IF i <= n THEN KeyByte(h.last, BlockLen - h.unused + i)
               ELSE KeyByte(At((i - n - 1) \div BlockLen),
                            ((i - n - 1) % BlockLen) + 1)
  IN  Result([h EXCEPT
                !.ctr = Inc(@, (r + BlockLen - 1) \div BlockLen),
                !.last = IF part > 0 THEN At(r \div BlockLen)
                         ELSE IF h.unused = n THEN NoBlock ELSE @,
                !.unused = IF part > 0 THEN BlockLen - part ELSE @ - n],
             TRUE, [i \in 1..Len(in) |-> Xor(ks(i), in[i])])
-----------------------------------------------------------------------------
(* GCM.  mac.hash is u_tag, mac.buf is macbuf, tagiv the encrypted counter J0. *)

LengthBlock(m, n) == [i \in 1..BlockLen |-> <<"len", m, n>>]

IvBytes(iv) == <<<<"iv", iv.id>>>>

\* _gcry_cipher_gcm_initiv.  A 96 bit IV is the upper part of the counter, any
\* other is hashed, through the same macbuf as the data; gcm_add32_be128 then
\* steps the lower part without carry.
GcmIvHash(h, iv) ==
  GhashBuf(GhashBuf([hash |-> <<>>, buf |-> h.mac.buf], IvBytes(iv), TRUE),
           LengthBlock(0, 1), TRUE)
GcmStart(h, ctr, buf) ==
  [h EXCEPT
     !.aadlen = 0, !.datalen = 0, !.over = FALSE, !.aadfin = FALSE,
     !.datafin = FALSE, !.iv = TRUE, !.tag = FALSE, !.unused = 0,
     !.last = NoBlock, !.val = NoValue, !.mac = [hash |-> <<>>, buf |-> buf],
     !.tagiv = <<"E", h.keyno, ctr>>,
     !.ctr = [ctr EXCEPT !.lo = (@ + 1) % CtrMod]]
GcmHashed(h, g) ==
  GcmStart(h, [base |-> <<"J", h.keyno, g.hash>>, hi |-> 0, lo |-> IvLow], g.buf)
GcmInitiv(h, iv) ==
  IF iv.hashed THEN GcmHashed(h, GcmIvHash(h, iv))
  ELSE GcmStart(h, [base |-> <<"N", iv.id>>, hi |-> 0, lo |-> 1], h.mac.buf)

\* Mutant: in FIPS mode a chosen IV is as good as a generated one.
GcmSetiv_Allows(h, iv) ==
  IF iv.hashed /\ h.keyno = 0 THEN Refused([h EXCEPT !.iv = FALSE, !.tag = FALSE])
  ELSE Done(GcmInitiv([h EXCEPT !.disallow = FALSE], iv))

\* gcry_cipher_setiv: in FIPS mode a chosen IV rules encryption out.
GcmSetiv(h, iv) ==
  IF iv.hashed /\ h.keyno = 0
  THEN Refused([h EXCEPT !.disallow = h.fips, !.iv = FALSE, !.tag = FALSE])
  ELSE Done(GcmInitiv([h EXCEPT !.disallow = h.fips], iv))

\* gcry_cipher_setiv with an IV of length 0: what initiv does before it refuses.
GcmSetEmptyIv(h) ==
  Refused([h EXCEPT
             !.disallow = h.fips, !.iv = FALSE, !.tag = FALSE, !.aadlen = 0,
             !.datalen = 0, !.mac = [hash |-> <<>>, buf |-> h.mac.buf],
             !.over = FALSE, !.datafin = FALSE, !.aadfin = FALSE])

\* gcry_cipher_geniv goes to the mode's setiv directly.
GcmGeniv(h, iv) == Done(GcmInitiv(h, iv))

\* _gcry_cipher_gcm_setiv_zero, for a caller who has set no IV.
GcmAutoIv(h) == IF h.iv THEN h ELSE GcmSetiv(h, ZeroIv).h

\* One turn of gcm_ctr_encrypt: up to where the 32 bit counter overflows, and
\* the carry the counter mode made is taken back.
GcmTurned(s, r, n, wrap) ==
  [h   |-> IF wrap THEN [r.h EXCEPT !.ctr.hi = s.h.ctr.hi,
                                    !.dead = @ \/ r.h.ctr.lo # 0]
           ELSE r.h,
   in  |-> Behind(s.in, n),
   out |-> s.out \o r.out]
GcmCtrTurn(s) ==
  LET more == IF Len(s.in) > s.h.unused THEN Len(s.in) - s.h.unused ELSE 0
      num  == (more + BlockLen - 1) \div BlockLen
      wrap == more > 0 /\ num + s.h.ctr.lo >= CtrMod
      n    == IF wrap THEN Lesser((CtrMod - s.h.ctr.lo) * BlockLen + s.h.unused,
                                  Len(s.in))
              ELSE Len(s.in)
  IN  GcmTurned(s, CtrEncrypt(s.h, First(s.in, n), s.h.keyno), n, wrap)

\* gcm_ctr_encrypt.  A message is too short for a second overflow.
GcmSecondTurn(s) == IF s.in = <<>> THEN s ELSE GcmCtrTurn(s)
GcmOutput(s) == Result(s.h, TRUE, s.out)
GcmCtrEncrypt(h, in) ==
  GcmOutput(GcmSecondTurn(GcmCtrTurn([h |-> h, in |-> in, out |-> <<>>])))

\* The first data marks the end of the AAD.
GcmAadFinish(h) ==
  IF h.aadfin THEN h
  ELSE [h EXCEPT !.mac = GhashBuf(@, <<>>, TRUE), !.aadfin = TRUE]

\* Mutant: the length of a message is not limited.
OverLimit_Never(n) == FALSE

\* gcm_check_datalen and gcm_siv_check_len
OverLimit(n) == n > MaxData

\* _gcry_cipher_gcm_encrypt and _gcry_cipher_gcm_decrypt
GcmHashData(r, in, enc) ==
  Result([r.h EXCEPT !.mac = GhashBuf(@, IF enc THEN r.out ELSE in, FALSE)],
         TRUE, r.out)
GcmCryptData(h, in, enc) ==
  IF OverLimit(h.datalen) THEN Refused([h EXCEPT !.over = TRUE])
  ELSE GcmHashData(GcmCtrEncrypt(h, in), in, enc)
GcmCryptWithIv(h, in, enc) ==
  IF enc /\ h.disallow THEN Refused(h)
  ELSE GcmCryptData([GcmAadFinish(h) EXCEPT !.datalen = @ + Len(in)], in, enc)
GcmCrypt(h, in, enc) ==
  IF h.over \/ h.tag \/ h.datafin \/ h.keyno = 0 THEN Refused(h)
  ELSE GcmCryptWithIv(GcmAutoIv(h), in, enc)

\* _gcry_cipher_gcm_authenticate
GcmAad(h, in) ==
  IF h.aadlen > MaxAad THEN Refused([h EXCEPT !.over = TRUE])
  ELSE Done([h EXCEPT !.mac = GhashBuf(@, in, FALSE)])
GcmAuthenticate(h, in) ==
  IF h.over \/ h.tag \/ h.aadfin \/ h.datafin \/ h.keyno = 0 THEN Refused(h)
  ELSE GcmAad([GcmAutoIv(h) EXCEPT !.aadlen = @ + Len(in)], in)

\* _gcry_cipher_gcm_tag
GcmTagFrom(h, m) ==
  Done([h EXCEPT !.mac = m, !.aadfin = TRUE, !.datafin = TRUE, !.tag = TRUE,
                 !.tagiv = NoValue, !.aadlen = 0, !.datalen = 0,
                 !.val = <<"gcm", h.keyno, m.hash, h.tagiv>>])
GcmTag(h) ==
  IF h.over \/ (~h.tag /\ h.keyno = 0) THEN Refused(h)
  ELSE IF h.tag THEN Done(h)
  ELSE GcmTagFrom(h, GhashBuf(GhashBuf(h.mac, <<>>, TRUE),
                              LengthBlock(h.aadlen, h.datalen), TRUE))

\* _gcry_cipher_gcm_get_tag
GcmGetTag(h) == IF h.disallow THEN Refused(h) ELSE GcmTag(h)

-----------------------------------------------------------------------------
(* CCM.  mac is the CBC-MAC, iv stands for u_mode.ccm.nonce, tagiv for s0,   *)
(* aadlen and datalen count down what is still to come.                      *)

\* _gcry_cipher_ccm_set_nonce
CcmSetNonce(h, iv) ==
  Done([Opened EXCEPT !.fips = h.fips, !.keyno = h.keyno, !.key = h.key,
          !.iv = TRUE, !.ctr = [base |-> <<"ccm", iv.id>>, hi |-> 0, lo |-> 0]])

\* The first block, and the length of the AAD in two bytes.
CcmB0(base, datalen, aadlen, taglen) ==
  [i \in 1..BlockLen |-> <<"b0", base, datalen, aadlen > 0, taglen>>]
CcmAadHeader(aadlen) ==
  IF aadlen = 0 THEN <<>> ELSE [i \in 1..2 |-> <<"alen", aadlen, i>>]

\* _gcry_cipher_ccm_set_lengths
CcmSetLengths(h, datalen, aadlen, taglen) ==
  IF ~h.iv \/ h.tag \/ h.lengths THEN Refused(h)
  ELSE Done([h EXCEPT
               !.authlen = taglen, !.datalen = datalen, !.aadlen = aadlen,
               !.mac = CbcMac(CbcMac(Empty, CcmB0(h.ctr.base, datalen, aadlen,
                                                  taglen), FALSE),
                              CcmAadHeader(aadlen), FALSE),
               !.tagiv = <<"E", h.keyno, h.ctr>>,
               !.ctr.lo = @ + 1, !.lengths = TRUE])

\* _gcry_cipher_ccm_authenticate
CcmAuthenticate(h, in) ==
  IF ~h.iv \/ ~h.lengths \/ h.tag \/ Len(in) > h.aadlen THEN Refused(h)
  ELSE Done([h EXCEPT !.aadlen = @ - Len(in),
                      !.mac = CbcMac(@, in, h.aadlen = Len(in))])

\* _gcry_cipher_ccm_encrypt and _gcry_cipher_ccm_decrypt
CcmMacData(r, in, enc) ==
  Result([r.h EXCEPT !.datalen = @ - Len(in),
                     !.mac = CbcMac(@, IF enc THEN in ELSE r.out, FALSE)],
         TRUE, r.out)
CcmCrypt(h, in, enc) ==
  IF ~h.iv \/ h.tag \/ ~h.lengths \/ h.aadlen > 0 \/ Len(in) > h.datalen
  THEN Refused(h)
  ELSE CcmMacData(CtrEncrypt(h, in, h.keyno), in, enc)

\* _gcry_cipher_ccm_tag
CcmTagFrom(h, m) ==
  Done([h EXCEPT !.mac = m, !.tag = TRUE, !.ctr = NoCtr, !.tagiv = NoValue,
                 !.val = <<"ccm", h.keyno, m.hash, h.tagiv>>])
CcmTag(h, taglen) ==
  IF h.authlen # taglen \/ ~h.iv \/ ~h.lengths \/ h.aadlen > 0 \/ h.datalen > 0
  THEN Refused(h)
  ELSE IF h.tag THEN Done(h)
  ELSE CcmTagFrom(h, CbcMac(h.mac, <<>>, TRUE))

-----------------------------------------------------------------------------
(* EAX.  aad is cmac_header, mac is cmac_ciphertext, tagiv the nonce's CMAC. *)

EaxInit(t) == [i \in 1..BlockLen |-> <<"t", t>>]
EaxNonceBytes(iv) == IF iv = ZeroIv THEN <<>> ELSE IvBytes(iv)
CmacValue(k, c) == <<"cmac", k, CmacFinal(c).hash>>

\* _gcry_cipher_eax_set_nonce.  unused and lastiv are left as they are.
EaxStart(h, n) ==
  Done([h EXCEPT !.iv = TRUE, !.tag = FALSE, !.tagiv = n, !.val = NoValue,
                 !.ctr = [base |-> n, hi |-> 0, lo |-> 0],
                 !.aad = CmacWrite(Empty, EaxInit(1)),
                 !.mac = CmacWrite(Empty, EaxInit(2))])
EaxSetNonce(h, iv) ==
  EaxStart(h, CmacValue(h.keyno, CmacWrite(CmacWrite(Empty, EaxInit(0)),
                                           EaxNonceBytes(iv))))

EaxAutoIv(h) == IF h.iv THEN h ELSE EaxSetNonce(h, ZeroIv).h

\* _gcry_cipher_eax_encrypt and _gcry_cipher_eax_decrypt
EaxMacData(r, in, enc) ==
  Result([r.h EXCEPT !.mac = CmacWrite(@, IF enc THEN r.out ELSE in)],
         TRUE, r.out)
EaxCrypt(h, in, enc) ==
  IF h.tag THEN Refused(h)
  ELSE EaxMacData(CtrEncrypt(EaxAutoIv(h), in, h.keyno), in, enc)

\* _gcry_cipher_eax_authenticate
EaxAuthenticate(h, in) ==
  IF h.tag THEN Refused(h)
  ELSE Done([EaxAutoIv(h) EXCEPT !.aad = CmacWrite(@, in)])

\* _gcry_cipher_eax_tag
EaxTag(h) ==
  IF h.tag THEN Done(h)
  ELSE Done([h EXCEPT !.tag = TRUE, !.aad = Empty, !.mac = Empty,
               !.val = <<"eax", h.tagiv, CmacValue(h.keyno, h.aad),
                         CmacValue(h.keyno, h.mac)>>])

-----------------------------------------------------------------------------
(* OCB.  An offset is the list of the L values it is the sum of, with Star   *)
(* for L_star; mac.hash is the checksum, aad.hash the sum over the AAD,      *)
(* aad.buf aad_leftover, and aadlen and datalen count blocks.                *)

Ntz(n) == Max({k \in 0..n : n % (2^k) = 0})
Star == -1

\* The offsets that follow offset for blocks n + 1 to n + m.
Offsets(offset, n, m) ==
  [j \in 1..m |-> offset \o [i \in 1..j |-> Ntz(n + i)]]
LastOr(offsets, offset) ==
  IF offsets = <<>> THEN offset ELSE offsets[Len(offsets)]

\* Mutant: the bytes that wait for a full block survive a new nonce.
OcbSetNonce_Leftover(h, iv) ==
  IF ~h.key THEN Refused(h)
  ELSE Done([h EXCEPT
               !.iv = TRUE, !.tag = FALSE, !.fin = FALSE, !.val = NoValue,
               !.ctr = [NoCtr EXCEPT !.base = <<"ocb", h.keyno, iv.id, h.taglen>>],
               !.offset = <<>>, !.mac = Empty, !.datalen = 0,
               !.datafin = FALSE, !.aad.hash = <<>>, !.aadoffset = <<>>,
               !.aadlen = 0, !.aadfin = FALSE])

\* _gcry_cipher_ocb_set_nonce
OcbSetNonce(h, iv) ==
  IF ~h.key THEN Refused(h)
  ELSE Done([h EXCEPT
               !.iv = TRUE, !.tag = FALSE, !.fin = FALSE, !.val = NoValue,
               !.ctr = [NoCtr EXCEPT !.base = <<"ocb", h.keyno, iv.id, h.taglen>>],
               !.offset = <<>>, !.mac = Empty, !.datalen = 0,
               !.datafin = FALSE, !.aad = Empty, !.aadoffset = <<>>,
               !.aadlen = 0, !.aadfin = FALSE])

\* Whole blocks of AAD: ocb_get_l in the table, ocb_get_L_big past it.
OcbAadBlocks(h, blocks) ==
  LET offs == Offsets(h.aadoffset, h.aadlen, Len(blocks))
  IN  [h EXCEPT !.aadlen = @ + Len(blocks), !.aadoffset = LastOr(offs, @),
                !.aad.hash = @ \o [j \in 1..Len(blocks) |->
                                     <<offs[j], blocks[j]>>]]

\* The block completed from aad_leftover: past the table its L is asked for by
\* the number of the next block, and ocb_get_L_big asserts what it is given.
OcbLeftoverBlock(h, block) ==
  LET big == (h.aadlen + 1) % (2^TableSize) = 0
  IN  IF big /\ Ntz(h.aadlen + 2) < TableSize THEN [h EXCEPT !.dead = TRUE]
      ELSE OcbAadBlocks([h EXCEPT !.aad.buf = <<>>], <<block>>)

\* _gcry_cipher_ocb_authenticate
OcbTopUp(h, buf) ==
  IF Len(buf) = BlockLen THEN OcbLeftoverBlock(h, buf)
  ELSE [h EXCEPT !.aad.buf = buf]
OcbAadRest(h, rest) ==
  IF rest = <<>> \/ h.dead THEN Done(h)
  ELSE Done([OcbAadBlocks(h, FullBlocks(rest)) EXCEPT !.aad.buf = Tail0(rest)])
OcbAuthenticate(h, in) ==
  LET n == IF h.aad.buf = <<>> THEN 0
           ELSE Lesser(BlockLen - Len(h.aad.buf), Len(in))
  IN  IF ~h.iv \/ h.tag \/ h.aadfin THEN Refused(h)
      ELSE OcbAadRest(OcbTopUp(h, h.aad.buf \o First(in, n)), Behind(in, n))

\* A block through the cipher under an offset; enc tells E from D.
OcbBlock(h, offset, block, enc) ==
  [i \in 1..Len(block) |-> <<"blk", enc, h.keyno, h.ctr.base, offset, block, i>>]
OcbPad(h, offset, i) == <<"pad", h.keyno, h.ctr.base, offset, i>>

\* ocb_crypt: whole blocks, and a part of one when the end was announced.
OcbCrypt(h, in, enc) ==
  LET bs   == FullBlocks(in)
      part == Tail0(in)
      offs == Offsets(h.offset, h.datalen, Len(bs))
      outs == [j \in 1..Len(bs) |-> OcbBlock(h, offs[j], bs[j], enc)]
      full == LastOr(offs, h.offset)
      end  == IF part = <<>> THEN full ELSE Append(full, Star)
      pout == [i \in 1..Len(part) |-> Xor(OcbPad(h, end, i), part[i])]
      sum  == h.mac.hash \o (IF enc THEN bs ELSE outs)
              \o (IF part = <<>> THEN <<>>
                  ELSE <<ZeroPadded(Append(IF enc THEN part ELSE pout, Byte80))>>)
      flat == [i \in 1..(Len(bs) * BlockLen) |->
                           outs[((i - 1) \div BlockLen) + 1][((i - 1) % BlockLen) + 1]]
  IN  IF ~h.iv \/ h.datafin \/ (~h.fin /\ part # <<>>) THEN Refused(h)
      ELSE Result([h EXCEPT
                     !.datalen = @ + Len(bs), !.offset = end,
                     !.mac.hash = sum, !.datafin = h.fin,
                     !.val = IF h.fin THEN <<"chk", h.keyno, h.ctr.base, end, sum>>
                             ELSE @],
                  TRUE, flat \o pout)

\* ocb_aad_finalize
OcbAadFinalize(h) ==
  IF h.aad.buf = <<>> THEN [h EXCEPT !.aadfin = TRUE]
  ELSE [h EXCEPT !.aadfin = TRUE, !.aad.buf = <<>>,
                 !.aadoffset = Append(@, Star),
                 !.aad.hash = Append(@, <<Append(h.aadoffset, Star),
                                ZeroPadded(Append(h.aad.buf, Byte80))>>)]

\* _gcry_cipher_ocb_get_tag and compute_tag_if_needed
OcbTagFrom(h) ==
  Done([h EXCEPT !.tag = TRUE, !.val = <<"ocb", h.val, h.aad.hash>>])
OcbTag(h) ==
  IF ~h.datafin THEN Refused(h)
  ELSE IF h.tag THEN Done(h)
  ELSE OcbTagFrom(OcbAadFinalize(h))

-----------------------------------------------------------------------------
(* ChaCha20-Poly1305.  The stream cipher keeps its own counter and unused    *)
(* key stream in its context; they are ctr, last and unused here.  BlockLen  *)
(* stands for its blocks of 64 bytes and for Poly1305's of 16.               *)

\* _gcry_cipher_poly1305_setiv: block 0 of the stream is the Poly1305 key.
Poly1305Setiv(h, iv) ==
  Done([h EXCEPT !.mac = Empty, !.aadlen = 0, !.datalen = 0, !.over = FALSE,
          !.aadfin = FALSE, !.tag = FALSE, !.iv = TRUE, !.unused = 0,
          !.last = NoBlock, !.val = NoValue,
          !.tagiv = <<"P", h.keyno, iv.id>>,
          !.ctr = [base |-> <<"cc", iv.id>>, hi |-> 0, lo |-> 1]])

Poly1305AutoIv(h) == IF h.iv THEN h ELSE Poly1305Setiv(h, ZeroIv).h

\* poly1305_do_padding, by the bytes counted.
Poly1305Padding(m, n) ==
  Poly1305Update(m, [i \in 1..((BlockLen - (n % BlockLen)) % BlockLen) |-> Byte0])

\* poly1305_aad_finish
Poly1305AadFinish(h) ==
  IF h.aadfin THEN h
  ELSE [h EXCEPT !.mac = Poly1305Padding(@, h.aadlen), !.aadfin = TRUE,
                 !.datalen = 0]

\* poly1305_bytecounter_add: only the overflow of a counter is refused.
Overflowed(n) == n >= CountMod

\* _gcry_cipher_poly1305_authenticate
Poly1305Aad(h, in) ==
  IF Overflowed(h.aadlen) THEN Refused([h EXCEPT !.over = TRUE])
  ELSE Done([h EXCEPT !.mac = Poly1305Update(@, in)])
Poly1305Authenticate(h, in) ==
  IF h.over \/ h.aadfin \/ h.tag THEN Refused(h)
  ELSE Poly1305Aad([Poly1305AutoIv(h) EXCEPT !.aadlen = @ + Len(in)], in)

\* _gcry_cipher_poly1305_encrypt and _gcry_cipher_poly1305_decrypt
Poly1305MacData(r, in, enc) ==
  Result([r.h EXCEPT !.mac = Poly1305Update(@, IF enc THEN r.out ELSE in)],
         TRUE, r.out)
Poly1305CryptData(h, in, enc) ==
  IF Overflowed(h.datalen) THEN Refused([h EXCEPT !.over = TRUE])
  ELSE Poly1305MacData(CtrEncrypt(h, in, h.keyno), in, enc)
Poly1305Crypt(h, in, enc) ==
  IF h.tag \/ h.over THEN Refused(h)
  ELSE Poly1305CryptData([Poly1305AadFinish(Poly1305AutoIv(h)) EXCEPT
                            !.datalen = @ + Len(in)], in, enc)

\* _gcry_cipher_poly1305_tag
Poly1305TagFrom(h, m) ==
  Done([h EXCEPT !.tag = TRUE, !.mac = m, !.val = <<"poly", h.tagiv, m>>])
Poly1305Finish(h) ==
  IF h.tag THEN Done(h)
  ELSE Poly1305TagFrom(h, Poly1305Update(Poly1305Padding(h.mac, h.datalen),
                                         LengthBlock(h.aadlen, h.datalen)))
Poly1305Tag(h) ==
  IF h.over THEN Refused(h)
  ELSE Poly1305Finish(Poly1305AadFinish(Poly1305AutoIv(h)))

-----------------------------------------------------------------------------
(* SIV.  parts are the components s2v_d was made from, val the value of the  *)
(* last S2V (s2v_cmac), dectag that a tag was given and tagiv that tag.      *)

\* _gcry_cipher_siv_authenticate: each call is a component of its own.
SivAuthenticate(h, in) ==
  IF h.tag \/ h.iv \/ Len(h.parts) >= MaxParts THEN Refused(h)
  ELSE Done([h EXCEPT !.parts = Append(@, in)])

\* _gcry_cipher_siv_set_nonce
SivSetNonce(h, iv) ==
  LET r == SivAuthenticate(h, IvBytes(iv))
  IN  IF r.ok THEN Done([r.h EXCEPT !.iv = TRUE]) ELSE r

\* s2v_plaintext
S2V(k, parts, plain) == <<"s2v", k, parts, plain>>

SivCtr(v) == [base |-> v, hi |-> 0, lo |-> 0]

\* _gcry_cipher_siv_encrypt.  The counter mode goes on with what unused says.
SivMade(r, v) == Result([r.h EXCEPT !.val = v, !.tag = TRUE], TRUE, r.out)
SivEncrypt(h, in) ==
  LET v == S2V(h.keyno, h.parts, in)
  IN  IF h.tag \/ h.dectag THEN Refused(h)
      ELSE SivMade(CtrEncrypt([h EXCEPT !.ctr = SivCtr(v)], in, h.keyno), v)

\* _gcry_cipher_siv_set_decryption_tag
SivSetDecryptionTag(h, tag) ==
  IF h.tag THEN Refused(h)
  ELSE Done([h EXCEPT !.tagiv = tag, !.dectag = TRUE])

\* _gcry_cipher_siv_decrypt: on a mismatch the output is wiped.
SivCompare(r) ==
  LET v == S2V(r.h.keyno, r.h.parts, r.out)
      d == [r.h EXCEPT !.val = v, !.tag = TRUE]
  IN  IF v = r.h.tagiv THEN Result(d, TRUE, r.out) ELSE Refused(d)
SivDecrypt(h, in) ==
  IF h.tag \/ ~h.dectag THEN Refused(h)
  ELSE SivCompare(CtrEncrypt([h EXCEPT !.ctr = SivCtr(h.tagiv)], in, h.keyno))

\* The tag of an empty plaintext, when none was given.
SivFinish(h) ==
  IF h.tag THEN h
  ELSE [h EXCEPT !.val = S2V(h.keyno, h.parts, <<>>), !.tag = TRUE]

\* _gcry_cipher_siv_get_tag
SivGetTag(h) == IF h.dectag THEN Refused(h) ELSE Done(SivFinish(h))

\* _gcry_cipher_siv_check_tag, before the comparison.
SivCheckTag(h) == Done(SivFinish(h))

-----------------------------------------------------------------------------
(* GCM-SIV.  tagiv is the tag, made or given; mac the POLYVAL.               *)

\* _gcry_cipher_gcm_siv_set_nonce, once per message.
GcmSivSetNonce(h, iv) ==
  IF h.keyno = 0 \/ h.iv THEN Refused(h)
  ELSE Done([h EXCEPT !.aadlen = 0, !.datalen = 0, !.mac.hash = <<>>,
               !.over = FALSE, !.datafin = FALSE, !.aadfin = FALSE,
               !.iv = TRUE, !.ctr = [NoCtr EXCEPT !.base = <<"dk", iv.id>>]])

\* _gcry_cipher_gcm_siv_authenticate
GcmSivAuthenticate(h, in) ==
  LET h1 == [h EXCEPT !.aadlen = @ + Len(in)]
  IN  IF h.over \/ h.tag \/ ~h.iv \/ h.aadfin \/ h.datafin THEN Refused(h)
      ELSE IF OverLimit(h1.aadlen) THEN Refused([h1 EXCEPT !.over = TRUE])
      ELSE Done([h1 EXCEPT !.mac = GhashBuf(@, in, FALSE)])

\* The POLYVAL over AAD, plaintext and lengths, and the tag made of it.
GcmSivMac(h, plain) ==
  GhashBuf(GhashBuf(h.mac, plain, TRUE), LengthBlock(h.aadlen, h.datalen), TRUE)
GcmSivTagOf(h, hash) == <<"siv", h.keyno, h.ctr.base, hash>>

\* do_ctr_le32 from the tag on.
GcmSivStream(h, in, tag) ==
  [i \in 1..Len(in) |->
     Xor(<<"le", h.keyno, h.ctr.base, tag, i>>, in[i])]

\* Up to the data: the end of the AAD and the length.
GcmSivBegin(h, in) == [GcmAadFinish(h) EXCEPT !.datalen = @ + Len(in)]

\* _gcry_cipher_gcm_siv_encrypt
GcmSivSealed(h, in, m) ==
  LET t == GcmSivTagOf(h, m.hash)
  IN  Result([h EXCEPT !.mac = m, !.datafin = TRUE, !.tag = TRUE, !.tagiv = t],
             TRUE, GcmSivStream(h, in, t))
GcmSivSeal(h, in) ==
  IF OverLimit(h.datalen) THEN Refused([h EXCEPT !.over = TRUE])
  ELSE GcmSivSealed(h, in, GcmSivMac(h, in))
GcmSivEncrypt(h, in) ==
  IF h.over \/ h.tag \/ ~h.iv \/ h.datafin THEN Refused(h)
  ELSE GcmSivSeal(GcmSivBegin(h, in), in)

\* _gcry_cipher_gcm_siv_set_decryption_tag
GcmSivSetDecryptionTag(h, tag) ==
  IF h.tag THEN Refused(h) ELSE Done([h EXCEPT !.tagiv = tag, !.tag = TRUE])

\* Mutant: a mismatch is reported but the plaintext handed out.
GcmSivCompare_Released(h, out, m) ==
  Result([h EXCEPT !.mac = m, !.datafin = TRUE],
         GcmSivTagOf(h, m.hash) = h.tagiv, out)

\* _gcry_cipher_gcm_siv_decrypt: on a mismatch the output is wiped.
GcmSivCompare(h, out, m) ==
  LET d == [h EXCEPT !.mac = m, !.datafin = TRUE]
  IN  IF GcmSivTagOf(h, m.hash) = h.tagiv THEN Result(d, TRUE, out)
      ELSE Refused(d)

GcmSivOpened(h, out) == GcmSivCompare(h, out, GcmSivMac(h, out))
GcmSivOpen(h, in) ==
  IF OverLimit(h.datalen) THEN Refused([h EXCEPT !.over = TRUE])
  ELSE GcmSivOpened(h, GcmSivStream(h, in, h.tagiv))
GcmSivDecrypt(h, in) ==
  IF h.over \/ ~h.tag \/ ~h.iv \/ h.datafin THEN Refused(h)
  ELSE GcmSivOpen(GcmSivBegin(h, in), in)

\* _gcry_cipher_gcm_siv_tag
GcmSivTagOut(r) ==
  IF ~r.ok \/ r.h.over \/ ~r.h.datafin THEN Refused(r.h)
  ELSE Done([r.h EXCEPT !.val = r.h.tagiv])
GcmSivTag(h) ==
  GcmSivTagOut(IF h.tag THEN Done(h) ELSE GcmSivEncrypt(h, <<>>))

=============================================================================
