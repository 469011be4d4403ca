---------------------------- MODULE CipherHandle ----------------------------
(***************************************************************************)
(* A cipher handle in the hands of a caller (src/cipher/cipher.c): keys,   *)
(* nonces, AAD and data in chunks of any size, tags asked for or checked,  *)
(* messages abandoned half way, the handle reset or given a new key, in    *)
(* any order the interface lets through.                                   *)
(*                                                                         *)
(* The routines are those of CipherModes.  msg is what the caller has      *)
(* given since the current nonce; Tag and Output say, from the definitions *)
(* of the modes and not from their code, what that message has to yield.   *)
(***************************************************************************)
EXTENDS CipherModes

CONSTANTS
  Modes,       \* the modes explored
  Keys,        \* how many keys are set at most
  Messages,    \* how many messages are begun at most
  AadBound,    \* the caller offers no more AAD than this
  DataBound,   \* nor more data
  Untracked,   \* nor more of either in a message nothing is claimed of
  AadChunks, DataChunks

ASSUME HandleAssumption ==
  /\ Modes \subseteq {"gcm", "ccm", "eax", "ocb", "poly1305", "siv", "gcmsiv"}
  /\ {Keys, Messages, AadBound, DataBound, Untracked} \subseteq Nat
  /\ AadChunks \subseteq Nat /\ DataChunks \subseteq Nat

VARIABLES
  mode,        \* h->mode
  h,           \* the handle
  dynamic,     \* aead.dynamic, the counting part of generated IVs
  msg,         \* the message in progress
  last         \* what the last call returned

vars == <<mode, h, dynamic, msg, last>>

OneShot == {"siv", "gcmsiv"}
AutoIv == {"gcm", "eax", "poly1305"}        \* modes with a default nonce

-----------------------------------------------------------------------------
(* The message.  Its bytes are named by message and place; whole: the nonce   *)
(* was set after the key; clean: the message before left nothing behind, and  *)
(* in CCM no AAD call came after the first data.                              *)

AadBytes(no, from, n) == [i \in 1..n |-> <<"a", no, from + i>>]
DataBytes(no, from, n) == [i \in 1..n |-> <<"d", no, from + i>>]

\* How a caller has to leave the message before for nothing of it to reach the
\* next: GCM's macbuf is empty once the tag was made or if nothing was given,
\* the key stream EAX and SIV keep is used up if the data since the last reset
\* came to whole blocks.  The other modes ask nothing of the caller.
Clean ==
  CASE mode = "gcm" -> h.tag \/ (msg.clean /\ msg.aad = 0 /\ msg.way = "none")
    [] mode \in {"eax", "siv"} -> msg.clean /\ msg.data % BlockLen = 0
    [] OTHER -> TRUE

Message(no, iv, g, clean) ==
  [no |-> no, iv |-> iv, key |-> g.keyno, whole |-> g.key, clean |-> clean,
   generated |-> FALSE, taglen |-> g.taglen, parts |-> <<>>, aad |-> 0,
   data |-> 0, way |-> "none", used |-> {}, refused |-> FALSE]

Nothing == [op |-> "none"]
Returned(op, ok, value) == [op |-> op, ok |-> ok, value |-> value]

Init ==
  /\ mode \in Modes
  /\ \E fips \in BOOLEAN :
       /\ fips => mode = "gcm"
       /\ h = [Opened EXCEPT !.fips = fips]
  /\ dynamic = 0
  /\ msg = Message(0, ZeroIv, h, TRUE)
  /\ last = Nothing

\* The message h belongs to after the default nonce may have been set.
Current == IF ~h.iv /\ mode \in AutoIv
           THEN Message(msg.no + 1, ZeroIv, h, Clean) ELSE msg

Tracked(m) == m.whole /\ m.clean

-----------------------------------------------------------------------------
(* What a message has to yield *)

\* Bytes in blocks, the last one filled up with zeros.
Blocks(s) == FullBlocks(ZeroPadded(s))

\* CMAC by its definition: the last block, full or padded, is masked.
Cmac(k, s) ==
  LET n    == IF s = <<>> THEN 0 ELSE (Len(s) - 1) \div BlockLen
      end  == Behind(s, n * BlockLen)
      mask == IF Len(end) = BlockLen THEN Append(end, <<"K1">>)
              ELSE Append(ZeroPadded(Append(end, Byte80)), <<"K2">>)
  IN  <<"cmac", k, Append(FullBlocks(First(s, n * BlockLen)), mask)>>

Omac(m, t, s) == Cmac(m.key, [i \in 1..BlockLen |-> <<"t", t>>] \o s)

\* The counter block a message starts from.
FirstCounter(m) ==
  CASE mode = "gcm" /\ m.iv.hashed ->
         [base |-> <<"J", m.key, Blocks(IvBytes(m.iv)) \o <<LengthBlock(0, 1)>> >>,
          hi |-> 0, lo |-> IvLow]
    [] mode = "gcm" /\ ~m.iv.hashed -> [base |-> <<"N", m.iv.id>>, hi |-> 0, lo |-> 1]
    [] mode = "ccm" -> [base |-> <<"ccm", m.iv.id>>, hi |-> 0, lo |-> 0]
    [] mode = "eax" -> [base |-> Omac(m, 0, EaxNonceBytes(m.iv)), hi |-> 0, lo |-> -1]
    [] mode = "poly1305" -> [base |-> <<"cc", m.iv.id>>, hi |-> 0, lo |-> 0]

\* Byte i of the key stream: block 1 + i \div BlockLen behind the first one,
\* with carry except in GCM.
Stream(m, i) ==
  LET c == FirstCounter(m)
      n == c.lo + 1 + (i - 1) \div BlockLen
  IN  <<"ks", m.key, c.base, IF mode = "gcm" THEN 0 ELSE n \div CtrMod,
        n % CtrMod, ((i - 1) % BlockLen) + 1>>

\* The tag of a SIV message with this plaintext.
SivTag(m, plain) ==
  IF mode = "siv" THEN <<"s2v", m.key, m.parts, plain>>
  ELSE <<"siv", m.key, <<"dk", m.iv.id>>,
         Blocks(AadBytes(m.no, 0, m.aad)) \o Blocks(plain)
         \o <<LengthBlock(m.aad, Len(plain))>> >>
SivCipher(m, plain) ==
  LET t == SivTag(m, plain)
  IN  [i \in 1..Len(plain) |->
         Xor(IF mode = "siv"
             THEN <<"ks", m.key, t, ((i - 1) \div BlockLen) \div CtrMod,
                    ((i - 1) \div BlockLen) % CtrMod, ((i - 1) % BlockLen) + 1>>
             ELSE <<"le", m.key, <<"dk", m.iv.id>>, t, i>>,
             plain[i])]

\* OCB: the blocks in front, and the offset after i of them.
OcbOffset(i) == [j \in 1..i |-> Ntz(j)]
OcbBase(m) == <<"ocb", m.key, m.iv.id, m.taglen>>
OcbByte(m, in, i) ==
  LET b    == (i - 1) \div BlockLen
      full == Len(in) \div BlockLen
  IN  IF b < full
      THEN <<"blk", m.way = "encrypt", m.key, OcbBase(m), OcbOffset(b + 1),
             SubSeq(in, b * BlockLen + 1, (b + 1) * BlockLen),
             ((i - 1) % BlockLen) + 1>>
      ELSE Xor(<<"pad", m.key, OcbBase(m), Append(OcbOffset(full), Star),
                 ((i - 1) % BlockLen) + 1>>, in[i])

\* The data of the message and what becomes of it.
Given(m) == DataBytes(m.no, 0, m.data)
Made(m) ==
  IF mode \in OneShot
  THEN IF m.way = "decrypt" THEN Given(m) ELSE SivCipher(m, Given(m))
  ELSE [i \in 1..m.data |->
          IF mode = "ocb" THEN OcbByte(m, Given(m), i)
          ELSE Xor(Stream(m, i), Given(m)[i])]
PlainText(m) == IF m.way = "decrypt" THEN Made(m) ELSE Given(m)
CipherText(m) == IF m.way = "decrypt" THEN Given(m) ELSE Made(m)

\* OCB's sum over blocks of AAD or data, the last one padded by 0x80.
Summed(s) ==
  FullBlocks(s) \o (IF Tail0(s) = <<>> THEN <<>>
                    ELSE <<ZeroPadded(Append(Tail0(s), Byte80))>>)
OcbEnd(n) == IF n % BlockLen = 0 THEN OcbOffset(n \div BlockLen)
             ELSE Append(OcbOffset(n \div BlockLen), Star)

\* The tag.
Tag(m) ==
  LET aad  == AadBytes(m.no, 0, m.aad)
      lens == <<LengthBlock(m.aad, m.data)>>
  IN  CASE mode = "gcm" ->
             <<"gcm", m.key, Blocks(aad) \o Blocks(CipherText(m)) \o lens,
               <<"E", m.key, FirstCounter(m)>> >>
        [] mode = "ccm" ->
             <<"ccm", m.key,
               Blocks(CcmB0(<<"ccm", m.iv.id>>, m.data, m.aad, m.taglen)
                      \o CcmAadHeader(m.aad) \o aad) \o Blocks(PlainText(m)),
               <<"E", m.key, FirstCounter(m)>> >>
        [] mode = "eax" ->
             <<"eax", Omac(m, 0, EaxNonceBytes(m.iv)), Omac(m, 1, aad),
               Omac(m, 2, CipherText(m))>>
        [] mode = "ocb" ->
             <<"ocb", <<"chk", m.key, OcbBase(m), OcbEnd(m.data),
                        Summed(PlainText(m))>>,
               [i \in 1..Len(Summed(aad)) |->
                  <<OcbEnd(Lesser(i * BlockLen, m.aad)), Summed(aad)[i]>>]>>
        [] mode = "poly1305" ->
             <<"poly", <<"P", m.key, m.iv.id>>,
               [hash |-> Blocks(aad) \o Blocks(CipherText(m)) \o lens,
                buf |-> <<>>]>>
        [] mode \in OneShot -> SivTag(m, PlainText(m))

-----------------------------------------------------------------------------
(* The routines of the mode, as _gcry_cipher_setup_mode_ops picks them *)

Setiv(g, iv) ==
  CASE mode = "gcm" -> GcmSetiv(g, iv)
    [] mode = "ccm" -> CcmSetNonce(g, iv)
    [] mode = "eax" -> EaxSetNonce(g, iv)
    [] mode = "ocb" -> OcbSetNonce(g, iv)
    [] mode = "poly1305" -> Poly1305Setiv(g, iv)
    [] mode = "siv" -> SivSetNonce(g, iv)
    [] mode = "gcmsiv" -> GcmSivSetNonce(g, iv)

Authenticate(g, in) ==
  CASE mode = "gcm" -> GcmAuthenticate(g, in)
    [] mode = "ccm" -> CcmAuthenticate(g, in)
    [] mode = "eax" -> EaxAuthenticate(g, in)
    [] mode = "ocb" -> OcbAuthenticate(g, in)
    [] mode = "poly1305" -> Poly1305Authenticate(g, in)
    [] mode = "siv" -> SivAuthenticate(g, in)
    [] mode = "gcmsiv" -> GcmSivAuthenticate(g, in)

Crypt(g, in, enc) ==
  CASE mode = "gcm" -> GcmCrypt(g, in, enc)
    [] mode = "ccm" -> CcmCrypt(g, in, enc)
    [] mode = "eax" -> EaxCrypt(g, in, enc)
    [] mode = "ocb" -> OcbCrypt(g, in, enc)
    [] mode = "poly1305" -> Poly1305Crypt(g, in, enc)
    [] mode = "siv" -> IF enc THEN SivEncrypt(g, in) ELSE SivDecrypt(g, in)
    [] mode = "gcmsiv" -> IF enc THEN GcmSivEncrypt(g, in)
                          ELSE GcmSivDecrypt(g, in)

\* The tag for get_tag, or for check_tag to compare with.
MakeTag(g, check) ==
  CASE mode = "gcm" -> IF check THEN GcmTag(g) ELSE GcmGetTag(g)
    [] mode = "ccm" -> CcmTag(g, msg.taglen)
    [] mode = "eax" -> EaxTag(g)
    [] mode = "ocb" -> OcbTag(g)
    [] mode = "poly1305" -> Poly1305Tag(g)
    [] mode = "siv" -> IF check THEN SivCheckTag(g) ELSE SivGetTag(g)
    [] mode = "gcmsiv" -> GcmSivTag(g)

\* cipher_setkey: the mode's own setkey forgets the message, or does not.
Rekeyed(g) ==
  LET k == [g EXCEPT !.keyno = @ + 1, !.key = TRUE]
  IN  CASE mode = "poly1305" ->
             [k EXCEPT !.aadlen = 0, !.datalen = 0, !.over = FALSE,
                       !.aadfin = FALSE, !.tag = FALSE, !.iv = FALSE]
        [] mode = "siv" ->
             [k EXCEPT !.parts = <<>>, !.dectag = FALSE, !.tag = FALSE,
                       !.iv = FALSE, !.tagiv = NoValue, !.val = NoValue,
                       !.ctr = NoCtr]
        [] mode = "gcmsiv" ->
             [Opened EXCEPT !.keyno = k.keyno, !.key = TRUE]
        [] OTHER -> k

\* cipher_reset: everything but the key is forgotten.
WasReset(g) == [Opened EXCEPT !.fips = g.fips, !.keyno = g.keyno, !.key = g.key]

-----------------------------------------------------------------------------
(* The calls *)

\* A message of one-shot mode SIV begins with the key, not with the nonce.
NextMessage(g, clean) ==
  IF mode = "siv" THEN Message(msg.no + 1, ZeroIv, g, clean)
  ELSE [msg EXCEPT !.whole = FALSE]

\* gcry_cipher_reset leaves nothing of it.
Forgotten(m) ==
  [m EXCEPT !.clean = TRUE, !.aad = 0, !.data = 0, !.way = "none"]

\* gcry_cipher_setkey
SetKey ==
  /\ h.keyno < Keys
  /\ mode = "siv" => msg.no < Messages
  /\ h' = Rekeyed(h)
  /\ msg' = NextMessage(h', Clean)
  /\ last' = Nothing
  /\ UNCHANGED <<mode, dynamic>>

\* gcry_cipher_setkey with a key of a length that is refused.  An odd length
\* leaves a SIV handle as it was.
SetBadKey ==
  /\ \/ mode = "siv" /\ UNCHANGED <<h, msg>>
     \/ h' = [h EXCEPT !.key = FALSE] /\ msg' = [msg EXCEPT !.whole = FALSE]
  /\ last' = Nothing
  /\ UNCHANGED <<mode, dynamic>>

\* gcry_cipher_setiv; hashed: in GCM, an IV of another length than 96 bits.
SetIv(hashed) ==
  LET iv == Nonce(msg.no + 1, hashed)
  IN  /\ msg.no < Messages
      /\ hashed => mode = "gcm"
      /\ \E r \in {Setiv(h, iv)} :
           /\ h' = r.h
           /\ msg' = IF ~r.ok THEN msg
                     ELSE IF mode = "siv"
                     THEN [msg EXCEPT !.iv = iv, !.parts = Append(@, IvBytes(iv))]
                     ELSE Message(msg.no + 1, iv, h, Clean)
      /\ last' = Nothing
      /\ UNCHANGED <<mode, dynamic>>

\* gcry_cipher_setiv in GCM with an IV of length 0.
SetEmptyIv ==
  /\ mode = "gcm"
  /\ h' = GcmSetEmptyIv(h).h
  /\ msg' = [msg EXCEPT !.whole = FALSE]
  /\ last' = Nothing
  /\ UNCHANGED <<mode, dynamic>>

\* gcry_cipher_geniv: the mode's setiv, then the dynamic part counts on.
GenIv ==
  LET iv == Nonce(100 + dynamic, FALSE)
  IN  /\ mode = "gcm" /\ msg.no < Messages
      /\ h' = GcmGeniv(h, iv).h
      /\ dynamic' = dynamic + 1
      /\ msg' = [Message(msg.no + 1, iv, h, Clean) EXCEPT !.generated = TRUE]
      /\ last' = Nothing
      /\ UNCHANGED mode

\* gcry_cipher_authenticate
DoAuthenticate(n) ==
  \E m \in {Current} : \E in \in {AadBytes(m.no, m.aad, n)} :
    /\ m.aad + n <= IF Tracked(m) THEN AadBound ELSE Untracked
    /\ Len(m.parts) <= MaxParts
    /\ m.no <= Messages
    /\ \E r \in {Authenticate(h, in)} :
         /\ h' = r.h
         /\ msg' = IF r.ok
                   THEN [m EXCEPT !.aad = @ + n,
                                  !.parts = IF mode = "siv" THEN Append(@, in) ELSE @,
                                  !.clean = @ /\ (mode = "ccm" => m.data = 0)]
                   ELSE IF r.h.iv # h.iv THEN m ELSE msg
    /\ last' = Nothing
    /\ UNCHANGED <<mode, dynamic>>

\* What is handed to a call of a message's next n bytes: a one-shot mode is
\* given the ciphertext of the plaintext the message stands for.
Input(m, n) ==
  IF mode \in OneShot /\ m.way = "decrypt"
  THEN SivCipher(m, DataBytes(m.no, m.data, n)) ELSE DataBytes(m.no, m.data, n)

\* The message after the call, r what it returned.
Crypted(m, n, r) ==
  IF r.ok
  THEN [m EXCEPT !.data = @ + n,
                 !.used = IF mode \in OneShot \cup {"ocb"} THEN @
                          ELSE @ \cup {r.out[i][2] : i \in 1..n}]
  ELSE IF \/ mode = "siv" /\ r.h.tag # h.tag
          \/ mode = "gcmsiv" /\ r.h.datafin # h.datafin
  THEN [m EXCEPT !.data = @ + n, !.refused = TRUE]
  ELSE IF r.h.iv # h.iv THEN m ELSE msg

\* gcry_cipher_encrypt and gcry_cipher_decrypt
DoCrypt(n, way) ==
  \E m \in {[Current EXCEPT !.way = way]} :
    /\ h.key /\ msg.no > 0
    /\ Current.way \in {"none", way}
    /\ m.data + n <= IF Tracked(m) THEN DataBound ELSE Untracked
    /\ m.no <= Messages
    /\ \E r \in {Crypt(h, Input(m, n), way = "encrypt")} :
         /\ h' = r.h
         /\ msg' = Crypted(m, n, r)
         /\ last' = IF r.ok \/ (mode \in OneShot /\ way = "decrypt")
                    THEN [op |-> way, ok |-> r.ok, value |-> r.out,
                          tag |-> h.tagiv]
                    ELSE Nothing
    /\ UNCHANGED <<mode, dynamic>>

\* gcry_cipher_gettag
GetTag ==
  \E m \in {Current} :
    /\ m.no <= Messages
    /\ \E r \in {MakeTag(h, FALSE)} :
         /\ h' = r.h
         /\ msg' = IF r.h.iv # h.iv THEN m ELSE msg
         /\ last' = IF r.ok THEN Returned("gettag", TRUE, r.h.val) ELSE Nothing
    /\ UNCHANGED <<mode, dynamic>>

Forged == <<"forged">>

\* gcry_cipher_checktag with the tag of the message or another one.
CheckTag(forged) ==
  \E m \in {Current} :
    /\ m.no <= Messages
    /\ \E r \in {MakeTag(h, TRUE)}, tag \in {IF forged THEN Forged ELSE Tag(m)} :
         /\ h' = r.h
         /\ msg' = IF r.h.iv # h.iv THEN m ELSE msg
         /\ last' = IF r.ok THEN Returned("checktag", r.h.val = tag, tag)
                    ELSE Nothing
    /\ UNCHANGED <<mode, dynamic>>

\* GCRYCTL_SET_CCM_LENGTHS
SetLengths(data, aad) ==
  /\ mode = "ccm"
  /\ \E r \in {CcmSetLengths(h, data, aad, msg.taglen)} : r.ok /\ h' = r.h
  /\ last' = Nothing
  /\ UNCHANGED <<mode, dynamic, msg>>

\* GCRYCTL_FINALIZE, GCRYCTL_SET_TAGLEN
Finalize ==
  /\ mode = "ocb"
  /\ h' = [h EXCEPT !.fin = TRUE]
  /\ last' = Nothing
  /\ UNCHANGED <<mode, dynamic, msg>>

SetTaglen(n) ==
  /\ mode = "ocb"
  /\ h' = [h EXCEPT !.taglen = n]
  /\ last' = Nothing
  /\ UNCHANGED <<mode, dynamic, msg>>

\* GCRYCTL_SET_DECRYPTION_TAG, with the tag of a message of n bytes or another.
SetDecryptionTag(n, forged) ==
  LET tag == IF forged THEN Forged ELSE SivTag(msg, DataBytes(msg.no, 0, n))
      r   == IF mode = "siv" THEN SivSetDecryptionTag(h, tag)
             ELSE GcmSivSetDecryptionTag(h, tag)
  IN  /\ mode \in OneShot
      /\ h' = r.h
      /\ last' = Nothing
      /\ UNCHANGED <<mode, dynamic, msg>>

\* gcry_cipher_reset
Reset ==
  /\ mode = "siv" => msg.no < Messages
  /\ h' = WasReset(h)
  /\ msg' = Forgotten(NextMessage(h', TRUE))
  /\ last' = Nothing
  /\ UNCHANGED <<mode, dynamic>>

Next ==
  \/ SetKey \/ SetBadKey \/ SetEmptyIv \/ GenIv \/ GetTag \/ Finalize \/ Reset
  \/ \E hashed \in BOOLEAN : SetIv(hashed)
  \/ \E n \in AadChunks : DoAuthenticate(n)
  \/ \E n \in DataChunks, way \in {"encrypt", "decrypt"} : DoCrypt(n, way)
  \/ \E forged \in BOOLEAN : CheckTag(forged)
  \/ \E data \in DataChunks, aad \in AadChunks : SetLengths(data, aad)
  \/ \E n \in {8, 16} : SetTaglen(n)
  \/ \E n \in DataChunks, forged \in BOOLEAN : SetDecryptionTag(n, forged)

Spec == Init /\ [][Next]_vars

-----------------------------------------------------------------------------
(* Properties *)

\* The output of a call and the tags, against the definition of the mode.
OutputRight ==
  last.op \in {"encrypt", "decrypt"} /\ last.ok =>
    last.value = SubSeq(Made(msg), msg.data - Len(last.value) + 1, msg.data)
TagRight ==
  last.op = "gettag" /\ (mode = "gcmsiv" => ~msg.refused) =>
    last.value = Tag(msg)

\* However a message is cut into calls, the bytes that come out and the tag are
\* those the mode defines for the whole message (the encrypt, decrypt,
\* authenticate and get_tag routines of the modes), on a handle that was used
\* before as long as Clean holds of that use: in GCM the message before was
\* ended by its tag, or nothing of it was given, in EAX and SIV the data since
\* the last gcry_cipher_reset came to whole blocks.  In CCM the caller makes no
\* AAD call after the first data, and the tag that a refused GCM-SIV decryption
\* leaves is not one the mode defines.  The README shows that each of these
\* conditions is needed.
Exact == Tracked(msg) => OutputRight /\ TagRight

\* The same whatever the handle was used for before.  It does not hold for GCM,
\* EAX and SIV (macbuf and c->unused outlive a new nonce or key), nor for CCM
\* with an AAD call of length 0 after the data: see the README.
MessagesApart == msg.whole => OutputRight /\ TagRight

\* No byte of the key stream is used twice in a message, and the counter block
\* that masks the tag is not among those that encrypt (gcm_ctr_encrypt's 32 bit
\* counter, gcm_check_datalen, the unused part of a block in cipher-ctr.c).
StreamOnce ==
  msg.whole /\ msg.data > 0 /\ mode \notin OneShot \cup {"ocb"} =>
    /\ Cardinality(msg.used) = msg.data
    /\ mode = "gcm" =>
         \A b \in msg.used : b[5] # FirstCounter(msg).lo

\* In FIPS mode GCM neither encrypts nor hands out a tag under an IV the caller
\* or the default chose (disallow_encryption_because_of_setiv_in_fips_mode).
GeneratedIvs ==
  h.fips /\ h.iv /\ last.op \in {"encrypt", "gettag"} => msg.generated

\* A check of a tag succeeds only for the tag of what was decrypted, but for one
\* that follows a GCM-SIV decryption that was refused: that one compares with
\* the tag the caller gave (see ChecksCalculated).  A one-shot decryption
\* succeeds only for the tag it was given, and if not, it lets no plaintext out
\* (the check_tag routines, SIV and GCM-SIV decrypt).
Verified ==
  Tracked(msg) =>
    /\ last.op = "checktag" /\ last.ok /\ (mode = "gcmsiv" => ~msg.refused) =>
         last.value = Tag(msg)
    /\ last.op = "decrypt" /\ mode \in OneShot =>
         IF last.ok THEN last.tag = Tag(msg) ELSE last.value = <<>>

\* "Error code GPG_ERR_CHECKSUM is returned if the authentication tag in the
\* buffer TAG does not match the authentication tag calculated during
\* decryption" (doc/gcrypt.texi on gcry_cipher_checktag): every check that
\* succeeds is of the tag of the message.  It does not hold for GCM-SIV: see the
\* README.
ChecksCalculated ==
  Tracked(msg) /\ last.op = "checktag" /\ last.ok => last.value = Tag(msg)

\* The assertions in ocb_get_L_big and gcm_ctr_encrypt hold, however the AAD
\* and the data of a message are cut into calls.
NoAssertion == ~h.dead
=============================================================================
