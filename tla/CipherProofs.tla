---------------------------- MODULE CipherProofs ----------------------------
(***************************************************************************)
(* The handle of CipherHandle in the other modes, on the ground laid in    *)
(* GcmProofs: what a message's output, its tag and its key stream are, for *)
(* CCM, EAX and ChaCha20-Poly1305 together (Wide: their counters do not    *)
(* return within a message); for SIV and GCM-SIV (the one-shot modes,      *)
(* whose counter starts from the tag); and for OCB, as long as no          *)
(* assertion has ended the process.  At the end, the modes together.       *)
(***************************************************************************)
EXTENDS GcmProofs

(* The other modes with a key stream: CCM, EAX and ChaCha20-Poly1305.  Their   *)
(* counter runs over with carry.                                               *)

\* Counting on with carry.
LEMMA IncWide ==
  ASSUME NEW base, NEW lo \in Int, lo + 1 \in Nat, NEW q \in Nat, NEW j \in Nat, mode # "gcm"
  PROVE  Inc(CtrOf(base, lo, q), j) = CtrOf(base, lo, q + j)
<1> DEFINE x == lo + 1 + q
           l == x % CtrMod
           u == x \div CtrMod
<1>0. CtrMod \in Nat \ {0} /\ x \in Nat /\ lo + 1 + (q + j) = x + j
  BY ModesAssumption
<1>1. /\ CtrOf(base, lo, q) = [base |-> base, hi |-> u, lo |-> l]
      /\ CtrOf(base, lo, q + j)
           = [base |-> base, hi |-> (x + j) \div CtrMod, lo |-> (x + j) % CtrMod]
  BY <1>0 DEF CtrOf
<1>2. (l + j) % CtrMod = (x + j) % CtrMod /\ u + (l + j) \div CtrMod = (x + j) \div CtrMod
  <2> HIDE DEF x
  <2> QED BY <1>0, ModAdd
<1> HIDE DEF x, l, u
<1>3. Inc([base |-> base, hi |-> u, lo |-> l], j)
        = [base |-> base, hi |-> u + (l + j) \div CtrMod, lo |-> (l + j) % CtrMod]
  <2>1. ASSUME NEW a, NEW b
        PROVE  [[base |-> base, hi |-> u, lo |-> l] EXCEPT !.lo = a, !.hi = b]
               = [base |-> base, hi |-> b, lo |-> a]
    <3>1. [[base |-> base, hi |-> u, lo |-> l] EXCEPT !.lo = a] = [base |-> base, hi |-> u, lo |-> a]
      OBVIOUS
    <3>2. [[base |-> base, hi |-> u, lo |-> a] EXCEPT !.hi = b] = [base |-> base, hi |-> b, lo |-> a]
      OBVIOUS
    <3> QED BY ONLY <3>1, <3>2
  <2> QED BY <2>1 DEF Inc
<1> QED BY <1>1, <1>2, <1>3

\* _gcry_cipher_ctr_encrypt_ctx keeps to the stream.
LEMMA CtrWide ==
  ASSUME mode # "gcm", NEW g, IsHandle(g), NEW inp, IsSeq(inp), NEW k, NEW base,
         NEW lo \in Int, lo + 1 \in Nat, NEW d \in Nat, NEW q, Placed(g, k, base, lo, d, q)
  PROVE  \E y, o : /\ CtrEncrypt(g, inp, k) = Result(y, TRUE, o)
                   /\ GcmRan(g, k, base, lo, d, inp, Len(inp), y, o)
<1> DEFINE r == CtrEncrypt(g, inp, k)
<1>0. Len(inp) \in Nat /\ q \in Nat /\ g.unused \in 0..(BlockLen - 1) /\ BlockLen \in Nat \ {0}
  BY IsSeqLen, BlockLenAssumption DEF Placed
<1>1. PICK blocks, v : CtrRan(g, inp, k, r, blocks, v)
  BY <1>0, CtrEncryptIs
<1>2. r = Result(r.h, TRUE, r.out)
  BY DEF CtrEncrypt, Result
<1> HIDE DEF r
<1>3. blocks \in Nat /\ v \in 0..(BlockLen - 1)
  BY <1>1 DEF CtrRan, Run
<1>4. g.ctr = CtrOf(base, lo, q)
  BY DEF Placed
<1>5. \A j \in Nat : Inc(g.ctr, j) = CtrOf(base, lo, q + j)
  BY <1>0, <1>4, IncWide
<1>6. Counts(g, base, lo, q, blocks)
  BY <1>5 DEF Counts
<1>7. Streamed(r, k, base, lo, d, q, inp, blocks, v)
  BY <1>1, <1>6, CtrStream
<1>8. Placed(r.h, k, base, lo, d + Len(inp), q + blocks)
  BY <1>0, <1>1, <1>3, <1>5, <1>7 DEF Placed, Streamed, CtrRan
<1>9. Same(g, r.h, {"ctr", "last", "unused", "dead"})
  BY <1>1 DEF CtrRan, Same
<1>10. IsSeq(r.out) /\ Len(r.out) = Len(inp)
  BY <1>1 DEF CtrRan
<1>11. Len(inp) \in 0..Len(inp)
  BY <1>0
<1>12. GcmRan(g, k, base, lo, d, inp, Len(inp), r.h, r.out)
  BY <1>7, <1>8, <1>9, <1>10, <1>11 DEF GcmRan, Streamed
<1> QED BY <1>2, <1>12 DEF r

\* What a call has made of the data of a message.
TextRan(m, x, inp, n, o) ==
  /\ StreamOut(m, n, o)
  /\ o = SubSeq(Made(x), x.data - Len(o) + 1, x.data)
  /\ CipherText(x) = CipherText(m) \o IF m.way = "encrypt" THEN o ELSE inp
  /\ PlainText(x) = PlainText(m) \o IF m.way = "encrypt" THEN inp ELSE o

\* The handle behind more bytes of the stream of a message.
LEMMA StreamMore ==
  ASSUME mode \in Streams, NEW m, m.data \in Nat, NEW n \in Nat,
         NEW inp, inp = DataBytes(m.no, m.data, n), m.way \in {"encrypt", "decrypt"},
         NEW base, NEW f, InStream(f, m, base), NEW b, NEW y, NEW o,
         GcmRan(b, m.key, base, LoOf(m), m.data, inp, n, y, o),
         NEW z, z.unused = y.unused, z.ctr = y.ctr, z.last = y.last,
         NEW x, MoreText(m, x, n, o)
  PROVE  InStream(z, x, base) /\ (m.clean => TextRan(m, x, inp, n, o))
<1>1. PICK q : Placed(y, m.key, base, LoOf(m), m.data + n, q)
  BY DEF GcmRan
<1>2. /\ x.no = m.no /\ x.key = m.key /\ x.iv = m.iv /\ x.data = m.data + n
      /\ x.aad = m.aad /\ x.clean = m.clean /\ x.way = m.way
      /\ x.used = m.used \cup {o[i][2] : i \in 1..n} /\ MoreData(m, x, n)
  BY DEF MoreText, MoreData
<1>3. IsSeq(inp) /\ Len(inp) = n /\ IsSeq(o) /\ Len(o) = n
      /\ \A i \in 1..n : o[i] = Xor(StreamByte(m.key, base, LoOf(m), m.data + i), inp[i])
  BY DataIs DEF GcmRan
<1>4. FirstCounter(x) = FirstCounter(m) /\ LoOf(x) = LoOf(m)
  BY <1>2, CounterSame DEF LoOf
<1>5. InStream(z, x, base)
  <2>1. x.used = {StreamByte(m.key, base, LoOf(m), i) : i \in 1..(m.data + n)}
    <3>1. m.used = {StreamByte(m.key, base, LoOf(m), i) : i \in 1..m.data}
      BY DEF InStream
    <3>2. {StreamByte(m.key, base, LoOf(m), i) : i \in 1..m.data} \cup {o[i][2] : i \in 1..n}
             = {StreamByte(m.key, base, LoOf(m), i) : i \in 1..(m.data + n)}
      <4>1. Runs(m.key, base, LoOf(m), m.data, n, m.no, o)
        BY <1>3 DEF Runs
      <4> DEFINE l == LoOf(m)
                 d == m.data
                 k == m.key
      <4>2. Runs(k, base, l, d, n, m.no, o) /\ d \in Nat /\ n \in Nat
        BY <4>1
      <4> HIDE DEF l, d, k
      <4>3. UsedTo(k, base, l, d, n, o)
        BY ONLY <4>2, UsedMore
      <4> QED BY <4>3 DEF UsedTo, l, d, k
    <3> QED BY <3>1, <3>2, <1>2
  <2>2. Placed(z, x.key, base, LoOf(x), x.data, q)
    BY <1>1, <1>2, <1>4 DEF Placed
  <2> QED BY <2>1, <2>2, <1>2, <1>4 DEF InStream
<1>6. ASSUME m.clean PROVE TextRan(m, x, inp, n, o)
  <2>1. base = FirstCounter(m).base
    BY <1>6 DEF InStream
  <2>2. StreamOut(m, n, o)
    BY <2>1, <1>3, StreamIs DEF LoOf, StreamOut
  <2>3. /\ mode \in Streams /\ m.data \in Nat /\ n \in Nat /\ MoreData(m, x, n)
        /\ StreamOut(m, n, o) /\ x.way \in {"encrypt", "decrypt"} /\ x.way = m.way
    BY <2>2, <1>2
  <2>4. o = SubSeq(Made(x), x.data - Len(o) + 1, x.data)
    BY ONLY <2>3, MadeMore
  <2>5. /\ CipherText(x) = CipherText(m) \o IF x.way = "encrypt" THEN o
                                            ELSE DataBytes(m.no, m.data, n)
        /\ PlainText(x) = PlainText(m) \o IF x.way = "encrypt" THEN DataBytes(m.no, m.data, n)
                                          ELSE o
    BY ONLY <2>3, TextMore
  <2> QED BY <2>2, <2>4, <2>5, <1>2 DEF TextRan
<1> QED BY <1>5, <1>6

\* The text of a message whose way is settled.
LEMMA WaySame ==
  ASSUME mode \in Streams, NEW m, m.data \in Nat, m.way = "none" => m.data = 0,
         NEW w \in {"encrypt", "decrypt"}, m.way \in {"none", w}, NEW x, Turns(m, x, w)
  PROVE  /\ CipherText(x) = CipherText(m) /\ PlainText(x) = PlainText(m)
         /\ FirstCounter(x) = FirstCounter(m) /\ LoOf(x) = LoOf(m) /\ AadOf(x) = AadOf(m)
<1>0. /\ MoreData(m, x, 0) /\ StreamOut(m, 0, <<>>)
      /\ x.way \in {"encrypt", "decrypt"} /\ (x.way = m.way \/ m.data = 0)
  BY EmptyIs DEF MoreData, Turns, StreamOut
<1>1. /\ CipherText(x) = CipherText(m) \o IF x.way = "encrypt" THEN <<>>
                                          ELSE DataBytes(m.no, m.data, 0)
      /\ PlainText(x) = PlainText(m) \o IF x.way = "encrypt" THEN DataBytes(m.no, m.data, 0)
                                        ELSE <<>>
  BY <1>0, TextMore
<1>2. DataBytes(m.no, m.data, 0) = <<>>
  BY <1>0, DataIs, EmptyIs
<1>3. CipherText(x) = CipherText(m) /\ PlainText(x) = PlainText(m)
  <2>1. IsSeq(CipherText(m)) /\ IsSeq(PlainText(m))
    BY MadeIs
  <2> QED BY <2>1, <1>1, <1>2, ConcatEmpty
<1> QED BY <1>3, CounterSame DEF LoOf, AadOf, Turns

-----------------------------------------------------------------------------
(* Poly1305 and its padding *)

\* _gcry_poly1305_update
LEMMA PolyIs ==
  ASSUME NEW hash, NEW buf, NEW inp, IsSeq(hash), IsSeq(buf), IsSeq(inp),
         Len(buf) < BlockLen
  PROVE  Poly1305Update(Coll(hash, buf), inp)
           = Coll(hash \o FullBlocks(buf \o inp), Tail0(buf \o inp))
<1> DEFINE n == IF buf = <<>> THEN 0 ELSE Lesser(BlockLen - Len(buf), Len(inp))
           b == buf \o First(inp, n)
           i == Behind(inp, n)
<1>1. /\ BlockLen \in Nat \ {0} /\ Len(buf) \in Nat /\ Len(inp) \in Nat
      /\ BlockLen - Len(buf) \in Nat
  BY IsSeqLen, BlockLenAssumption
<1>2. Poly1305Update(Coll(hash, buf), inp)
        = IF b # <<>> /\ Len(b) < BlockLen THEN Coll(hash, b)
          ELSE Coll(hash \o FullBlocks(b) \o FullBlocks(i), Tail0(i))
  <2>1. Coll(hash, buf).hash = hash /\ Coll(hash, buf).buf = buf
    BY DEF Coll
  <2>2. Poly1305Update(Coll(hash, buf), inp)
        = IF b # <<>> /\ Len(b) < BlockLen THEN [Coll(hash, buf) EXCEPT !.buf = b]
          ELSE [hash |-> hash \o FullBlocks(b) \o FullBlocks(i), buf |-> Tail0(i)]
    BY <2>1 DEF Poly1305Update
  <2> HIDE DEF b, i
  <2>3. [Coll(hash, buf) EXCEPT !.buf = b] = Coll(hash, b)
    BY DEF Coll
  <2> QED BY <2>2, <2>3 DEF Coll
<1>3. /\ n \in 0..Len(inp)
      /\ buf = <<>> => n = 0
      /\ buf # <<>> => n = Len(inp) \/ n = BlockLen - Len(buf)
  <2>1. CASE buf = <<>>
    BY <2>1, <1>1
  <2>2. CASE buf # <<>>
    <3>1. n = Lesser(BlockLen - Len(buf), Len(inp))
      BY <2>2
    <3>2. Lesser(BlockLen - Len(buf), Len(inp)) \in {BlockLen - Len(buf), Len(inp)}
          /\ Lesser(BlockLen - Len(buf), Len(inp)) \in 0..Len(inp)
      BY <1>1 DEF Lesser
    <3> QED BY ONLY <2>2, <3>1, <3>2
  <2> HIDE DEF n
  <2> QED BY <2>1, <2>2
<1> HIDE DEF n
<1>4. /\ IsSeq(First(inp, n)) /\ Len(First(inp, n)) = n
      /\ IsSeq(i) /\ Len(i) = Len(inp) - n /\ First(inp, n) \o i = inp
  BY <1>3, FirstIs
<1>5. IsSeq(b) /\ Len(b) = Len(buf) + n
  BY <1>4, ConcatIs
<1>6. b \o i = buf \o inp
  <2>1. (buf \o First(inp, n)) \o i = buf \o (First(inp, n) \o i)
    <3>1. IsSeq(buf) /\ IsSeq(First(inp, n)) /\ IsSeq(i)
      BY <1>4
    <3> HIDE DEF i
    <3> QED BY ONLY <3>1, ConcatAssoc
  <2> QED BY <2>1, <1>4
<1> HIDE DEF b, i
<1>7. IsSeq(FullBlocks(b)) /\ IsSeq(FullBlocks(i)) /\ hash \o <<>> = hash
  BY <1>4, <1>5, FewBytes, ConcatEmpty
<1>8. CASE b # <<>> /\ Len(b) < BlockLen
  <2>1. n = Len(inp)
    <3>1. buf # <<>>
      <4>1. SUFFICES ASSUME buf = <<>> PROVE FALSE
        OBVIOUS
      <4>2. Len(b) = 0
        BY <4>1, <1>3, <1>5, EmptyIs
      <4> QED BY <4>2, <1>5, <1>8, EmptyIs
    <3>2. n # BlockLen - Len(buf)
      BY <1>1, <1>3, <1>5, <1>8
    <3> QED BY <3>1, <3>2, <1>3
  <2>2. i = <<>>
    BY <2>1, <1>1, <1>4, EmptyIs
  <2>3. buf \o inp = b
    BY <2>2, <1>5, <1>6, ConcatEmpty
  <2>4. FullBlocks(b) = <<>> /\ Tail0(b) = b
    BY <1>5, <1>8, FewBytes
  <2> QED BY <2>3, <2>4, <1>2, <1>7, <1>8
<1>9. CASE ~(b # <<>> /\ Len(b) < BlockLen)
  <2>1. Tail0(b) = <<>>
    <3>1. CASE b = <<>>
      BY <3>1, NoBlocks
    <3>2. CASE b # <<>>
      <4>1. Len(b) = BlockLen
        <5>1. buf # <<>>
          <6>1. SUFFICES ASSUME buf = <<>> PROVE FALSE
            OBVIOUS
          <6>2. Len(b) = 0
            BY <6>1, <1>3, <1>5, EmptyIs
          <6> QED BY <6>2, <1>5, <3>2, EmptyIs
        <5>2. Len(b) <= BlockLen
          BY <5>1, <1>1, <1>3, <1>5 DEF n, Lesser
        <5> QED BY <5>2, <3>2, <1>1, <1>5, <1>9, <1>3
      <4> QED BY <4>1, <1>5, FewBytes
    <3> QED BY <3>1, <3>2
  <2>2. /\ FullBlocks(b \o i) = FullBlocks(b) \o FullBlocks(Tail0(b) \o i)
        /\ Tail0(b \o i) = Tail0(Tail0(b) \o i)
    BY <1>4, <1>5, BlocksConcat
  <2>3. Tail0(b) \o i = i
    BY <2>1, <1>4, ConcatEmpty
  <2>4. (hash \o FullBlocks(b)) \o FullBlocks(i) = hash \o (FullBlocks(b) \o FullBlocks(i))
    <3> DEFINE u == FullBlocks(b)
               v == FullBlocks(i)
    <3>1. IsSeq(hash) /\ IsSeq(u) /\ IsSeq(v)
      BY <1>7
    <3> HIDE DEF u, v
    <3>2. (hash \o u) \o v = hash \o (u \o v)
      BY ONLY <3>1, ConcatAssoc
    <3> QED BY <3>2 DEF u, v
  <2> QED BY <2>2, <2>3, <2>4, <1>2, <1>6, <1>9
<1> QED BY <1>8, <1>9

\* More bytes behind those of before.
LEMMA PolyMore ==
  ASSUME NEW p, IsSeq(p), NEW s, IsSeq(s), NEW t, IsSeq(t)
  PROVE  Poly1305Update(Coll(p \o FullBlocks(s), Tail0(s)), t)
           = Coll(p \o FullBlocks(s \o t), Tail0(s \o t))
<1> DEFINE f == FullBlocks(s)
           b == Tail0(s)
           u == p \o f
           v == b \o t
<1>1. IsSeq(f) /\ IsSeq(b) /\ Len(b) < BlockLen
  BY FewBytes
<1>2. IsSeq(u) /\ IsSeq(v)
  BY <1>1, ConcatIs
<1>3. IsSeq(FullBlocks(v))
  BY <1>2, FewBytes
<1>4. FullBlocks(s \o t) = f \o FullBlocks(v) /\ Tail0(s \o t) = Tail0(v)
  BY BlocksConcat
<1> HIDE DEF f, b
<1>5. u \o FullBlocks(v) = p \o (f \o FullBlocks(v))
  <2> DEFINE x == FullBlocks(v)
  <2>1. IsSeq(x) /\ IsSeq(f) /\ IsSeq(p)
    BY <1>1, <1>3
  <2> HIDE DEF x, v
  <2>2. (p \o f) \o x = p \o (f \o x)
    BY ONLY <2>1, ConcatAssoc
  <2> QED BY ONLY <2>2 DEF u, x
<1>6. IsSeq(u) /\ IsSeq(b) /\ IsSeq(t) /\ Len(b) < BlockLen
  BY <1>1, <1>2
<1> HIDE DEF u
<1>7. Poly1305Update(Coll(u, b), t) = Coll(u \o FullBlocks(b \o t), Tail0(b \o t))
  BY ONLY <1>6, PolyIs
<1> QED BY <1>4, <1>5, <1>7 DEF u, f, b

\* poly1305_do_padding, by the number of those bytes.
LEMMA PolyPad ==
  ASSUME NEW p, IsSeq(p), NEW s, IsSeq(s), NEW n, n = Len(s)
  PROVE  Poly1305Padding(Coll(p \o FullBlocks(s), Tail0(s)), n) = Coll(p \o Blocks(s), <<>>)
<1> DEFINE z == Zeros(PadLen(n))
<1>1. /\ PadLen(n) \in 0..(BlockLen - 1) /\ ZeroPadded(s) = s \o z
      /\ IsSeq(ZeroPadded(s)) /\ Len(ZeroPadded(s)) % BlockLen = 0
  BY PaddedIs
<1>2. IsSeq(z)
  BY <1>1, ZerosIs, BlockLenAssumption
<1>3. Poly1305Padding(Coll(p \o FullBlocks(s), Tail0(s)), n)
        = Poly1305Update(Coll(p \o FullBlocks(s), Tail0(s)), z)
  BY DEF Poly1305Padding, Zeros, PadLen
<1> HIDE DEF z
<1>4. Poly1305Update(Coll(p \o FullBlocks(s), Tail0(s)), z)
        = Coll(p \o FullBlocks(s \o z), Tail0(s \o z))
  BY <1>2, PolyMore
<1>5. Tail0(s \o z) = <<>> /\ FullBlocks(s \o z) = Blocks(s)
  BY <1>1, FewBytes DEF Blocks
<1> QED BY <1>3, <1>4, <1>5

-----------------------------------------------------------------------------
(* What a message has made of a ChaCha20-Poly1305 handle *)

\* What was hashed of the message so far.
PolyMac(g, m) ==
  /\ g.tagiv = <<"P", m.key, m.iv.id>>
  /\ g.mac = IF g.aadfin THEN Coll(Blocks(AadOf(m)) \o FullBlocks(CipherText(m)),
                                   Tail0(CipherText(m)))
             ELSE Coll(FullBlocks(AadOf(m)), Tail0(AadOf(m)))

\* The handle g works on the message m, whose nonce came after the key.
PolyWhole(g, m) ==
  /\ g.iv /\ m.key = g.keyno /\ m.clean
  /\ m.data \in Nat /\ m.aad \in Nat
  /\ m.way \in {"none", "encrypt", "decrypt"} /\ (m.way = "none" => m.data = 0)
  /\ InStream(g, m, FirstCounter(m).base)
  /\ ~g.over /\ ~g.tag => /\ g.aadlen = m.aad /\ g.datalen = m.data
                          /\ ~g.aadfin => m.data = 0
                          /\ PolyMac(g, m)
  /\ ~g.over /\ g.tag => g.val = Tag(m)

\* A message of which nothing has come yet.
Fresh(m) == m.aad = 0 /\ m.data = 0 /\ m.way = "none" /\ m.used = {}

\* The counter has more than one value.
LEMMA CtrModIs == CtrMod \in Nat /\ CtrMod > 1
<1>1. CtrMod \in Nat \ {0} /\ MaxData \in Nat /\ MaxData <= (CtrMod - 2) * BlockLen
  BY ModesAssumption
<1>2. BlockLen \in Nat \ {0}
  BY BlockLenAssumption
<1>3. ASSUME CtrMod = 1 PROVE FALSE
  BY <1>1, <1>2, <1>3
<1> QED BY <1>1, <1>3

\* Where the stream begins, at a counter that stands at 1 behind first one.
LEMMA StreamStarts ==
  ASSUME NEW g, NEW k, NEW base, NEW lo, lo = 0 \/ lo = -1,
         g.unused = 0, g.ctr = [base |-> base, hi |-> 0, lo |-> lo + 1]
  PROVE  Placed(g, k, base, lo, 0, 0)
<1>1. g.ctr = CtrOf(base, lo, 0)
  <2>1. lo + 1 + 0 = lo + 1 /\ lo + 1 \in 0..(CtrMod - 1) /\ CtrMod \in Nat \ {0}
    BY CtrModIs
  <2>2. lo + 1 = CtrMod * 0 + (lo + 1)
    BY <2>1
  <2>3. (lo + 1) % CtrMod = lo + 1 /\ (lo + 1) \div CtrMod = 0
    BY <2>1, <2>2, DivUnique
  <2> QED BY <2>1, <2>3 DEF CtrOf
<1>2. 0 + 0 = BlockLen * 0 /\ 0 \in 0..(BlockLen - 1) /\ 0 \in Nat
  BY BlockLenAssumption
<1> QED BY <1>1, <1>2 DEF Placed

\* The first counter block of ChaCha20-Poly1305.
LEMMA PolyCounter ==
  ASSUME mode = "poly1305", NEW m
  PROVE  /\ FirstCounter(m) = [base |-> <<"cc", m.iv.id>>, hi |-> 0, lo |-> 0]
         /\ LoOf(m) = 0 /\ FirstCounter(m).base = <<"cc", m.iv.id>>
<1>1. FirstCounter(m) = [base |-> <<"cc", m.iv.id>>, hi |-> 0, lo |-> 0]
  BY DEF FirstCounter
<1> QED BY <1>1 DEF LoOf

\* _gcry_cipher_poly1305_setiv
LEMMA PolyStarts ==
  ASSUME mode = "poly1305", NEW g, IsHandle(g), NEW m, m.key = g.keyno, m.clean, Fresh(m),
         NEW y, y = Poly1305Setiv(g, m.iv).h
  PROVE  PolyWhole(y, m) /\ IsHandle(y) /\ ~y.over /\ ~y.tag /\ ~y.aadfin
<1>1. /\ IsHandle(y) /\ y.iv = TRUE /\ y.keyno = g.keyno /\ y.aadlen = 0 /\ y.datalen = 0
      /\ y.over = FALSE /\ y.tag = FALSE /\ y.aadfin = FALSE /\ y.unused = 0
      /\ y.mac = Empty /\ y.tagiv = <<"P", g.keyno, m.iv.id>>
      /\ y.ctr = [base |-> <<"cc", m.iv.id>>, hi |-> 0, lo |-> 1]
  <2> DEFINE a == <<"P", g.keyno, m.iv.id>>
             b == [base |-> <<"cc", m.iv.id>>, hi |-> 0, lo |-> 1]
  <2>1. y = [g EXCEPT !.mac = Empty, !.aadlen = 0, !.datalen = 0, !.over = FALSE,
          !.aadfin = FALSE, !.tag = FALSE, !.iv = TRUE, !.unused = 0,
          !.last = NoBlock, !.val = NoValue, !.tagiv = a, !.ctr = b]
    BY DEF Poly1305Setiv, Done, Result
  <2> HIDE DEF a, b
  <2>2. DOMAIN g = Fields
    BY DEF IsHandle
  <2>3. DOMAIN y = Fields
    BY <2>1, <2>2
  <2>4. /\ y.iv = TRUE /\ y.keyno = g.keyno /\ y.aadlen = 0 /\ y.datalen = 0
        /\ y.over = FALSE /\ y.tag = FALSE /\ y.aadfin = FALSE /\ y.unused = 0
        /\ y.mac = Empty /\ y.tagiv = a /\ y.ctr = b
    BY ONLY <2>1, <2>2 DEF Fields
  <2> QED BY <2>3, <2>4 DEF a, b, IsHandle
<1>2. FirstCounter(m).base = <<"cc", m.iv.id>> /\ LoOf(m) = 0
  BY PolyCounter
<1>3. Placed(y, m.key, <<"cc", m.iv.id>>, 0, 0, 0)
  <2> DEFINE b == <<"cc", m.iv.id>>
  <2>1. y.ctr = [base |-> b, hi |-> 0, lo |-> 0 + 1]
    BY <1>1
  <2> HIDE DEF b
  <2>2. Placed(y, m.key, b, 0, 0, 0)
    BY <2>1, <1>1, StreamStarts
  <2> QED BY <2>2 DEF b
<1>4. InStream(y, m, FirstCounter(m).base)
  <2>1. {StreamByte(m.key, FirstCounter(m).base, LoOf(m), i) : i \in 1..m.data} = {}
    BY DEF Fresh
  <2>2. Placed(y, m.key, FirstCounter(m).base, LoOf(m), m.data, 0)
    BY <1>2, <1>3 DEF Fresh
  <2> QED BY <2>1, <2>2 DEF InStream, Fresh
<1>5. PolyMac(y, m)
  <2>1. AadOf(m) = <<>>
    BY AadIs DEF AadOf, Fresh
  <2>2. y.mac = Coll(FullBlocks(AadOf(m)), Tail0(AadOf(m)))
    BY <2>1, <1>1, NoBlocks DEF Empty, Coll
  <2> QED BY <2>2, <1>1 DEF PolyMac
<1> QED BY <1>1, <1>4, <1>5 DEF PolyWhole, Fresh

\* A call that went over the limit ends all claims.
LEMMA PolyOver ==
  ASSUME NEW g, NEW m, PolyWhole(g, m), NEW y, y.iv = g.iv, y.keyno = g.keyno, y.over
  PROVE  PolyWhole(y, m)
<1>1. InStream(y, m, FirstCounter(m).base)
  BY DEF InStream, PolyWhole
<1> QED BY <1>1 DEF PolyWhole

\* The default nonce, or the one that is set.
LEMMA PolyAuto ==
  ASSUME mode = "poly1305", NEW g, IsHandle(g), NEW m, g.iv => PolyWhole(g, m),
         ~g.iv => m.key = g.keyno /\ m.iv = ZeroIv /\ m.clean /\ Fresh(m),
         NEW a, a = Poly1305AutoIv(g)
  PROVE  /\ PolyWhole(a, m) /\ IsHandle(a) /\ (g.iv => a = g)
         /\ (~g.over => ~a.over) /\ (~g.tag => ~a.tag) /\ (~g.aadfin => ~a.aadfin)
<1>1. CASE g.iv
  BY <1>1 DEF Poly1305AutoIv
<1>2. CASE ~g.iv
  <2>1. a = Poly1305Setiv(g, m.iv).h
    BY <1>2 DEF Poly1305AutoIv
  <2>2. PolyWhole(a, m) /\ IsHandle(a) /\ ~a.over /\ ~a.tag /\ ~a.aadfin
    BY <2>1, <1>2, PolyStarts
  <2> QED BY <2>2, <1>2
<1> QED BY <1>1, <1>2

\* The first data settles which way the message goes.
LEMMA PolyWay ==
  ASSUME mode = "poly1305", NEW g, NEW m, PolyWhole(g, m), NEW w \in {"encrypt", "decrypt"},
         m.way \in {"none", w}, NEW x, Turns(m, x, w)
  PROVE  PolyWhole(g, x)
<1>1. /\ CipherText(x) = CipherText(m) /\ FirstCounter(x) = FirstCounter(m)
      /\ LoOf(x) = LoOf(m) /\ AadOf(x) = AadOf(m)
  BY WaySame DEF PolyWhole, Streams
<1>2. Tag(x) = Tag(m)
  BY <1>1 DEF Tag, Turns
<1>3. InStream(g, x, FirstCounter(x).base)
  BY <1>1 DEF InStream, Turns, PolyWhole
<1>4. PolyMac(g, m) => PolyMac(g, x)
  BY <1>1 DEF PolyMac, Turns
<1> QED BY <1>2, <1>3, <1>4 DEF PolyWhole, Turns

\* _gcry_cipher_poly1305_authenticate, with a nonce set.
LEMMA PolyAadWhole ==
  ASSUME mode = "poly1305", NEW a, IsHandle(a), NEW m, PolyWhole(a, m), ~a.over, ~a.tag,
         ~a.aadfin, NEW n \in Nat, NEW x, MoreAad(m, x, n),
         NEW inp, inp = AadBytes(m.no, m.aad, n),
         NEW r, r = Poly1305Aad([a EXCEPT !.aadlen = @ + Len(inp)], inp)
  PROVE  (r.ok => PolyWhole(r.h, x)) /\ (~r.ok => PolyWhole(r.h, m))
<1> DEFINE b == [a EXCEPT !.aadlen = @ + Len(inp)]
<1>1. /\ IsHandle(b) /\ b.aadlen = a.aadlen + Len(inp) /\ Same(a, b, {"aadlen"})
  BY DEF IsHandle, Fields, Same
<1>2. IsSeq(inp) /\ Len(inp) = n
  BY AadIs
<1>3. /\ m.data = 0 /\ m.aad \in Nat /\ a.aadlen = m.aad /\ PolyMac(a, m) /\ m.clean
      /\ InStream(a, m, FirstCounter(m).base)
  BY DEF PolyWhole
<1>4. CASE Overflowed(b.aadlen)
  <2>1. r = Refused([b EXCEPT !.over = TRUE])
    BY <1>4 DEF Poly1305Aad
  <2> HIDE DEF b
  <2>2. ~r.ok /\ r.h.iv = a.iv /\ r.h.keyno = a.keyno /\ r.h.over
    BY <2>1, <1>1 DEF Refused, Result, IsHandle, Fields, Same
  <2> QED BY <2>2, PolyOver
<1>5. CASE ~Overflowed(b.aadlen)
  <2> DEFINE y == [b EXCEPT !.mac = Poly1305Update(@, inp)]
  <2>1. r = Done(y)
    BY <1>5 DEF Poly1305Aad
  <2> HIDE DEF b
  <2>2. /\ y.aadlen = b.aadlen /\ y.mac = Poly1305Update(b.mac, inp)
        /\ \A f \in Fields \ {"mac"} : y[f] = b[f]
    BY <1>1 DEF IsHandle, Fields
  <2> HIDE DEF y
  <2>3. r.ok = TRUE /\ r.h = y
    BY <2>1 DEF Done, Result
  <2>4. /\ y.iv = a.iv /\ y.keyno = a.keyno /\ y.over = a.over /\ y.tag = a.tag
        /\ y.aadfin = a.aadfin /\ y.datalen = a.datalen /\ y.tagiv = a.tagiv
        /\ y.unused = a.unused /\ y.ctr = a.ctr /\ y.last = a.last
        /\ y.mac = Poly1305Update(a.mac, inp) /\ y.aadlen = a.aadlen + n
    BY ONLY <2>2, <1>1, <1>2 DEF Same, Fields
  <2>5. FirstCounter(x) = FirstCounter(m) /\ LoOf(x) = LoOf(m)
    BY CounterSame DEF MoreAad, Streams, LoOf
  <2>6. InStream(y, x, FirstCounter(x).base)
    BY <2>4, <2>5, <1>3 DEF InStream, Placed, MoreAad
  <2>7. PolyMac(y, x)
    <3> DEFINE s == AadOf(m)
               e == <<>>
    <3>1. IsSeq(s) /\ AadOf(x) = s \o inp
      <4>1. IsSeq(AadBytes(m.no, 0, m.aad))
        BY <1>3, AadIs
      <4>2. AadBytes(m.no, 0, m.aad + n) = AadBytes(m.no, 0, m.aad) \o AadBytes(m.no, m.aad, n)
        BY <1>3, AadMore
      <4> QED BY <4>1, <4>2 DEF AadOf, MoreAad
    <3>2. a.mac = Coll(FullBlocks(s), Tail0(s)) /\ a.tagiv = <<"P", m.key, m.iv.id>>
      BY <1>3 DEF PolyMac
    <3> HIDE DEF s
    <3>3. /\ IsSeq(e) /\ IsSeq(s) /\ IsSeq(inp) /\ e \o FullBlocks(s) = FullBlocks(s)
          /\ e \o FullBlocks(s \o inp) = FullBlocks(s \o inp)
      BY <3>1, <1>2, EmptyIs, FewBytes, ConcatEmpty, ConcatIs
    <3> HIDE DEF e
    <3>4. Poly1305Update(Coll(e \o FullBlocks(s), Tail0(s)), inp)
            = Coll(e \o FullBlocks(s \o inp), Tail0(s \o inp))
      BY ONLY <3>3, PolyMore
    <3>5. y.mac = Coll(FullBlocks(AadOf(x)), Tail0(AadOf(x)))
      BY <3>1, <3>2, <3>3, <3>4, <2>4
    <3> QED BY <3>2, <3>5, <2>4 DEF PolyMac, MoreAad
  <2>8. PolyWhole(y, x)
    BY <2>4, <2>6, <2>7, <1>3 DEF PolyWhole, MoreAad
  <2> QED BY <2>3, <2>8
<1> QED BY <1>4, <1>5

\* poly1305_aad_finish
LEMMA PolyFinish ==
  ASSUME mode = "poly1305", NEW a, IsHandle(a), NEW m, PolyWhole(a, m), ~a.over,
         NEW f, f = Poly1305AadFinish(a)
  PROVE  PolyWhole(f, m) /\ Same(a, f, {"mac", "aadfin", "datalen"}) /\ f.aadfin
<1>1. CASE a.aadfin
  BY <1>1 DEF Poly1305AadFinish, Same
<1>2. CASE ~a.aadfin
  <2>1. f = [a EXCEPT !.mac = Poly1305Padding(@, a.aadlen), !.aadfin = TRUE, !.datalen = 0]
    BY <1>2 DEF Poly1305AadFinish
  <2>2. /\ IsHandle(f) /\ f.mac = Poly1305Padding(a.mac, a.aadlen) /\ f.aadfin = TRUE
        /\ f.datalen = 0
        /\ \A k \in Fields \ {"mac", "aadfin", "datalen"} : f[k] = a[k]
    BY <2>1 DEF IsHandle, Fields
  <2>3. Same(a, f, {"mac", "aadfin", "datalen"})
    BY <2>2 DEF Same
  <2>4. /\ f.iv = a.iv /\ f.keyno = a.keyno /\ f.over = a.over /\ f.tag = a.tag
        /\ f.tagiv = a.tagiv /\ f.aadlen = a.aadlen /\ f.val = a.val
        /\ f.unused = a.unused /\ f.ctr = a.ctr /\ f.last = a.last
    BY <2>3 DEF Same, Fields
  <2>5. InStream(f, m, FirstCounter(m).base)
    BY <2>4 DEF InStream, Placed, PolyWhole
  <2>6. ASSUME ~a.tag PROVE PolyMac(f, m) /\ m.data = 0
    <3> DEFINE s == AadOf(m)
               e == <<>>
    <3>1. IsSeq(s) /\ Len(s) = m.aad /\ m.data = 0
      BY <2>6, AadIs, <1>2 DEF AadOf, PolyWhole
    <3>2. CipherText(m) = <<>>
      BY <3>1, MadeIs, EmptyIs DEF Streams
    <3>3. /\ a.mac = Coll(FullBlocks(s), Tail0(s)) /\ a.tagiv = <<"P", m.key, m.iv.id>>
          /\ a.aadlen = m.aad
      BY <2>6, <1>2 DEF PolyWhole, PolyMac
    <3> HIDE DEF s
    <3>4. /\ IsSeq(e) /\ e \o FullBlocks(s) = FullBlocks(s) /\ e \o Blocks(s) = Blocks(s)
          /\ Blocks(s) \o e = Blocks(s)
      BY <3>1, EmptyIs, FewBytes, PaddedConcat, ConcatEmpty
    <3>5. Poly1305Padding(Coll(e \o FullBlocks(s), Tail0(s)), m.aad) = Coll(e \o Blocks(s), <<>>)
      <4> DEFINE n == m.aad
      <4>1. IsSeq(e) /\ IsSeq(s) /\ n = Len(s)
        BY <3>1, <3>4
      <4> HIDE DEF e, n
      <4>2. Poly1305Padding(Coll(e \o FullBlocks(s), Tail0(s)), n) = Coll(e \o Blocks(s), <<>>)
        BY ONLY <4>1, PolyPad
      <4> QED BY ONLY <4>2 DEF n
    <3>6. f.mac = Coll(Blocks(s), <<>>)
      BY <3>3, <3>4, <3>5, <2>2
    <3>7. f.mac = Coll(Blocks(s) \o FullBlocks(CipherText(m)), Tail0(CipherText(m)))
      BY <3>2, <3>4, <3>6, NoBlocks
    <3> QED BY <3>1, <3>3, <3>7, <2>2, <2>4 DEF PolyMac, s
  <2>7. PolyWhole(f, m)
    BY <2>2, <2>4, <2>5, <2>6 DEF PolyWhole
  <2> QED BY <2>2, <2>3, <2>7
<1> QED BY <1>1, <1>2

\* What a call that encrypts or decrypts has to do: the handle is right for the
\* message afterwards, and so is what was returned.
Returns(x, o) == x.clean => o = SubSeq(Made(x), x.data - Len(o) + 1, x.data)

\* Up to the data: the end of the AAD and the length.
PolyBegin(a, inp) == [Poly1305AadFinish(a) EXCEPT !.datalen = @ + Len(inp)]

\* What a call made of the message m, which was c before; x is m with the data.
PolyCrypts(r, m, c, x) ==
  /\ ~r.ok => PolyWhole(r.h, m) /\ PolyWhole(r.h, c)
  /\ r.ok => PolyWhole(r.h, x) /\ Returns(x, r.out)

\* _gcry_cipher_poly1305_encrypt and _gcry_cipher_poly1305_decrypt, with a nonce set.
LEMMA PolyCryptWhole ==
  ASSUME mode = "poly1305", NEW a, IsHandle(a), NEW m, PolyWhole(a, m), ~a.over, ~a.tag,
         NEW n \in Nat, NEW inp, inp = DataBytes(m.no, m.data, n), NEW enc \in BOOLEAN,
         m.way = IF enc THEN "encrypt" ELSE "decrypt",
         NEW r, r = Poly1305CryptData(PolyBegin(a, inp), inp, enc),
         NEW x, r.ok => MoreText(m, x, n, r.out), NEW c, PolyWhole(a, c)
  PROVE  PolyCrypts(r, m, c, x)
<1> USE DEF PolyCrypts
<1> DEFINE f == Poly1305AadFinish(a)
           b == [f EXCEPT !.datalen = @ + Len(inp)]
<1>1. PolyWhole(f, m) /\ Same(a, f, {"mac", "aadfin", "datalen"}) /\ f.aadfin
  BY PolyFinish
<1>2. r = Poly1305CryptData(b, inp, enc)
  BY DEF PolyBegin
<1> HIDE DEF f
<1>3. /\ IsHandle(f) /\ f.over = a.over /\ f.tag = a.tag /\ f.iv = a.iv /\ f.keyno = a.keyno
  BY <1>1 DEF Same, Fields
<1>4. /\ m.data \in Nat /\ m.aad \in Nat /\ f.datalen = m.data /\ f.aadlen = m.aad
      /\ m.key = f.keyno /\ m.clean /\ InStream(f, m, FirstCounter(m).base) /\ PolyMac(f, m)
  BY <1>1, <1>3 DEF PolyWhole
<1>5. IsSeq(inp) /\ Len(inp) = n
  BY <1>4, DataIs
<1>6. IsHandle(b) /\ Same(f, b, {"datalen"}) /\ b.datalen = m.data + n
  BY <1>3, <1>4, <1>5 DEF IsHandle, Same, Fields
<1> HIDE DEF b
<1>7. CASE Overflowed(b.datalen)
  <2> DEFINE w == [b EXCEPT !.over = TRUE]
  <2>1. r = Refused(w)
    BY <1>2, <1>7 DEF Poly1305CryptData
  <2>2. w.iv = a.iv /\ w.keyno = a.keyno /\ w.over
    BY <1>3, <1>6 DEF Same, IsHandle, Fields
  <2> HIDE DEF w
  <2>3. PolyWhole(w, m) /\ PolyWhole(w, c)
    BY <2>2, PolyOver
  <2> QED BY <2>1, <2>3 DEF Refused, Result
<1>8. CASE ~Overflowed(b.datalen)
  <2>1. r = Poly1305MacData(CtrEncrypt(b, inp, m.key), inp, enc)
    <3>1. b.keyno = m.key
      BY <1>4, <1>6 DEF Same, Fields
    <3> QED BY <3>1, <1>2, <1>8 DEF Poly1305CryptData
  <2> DEFINE base == FirstCounter(m).base
  <2>2. PICK q : Placed(f, m.key, base, 0, m.data, q)
    BY <1>3, <1>4, PolyCounter DEF InStream
  <2>3. Placed(b, m.key, base, 0, m.data, q)
    BY <2>2, <1>6 DEF Placed, Same, Fields
  <2>4. PICK y, o : /\ CtrEncrypt(b, inp, m.key) = Result(y, TRUE, o)
                    /\ GcmRan(b, m.key, base, 0, m.data, inp, Len(inp), y, o)
    <3> DEFINE d == m.data
               k == m.key
    <3>1. /\ mode # "gcm" /\ IsHandle(b) /\ IsSeq(inp) /\ 0 \in Int /\ 0 + 1 \in Nat /\ d \in Nat
          /\ Placed(b, k, base, 0, d, q)
      BY <2>3, <1>4, <1>5, <1>6
    <3> HIDE DEF d, base, k
    <3>2. \E y, o : /\ CtrEncrypt(b, inp, k) = Result(y, TRUE, o)
                    /\ GcmRan(b, k, base, 0, d, inp, Len(inp), y, o)
      BY ONLY <3>1, CtrWide
    <3> QED BY <3>2 DEF d, k
  <2> DEFINE t == IF enc THEN o ELSE inp
             z == [y EXCEPT !.mac = Poly1305Update(@, t)]
  <2>5. r.ok = TRUE /\ r.h = z /\ r.out = o
    BY <2>1, <2>4 DEF Poly1305MacData, Result
  <2>6. MoreText(m, x, n, o)
    BY <2>5
  <2>7. Same(b, y, {"ctr", "last", "unused", "dead"}) /\ IsSeq(o) /\ Len(o) = n
    BY <2>4, <1>5 DEF GcmRan
  <2>8. z.mac = Poly1305Update(y.mac, t) /\ \A k \in Fields \ {"mac"} : z[k] = y[k]
    BY <2>7 DEF Same, IsHandle, Fields
  <2> HIDE DEF z
  <2>9. /\ z.iv = f.iv /\ z.keyno = f.keyno /\ z.over = f.over /\ z.tag = f.tag
        /\ z.datalen = m.data + n /\ z.tagiv = f.tagiv /\ z.aadlen = f.aadlen
        /\ z.aadfin = f.aadfin /\ y.mac = f.mac
        /\ z.unused = y.unused /\ z.ctr = y.ctr /\ z.last = y.last
    BY ONLY <1>6, <2>7, <2>8 DEF Same, Fields
  <2>10. InStream(z, x, base) /\ TextRan(m, x, inp, n, o)
    <3>1. GcmRan(b, m.key, base, LoOf(m), m.data, inp, n, y, o)
      BY <2>4, <1>5, PolyCounter
    <3>2. /\ mode \in Streams /\ m.data \in Nat /\ n \in Nat /\ inp = DataBytes(m.no, m.data, n)
          /\ m.way \in {"encrypt", "decrypt"} /\ InStream(f, m, base) /\ m.clean
      BY <1>4 DEF Streams
    <3> HIDE DEF base
    <3> QED BY ONLY <3>1, <3>2, <2>6, <2>9, StreamMore
  <2>11. /\ x.no = m.no /\ x.key = m.key /\ x.iv = m.iv /\ x.data = m.data + n
         /\ x.aad = m.aad /\ x.clean = m.clean /\ x.way = m.way
    BY <2>6 DEF MoreText, MoreData
  <2>12. FirstCounter(x) = FirstCounter(m) /\ AadOf(x) = AadOf(m)
    BY <2>11, CounterSame DEF AadOf, Streams
  <2>13. PolyMac(z, x)
    <3> DEFINE p == Blocks(AadOf(m))
               s == CipherText(m)
    <3>1. CipherText(x) = s \o t
      BY <2>10 DEF TextRan
    <3>2. IsSeq(p) /\ IsSeq(s) /\ IsSeq(t)
      <4>1. IsSeq(AadOf(m))
        BY <1>4, AadIs DEF AadOf
      <4> QED BY <4>1, <2>7, <1>4, <1>5, PaddedConcat, MadeIs DEF Streams
    <3>3. f.mac = Coll(p \o FullBlocks(s), Tail0(s)) /\ f.tagiv = <<"P", m.key, m.iv.id>>
      BY <1>1, <1>4 DEF PolyMac
    <3> HIDE DEF p, s, t
    <3>4. Poly1305Update(Coll(p \o FullBlocks(s), Tail0(s)), t)
            = Coll(p \o FullBlocks(s \o t), Tail0(s \o t))
      BY ONLY <3>2, PolyMore
    <3>5. z.mac = Coll(Blocks(AadOf(x)) \o FullBlocks(CipherText(x)), Tail0(CipherText(x)))
      BY ONLY <3>1, <3>3, <3>4, <2>8, <2>9, <2>12 DEF p, s
    <3> QED BY <3>3, <3>5, <2>9, <2>11, <1>1 DEF PolyMac
  <2>14. PolyWhole(z, x)
    <3>1. m.data + n \in Nat
      BY <1>4
    <3>2. InStream(z, x, FirstCounter(x).base)
      BY <2>10, <2>12
    <3>3. z.iv /\ x.key = z.keyno /\ ~z.over /\ ~z.tag /\ z.aadfin
      BY <2>9, <2>11, <1>1, <1>3, <1>4 DEF PolyWhole
    <3> QED BY <3>1, <3>2, <3>3, <2>9, <2>11, <2>13, <1>4 DEF PolyWhole
  <2>15. Returns(x, o)
    BY <2>10 DEF TextRan, Returns
  <2> QED BY <2>5, <2>14, <2>15
<1> QED BY <1>7, <1>8

\* _gcry_cipher_poly1305_tag, with a nonce set.
LEMMA PolyTagWhole ==
  ASSUME mode = "poly1305", NEW a, IsHandle(a), NEW m, PolyWhole(a, m), ~a.over,
         NEW r, r = Poly1305Finish(Poly1305AadFinish(a))
  PROVE  r.ok /\ PolyWhole(r.h, m) /\ r.h.val = Tag(m)
<1> DEFINE f == Poly1305AadFinish(a)
<1>1. PolyWhole(f, m) /\ Same(a, f, {"mac", "aadfin", "datalen"}) /\ f.aadfin
  BY PolyFinish
<1>2. r = Poly1305Finish(f)
  OBVIOUS
<1> HIDE DEF f
<1>3. /\ IsHandle(f) /\ f.over = a.over
  BY <1>1 DEF Same, Fields
<1>4. CASE f.tag
  <2>1. r.ok = TRUE /\ r.h = f
    BY <1>2, <1>4 DEF Poly1305Finish, Done, Result
  <2> QED BY <2>1, <1>1, <1>3, <1>4 DEF PolyWhole
<1>5. CASE ~f.tag
  <2> DEFINE l == LengthBlock(f.aadlen, f.datalen)
             v == Poly1305Update(Poly1305Padding(f.mac, f.datalen), l)
             w == <<"poly", f.tagiv, v>>
             y == [f EXCEPT !.tag = TRUE, !.mac = v, !.val = w]
  <2>1. r.ok = TRUE /\ r.h = y
    BY <1>2, <1>5 DEF Poly1305Finish, Poly1305TagFrom, Done, Result
  <2>2. /\ y.iv = f.iv /\ y.keyno = f.keyno /\ y.over = f.over /\ y.tag = TRUE /\ y.val = w
    <3> HIDE DEF v, w
    <3> QED BY <1>3 DEF IsHandle, Fields
  <2> HIDE DEF y
  <2> DEFINE p == Blocks(AadOf(m))
             s == CipherText(m)
             u == p \o Blocks(s)
  <2>3. /\ m.data \in Nat /\ m.aad \in Nat /\ f.aadlen = m.aad /\ f.datalen = m.data
        /\ PolyMac(f, m)
    BY <1>1, <1>3, <1>5 DEF PolyWhole
  <2>4. IsSeq(p) /\ IsSeq(s) /\ Len(s) = m.data
    <3>1. IsSeq(AadOf(m))
      BY <2>3, AadIs DEF AadOf
    <3> QED BY <3>1, <2>3, PaddedConcat, MadeIs DEF Streams
  <2>5. f.mac = Coll(p \o FullBlocks(s), Tail0(s)) /\ f.tagiv = <<"P", m.key, m.iv.id>>
    BY <2>3, <1>1 DEF PolyMac
  <2>6. Poly1305Padding(f.mac, f.datalen) = Coll(u, <<>>)
    <3> DEFINE n == f.datalen
    <3>1. IsSeq(p) /\ IsSeq(s) /\ n = Len(s)
      BY <2>3, <2>4
    <3> HIDE DEF p, s, n
    <3>2. Poly1305Padding(Coll(p \o FullBlocks(s), Tail0(s)), n) = Coll(p \o Blocks(s), <<>>)
      BY ONLY <3>1, PolyPad
    <3> QED BY <3>2, <2>5 DEF n
  <2>7. v = Coll(u \o <<l>>, <<>>)
    <3> DEFINE e == <<>>
    <3>1. IsSeq(l) /\ Len(l) = BlockLen /\ FullBlocks(l) = <<l>> /\ Tail0(l) = e
      <4>1. IsSeq(l) /\ Len(l) = BlockLen /\ Blocks(l) = <<l>>
        BY LengthIs, SeqFcn, BlockLenAssumption DEF LengthBlock
      <4> HIDE DEF l
      <4> QED BY <4>1, WholeBlocks, FewBytes DEF Blocks
    <3>2. IsSeq(u) /\ IsSeq(e) /\ Len(e) < BlockLen /\ e \o l = l
      <4>1. IsSeq(Blocks(s))
        BY <2>4, PaddedConcat
      <4> QED BY <4>1, <2>4, <3>1, ConcatIs, EmptyIs, ConcatEmpty, BlockLenAssumption
    <3> HIDE DEF u, e, l
    <3>3. Poly1305Update(Coll(u, e), l) = Coll(u \o FullBlocks(e \o l), Tail0(e \o l))
      BY ONLY <3>1, <3>2, PolyIs
    <3> QED BY <3>1, <3>2, <3>3, <2>6 DEF e, v
  <2>8. Tag(m) = <<"poly", <<"P", m.key, m.iv.id>>, Coll(u \o <<LengthBlock(m.aad, m.data)>>, <<>>)>>
    <3> HIDE DEF p, s, u
    <3>1. Tag(m) = <<"poly", <<"P", m.key, m.iv.id>>,
                     [hash |-> Blocks(AadBytes(m.no, 0, m.aad)) \o Blocks(CipherText(m))
                               \o <<LengthBlock(m.aad, m.data)>>,
                      buf |-> <<>>]>>
      BY ONLY mode = "poly1305" DEF Tag, OneShot
    <3> QED BY ONLY <3>1 DEF p, s, u, AadOf, Coll
  <2>9. y.val = Tag(m)
    <3>1. l = LengthBlock(m.aad, m.data)
      BY <2>3
    <3> HIDE DEF v, u, l
    <3> QED BY ONLY <3>1, <2>2, <2>5, <2>7, <2>8 DEF w
  <2>10. InStream(y, m, FirstCounter(m).base)
    BY <2>2, <1>1 DEF InStream, PolyWhole
  <2>11. PolyWhole(y, m)
    BY <2>2, <2>9, <2>10, <1>1 DEF PolyWhole
  <2> QED BY <2>1, <2>9, <2>11
<1> QED BY <1>4, <1>5

-----------------------------------------------------------------------------
(* CCM *)

\* The collector c of do_cbc_mac has taken in the blocks p and the bytes s; a full
\* last block may still wait in its buffer.
Holds(c, p, s) ==
  \E x, b : /\ c = Coll(x, b) /\ IsSeq(x) /\ IsSeq(b) /\ Len(b) <= BlockLen
            /\ x \o FullBlocks(b) = p \o FullBlocks(s) /\ Tail0(b) = Tail0(s)

\* The last bytes of a part, padded.
CbcEnd(c, t) == CbcMac(c, t, TRUE)
Ends(c, p, s, t) == CbcEnd(c, t) = Coll(p \o Blocks(s \o t), <<>>)

\* do_cbc_mac: more bytes, or the padding at the end.
LEMMA CbcMore ==
  ASSUME NEW c, NEW p, IsSeq(p), NEW s, IsSeq(s), Holds(c, p, s), NEW t, IsSeq(t)
  PROVE  /\ Holds(CbcMac(c, t, FALSE), p, s \o t)
         /\ Ends(c, p, s, t)
<1>1. PICK x, b : /\ c = Coll(x, b) /\ IsSeq(x) /\ IsSeq(b) /\ Len(b) <= BlockLen
                  /\ x \o FullBlocks(b) = p \o FullBlocks(s) /\ Tail0(b) = Tail0(s)
  BY DEF Holds
<1> DEFINE f == FullBlocks(s)
           v == Tail0(s) \o t
           e == FullBlocks(b)
<1>2. IsSeq(f) /\ IsSeq(Tail0(s)) /\ IsSeq(e)
  BY <1>1, FewBytes
<1>3. IsSeq(v)
  BY <1>2, ConcatIs
<1>4. IsSeq(FullBlocks(v)) /\ IsSeq(Blocks(v))
  BY <1>3, FewBytes, PaddedConcat
<1>5. /\ FullBlocks(s \o t) = f \o FullBlocks(v) /\ Tail0(s \o t) = Tail0(v)
      /\ Blocks(s \o t) = f \o Blocks(v)
  BY BlocksConcat, PaddedConcat
<1>6. /\ FullBlocks(b \o t) = e \o FullBlocks(v) /\ Tail0(b \o t) = Tail0(v)
      /\ Blocks(b \o t) = e \o Blocks(v)
  <2>1. IsSeq(b) /\ IsSeq(t) /\ Tail0(b) \o t = v
    BY <1>1
  <2>2. /\ FullBlocks(b \o t) = FullBlocks(b) \o FullBlocks(Tail0(b) \o t)
        /\ Tail0(b \o t) = Tail0(Tail0(b) \o t)
        /\ Blocks(b \o t) = FullBlocks(b) \o Blocks(Tail0(b) \o t)
    BY ONLY <2>1, BlocksConcat, PaddedConcat
  <2> HIDE DEF v
  <2> QED BY ONLY <2>1, <2>2
<1>7. ASSUME NEW u, IsSeq(u) PROVE x \o (e \o u) = p \o (f \o u)
  <2>1. x \o e = p \o f
    BY <1>1
  <2>2. /\ IsSeq(x) /\ IsSeq(e) /\ IsSeq(u)
    BY <1>1, <1>2, <1>7
  <2>3. IsSeq(p) /\ IsSeq(f) /\ IsSeq(u)
    BY <1>1, <1>2, <1>7
  <2> HIDE DEF e, f
  <2>4. (x \o e) \o u = x \o (e \o u)
    BY ONLY <2>2, ConcatAssoc
  <2>5. (p \o f) \o u = p \o (f \o u)
    BY ONLY <2>3, ConcatAssoc
  <2> QED BY ONLY <2>1, <2>4, <2>5
<1>8. /\ x \o FullBlocks(b \o t) = p \o FullBlocks(s \o t)
      /\ x \o Blocks(b \o t) = p \o Blocks(s \o t)
  <2> HIDE DEF e, f, v
  <2> QED BY <1>4, <1>5, <1>6, <1>7
<1> HIDE DEF e, f, v
<1>9. IsSeq(x) /\ IsSeq(b) /\ IsSeq(t) /\ Len(b) <= BlockLen /\ TRUE \in BOOLEAN /\ FALSE \in BOOLEAN
  BY <1>1
<1>10. PICK y, z : /\ Collect(Coll(x, b), t, FALSE, TRUE) = Coll(y, z)
                   /\ Collected(x, b \o t, FALSE, TRUE, y, z)
  BY ONLY <1>9, CollectIs
<1>11. PICK yy, zz : /\ Collect(Coll(x, b), t, TRUE, TRUE) = Coll(yy, zz)
                     /\ Collected(x, b \o t, TRUE, TRUE, yy, zz)
  BY ONLY <1>9, CollectIs
<1>12. Holds(CbcMac(c, t, FALSE), p, s \o t)
  <2>1. CbcMac(c, t, FALSE) = Coll(y, z)
    BY <1>1, <1>10 DEF CbcMac
  <2>2. /\ IsSeq(y) /\ IsSeq(z) /\ Len(z) <= BlockLen
        /\ y \o FullBlocks(z) = p \o FullBlocks(s \o t) /\ Tail0(z) = Tail0(s \o t)
    BY <1>5, <1>6, <1>8, <1>10 DEF Collected
  <2> QED BY ONLY <2>1, <2>2 DEF Holds
<1>13. CbcEnd(c, t) = Coll(p \o Blocks(s \o t), <<>>)
  BY <1>1, <1>8, <1>11 DEF CbcEnd, CbcMac, Collected
<1> QED BY <1>12, <1>13 DEF Ends

\* A collector with an empty buffer has taken in its blocks.
LEMMA HoldsAll ==
  ASSUME NEW p, IsSeq(p)
  PROVE  Holds(Coll(p, <<>>), p, <<>>)
<1>1. IsSeq(<<>>) /\ Len(<<>>) <= BlockLen /\ p \o FullBlocks(<<>>) = p \o FullBlocks(<<>>)
  BY EmptyIs, BlockLenAssumption
<1> QED BY <1>1 DEF Holds

\* Whole blocks behind which nothing came yet.
LEMMA HoldsWhole ==
  ASSUME NEW c, NEW s, IsSeq(s), Holds(c, <<>>, s), Tail0(s) = <<>>
  PROVE  Holds(c, Blocks(s), <<>>)
<1>1. PICK x, b : /\ c = Coll(x, b) /\ IsSeq(x) /\ IsSeq(b) /\ Len(b) <= BlockLen
                  /\ x \o FullBlocks(b) = <<>> \o FullBlocks(s) /\ Tail0(b) = Tail0(s)
  BY DEF Holds
<1>2. Blocks(s) = FullBlocks(s) /\ IsSeq(FullBlocks(s))
  BY WholeBlocks, FewBytes
<1>3. /\ <<>> \o FullBlocks(s) = FullBlocks(s) /\ FullBlocks(s) \o <<>> = FullBlocks(s)
  BY <1>2, ConcatEmpty
<1>4. x \o FullBlocks(b) = Blocks(s) \o FullBlocks(<<>>) /\ Tail0(b) = Tail0(<<>>)
  BY <1>1, <1>2, <1>3, NoBlocks
<1> QED BY <1>1, <1>4 DEF Holds

\* The first block and the length of the AAD, for the lengths announced.
CcmHead(m, d, a) == CcmB0(<<"ccm", m.iv.id>>, d, a, m.taglen) \o CcmAadHeader(a)

\* Both are bytes, and they are whole blocks if there is no AAD.
LEMMA CcmHeadIs ==
  ASSUME NEW m, NEW d, NEW a \in Nat
  PROVE  /\ IsSeq(CcmB0(<<"ccm", m.iv.id>>, d, a, m.taglen)) /\ IsSeq(CcmAadHeader(a))
         /\ IsSeq(CcmHead(m, d, a)) /\ (a = 0 => Tail0(CcmHead(m, d, a)) = <<>>)
<1> DEFINE b == CcmB0(<<"ccm", m.iv.id>>, d, a, m.taglen)
           t == CcmAadHeader(a)
<1>1. IsSeq(b) /\ Len(b) = BlockLen
  <2> DEFINE x == <<"b0", <<"ccm", m.iv.id>>, d, a > 0, m.taglen>>
  <2>1. b = [i \in 1..BlockLen |-> x]
    BY DEF CcmB0
  <2> HIDE DEF b, x
  <2> QED BY <2>1, SeqFcn, BlockLenAssumption
<1>2. IsSeq(t) /\ (a = 0 => t = <<>>)
  <2>1. CASE a = 0
    BY <2>1, EmptyIs DEF CcmAadHeader
  <2>2. CASE a # 0
    <3>1. t = [i \in 1..2 |-> <<"alen", a, i>>] /\ 2 \in Nat
      BY <2>2 DEF CcmAadHeader
    <3> HIDE DEF t
    <3> QED BY <3>1, <2>2, SeqFcn
  <2> QED BY <2>1, <2>2
<1>3. Tail0(b) = <<>>
  BY <1>1, FewBytes
<1> HIDE DEF b, t
<1> QED BY <1>1, <1>2, <1>3, ConcatIs, ConcatEmpty DEF CcmHead, b, t

\* What was put through the CBC-MAC: the head and the AAD, padded when the last
\* byte announced has come, and then the plaintext.
CcmPre(g, m) == CcmHead(m, g.datalen + m.data, g.aadlen + m.aad) \o AadOf(m)
CcmMac(g, m) ==
  /\ g.tagiv = <<"E", m.key, FirstCounter(m)>>
  /\ IF g.aadlen > 0 THEN Holds(g.mac, <<>>, CcmPre(g, m))
     ELSE Holds(g.mac, Blocks(CcmPre(g, m)), PlainText(m))

\* The handle g works on the message m, whose nonce came after the key.
CcmWhole(g, m) ==
  /\ g.iv /\ m.key = g.keyno /\ ~g.over
  /\ m.data \in Nat /\ m.aad \in Nat /\ g.datalen \in Nat /\ g.aadlen \in Nat
  /\ m.way \in {"none", "encrypt", "decrypt"} /\ (m.way = "none" => m.data = 0)
  /\ g.aadlen > 0 => m.data = 0
  /\ ~g.lengths => /\ ~g.tag /\ g.unused = 0 /\ Fresh(m)
                   /\ g.ctr = FirstCounter(m)
  /\ g.lengths => /\ InStream(g, m, FirstCounter(m).base)
                  /\ ~g.tag /\ m.clean => CcmMac(g, m)
                  /\ g.tag /\ m.clean => g.val = Tag(m)

\* The first counter block of CCM.
LEMMA CcmCounter ==
  ASSUME mode = "ccm", NEW m
  PROVE  /\ FirstCounter(m) = [base |-> <<"ccm", m.iv.id>>, hi |-> 0, lo |-> 0]
         /\ LoOf(m) = 0 /\ FirstCounter(m).base = <<"ccm", m.iv.id>>
<1>1. FirstCounter(m) = [base |-> <<"ccm", m.iv.id>>, hi |-> 0, lo |-> 0]
  BY DEF FirstCounter
<1> QED BY <1>1 DEF LoOf

\* _gcry_cipher_ccm_set_nonce
LEMMA CcmStarts ==
  ASSUME mode = "ccm", NEW g, IsHandle(g), NEW m, m.key = g.keyno, Fresh(m),
         NEW y, y = CcmSetNonce(g, m.iv).h
  PROVE  CcmWhole(y, m)
<1> DEFINE b == [base |-> <<"ccm", m.iv.id>>, hi |-> 0, lo |-> 0]
<1>1. y = [Opened EXCEPT !.fips = g.fips, !.keyno = g.keyno, !.key = g.key, !.iv = TRUE, !.ctr = b]
  BY DEF CcmSetNonce, Done, Result
<1> HIDE DEF b
<1>2. /\ y.iv = TRUE /\ y.keyno = g.keyno /\ y.over = FALSE /\ y.datalen = 0 /\ y.aadlen = 0
      /\ y.lengths = FALSE /\ y.tag = FALSE /\ y.unused = 0 /\ y.ctr = b
  BY <1>1 DEF Opened
<1>3. FirstCounter(m) = b
  BY CcmCounter DEF b
<1> QED BY <1>2, <1>3 DEF CcmWhole, Fresh

\* _gcry_cipher_ccm_set_lengths
LEMMA CcmLengths ==
  ASSUME mode = "ccm", NEW g, IsHandle(g), NEW m, CcmWhole(g, m), NEW d \in Nat, NEW a \in Nat,
         NEW r, r = CcmSetLengths(g, d, a, m.taglen), r.ok
  PROVE  CcmWhole(r.h, m)
<1>1. ~(~g.iv \/ g.tag \/ g.lengths)
  BY DEF CcmSetLengths, Refused, Result
<1> DEFINE c == CbcMac(CbcMac(Empty, CcmB0(g.ctr.base, d, a, m.taglen), FALSE),
                       CcmAadHeader(a), FALSE)
           e == <<"E", g.keyno, g.ctr>>
           y == [g EXCEPT !.authlen = m.taglen, !.datalen = d, !.aadlen = a, !.mac = c,
                          !.tagiv = e, !.ctr.lo = @ + 1, !.lengths = TRUE]
<1>2. r.h = y
  BY <1>1 DEF CcmSetLengths, Done, Result
<1>3. /\ g.iv /\ m.key = g.keyno /\ ~g.over /\ Fresh(m) /\ m.way = "none" /\ m.data = 0 /\ m.aad = 0
      /\ ~g.tag /\ g.unused = 0 /\ g.ctr = FirstCounter(m)
  BY <1>1 DEF CcmWhole, Fresh
<1>4. /\ y.iv = g.iv /\ y.keyno = g.keyno /\ y.over = g.over /\ y.tag = g.tag
      /\ y.unused = g.unused /\ y.datalen = d /\ y.aadlen = a /\ y.mac = c /\ y.tagiv = e
      /\ y.ctr = [g.ctr EXCEPT !.lo = @ + 1] /\ y.lengths = TRUE
  <2> HIDE DEF c, e
  <2>1. DOMAIN g = Fields
    BY DEF IsHandle
  <2> QED BY ONLY <2>1 DEF Fields
<1> HIDE DEF y
<1>5. InStream(y, m, FirstCounter(m).base)
  <2> DEFINE b == <<"ccm", m.iv.id>>
  <2>1. g.ctr = [base |-> b, hi |-> 0, lo |-> 0] /\ LoOf(m) = 0 /\ FirstCounter(m).base = b
    BY <1>3, CcmCounter
  <2> HIDE DEF b
  <2>2. y.ctr = [base |-> b, hi |-> 0, lo |-> 0 + 1]
    BY <2>1, <1>4
  <2>3. Placed(y, m.key, b, 0, 0, 0)
    BY <2>2, <1>3, <1>4, StreamStarts
  <2>4. {StreamByte(m.key, FirstCounter(m).base, LoOf(m), i) : i \in 1..m.data} = {}
    BY <1>3
  <2> QED BY <2>1, <2>3, <2>4, <1>3 DEF InStream, Fresh
<1>6. CcmMac(y, m)
  <2> DEFINE s == CcmB0(<<"ccm", m.iv.id>>, d, a, m.taglen)
             t == CcmAadHeader(a)
  <2>1. g.ctr.base = <<"ccm", m.iv.id>>
    BY <1>3, CcmCounter
  <2>2. c = CbcMac(CbcMac(Empty, s, FALSE), t, FALSE)
    BY <2>1
  <2>3. IsSeq(s) /\ IsSeq(t)
    BY CcmHeadIs
  <2> HIDE DEF s, t, c
  <2> DEFINE z == <<>>
  <2>4. IsSeq(z) /\ Holds(Empty, z, z) /\ z \o s = s
    <3>1. Empty = Coll(<<>>, <<>>)
      BY DEF Empty, Coll
    <3> QED BY <3>1, <2>3, EmptyIs, HoldsAll, ConcatEmpty
  <2> HIDE DEF z
  <2>5. Holds(CbcMac(Empty, s, FALSE), z, z \o s)
    BY ONLY <2>3, <2>4, CbcMore
  <2>6. Holds(CbcMac(CbcMac(Empty, s, FALSE), t, FALSE), z, s \o t)
    <3> DEFINE u == CbcMac(Empty, s, FALSE)
    <3>1. Holds(u, z, s) /\ IsSeq(z) /\ IsSeq(s) /\ IsSeq(t)
      BY <2>3, <2>4, <2>5
    <3> HIDE DEF u
    <3>2. Holds(CbcMac(u, t, FALSE), z, s \o t)
      BY ONLY <3>1, CbcMore
    <3> QED BY <3>2 DEF u
  <2>7. CcmHead(m, d, a) = s \o t
    BY DEF CcmHead, s, t
  <2>8. CcmPre(y, m) = CcmHead(m, d, a) /\ AadOf(m) = <<>>
    <3>1. y.datalen + m.data = d /\ y.aadlen + m.aad = a
      BY <1>3, <1>4
    <3>2. AadOf(m) = <<>>
      BY <1>3, AadIs, EmptyIs DEF AadOf
    <3> QED BY <3>1, <3>2, CcmHeadIs, ConcatEmpty DEF CcmPre
  <2>9. Holds(y.mac, <<>>, CcmPre(y, m))
    BY <2>2, <2>6, <2>7, <2>8, <1>4 DEF z
  <2>10. PlainText(m) = <<>>
    BY <1>3, MadeIs, EmptyIs DEF Streams
  <2>11. y.aadlen = 0 => Holds(y.mac, Blocks(CcmPre(y, m)), PlainText(m))
    <3>1. ASSUME y.aadlen = 0 PROVE Tail0(CcmPre(y, m)) = <<>> /\ IsSeq(CcmPre(y, m))
      <4>1. IsSeq(CcmHead(m, d, a)) /\ (a = 0 => Tail0(CcmHead(m, d, a)) = <<>>)
        BY CcmHeadIs
      <4> QED BY <4>1, <3>1, <2>8, <1>4
    <3> QED BY <3>1, <2>9, <2>10, HoldsWhole
  <2>12. y.tagiv = <<"E", m.key, FirstCounter(m)>>
    BY <1>3, <1>4
  <2> QED BY <2>9, <2>11, <2>12, <1>4 DEF CcmMac
<1>7. CcmWhole(y, m)
  BY <1>3, <1>4, <1>5, <1>6 DEF CcmWhole
<1> QED BY <1>2, <1>7

\* The message m with n more bytes of AAD, as a call leaves it.
AadGiven(m, x, n) ==
  /\ x.no = m.no /\ x.key = m.key /\ x.iv = m.iv /\ x.aad = m.aad + n /\ x.taglen = m.taglen
  /\ x.clean = (m.clean /\ (mode = "ccm" => m.data = 0))
  /\ x.data = m.data /\ x.way = m.way /\ x.used = m.used

\* _gcry_cipher_ccm_authenticate
LEMMA CcmAadWhole ==
  ASSUME mode = "ccm", NEW g, IsHandle(g), NEW m, CcmWhole(g, m), NEW n \in Nat,
         NEW x, AadGiven(m, x, n), NEW inp, inp = AadBytes(m.no, m.aad, n),
         NEW r, r = CcmAuthenticate(g, inp)
  PROVE  (r.ok => CcmWhole(r.h, x)) /\ (~r.ok => r.h = g)
<1>1. CASE ~g.iv \/ ~g.lengths \/ g.tag \/ Len(inp) > g.aadlen
  <2>1. r.ok = FALSE /\ r.h = g
    BY <1>1 DEF CcmAuthenticate, Refused, Result
  <2> QED BY <2>1
<1>2. CASE ~(~g.iv \/ ~g.lengths \/ g.tag \/ Len(inp) > g.aadlen)
  <2> DEFINE c == CbcMac(g.mac, inp, g.aadlen = Len(inp))
             y == [g EXCEPT !.aadlen = @ - Len(inp), !.mac = c]
  <2>1. r.ok = TRUE /\ r.h = y
    BY <1>2 DEF CcmAuthenticate, Done, Result
  <2>2. IsSeq(inp) /\ Len(inp) = n
    BY AadIs DEF CcmWhole
  <2>3. /\ y.aadlen = g.aadlen - n /\ y.mac = c
        /\ y.iv = g.iv /\ y.keyno = g.keyno /\ y.over = g.over /\ y.tag = g.tag
        /\ y.datalen = g.datalen /\ y.tagiv = g.tagiv /\ y.lengths = g.lengths
        /\ y.unused = g.unused /\ y.ctr = g.ctr /\ y.last = g.last
    <3> HIDE DEF c
    <3> QED BY <2>2 DEF IsHandle, Fields
  <2> HIDE DEF y
  <2>4. /\ g.lengths /\ ~g.tag /\ m.aad \in Nat /\ m.data \in Nat /\ g.aadlen \in Nat
        /\ g.datalen \in Nat /\ n <= g.aadlen /\ (m.clean => CcmMac(g, m))
        /\ InStream(g, m, FirstCounter(m).base) /\ (g.aadlen > 0 => m.data = 0)
    BY <2>2, <1>2 DEF CcmWhole
  <2>5. FirstCounter(x) = FirstCounter(m) /\ LoOf(x) = LoOf(m)
    BY CounterSame DEF AadGiven, Streams, LoOf
  <2>6. InStream(y, x, FirstCounter(x).base)
    BY <2>3, <2>4, <2>5 DEF InStream, Placed, AadGiven
  <2>7. ASSUME x.clean PROVE CcmMac(y, x)
    <3>1. m.clean /\ m.data = 0 /\ x.data = 0 /\ CcmMac(g, m)
      BY <2>4, <2>7 DEF AadGiven
    <3> DEFINE s == CcmPre(g, m)
               z == <<>>
    <3>2. IsSeq(s) /\ CcmPre(y, x) = s \o inp
      <4> DEFINE q == CcmHead(m, g.datalen + m.data, g.aadlen + m.aad)
                 t == AadOf(m)
      <4>1. IsSeq(q)
        <5>1. g.aadlen + m.aad \in Nat
          BY <2>4
        <5> QED BY <5>1, CcmHeadIs
      <4>2. IsSeq(t) /\ AadOf(x) = t \o inp
        <5>1. IsSeq(AadBytes(m.no, 0, m.aad))
          BY <2>4, AadIs
        <5>2. AadBytes(m.no, 0, m.aad + n) = AadBytes(m.no, 0, m.aad) \o AadBytes(m.no, m.aad, n)
          BY <2>4, AadMore
        <5> QED BY <5>1, <5>2 DEF AadOf, AadGiven
      <4>3. y.aadlen + x.aad = g.aadlen + m.aad /\ y.datalen + x.data = g.datalen + m.data
        BY <2>3, <2>4 DEF AadGiven
      <4>4. CcmHead(x, y.datalen + x.data, y.aadlen + x.aad) = q
        BY <4>3 DEF CcmHead, AadGiven
      <4>5. s = q \o t /\ CcmPre(y, x) = q \o (t \o inp)
        BY <4>2, <4>4 DEF CcmPre
      <4> HIDE DEF q, t, s
      <4>6. (q \o t) \o inp = q \o (t \o inp)
        BY <4>1, <4>2, <2>2, ConcatAssoc
      <4> QED BY <4>1, <4>2, <4>5, <4>6, ConcatIs
    <3>3. PlainText(m) = z /\ PlainText(x) = z
      BY <3>1, MadeIs, EmptyIs DEF Streams
    <3>4. IsSeq(z) /\ IsSeq(Blocks(s \o inp)) /\ z \o Blocks(s \o inp) = Blocks(s \o inp)
      BY <3>2, <2>2, EmptyIs, ConcatIs, PaddedConcat, ConcatEmpty
    <3> HIDE DEF s
    <3>5. CASE n < g.aadlen
      <4>1. c = CbcMac(g.mac, inp, FALSE)
        <5>1. g.aadlen # Len(inp)
          BY <3>5, <2>2, <2>4
        <5>2. (g.aadlen = Len(inp)) = FALSE
          BY ONLY <5>1
        <5> QED BY ONLY <5>2 DEF c
      <4>2. Holds(g.mac, z, s)
        BY <3>1, <3>5, <2>4 DEF CcmMac, s
      <4> HIDE DEF z, c
      <4>3. Holds(CbcMac(g.mac, inp, FALSE), z, s \o inp)
        BY <4>2, <3>2, <3>4, <2>2, CbcMore
      <4>4. y.aadlen > 0
        BY <3>5, <2>3, <2>4
      <4> QED BY <4>1, <4>3, <4>4, <3>1, <3>2, <2>3, <2>5 DEF CcmMac, AadGiven, z
    <3>6. CASE n = g.aadlen
      <4>1. c = CbcEnd(g.mac, inp)
        <5>1. (g.aadlen = Len(inp)) = TRUE
          BY <3>6, <2>2
        <5> QED BY ONLY <5>1 DEF c, CbcEnd
      <4>2. y.aadlen = 0
        BY <3>6, <2>3, <2>4
      <4>3. c = Coll(Blocks(s \o inp), z)
        <5>1. CASE n > 0
          <6>1. Holds(g.mac, z, s)
            BY <5>1, <3>1, <3>6, <2>4 DEF CcmMac, s
          <6> HIDE DEF z, c
          <6>2. CbcEnd(g.mac, inp) = Coll(z \o Blocks(s \o inp), <<>>)
            <7> DEFINE u == g.mac
            <7>1. Holds(u, z, s) /\ IsSeq(z) /\ IsSeq(s) /\ IsSeq(inp)
              BY <6>1, <3>2, <3>4, <2>2
            <7> HIDE DEF u
            <7>2. Ends(u, z, s, inp)
              BY ONLY <7>1, CbcMore
            <7> QED BY <7>2 DEF u, Ends
          <6> QED BY <6>2, <4>1, <3>4 DEF z
        <5>2. CASE n = 0
          <6> DEFINE p == Blocks(s)
          <6>1. Holds(g.mac, p, z)
            BY <5>2, <3>1, <3>3, <3>6 DEF CcmMac, s
          <6>2. inp = z /\ s \o inp = s /\ IsSeq(p) /\ z \o z = z /\ Blocks(z) = z /\ p \o z = p
            BY <5>2, <3>2, <2>2, EmptyIs, ConcatEmpty, PaddedConcat, NoBlocks
          <6> HIDE DEF z, c, p
          <6>3. CbcEnd(g.mac, z) = Coll(p \o Blocks(z \o z), <<>>)
            <7> DEFINE u == g.mac
            <7>1. Holds(u, p, z) /\ IsSeq(z) /\ IsSeq(p)
              BY <6>1, <6>2, <3>4
            <7> HIDE DEF u
            <7>2. Ends(u, p, z, z)
              BY ONLY <7>1, CbcMore
            <7> QED BY <7>2 DEF u, Ends
          <6> QED BY <6>2, <6>3, <4>1 DEF z, p
        <5> QED BY <5>1, <5>2
      <4>4. Holds(c, Blocks(s \o inp), z)
        BY <4>3, <3>4, HoldsAll
      <4> HIDE DEF c
      <4> QED BY <4>2, <4>4, <3>1, <3>2, <3>3, <2>3, <2>5 DEF CcmMac, AadGiven
    <3> QED BY <3>5, <3>6, <2>4
  <2>8. g.aadlen - n \in Nat /\ m.aad + n \in Nat /\ (g.aadlen - n > 0 => g.aadlen > 0)
    BY <2>4
  <2>9. CcmWhole(y, x)
    BY <2>3, <2>4, <2>6, <2>7, <2>8 DEF CcmWhole, AadGiven
  <2> QED BY <2>1, <2>9
<1> QED BY <1>1, <1>2

\* The first data settles which way the message goes.
LEMMA CcmWay ==
  ASSUME mode = "ccm", NEW g, NEW m, CcmWhole(g, m), g.lengths, NEW w \in {"encrypt", "decrypt"},
         m.way \in {"none", w}, NEW x, Turns(m, x, w), x.taglen = m.taglen
  PROVE  CcmWhole(g, x)
<1>1. /\ CipherText(x) = CipherText(m) /\ PlainText(x) = PlainText(m)
      /\ FirstCounter(x) = FirstCounter(m) /\ LoOf(x) = LoOf(m) /\ AadOf(x) = AadOf(m)
  BY WaySame DEF CcmWhole, Streams
<1>2. Tag(x) = Tag(m)
  BY <1>1 DEF Tag, Turns
<1>3. InStream(g, m, FirstCounter(m).base) => InStream(g, x, FirstCounter(x).base)
  BY <1>1 DEF InStream, Turns
<1>4. CcmPre(g, x) = CcmPre(g, m)
  BY <1>1 DEF CcmPre, CcmHead, Turns
<1>5. CcmMac(g, m) => CcmMac(g, x)
  BY <1>1, <1>4 DEF CcmMac, Turns
<1> QED BY <1>1, <1>2, <1>3, <1>5 DEF CcmWhole, Turns

\* _gcry_cipher_ccm_encrypt and _gcry_cipher_ccm_decrypt
LEMMA CcmCryptWhole ==
  ASSUME mode = "ccm", NEW g, IsHandle(g), NEW c, CcmWhole(g, c), NEW m,
         NEW way \in {"encrypt", "decrypt"}, c.way \in {"none", way}, Turns(c, m, way),
         m.taglen = c.taglen, NEW n \in Nat, NEW inp, inp = DataBytes(m.no, m.data, n),
         NEW enc, enc = (way = "encrypt"), NEW r, r = CcmCrypt(g, inp, enc),
         NEW x, r.ok => MoreText(m, x, n, r.out) /\ x.taglen = m.taglen
  PROVE  /\ ~r.ok => r.h = g
         /\ r.ok => CcmWhole(r.h, x) /\ Returns(x, r.out)
<1>1. CASE ~g.iv \/ g.tag \/ ~g.lengths \/ g.aadlen > 0 \/ Len(inp) > g.datalen
  <2>1. r.ok = FALSE /\ r.h = g
    BY <1>1 DEF CcmCrypt, Refused, Result
  <2> QED BY <2>1
<1>2. CASE ~(~g.iv \/ g.tag \/ ~g.lengths \/ g.aadlen > 0 \/ Len(inp) > g.datalen)
  <2>0. CcmWhole(g, m) /\ m.way = way
    BY <1>2, CcmWay DEF Turns
  <2>1. r = CcmMacData(CtrEncrypt(g, inp, m.key), inp, enc)
    BY <1>2, <2>0 DEF CcmCrypt, CcmWhole
  <2>2. IsSeq(inp) /\ Len(inp) = n
    BY <2>0, DataIs DEF CcmWhole
  <2>3. /\ g.iv /\ ~g.tag /\ g.lengths /\ g.aadlen = 0 /\ n <= g.datalen /\ ~g.over
        /\ m.data \in Nat /\ m.aad \in Nat /\ g.datalen \in Nat /\ m.key = g.keyno
        /\ InStream(g, m, FirstCounter(m).base) /\ (m.clean => CcmMac(g, m))
    BY <2>0, <2>2, <1>2 DEF CcmWhole
  <2> DEFINE base == FirstCounter(m).base
  <2>4. PICK q : Placed(g, m.key, base, 0, m.data, q)
    BY <2>3, CcmCounter DEF InStream
  <2>5. PICK y, o : /\ CtrEncrypt(g, inp, m.key) = Result(y, TRUE, o)
                    /\ GcmRan(g, m.key, base, 0, m.data, inp, Len(inp), y, o)
    <3> DEFINE d == m.data
               k == m.key
    <3>1. /\ mode # "gcm" /\ IsHandle(g) /\ IsSeq(inp) /\ 0 \in Int /\ 0 + 1 \in Nat /\ d \in Nat
          /\ Placed(g, k, base, 0, d, q)
      BY <2>2, <2>3, <2>4
    <3> HIDE DEF d, base, k
    <3>2. \E y, o : /\ CtrEncrypt(g, inp, k) = Result(y, TRUE, o)
                    /\ GcmRan(g, k, base, 0, d, inp, Len(inp), y, o)
      BY ONLY <3>1, CtrWide
    <3> QED BY <3>2 DEF d, k
  <2> DEFINE t == IF enc THEN inp ELSE o
             w == CbcMac(y.mac, t, FALSE)
             z == [y EXCEPT !.datalen = @ - Len(inp), !.mac = w]
  <2>6. r.ok = TRUE /\ r.h = z /\ r.out = o
    BY <2>1, <2>5 DEF CcmMacData, Result
  <2>7. MoreText(m, x, n, o) /\ x.taglen = m.taglen
    BY <2>6
  <2>8. Same(g, y, {"ctr", "last", "unused", "dead"}) /\ IsSeq(o) /\ Len(o) = n
    BY <2>5, <2>2 DEF GcmRan
  <2>9. z.mac = w /\ z.datalen = y.datalen - n /\ \A k \in Fields \ {"mac", "datalen"} : z[k] = y[k]
    <3> HIDE DEF w
    <3> QED BY <2>2, <2>8 DEF Same, IsHandle, Fields
  <2> HIDE DEF z
  <2>10. /\ z.iv = g.iv /\ z.keyno = g.keyno /\ z.over = g.over /\ z.tag = g.tag
         /\ z.datalen = g.datalen - n /\ z.tagiv = g.tagiv /\ z.aadlen = g.aadlen
         /\ z.lengths = g.lengths /\ y.mac = g.mac
         /\ z.unused = y.unused /\ z.ctr = y.ctr /\ z.last = y.last
    BY ONLY <2>8, <2>9 DEF Same, Fields
  <2>11. InStream(z, x, base) /\ (m.clean => TextRan(m, x, inp, n, o))
    <3>1. GcmRan(g, m.key, base, LoOf(m), m.data, inp, n, y, o)
      BY <2>5, <2>2, CcmCounter
    <3>2. /\ mode \in Streams /\ m.data \in Nat /\ n \in Nat /\ inp = DataBytes(m.no, m.data, n)
          /\ m.way \in {"encrypt", "decrypt"} /\ InStream(g, m, base)
      BY <2>0, <2>3 DEF Streams
    <3>3. MoreText(m, x, n, o)
      BY <2>7
    <3> HIDE DEF base
    <3> QED BY ONLY <3>1, <3>2, <3>3, <2>10, StreamMore
  <2>12. /\ x.no = m.no /\ x.key = m.key /\ x.iv = m.iv /\ x.data = m.data + n
         /\ x.aad = m.aad /\ x.clean = m.clean /\ x.way = m.way /\ x.taglen = m.taglen
    BY <2>7 DEF MoreText, MoreData
  <2>13. FirstCounter(x) = FirstCounter(m) /\ AadOf(x) = AadOf(m)
    BY <2>12, CounterSame DEF AadOf, Streams
  <2>14. CcmPre(z, x) = CcmPre(g, m)
    <3>1. z.datalen + x.data = g.datalen + m.data /\ z.aadlen + x.aad = g.aadlen + m.aad
      BY <2>3, <2>10, <2>12
    <3> QED BY <3>1, <2>12, <2>13 DEF CcmPre, CcmHead
  <2>15. ASSUME x.clean PROVE CcmMac(z, x)
    <3> DEFINE p == Blocks(CcmPre(g, m))
               s == PlainText(m)
               u == g.mac
    <3>1. PlainText(x) = s \o t
      <4>1. TextRan(m, x, inp, n, o) /\ (enc <=> m.way = "encrypt")
        BY <2>0, <2>11, <2>12, <2>15
      <4> QED BY <4>1 DEF TextRan
    <3>2. Holds(u, p, s) /\ IsSeq(p) /\ IsSeq(s) /\ IsSeq(t)
      <4>1. Holds(u, p, s)
        BY <2>3, <2>12, <2>15 DEF CcmMac
      <4>2. IsSeq(CcmPre(g, m))
        <5> DEFINE a == g.aadlen + m.aad
        <5>1. a \in Nat
          BY <2>3
        <5> HIDE DEF a
        <5>2. IsSeq(CcmHead(m, g.datalen + m.data, a))
          BY <5>1, CcmHeadIs
        <5>3. IsSeq(AadOf(m))
          BY <2>3, AadIs DEF AadOf
        <5> QED BY <5>2, <5>3, ConcatIs DEF CcmPre, a
      <4> QED BY <4>1, <4>2, <2>2, <2>3, <2>8, PaddedConcat, MadeIs DEF Streams
    <3>3. w = CbcMac(u, t, FALSE)
      BY <2>10
    <3> HIDE DEF p, s, u, t, w
    <3>4. Holds(CbcMac(u, t, FALSE), p, s \o t)
      BY ONLY <3>2, CbcMore
    <3>5. Holds(z.mac, Blocks(CcmPre(z, x)), PlainText(x))
      BY <3>1, <3>3, <3>4, <2>9, <2>14 DEF p
    <3> QED BY <3>5, <2>3, <2>10, <2>12, <2>13, <2>15 DEF CcmMac
  <2>16. CcmWhole(z, x)
    <3>1. m.data + n \in Nat /\ g.datalen - n \in Nat
      BY <2>3
    <3>2. InStream(z, x, FirstCounter(x).base)
      BY <2>11, <2>13
    <3>3. z.iv /\ x.key = z.keyno /\ ~z.over /\ ~z.tag /\ z.lengths /\ z.aadlen = 0
      BY <2>3, <2>10, <2>12
    <3> QED BY <3>1, <3>2, <3>3, <2>0, <2>3, <2>10, <2>12, <2>15 DEF CcmWhole
  <2>17. Returns(x, o)
    BY <2>11, <2>12 DEF TextRan, Returns
  <2> QED BY <2>6, <2>16, <2>17
<1> QED BY <1>1, <1>2

\* _gcry_cipher_ccm_tag
LEMMA CcmTagWhole ==
  ASSUME mode = "ccm", NEW g, IsHandle(g), NEW m, CcmWhole(g, m), NEW r, r = CcmTag(g, m.taglen)
  PROVE  CcmWhole(r.h, m) /\ (r.ok /\ m.clean => r.h.val = Tag(m))
<1>1. CASE g.authlen # m.taglen \/ ~g.iv \/ ~g.lengths \/ g.aadlen > 0 \/ g.datalen > 0
  <2>1. r.ok = FALSE /\ r.h = g
    BY <1>1 DEF CcmTag, Refused, Result
  <2> QED BY <2>1
<1>2. CASE ~(g.authlen # m.taglen \/ ~g.iv \/ ~g.lengths \/ g.aadlen > 0 \/ g.datalen > 0)
  <2>1. CASE g.tag
    <3>1. r.ok = TRUE /\ r.h = g
      BY <2>1, <1>2 DEF CcmTag, Done, Result
    <3> QED BY <3>1, <2>1, <1>2 DEF CcmWhole
  <2>2. CASE ~g.tag
    <3> DEFINE v == CbcEnd(g.mac, <<>>)
               w == <<"ccm", g.keyno, v.hash, g.tagiv>>
               y == [g EXCEPT !.mac = v, !.tag = TRUE, !.ctr = NoCtr, !.tagiv = NoValue, !.val = w]
    <3>1. r.h = y
      BY <2>2, <1>2 DEF CcmTag, CcmTagFrom, Done, Result, CbcEnd
    <3>2. /\ y.iv = g.iv /\ y.keyno = g.keyno /\ y.over = g.over /\ y.tag = TRUE /\ y.val = w
          /\ y.datalen = g.datalen /\ y.aadlen = g.aadlen /\ y.lengths = g.lengths
      <4> HIDE DEF v, w
      <4> QED BY DEF IsHandle, Fields
    <3> HIDE DEF y
    <3>3. /\ g.aadlen = 0 /\ g.datalen = 0 /\ g.lengths /\ m.data \in Nat /\ m.aad \in Nat
          /\ InStream(g, m, FirstCounter(m).base) /\ (m.clean => CcmMac(g, m)) /\ m.key = g.keyno
      BY <2>2, <1>2 DEF CcmWhole
    <3>4. ASSUME m.clean PROVE y.val = Tag(m)
      <4> DEFINE p == Blocks(CcmPre(g, m))
                 s == PlainText(m)
                 u == g.mac
                 e == <<>>
      <4>1. Holds(u, p, s) /\ g.tagiv = <<"E", m.key, FirstCounter(m)>>
        BY <3>3, <3>4 DEF CcmMac
      <4>2. IsSeq(p) /\ IsSeq(s) /\ IsSeq(e) /\ s \o e = s
        <5>1. IsSeq(CcmPre(g, m))
          <6> DEFINE a == g.aadlen + m.aad
          <6>1. a \in Nat
            BY <3>3
          <6> HIDE DEF a
          <6>2. IsSeq(CcmHead(m, g.datalen + m.data, a))
            BY <6>1, CcmHeadIs
          <6>3. IsSeq(AadOf(m))
            BY <3>3, AadIs DEF AadOf
          <6> QED BY <6>2, <6>3, ConcatIs DEF CcmPre, a
        <5> QED BY <5>1, <3>3, PaddedConcat, MadeIs, EmptyIs, ConcatEmpty DEF Streams
      <4>3. v = CbcEnd(u, e)
        OBVIOUS
      <4>4. CcmPre(g, m) = CcmB0(<<"ccm", m.iv.id>>, m.data, m.aad, m.taglen)
                           \o CcmAadHeader(m.aad) \o AadBytes(m.no, 0, m.aad)
        <5>1. g.datalen + m.data = m.data /\ g.aadlen + m.aad = m.aad
          BY <3>3
        <5> QED BY <5>1 DEF CcmPre, CcmHead, AadOf
      <4>5. Tag(m) = <<"ccm", m.key, p \o Blocks(s), <<"E", m.key, FirstCounter(m)>> >>
        <5> HIDE DEF s
        <5>1. Tag(m) = <<"ccm", m.key,
               Blocks(CcmB0(<<"ccm", m.iv.id>>, m.data, m.aad, m.taglen)
                      \o CcmAadHeader(m.aad) \o AadBytes(m.no, 0, m.aad)) \o Blocks(PlainText(m)),
               <<"E", m.key, FirstCounter(m)>> >>
          BY ONLY mode = "ccm" DEF Tag, OneShot
        <5> QED BY ONLY <5>1, <4>4 DEF s
      <4> HIDE DEF p, s, u, e, v
      <4>6. Ends(u, p, s, e)
        BY ONLY <4>1, <4>2, CbcMore
      <4>7. v = Coll(p \o Blocks(s), <<>>)
        BY <4>2, <4>3, <4>6 DEF Ends
      <4>8. v.hash = p \o Blocks(s)
        BY ONLY <4>7 DEF Coll
      <4> QED BY ONLY <4>1, <4>5, <4>8, <3>2, <3>3 DEF w
    <3>5. InStream(y, m, FirstCounter(m).base)
      BY <3>2, <3>3 DEF InStream
    <3>6. CcmWhole(y, m)
      BY <3>2, <3>3, <3>4, <3>5 DEF CcmWhole
    <3> QED BY <3>1, <3>4, <3>6
  <2> QED BY <2>1, <2>2
<1> QED BY <1>1, <1>2

-----------------------------------------------------------------------------
(* EAX *)

\* s is q blocks a and at least one and at most BlockLen bytes b more.
Cut(s, a, b, q) ==
  /\ IsSeq(a) /\ IsSeq(b) /\ q \in Nat /\ Len(a) = BlockLen * q
  /\ Len(b) \in 1..BlockLen /\ s = a \o b

\* The collector c of a CMAC has taken in the bytes s; the last block, full or not,
\* waits in its buffer.
Lagged(c, s) == \E a, b, q : Cut(s, a, b, q) /\ c = Coll(FullBlocks(a), b)

\* A sequence is cut in one way only.
LEMMA CutIs ==
  ASSUME NEW s, NEW a, NEW b, NEW q, Cut(s, a, b, q)
  PROVE  /\ IsSeq(s) /\ Len(s) = BlockLen * q + Len(b) /\ Len(s) \in Nat \ {0}
         /\ (Len(s) - 1) \div BlockLen = q
         /\ First(s, q * BlockLen) = a /\ Behind(s, q * BlockLen) = b
<1>1. /\ IsSeq(a) /\ IsSeq(b) /\ q \in Nat /\ Len(a) = BlockLen * q /\ Len(b) \in 1..BlockLen
      /\ s = a \o b /\ BlockLen \in Nat \ {0}
  BY BlockLenAssumption DEF Cut
<1>2. BlockLen * q \in Nat /\ q * BlockLen = BlockLen * q
  BY <1>1
<1>3. /\ IsSeq(s) /\ Len(s) = BlockLen * q + Len(b)
      /\ \A i \in 1..Len(a) : s[i] = a[i]
      /\ \A i \in 1..Len(b) : s[BlockLen * q + i] = b[i]
  <2>1. /\ IsSeq(a \o b) /\ Len(a \o b) = Len(a) + Len(b)
        /\ \A i \in 1..(Len(a) + Len(b)) :
             (a \o b)[i] = IF i <= Len(a) THEN a[i] ELSE b[i - Len(a)]
    BY <1>1, ConcatIs
  <2> DEFINE la == Len(a)
             lb == Len(b)
  <2>2. la \in Nat /\ lb \in Nat /\ la = BlockLen * q
    BY <1>1, <1>2, IsSeqLen
  <2>3. /\ IsSeq(s) /\ Len(s) = la + lb
        /\ \A i \in 1..(la + lb) : s[i] = IF i <= la THEN a[i] ELSE b[i - la]
    BY <2>1, <1>1
  <2> HIDE DEF la, lb
  <2>4. /\ \A i \in 1..la : s[i] = a[i]
        /\ \A i \in 1..lb : s[la + i] = b[i]
    BY ONLY <2>2, <2>3
  <2> QED BY <2>2, <2>3, <2>4 DEF la, lb
<1> DEFINE k == BlockLen * q
<1>4. Len(s) - 1 = k + (Len(b) - 1) /\ Len(b) - 1 \in 0..(BlockLen - 1) /\ Len(s) \in Nat \ {0}
      /\ Len(s) - 1 \in Nat /\ k \in 0..Len(s) /\ Len(s) - k = Len(b)
  <2> HIDE DEF k
  <2>1. k \in Nat /\ Len(s) = k + Len(b) /\ Len(b) \in 1..BlockLen /\ BlockLen \in Nat
    BY <1>1, <1>2, <1>3 DEF k
  <2> QED BY ONLY <2>1
<1>5. (Len(s) - 1) \div BlockLen = q
  BY <1>1, <1>4, DivUnique
<1>6. /\ IsSeq(First(s, k)) /\ Len(First(s, k)) = k
      /\ \A i \in 1..k : First(s, k)[i] = s[i]
      /\ IsSeq(Behind(s, k)) /\ Len(Behind(s, k)) = Len(b)
      /\ \A i \in 1..Len(b) : Behind(s, k)[i] = s[k + i]
  <2> HIDE DEF k
  <2>1. IsSeq(s) /\ k \in 0..Len(s)
    BY <1>3, <1>4
  <2>2. /\ IsSeq(First(s, k)) /\ Len(First(s, k)) = k
        /\ \A i \in 1..k : First(s, k)[i] = s[i]
        /\ IsSeq(Behind(s, k)) /\ Len(Behind(s, k)) = Len(s) - k
        /\ \A i \in 1..(Len(s) - k) : Behind(s, k)[i] = s[k + i]
    BY ONLY <2>1, FirstIs
  <2>3. Len(s) - k = Len(b)
    BY <1>4
  <2> QED BY ONLY <2>2, <2>3
<1>7. First(s, k) = a
  <2>1. \A i \in 1..k : First(s, k)[i] = a[i]
    BY <1>1, <1>3, <1>6
  <2> QED BY <2>1, <1>1, <1>6, SeqSame
<1>8. Behind(s, k) = b
  <2>1. \A i \in 1..Len(b) : Behind(s, k)[i] = b[i]
    BY <1>3, <1>6
  <2> QED BY <2>1, <1>1, <1>6, SeqSame
<1> QED BY <1>2, <1>3, <1>4, <1>5, <1>7, <1>8

\* Every sequence that is not empty can be cut.
LEMMA CutSome ==
  ASSUME NEW s, IsSeq(s), Len(s) # 0, NEW q, q = (Len(s) - 1) \div BlockLen
  PROVE  Cut(s, First(s, q * BlockLen), Behind(s, q * BlockLen), q)
<1>1. Len(s) \in Nat /\ Len(s) - 1 \in Nat /\ BlockLen \in Nat \ {0}
  BY IsSeqLen, BlockLenAssumption
<1>2. PICK r \in 0..(BlockLen - 1) : q \in Nat /\ Len(s) - 1 = BlockLen * q + r
  <2> DEFINE n == Len(s) - 1
  <2>1. n \in Nat
    BY <1>1
  <2> HIDE DEF n
  <2>2. \E p \in Nat, r \in 0..(BlockLen - 1) : n = BlockLen * p + r /\ n \div BlockLen = p
    BY <2>1, <1>1, DivMod
  <2> QED BY <2>2 DEF n
<1> DEFINE k == q * BlockLen
<1>3. k = BlockLen * q /\ k \in Nat
  BY <1>1, <1>2
<1>4. k \in 0..Len(s) /\ Len(s) - k \in 1..BlockLen
  <2> HIDE DEF k
  <2>1. Len(s) - 1 = k + r
    BY <1>2, <1>3
  <2> QED BY <2>1, <1>1, <1>2, <1>3
<1>5. /\ IsSeq(First(s, k)) /\ Len(First(s, k)) = k
      /\ IsSeq(Behind(s, k)) /\ Len(Behind(s, k)) = Len(s) - k
      /\ First(s, k) \o Behind(s, k) = s
  <2> HIDE DEF k
  <2> QED BY <1>4, FirstIs
<1> QED BY <1>2, <1>3, <1>4, <1>5 DEF Cut

\* _gcry_cmac_write
LEMMA CmacMore ==
  ASSUME NEW c, NEW s, Lagged(c, s), NEW t, IsSeq(t)
  PROVE  Lagged(CmacWrite(c, t), s \o t)
<1>1. PICK a, b, q : Cut(s, a, b, q) /\ c = Coll(FullBlocks(a), b)
  BY DEF Lagged
<1>2. /\ IsSeq(a) /\ IsSeq(b) /\ q \in Nat /\ Len(a) = BlockLen * q /\ Len(b) \in 1..BlockLen
      /\ s = a \o b /\ BlockLen \in Nat \ {0}
  BY <1>1, BlockLenAssumption DEF Cut
<1> DEFINE all == b \o t
           n == (Len(all) - 1) \div BlockLen
<1>3. IsSeq(all) /\ Len(all) = Len(b) + Len(t) /\ Len(t) \in Nat
  BY <1>2, ConcatIs, IsSeqLen
<1>4. s \o t = a \o all
  <2>1. (a \o b) \o t = a \o (b \o t)
    BY <1>2, ConcatAssoc
  <2> QED BY <2>1, <1>2
<1>5. CmacWrite(c, t) = IF t = <<>> \/ Len(all) <= BlockLen THEN Coll(FullBlocks(a), all)
                        ELSE Coll(FullBlocks(a) \o FullBlocks(First(all, n * BlockLen)),
                                  Behind(all, n * BlockLen))
  <2>1. c.hash = FullBlocks(a) /\ c.buf = b
    BY <1>1 DEF Coll
  <2>2. CmacWrite(c, t) = IF t = <<>> \/ Len(all) <= BlockLen THEN [c EXCEPT !.buf = all]
            ELSE [hash |-> c.hash \o FullBlocks(First(all, n * BlockLen)),
                  buf  |-> Behind(all, n * BlockLen)]
    BY <2>1 DEF CmacWrite
  <2> HIDE DEF all, n
  <2>3. [c EXCEPT !.buf = all] = Coll(FullBlocks(a), all)
    BY <1>1 DEF Coll
  <2> QED BY <2>1, <2>2, <2>3 DEF Coll
<1>6. CASE t = <<>> \/ Len(all) <= BlockLen
  <2>1. Len(all) \in 1..BlockLen
    <3>1. t = <<>> => Len(t) = 0
      BY EmptyIs
    <3> HIDE DEF all
    <3> QED BY <3>1, <1>2, <1>3, <1>6
  <2> HIDE DEF all
  <2>2. Cut(s \o t, a, all, q)
    BY <2>1, <1>2, <1>3, <1>4 DEF Cut
  <2> QED BY <2>2, <1>5, <1>6 DEF Lagged
<1>7. CASE ~(t = <<>> \/ Len(all) <= BlockLen)
  <2> DEFINE f == First(all, n * BlockLen)
             e == Behind(all, n * BlockLen)
  <2>1. Len(all) # 0
    <3> HIDE DEF all
    <3> QED BY <1>2, <1>3
  <2>2. Cut(all, f, e, n)
    <3> HIDE DEF all
    <3> QED BY <2>1, <1>3, CutSome
  <2> HIDE DEF all, n, f, e
  <2>3. /\ IsSeq(f) /\ IsSeq(e) /\ n \in Nat /\ Len(f) = BlockLen * n /\ Len(e) \in 1..BlockLen
        /\ all = f \o e
    BY <2>2 DEF Cut
  <2>4. IsSeq(a \o f) /\ Len(a \o f) = BlockLen * (q + n) /\ q + n \in Nat
    <3>1. IsSeq(a \o f) /\ Len(a \o f) = BlockLen * q + BlockLen * n
      BY <2>3, <1>2, ConcatIs
    <3>2. BlockLen * (q + n) = BlockLen * q + BlockLen * n
      BY <2>3, <1>2, MultAdd
    <3> QED BY <3>1, <3>2, <2>3, <1>2
  <2>5. s \o t = (a \o f) \o e
    <3>1. IsSeq(a) /\ IsSeq(f) /\ IsSeq(e)
      BY <2>3, <1>2
    <3>2. (a \o f) \o e = a \o (f \o e)
      BY ONLY <3>1, ConcatAssoc
    <3> QED BY <3>2, <2>3, <1>4
  <2>6. FullBlocks(a \o f) = FullBlocks(a) \o FullBlocks(f)
    <3>1. Tail0(a) = <<>>
      <4>1. Len(a) \in Nat
        BY <1>2, IsSeqLen
      <4>2. Len(a) % BlockLen = 0
        BY <4>1, <1>2, RestIs
      <4> QED BY <4>2, <1>2, FewBytes
    <3>2. Tail0(a) \o f = f
      BY <3>1, <2>3, ConcatEmpty
    <3>3. IsSeq(a) /\ IsSeq(f)
      BY <2>3, <1>2
    <3>4. FullBlocks(a \o f) = FullBlocks(a) \o FullBlocks(Tail0(a) \o f)
      BY ONLY <3>3, BlocksConcat
    <3> QED BY <3>2, <3>4
  <2>7. Cut(s \o t, a \o f, e, q + n)
    BY <2>3, <2>4, <2>5 DEF Cut
  <2>8. CmacWrite(c, t) = Coll(FullBlocks(a \o f), e)
    BY <2>6, <1>5, <1>7 DEF f, e
  <2> DEFINE u == a \o f
  <2> HIDE DEF u
  <2> QED BY <2>7, <2>8 DEF Lagged, u
<1> QED BY <1>6, <1>7

\* It begins with a block.
LEMMA CmacStarts ==
  ASSUME NEW t, IsSeq(t), Len(t) = BlockLen
  PROVE  Lagged(CmacWrite(Empty, t), t)
<1>1. <<>> \o t = t /\ IsSeq(<<>>) /\ Len(<<>>) = 0 /\ BlockLen \in Nat \ {0}
  BY ConcatEmpty, EmptyIs, BlockLenAssumption
<1>2. CmacWrite(Empty, t) = [Empty EXCEPT !.buf = t]
  BY <1>1 DEF CmacWrite, Empty
<1>3. [Empty EXCEPT !.buf = t] = Coll(FullBlocks(<<>>), t)
  BY NoBlocks DEF Empty, Coll
<1>4. Cut(t, <<>>, t, 0)
  BY <1>1 DEF Cut
<1> DEFINE z == <<>>
<1>5. Cut(t, z, t, 0) /\ CmacWrite(Empty, t) = Coll(FullBlocks(z), t)
  BY <1>2, <1>3, <1>4
<1> HIDE DEF z
<1> QED BY <1>5 DEF Lagged

\* _gcry_cmac_final
LEMMA CmacIs ==
  ASSUME NEW c, NEW s, Lagged(c, s), NEW k
  PROVE  CmacValue(k, c) = Cmac(k, s)
<1>1. PICK a, b, q : Cut(s, a, b, q) /\ c = Coll(FullBlocks(a), b)
  BY DEF Lagged
<1>2. /\ IsSeq(s) /\ Len(s) \in Nat \ {0} /\ (Len(s) - 1) \div BlockLen = q
      /\ First(s, q * BlockLen) = a /\ Behind(s, q * BlockLen) = b
  BY <1>1, CutIs
<1>3. s # <<>>
  BY <1>2, EmptyIs
<1> DEFINE mask == IF Len(b) = BlockLen THEN Append(b, <<"K1">>)
                   ELSE Append(ZeroPadded(Append(b, Byte80)), <<"K2">>)
<1>4. Cmac(k, s) = <<"cmac", k, Append(FullBlocks(a), mask)>>
  BY <1>2, <1>3 DEF Cmac
<1>5. CmacFinal(c).hash = Append(FullBlocks(a), mask)
  BY <1>1 DEF CmacFinal, Coll
<1> QED BY <1>4, <1>5 DEF CmacValue

-----------------------------------------------------------------------------
(* What a message has made of an EAX handle *)

\* What went through the three CMACs so far.
EaxMac(g, m) ==
  /\ g.tagiv = Omac(m, 0, EaxNonceBytes(m.iv))
  /\ Lagged(g.aad, EaxInit(1) \o AadOf(m))
  /\ Lagged(g.mac, EaxInit(2) \o CipherText(m))

\* The part of the key stream a message has used.
UsedAll(m) ==
  m.used = {StreamByte(m.key, FirstCounter(m).base, LoOf(m), i) : i \in 1..m.data}

\* The handle g works on the message m, whose nonce came after the key.  Nothing is
\* claimed of a message that found part of a counter block left.
EaxWhole(g, m) ==
  /\ g.iv /\ m.key = g.keyno /\ m.data \in Nat /\ m.aad \in Nat
  /\ m.way \in {"none", "encrypt", "decrypt"} /\ (m.way = "none" => m.data = 0)
  /\ m.clean =>
       /\ UsedAll(m)
       /\ ~g.tag => /\ \E q : Placed(g, m.key, FirstCounter(m).base, LoOf(m), m.data, q)
                    /\ EaxMac(g, m)
       /\ g.tag => g.val = Tag(m)

\* The blocks the CMACs begin with, and the bytes of a nonce.
LEMMA EaxBytes ==
  ASSUME NEW t, NEW iv
  PROVE  /\ IsSeq(EaxInit(t)) /\ Len(EaxInit(t)) = BlockLen /\ IsSeq(EaxNonceBytes(iv))
         /\ Lagged(CmacWrite(Empty, EaxInit(t)), EaxInit(t))
<1>1. IsSeq(EaxInit(t)) /\ Len(EaxInit(t)) = BlockLen
  BY SeqFcn, BlockLenAssumption DEF EaxInit
<1>2. IsSeq(IvBytes(iv))
  <2> DEFINE b == <<"iv", iv.id>>
  <2>1. IsSeq(<<b>>)
    <3> HIDE DEF b
    <3>1. <<b>> = [i \in 1..1 |-> b]
      OBVIOUS
    <3> DEFINE s == <<b>>
    <3>2. DOMAIN s = 1..1 /\ s = [i \in 1..1 |-> s[i]]
      BY <3>1
    <3> HIDE DEF s
    <3>3. IsSeq(s)
      BY <3>2, SeqFcn
    <3> QED BY <3>3 DEF s
  <2> QED BY <2>1 DEF IvBytes
<1>3. IsSeq(EaxNonceBytes(iv))
  BY <1>2, EmptyIs DEF EaxNonceBytes
<1> QED BY <1>1, <1>3, CmacStarts

\* The first counter block of EAX.
LEMMA EaxCounter ==
  ASSUME mode = "eax", NEW m
  PROVE  LoOf(m) = -1 /\ FirstCounter(m).base = Omac(m, 0, EaxNonceBytes(m.iv))
<1>1. FirstCounter(m) = [base |-> Omac(m, 0, EaxNonceBytes(m.iv)), hi |-> 0, lo |-> -1]
  BY DEF FirstCounter
<1> QED BY <1>1 DEF LoOf

\* _gcry_cipher_eax_set_nonce
LEMMA EaxStarts ==
  ASSUME mode = "eax", NEW g, IsHandle(g), NEW m, m.key = g.keyno, m.clean => g.unused = 0,
         Fresh(m), NEW y, y = EaxSetNonce(g, m.iv).h
  PROVE  EaxWhole(y, m) /\ IsHandle(y) /\ ~y.tag /\ y.keyno = g.keyno
<1> DEFINE b == EaxNonceBytes(m.iv)
           c == CmacWrite(CmacWrite(Empty, EaxInit(0)), b)
           n == CmacValue(g.keyno, c)
           s1 == CmacWrite(Empty, EaxInit(1))
           s2 == CmacWrite(Empty, EaxInit(2))
           z == [base |-> n, hi |-> 0, lo |-> 0]
<1>1. y = [g EXCEPT !.iv = TRUE, !.tag = FALSE, !.tagiv = n, !.val = NoValue,
                    !.ctr = z, !.aad = s1, !.mac = s2]
  BY DEF EaxSetNonce, EaxStart, Done, Result
<1>2. /\ IsHandle(y) /\ y.iv = TRUE /\ y.tag = FALSE /\ y.tagiv = n /\ y.ctr = z
      /\ y.aad = s1 /\ y.mac = s2 /\ y.unused = g.unused /\ y.keyno = g.keyno
  <2> HIDE DEF n, z, s1, s2
  <2>1. DOMAIN g = Fields
    BY DEF IsHandle
  <2> QED BY ONLY <1>1, <2>1 DEF Fields, IsHandle
<1>3. n = Omac(m, 0, b)
  <2>1. IsSeq(b) /\ Lagged(CmacWrite(Empty, EaxInit(0)), EaxInit(0))
    BY EaxBytes
  <2>2. Lagged(c, EaxInit(0) \o b)
    BY <2>1, CmacMore
  <2>3. n = Cmac(m.key, EaxInit(0) \o b)
    BY <2>2, CmacIs
  <2> QED BY <2>3 DEF Omac, EaxInit
<1>4. LoOf(m) = -1 /\ FirstCounter(m).base = n
  BY <1>3, EaxCounter
<1> HIDE DEF n
<1>5. m.clean => Placed(y, m.key, n, -1, 0, 0)
  <2>1. y.ctr = [base |-> n, hi |-> 0, lo |-> (-1) + 1]
    BY <1>2
  <2> QED BY <2>1, <1>2, StreamStarts
<1>6. AadOf(m) = <<>> /\ CipherText(m) = <<>>
  <2>1. m.data = 0 /\ m.aad = 0 /\ mode \in Streams
    BY DEF Fresh, Streams
  <2> QED BY <2>1, AadIs, MadeIs, EmptyIs DEF AadOf
<1>7. EaxMac(y, m)
  <2>1. ASSUME NEW t PROVE EaxInit(t) \o <<>> = EaxInit(t) /\ Lagged(CmacWrite(Empty, EaxInit(t)), EaxInit(t))
    BY EaxBytes, ConcatEmpty
  <2> HIDE DEF s1, s2
  <2>2. Lagged(s1, EaxInit(1) \o <<>>) /\ Lagged(s2, EaxInit(2) \o <<>>)
    BY <2>1 DEF s1, s2
  <2> QED BY <2>2, <1>2, <1>3, <1>6 DEF EaxMac
<1>8. UsedAll(m)
  <2>1. {StreamByte(m.key, FirstCounter(m).base, LoOf(m), i) : i \in 1..0} = {}
    OBVIOUS
  <2> QED BY <2>1 DEF Fresh, UsedAll
<1>9. m.data = 0 /\ m.aad = 0 /\ m.way = "none"
  BY DEF Fresh
<1> QED BY <1>2, <1>4, <1>5, <1>7, <1>8, <1>9 DEF EaxWhole

\* The default nonce, or the one that is set.
LEMMA EaxAuto ==
  ASSUME mode = "eax", NEW g, IsHandle(g), NEW m, g.iv => EaxWhole(g, m),
         ~g.iv => m.key = g.keyno /\ m.iv = ZeroIv /\ (m.clean => g.unused = 0) /\ Fresh(m),
         NEW a, a = EaxAutoIv(g)
  PROVE  /\ EaxWhole(a, m) /\ IsHandle(a) /\ (g.iv => a = g)
         /\ (~g.tag => ~a.tag) /\ a.keyno = g.keyno
<1>1. CASE g.iv
  BY <1>1 DEF EaxAutoIv
<1>2. CASE ~g.iv
  <2>1. a = EaxSetNonce(g, m.iv).h
    BY <1>2 DEF EaxAutoIv
  <2> QED BY <2>1, <1>2, EaxStarts
<1> QED BY <1>1, <1>2

\* The first data settles which way the message goes.
LEMMA EaxWay ==
  ASSUME mode = "eax", NEW g, NEW m, EaxWhole(g, m), NEW w \in {"encrypt", "decrypt"},
         m.way \in {"none", w}, NEW x, Turns(m, x, w)
  PROVE  EaxWhole(g, x)
<1>1. /\ CipherText(x) = CipherText(m) /\ FirstCounter(x) = FirstCounter(m)
      /\ LoOf(x) = LoOf(m) /\ AadOf(x) = AadOf(m)
  BY WaySame DEF EaxWhole, Streams
<1>2. \A t, s : Omac(x, t, s) = Omac(m, t, s)
  BY DEF Omac, Turns
<1>3. Tag(x) = Tag(m)
  BY <1>1, <1>2 DEF Tag, Turns
<1>4. UsedAll(m) => UsedAll(x)
  BY <1>1 DEF UsedAll, Turns
<1>5. EaxMac(g, m) => EaxMac(g, x)
  BY <1>1, <1>2 DEF EaxMac, Turns
<1> QED BY <1>1, <1>3, <1>4, <1>5 DEF EaxWhole, Turns

\* _gcry_cipher_eax_authenticate, with a nonce set.
LEMMA EaxAadWhole ==
  ASSUME mode = "eax", NEW a, IsHandle(a), NEW m, EaxWhole(a, m), ~a.tag,
         NEW n \in Nat, NEW x, MoreAad(m, x, n), NEW inp, inp = AadBytes(m.no, m.aad, n),
         NEW y, y = [a EXCEPT !.aad = CmacWrite(@, inp)]
  PROVE  EaxWhole(y, x)
<1>1. IsSeq(inp) /\ Len(inp) = n
  BY AadIs
<1>2. /\ y.iv = a.iv /\ y.keyno = a.keyno /\ y.tag = a.tag /\ y.tagiv = a.tagiv /\ y.mac = a.mac
      /\ y.unused = a.unused /\ y.ctr = a.ctr /\ y.last = a.last /\ y.aad = CmacWrite(a.aad, inp)
  <2> DEFINE c == CmacWrite(a.aad, inp)
  <2>1. y = [a EXCEPT !.aad = c] /\ DOMAIN a = Fields
    BY DEF IsHandle
  <2> HIDE DEF c
  <2>2. /\ y.iv = a.iv /\ y.keyno = a.keyno /\ y.tag = a.tag /\ y.tagiv = a.tagiv /\ y.mac = a.mac
        /\ y.unused = a.unused /\ y.ctr = a.ctr /\ y.last = a.last /\ y.aad = c
    BY ONLY <2>1 DEF Fields
  <2> QED BY <2>2 DEF c
<1>3. m.aad \in Nat /\ m.data \in Nat /\ x.aad = m.aad + n /\ x.data = m.data
  BY DEF EaxWhole, MoreAad
<1>4. FirstCounter(x) = FirstCounter(m) /\ LoOf(x) = LoOf(m)
  BY CounterSame DEF MoreAad, Streams, LoOf
<1>5. CipherText(x) = CipherText(m)
  <2>1. \A i : Stream(x, i) = Stream(m, i)
    BY CounterSame DEF MoreAad, Streams
  <2>2. Given(x) = Given(m)
    BY DEF Given, MoreAad
  <2>3. Made(x) = Made(m)
    BY <2>1, <2>2, <1>3 DEF Made, OneShot
  <2> QED BY <2>2, <2>3 DEF CipherText, MoreAad
<1>6. AadOf(x) = AadOf(m) \o inp /\ IsSeq(AadOf(m))
  BY <1>3, AadMore, AadIs DEF AadOf, MoreAad
<1>7. ASSUME m.clean PROVE EaxMac(y, x)
  <2> DEFINE i == EaxInit(1)
             s == AadOf(m)
             c == a.aad
  <2>1. IsSeq(i) /\ IsSeq(s) /\ IsSeq(inp) /\ Lagged(c, i \o s)
    BY <1>1, <1>6, <1>7, EaxBytes DEF EaxWhole, EaxMac
  <2>2. y.aad = CmacWrite(c, inp) /\ AadOf(x) = s \o inp
    BY <1>2, <1>6
  <2> HIDE DEF i, s, c
  <2>3. Lagged(CmacWrite(c, inp), (i \o s) \o inp)
    BY ONLY <2>1, CmacMore
  <2>4. (i \o s) \o inp = i \o (s \o inp)
    BY ONLY <2>1, ConcatAssoc
  <2>5. Lagged(y.aad, EaxInit(1) \o AadOf(x))
    BY <2>2, <2>3, <2>4 DEF i
  <2>6. Omac(x, 0, EaxNonceBytes(x.iv)) = Omac(m, 0, EaxNonceBytes(m.iv))
    BY DEF MoreAad, Omac
  <2> QED BY <2>5, <2>6, <1>2, <1>5, <1>7 DEF EaxWhole, EaxMac
<1>8. UsedAll(m) => UsedAll(x)
  BY <1>4 DEF UsedAll, MoreAad
<1>9. m.clean => \E q : Placed(y, x.key, FirstCounter(x).base, LoOf(x), x.data, q)
  BY <1>2, <1>4 DEF EaxWhole, Placed, MoreAad
<1> QED BY <1>2, <1>3, <1>7, <1>8, <1>9 DEF EaxWhole, MoreAad

\* _gcry_cipher_eax_encrypt and _gcry_cipher_eax_decrypt, with a nonce set.
LEMMA EaxCryptWhole ==
  ASSUME mode = "eax", NEW a, IsHandle(a), NEW m, EaxWhole(a, m), ~a.tag,
         NEW n \in Nat, NEW inp, inp = DataBytes(m.no, m.data, n), NEW enc \in BOOLEAN,
         m.way = IF enc THEN "encrypt" ELSE "decrypt",
         NEW r, r = EaxMacData(CtrEncrypt(a, inp, a.keyno), inp, enc),
         NEW x, MoreText(m, x, n, r.out)
  PROVE  EaxWhole(r.h, x) /\ Returns(x, r.out)
<1>1. /\ x.no = m.no /\ x.key = m.key /\ x.iv = m.iv /\ x.data = m.data + n
      /\ x.aad = m.aad /\ x.clean = m.clean /\ x.way = m.way /\ x.data \in Nat
      /\ m.data \in Nat /\ m.aad \in Nat /\ a.iv /\ m.key = a.keyno
  BY DEF MoreText, MoreData, EaxWhole
<1>2. IsSeq(inp) /\ Len(inp) = n
  BY <1>1, DataIs
<1>3. CASE ~m.clean
  <2> DEFINE y == CtrEncrypt(a, inp, a.keyno).h
             o == CtrEncrypt(a, inp, a.keyno).out
             c == CmacWrite(y.mac, IF enc THEN o ELSE inp)
             z == [y EXCEPT !.mac = c]
  <2>1. r.h = z
    BY DEF EaxMacData, Result
  <2>2. IsHandle(y) /\ y.iv = a.iv /\ y.keyno = a.keyno
    BY DEF CtrEncrypt, Result, IsHandle, Fields
  <2> HIDE DEF y, c
  <2>3. z.iv = a.iv /\ z.keyno = a.keyno
    BY ONLY <2>2 DEF IsHandle, Fields
  <2> HIDE DEF z
  <2> QED BY <2>1, <2>3, <1>1, <1>3 DEF EaxWhole, Returns
<1>4. CASE m.clean
  <2> DEFINE base == FirstCounter(m).base
             k == m.key
             lo == -1
  <2>1. PICK q : Placed(a, k, base, lo, m.data, q)
    BY <1>4, EaxCounter DEF EaxWhole
  <2>2. r = EaxMacData(CtrEncrypt(a, inp, k), inp, enc)
    BY <1>1
  <2>3. PICK y, o : /\ CtrEncrypt(a, inp, k) = Result(y, TRUE, o)
                    /\ GcmRan(a, k, base, lo, m.data, inp, Len(inp), y, o)
    <3> DEFINE d == m.data
    <3>1. /\ mode # "gcm" /\ IsHandle(a) /\ IsSeq(inp) /\ lo \in Int /\ lo + 1 \in Nat /\ d \in Nat
          /\ Placed(a, k, base, lo, d, q)
      BY <2>1, <1>1, <1>2
    <3> HIDE DEF d, base, k, lo
    <3>2. \E y, o : /\ CtrEncrypt(a, inp, k) = Result(y, TRUE, o)
                    /\ GcmRan(a, k, base, lo, d, inp, Len(inp), y, o)
      BY ONLY <3>1, CtrWide
    <3> QED BY <3>2 DEF d
  <2> DEFINE t == IF enc THEN o ELSE inp
             w == CmacWrite(y.mac, t)
             z == [y EXCEPT !.mac = w]
  <2>4. r.h = z /\ r.out = o
    BY <2>2, <2>3 DEF EaxMacData, Result
  <2>5. MoreText(m, x, n, o)
    BY <2>4
  <2>6. Same(a, y, {"ctr", "last", "unused", "dead"}) /\ IsSeq(o) /\ Len(o) = n
    BY <2>3, <1>2 DEF GcmRan
  <2>7. z.mac = w /\ \A f \in Fields \ {"mac"} : z[f] = y[f]
    <3> HIDE DEF w
    <3>1. DOMAIN y = Fields
      BY <2>6 DEF Same, IsHandle
    <3> QED BY ONLY <3>1 DEF Fields
  <2> HIDE DEF z
  <2>8. /\ z.iv = a.iv /\ z.keyno = a.keyno /\ z.tag = a.tag /\ z.tagiv = a.tagiv
        /\ z.aad = a.aad /\ y.mac = a.mac
        /\ z.unused = y.unused /\ z.ctr = y.ctr /\ z.last = y.last
    BY ONLY <2>6, <2>7 DEF Same, Fields
  <2>9. InStream(z, x, base) /\ TextRan(m, x, inp, n, o)
    <3> DEFINE f == [over |-> TRUE]
    <3>1. GcmRan(a, m.key, base, LoOf(m), m.data, inp, n, y, o)
      BY <2>3, <1>2, EaxCounter
    <3>2. InStream(f, m, base)
      BY <1>4 DEF InStream, EaxWhole, UsedAll
    <3>3. /\ mode \in Streams /\ m.data \in Nat /\ n \in Nat /\ inp = DataBytes(m.no, m.data, n)
          /\ m.way \in {"encrypt", "decrypt"} /\ m.clean
      BY <1>1, <1>4 DEF Streams
    <3> HIDE DEF base, f
    <3> QED BY ONLY <3>1, <3>2, <3>3, <2>5, <2>8, StreamMore
  <2>10. FirstCounter(x) = FirstCounter(m) /\ AadOf(x) = AadOf(m) /\ LoOf(x) = LoOf(m)
    BY <1>1, CounterSame DEF AadOf, Streams, LoOf
  <2>11. EaxMac(z, x)
    <3> DEFINE i == EaxInit(2)
               s == CipherText(m)
               c == a.mac
    <3>1. IsSeq(i) /\ IsSeq(s) /\ IsSeq(t) /\ Lagged(c, i \o s)
      BY <1>1, <1>2, <1>4, <2>6, EaxBytes, MadeIs DEF EaxWhole, EaxMac, Streams
    <3>2. z.mac = CmacWrite(c, t) /\ CipherText(x) = s \o t
      BY <2>7, <2>8, <2>9 DEF TextRan
    <3> HIDE DEF i, s, c, t
    <3>3. Lagged(CmacWrite(c, t), (i \o s) \o t)
      BY ONLY <3>1, CmacMore
    <3>4. (i \o s) \o t = i \o (s \o t)
      BY ONLY <3>1, ConcatAssoc
    <3>5. Lagged(z.mac, EaxInit(2) \o CipherText(x))
      BY <3>2, <3>3, <3>4 DEF i
    <3>6. Omac(x, 0, EaxNonceBytes(x.iv)) = Omac(m, 0, EaxNonceBytes(m.iv))
      BY <1>1 DEF Omac
    <3> QED BY <3>5, <3>6, <2>8, <2>10, <1>4 DEF EaxWhole, EaxMac
  <2>12. UsedAll(x)
    BY <2>9, <2>10 DEF InStream, UsedAll
  <2>13. \E p : Placed(z, x.key, FirstCounter(x).base, LoOf(x), x.data, p)
    <3>1. PICK p : Placed(y, k, base, lo, m.data + n, p)
      BY <2>3, <1>2 DEF GcmRan
    <3>2. Placed(z, k, base, lo, m.data + n, p)
      BY <3>1, <2>8 DEF Placed
    <3>3. LoOf(m) = lo
      BY EaxCounter
    <3> QED BY <3>2, <3>3, <2>10, <1>1
  <2>14. EaxWhole(z, x)
    BY <2>8, <2>11, <2>12, <2>13, <1>1 DEF EaxWhole
  <2> QED BY <2>4, <2>9, <2>14 DEF TextRan, Returns
<1> QED BY <1>3, <1>4

\* _gcry_cipher_eax_tag
LEMMA EaxTagWhole ==
  ASSUME mode = "eax", NEW g, IsHandle(g), NEW m, EaxWhole(g, m), NEW r, r = EaxTag(g)
  PROVE  EaxWhole(r.h, m) /\ (m.clean => r.h.val = Tag(m))
<1>1. CASE g.tag
  <2>1. r.h = g
    BY <1>1 DEF EaxTag, Done, Result
  <2> QED BY <2>1, <1>1 DEF EaxWhole
<1>2. CASE ~g.tag
  <2> DEFINE v == <<"eax", g.tagiv, CmacValue(g.keyno, g.aad), CmacValue(g.keyno, g.mac)>>
             y == [g EXCEPT !.tag = TRUE, !.aad = Empty, !.mac = Empty, !.val = v]
  <2>1. r.h = y
    BY <1>2 DEF EaxTag, Done, Result
  <2>2. y.tag = TRUE /\ y.val = v /\ y.iv = g.iv /\ y.keyno = g.keyno
    <3> HIDE DEF v
    <3>1. DOMAIN g = Fields
      BY DEF IsHandle
    <3> QED BY ONLY <3>1 DEF Fields
  <2>3. ASSUME m.clean PROVE v = Tag(m)
    <3>1. EaxMac(g, m) /\ m.key = g.keyno
      BY <1>2, <2>3 DEF EaxWhole
    <3>2. /\ CmacValue(g.keyno, g.aad) = Cmac(m.key, EaxInit(1) \o AadOf(m))
          /\ CmacValue(g.keyno, g.mac) = Cmac(m.key, EaxInit(2) \o CipherText(m))
      BY <3>1, CmacIs DEF EaxMac
    <3>3. v = <<"eax", Omac(m, 0, EaxNonceBytes(m.iv)), Omac(m, 1, AadOf(m)),
                Omac(m, 2, CipherText(m))>>
      BY <3>1, <3>2 DEF EaxMac, Omac, EaxInit
    <3>4. Tag(m) = <<"eax", Omac(m, 0, EaxNonceBytes(m.iv)), Omac(m, 1, AadBytes(m.no, 0, m.aad)),
                     Omac(m, 2, CipherText(m))>>
      BY ONLY mode = "eax" DEF Tag, OneShot
    <3> QED BY <3>3, <3>4 DEF AadOf
  <2> HIDE DEF y, v
  <2> QED BY <2>1, <2>2, <2>3 DEF EaxWhole
<1> QED BY <1>1, <1>2

-----------------------------------------------------------------------------
(* The key stream that is left over.  EAX and SIV keep it across nonces and   *)
(* keys (c->unused); how much it is shows in the length of the data.          *)

\* What is left fills up the data to whole blocks, once nothing was left.
RestGood(g, m) ==
  /\ g.unused \in 0..(BlockLen - 1) /\ m.data \in Nat
  /\ m.clean => \E q \in Nat : g.unused + m.data = BlockLen * q

\* The invariant.
RestInv == mode \in {"eax", "siv"} => RestGood(h, msg)

\* A message left as Clean says leaves nothing over.
LEMMA RestClean ==
  ASSUME mode \in {"eax", "siv"}, RestGood(h, msg), Clean
  PROVE  h.unused = 0
<1>0. BlockLen \in Nat \ {0}
  BY BlockLenAssumption
<1>1. msg.clean /\ msg.data % BlockLen = 0
  BY DEF Clean
<1>2. PICK q \in Nat : h.unused + msg.data = BlockLen * q
  BY <1>1 DEF RestGood
<1>3. PICK p \in Nat, s \in 0..(BlockLen - 1) :
        msg.data = BlockLen * p + s /\ msg.data % BlockLen = s
  BY <1>0, DivMod DEF RestGood
<1>4. PICK u \in 0..(BlockLen - 1) : u = h.unused
  BY DEF RestGood
<1>5. msg.data = BlockLen * p /\ 0 \in 0..(BlockLen - 1) /\ BlockLen * p \in Nat
  BY <1>0, <1>1, <1>3 DEF RestGood
<1> DEFINE x == u + msg.data
<1>6. x \in Nat /\ x = BlockLen * p + u
  BY <1>0, <1>5
<1>7. x = BlockLen * q + 0
  BY <1>0, <1>2, <1>4, <1>6
<1> HIDE DEF x
<1>8. x % BlockLen = u
  BY ONLY <1>0, <1>4, <1>3, <1>6, DivUnique
<1>9. x % BlockLen = 0
  BY ONLY <1>0, <1>2, <1>5, <1>6, <1>7, DivUnique
<1> QED BY <1>4, <1>8, <1>9

\* Nothing was left over when a message without data begins.
LEMMA RestBegins ==
  ASSUME NEW g, NEW m, g.unused \in 0..(BlockLen - 1), m.data = 0, m.clean => g.unused = 0
  PROVE  RestGood(g, m)
<1>1. BlockLen * 0 = 0 /\ 0 \in Nat
  BY BlockLenAssumption
<1> QED BY <1>1 DEF RestGood

\* Counter mode takes from what is left before it makes more.
LEMMA RestRuns ==
  ASSUME NEW g, IsHandle(g), NEW m, RestGood(g, m), NEW inp, IsSeq(inp), NEW k,
         NEW z, z.data = m.data + Len(inp), z.clean => m.clean
  PROVE  RestGood(CtrEncrypt(g, inp, k).h, z)
<1> DEFINE r == CtrEncrypt(g, inp, k)
           n == Len(inp)
<1>0. BlockLen \in Nat \ {0} /\ n \in Nat /\ g.unused \in 0..(BlockLen - 1) /\ m.data \in Nat
  BY BlockLenAssumption, IsSeqLen DEF RestGood
<1>1. PICK blocks, v : CtrRan(g, inp, k, r, blocks, v)
  BY <1>0, CtrEncryptIs
<1>2. r.h.unused = v /\ Run(n, g.unused, blocks, v)
  BY <1>1 DEF CtrRan
<1>3. v \in 0..(BlockLen - 1) /\ blocks \in Nat /\ n + v = g.unused + BlockLen * blocks
  BY <1>2 DEF Run
<1> HIDE DEF r, n
<1>4. z.data \in Nat
  BY <1>0 DEF n
<1>5. ASSUME z.clean PROVE \E q \in Nat : v + z.data = BlockLen * q
  <2>1. PICK q \in Nat : g.unused + m.data = BlockLen * q
    BY <1>5 DEF RestGood
  <2>2. BlockLen * (q + blocks) = BlockLen * q + BlockLen * blocks
    BY <1>0, <1>3, MultAdd
  <2>3. BlockLen * q \in Int /\ BlockLen * blocks \in Int /\ q + blocks \in Nat
    BY <1>0, <1>3
  <2>4. z.data = m.data + n
    BY DEF n
  <2>u. g.unused \in Nat
    BY <1>0
  <2>5. PICK a \in Int, b \in Int, d \in Nat, u \in Nat :
          a = BlockLen * q /\ b = BlockLen * blocks /\ d = m.data /\ u = g.unused
    BY <2>3, <2>u, <1>0, Zenon
  <2>6. v + (d + n) = a + b
    <3>1. u + d = a /\ n + v = u + b /\ n \in Nat /\ v \in Nat
      BY <2>1, <2>5, <1>0, <1>3
    <3> QED BY ONLY <3>1, <2>5
  <2>7. v + z.data = BlockLen * (q + blocks)
    BY <2>2, <2>4, <2>5, <2>6
  <2> QED BY <2>3, <2>7
<1> QED BY <1>2, <1>3, <1>4, <1>5 DEF RestGood, r

\* The routines that make no key stream leave it alone.
LEMMA RestStays ==
  ASSUME mode \in {"eax", "siv"}, NEW g, IsHandle(g), NEW iv, NEW inp, NEW check \in BOOLEAN
  PROVE  /\ Setiv(g, iv).h.unused = g.unused /\ Authenticate(g, inp).h.unused = g.unused
         /\ MakeTag(g, check).h.unused = g.unused
         /\ EaxAutoIv(g).unused = g.unused /\ IsHandle(EaxAutoIv(g))
<1> USE DEF Result, Refused, Done
<1>1. /\ \A i : EaxSetNonce(g, i).h.unused = g.unused /\ IsHandle(EaxSetNonce(g, i).h)
      /\ EaxAutoIv(g).unused = g.unused /\ IsHandle(EaxAutoIv(g))
  BY DEF EaxAutoIv, EaxSetNonce, EaxStart, IsHandle, Fields
<1>2. CASE mode = "eax"
  <2>1. EaxAuthenticate(g, inp).h.unused = g.unused
    BY <1>1 DEF EaxAuthenticate, IsHandle, Fields
  <2>2. EaxTag(g).h.unused = g.unused
    BY DEF EaxTag, IsHandle, Fields
  <2> QED BY <2>1, <2>2, <1>1, <1>2 DEF Setiv, Authenticate, MakeTag
<1>3. CASE mode = "siv"
  <2>1. \A b : SivAuthenticate(g, b).h.unused = g.unused /\ IsHandle(SivAuthenticate(g, b).h)
    BY DEF SivAuthenticate, IsHandle, Fields
  <2>2. SivSetNonce(g, iv).h.unused = g.unused
    BY <2>1 DEF SivSetNonce, IsHandle, Fields
  <2>3. SivGetTag(g).h.unused = g.unused /\ SivCheckTag(g).h.unused = g.unused
    BY DEF SivGetTag, SivCheckTag, SivFinish, IsHandle, Fields
  <2> QED BY <2>1, <2>2, <2>3, <1>1, <1>3 DEF Setiv, Authenticate, MakeTag
<1> QED BY <1>1, <1>2, <1>3

\* A call of the mode, r what it returned: nothing was done, or counter mode ran
\* on a handle with the same rest.
LEMMA RestCrypt ==
  ASSUME mode \in {"eax", "siv"}, NEW g, IsHandle(g), NEW m, RestGood(g, m), NEW inp, IsSeq(inp),
         NEW enc \in BOOLEAN, NEW r, r = Crypt(g, inp, enc),
         NEW z, z.data = m.data + Len(inp), z.clean => m.clean
  PROVE  \/ ~r.ok /\ r.h = g
         \/ RestGood(r.h, z) /\ (mode = "siv" => ~g.tag /\ r.h.tag) /\ (mode = "eax" => r.ok)
<1> USE DEF Result, Refused, Done
<1>1. CASE mode = "eax"
  <2> DEFINE a == EaxAutoIv(g)
             c == CtrEncrypt(a, inp, g.keyno)
  <2>1. r = IF g.tag THEN Refused(g) ELSE EaxMacData(c, inp, enc)
    BY <1>1 DEF Crypt, EaxCrypt
  <2>2. RestGood(a, m) /\ IsHandle(a)
    BY <1>1, RestStays DEF RestGood
  <2> HIDE DEF a
  <2>3. RestGood(c.h, z) /\ IsHandle(c.h)
    BY <2>2, RestRuns, CtrKept DEF Kept
  <2> HIDE DEF c
  <2>4. EaxMacData(c, inp, enc).h.unused = c.h.unused /\ EaxMacData(c, inp, enc).ok
    BY <2>3 DEF EaxMacData, IsHandle, Fields
  <2>5. CASE g.tag
    BY <2>1, <2>5
  <2>6. CASE ~g.tag
    <3>1. r.h.unused = c.h.unused /\ r.ok
      BY <2>1, <2>4, <2>6
    <3> QED BY <3>1, <2>3, <1>1 DEF RestGood
  <2> QED BY <2>5, <2>6
<1>2. CASE mode = "siv"
  <2>1. ASSUME NEW v PROVE LET c == CtrEncrypt([g EXCEPT !.ctr = v], inp, g.keyno)
                           IN  RestGood(c.h, z) /\ IsHandle(c.h)
    <3> DEFINE a == [g EXCEPT !.ctr = v]
    <3>1. a.unused = g.unused /\ IsHandle(a)
      BY DEF IsHandle, Fields
    <3> HIDE DEF a
    <3>2. RestGood(a, m)
      BY <3>1 DEF RestGood
    <3>3. LET c == CtrEncrypt(a, inp, g.keyno) IN RestGood(c.h, z) /\ IsHandle(c.h)
      BY <3>1, <3>2, RestRuns, CtrKept DEF Kept
    <3> QED BY <3>3 DEF a
  <2>2. ASSUME NEW c, RestGood(c.h, z), IsHandle(c.h)
        PROVE  /\ \A v : RestGood(SivMade(c, v).h, z) /\ SivMade(c, v).h.tag
               /\ RestGood(SivCompare(c).h, z) /\ SivCompare(c).h.tag
    <3>1. ASSUME NEW v PROVE SivMade(c, v).h.unused = c.h.unused /\ SivMade(c, v).h.tag
      BY <2>2 DEF SivMade, IsHandle, Fields
    <3>2. SivCompare(c).h.unused = c.h.unused /\ SivCompare(c).h.tag
      BY <2>2 DEF SivCompare, IsHandle, Fields
    <3> QED BY <3>1, <3>2, <2>2 DEF RestGood
  <2>3. r = IF enc THEN SivEncrypt(g, inp) ELSE SivDecrypt(g, inp)
    BY <1>2 DEF Crypt
  <2>4. CASE enc
    <3> DEFINE v == S2V(g.keyno, g.parts, inp)
               c == CtrEncrypt([g EXCEPT !.ctr = SivCtr(v)], inp, g.keyno)
    <3>1. r = IF g.tag \/ g.dectag THEN Refused(g) ELSE SivMade(c, v)
      BY <2>3, <2>4 DEF SivEncrypt
    <3>2. RestGood(c.h, z) /\ IsHandle(c.h)
      BY <2>1
    <3> HIDE DEF c
    <3>3. RestGood(SivMade(c, v).h, z) /\ SivMade(c, v).h.tag
      BY <3>2, <2>2
    <3>4. Refused(g).h = g /\ Refused(g).ok = FALSE
      OBVIOUS
    <3> HIDE DEF v, Refused
    <3> QED BY <3>1, <3>3, <3>4, <1>2
  <2>5. CASE ~enc
    <3> DEFINE c == CtrEncrypt([g EXCEPT !.ctr = SivCtr(g.tagiv)], inp, g.keyno)
    <3>1. r = IF g.tag \/ ~g.dectag THEN Refused(g) ELSE SivCompare(c)
      BY <2>3, <2>5 DEF SivDecrypt
    <3>2. RestGood(c.h, z) /\ IsHandle(c.h)
      BY <2>1
    <3> HIDE DEF c
    <3>3. RestGood(SivCompare(c).h, z) /\ SivCompare(c).h.tag
      BY <3>2, <2>2
    <3>4. Refused(g).h = g /\ Refused(g).ok = FALSE
      OBVIOUS
    <3> HIDE DEF Refused
    <3> QED BY <3>1, <3>3, <3>4, <1>2
  <2> QED BY <2>4, <2>5
<1> QED BY <1>1, <1>2

\* What a call is given.
LEMMA InputIs ==
  ASSUME NEW m, NEW n \in Nat
  PROVE  IsSeq(Input(m, n)) /\ Len(Input(m, n)) = n
<1>1. IsSeq(DataBytes(m.no, m.data, n)) /\ Len(DataBytes(m.no, m.data, n)) = n
  BY SeqFcn DEF DataBytes
<1>2. ASSUME NEW p, IsSeq(p), Len(p) = n PROVE IsSeq(SivCipher(m, p)) /\ Len(SivCipher(m, p)) = n
  BY <1>2, SeqFcn DEF SivCipher
<1> QED BY <1>1, <1>2 DEF Input

\* The invariant holds of an opened handle,
LEMMA RestInit == Init => RestInv
<1> SUFFICES ASSUME Init PROVE RestGood(h, msg)
  BY DEF RestInv
<1>1. PICK fips \in BOOLEAN : h = [Opened EXCEPT !.fips = fips]
  BY DEF Init
<1>2. h.unused = 0 /\ msg.data = 0 /\ 0 \in 0..(BlockLen - 1)
  BY <1>1, BlockLenAssumption DEF Opened, Init, Message
<1> QED BY <1>2, RestBegins

\* and every call keeps it.
LEMMA RestNext == GenInv /\ RestInv /\ [Next]_vars => RestInv'
<1> SUFFICES ASSUME GenInv, RestInv, [Next]_vars PROVE RestInv'
  OBVIOUS
<1>a. IsHandle(h) /\ DOMAIN msg = MsgFields /\ mode \in Modes
  BY DEF GenInv
<1>m. mode' = mode
  BY DEF Next, SetKey, SetBadKey, SetEmptyIv, GenIv, GetTag, Finalize, Reset, SetIv, DoAuthenticate,
         DoCrypt, CheckTag, SetLengths, SetTaglen, SetDecryptionTag, vars
<1> SUFFICES ASSUME mode \in {"eax", "siv"} PROVE RestGood(h', msg')
  BY <1>m DEF RestInv, RestGood
<1>b. RestGood(h, msg) /\ h.unused \in 0..(BlockLen - 1)
  BY DEF RestInv, RestGood
<1>c. Clean => h.unused = 0
  BY <1>b, RestClean
<1>0. ASSUME NEW g, g.unused = h.unused, NEW m, m.data = msg.data, m.clean => msg.clean
      PROVE  RestGood(g, m)
  BY <1>0, <1>b DEF RestGood
<1>n. ASSUME NEW g, g.unused = h.unused, NEW m, m.data = 0, m.clean => Clean
      PROVE  RestGood(g, m)
  BY <1>n, <1>b, <1>c, RestBegins
<1>k. ASSUME NEW g, g.unused = h.unused PROVE RestGood(g, Current) /\ RestGood(g, msg)
  <2>1. CASE Current = msg
    BY <2>1, <1>k, <1>0
  <2>2. CASE Current = Message(msg.no + 1, ZeroIv, h, Clean)
    <3>1. Current.data = 0 /\ Current.clean = Clean
      BY <2>2 DEF Message
    <3> QED BY <3>1, <1>k, <1>n, <1>0
  <2> QED BY <2>1, <2>2 DEF Current
<1>1. CASE SetKey
  <2>1. h'.unused = h.unused
    BY <1>1, <1>a DEF SetKey, Rekeyed, IsHandle, Fields
  <2>2. CASE mode = "siv"
    <3>1. msg'.data = 0 /\ msg'.clean = Clean
      BY <1>1, <2>2 DEF SetKey, NextMessage, Message
    <3> QED BY <3>1, <2>1, <1>n
  <2>3. CASE mode = "eax"
    <3>1. msg'.data = msg.data /\ msg'.clean = msg.clean
      BY <1>1, <2>3, <1>a DEF SetKey, NextMessage, MsgFields
    <3> QED BY <3>1, <2>1, <1>0
  <2> QED BY <2>2, <2>3
<1>2. CASE SetBadKey
  <2>1. h'.unused = h.unused /\ msg'.data = msg.data /\ msg'.clean = msg.clean
    BY <1>2, <1>a DEF SetBadKey, IsHandle, Fields, MsgFields
  <2> QED BY <2>1, <1>0
<1>3. CASE GetTag
  <2> DEFINE r == MakeTag(h, FALSE)
  <2>1. h' = r.h /\ msg' \in {Current, msg}
    <3>1. MakeTag(h, FALSE) = r
      OBVIOUS
    <3> HIDE DEF r
    <3> QED BY <3>1, <1>3 DEF GetTag
  <2>2. r.h.unused = h.unused
    BY <1>a, RestStays
  <2> HIDE DEF r
  <2> QED BY <2>1, <2>2, <1>k
<1>4. CASE Reset
  <2>1. h' = [Opened EXCEPT !.fips = h.fips, !.keyno = h.keyno, !.key = h.key]
    BY <1>4 DEF Reset, WasReset
  <2>2. h'.unused = 0 /\ 0 \in 0..(BlockLen - 1)
    BY <2>1, BlockLenAssumption DEF Opened
  <2>3. msg'.data = 0
    BY <1>4, <1>a DEF Reset, NextMessage, Forgotten, Message, MsgFields
  <2> QED BY <2>2, <2>3, RestBegins
<1>5. ASSUME NEW hashed \in BOOLEAN, SetIv(hashed) PROVE RestGood(h', msg')
  <2> DEFINE iv == Nonce(msg.no + 1, hashed)
             r == Setiv(h, iv)
             m == Message(msg.no + 1, iv, h, Clean)
             s == [msg EXCEPT !.iv = iv, !.parts = Append(@, IvBytes(iv))]
  <2>1. h' = r.h /\ msg' \in {msg, s, m}
    <3>1. Setiv(h, iv) = r
      OBVIOUS
    <3> HIDE DEF r
    <3> QED BY <3>1, <1>5 DEF SetIv
  <2> HIDE DEF iv
  <2>2. r.h.unused = h.unused
    BY <1>a, RestStays
  <2>3. m.data = 0 /\ m.clean = Clean /\ s.data = msg.data /\ s.clean = msg.clean
    BY <1>a DEF Message, MsgFields
  <2> HIDE DEF r, m, s
  <2> QED BY <2>1, <2>2, <2>3, <1>0, <1>n
<1>6. ASSUME NEW n \in AadChunks, DoAuthenticate(n) PROVE RestGood(h', msg')
  <2> DEFINE m == Current
             inp == AadBytes(m.no, m.aad, n)
             r == Authenticate(h, inp)
             x == [m EXCEPT !.aad = @ + n,
                            !.parts = IF mode = "siv" THEN Append(@, inp) ELSE @,
                            !.clean = @ /\ (mode = "ccm" => m.data = 0)]
  <2>1. h' = r.h /\ msg' \in {x, m, msg}
    <3>1. Authenticate(h, inp) = r
      OBVIOUS
    <3> HIDE DEF r
    <3> QED BY <3>1, <1>6, Zenon DEF DoAuthenticate
  <2>2. r.h.unused = h.unused
    BY <1>a, RestStays
  <2> HIDE DEF r
  <2>3. DOMAIN m = MsgFields /\ RestGood(r.h, m) /\ RestGood(r.h, msg)
    BY <2>2, <1>a, <1>k, CurrentIs
  <2> HIDE DEF m
  <2>4. x.data = m.data /\ (x.clean => m.clean)
    BY <2>3 DEF MsgFields
  <2> HIDE DEF x
  <2>5. RestGood(r.h, x)
    BY <2>3, <2>4 DEF RestGood
  <2> QED BY <2>1, <2>3, <2>5
<1>7. ASSUME NEW n \in DataChunks, NEW way \in {"encrypt", "decrypt"}, DoCrypt(n, way)
      PROVE  RestGood(h', msg')
  <2> DEFINE c == Current
             m == [c EXCEPT !.way = way]
             inp == Input(m, n)
             enc == way = "encrypt"
             r == Crypt(h, inp, enc)
  <2>1. h' = r.h /\ msg' = Crypted(m, n, r)
    <3>1. Crypt(h, Input(m, n), enc) = r
      OBVIOUS
    <3> HIDE DEF r
    <3> QED BY <3>1, <1>7, Zenon DEF DoCrypt
  <2>2. DOMAIN c = MsgFields /\ RestGood(h, c) /\ (h.iv => c = msg)
    BY <1>a, <1>k, CurrentIs
  <2> HIDE DEF c
  <2>3. DOMAIN m = MsgFields /\ m.data = c.data /\ m.clean = c.clean
    BY <2>2 DEF MsgFields
  <2>4. RestGood(h, m)
    BY <2>2, <2>3 DEF RestGood
  <2> HIDE DEF m
  <2>5. IsSeq(inp) /\ Len(inp) = n /\ enc \in BOOLEAN
    BY InputIs, HandleAssumption
  <2> HIDE DEF inp, enc
  <2> DEFINE z == [data |-> m.data + n, clean |-> m.clean]
  <2>6. \/ ~r.ok /\ r.h = h
        \/ RestGood(r.h, z) /\ (mode = "siv" => ~h.tag /\ r.h.tag) /\ (mode = "eax" => r.ok)
    <3>1. z.data = m.data + Len(inp) /\ (z.clean => m.clean)
      BY <2>5
    <3> HIDE DEF z, r
    <3>2. r = Crypt(h, inp, enc)
      BY DEF r
    <3> QED BY ONLY <3>1, <3>2, <2>4, <2>5, <1>a, mode \in {"eax", "siv"}, RestCrypt
  <2> HIDE DEF r
  <2>7. CASE ~r.ok /\ r.h = h
    <3>1. msg' = msg
      BY <2>1, <2>7 DEF Crypted
    <3> QED BY <3>1, <2>1, <2>7, <1>b
  <2>8. CASE RestGood(r.h, z) /\ (mode = "siv" => ~h.tag /\ r.h.tag) /\ (mode = "eax" => r.ok)
    <3>1. msg'.data = m.data + n /\ msg'.clean = m.clean
      BY <2>1, <2>3, <2>8 DEF Crypted, MsgFields
    <3>2. z.data = msg'.data /\ z.clean = msg'.clean
      BY <3>1
    <3> HIDE DEF z
    <3> QED BY <3>2, <2>1, <2>8 DEF RestGood
  <2> QED BY <2>6, <2>7, <2>8
<1>8. ASSUME NEW forged \in BOOLEAN, CheckTag(forged) PROVE RestGood(h', msg')
  <2> DEFINE r == MakeTag(h, TRUE)
  <2>1. h' = r.h /\ msg' \in {Current, msg}
    <3>1. MakeTag(h, TRUE) = r
      OBVIOUS
    <3> HIDE DEF r
    <3> QED BY <3>1, <1>8 DEF CheckTag
  <2>2. r.h.unused = h.unused
    BY <1>a, RestStays
  <2> HIDE DEF r
  <2> QED BY <2>1, <2>2, <1>k
<1>9. ASSUME NEW n \in DataChunks, NEW forged \in BOOLEAN, SetDecryptionTag(n, forged)
      PROVE  RestGood(h', msg')
  <2>1. mode = "siv" /\ msg' = msg /\ \E tag : h' = SivSetDecryptionTag(h, tag).h
    BY <1>9 DEF SetDecryptionTag, OneShot
  <2>2. h'.unused = h.unused
    BY <2>1, <1>a DEF SivSetDecryptionTag, Refused, Done, Result, IsHandle, Fields
  <2> QED BY <2>1, <2>2, <1>0
<1>10. CASE UNCHANGED vars
  BY <1>10, <1>b DEF vars
<1>11. ~Finalize /\ ~SetEmptyIv /\ ~GenIv /\ (\A n \in {8, 16} : ~SetTaglen(n))
       /\ (\A d \in DataChunks, a \in AadChunks : ~SetLengths(d, a))
  BY DEF Finalize, SetEmptyIv, GenIv, SetTaglen, SetLengths
<1> QED BY <1>1, <1>2, <1>3, <1>4, <1>5, <1>6, <1>7, <1>8, <1>9, <1>10, <1>11 DEF Next

-----------------------------------------------------------------------------
(* CCM, EAX and ChaCha20-Poly1305 together *)

\* The modes with a key stream whose counter runs over with carry.
Wide == {"ccm", "eax", "poly1305"}

\* The handle g works on the message m.
ModeWhole(g, m) ==
  /\ mode = "poly1305" => PolyWhole(g, m)
  /\ mode = "ccm" => CcmWhole(g, m)
  /\ mode = "eax" => EaxWhole(g, m)

\* What a clean message finds on the handle: nothing of it is ever left in
\* ChaCha20-Poly1305, and in EAX no part of a counter block.
Unspoiled(g, m) ==
  /\ mode = "poly1305" => m.clean
  /\ mode = "eax" => (m.clean => g.unused = 0)

\* It does, or will do as soon as the default nonce is set.
Ready(g, m) ==
  /\ g.iv => ModeWhole(g, m)
  /\ ~g.iv => /\ mode # "ccm" /\ m.key = g.keyno /\ m.iv = ZeroIv /\ Fresh(m)
              /\ Unspoiled(g, m)

\* A nonce is set.
LEMMA WholeHasIv ==
  ASSUME mode \in Wide, NEW g, NEW m, ModeWhole(g, m)
  PROVE  g.iv
  BY DEF Wide, ModeWhole, PolyWhole, CcmWhole, EaxWhole

\* The setiv routines never refuse, and begin the message.
LEMMA ModeSetIv ==
  ASSUME mode \in Wide, NEW g, IsHandle(g), NEW m, m.key = g.keyno, Fresh(m),
         Unspoiled(g, m), NEW r, r = Setiv(g, m.iv)
  PROVE  r.ok /\ ModeWhole(r.h, m)
<1>1. CASE mode = "poly1305"
  <2>1. r = Poly1305Setiv(g, m.iv)
    BY <1>1 DEF Setiv
  <2>2. r.ok
    BY <2>1 DEF Poly1305Setiv, Done, Result
  <2>3. m.clean
    BY <1>1 DEF Unspoiled
  <2>4. PolyWhole(r.h, m)
    BY <2>1, <2>3, <1>1, PolyStarts
  <2> QED BY <2>2, <2>4, <1>1 DEF ModeWhole
<1>2. CASE mode = "ccm"
  <2>1. r = CcmSetNonce(g, m.iv)
    BY <1>2 DEF Setiv
  <2>2. r.ok
    BY <2>1 DEF CcmSetNonce, Done, Result
  <2>3. CcmWhole(r.h, m)
    BY <2>1, <1>2, CcmStarts
  <2> QED BY <2>2, <2>3, <1>2 DEF ModeWhole
<1>3. CASE mode = "eax"
  <2>1. r = EaxSetNonce(g, m.iv)
    BY <1>3 DEF Setiv
  <2>2. r.ok
    BY <2>1 DEF EaxSetNonce, EaxStart, Done, Result
  <2>3. m.clean => g.unused = 0
    BY <1>3 DEF Unspoiled
  <2>4. EaxWhole(r.h, m)
    BY <2>1, <2>3, <1>3, EaxStarts
  <2> QED BY <2>2, <2>4, <1>3 DEF ModeWhole
<1> QED BY <1>1, <1>2, <1>3 DEF Wide

\* The default nonce of ChaCha20-Poly1305 and of EAX.
LEMMA ReadyAuto ==
  ASSUME NEW g, IsHandle(g), NEW m, Ready(g, m)
  PROVE  /\ mode = "poly1305" =>
              LET a == Poly1305AutoIv(g)
              IN  /\ PolyWhole(a, m) /\ IsHandle(a) /\ (~g.over => ~a.over)
                  /\ (~g.tag => ~a.tag) /\ (~g.aadfin => ~a.aadfin)
         /\ mode = "eax" =>
              LET a == EaxAutoIv(g)
              IN  EaxWhole(a, m) /\ IsHandle(a) /\ (~g.tag => ~a.tag) /\ a.keyno = g.keyno
         /\ mode = "ccm" => g.iv /\ CcmWhole(g, m)
<1>1. ASSUME mode = "poly1305"
      PROVE  LET a == Poly1305AutoIv(g)
             IN  /\ PolyWhole(a, m) /\ IsHandle(a) /\ (~g.over => ~a.over)
                 /\ (~g.tag => ~a.tag) /\ (~g.aadfin => ~a.aadfin)
  <2>1. g.iv => PolyWhole(g, m)
    BY <1>1 DEF Ready, ModeWhole
  <2>2. ~g.iv => m.key = g.keyno /\ m.iv = ZeroIv /\ m.clean /\ Fresh(m)
    BY <1>1 DEF Ready, Unspoiled
  <2> QED BY <2>1, <2>2, <1>1, PolyAuto
<1>2. ASSUME mode = "eax"
      PROVE  LET a == EaxAutoIv(g)
             IN  EaxWhole(a, m) /\ IsHandle(a) /\ (~g.tag => ~a.tag) /\ a.keyno = g.keyno
  <2>1. g.iv => EaxWhole(g, m)
    BY <1>2 DEF Ready, ModeWhole
  <2>2. ~g.iv => m.key = g.keyno /\ m.iv = ZeroIv /\ (m.clean => g.unused = 0) /\ Fresh(m)
    BY <1>2 DEF Ready, Unspoiled
  <2> QED BY <2>1, <2>2, <1>2, EaxAuto
<1>3. mode = "ccm" => g.iv /\ CcmWhole(g, m)
  BY DEF Ready, ModeWhole
<1> QED BY <1>1, <1>2, <1>3

\* The authenticate routines.
LEMMA ModeAad ==
  ASSUME mode \in Wide, NEW g, IsHandle(g), NEW m, Ready(g, m), NEW n \in Nat,
         NEW x, AadGiven(m, x, n), NEW inp, inp = AadBytes(m.no, m.aad, n),
         NEW r, r = Authenticate(g, inp)
  PROVE  /\ r.ok => ModeWhole(r.h, x)
         /\ ~r.ok => r.h = g \/ ModeWhole(r.h, m)
<1>1. CASE mode = "poly1305"
  <2>1. r = Poly1305Authenticate(g, inp)
    BY <1>1 DEF Authenticate
  <2>2. CASE g.over \/ g.aadfin \/ g.tag
    BY <2>1, <2>2 DEF Poly1305Authenticate, Refused, Result
  <2>3. CASE ~(g.over \/ g.aadfin \/ g.tag)
    <3> DEFINE a == Poly1305AutoIv(g)
    <3>1. r = Poly1305Aad([a EXCEPT !.aadlen = @ + Len(inp)], inp)
      BY <2>1, <2>3 DEF Poly1305Authenticate
    <3>2. PolyWhole(a, m) /\ IsHandle(a) /\ ~a.over /\ ~a.tag /\ ~a.aadfin
      BY <2>3, <1>1, ReadyAuto
    <3>3. MoreAad(m, x, n)
      BY <1>1, <3>2 DEF AadGiven, MoreAad, PolyWhole
    <3>4. mode = "poly1305" /\ n \in Nat /\ inp = AadBytes(m.no, m.aad, n)
      BY <1>1
    <3> HIDE DEF a
    <3>5. (r.ok => PolyWhole(r.h, x)) /\ (~r.ok => PolyWhole(r.h, m))
      BY ONLY <3>1, <3>2, <3>3, <3>4, PolyAadWhole
    <3> QED BY <3>5, <1>1 DEF ModeWhole
  <2> QED BY <2>2, <2>3
<1>2. CASE mode = "ccm"
  <2>1. r = CcmAuthenticate(g, inp)
    BY <1>2 DEF Authenticate
  <2>2. CcmWhole(g, m)
    BY <1>2, ReadyAuto
  <2>3. (r.ok => CcmWhole(r.h, x)) /\ (~r.ok => r.h = g)
    BY <2>1, <2>2, <1>2, CcmAadWhole
  <2> QED BY <2>3, <1>2 DEF ModeWhole
<1>3. CASE mode = "eax"
  <2>1. r = EaxAuthenticate(g, inp)
    BY <1>3 DEF Authenticate
  <2>2. CASE g.tag
    BY <2>1, <2>2 DEF EaxAuthenticate, Refused, Result
  <2>3. CASE ~g.tag
    <3> DEFINE a == EaxAutoIv(g)
               y == [a EXCEPT !.aad = CmacWrite(@, inp)]
    <3>1. r.ok /\ r.h = y
      BY <2>1, <2>3 DEF EaxAuthenticate, Done, Result
    <3>2. EaxWhole(a, m) /\ IsHandle(a) /\ ~a.tag
      BY <2>3, <1>3, ReadyAuto
    <3>3. MoreAad(m, x, n)
      BY <1>3 DEF AadGiven, MoreAad
    <3>4. mode = "eax" /\ n \in Nat /\ inp = AadBytes(m.no, m.aad, n)
      BY <1>3
    <3> HIDE DEF a
    <3>5. EaxWhole(y, x)
      BY ONLY <3>2, <3>3, <3>4, EaxAadWhole
    <3> QED BY <3>1, <3>5, <1>3 DEF ModeWhole
  <2> QED BY <2>2, <2>3
<1> QED BY <1>1, <1>2, <1>3 DEF Wide

\* The encrypt and decrypt routines; c is the message before it is known which.
LEMMA ModeCrypt ==
  ASSUME mode \in Wide, NEW g, IsHandle(g), NEW c, Ready(g, c), NEW m,
         NEW way \in {"encrypt", "decrypt"}, c.way \in {"none", way}, Turns(c, m, way),
         m.taglen = c.taglen, NEW n \in Nat, NEW inp, inp = DataBytes(m.no, m.data, n),
         NEW enc, enc = (way = "encrypt"), NEW r, r = Crypt(g, inp, enc),
         NEW x, MoreText(m, x, n, r.out), x.taglen = m.taglen
  PROVE  /\ r.ok => ModeWhole(r.h, x) /\ Returns(x, r.out)
         /\ ~r.ok => r.h = g \/ (ModeWhole(r.h, m) /\ ModeWhole(r.h, c))
<1>0. m.way = (IF enc THEN "encrypt" ELSE "decrypt") /\ enc \in BOOLEAN
  BY DEF Turns
<1>1. CASE mode = "poly1305"
  <2>1. r = Poly1305Crypt(g, inp, enc)
    BY <1>1 DEF Crypt
  <2>2. CASE g.tag \/ g.over
    BY <2>1, <2>2 DEF Poly1305Crypt, Refused, Result
  <2>3. CASE ~(g.tag \/ g.over)
    <3> DEFINE a == Poly1305AutoIv(g)
    <3>1. r = Poly1305CryptData(PolyBegin(a, inp), inp, enc)
      BY <2>1, <2>3 DEF Poly1305Crypt, PolyBegin
    <3>2. PolyWhole(a, c) /\ IsHandle(a) /\ ~a.over /\ ~a.tag
      BY <2>3, <1>1, ReadyAuto
    <3> HIDE DEF a
    <3>3. PolyWhole(a, m)
      BY <3>2, <1>1, PolyWay
    <3>4. /\ mode = "poly1305" /\ n \in Nat /\ inp = DataBytes(m.no, m.data, n)
          /\ (r.ok => MoreText(m, x, n, r.out))
      BY <1>1
    <3>5. PolyCrypts(r, m, c, x)
      BY ONLY <3>1, <3>2, <3>3, <3>4, <1>0, PolyCryptWhole
    <3> QED BY <3>5, <1>1 DEF ModeWhole, PolyCrypts
  <2> QED BY <2>2, <2>3
<1>2. CASE mode = "ccm"
  <2>1. r = CcmCrypt(g, inp, enc)
    BY <1>2 DEF Crypt
  <2>2. CcmWhole(g, c)
    BY <1>2, ReadyAuto
  <2>3. (~r.ok => r.h = g) /\ (r.ok => CcmWhole(r.h, x) /\ Returns(x, r.out))
    BY <2>1, <2>2, <1>2, CcmCryptWhole
  <2> QED BY <2>3, <1>2 DEF ModeWhole
<1>3. CASE mode = "eax"
  <2>1. r = EaxCrypt(g, inp, enc)
    BY <1>3 DEF Crypt
  <2>2. CASE g.tag
    BY <2>1, <2>2 DEF EaxCrypt, Refused, Result
  <2>3. CASE ~g.tag
    <3> DEFINE a == EaxAutoIv(g)
    <3>1. EaxWhole(a, c) /\ IsHandle(a) /\ ~a.tag /\ a.keyno = g.keyno
      BY <2>3, <1>3, ReadyAuto
    <3>2. r = EaxMacData(CtrEncrypt(a, inp, a.keyno), inp, enc)
      BY <2>1, <2>3, <3>1 DEF EaxCrypt
    <3>3. r.ok
      BY <3>2 DEF EaxMacData, Result
    <3> HIDE DEF a
    <3>4. EaxWhole(a, m)
      BY <3>1, <1>3, EaxWay
    <3>5. /\ mode = "eax" /\ n \in Nat /\ inp = DataBytes(m.no, m.data, n)
          /\ MoreText(m, x, n, r.out)
      BY <1>3
    <3>6. EaxWhole(r.h, x) /\ Returns(x, r.out)
      BY ONLY <3>1, <3>2, <3>4, <3>5, <1>0, EaxCryptWhole
    <3> QED BY <3>3, <3>6, <1>3 DEF ModeWhole
  <2> QED BY <2>2, <2>3
<1> QED BY <1>1, <1>2, <1>3 DEF Wide

\* The tag routines.  EAX makes a tag without a nonce, of which nothing is claimed.
LEMMA ModeTag ==
  ASSUME mode \in Wide, NEW g, IsHandle(g), NEW m, Ready(g, m), mode = "ccm" => m.taglen = msg.taglen,
         NEW check, NEW r, r = MakeTag(g, check)
  PROVE  /\ r.h.iv => r.h = g \/ ModeWhole(r.h, m)
         /\ r.ok /\ r.h.iv => ModeWhole(r.h, m) /\ (m.clean => r.h.val = Tag(m))
<1>1. CASE mode = "poly1305"
  <2>1. r = Poly1305Tag(g)
    BY <1>1 DEF MakeTag
  <2>2. CASE g.over
    BY <2>1, <2>2 DEF Poly1305Tag, Refused, Result
  <2>3. CASE ~g.over
    <3> DEFINE a == Poly1305AutoIv(g)
    <3>1. r = Poly1305Finish(Poly1305AadFinish(a))
      BY <2>1, <2>3 DEF Poly1305Tag
    <3>2. PolyWhole(a, m) /\ IsHandle(a) /\ ~a.over
      BY <2>3, <1>1, ReadyAuto
    <3> HIDE DEF a
    <3>3. PolyWhole(r.h, m) /\ r.h.val = Tag(m)
      BY <3>1, <3>2, <1>1, PolyTagWhole
    <3> QED BY <3>3, <1>1 DEF ModeWhole
  <2> QED BY <2>2, <2>3
<1>2. CASE mode = "ccm"
  <2>1. r = CcmTag(g, m.taglen)
    BY <1>2 DEF MakeTag
  <2>2. CcmWhole(g, m)
    BY <1>2, ReadyAuto
  <2>3. CcmWhole(r.h, m) /\ (r.ok /\ m.clean => r.h.val = Tag(m))
    BY <2>1, <2>2, <1>2, CcmTagWhole
  <2> QED BY <2>3, <1>2 DEF ModeWhole
<1>3. CASE mode = "eax"
  <2>1. r = EaxTag(g)
    BY <1>3 DEF MakeTag
  <2>2. r.h.iv = g.iv
    BY <2>1 DEF EaxTag, Done, Result, IsHandle, Fields
  <2>3. ASSUME g.iv PROVE EaxWhole(r.h, m) /\ (m.clean => r.h.val = Tag(m))
    <3>1. EaxWhole(g, m)
      BY <2>3, <1>3 DEF Ready, ModeWhole
    <3> QED BY <3>1, <2>1, <1>3, EaxTagWhole
  <2> QED BY <2>2, <2>3, <1>3 DEF ModeWhole
<1> QED BY <1>1, <1>2, <1>3 DEF Wide

-----------------------------------------------------------------------------
(* The invariant of these modes *)

\* What the properties say of a message and the last call.
Says(m, l) ==
  /\ l.op \in {"encrypt", "decrypt"} /\ l.ok =>
       l.value = SubSeq(Made(m), m.data - Len(l.value) + 1, m.data)
  /\ l.op = "gettag" /\ (mode = "gcmsiv" => ~m.refused) => l.value = Tag(m)
  /\ l.op = "checktag" /\ l.ok /\ (mode = "gcmsiv" => ~m.refused) => l.value = Tag(m)

\* What holds of the handle, the message and the last call in these modes.
WideGood(g, m, l) ==
  /\ m.whole => ModeWhole(g, m)
  /\ m.whole /\ m.clean => Says(m, l)

\* The invariant.
WideInv == mode \in Wide => WideGood(h, msg, last)

\* The mode never changes, so what depends on it is the same after a step.
LEMMA WidePrimed ==
  ASSUME mode \in Wide, mode' = mode, WideGood(h', msg', last')
  PROVE  WideInv'
<1>1. FirstCounter(msg)' = FirstCounter(msg')
  BY DEF FirstCounter, Omac, Wide
<1>2. \A i : Stream(msg, i)' = Stream(msg', i)
  BY <1>1 DEF Stream
<1>3. Made(msg)' = Made(msg')
  BY <1>2 DEF Made, OneShot, Wide
<1>4. CipherText(msg)' = CipherText(msg') /\ PlainText(msg)' = PlainText(msg')
  BY <1>3 DEF CipherText, PlainText
<1>5. Tag(msg)' = Tag(msg')
  <2>1. CASE mode = "ccm"
    BY <2>1, <1>1, <1>4 DEF Tag, OneShot
  <2>2. CASE mode = "eax"
    BY <2>2, <1>1, <1>4 DEF Tag, OneShot, Omac
  <2>3. CASE mode = "poly1305"
    BY <2>3, <1>1, <1>4 DEF Tag, OneShot
  <2> QED BY <2>1, <2>2, <2>3 DEF Wide
<1>6. LoOf(msg)' = LoOf(msg')
  BY <1>1 DEF LoOf
<1>7. \A b, i : StreamByte(msg'.key, b, LoOf(msg'), i) = StreamByte(msg.key, b, LoOf(msg), i)'
  BY <1>6 DEF StreamByte, CtrOf
<1>8. \A b, q : Placed(h', msg'.key, b, LoOf(msg'), msg'.data, q)
                  => Placed(h, msg.key, b, LoOf(msg), msg.data, q)'
  BY <1>6 DEF Placed, CtrOf
<1>9. InStream(h', msg', FirstCounter(msg').base) => InStream(h, msg, FirstCounter(msg).base)'
  <2>1. ASSUME NEW b PROVE InStream(h', msg', b) => InStream(h, msg, b)'
    <3>1. \A i : StreamByte(msg'.key, b, LoOf(msg'), i) = StreamByte(msg.key, b, LoOf(msg), i)'
      BY <1>7
    <3>2. \A q : Placed(h', msg'.key, b, LoOf(msg'), msg'.data, q)
                   => Placed(h, msg.key, b, LoOf(msg), msg.data, q)'
      BY <1>8
    <3> QED BY <3>1, <3>2, <1>1 DEF InStream
  <2>2. PICK b : b = FirstCounter(msg').base
    OBVIOUS
  <2>3. InStream(h', msg', b) => InStream(h, msg, b)'
    BY <2>1
  <2> QED BY <2>2, <2>3, <1>1 DEF InStream
<1>10. PolyWhole(h', msg') => PolyWhole(h, msg)'
  <2>1. PolyMac(h', msg') => PolyMac(h, msg)'
    BY <1>4 DEF PolyMac, AadOf
  <2> QED BY <2>1, <1>5, <1>9 DEF PolyWhole
<1>11. CcmWhole(h', msg') => CcmWhole(h, msg)'
  <2>1. CcmPre(h, msg)' = CcmPre(h', msg')
    BY DEF CcmPre, CcmHead, AadOf
  <2>2. CcmMac(h', msg') => CcmMac(h, msg)'
    BY <2>1, <1>1, <1>4 DEF CcmMac
  <2> QED BY <2>2, <1>1, <1>5, <1>9 DEF CcmWhole, Fresh
<1>12. EaxWhole(h', msg') => EaxWhole(h, msg)'
  <2>1. EaxMac(h', msg') => EaxMac(h, msg)'
    BY <1>4 DEF EaxMac, AadOf, Omac
  <2>2. UsedAll(msg') => UsedAll(msg)'
    BY <1>1, <1>7 DEF UsedAll
  <2>3. (\E q : Placed(h', msg'.key, FirstCounter(msg').base, LoOf(msg'), msg'.data, q))
          => (\E q : Placed(h, msg.key, FirstCounter(msg).base, LoOf(msg), msg.data, q))'
    BY <1>1, <1>8
  <2> QED BY <2>1, <2>2, <2>3, <1>5 DEF EaxWhole
<1>13. ModeWhole(h', msg') => ModeWhole(h, msg)'
  BY <1>10, <1>11, <1>12 DEF ModeWhole
<1>14. Says(msg', last') => Says(msg, last)'
  BY <1>3, <1>5 DEF Says
<1> QED BY <1>13, <1>14 DEF WideInv, WideGood

\* The invariant says what the properties do.
LEMMA WideSays ==
  ASSUME mode \in Wide, WideInv
  PROVE  Exact /\ Verified
<1>1. msg.whole /\ msg.clean => Says(msg, last)
  BY DEF WideInv, WideGood
<1>2. mode \notin OneShot
  BY DEF Wide, OneShot
<1> QED BY <1>1, <1>2 DEF Says, Exact, Verified, Tracked, OutputRight, TagRight

\* A step that returned nothing.
LEMMA WideQuiet ==
  ASSUME NEW g, NEW m, m.whole => ModeWhole(g, m)
  PROVE  WideGood(g, m, Nothing)
  BY DEF WideGood, Nothing, Says

\* The message that is begun now.
LEMMA WideBegins ==
  ASSUME mode \in Wide, RestInv, NEW no, NEW iv, NEW m, m = Message(no, iv, h, Clean)
  PROVE  m.key = h.keyno /\ m.iv = iv /\ Fresh(m) /\ Unspoiled(h, m)
<1>1. m.key = h.keyno /\ m.iv = iv /\ Fresh(m) /\ m.clean = Clean
  BY DEF Message, Fresh
<1>2. mode = "poly1305" => Clean
  BY DEF Clean
<1>3. mode = "eax" /\ Clean => h.unused = 0
  BY RestClean DEF RestInv
<1> HIDE DEF Clean
<1> QED BY <1>1, <1>2, <1>3 DEF Unspoiled

\* The message of the next call.
LEMMA WideCurrent ==
  ASSUME mode \in Wide, RestInv, WideGood(h, msg, last), Current.whole
  PROVE  Ready(h, Current)
<1>1. CASE h.iv
  <2>1. Current = msg
    BY <1>1 DEF Current
  <2> QED BY <2>1, <1>1 DEF Ready, WideGood
<1>2. CASE ~h.iv /\ mode = "ccm"
  <2>1. Current = msg
    BY <1>2 DEF Current, AutoIv
  <2>2. h.iv
    BY <2>1, WholeHasIv DEF WideGood
  <2> QED BY <2>2, <1>2
<1>3. CASE ~h.iv /\ mode # "ccm"
  <2>1. Current = Message(msg.no + 1, ZeroIv, h, Clean)
    BY <1>3 DEF Current, AutoIv, Wide
  <2> QED BY <2>1, <1>3, WideBegins DEF Ready
<1> QED BY <1>1, <1>2, <1>3

\* gcry_cipher_setiv
LEMMA WideSetIvGood ==
  ASSUME mode \in Wide, RestInv, IsHandle(h), NEW hashed, SetIv(hashed)
  PROVE  WideGood(h', msg', last')
<1> DEFINE iv == Nonce(msg.no + 1, hashed)
           m == Message(msg.no + 1, iv, h, Clean)
           r == Setiv(h, iv)
<1>1. /\ h' = r.h /\ last' = Nothing
      /\ msg' = IF ~r.ok THEN msg ELSE m
  <2> HIDE DEF r, iv
  <2>1. mode # "siv"
    BY DEF Wide
  <2>2. Setiv(h, iv) = r
    BY DEF r
  <2> QED BY <2>1, <2>2 DEF SetIv, iv
<1> HIDE DEF iv
<1>2. m.key = h.keyno /\ m.iv = iv /\ Fresh(m) /\ Unspoiled(h, m)
  BY WideBegins
<1> HIDE DEF m
<1>3. r = Setiv(h, m.iv)
  BY <1>2
<1> HIDE DEF r
<1>4. r.ok /\ ModeWhole(r.h, m)
  BY <1>2, <1>3, ModeSetIv
<1> QED BY <1>1, <1>4, WideQuiet

\* gcry_cipher_authenticate
LEMMA WideAuthGood ==
  ASSUME mode \in Wide, RestInv, IsHandle(h), DOMAIN msg = MsgFields, WideGood(h, msg, last),
         NEW n \in Nat, DoAuthenticate(n)
  PROVE  WideGood(h', msg', last')
<1> DEFINE m == Current
           inp == AadBytes(m.no, m.aad, n)
           r == Authenticate(h, inp)
           x == [m EXCEPT !.aad = @ + n,
                          !.parts = IF mode = "siv" THEN Append(@, inp) ELSE @,
                          !.clean = @ /\ (mode = "ccm" => m.data = 0)]
<1>1. /\ h' = r.h /\ last' = Nothing
      /\ msg' = IF r.ok THEN x ELSE IF r.h.iv # h.iv THEN m ELSE msg
  <2>1. Authenticate(h, inp) = r
    OBVIOUS
  <2> HIDE DEF r
  <2> QED BY <2>1, Zenon DEF DoAuthenticate
<1>2. DOMAIN m = MsgFields /\ (h.iv => m = msg)
  BY CurrentIs
<1>3. m.whole => Ready(h, m)
  BY WideCurrent
<1> HIDE DEF m
<1>4. AadGiven(m, x, n) /\ x.whole = m.whole
  BY <1>2 DEF AadGiven, MsgFields
<1> HIDE DEF x
<1>5. ASSUME m.whole
      PROVE  (r.ok => ModeWhole(r.h, x)) /\ (~r.ok => r.h = h \/ ModeWhole(r.h, m))
  <2>1. mode \in Wide /\ IsHandle(h) /\ Ready(h, m) /\ n \in Nat /\ AadGiven(m, x, n)
    BY <1>3, <1>4, <1>5
  <2> QED BY ONLY <2>1, ModeAad
<1> HIDE DEF r
<1>6. msg.whole => ModeWhole(h, msg) /\ h.iv
  BY WholeHasIv DEF WideGood
<1>7. msg'.whole => ModeWhole(h', msg')
  <2>1. CASE r.ok
    BY <2>1, <1>1, <1>4, <1>5
  <2>2. CASE ~r.ok /\ r.h.iv # h.iv
    BY <2>2, <1>1, <1>5
  <2>3. CASE ~r.ok /\ r.h.iv = h.iv
    BY <2>3, <1>1, <1>2, <1>5, <1>6
  <2> QED BY <2>1, <2>2, <2>3
<1> QED BY <1>1, <1>7, WideQuiet

\* gcry_cipher_encrypt and gcry_cipher_decrypt
LEMMA WideCryptGood ==
  ASSUME mode \in Wide, RestInv, IsHandle(h), DOMAIN msg = MsgFields, WideGood(h, msg, last),
         NEW n \in Nat, NEW way \in {"encrypt", "decrypt"}, DoCrypt(n, way)
  PROVE  WideGood(h', msg', last')
<1> DEFINE c == Current
           m == [c EXCEPT !.way = way]
           inp == DataBytes(m.no, m.data, n)
           enc == way = "encrypt"
           r == Crypt(h, inp, enc)
           x == [m EXCEPT !.data = @ + n, !.used = @ \cup {r.out[i][2] : i \in 1..n}]
<1>1. /\ h' = r.h /\ c.way \in {"none", way}
      /\ msg' = IF r.ok THEN x ELSE IF r.h.iv # h.iv THEN m ELSE msg
      /\ last' = IF r.ok THEN [op |-> way, ok |-> r.ok, value |-> r.out, tag |-> h.tagiv]
                 ELSE Nothing
  <2>0. mode \notin OneShot /\ mode \notin OneShot \cup {"ocb"} /\ mode # "siv" /\ mode # "gcmsiv"
    BY DEF OneShot, Wide
  <2>1. Input(m, n) = inp
    BY <2>0 DEF Input
  <2>2. Crypt(h, inp, enc) = r
    OBVIOUS
  <2>3. Crypted(m, n, r) = IF r.ok THEN x ELSE IF r.h.iv # h.iv THEN m ELSE msg
    <3> HIDE DEF r, m
    <3> QED BY <2>0 DEF Crypted
  <2> HIDE DEF r, inp
  <2>4. /\ h' = r.h /\ c.way \in {"none", way} /\ msg' = Crypted(m, n, r)
        /\ last' = IF r.ok \/ (mode \in OneShot /\ way = "decrypt")
                   THEN [op |-> way, ok |-> r.ok, value |-> r.out, tag |-> h.tagiv]
                   ELSE Nothing
    BY <2>1, <2>2, Zenon DEF DoCrypt
  <2> QED BY <2>0, <2>3, <2>4
<1>2. DOMAIN c = MsgFields /\ (h.iv => c = msg)
  BY CurrentIs
<1>3. c.whole => Ready(h, c)
  BY WideCurrent
<1> HIDE DEF c
<1>4. Turns(c, m, way) /\ m.whole = c.whole /\ m.taglen = c.taglen /\ DOMAIN m = MsgFields
  BY <1>2 DEF Turns, MsgFields
<1> HIDE DEF m
<1>5. r = Crypt(h, inp, enc) /\ inp = DataBytes(m.no, m.data, n) /\ enc = (way = "encrypt")
  OBVIOUS
<1> HIDE DEF r, inp, enc
<1>6. MoreText(m, x, n, r.out) /\ x.whole = m.whole /\ x.taglen = m.taglen
  BY <1>4 DEF MoreText, MoreData, MsgFields
<1> HIDE DEF x
<1>7. ASSUME m.whole
      PROVE  /\ r.ok => ModeWhole(r.h, x) /\ Returns(x, r.out)
             /\ ~r.ok => r.h = h \/ (ModeWhole(r.h, m) /\ ModeWhole(r.h, c))
  <2>1. /\ mode \in Wide /\ IsHandle(h) /\ Ready(h, c) /\ n \in Nat
        /\ way \in {"encrypt", "decrypt"} /\ c.way \in {"none", way}
    BY <1>1, <1>3, <1>4, <1>7
  <2> QED BY ONLY <2>1, <1>4, <1>5, <1>6, ModeCrypt
<1>8. msg.whole => ModeWhole(h, msg) /\ h.iv
  BY WholeHasIv DEF WideGood
<1>9. CASE r.ok
  <2>1. /\ msg' = x /\ h' = r.h
        /\ last' = [op |-> way, ok |-> r.ok, value |-> r.out, tag |-> h.tagiv]
    BY <1>1, <1>9
  <2>2. last'.op = way /\ last'.value = r.out
    BY <2>1
  <2>3. x.whole => ModeWhole(r.h, x) /\ Returns(x, r.out)
    BY <1>6, <1>7, <1>9
  <2> QED BY <2>1, <2>2, <2>3 DEF WideGood, Returns, Says
<1>10. CASE ~r.ok
  <2>1. msg'.whole => ModeWhole(h', msg')
    <3>1. CASE r.h.iv # h.iv
      BY <3>1, <1>1, <1>7, <1>10
    <3>2. CASE r.h.iv = h.iv
      BY <3>2, <1>1, <1>2, <1>4, <1>7, <1>8, <1>10
    <3> QED BY <3>1, <3>2
  <2> QED BY <2>1, <1>1, <1>10, WideQuiet
<1> QED BY <1>9, <1>10

\* gcry_cipher_gettag and gcry_cipher_checktag.  l is what the call returns.
LEMMA WideTagGood ==
  ASSUME mode \in Wide, RestInv, IsHandle(h), DOMAIN msg = MsgFields, WideGood(h, msg, last),
         NEW check, NEW r, r = MakeTag(h, check), NEW l,
         \/ ~r.ok /\ l = Nothing
         \/ r.ok /\ l.op = "gettag" /\ l.value = r.h.val
         \/ r.ok /\ l.op = "checktag" /\ (l.ok => r.h.val = l.value),
         NEW x, x = IF r.h.iv # h.iv THEN Current ELSE msg
  PROVE  WideGood(r.h, x, l)
<1> DEFINE m == Current
<1>1. m.whole => Ready(h, m)
  BY WideCurrent
<1>2. (h.iv => m = msg) /\ (mode = "ccm" => m.taglen = msg.taglen)
  BY DEF Current, AutoIv
<1>3. x = IF r.h.iv # h.iv THEN m ELSE msg
  OBVIOUS
<1> HIDE DEF m
<1>4. ASSUME m.whole
      PROVE  /\ r.h.iv => r.h = h \/ ModeWhole(r.h, m)
             /\ r.ok /\ r.h.iv => ModeWhole(r.h, m) /\ (m.clean => r.h.val = Tag(m))
  BY <1>1, <1>2, <1>4, ModeTag
<1>5. msg.whole => ModeWhole(h, msg) /\ h.iv
  BY WholeHasIv DEF WideGood
<1>6. r.h.iv = h.iv \/ (~h.iv /\ r.h.iv)
  <2>1. CASE mode = "poly1305"
    <3>1. r = Poly1305Tag(h)
      BY <2>1 DEF MakeTag
    <3> DEFINE a == Poly1305AutoIv(h)
               f == Poly1305AadFinish(a)
    <3>2. IsHandle(a) /\ (a.iv = h.iv \/ (~h.iv /\ a.iv))
      BY DEF Poly1305AutoIv, Poly1305Setiv, Done, Result, IsHandle, Fields
    <3>3. r = IF h.over THEN Refused(h) ELSE Poly1305Finish(f)
      BY <3>1 DEF Poly1305Tag
    <3> HIDE DEF a
    <3>4. IsHandle(f) /\ f.iv = a.iv
      BY <3>2 DEF Poly1305AadFinish, IsHandle, Fields
    <3> HIDE DEF f
    <3>5. Poly1305Finish(f).h.iv = f.iv
      BY <3>4 DEF Poly1305Finish, Poly1305TagFrom, Done, Result, IsHandle, Fields
    <3> QED BY <3>2, <3>3, <3>4, <3>5 DEF Refused, Result
  <2>2. CASE mode = "ccm"
    <3>1. r = CcmTag(h, msg.taglen)
      BY <2>2 DEF MakeTag
    <3> QED BY <3>1 DEF CcmTag, CcmTagFrom, Refused, Done, Result, IsHandle, Fields
  <2>3. CASE mode = "eax"
    <3>1. r = EaxTag(h)
      BY <2>3 DEF MakeTag
    <3> QED BY <3>1 DEF EaxTag, Refused, Done, Result, IsHandle, Fields
  <2> QED BY <2>1, <2>2, <2>3 DEF Wide
<1>7. ASSUME x.whole
      PROVE  r.h.iv /\ m.whole /\ x = m /\ (r.h = h => ModeWhole(h, x))
  <2>1. CASE r.h.iv # h.iv
    BY <2>1, <1>2, <1>3, <1>5, <1>6, <1>7
  <2>2. CASE r.h.iv = h.iv
    BY <2>2, <1>2, <1>3, <1>5, <1>7
  <2> QED BY <2>1, <2>2
<1>8. x.whole => ModeWhole(r.h, x) /\ (r.ok /\ x.clean => r.h.val = Tag(x))
  BY <1>4, <1>7
<1> QED BY <1>8 DEF WideGood, Says, Nothing

\* The invariant holds of an opened handle.
LEMMA WideInit == Init => WideInv
<1> SUFFICES ASSUME Init PROVE WideInv
  OBVIOUS
<1>1. PICK fips \in BOOLEAN : h = [Opened EXCEPT !.fips = fips]
  BY DEF Init
<1>2. h.key = FALSE
  BY <1>1 DEF Opened
<1>3. msg.whole = FALSE
  BY <1>2 DEF Init, Message
<1> QED BY <1>3 DEF WideInv, WideGood

\* Every call keeps it.
LEMMA WideNext == GenInv /\ RestInv /\ WideInv /\ [Next]_vars => WideInv'
<1> SUFFICES ASSUME GenInv, RestInv, WideInv, [Next]_vars PROVE WideInv'
  OBVIOUS
<1>a. IsHandle(h) /\ DOMAIN msg = MsgFields
  BY DEF GenInv
<1>m. mode' = mode
  BY DEF Next, SetKey, SetBadKey, SetEmptyIv, GenIv, GetTag, Finalize, Reset, SetIv, DoAuthenticate,
         DoCrypt, CheckTag, SetLengths, SetTaglen, SetDecryptionTag, vars
<1>b. CASE mode \notin Wide
  BY <1>m, <1>b DEF WideInv, Wide
<1>c. CASE mode \in Wide
  <2>0. WideGood(h, msg, last)
    BY <1>c DEF WideInv
  <2>p. WideGood(h', msg', last') => WideInv'
    BY <1>c, <1>m, WidePrimed
  <2>q. mode # "siv" /\ mode # "gcm" /\ mode # "ocb" /\ mode \notin OneShot
    BY <1>c DEF Wide, OneShot
  <2>w. ~msg'.whole => WideGood(h', msg', last')
    BY DEF WideGood
  <2>1. CASE SetKey
    <3>1. msg' = [msg EXCEPT !.whole = FALSE]
      BY <2>1, <2>q DEF SetKey, NextMessage
    <3> QED BY <3>1, <1>a, <2>p, <2>w DEF MsgFields
  <2>2. CASE SetBadKey
    <3>1. msg' = [msg EXCEPT !.whole = FALSE]
      BY <2>2, <2>q DEF SetBadKey
    <3> QED BY <3>1, <1>a, <2>p, <2>w DEF MsgFields
  <2>3. CASE GenIv \/ SetEmptyIv
    BY <2>3, <2>q DEF GenIv, SetEmptyIv
  <2>4. CASE GetTag
    <3> DEFINE r == MakeTag(h, FALSE)
    <3>1. /\ h' = r.h /\ msg' = IF r.h.iv # h.iv THEN Current ELSE msg
          /\ last' = IF r.ok THEN Returned("gettag", TRUE, r.h.val) ELSE Nothing
      <4>1. MakeTag(h, FALSE) = r
        OBVIOUS
      <4> HIDE DEF r
      <4> QED BY <4>1, <2>4, Zenon DEF GetTag
    <3>2. r = MakeTag(h, FALSE)
      OBVIOUS
    <3> HIDE DEF r
    <3>3. \/ ~r.ok /\ last' = Nothing
          \/ r.ok /\ last'.op = "gettag" /\ last'.value = r.h.val
      BY <3>1 DEF Returned
    <3>4. WideGood(r.h, msg', last')
      BY <3>1, <3>2, <3>3, <2>0, <1>a, <1>c, WideTagGood
    <3> QED BY <3>1, <3>4, <2>p
  <2>5. CASE Finalize
    BY <2>5, <2>q DEF Finalize
  <2>6. CASE Reset
    <3>1. msg' = Forgotten([msg EXCEPT !.whole = FALSE])
      BY <2>6, <2>q DEF Reset, NextMessage
    <3> QED BY <3>1, <1>a, <2>p, <2>w DEF MsgFields, Forgotten
  <2>7. ASSUME NEW hashed \in BOOLEAN, SetIv(hashed) PROVE WideInv'
    BY <2>7, <2>p, <1>a, <1>c, WideSetIvGood
  <2>8. ASSUME NEW n \in AadChunks, DoAuthenticate(n) PROVE WideInv'
    <3>1. n \in Nat
      BY HandleAssumption
    <3> QED BY <3>1, <2>8, <2>0, <2>p, <1>a, <1>c, WideAuthGood
  <2>9. ASSUME NEW n \in DataChunks, NEW way \in {"encrypt", "decrypt"}, DoCrypt(n, way)
        PROVE  WideInv'
    <3>1. n \in Nat
      BY HandleAssumption
    <3> QED BY <3>1, <2>9, <2>0, <2>p, <1>a, <1>c, WideCryptGood
  <2>10. ASSUME NEW forged \in BOOLEAN, CheckTag(forged) PROVE WideInv'
    <3> DEFINE r == MakeTag(h, TRUE)
    <3>1. PICK tag : /\ h' = r.h /\ msg' = IF r.h.iv # h.iv THEN Current ELSE msg
                     /\ last' = IF r.ok THEN Returned("checktag", r.h.val = tag, tag)
                                ELSE Nothing
      <4>1. MakeTag(h, TRUE) = r
        OBVIOUS
      <4> HIDE DEF r
      <4> QED BY <4>1, <2>10, Zenon DEF CheckTag
    <3>2. r = MakeTag(h, TRUE)
      OBVIOUS
    <3> HIDE DEF r
    <3>3. \/ ~r.ok /\ last' = Nothing
          \/ r.ok /\ last'.op = "checktag" /\ (last'.ok => r.h.val = last'.value)
      BY <3>1 DEF Returned
    <3>4. WideGood(r.h, msg', last')
      BY <3>1, <3>2, <3>3, <2>0, <1>a, <1>c, WideTagGood
    <3> QED BY <3>1, <3>4, <2>p
  <2>11. ASSUME NEW data \in DataChunks, NEW aad \in AadChunks, SetLengths(data, aad)
         PROVE  WideInv'
    <3> DEFINE r == CcmSetLengths(h, data, aad, msg.taglen)
    <3>1. mode = "ccm" /\ r.ok /\ h' = r.h /\ msg' = msg /\ last' = Nothing
      BY <2>11 DEF SetLengths
    <3>2. data \in Nat /\ aad \in Nat
      BY HandleAssumption
    <3>3. msg.whole => CcmWhole(h, msg)
      BY <2>0, <3>1 DEF WideGood, ModeWhole
    <3>4. msg.whole => CcmWhole(r.h, msg)
      BY <3>1, <3>2, <3>3, <1>a, CcmLengths
    <3>5. msg.whole => ModeWhole(r.h, msg)
      BY <3>1, <3>4 DEF ModeWhole
    <3> HIDE DEF r
    <3> QED BY <3>1, <3>5, <2>p, WideQuiet
  <2>12. ASSUME NEW n \in {8, 16}, SetTaglen(n) PROVE WideInv'
    BY <2>12, <2>q DEF SetTaglen
  <2>13. ASSUME NEW n \in DataChunks, NEW forged \in BOOLEAN, SetDecryptionTag(n, forged)
         PROVE  WideInv'
    BY <2>13, <2>q DEF SetDecryptionTag
  <2>14. CASE UNCHANGED vars
    <3>1. h' = h /\ msg' = msg /\ last' = last
      BY <2>14 DEF vars
    <3> QED BY <3>1, <2>0, <2>p
  <2> QED BY <2>1, <2>2, <2>3, <2>4, <2>5, <2>6, <2>7, <2>8, <2>9, <2>10, <2>11,
             <2>12, <2>13, <2>14 DEF Next
<1> QED BY <1>b, <1>c

-----------------------------------------------------------------------------
(* Their key stream is used once *)

\* No two bytes of a stream whose counter runs over with carry are the same.
LEMMA WideApart ==
  ASSUME mode # "gcm", NEW k, NEW base, NEW lo \in Int, lo + 1 \in Nat, NEW d \in Nat,
         NEW i \in 1..d, NEW j \in 1..d, StreamByte(k, base, lo, i) = StreamByte(k, base, lo, j)
  PROVE  i = j
<1> DEFINE p == (i - 1) \div BlockLen
           q == (j - 1) \div BlockLen
           s == (i - 1) % BlockLen
           t == (j - 1) % BlockLen
           l == lo + 1
<1>1. CtrMod \in Nat \ {0} /\ BlockLen \in Nat \ {0} /\ l \in Nat
  BY ModesAssumption, BlockLenAssumption
<1>2. /\ StreamByte(k, base, lo, i) = <<"ks", k, base, (l + p) \div CtrMod, (l + p) % CtrMod, s + 1>>
      /\ StreamByte(k, base, lo, j) = <<"ks", k, base, (l + q) \div CtrMod, (l + q) % CtrMod, t + 1>>
  BY DEF StreamByte, KeyByte, CtrOf
<1>3. /\ p \in Nat /\ s \in 0..(BlockLen - 1) /\ i - 1 = BlockLen * p + s
      /\ q \in Nat /\ t \in 0..(BlockLen - 1) /\ j - 1 = BlockLen * q + t
  <2>1. i - 1 \in Nat /\ j - 1 \in Nat
    OBVIOUS
  <2> QED BY <2>1, <1>1, DivMod
<1> HIDE DEF p, q, s, t, l
<1>4. (l + p) \div CtrMod = (l + q) \div CtrMod /\ (l + p) % CtrMod = (l + q) % CtrMod /\ s + 1 = t + 1
  <2>1. ASSUME NEW a1, NEW b1, NEW c1, NEW a2, NEW b2, NEW c2,
               <<"ks", k, base, a1, b1, c1>> = <<"ks", k, base, a2, b2, c2>>
        PROVE  a1 = a2 /\ b1 = b2 /\ c1 = c2
    BY <2>1
  <2>2. <<"ks", k, base, (l + p) \div CtrMod, (l + p) % CtrMod, s + 1>>
          = <<"ks", k, base, (l + q) \div CtrMod, (l + q) % CtrMod, t + 1>>
    BY <1>2
  <2> QED BY ONLY <2>1, <2>2
<1>5. l + p = l + q
  <2> DEFINE x == l + p
             y == l + q
  <2>1. x \in Nat /\ y \in Nat
    BY <1>1, <1>3
  <2>2. x \div CtrMod = y \div CtrMod /\ x % CtrMod = y % CtrMod
    BY <1>4
  <2> HIDE DEF x, y
  <2>3. x = CtrMod * (x \div CtrMod) + (x % CtrMod) /\ y = CtrMod * (y \div CtrMod) + (y % CtrMod)
    BY <2>1, <1>1, DivMod
  <2>4. x = y
    BY ONLY <2>2, <2>3
  <2> QED BY <2>4 DEF x, y
<1>6. p = q /\ s = t
  BY <1>1, <1>3, <1>4, <1>5
<1>7. i - 1 = j - 1
  BY <1>3, <1>6
<1> QED BY <1>7

\* As many bytes were used as the message has.
LEMMA WideOnce ==
  ASSUME mode \in Wide, NEW d, d = msg.data, d \in Nat, UsedAll(msg)
  PROVE  Cardinality(msg.used) = d
<1> DEFINE k == msg.key
           base == FirstCounter(msg).base
           lo == LoOf(msg)
           S(i) == StreamByte(k, base, lo, i)
           f == [i \in 1..d |-> S(i)]
<1>1. mode # "gcm" /\ lo \in Int /\ lo + 1 \in Nat
  <2>1. lo = 0 \/ lo = -1
    BY PolyCounter, CcmCounter, EaxCounter DEF Wide
  <2> HIDE DEF lo
  <2> QED BY <2>1 DEF Wide
<1>2. msg.used = {S(i) : i \in 1..d}
  BY DEF UsedAll
<1> HIDE DEF k, base, lo
<1>3. \A i \in 1..d : \A j \in 1..d : S(i) = S(j) => i = j
  <2>1. d \in Nat
    OBVIOUS
  <2> QED BY ONLY <1>1, <2>1, WideApart
<1> HIDE DEF S
<1>4. f \in Bijection(1..d, msg.used)
  <2>1. f \in [1..d -> msg.used]
    BY <1>2
  <2>2. f \in Injection(1..d, msg.used)
    BY <2>1, <1>3 DEF Injection, IsInjective
  <2>3. f \in Surjection(1..d, msg.used)
    BY <2>1, <1>2 DEF Surjection
  <2> QED BY <2>2, <2>3 DEF Bijection
<1>5. ExistsBijection(1..d, msg.used)
  BY <1>4 DEF ExistsBijection
<1> QED BY <1>5, FS_CountingElements

\* The invariant says that the key stream is used once.
LEMMA WideStreamOnce ==
  ASSUME WideInv, mode \in Wide, mode = "eax" => msg.clean
  PROVE  StreamOnce
<1>1. ASSUME msg.whole, msg.data > 0
      PROVE  Cardinality(msg.used) = msg.data
  <2>1. ModeWhole(h, msg)
    BY <1>1 DEF WideInv, WideGood
  <2>2. UsedAll(msg) /\ msg.data \in Nat
    <3>1. CASE mode = "poly1305"
      BY <3>1, <2>1 DEF ModeWhole, PolyWhole, InStream, UsedAll
    <3>2. CASE mode = "ccm"
      BY <3>2, <2>1, <1>1 DEF ModeWhole, CcmWhole, InStream, UsedAll, Fresh
    <3>3. CASE mode = "eax"
      BY <3>3, <2>1 DEF ModeWhole, EaxWhole
    <3> QED BY <3>1, <3>2, <3>3 DEF Wide
  <2> QED BY <2>2, WideOnce
<1>2. mode # "gcm"
  BY DEF Wide
<1> QED BY <1>1, <1>2 DEF StreamOnce

-----------------------------------------------------------------------------
(* The one-shot modes *)

\* Exclusive or twice with the same byte, and with two different ones.
LEMMA XorIs ==
  ASSUME NEW j, NEW k, NEW no, NEW i
  PROVE  LET d == <<"d", no, i>>
         IN  /\ Xor(k, d) = <<"xor", k, d>> /\ Xor(k, Xor(k, d)) = d
             /\ j # k => Xor(j, Xor(k, d)) = <<"xor", j, <<"xor", k, d>> >>
<1> DEFINE d == <<"d", no, i>>
           e == <<"xor", k, d>>
<1>1. d[1] = "d"
  OBVIOUS
<1> HIDE DEF d
<1>2. Xor(k, d) = e
  BY <1>1 DEF Xor
<1>3. e[1] = "xor" /\ e[2] = k /\ e[3] = d
  OBVIOUS
<1> HIDE DEF e
<1>4. Xor(k, e) = d /\ (j # k => Xor(j, e) = <<"xor", j, e>>)
  BY <1>3 DEF Xor
<1> QED BY <1>2, <1>4 DEF d, e

\* The data of a one-shot message and what becomes of it.
LEMMA ShotText ==
  ASSUME mode \in OneShot, NEW m
  PROVE  /\ PlainText(m) = Given(m) /\ Tag(m) = SivTag(m, Given(m))
         /\ m.way = "decrypt" => Made(m) = Given(m)
         /\ m.way # "decrypt" => Made(m) = SivCipher(m, Given(m))
<1>1. PlainText(m) = Given(m)
  BY DEF PlainText, Made
<1>2. Tag(m) = SivTag(m, PlainText(m))
  BY DEF Tag, OneShot
<1> QED BY <1>1, <1>2 DEF Made

\* The whole of a sequence.
LEMMA SubSeqAll ==
  ASSUME NEW s, IsSeq(s), NEW n, Len(s) = n
  PROVE  s = SubSeq(s, n - Len(s) + 1, n)
<1>1. n \in Nat /\ n - Len(s) + 1 = 1
  BY IsSeqLen
<1>2. PICK S : s \in Seq(S)
  BY DEF IsSeq
<1> DEFINE t == SubSeq(s, 1, n)
<1>3. IsSeq(t) /\ Len(t) = n /\ \A i \in 1..n : t[i] = s[i]
  <2>1. t = [i \in 1..n |-> s[i]]
    BY <1>1, <1>2
  <2> HIDE DEF t
  <2>2. DOMAIN t = 1..n /\ t = [i \in 1..n |-> t[i]]
    BY <2>1
  <2> QED BY <2>1, <2>2, <1>1, SeqFcn
<1> HIDE DEF t
<1>4. t = s
  BY <1>1, <1>3, SeqSame
<1> QED BY <1>1, <1>4 DEF t

\* The message x is m with all of its data.
ShotMore(m, x, n) ==
  /\ x.no = m.no /\ x.key = m.key /\ x.iv = m.iv /\ x.parts = m.parts /\ x.aad = m.aad
  /\ x.clean = m.clean /\ x.way = m.way /\ x.data = m.data + n /\ x.refused = m.refused

\* A tag the caller gives: one of a message, or none.
ShotGiven(t) ==
  t = Forged \/ \E x : x.aad \in Nat /\ \E n \in Nat : t = SivTag(x, DataBytes(x.no, 0, n))

\* Two key streams over the data, one after the other: if they are the same the data is
\* back, and if they differ everywhere what comes out is the data of no message.
LEMMA TwiceXor ==
  ASSUME NEW no, NEW n \in Nat, NEW d, d = DataBytes(no, 0, n), NEW c, NEW o, IsSeq(o),
         Len(o) = n, NEW kt, NEW kv,
         \A i \in 1..n : c[i] = Xor(kt[i], d[i]) /\ o[i] = Xor(kv[i], c[i])
  PROVE  /\ (\A i \in 1..n : kv[i] = kt[i]) => o = d
         /\ n # 0 /\ kv[1] # kt[1] => o[1][1] = "xor"
         /\ n = 0 => o = d
<1>1. IsSeq(d) /\ Len(d) = n /\ \A i \in 1..n : d[i] = <<"d", no, 0 + i>>
  BY DataIs
<1>2. ASSUME NEW i \in 1..n
      PROVE  /\ kv[i] = kt[i] => o[i] = d[i]
             /\ kv[i] # kt[i] => o[i][1] = "xor"
  <2> DEFINE j == 0 + i
             k == kt[i]
             l == kv[i]
             e == <<"d", no, j>>
  <2>1. d[i] = e /\ o[i] = Xor(l, Xor(k, d[i]))
    BY <1>1
  <2> HIDE DEF j, k, l
  <2>2. Xor(k, Xor(k, e)) = e /\ (l # k => Xor(l, Xor(k, e)) = <<"xor", l, <<"xor", k, e>> >>)
    BY XorIs
  <2>3. l # k => o[i][1] = "xor"
    BY <2>1, <2>2
  <2>4. l = k => o[i] = d[i]
    BY <2>1, <2>2
  <2> QED BY <2>3, <2>4 DEF k, l
<1>3. ASSUME \A i \in 1..n : kv[i] = kt[i] PROVE o = d
  <2>1. \A i \in 1..n : o[i] = d[i]
    BY <1>2, <1>3
  <2> QED BY <2>1, <1>1, SeqSame
<1>4. n # 0 => 1 \in 1..n
  OBVIOUS
<1>5. n = 0 => o = d
  BY <1>3
<1> QED BY <1>2, <1>3, <1>4, <1>5

-----------------------------------------------------------------------------
(* SIV *)

\* The handle g works on the message m, which began with the key.
SivWhole(g, m) ==
  /\ m.key = g.keyno /\ m.parts = g.parts /\ m.data \in Nat
  /\ g.dectag => ShotGiven(g.tagiv)
  /\ g.tag => g.val # Forged
  /\ ~g.tag => m.data = 0 /\ (m.clean => g.unused = 0)
  /\ g.tag /\ ~g.dectag => g.val = SivTag(m, Given(m))

\* SIV in counter mode, from the start of a block: the stream of the tag v.
SivOver(k, v, inp, o) ==
  /\ IsSeq(o) /\ Len(o) = Len(inp)
  /\ \A i \in 1..Len(inp) :
       o[i] = Xor(<<"ks", k, v, ((i - 1) \div BlockLen) \div CtrMod,
                    ((i - 1) \div BlockLen) % CtrMod, ((i - 1) % BlockLen) + 1>>, inp[i])

\* It makes the stream of v.
LEMMA SivStream ==
  ASSUME mode = "siv", NEW g, IsHandle(g), g.unused = 0, NEW v, NEW inp, IsSeq(inp), NEW k,
         NEW r, r = CtrEncrypt([g EXCEPT !.ctr = SivCtr(v)], inp, k)
  PROVE  SivOver(k, v, inp, r.out) /\ Same(g, r.h, {"ctr", "last", "unused", "dead"})
<1> DEFINE c == SivCtr(v)
           b == [g EXCEPT !.ctr = c]
           lo == -1
<1>1. c = [base |-> v, hi |-> 0, lo |-> lo + 1]
  BY DEF SivCtr
<1> HIDE DEF c
<1>2. IsHandle(b) /\ Same(g, b, {"ctr"}) /\ b.ctr = c /\ b.unused = 0
  BY DEF IsHandle, Same, Fields
<1> HIDE DEF b
<1>3. Placed(b, k, v, lo, 0, 0)
  BY <1>1, <1>2, StreamStarts
<1>4. PICK y, o : CtrEncrypt(b, inp, k) = Result(y, TRUE, o) /\ GcmRan(b, k, v, lo, 0, inp, Len(inp), y, o)
  <2> DEFINE d == 0
             q == 0
  <2>1. mode # "gcm" /\ lo \in Int /\ lo + 1 \in Nat /\ d \in Nat /\ Placed(b, k, v, lo, d, q)
        /\ IsHandle(b) /\ IsSeq(inp)
    BY <1>2, <1>3
  <2> HIDE DEF d, q, lo
  <2>2. \E y, o : CtrEncrypt(b, inp, k) = Result(y, TRUE, o) /\ GcmRan(b, k, v, lo, d, inp, Len(inp), y, o)
    BY ONLY <2>1, CtrWide
  <2> QED BY <2>2 DEF d
<1>5. r.h = y /\ r.out = o
  BY <1>4 DEF Result, b, c
<1>6. Same(g, y, {"ctr", "last", "unused", "dead"})
  BY <1>2, <1>4 DEF GcmRan, Same
<1>7. IsSeq(o) /\ Len(o) = Len(inp) /\ \A i \in 1..Len(inp) : o[i] = Xor(StreamByte(k, v, lo, 0 + i), inp[i])
  BY <1>4 DEF GcmRan
<1>8. ASSUME NEW i \in 1..Len(inp)
      PROVE  StreamByte(k, v, lo, 0 + i)
               = <<"ks", k, v, ((i - 1) \div BlockLen) \div CtrMod,
                   ((i - 1) \div BlockLen) % CtrMod, ((i - 1) % BlockLen) + 1>>
  <2> DEFINE j == (i - 1) \div BlockLen
  <2>1. i \in Nat /\ i - 1 \in Nat /\ BlockLen \in Nat \ {0}
    BY IsSeqLen, BlockLenAssumption
  <2>2. j \in Nat
    BY <2>1, DivMod
  <2>3. lo + 1 + j = j /\ 0 + i = i
    BY <2>1, <2>2
  <2> QED BY <2>3 DEF StreamByte, KeyByte, CtrOf
<1>9. SivOver(k, v, inp, o)
  BY <1>7, <1>8 DEF SivOver
<1> QED BY <1>5, <1>6, <1>9

\* The ciphertext of a message is the stream of its tag over the data.
LEMMA SivCipherIs ==
  ASSUME mode = "siv", NEW m, NEW no, NEW n \in Nat, NEW d, d = DataBytes(no, 0, n)
  PROVE  /\ SivOver(m.key, SivTag(m, d), d, SivCipher(m, d))
         /\ SivTag(m, d) = <<"s2v", m.key, m.parts, d>>
         /\ \A o : SivOver(m.key, SivTag(m, d), d, o) => o = SivCipher(m, d)
<1>1. IsSeq(d) /\ Len(d) = n
  BY DataIs
<1> DEFINE t == SivTag(m, d)
           c == SivCipher(m, d)
           K(i) == <<"ks", m.key, t, ((i - 1) \div BlockLen) \div CtrMod,
                     ((i - 1) \div BlockLen) % CtrMod, ((i - 1) % BlockLen) + 1>>
<1>2. t = <<"s2v", m.key, m.parts, d>>
  BY DEF SivTag
<1>3. c = [i \in 1..n |-> Xor(K(i), d[i])]
  BY <1>1 DEF SivCipher
<1> HIDE DEF t, c, K
<1>4. IsSeq(c) /\ Len(c) = n /\ \A i \in 1..n : c[i] = Xor(K(i), d[i])
  <2>1. DOMAIN c = 1..n /\ c = [i \in 1..n |-> c[i]]
    BY <1>3
  <2> QED BY <2>1, <1>3, SeqFcn
<1>5. SivOver(m.key, t, d, c)
  BY <1>1, <1>4 DEF SivOver, K
<1>6. ASSUME NEW o, SivOver(m.key, t, d, o) PROVE o = c
  <2>1. IsSeq(o) /\ Len(o) = n /\ \A i \in 1..n : o[i] = Xor(K(i), d[i])
    BY <1>1, <1>6 DEF SivOver, K
  <2>2. Len(o) = Len(c) /\ \A i \in 1..Len(o) : o[i] = c[i]
    BY <2>1, <1>4
  <2> QED BY <2>1, <2>2, <1>4, SeqSame
<1> QED BY <1>2, <1>5, <1>6 DEF t, c

\* The stream of the tag over the ciphertext is the data; that of another tag is not
\* the data of any message.
LEMMA SivBack ==
  ASSUME mode = "siv", NEW m, NEW no, NEW n \in Nat, NEW d, d = DataBytes(no, 0, n),
         NEW v, NEW o, SivOver(m.key, v, SivCipher(m, d), o)
  PROVE  /\ v = SivTag(m, d) => o = d
         /\ n # 0 /\ v # SivTag(m, d) => o[1][1] = "xor"
         /\ n = 0 => o = d
<1> DEFINE t == SivTag(m, d)
           c == SivCipher(m, d)
           K(w, i) == <<"ks", m.key, w, ((i - 1) \div BlockLen) \div CtrMod,
                        ((i - 1) \div BlockLen) % CtrMod, ((i - 1) % BlockLen) + 1>>
           kt == [i \in 1..n |-> K(t, i)]
           kv == [i \in 1..n |-> K(v, i)]
<1>1. IsSeq(d) /\ Len(d) = n
  BY DataIs
<1>2. IsSeq(c) /\ Len(c) = n /\ \A i \in 1..n : c[i] = Xor(K(t, i), d[i])
  <2>1. SivOver(m.key, t, d, c)
    BY SivCipherIs
  <2> QED BY <2>1, <1>1 DEF SivOver
<1>3. IsSeq(o) /\ Len(o) = n /\ \A i \in 1..n : o[i] = Xor(K(v, i), c[i])
  BY <1>2 DEF SivOver
<1>4. \A i : K(v, i)[3] = v /\ K(t, i)[3] = t
  OBVIOUS
<1> HIDE DEF t, c, K
<1>5. \A i \in 1..n : c[i] = Xor(kt[i], d[i]) /\ o[i] = Xor(kv[i], c[i])
  BY <1>2, <1>3
<1>6. (v = t => \A i \in 1..n : kv[i] = kt[i]) /\ (n # 0 /\ v # t => kv[1] # kt[1])
  BY <1>4
<1> HIDE DEF kt, kv
<1>7. /\ (\A i \in 1..n : kv[i] = kt[i]) => o = d
      /\ n # 0 /\ kv[1] # kt[1] => o[1][1] = "xor"
      /\ n = 0 => o = d
  <2>1. /\ n \in Nat /\ d = DataBytes(no, 0, n) /\ IsSeq(o) /\ Len(o) = n
        /\ \A i \in 1..n : c[i] = Xor(kt[i], d[i]) /\ o[i] = Xor(kv[i], c[i])
    BY <1>3, <1>5
  <2> QED BY ONLY <2>1, TwiceXor
<1> QED BY <1>6, <1>7 DEF t

\* The first byte of a message's data is not made by exclusive or.
LEMMA DataFirst ==
  ASSUME NEW no, NEW n \in Nat, n # 0
  PROVE  DataBytes(no, 0, n)[1][1] = "d"
<1>1. 1 \in 1..n
  OBVIOUS
<1>2. DataBytes(no, 0, n)[1] = <<"d", no, 0 + 1>>
  BY <1>1, DataIs
<1> QED BY <1>2

\* _gcry_cipher_siv_authenticate and _gcry_cipher_siv_set_nonce
LEMMA SivParts ==
  ASSUME mode = "siv", NEW g, IsHandle(g), NEW m, SivWhole(g, m), NEW inp, NEW r,
         r = SivAuthenticate(g, inp), NEW x, x.no = m.no, x.key = m.key,
         x.parts = Append(m.parts, inp), x.data = m.data, x.clean = m.clean
  PROVE  /\ r.ok => SivWhole(r.h, x) /\ IsHandle(r.h) /\ SivWhole([r.h EXCEPT !.iv = TRUE], x)
         /\ ~r.ok => r.h = g
<1>1. CASE g.tag \/ g.iv \/ Len(g.parts) >= MaxParts
  <2>1. r.ok = FALSE /\ r.h = g
    BY <1>1 DEF SivAuthenticate, Refused, Result
  <2> QED BY <2>1
<1>2. CASE ~(g.tag \/ g.iv \/ Len(g.parts) >= MaxParts)
  <2> DEFINE b == [g EXCEPT !.parts = Append(@, inp)]
             c == [b EXCEPT !.iv = TRUE]
  <2>1. r.ok = TRUE /\ r.h = b
    BY <1>2 DEF SivAuthenticate, Done, Result
  <2>2. /\ IsHandle(b) /\ b.parts = Append(g.parts, inp) /\ Same(g, b, {"parts"})
    BY DEF IsHandle, Fields, Same
  <2> HIDE DEF b
  <2>3. IsHandle(c) /\ Same(b, c, {"iv"})
    BY <2>2 DEF IsHandle, Fields, Same
  <2> HIDE DEF c
  <2>4. /\ b.keyno = g.keyno /\ b.dectag = g.dectag /\ b.tagiv = g.tagiv /\ b.tag = g.tag
        /\ b.unused = g.unused
    BY <2>2 DEF Same, Fields
  <2>5. /\ c.keyno = b.keyno /\ c.dectag = b.dectag /\ c.tagiv = b.tagiv /\ c.tag = b.tag
        /\ c.unused = b.unused /\ c.parts = b.parts
    BY <2>3 DEF Same, Fields
  <2>6. SivWhole(b, x)
    BY <2>2, <2>4, <1>2 DEF SivWhole
  <2>7. SivWhole(c, x)
    BY <2>2, <2>4, <2>5, <1>2 DEF SivWhole
  <2> QED BY <2>1, <2>2, <2>6, <2>7 DEF c
<1> QED BY <1>1, <1>2

\* _gcry_cipher_siv_encrypt
LEMMA SivSeals ==
  ASSUME mode = "siv", NEW g, IsHandle(g), NEW m, SivWhole(g, m), NEW n \in Nat,
         NEW x, ShotMore(m, x, n), x.way = "encrypt",
         NEW r, r = SivEncrypt(g, DataBytes(m.no, m.data, n))
  PROVE  /\ r.ok => SivWhole(r.h, x) /\ Returns(x, r.out)
         /\ ~r.ok => r.h = g
         /\ r.h.iv = g.iv
<1>1. CASE g.tag \/ g.dectag
  <2>1. r.ok = FALSE /\ r.h = g
    BY <1>1 DEF SivEncrypt, Refused, Result
  <2> QED BY <2>1
<1>2. CASE ~(g.tag \/ g.dectag)
  <2> DEFINE d == DataBytes(m.no, m.data, n)
             v == S2V(g.keyno, g.parts, d)
             k == g.keyno
             e == CtrEncrypt([g EXCEPT !.ctr = SivCtr(v)], d, k)
             b == [e.h EXCEPT !.val = v, !.tag = TRUE]
  <2>1. r.ok = TRUE /\ r.h = b /\ r.out = e.out
    BY <1>2 DEF SivEncrypt, SivMade, Result
  <2>2. m.data = 0 /\ m.key = k /\ m.parts = g.parts /\ x.data = n
    BY <1>2 DEF SivWhole, ShotMore
  <2>3. d = DataBytes(m.no, 0, n) /\ v = SivTag(m, d) /\ v = <<"s2v", g.keyno, g.parts, d>>
    BY <2>2 DEF SivTag, S2V
  <2>4. IsSeq(d) /\ Len(d) = n
    BY <2>3, DataIs
  <2>5. d = Given(x) /\ SivTag(x, d) = SivTag(m, d) /\ SivCipher(x, d) = SivCipher(m, d)
    BY <2>2, <2>3 DEF Given, ShotMore, SivTag, SivCipher
  <2>6. v[1] = "s2v" /\ Forged[1] = "forged"
    BY <2>3 DEF Forged
  <2> HIDE DEF d, v, k
  <2>7. g.unused = 0 => SivOver(k, v, d, e.out)
    <3>1. e = CtrEncrypt([g EXCEPT !.ctr = SivCtr(v)], d, k)
      OBVIOUS
    <3> HIDE DEF e
    <3> QED BY <3>1, <2>4, SivStream
  <2>8. IsHandle(e.h) /\ Same(g, e.h, {"ctr", "last", "unused"})
    BY DEF CtrEncrypt, Result, IsHandle, Fields, Same
  <2> HIDE DEF e
  <2>9. IsHandle(b) /\ b.val = v /\ b.tag = TRUE /\ Same(e.h, b, {"val", "tag"})
    BY <2>8 DEF IsHandle, Fields, Same
  <2> HIDE DEF b
  <2>10. b.keyno = g.keyno /\ b.parts = g.parts /\ b.dectag = g.dectag /\ b.iv = g.iv
    BY <2>8, <2>9 DEF Same, Fields
  <2>11. SivWhole(b, x)
    BY <2>2, <2>3, <2>5, <2>6, <2>9, <2>10, <1>2 DEF SivWhole, ShotMore
  <2>12. ASSUME x.clean PROVE e.out = SubSeq(Made(x), x.data - Len(e.out) + 1, x.data)
    <3>1. g.unused = 0
      BY <2>12, <1>2 DEF SivWhole, ShotMore
    <3>2. SivOver(m.key, SivTag(m, d), d, e.out)
      BY <3>1, <2>2, <2>3, <2>7
    <3>3. e.out = SivCipher(m, d)
      BY <3>2, <2>3, SivCipherIs
    <3>4. e.out = Made(x)
      BY <3>3, <2>5, ShotText DEF OneShot
    <3>5. IsSeq(e.out) /\ Len(e.out) = n
      BY <3>2, <2>4 DEF SivOver
    <3>6. e.out = SubSeq(e.out, n - Len(e.out) + 1, n)
      BY <3>5, SubSeqAll
    <3> QED BY <3>4, <3>6, <2>2
  <2> QED BY <2>1, <2>10, <2>11, <2>12 DEF Returns
<1> QED BY <1>1, <1>2

\* _gcry_cipher_siv_decrypt.  z is the message after a mismatch.
LEMMA SivOpens ==
  ASSUME mode = "siv", NEW g, IsHandle(g), NEW m, SivWhole(g, m), NEW n \in Nat,
         NEW x, ShotMore(m, x, n), x.way = "decrypt",
         NEW z, z.key = m.key, z.parts = m.parts, z.clean = m.clean, z.data = m.data + n,
         NEW r, r = SivDecrypt(g, SivCipher(m, DataBytes(m.no, m.data, n)))
  PROVE  /\ r.ok => SivWhole(r.h, x) /\ Returns(x, r.out) /\ (x.clean => g.tagiv = Tag(x))
         /\ ~r.ok => SivWhole(r.h, IF r.h.tag # g.tag THEN z ELSE m) /\ r.out = <<>>
         /\ r.h.iv = g.iv
<1>1. CASE g.tag \/ ~g.dectag
  <2>1. r.ok = FALSE /\ r.h = g /\ r.out = <<>>
    BY <1>1 DEF SivDecrypt, Refused, Result
  <2> QED BY <2>1
<1>2. CASE ~g.tag /\ g.dectag
  <2> DEFINE d == DataBytes(m.no, m.data, n)
             inp == SivCipher(m, d)
             t == g.tagiv
             k == g.keyno
             e == CtrEncrypt([g EXCEPT !.ctr = SivCtr(t)], inp, k)
             v == S2V(e.h.keyno, e.h.parts, e.out)
             b == [e.h EXCEPT !.val = v, !.tag = TRUE]
  <2>1. r = IF v = e.h.tagiv THEN Result(b, TRUE, e.out) ELSE Refused(b)
    BY <1>2 DEF SivDecrypt, SivCompare
  <2>2. m.data = 0 /\ m.key = k /\ m.parts = g.parts /\ x.data = n
    BY <1>2 DEF SivWhole, ShotMore
  <2>3. d = DataBytes(m.no, 0, n) /\ d = Given(x)
    BY <2>2 DEF Given, ShotMore
  <2>4. IsSeq(d) /\ Len(d) = n
    BY <2>3, DataIs
  <2>5. SivTag(x, d) = SivTag(m, d)
    BY DEF ShotMore, SivTag
  <2>6. IsHandle(e.h) /\ Same(g, e.h, {"ctr", "last", "unused"})
    BY DEF CtrEncrypt, Result, IsHandle, Fields, Same
  <2>7. e = CtrEncrypt([g EXCEPT !.ctr = SivCtr(t)], inp, k)
    OBVIOUS
  <2> HIDE DEF d, e, inp, t, k
  <2>8. SivOver(m.key, SivTag(m, d), d, inp)
    BY <2>3, SivCipherIs DEF inp
  <2>9. IsSeq(inp) /\ Len(inp) = n
    BY <2>4, <2>8 DEF SivOver
  <2>10. g.unused = 0 => SivOver(k, t, inp, e.out)
    BY <2>7, <2>9, SivStream
  <2>11. e.h.keyno = k /\ e.h.parts = g.parts /\ e.h.tagiv = t
    BY <2>6 DEF Same, Fields, t, k
  <2>12. v = <<"s2v", m.key, m.parts, e.out>>
    BY <2>2, <2>11 DEF S2V
  <2>13. v[1] = "s2v" /\ Forged[1] = "forged" /\ v[4] = e.out
    BY <2>12 DEF Forged
  <2> HIDE DEF v
  <2>14. IsHandle(b) /\ b.val = v /\ b.tag = TRUE /\ Same(e.h, b, {"val", "tag"})
    BY <2>6 DEF IsHandle, Fields, Same
  <2> HIDE DEF b
  <2>15. /\ b.keyno = g.keyno /\ b.parts = g.parts /\ b.dectag = g.dectag /\ b.tagiv = t
         /\ b.datafin = g.datafin /\ b.iv = g.iv
    BY <2>6, <2>14 DEF Same, Fields, t
  <2>16. SivWhole(b, x) /\ SivWhole(b, z)
    BY <2>2, <2>13, <2>14, <2>15, <1>2 DEF SivWhole, ShotMore, t
  <2>17. ASSUME v = t, x.clean
         PROVE  /\ e.out = SubSeq(Made(x), x.data - Len(e.out) + 1, x.data)
                /\ t = Tag(x)
    <3>1. g.unused = 0
      BY <2>17, <1>2 DEF SivWhole, ShotMore
    <3>2. SivOver(m.key, t, SivCipher(m, d), e.out)
      BY <3>1, <2>2, <2>10 DEF inp
    <3>3. /\ t = SivTag(m, d) => e.out = d
          /\ n # 0 /\ t # SivTag(m, d) => e.out[1][1] = "xor"
          /\ n = 0 => e.out = d
      BY <3>2, <2>3, SivBack
    <3>4. IsSeq(e.out) /\ Len(e.out) = n
      BY <3>2, <2>9 DEF SivOver, inp
    <3>5. e.out = d
      <4>1. ASSUME n # 0, t # SivTag(m, d) PROVE FALSE
        <5>1. ShotGiven(t) /\ t # Forged
          BY <1>2, <2>13, <2>17 DEF SivWhole, t
        <5>2. PICK y : \E p \in Nat : t = SivTag(y, DataBytes(y.no, 0, p))
          BY <5>1 DEF ShotGiven
        <5>p. PICK p \in Nat : t = SivTag(y, DataBytes(y.no, 0, p))
          BY <5>2
        <5>3. t = <<"s2v", y.key, y.parts, DataBytes(y.no, 0, p)>>
          BY <5>p DEF SivTag
        <5>4. t[4] = DataBytes(y.no, 0, p)
          BY <5>3
        <5>5. e.out = DataBytes(y.no, 0, p)
          BY <5>4, <2>13, <2>17
        <5>6. p # 0
          BY <5>5, <3>4, <4>1, DataIs
        <5>7. e.out[1][1] = "d"
          BY <5>5, <5>6, DataFirst
        <5> QED BY <5>7, <3>3, <4>1
      <4> QED BY <4>1, <3>3
    <3>6. v = SivTag(x, d)
      BY <3>5, <2>5, <2>12 DEF SivTag
    <3>7. Tag(x) = SivTag(x, d) /\ Made(x) = d
      BY <2>3, ShotText DEF OneShot
    <3>8. e.out = SubSeq(e.out, n - Len(e.out) + 1, n)
      BY <3>4, SubSeqAll
    <3> QED BY <3>5, <3>6, <3>7, <3>8, <2>2, <2>17
  <2>18. CASE v = t
    <3>1. r.ok = TRUE /\ r.h = b /\ r.out = e.out
      BY <2>1, <2>11, <2>18 DEF Result
    <3> QED BY <3>1, <2>15, <2>16, <2>17, <2>18 DEF Returns, t
  <2>19. CASE v # t
    <3>1. r.ok = FALSE /\ r.h = b /\ r.out = <<>>
      BY <2>1, <2>11, <2>19 DEF Refused, Result
    <3>2. r.h.tag # g.tag
      BY <3>1, <2>14, <1>2
    <3> QED BY <3>1, <3>2, <2>15, <2>16
  <2> QED BY <2>18, <2>19
<1> QED BY <1>1, <1>2

\* _gcry_cipher_siv_get_tag and _gcry_cipher_siv_check_tag
LEMMA SivTagged ==
  ASSUME mode = "siv", NEW g, IsHandle(g), NEW m, SivWhole(g, m), NEW check, NEW r,
         r = IF check THEN SivCheckTag(g) ELSE SivGetTag(g)
  PROVE  /\ SivWhole(r.h, m) /\ r.h.iv = g.iv
         /\ r.ok => r.h.val # Forged
         /\ r.ok /\ ~check => r.h.val = Tag(m)
<1>1. Tag(m) = SivTag(m, Given(m))
  BY ShotText DEF OneShot
<1> DEFINE f == SivFinish(g)
<1>2. /\ IsHandle(f) /\ SivWhole(f, m) /\ f.iv = g.iv /\ f.val # Forged
      /\ ~g.dectag => f.val = Tag(m)
  <2>1. CASE g.tag
    <3>1. f = g
      BY <2>1 DEF SivFinish
    <3> HIDE DEF f
    <3> QED BY <3>1, <2>1, <1>1 DEF SivWhole
  <2>2. CASE ~g.tag
    <3> DEFINE v == S2V(g.keyno, g.parts, <<>>)
    <3>1. f = [g EXCEPT !.val = v, !.tag = TRUE]
      BY <2>2 DEF SivFinish
    <3>2. v = <<"s2v", g.keyno, g.parts, <<>> >>
      BY DEF S2V
    <3>3. v[1] = "s2v" /\ Forged[1] = "forged"
      BY <3>2 DEF Forged
    <3>4. m.data = 0 /\ m.key = g.keyno /\ m.parts = g.parts
      BY <2>2 DEF SivWhole
    <3>5. Given(m) = <<>>
      BY <3>4, DataIs DEF Given
    <3>6. v = SivTag(m, Given(m))
      BY <3>2, <3>4, <3>5 DEF SivTag
    <3> HIDE DEF v, f
    <3>7. IsHandle(f) /\ f.val = v /\ f.tag = TRUE /\ Same(g, f, {"val", "tag"})
      BY <3>1 DEF IsHandle, Fields, Same
    <3>8. f.keyno = g.keyno /\ f.parts = g.parts /\ f.dectag = g.dectag /\ f.tagiv = g.tagiv
          /\ f.iv = g.iv
      BY <3>7 DEF Same, Fields
    <3> QED BY <3>3, <3>4, <3>6, <3>7, <3>8, <1>1 DEF SivWhole
  <2> QED BY <2>1, <2>2
<1> HIDE DEF f
<1>3. CASE ~check /\ g.dectag
  <2>1. r.ok = FALSE /\ r.h = g
    BY <1>3 DEF SivGetTag, Refused, Result
  <2> QED BY <2>1
<1>4. CASE check \/ ~g.dectag
  <2>1. r.ok = TRUE /\ r.h = f
    BY <1>4 DEF SivGetTag, SivCheckTag, Done, Result, f
  <2> QED BY <2>1, <1>2, <1>4
<1> QED BY <1>3, <1>4

\* _gcry_cipher_siv_set_decryption_tag
LEMMA SivGivenTag ==
  ASSUME mode = "siv", NEW g, IsHandle(g), NEW m, SivWhole(g, m), NEW t, ShotGiven(t),
         NEW r, r = SivSetDecryptionTag(g, t)
  PROVE  SivWhole(r.h, m)
<1>1. CASE g.tag
  BY <1>1 DEF SivSetDecryptionTag, Refused, Result
<1>2. CASE ~g.tag
  <2> DEFINE b == [g EXCEPT !.tagiv = t, !.dectag = TRUE]
  <2>1. r.h = b
    BY <1>2 DEF SivSetDecryptionTag, Done, Result
  <2>2. IsHandle(b) /\ b.tagiv = t /\ b.dectag = TRUE /\ Same(g, b, {"tagiv", "dectag"})
    BY DEF IsHandle, Fields, Same
  <2> HIDE DEF b
  <2>3. b.keyno = g.keyno /\ b.parts = g.parts /\ b.tag = g.tag /\ b.unused = g.unused
    BY <2>2 DEF Same, Fields
  <2> QED BY <2>1, <2>2, <2>3, <1>2 DEF SivWhole
<1> QED BY <1>1, <1>2

\* A key or a reset begins a message.
LEMMA SivBegins ==
  ASSUME mode = "siv", NEW g, IsHandle(g), NEW b, b \in {Rekeyed(g), WasReset(g)},
         NEW m, m.key = b.keyno, m.parts = <<>>, m.data = 0, m.clean => b.unused = 0
  PROVE  SivWhole(b, m)
<1>1. b.parts = <<>> /\ b.dectag = FALSE /\ b.tag = FALSE
  <2>1. CASE b = WasReset(g)
    BY <2>1 DEF WasReset, Opened
  <2>2. CASE b = Rekeyed(g)
    <3> DEFINE k == [g EXCEPT !.keyno = @ + 1, !.key = TRUE]
    <3>1. b = [k EXCEPT !.parts = <<>>, !.dectag = FALSE, !.tag = FALSE, !.iv = FALSE,
                        !.tagiv = NoValue, !.val = NoValue, !.ctr = NoCtr]
      BY <2>2 DEF Rekeyed
    <3>2. IsHandle(k)
      BY DEF IsHandle
    <3> HIDE DEF k
    <3> QED BY <3>1, <3>2 DEF IsHandle, Fields
  <2> QED BY <2>1, <2>2
<1> QED BY <1>1 DEF SivWhole

-----------------------------------------------------------------------------
(* GCM-SIV *)

\* The number of the blocks of a sequence follows from its length, and its first byte
\* is the first of the first block.
LEMMA BlocksHead ==
  ASSUME NEW s, IsSeq(s)
  PROVE  /\ IsSeq(Blocks(s)) /\ Len(Blocks(s)) = (Len(s) + PadLen(Len(s))) \div BlockLen
         /\ Len(s) # 0 => Len(Blocks(s)) \in Nat \ {0} /\ Blocks(s)[1][1] = s[1]
<1> DEFINE z == ZeroPadded(s)
           p == PadLen(Len(s))
           y == Zeros(p)
<1>1. /\ p \in 0..(BlockLen - 1) /\ z = s \o y /\ IsSeq(z) /\ Len(z) % BlockLen = 0
  BY PaddedIs
<1>2. /\ p \in Nat /\ BlockLen \in Nat \ {0} /\ Len(s) \in Nat /\ 1 \in 1..BlockLen
  BY <1>1, BlockLenAssumption, IsSeqLen
<1> HIDE DEF p
<1>3. IsSeq(y) /\ Len(y) = p
  BY <1>2, ZerosIs
<1> HIDE DEF y
<1>4. /\ Len(z) = Len(s) + p
      /\ Len(s) # 0 => z[1] = s[1]
  <2>1. /\ Len(s \o y) = Len(s) + Len(y)
        /\ \A i \in 1..(Len(s) + Len(y)) : (s \o y)[i] = IF i <= Len(s) THEN s[i] ELSE y[i - Len(s)]
    BY <1>3, ConcatIs
  <2>2. Len(s) # 0 => 1 \in 1..(Len(s) + Len(y)) /\ 1 <= Len(s)
    BY <1>2, <1>3
  <2> QED BY <2>1, <2>2, <1>1, <1>3
<1> HIDE DEF z
<1>5. PICK q, r : /\ Divided(z, q, r)
                  /\ Len(z) \div BlockLen = q /\ Len(z) % BlockLen = r
  BY <1>1, Dividing
<1>6. q \in Nat /\ r = 0 /\ Len(z) = BlockLen * q + 0
  BY <1>1, <1>5 DEF Divided
<1>7. /\ IsSeq(FullBlocks(z)) /\ Len(FullBlocks(z)) = q
      /\ \A i \in 1..q : \A j \in 1..BlockLen : FullBlocks(z)[i][j] = z[BlockLen * (i - 1) + j]
  <2>1. IsSeq(z) /\ Divided(z, q, r)
    BY <1>1, <1>5
  <2>2. /\ IsSeq(FullBlocks(z)) /\ Len(FullBlocks(z)) = q
        /\ \A i \in 1..q :
             /\ IsSeq(FullBlocks(z)[i]) /\ Len(FullBlocks(z)[i]) = BlockLen
             /\ \A j \in 1..BlockLen : FullBlocks(z)[i][j] = z[BlockLen * (i - 1) + j]
    BY ONLY <2>1, BlocksIs
  <2> QED BY ONLY <2>2
<1>8. Len(s) # 0 => q # 0
  <2>1. q = 0 => Len(z) = 0
    BY <1>2, <1>6
  <2> QED BY <2>1, <1>2, <1>4
<1>9. Len(s) # 0 => FullBlocks(z)[1][1] = z[1]
  <2>1. Len(s) # 0 => 1 \in 1..q
    BY <1>6, <1>8
  <2>2. BlockLen * (1 - 1) + 1 = 1
    BY <1>2
  <2> QED BY <2>1, <2>2, <1>2, <1>7
<1>10. Blocks(s) = FullBlocks(z)
  BY DEF Blocks, z
<1> QED BY <1>4, <1>5, <1>6, <1>7, <1>8, <1>9, <1>10 DEF p

\* A sequence of one element.
LEMMA SingleIs ==
  ASSUME NEW a
  PROVE  IsSeq(<<a>>) /\ Len(<<a>>) = 1 /\ <<a>>[1] = a
<1>1. <<a>> \in Seq({a})
  OBVIOUS
<1> QED BY <1>1 DEF IsSeq

\* Two length blocks that are the same.
LEMMA LengthsSame ==
  ASSUME NEW a, NEW n, NEW b, NEW p, LengthBlock(a, n) = LengthBlock(b, p)
  PROVE  a = b /\ n = p
<1>1. 1 \in 1..BlockLen
  BY BlockLenAssumption
<1>2. LengthBlock(a, n)[1] = <<"len", a, n>> /\ LengthBlock(b, p)[1] = <<"len", b, p>>
  BY <1>1 DEF LengthBlock
<1>3. <<"len", a, n>>[2] = a /\ <<"len", b, p>>[2] = b /\ <<"len", a, n>>[3] = n
      /\ <<"len", b, p>>[3] = p
  OBVIOUS
<1> QED BY <1>2, <1>3

\* A tag tells the length of the data and its first byte.
LEMMA GsTagsSame ==
  ASSUME mode = "gcmsiv", NEW m, m.aad \in Nat, NEW x, x.aad \in Nat, NEW s, IsSeq(s),
         NEW t, IsSeq(t), SivTag(m, s) = SivTag(x, t)
  PROVE  Len(s) = Len(t) /\ (Len(s) # 0 => s[1] = t[1])
<1> DEFINE A == Blocks(AadBytes(m.no, 0, m.aad))
           B == Blocks(s)
           L == LengthBlock(m.aad, Len(s))
           C == Blocks(AadBytes(x.no, 0, x.aad))
           D == Blocks(t)
           M == LengthBlock(x.aad, Len(t))
           u == A \o B
           v == C \o D
           l == <<L>>
           k == <<M>>
<1>1. u \o l = v \o k
  <2>1. SivTag(m, s) = <<"siv", m.key, <<"dk", m.iv.id>>, u \o l>>
    BY DEF SivTag
  <2>2. SivTag(x, t) = <<"siv", x.key, <<"dk", x.iv.id>>, v \o k>>
    BY DEF SivTag
  <2>3. SivTag(m, s)[4] = u \o l
    BY <2>1
  <2>4. SivTag(x, t)[4] = v \o k
    BY <2>2
  <2> QED BY <2>3, <2>4
<1>2. /\ IsSeq(AadBytes(m.no, 0, m.aad)) /\ Len(AadBytes(m.no, 0, m.aad)) = m.aad
      /\ IsSeq(AadBytes(x.no, 0, x.aad)) /\ Len(AadBytes(x.no, 0, x.aad)) = x.aad
  BY AadIs
<1>3. /\ IsSeq(A) /\ Len(A) = (m.aad + PadLen(m.aad)) \div BlockLen
      /\ IsSeq(C) /\ Len(C) = (x.aad + PadLen(x.aad)) \div BlockLen
  BY <1>2, BlocksHead
<1>4. /\ IsSeq(B) /\ (Len(s) # 0 => Len(B) \in Nat \ {0} /\ B[1][1] = s[1])
      /\ IsSeq(D) /\ (Len(t) # 0 => Len(D) \in Nat \ {0} /\ D[1][1] = t[1])
  BY BlocksHead
<1>5. IsSeq(l) /\ Len(l) = 1 /\ l[1] = L /\ IsSeq(k) /\ Len(k) = 1 /\ k[1] = M
  BY SingleIs
<1>6. L = M => m.aad = x.aad /\ Len(s) = Len(t)
  BY LengthsSame
<1> HIDE DEF A, B, C, D, L, M, l, k
<1>7. /\ IsSeq(u) /\ Len(u) = Len(A) + Len(B) /\ Len(A) \in Nat /\ Len(B) \in Nat
      /\ \A i \in 1..(Len(A) + Len(B)) : u[i] = IF i <= Len(A) THEN A[i] ELSE B[i - Len(A)]
  BY <1>3, <1>4, ConcatIs, IsSeqLen
<1>8. /\ IsSeq(v) /\ Len(v) = Len(C) + Len(D) /\ Len(C) \in Nat /\ Len(D) \in Nat
      /\ \A i \in 1..(Len(C) + Len(D)) : v[i] = IF i <= Len(C) THEN C[i] ELSE D[i - Len(C)]
  BY <1>3, <1>4, ConcatIs, IsSeqLen
<1> HIDE DEF u, v
<1>9. /\ Len(u \o l) = Len(u) + 1 /\ Len(u) \in Nat
      /\ \A i \in 1..(Len(u) + 1) : (u \o l)[i] = IF i <= Len(u) THEN u[i] ELSE l[i - Len(u)]
  <2>1. IsSeq(u) /\ IsSeq(l)
    BY <1>5, <1>7
  <2>2. /\ Len(u \o l) = Len(u) + Len(l)
        /\ \A i \in 1..(Len(u) + Len(l)) :
             (u \o l)[i] = IF i <= Len(u) THEN u[i] ELSE l[i - Len(u)]
    BY ONLY <2>1, ConcatIs
  <2> QED BY <2>1, <2>2, <1>5, IsSeqLen
<1>10. /\ Len(v \o k) = Len(v) + 1 /\ Len(v) \in Nat
       /\ \A i \in 1..(Len(v) + 1) : (v \o k)[i] = IF i <= Len(v) THEN v[i] ELSE k[i - Len(v)]
  <2>1. IsSeq(v) /\ IsSeq(k)
    BY <1>5, <1>8
  <2>2. /\ Len(v \o k) = Len(v) + Len(k)
        /\ \A i \in 1..(Len(v) + Len(k)) :
             (v \o k)[i] = IF i <= Len(v) THEN v[i] ELSE k[i - Len(v)]
    BY ONLY <2>1, ConcatIs
  <2> QED BY <2>1, <2>2, <1>5, IsSeqLen
<1>11. Len(u) = Len(v)
  BY <1>1, <1>9, <1>10
<1>12. L = M
  <2> DEFINE i == Len(u) + 1
  <2>1. i \in 1..(Len(u) + 1) /\ ~(i <= Len(u)) /\ i - Len(u) = 1 /\ i - Len(v) = 1
    BY <1>9, <1>11
  <2>2. (u \o l)[i] = L /\ (v \o k)[i] = M
    BY <2>1, <1>5, <1>9, <1>10, <1>11
  <2> QED BY <2>2, <1>1
<1>13. m.aad = x.aad /\ Len(s) = Len(t) /\ Len(A) = Len(C)
  BY <1>3, <1>6, <1>12
<1>14. ASSUME Len(s) # 0 PROVE s[1] = t[1]
  <2> DEFINE i == Len(A) + 1
  <2>1. Len(B) \in Nat \ {0} /\ Len(D) \in Nat \ {0} /\ B[1][1] = s[1] /\ D[1][1] = t[1]
    BY <1>4, <1>13, <1>14
  <2>2. /\ i \in 1..(Len(A) + Len(B)) /\ ~(i <= Len(A)) /\ i - Len(A) = 1
        /\ i \in 1..(Len(C) + Len(D)) /\ ~(i <= Len(C)) /\ i - Len(C) = 1
    BY <2>1, <1>7, <1>13
  <2>3. u[i] = B[1] /\ v[i] = D[1]
    BY <2>2, <1>7, <1>8
  <2>4. i \in 1..Len(u)
    BY <2>2, <1>7
  <2>5. (u \o l)[i] = u[i] /\ (v \o k)[i] = v[i]
    BY <2>4, <1>9, <1>10, <1>11
  <2> QED BY <2>1, <2>3, <2>5, <1>1
<1> QED BY <1>13, <1>14

\* A handle without a nonce: a tag may have been given, but nothing was collected.
GsIdle(g) == g.mac = Empty /\ (g.tag => ShotGiven(g.tagiv))

\* The handle g works on the message m, whose nonce came after the key.
GsWhole(g, m) ==
  /\ g.iv /\ m.key = g.keyno /\ m.data \in Nat /\ m.aad \in Nat
  /\ g.ctr.base = <<"dk", m.iv.id>>
  /\ g.datafin => g.tag
  /\ ~g.datafin => m.data = 0 /\ (g.tag => ShotGiven(g.tagiv))
  /\ ~g.over /\ ~g.datafin =>
       /\ ~g.aadfin /\ g.aadlen = m.aad /\ g.datalen = 0
       /\ g.mac = Coll(FullBlocks(AadOf(m)), Tail0(AadOf(m)))
  /\ g.datafin /\ ~m.refused => g.tagiv = SivTag(m, Given(m))

\* _gcry_cipher_gcm_siv_set_nonce
LEMMA GsStarts ==
  ASSUME mode = "gcmsiv", NEW g, IsHandle(g), ~g.iv => GsIdle(g), NEW no, NEW iv, NEW clean, NEW r,
         r = GcmSivSetNonce(g, iv)
  PROVE  /\ r.ok => GsWhole(r.h, Message(no, iv, g, clean))
         /\ ~r.ok => r.h = g
<1>1. CASE g.keyno = 0 \/ g.iv
  <2>1. r.ok = FALSE /\ r.h = g
    BY <1>1 DEF GcmSivSetNonce, Refused, Result
  <2> QED BY <2>1
<1>2. CASE ~(g.keyno = 0 \/ g.iv)
  <2> DEFINE e == [NoCtr EXCEPT !.base = <<"dk", iv.id>>]
             b == [g EXCEPT !.aadlen = 0, !.datalen = 0, !.mac.hash = <<>>,
                            !.over = FALSE, !.datafin = FALSE, !.aadfin = FALSE,
                            !.iv = TRUE, !.ctr = e]
             m == Message(no, iv, g, clean)
  <2>1. r.ok = TRUE /\ r.h = b
    BY <1>2 DEF GcmSivSetNonce, Done, Result
  <2>2. e.base = <<"dk", iv.id>>
    BY DEF NoCtr
  <2>3. g.mac = Empty /\ (g.tag => ShotGiven(g.tagiv))
    BY <1>2 DEF GsIdle
  <2> HIDE DEF e
  <2>4. [g.mac EXCEPT !.hash = <<>>] = Empty
    BY <2>3 DEF Empty
  <2>5. b = [g EXCEPT !.aadlen = 0, !.datalen = 0, !.mac = Empty,
                      !.over = FALSE, !.datafin = FALSE, !.aadfin = FALSE,
                      !.iv = TRUE, !.ctr = e]
    BY <2>4
  <2> HIDE DEF b
  <2>6. /\ b.aadlen = 0 /\ b.datalen = 0 /\ b.mac = Empty /\ b.datafin = FALSE
        /\ b.aadfin = FALSE /\ b.iv = TRUE /\ b.ctr = e /\ b.keyno = g.keyno /\ b.tag = g.tag
        /\ b.tagiv = g.tagiv
    BY <2>5 DEF IsHandle, Fields
  <2>7. m.key = g.keyno /\ m.data = 0 /\ m.aad = 0 /\ m.iv = iv
    BY DEF Message
  <2> HIDE DEF m
  <2>8. AadOf(m) = <<>>
    BY <2>7, AadIs DEF AadOf
  <2>9. Empty = Coll(FullBlocks(AadOf(m)), Tail0(AadOf(m)))
    BY <2>8, NoBlocks DEF Empty, Coll
  <2>10. GsWhole(b, m)
    BY <2>2, <2>3, <2>6, <2>7, <2>9 DEF GsWhole
  <2> QED BY <2>1, <2>10 DEF m
<1> QED BY <1>1, <1>2

\* _gcry_cipher_gcm_siv_authenticate
LEMMA GsAad ==
  ASSUME mode = "gcmsiv", NEW g, IsHandle(g), NEW m, GsWhole(g, m), NEW n \in Nat,
         NEW x, x.no = m.no, x.key = m.key, x.iv = m.iv, x.aad = m.aad + n, x.data = m.data,
         x.refused = m.refused,
         NEW r, r = GcmSivAuthenticate(g, AadBytes(m.no, m.aad, n))
  PROVE  (r.ok => GsWhole(r.h, x)) /\ (~r.ok => GsWhole(r.h, m))
<1> DEFINE inp == AadBytes(m.no, m.aad, n)
           b == [g EXCEPT !.aadlen = @ + Len(inp)]
<1>1. IsSeq(inp) /\ Len(inp) = n /\ AadBytes(m.no, 0, m.aad + n) = AadOf(m) \o inp
  <2>1. m.aad \in Nat
    BY DEF GsWhole
  <2>2. AadBytes(m.no, 0, m.aad + n) = AadBytes(m.no, 0, m.aad) \o AadBytes(m.no, m.aad, n)
    BY <2>1, AadMore
  <2> QED BY <2>2, AadIs DEF AadOf
<1>2. CASE g.over \/ g.tag \/ ~g.iv \/ g.aadfin \/ g.datafin
  <2>1. r.ok = FALSE /\ r.h = g
    BY <1>2 DEF GcmSivAuthenticate, Refused, Result
  <2> QED BY <2>1
<1>3. CASE ~(g.over \/ g.tag \/ ~g.iv \/ g.aadfin \/ g.datafin)
  <2>1. /\ m.aad \in Nat /\ m.data = 0 /\ g.aadlen = m.aad /\ g.datalen = 0
        /\ g.mac = Coll(FullBlocks(AadOf(m)), Tail0(AadOf(m)))
    BY <1>3 DEF GsWhole
  <2>2. r = IF OverLimit(b.aadlen) THEN Refused([b EXCEPT !.over = TRUE])
            ELSE Done([b EXCEPT !.mac = GhashBuf(@, inp, FALSE)])
    BY <1>3 DEF GcmSivAuthenticate
  <2> HIDE DEF inp
  <2>3. IsHandle(b) /\ b.aadlen = g.aadlen + Len(inp) /\ Same(g, b, {"aadlen"})
    BY DEF IsHandle, Fields, Same
  <2> HIDE DEF b
  <2>4. CASE OverLimit(b.aadlen)
    <3> DEFINE c == [b EXCEPT !.over = TRUE]
    <3>1. r.ok = FALSE /\ r.h = c
      BY <2>2, <2>4 DEF Refused, Result
    <3>2. IsHandle(c) /\ c.over = TRUE /\ Same(b, c, {"over"})
      BY <2>3 DEF IsHandle, Fields, Same
    <3> HIDE DEF c
    <3>3. /\ c.iv = g.iv /\ c.keyno = g.keyno /\ c.ctr = g.ctr /\ c.datafin = g.datafin
          /\ c.tag = g.tag /\ c.tagiv = g.tagiv
      BY <2>3, <3>2 DEF Same, Fields
    <3> QED BY <3>1, <3>2, <3>3, <1>3 DEF GsWhole
  <2>5. CASE ~OverLimit(b.aadlen)
    <3> DEFINE c == [b EXCEPT !.mac = GhashBuf(@, inp, FALSE)]
    <3>1. r.ok = TRUE /\ r.h = c
      BY <2>2, <2>5 DEF Done, Result
    <3>2. IsHandle(c) /\ c.mac = GhashBuf(b.mac, inp, FALSE) /\ Same(b, c, {"mac"})
      BY <2>3 DEF IsHandle, Fields, Same
    <3> HIDE DEF c
    <3>3. /\ c.iv = g.iv /\ c.keyno = g.keyno /\ c.ctr = g.ctr /\ c.datafin = g.datafin
          /\ c.tag = g.tag /\ c.tagiv = g.tagiv /\ c.over = g.over /\ c.aadfin = g.aadfin
          /\ c.datalen = g.datalen /\ c.aadlen = b.aadlen /\ b.mac = g.mac
      BY <2>3, <3>2 DEF Same, Fields
    <3> DEFINE s == AadOf(m)
    <3>4. IsSeq(s)
      BY <2>1, AadIs DEF AadOf
    <3>5. AadOf(x) = s \o inp
      BY <1>1 DEF AadOf
    <3>6. g.mac = Coll(FullBlocks(s), Tail0(s))
      BY <2>1
    <3> HIDE DEF s
    <3>7. GhashBuf(Coll(FullBlocks(s), Tail0(s)), inp, FALSE)
            = Coll(FullBlocks(s \o inp), Tail0(s \o inp))
      <4> DEFINE e == <<>>
      <4>1. IsSeq(e) /\ IsSeq(s) /\ IsSeq(inp)
        BY <3>4, <1>1, EmptyIs DEF inp
      <4>2. e \o FullBlocks(s) = FullBlocks(s) /\ e \o FullBlocks(s \o inp) = FullBlocks(s \o inp)
        BY <4>1, ConcatIs, FewBytes, ConcatEmpty
      <4> HIDE DEF e
      <4>3. GhashBuf(Coll(e \o FullBlocks(s), Tail0(s)), inp, FALSE)
              = Coll(e \o FullBlocks(s \o inp), Tail0(s \o inp))
        BY ONLY <4>1, GhashMore
      <4> QED BY ONLY <4>2, <4>3
    <3>8. c.mac = Coll(FullBlocks(AadOf(x)), Tail0(AadOf(x)))
      BY <3>2, <3>3, <3>5, <3>6, <3>7
    <3>9. c.aadlen = x.aad /\ x.aad \in Nat
      BY <2>1, <2>3, <3>3, <1>1 DEF inp
    <3> QED BY <3>1, <3>3, <3>8, <3>9, <2>1, <1>3 DEF GsWhole
  <2> QED BY <2>4, <2>5
<1> QED BY <1>2, <1>3

\* The end of the AAD, the data and the lengths in POLYVAL make the tag of the message.
LEMMA GsMac ==
  ASSUME mode = "gcmsiv", NEW g, IsHandle(g), NEW m, GsWhole(g, m), ~g.over, ~g.datafin,
         NEW inp, IsSeq(inp), NEW b, b = GcmSivBegin(g, inp)
  PROVE  /\ IsHandle(b) /\ Same(g, b, {"mac", "aadfin", "datalen"})
         /\ \A p : IsSeq(p) /\ Len(p) = Len(inp)
                     => GcmSivTagOf(b, GcmSivMac(b, p).hash) = SivTag(m, p)
<1> DEFINE s == AadOf(m)
           e == <<>>
           f == GcmAadFinish(g)
<1>1. /\ g.mac = Coll(FullBlocks(s), Tail0(s)) /\ ~g.aadfin /\ g.aadlen = m.aad /\ g.datalen = 0
      /\ g.keyno = m.key /\ g.ctr.base = <<"dk", m.iv.id>> /\ m.aad \in Nat
  BY DEF GsWhole
<1>2. IsSeq(s)
  BY <1>1, AadIs DEF AadOf
<1>3. f = [g EXCEPT !.mac = GhashBuf(@, e, TRUE), !.aadfin = TRUE]
  BY <1>1 DEF GcmAadFinish
<1>4. b = [f EXCEPT !.datalen = @ + Len(inp)]
  BY DEF GcmSivBegin
<1>5. s = AadBytes(m.no, 0, m.aad)
  BY DEF AadOf
<1> HIDE DEF f, s
<1>6. IsHandle(f) /\ f.mac = GhashBuf(g.mac, e, TRUE) /\ Same(g, f, {"mac", "aadfin"})
  BY <1>3 DEF IsHandle, Fields, Same
<1>7. IsHandle(b) /\ b.datalen = f.datalen + Len(inp) /\ Same(f, b, {"datalen"})
  BY <1>4, <1>6 DEF IsHandle, Fields, Same
<1>8. Same(g, b, {"mac", "aadfin", "datalen"})
  BY <1>6, <1>7 DEF Same
<1>9. /\ b.mac = f.mac /\ f.datalen = g.datalen /\ b.aadlen = g.aadlen /\ b.keyno = g.keyno
      /\ b.ctr = g.ctr
  BY <1>6, <1>7, <1>8 DEF Same, Fields
<1>10. b.datalen = Len(inp) /\ b.aadlen = m.aad
  BY <1>1, <1>7, <1>9, IsSeqLen
<1>11. /\ IsSeq(e) /\ Len(e) = 0 /\ s \o e = s /\ IsSeq(FullBlocks(s)) /\ IsSeq(Blocks(s))
       /\ e \o FullBlocks(s) = FullBlocks(s) /\ e \o Blocks(s) = Blocks(s)
  BY <1>2, EmptyIs, FewBytes, PaddedConcat, ConcatEmpty
<1>n. Len(e) < BlockLen
  BY <1>11, BlockLenAssumption
<1>12. b.mac = Coll(Blocks(s), e)
  <2>1. GhashBuf(Coll(e \o FullBlocks(s), Tail0(s)), e, TRUE) = Coll(e \o Blocks(s \o e), <<>>)
    <3> HIDE DEF e
    <3>1. IsSeq(e) /\ IsSeq(s)
      BY <1>2, <1>11
    <3> QED BY ONLY <3>1, GhashMore
  <2> QED BY <2>1, <1>1, <1>6, <1>9, <1>11
<1>13. ASSUME NEW p, IsSeq(p), Len(p) = Len(inp)
       PROVE  GcmSivTagOf(b, GcmSivMac(b, p).hash) = SivTag(m, p)
  <2> DEFINE l == LengthBlock(m.aad, Len(p))
             u == Blocks(s)
             v == u \o Blocks(p)
  <2>1. IsSeq(l) /\ Blocks(l) = <<l>>
    BY LengthIs
  <2>2. IsSeq(u) /\ e \o p = p /\ e \o l = l /\ IsSeq(Blocks(p))
    BY <1>11, <1>13, <2>1, ConcatEmpty, PaddedConcat
  <2>3. IsSeq(v)
    BY <2>2, ConcatIs
  <2>4. GcmSivMac(b, p) = GhashBuf(GhashBuf(Coll(u, e), p, TRUE), l, TRUE)
    BY <1>10, <1>12, <1>13 DEF GcmSivMac
  <2>5. SivTag(m, p) = <<"siv", m.key, <<"dk", m.iv.id>>, v \o <<l>> >>
    BY <1>5 DEF SivTag
  <2> HIDE DEF l, u, e, v
  <2>6. GhashBuf(Coll(u, e), p, TRUE) = Coll(u \o Blocks(e \o p), <<>>)
    <3>1. IsSeq(u) /\ IsSeq(e) /\ IsSeq(p) /\ Len(e) < BlockLen
      BY <1>11, <1>n, <1>13, <2>2
    <3> QED BY ONLY <3>1, GhashIs
  <2>7. GhashBuf(Coll(v, e), l, TRUE) = Coll(v \o Blocks(e \o l), <<>>)
    <3>1. IsSeq(v) /\ IsSeq(e) /\ IsSeq(l) /\ Len(e) < BlockLen
      BY <1>11, <1>n, <2>1, <2>3
    <3> QED BY ONLY <3>1, GhashIs
  <2>8. GcmSivMac(b, p) = Coll(v \o <<l>>, <<>>)
    BY <2>1, <2>2, <2>4, <2>6, <2>7 DEF v, e
  <2>9. GcmSivMac(b, p).hash = v \o <<l>>
    BY <2>8 DEF Coll
  <2> QED BY <2>5, <2>9, <1>1, <1>9 DEF GcmSivTagOf
<1> QED BY <1>7, <1>8, <1>13

\* Data over the limit of gcm_siv_check_len.
LEMMA GsOver ==
  ASSUME mode = "gcmsiv", NEW g, NEW m, GsWhole(g, m), ~g.over, ~g.datafin, NEW b,
         IsHandle(b), Same(g, b, {"mac", "aadfin", "datalen"}),
         NEW c, c = [b EXCEPT !.over = TRUE]
  PROVE  GsWhole(c, m) /\ c.datafin = g.datafin
<1>1. IsHandle(c) /\ c.over = TRUE /\ Same(b, c, {"over"})
  BY DEF IsHandle, Fields, Same
<1>2. /\ c.iv = g.iv /\ c.keyno = g.keyno /\ c.ctr = g.ctr /\ c.datafin = g.datafin
      /\ c.tag = g.tag /\ c.tagiv = g.tagiv
  BY <1>1 DEF Same, Fields
<1> QED BY <1>1, <1>2 DEF GsWhole

\* The stream of the tag over the data.
LEMMA GsCipherIs ==
  ASSUME mode = "gcmsiv", NEW m, NEW g, g.keyno = m.key, g.ctr.base = <<"dk", m.iv.id>>, NEW d
  PROVE  GcmSivStream(g, d, SivTag(m, d)) = SivCipher(m, d)
  BY DEF GcmSivStream, SivCipher

\* _gcry_cipher_gcm_siv_encrypt
LEMMA GsSeals ==
  ASSUME mode = "gcmsiv", NEW g, IsHandle(g), NEW m, GsWhole(g, m), NEW n \in Nat,
         NEW x, ShotMore(m, x, n), NEW r, r = GcmSivEncrypt(g, DataBytes(m.no, m.data, n))
  PROVE  /\ r.ok => /\ GsWhole(r.h, x) /\ IsHandle(r.h) /\ r.h.datafin
                    /\ x.way = "encrypt" => Returns(x, r.out)
         /\ ~r.ok => GsWhole(r.h, m) /\ r.h.datafin = g.datafin
<1> DEFINE d == DataBytes(m.no, m.data, n)
           b == GcmSivBegin(g, d)
<1>1. CASE g.over \/ g.tag \/ ~g.iv \/ g.datafin
  <2>1. r.ok = FALSE /\ r.h = g
    BY <1>1 DEF GcmSivEncrypt, Refused, Result
  <2> QED BY <2>1
<1>2. CASE ~(g.over \/ g.tag \/ ~g.iv \/ g.datafin)
  <2>1. /\ m.data = 0 /\ m.key = g.keyno /\ m.aad \in Nat /\ g.ctr.base = <<"dk", m.iv.id>>
        /\ x.data = n
    BY <1>2 DEF GsWhole, ShotMore
  <2>2. d = DataBytes(m.no, 0, n) /\ d = Given(x)
    BY <2>1 DEF Given, ShotMore
  <2>3. IsSeq(d) /\ Len(d) = n
    BY <2>2, DataIs
  <2>4. SivTag(x, d) = SivTag(m, d) /\ SivCipher(x, d) = SivCipher(m, d)
    BY DEF ShotMore, SivTag, SivCipher
  <2>5. r = GcmSivSeal(b, d)
    BY <1>2 DEF GcmSivEncrypt
  <2>6. b = GcmSivBegin(g, d)
    OBVIOUS
  <2> HIDE DEF b, d
  <2>7. /\ IsHandle(b) /\ Same(g, b, {"mac", "aadfin", "datalen"})
        /\ \A p : IsSeq(p) /\ Len(p) = Len(d)
                    => GcmSivTagOf(b, GcmSivMac(b, p).hash) = SivTag(m, p)
    <3>1. /\ mode = "gcmsiv" /\ IsHandle(g) /\ GsWhole(g, m) /\ ~g.over /\ ~g.datafin
          /\ IsSeq(d) /\ b = GcmSivBegin(g, d)
      BY <1>2, <2>3, <2>6
    <3> QED BY ONLY <3>1, GsMac
  <2>8. CASE OverLimit(b.datalen)
    <3> DEFINE c == [b EXCEPT !.over = TRUE]
    <3>1. r.ok = FALSE /\ r.h = c
      BY <2>5, <2>8 DEF GcmSivSeal, Refused, Result
    <3>2. /\ mode = "gcmsiv" /\ GsWhole(g, m) /\ ~g.over /\ ~g.datafin /\ IsHandle(b)
          /\ Same(g, b, {"mac", "aadfin", "datalen"}) /\ c = [b EXCEPT !.over = TRUE]
      BY <2>7, <1>2
    <3> HIDE DEF c
    <3>3. GsWhole(c, m) /\ c.datafin = g.datafin
      BY ONLY <3>2, GsOver
    <3> QED BY <3>1, <3>3
  <2>9. CASE ~OverLimit(b.datalen)
    <3> DEFINE a == GcmSivMac(b, d)
               t == GcmSivTagOf(b, a.hash)
               c == [b EXCEPT !.mac = a, !.datafin = TRUE, !.tag = TRUE, !.tagiv = t]
    <3>1. r.ok = TRUE /\ r.h = c /\ r.out = GcmSivStream(b, d, t)
      BY <2>5, <2>9 DEF GcmSivSeal, GcmSivSealed, Result
    <3>2. t = SivTag(m, d)
      BY <2>3, <2>7
    <3> HIDE DEF t, a
    <3>3. /\ IsHandle(c) /\ c.datafin = TRUE /\ c.tag = TRUE /\ c.tagiv = t
          /\ Same(b, c, {"mac", "datafin", "tag", "tagiv"})
      BY <2>7 DEF IsHandle, Fields, Same
    <3> HIDE DEF c
    <3>4. /\ b.keyno = g.keyno /\ b.ctr = g.ctr /\ c.iv = g.iv /\ c.keyno = g.keyno
          /\ c.ctr = g.ctr
      BY <2>7, <3>3 DEF Same, Fields
    <3>5. GsWhole(c, x)
      BY <3>2, <3>3, <3>4, <2>1, <2>2, <2>4, <1>2 DEF GsWhole, ShotMore
    <3>6. ASSUME x.way = "encrypt" PROVE Returns(x, r.out)
      <4>1. r.out = SivCipher(m, d)
        BY <3>1, <3>2, <3>4, <2>1, GsCipherIs
      <4>2. r.out = Made(x)
        BY <4>1, <3>6, <2>2, <2>4, ShotText DEF OneShot
      <4>3. IsSeq(r.out) /\ Len(r.out) = n
        <5> DEFINE o == r.out
        <5>1. o = [i \in 1..n |-> Xor(<<"le", b.keyno, b.ctr.base, t, i>>, d[i])]
          BY <3>1, <2>3 DEF GcmSivStream
        <5> HIDE DEF o
        <5>2. DOMAIN o = 1..n /\ o = [i \in 1..n |-> o[i]]
          BY <5>1
        <5>3. IsSeq(o) /\ Len(o) = n
          BY <5>2, SeqFcn
        <5> QED BY <5>3 DEF o
      <4>4. r.out = SubSeq(r.out, n - Len(r.out) + 1, n)
        BY <4>3, SubSeqAll
      <4> QED BY <4>2, <4>4, <2>1 DEF Returns
    <3> QED BY <3>1, <3>3, <3>5, <3>6
  <2> QED BY <2>8, <2>9
<1> QED BY <1>1, <1>2

\* The stream of another tag over the ciphertext makes data that is no message's.
LEMMA GsBack ==
  ASSUME mode = "gcmsiv", NEW m, NEW g, g.keyno = m.key, g.ctr.base = <<"dk", m.iv.id>>,
         NEW no, NEW n \in Nat, NEW d, d = DataBytes(no, 0, n), NEW v, NEW o,
         o = GcmSivStream(g, SivCipher(m, d), v)
  PROVE  /\ IsSeq(o) /\ Len(o) = n
         /\ IsSeq(SivCipher(m, d)) /\ Len(SivCipher(m, d)) = n
         /\ v = SivTag(m, d) => o = d
         /\ n # 0 /\ v # SivTag(m, d) => o[1][1] = "xor"
         /\ n = 0 => o = d
<1> DEFINE t == SivTag(m, d)
           c == SivCipher(m, d)
           K(w, i) == <<"le", m.key, <<"dk", m.iv.id>>, w, i>>
           kt == [i \in 1..n |-> K(t, i)]
           kv == [i \in 1..n |-> K(v, i)]
<1>1. IsSeq(d) /\ Len(d) = n
  BY DataIs
<1>2. c = [i \in 1..n |-> Xor(K(t, i), d[i])]
  BY <1>1 DEF SivCipher
<1>3. \A i : K(v, i)[4] = v /\ K(t, i)[4] = t
  OBVIOUS
<1>4. o = [i \in 1..Len(c) |-> Xor(K(v, i), c[i])]
  BY DEF GcmSivStream
<1> HIDE DEF t, c, K
<1>5. IsSeq(c) /\ Len(c) = n
  <2>1. DOMAIN c = 1..n /\ c = [i \in 1..n |-> c[i]]
    BY <1>2
  <2> QED BY <2>1, SeqFcn
<1>6. IsSeq(o) /\ Len(o) = n
  <2>1. DOMAIN o = 1..n /\ o = [i \in 1..n |-> o[i]]
    BY <1>4, <1>5
  <2> QED BY <2>1, SeqFcn
<1>7. \A i \in 1..n : c[i] = Xor(kt[i], d[i]) /\ o[i] = Xor(kv[i], c[i])
  BY <1>2, <1>4, <1>5
<1>8. (v = t => \A i \in 1..n : kv[i] = kt[i]) /\ (n # 0 /\ v # t => kv[1] # kt[1])
  BY <1>3
<1> HIDE DEF kt, kv
<1>9. /\ (\A i \in 1..n : kv[i] = kt[i]) => o = d
      /\ n # 0 /\ kv[1] # kt[1] => o[1][1] = "xor"
      /\ n = 0 => o = d
  <2>1. /\ n \in Nat /\ d = DataBytes(no, 0, n) /\ IsSeq(o) /\ Len(o) = n
        /\ \A i \in 1..n : c[i] = Xor(kt[i], d[i]) /\ o[i] = Xor(kv[i], c[i])
    BY <1>6, <1>7
  <2> QED BY ONLY <2>1, TwiceXor
<1> QED BY <1>5, <1>6, <1>8, <1>9 DEF t, c

\* So the tag that was given and accepted is that of the message.
LEMMA GsAccepted ==
  ASSUME mode = "gcmsiv", NEW m, m.aad \in Nat, NEW g, g.keyno = m.key,
         g.ctr.base = <<"dk", m.iv.id>>, NEW n \in Nat, NEW d, d = DataBytes(m.no, 0, n),
         NEW v, ShotGiven(v), NEW o, o = GcmSivStream(g, SivCipher(m, d), v),
         SivTag(m, o) = v
  PROVE  o = d
<1>1. /\ IsSeq(o) /\ Len(o) = n
      /\ v = SivTag(m, d) => o = d
      /\ n # 0 /\ v # SivTag(m, d) => o[1][1] = "xor"
      /\ n = 0 => o = d
  BY GsBack
<1>2. ASSUME n # 0, v # SivTag(m, d) PROVE FALSE
  <2>0. v # Forged
    <3>1. v[1] = "siv" /\ Forged[1] = "forged"
      BY DEF SivTag, Forged
    <3> QED BY <3>1
  <2>1. PICK y : y.aad \in Nat /\ \E p \in Nat : v = SivTag(y, DataBytes(y.no, 0, p))
    BY <2>0 DEF ShotGiven
  <2>2. PICK p \in Nat : v = SivTag(y, DataBytes(y.no, 0, p))
    BY <2>1
  <2> DEFINE w == DataBytes(y.no, 0, p)
  <2>3. IsSeq(w) /\ Len(w) = p
    BY DataIs
  <2>4. SivTag(m, o) = SivTag(y, w)
    BY <2>2
  <2>5. p # 0 => w[1][1] = "d"
    BY DataFirst
  <2> HIDE DEF w
  <2>6. Len(o) = Len(w) /\ (Len(o) # 0 => o[1] = w[1])
    <3>1. mode = "gcmsiv" /\ m.aad \in Nat /\ y.aad \in Nat /\ IsSeq(o) /\ IsSeq(w)
          /\ SivTag(m, o) = SivTag(y, w)
      BY <1>1, <2>1, <2>3, <2>4
    <3> QED BY ONLY <3>1, GsTagsSame
  <2>7. o[1][1] = "d" /\ o[1][1] = "xor"
    BY <1>1, <1>2, <2>3, <2>5, <2>6
  <2> QED BY <2>7
<1> QED BY <1>1, <1>2

\* _gcry_cipher_gcm_siv_decrypt.  z is the message after a mismatch.
LEMMA GsOpens ==
  ASSUME mode = "gcmsiv", NEW g, IsHandle(g), NEW m, GsWhole(g, m), NEW n \in Nat,
         NEW x, ShotMore(m, x, n), x.way = "decrypt",
         NEW z, z.no = m.no, z.key = m.key, z.iv = m.iv, z.aad = m.aad, z.data = m.data + n,
         z.refused,
         NEW r, r = GcmSivDecrypt(g, SivCipher(m, DataBytes(m.no, m.data, n)))
  PROVE  /\ r.ok => GsWhole(r.h, x) /\ Returns(x, r.out) /\ g.tagiv = Tag(x)
         /\ ~r.ok => r.out = <<>>
         /\ ~r.ok /\ r.h.datafin = g.datafin => GsWhole(r.h, m)
         /\ ~r.ok /\ r.h.datafin # g.datafin => GsWhole(r.h, z)
<1> DEFINE d == DataBytes(m.no, m.data, n)
           s == SivCipher(m, d)
           b == GcmSivBegin(g, s)
<1>1. CASE g.over \/ ~g.tag \/ ~g.iv \/ g.datafin
  <2>1. r.ok = FALSE /\ r.h = g /\ r.out = <<>>
    BY <1>1 DEF GcmSivDecrypt, Refused, Result
  <2> QED BY <2>1
<1>2. CASE ~(g.over \/ ~g.tag \/ ~g.iv \/ g.datafin)
  <2>1. /\ m.data = 0 /\ m.key = g.keyno /\ m.aad \in Nat /\ g.ctr.base = <<"dk", m.iv.id>>
        /\ x.data = n /\ ShotGiven(g.tagiv)
    BY <1>2 DEF GsWhole, ShotMore
  <2>2. d = DataBytes(m.no, 0, n) /\ d = Given(x)
    BY <2>1 DEF Given, ShotMore
  <2>3. SivTag(x, d) = SivTag(m, d)
    BY DEF ShotMore, SivTag
  <2>4. r = GcmSivOpen(b, s)
    BY <1>2 DEF GcmSivDecrypt
  <2>5. b = GcmSivBegin(g, s)
    OBVIOUS
  <2> HIDE DEF b, d
  <2>6. IsSeq(s) /\ Len(s) = n
    <3>1. PICK w, o : w = g.tagiv /\ o = GcmSivStream(g, SivCipher(m, d), w)
      OBVIOUS
    <3>2. /\ mode = "gcmsiv" /\ g.keyno = m.key /\ g.ctr.base = <<"dk", m.iv.id>> /\ n \in Nat
          /\ d = DataBytes(m.no, 0, n) /\ o = GcmSivStream(g, SivCipher(m, d), w)
      BY <3>1, <2>1, <2>2
    <3>3. IsSeq(SivCipher(m, d)) /\ Len(SivCipher(m, d)) = n
      BY ONLY <3>2, GsBack
    <3> QED BY <3>3 DEF s
  <2> HIDE DEF s
  <2>7. /\ IsHandle(b) /\ Same(g, b, {"mac", "aadfin", "datalen"})
        /\ \A p : IsSeq(p) /\ Len(p) = Len(s)
                    => GcmSivTagOf(b, GcmSivMac(b, p).hash) = SivTag(m, p)
    <3>1. /\ mode = "gcmsiv" /\ IsHandle(g) /\ GsWhole(g, m) /\ ~g.over /\ ~g.datafin
          /\ IsSeq(s) /\ b = GcmSivBegin(g, s)
      BY <1>2, <2>5, <2>6
    <3> QED BY ONLY <3>1, GsMac
  <2>8. b.keyno = g.keyno /\ b.ctr = g.ctr /\ b.tagiv = g.tagiv
    BY <2>7 DEF Same, Fields
  <2>9. CASE OverLimit(b.datalen)
    <3> DEFINE c == [b EXCEPT !.over = TRUE]
    <3>1. r.ok = FALSE /\ r.h = c /\ r.out = <<>>
      BY <2>4, <2>9 DEF GcmSivOpen, Refused, Result
    <3>2. /\ mode = "gcmsiv" /\ GsWhole(g, m) /\ ~g.over /\ ~g.datafin /\ IsHandle(b)
          /\ Same(g, b, {"mac", "aadfin", "datalen"}) /\ c = [b EXCEPT !.over = TRUE]
      BY <2>7, <1>2
    <3> HIDE DEF c
    <3>3. GsWhole(c, m) /\ c.datafin = g.datafin
      BY ONLY <3>2, GsOver
    <3> QED BY <3>1, <3>3
  <2>10. CASE ~OverLimit(b.datalen)
    <3> DEFINE o == GcmSivStream(b, s, g.tagiv)
               a == GcmSivMac(b, o)
               c == [b EXCEPT !.mac = a, !.datafin = TRUE]
    <3>1. r = IF GcmSivTagOf(b, a.hash) = g.tagiv THEN Result(c, TRUE, o) ELSE Refused(c)
      BY <2>4, <2>8, <2>10 DEF GcmSivOpen, GcmSivOpened, GcmSivCompare
    <3>2. o = GcmSivStream(b, SivCipher(m, d), g.tagiv)
      BY DEF s
    <3> HIDE DEF o
    <3>3. IsSeq(o) /\ Len(o) = n
      BY <3>2, <2>1, <2>2, <2>8, GsBack
    <3>4. GcmSivTagOf(b, a.hash) = SivTag(m, o)
      BY <3>3, <2>6, <2>7
    <3> HIDE DEF a
    <3>5. /\ IsHandle(c) /\ c.datafin = TRUE /\ Same(b, c, {"mac", "datafin"})
      BY <2>7 DEF IsHandle, Fields, Same
    <3> HIDE DEF c
    <3>6. /\ c.iv = g.iv /\ c.keyno = g.keyno /\ c.ctr = g.ctr /\ c.tag = g.tag
          /\ c.tagiv = g.tagiv
      BY <2>7, <3>5 DEF Same, Fields
    <3>7. CASE SivTag(m, o) = g.tagiv
      <4>1. r.ok = TRUE /\ r.h = c /\ r.out = o
        BY <3>1, <3>4, <3>7 DEF Result
      <4>2. o = d
        <5>1. /\ mode = "gcmsiv" /\ m.aad \in Nat /\ b.keyno = m.key
              /\ b.ctr.base = <<"dk", m.iv.id>> /\ n \in Nat /\ d = DataBytes(m.no, 0, n)
              /\ ShotGiven(g.tagiv) /\ o = GcmSivStream(b, SivCipher(m, d), g.tagiv)
              /\ SivTag(m, o) = g.tagiv
          BY <2>1, <2>2, <2>8, <3>2, <3>7
        <5> QED BY ONLY <5>1, GsAccepted
      <4>3. g.tagiv = SivTag(x, Given(x))
        BY <4>2, <3>7, <2>2, <2>3
      <4>4. GsWhole(c, x)
        BY <4>3, <3>5, <3>6, <2>1, <1>2 DEF GsWhole, ShotMore
      <4>5. Tag(x) = SivTag(x, Given(x)) /\ Made(x) = Given(x)
        BY ShotText DEF OneShot
      <4>6. o = SubSeq(o, n - Len(o) + 1, n)
        BY <3>3, SubSeqAll
      <4>7. Returns(x, o)
        BY <4>2, <4>5, <4>6, <2>1, <2>2 DEF Returns
      <4> QED BY <4>1, <4>3, <4>4, <4>5, <4>7
    <3>8. CASE SivTag(m, o) # g.tagiv
      <4>1. r.ok = FALSE /\ r.h = c /\ r.out = <<>>
        BY <3>1, <3>4, <3>8 DEF Refused, Result
      <4>2. c.datafin # g.datafin
        BY <3>5, <1>2
      <4>3. GsWhole(c, z)
        BY <3>5, <3>6, <2>1, <1>2 DEF GsWhole
      <4> QED BY <4>1, <4>2, <4>3
    <3> QED BY <3>7, <3>8
  <2> QED BY <2>9, <2>10
<1> QED BY <1>1, <1>2

\* _gcry_cipher_gcm_siv_tag
LEMMA GsTagged ==
  ASSUME mode = "gcmsiv", NEW g, IsHandle(g), NEW m, GsWhole(g, m), NEW r, r = GcmSivTag(g)
  PROVE  GsWhole(r.h, m) /\ (r.ok /\ ~m.refused => r.h.val = Tag(m))
<1> DEFINE e == IF g.tag THEN Done(g) ELSE GcmSivEncrypt(g, <<>>)
<1>1. GsWhole(e.h, m) /\ (e.ok => IsHandle(e.h))
  <2>1. CASE g.tag
    <3>1. e.h = g
      BY <2>1 DEF Done, Result
    <3> HIDE DEF e
    <3> QED BY <3>1
  <2>2. CASE ~g.tag
    <3> DEFINE n == 0
    <3>1. m.data = 0
      BY <2>2 DEF GsWhole
    <3>2. DataBytes(m.no, m.data, n) = <<>> /\ n \in Nat
      BY <3>1, DataIs
    <3>3. e = GcmSivEncrypt(g, DataBytes(m.no, m.data, n))
      BY <2>2, <3>2
    <3>4. ShotMore(m, m, n)
      BY <3>1 DEF ShotMore
    <3> HIDE DEF e, n
    <3>5. (e.ok => GsWhole(e.h, m) /\ IsHandle(e.h)) /\ (~e.ok => GsWhole(e.h, m))
      <4>1. /\ mode = "gcmsiv" /\ IsHandle(g) /\ GsWhole(g, m) /\ n \in Nat /\ ShotMore(m, m, n)
            /\ e = GcmSivEncrypt(g, DataBytes(m.no, m.data, n))
        BY <3>2, <3>3, <3>4
      <4> QED BY ONLY <4>1, GsSeals
    <3> QED BY <3>5
  <2> QED BY <2>1, <2>2
<1>2. r = GcmSivTagOut(e)
  BY DEF GcmSivTag
<1> HIDE DEF e
<1>3. CASE ~e.ok \/ e.h.over \/ ~e.h.datafin
  <2>1. r.ok = FALSE /\ r.h = e.h
    BY <1>2, <1>3 DEF GcmSivTagOut, Refused, Result
  <2> QED BY <2>1, <1>1
<1>4. CASE ~(~e.ok \/ e.h.over \/ ~e.h.datafin)
  <2> DEFINE b == [e.h EXCEPT !.val = e.h.tagiv]
  <2>1. r.ok = TRUE /\ r.h = b
    BY <1>2, <1>4 DEF GcmSivTagOut, Done, Result
  <2>2. IsHandle(b) /\ b.val = e.h.tagiv /\ Same(e.h, b, {"val"})
    BY <1>1, <1>4 DEF IsHandle, Fields, Same
  <2> HIDE DEF b
  <2>3. /\ b.iv = e.h.iv /\ b.keyno = e.h.keyno /\ b.ctr = e.h.ctr /\ b.datafin = e.h.datafin
        /\ b.tag = e.h.tag /\ b.tagiv = e.h.tagiv
    BY <2>2 DEF Same, Fields
  <2>4. GsWhole(b, m)
    BY <2>3, <1>1, <1>4 DEF GsWhole
  <2>5. ~m.refused => b.val = SivTag(m, Given(m))
    BY <2>2, <1>1, <1>4 DEF GsWhole
  <2>6. Tag(m) = SivTag(m, Given(m))
    BY ShotText DEF OneShot
  <2> QED BY <2>1, <2>4, <2>5, <2>6
<1> QED BY <1>3, <1>4

\* _gcry_cipher_gcm_siv_set_decryption_tag
LEMMA GsGivenTag ==
  ASSUME mode = "gcmsiv", NEW g, IsHandle(g), NEW t, ShotGiven(t), NEW r,
         r = GcmSivSetDecryptionTag(g, t)
  PROVE  /\ r.h.iv = g.iv /\ (GsIdle(g) => GsIdle(r.h))
         /\ \A m : GsWhole(g, m) => GsWhole(r.h, m)
<1>1. CASE g.tag
  <2>1. r.h = g
    BY <1>1 DEF GcmSivSetDecryptionTag, Refused, Result
  <2> QED BY <2>1
<1>2. CASE ~g.tag
  <2> DEFINE b == [g EXCEPT !.tagiv = t, !.tag = TRUE]
  <2>1. r.h = b
    BY <1>2 DEF GcmSivSetDecryptionTag, Done, Result
  <2>2. IsHandle(b) /\ b.tagiv = t /\ b.tag = TRUE /\ Same(g, b, {"tagiv", "tag"})
    BY DEF IsHandle, Fields, Same
  <2> HIDE DEF b
  <2>3. /\ b.iv = g.iv /\ b.keyno = g.keyno /\ b.ctr = g.ctr /\ b.datafin = g.datafin
        /\ b.over = g.over /\ b.aadfin = g.aadfin /\ b.aadlen = g.aadlen
        /\ b.datalen = g.datalen /\ b.mac = g.mac
    BY <2>2 DEF Same, Fields
  <2>4. ASSUME NEW m, GsWhole(g, m) PROVE GsWhole(b, m)
    BY <2>2, <2>3, <2>4, <1>2 DEF GsWhole
  <2> QED BY <2>1, <2>2, <2>3, <2>4 DEF GsIdle
<1> QED BY <1>1, <1>2

\* A handle without a nonce stays as it is, and one with a nonce keeps it.
GsRests(g, x) == x.iv = g.iv /\ (~g.iv /\ GsIdle(g) => GsIdle(x))

\* This goes for all routines but set_nonce.
LEMMA GsResting ==
  ASSUME mode = "gcmsiv", NEW g, IsHandle(g), NEW inp
  PROVE  /\ GsRests(g, GcmSivAuthenticate(g, inp).h) /\ GsRests(g, GcmSivEncrypt(g, inp).h)
         /\ GsRests(g, GcmSivDecrypt(g, inp).h) /\ GsRests(g, GcmSivTag(g).h)
<1>1. GsRests(g, GcmSivAuthenticate(g, inp).h)
  <2> DEFINE x == GcmSivAuthenticate(g, inp).h
             b == [g EXCEPT !.aadlen = @ + Len(inp)]
  <2>1. CASE ~g.iv
    BY <2>1 DEF GcmSivAuthenticate, Refused, Result, GsRests
  <2>2. CASE g.iv
    <3>1. IsHandle(b) /\ b.iv = g.iv
      BY DEF IsHandle, Fields
    <3>2. x \in {g, [b EXCEPT !.over = TRUE], [b EXCEPT !.mac = GhashBuf(@, inp, FALSE)]}
      BY DEF GcmSivAuthenticate, Refused, Done, Result
    <3> HIDE DEF b, x
    <3>3. x.iv = g.iv
      BY <3>1, <3>2 DEF IsHandle, Fields
    <3> QED BY <3>3, <2>2 DEF GsRests, x
  <2> QED BY <2>1, <2>2
<1>2. ASSUME NEW i
      PROVE  /\ IsHandle(GcmSivBegin(g, i)) /\ GcmSivBegin(g, i).iv = g.iv
  <2> DEFINE f == GcmAadFinish(g)
  <2>1. IsHandle(f) /\ f.iv = g.iv
    BY DEF GcmAadFinish, IsHandle, Fields
  <2> HIDE DEF f
  <2>2. GcmSivBegin(g, i) = [f EXCEPT !.datalen = @ + Len(i)]
    BY DEF GcmSivBegin, f
  <2> QED BY <2>1, <2>2 DEF IsHandle, Fields
<1>3. ASSUME NEW i
      PROVE  /\ GcmSivEncrypt(g, i).h.iv = g.iv /\ IsHandle(GcmSivEncrypt(g, i).h)
             /\ ~g.iv => GcmSivEncrypt(g, i).h = g /\ GcmSivEncrypt(g, i).ok = FALSE
  <2> DEFINE b == GcmSivBegin(g, i)
  <2>1. CASE g.over \/ g.tag \/ ~g.iv \/ g.datafin
    BY <2>1 DEF GcmSivEncrypt, Refused, Result
  <2>2. CASE ~(g.over \/ g.tag \/ ~g.iv \/ g.datafin)
    <3>1. GcmSivEncrypt(g, i) = GcmSivSeal(b, i)
      BY <2>2 DEF GcmSivEncrypt
    <3>2. IsHandle(b) /\ b.iv = g.iv
      BY <1>2
    <3> HIDE DEF b
    <3>3. IsHandle(GcmSivSeal(b, i).h) /\ GcmSivSeal(b, i).h.iv = b.iv
      BY <3>2 DEF GcmSivSeal, GcmSivSealed, Refused, Result, IsHandle, Fields
    <3> QED BY <3>1, <3>2, <3>3, <2>2
  <2> QED BY <2>1, <2>2
<1>4. GsRests(g, GcmSivDecrypt(g, inp).h)
  <2> DEFINE b == GcmSivBegin(g, inp)
  <2>1. CASE g.over \/ ~g.tag \/ ~g.iv \/ g.datafin
    BY <2>1 DEF GcmSivDecrypt, Refused, Result, GsRests
  <2>2. CASE ~(g.over \/ ~g.tag \/ ~g.iv \/ g.datafin)
    <3>1. GcmSivDecrypt(g, inp) = GcmSivOpen(b, inp)
      BY <2>2 DEF GcmSivDecrypt
    <3>2. IsHandle(b) /\ b.iv = g.iv
      BY <1>2
    <3> HIDE DEF b
    <3>3. GcmSivOpen(b, inp).h.iv = b.iv
      BY <3>2 DEF GcmSivOpen, GcmSivOpened, GcmSivCompare, Refused, Result, IsHandle, Fields
    <3> QED BY <3>1, <3>2, <3>3, <2>2 DEF GsRests
  <2> QED BY <2>1, <2>2
<1>5. GsRests(g, GcmSivEncrypt(g, inp).h)
  BY <1>3 DEF GsRests
<1>6. GsRests(g, GcmSivTag(g).h)
  <2> DEFINE e == IF g.tag THEN Done(g) ELSE GcmSivEncrypt(g, <<>>)
  <2>1. IsHandle(e.h) /\ e.h.iv = g.iv /\ (~g.iv => e.h = g)
    <3>1. CASE g.tag
      <4>1. e.h = g
        BY <3>1 DEF Done, Result
      <4> HIDE DEF e
      <4> QED BY <4>1
    <3>2. CASE ~g.tag
      <4>1. e = GcmSivEncrypt(g, <<>>)
        BY <3>2
      <4> HIDE DEF e
      <4> QED BY <4>1, <1>3
    <3> QED BY <3>1, <3>2
  <2>2. GcmSivTag(g) = GcmSivTagOut(e)
    BY DEF GcmSivTag
  <2> HIDE DEF e
  <2> DEFINE b == [e.h EXCEPT !.val = e.h.tagiv]
  <2>3. GcmSivTag(g).h \in {e.h, b}
    BY <2>2 DEF GcmSivTagOut, Refused, Done, Result
  <2>4. b.iv = e.h.iv /\ b.mac = e.h.mac /\ b.tag = e.h.tag /\ b.tagiv = e.h.tagiv
    BY <2>1 DEF IsHandle, Fields
  <2> HIDE DEF b
  <2> QED BY <2>1, <2>3, <2>4 DEF GsRests, GsIdle
<1> QED BY <1>1, <1>4, <1>5, <1>6

-----------------------------------------------------------------------------
(* The invariant of the one-shot modes *)

\* The handle g works on the message m.
ShotWhole(g, m) ==
  /\ mode = "siv" => SivWhole(g, m)
  /\ mode = "gcmsiv" => (~g.iv => GsIdle(g)) /\ (m.whole => GsWhole(g, m))

\* What the properties say of a message and the last call.
ShotSays(m, l) ==
  /\ Says(m, l)
  /\ l.op = "decrypt" => IF l.ok THEN l.tag = Tag(m) ELSE l.value = <<>>

\* What holds of the handle, the message and the last call in these modes.
ShotGood(g, m, l) ==
  /\ m.aad \in Nat /\ ShotWhole(g, m)
  /\ m.whole /\ m.clean => ShotSays(m, l)

\* The invariant.
ShotInv == mode \in OneShot => ShotGood(h, msg, last)

\* The mode never changes, so what depends on it is the same after a step.
LEMMA ShotPrimed ==
  ASSUME mode \in OneShot, mode' = mode, ShotGood(h', msg', last')
  PROVE  ShotInv'
<1>1. \A m, s : SivTag(m, s)' = SivTag(m, s)
  BY DEF SivTag
<1>2. \A m, s : SivCipher(m, s)' = SivCipher(m, s)
  BY <1>1 DEF SivCipher
<1>3. Given(msg)' = Given(msg')
  BY DEF Given
<1>4. SivTag(msg, Given(msg))' = SivTag(msg', Given(msg'))
  BY <1>3 DEF SivTag
<1>5. SivCipher(msg, Given(msg))' = SivCipher(msg', Given(msg'))
  BY <1>3, <1>4 DEF SivCipher, SivTag
<1>6. Made(msg)' = Made(msg')
  BY <1>3, <1>5 DEF Made, OneShot
<1>7. PlainText(msg)' = PlainText(msg')
  BY <1>3, <1>6 DEF PlainText
<1>8. Tag(msg)' = Tag(msg')
  BY <1>7 DEF Tag, OneShot, SivTag
<1>9. \A t : ShotGiven(t)' <=> ShotGiven(t)
  BY <1>1 DEF ShotGiven
<1>10. ShotGiven(h'.tagiv) => ShotGiven(h.tagiv)'
  BY <1>1 DEF ShotGiven
<1>11. SivWhole(h', msg') => SivWhole(h, msg)'
  BY <1>4, <1>10 DEF SivWhole
<1>12. GsIdle(h') => GsIdle(h)'
  BY <1>10 DEF GsIdle
<1>13. GsWhole(h', msg') => GsWhole(h, msg)'
  BY <1>4, <1>10 DEF GsWhole, AadOf
<1>14. ShotSays(msg', last') => ShotSays(msg, last)'
  BY <1>6, <1>8 DEF ShotSays, Says
<1>15. ShotWhole(h', msg') => ShotWhole(h, msg)'
  BY <1>11, <1>12, <1>13 DEF ShotWhole
<1> QED BY <1>14, <1>15 DEF ShotInv, ShotGood

\* The invariant says what the properties do.
LEMMA ShotSaysAll ==
  ASSUME mode \in OneShot, ShotInv
  PROVE  Exact /\ Verified
<1>1. msg.whole /\ msg.clean => ShotSays(msg, last)
  BY DEF ShotInv, ShotGood
<1> QED BY <1>1 DEF ShotSays, Says, Exact, Verified, Tracked, OutputRight, TagRight

\* A step that returned nothing.
LEMMA ShotQuiet ==
  ASSUME NEW g, NEW m, ShotWhole(g, m), m.aad \in Nat
  PROVE  ShotGood(g, m, Nothing)
  BY DEF ShotGood, Nothing, ShotSays, Says

\* gcry_cipher_setkey and gcry_cipher_reset
LEMMA ShotKeyGood ==
  ASSUME mode \in OneShot, RestInv, IsHandle(h), DOMAIN msg = MsgFields,
         ShotGood(h, msg, last), NEW b, NEW m,
         \/ b = Rekeyed(h) /\ m = NextMessage(b, Clean)
         \/ b = WasReset(h) /\ m = Forgotten(NextMessage(b, TRUE))
  PROVE  ShotGood(b, m, Nothing)
<1>1. CASE mode = "siv"
  <2>1. /\ m.key = b.keyno /\ m.parts = <<>> /\ m.data = 0 /\ m.aad = 0
        /\ b = WasReset(h) \/ (b = Rekeyed(h) /\ (m.clean => Clean))
    <3>1. CASE b = Rekeyed(h) /\ m = NextMessage(b, Clean)
      BY <3>1, <1>1 DEF NextMessage, Message
    <3>2. CASE b = WasReset(h) /\ m = Forgotten(NextMessage(b, TRUE))
      BY <3>2, <1>1 DEF NextMessage, Message, Forgotten
    <3> QED BY <3>1, <3>2
  <2>2. m.clean => b.unused = 0
    <3>1. b = WasReset(h) => b.unused = 0
      BY DEF WasReset, Opened
    <3>2. Rekeyed(h).unused = h.unused
      BY <1>1 DEF Rekeyed, IsHandle, Fields
    <3>3. Clean => h.unused = 0
      BY <1>1, RestClean DEF RestInv
    <3> HIDE DEF Clean
    <3> QED BY <2>1, <3>1, <3>2, <3>3
  <2>3. SivWhole(b, m)
    BY <2>1, <2>2, <1>1, SivBegins
  <2> QED BY <2>1, <2>3, <1>1, ShotQuiet DEF ShotWhole
<1>2. CASE mode = "gcmsiv"
  <2>1. m \in {[msg EXCEPT !.whole = FALSE], Forgotten([msg EXCEPT !.whole = FALSE])}
    BY <1>2 DEF NextMessage
  <2>2. m.whole = FALSE /\ m.aad \in {msg.aad, 0}
    BY <2>1 DEF MsgFields, Forgotten
  <2>3. b.mac = Empty /\ b.tag = FALSE
    BY <1>2 DEF Rekeyed, WasReset, Opened
  <2>4. ShotWhole(b, m)
    BY <2>2, <2>3, <1>2 DEF ShotWhole, GsIdle
  <2> QED BY <2>2, <2>4, ShotQuiet DEF ShotGood
<1> QED BY <1>1, <1>2 DEF OneShot

\* gcry_cipher_setkey with a key of a length that is refused
LEMMA ShotBadKeyGood ==
  ASSUME mode \in OneShot, IsHandle(h), DOMAIN msg = MsgFields, ShotGood(h, msg, last), SetBadKey
  PROVE  ShotGood(h', msg', last')
<1>0. last' = Nothing /\ msg.aad \in Nat /\ ShotWhole(h, msg)
  BY DEF SetBadKey, ShotGood
<1>1. CASE h' = h /\ msg' = msg
  BY <1>0, <1>1, ShotQuiet
<1>2. CASE h' = [h EXCEPT !.key = FALSE] /\ msg' = [msg EXCEPT !.whole = FALSE]
  <2>1. /\ h'.keyno = h.keyno /\ h'.parts = h.parts /\ h'.dectag = h.dectag
        /\ h'.tagiv = h.tagiv /\ h'.tag = h.tag /\ h'.val = h.val /\ h'.unused = h.unused
        /\ h'.iv = h.iv /\ h'.mac = h.mac
    BY <1>2 DEF IsHandle, Fields
  <2>2. /\ msg'.whole = FALSE /\ msg'.aad = msg.aad /\ msg'.key = msg.key
        /\ msg'.parts = msg.parts /\ msg'.data = msg.data /\ msg'.clean = msg.clean
        /\ msg'.no = msg.no
    BY <1>2 DEF MsgFields
  <2>3. PICK g, m : g = h' /\ m = msg'
    OBVIOUS
  <2>4. SivWhole(h, msg) /\ mode = "siv" => SivWhole(g, m)
    <3>1. SivTag(m, Given(m)) = SivTag(msg, Given(msg)) \/ mode # "siv"
      BY <2>2, <2>3 DEF SivTag, Given
    <3> QED BY <3>1, <2>1, <2>2, <2>3 DEF SivWhole
  <2>5. GsIdle(h) => GsIdle(g)
    BY <2>1, <2>3 DEF GsIdle
  <2>6. ShotWhole(g, m)
    BY <2>1, <2>2, <2>3, <2>4, <2>5, <1>0 DEF ShotWhole
  <2> QED BY <2>2, <2>3, <2>6, <1>0, ShotQuiet
<1> QED BY <1>1, <1>2 DEF SetBadKey

\* gcry_cipher_setiv
LEMMA ShotSetIvGood ==
  ASSUME mode \in OneShot, IsHandle(h), DOMAIN msg = MsgFields, ShotGood(h, msg, last),
         NEW hashed, SetIv(hashed)
  PROVE  ShotGood(h', msg', last')
<1> DEFINE iv == Nonce(msg.no + 1, hashed)
           r == Setiv(h, iv)
           m == Message(msg.no + 1, iv, h, Clean)
           x == [msg EXCEPT !.iv = iv, !.parts = Append(@, IvBytes(iv))]
<1>1. /\ h' = r.h /\ last' = Nothing
      /\ msg' = IF ~r.ok THEN msg ELSE IF mode = "siv" THEN x ELSE m
  <2>1. Setiv(h, iv) = r
    OBVIOUS
  <2> HIDE DEF r
  <2> QED BY <2>1, Zenon DEF SetIv
<1>2. r = Setiv(h, iv)
  OBVIOUS
<1>3. msg.aad \in Nat /\ ShotWhole(h, msg)
  BY DEF ShotGood
<1> HIDE DEF r, iv
<1>4. CASE mode = "siv"
  <2> DEFINE b == IvBytes(iv)
             a == SivAuthenticate(h, b)
  <2>1. r = IF a.ok THEN Done([a.h EXCEPT !.iv = TRUE]) ELSE a
    BY <1>2, <1>4 DEF Setiv, SivSetNonce
  <2>2. /\ x.no = msg.no /\ x.key = msg.key /\ x.parts = Append(msg.parts, b)
        /\ x.data = msg.data /\ x.clean = msg.clean /\ x.aad = msg.aad
    BY DEF MsgFields
  <2>3. a = SivAuthenticate(h, b)
    OBVIOUS
  <2> HIDE DEF a, b, x
  <2>4. /\ a.ok => SivWhole([a.h EXCEPT !.iv = TRUE], x)
        /\ ~a.ok => a.h = h
    <3>1. SivWhole(h, msg)
      BY <1>3, <1>4 DEF ShotWhole
    <3> QED BY <3>1, <2>2, <2>3, <1>4, SivParts
  <2>5. CASE a.ok
    <3>1. r.h = [a.h EXCEPT !.iv = TRUE] /\ r.ok = TRUE
      BY <2>1, <2>5 DEF Done, Result
    <3>2. SivWhole(r.h, x)
      BY <3>1, <2>4, <2>5
    <3>3. ShotWhole(r.h, x)
      BY <3>2, <1>4 DEF ShotWhole
    <3> QED BY <3>1, <3>3, <2>2, <1>1, <1>3, <1>4, ShotQuiet
  <2>6. CASE ~a.ok
    <3>1. r.h = h /\ ~r.ok
      BY <2>1, <2>4, <2>6
    <3> QED BY <3>1, <1>1, <1>3, ShotQuiet
  <2> QED BY <2>5, <2>6
<1>5. CASE mode = "gcmsiv"
  <2>1. r = GcmSivSetNonce(h, iv)
    BY <1>2, <1>5 DEF Setiv
  <2>2. ~h.iv => GsIdle(h)
    BY <1>3, <1>5 DEF ShotWhole
  <2>3. m.aad = 0
    BY DEF Message
  <2>4. (r.ok => GsWhole(r.h, m)) /\ (~r.ok => r.h = h)
    BY <2>1, <2>2, <1>5, GsStarts
  <2> HIDE DEF m, x
  <2>5. CASE r.ok
    <3>1. r.h.iv /\ GsWhole(r.h, m)
      BY <2>4, <2>5 DEF GsWhole
    <3>2. ShotWhole(r.h, m)
      BY <3>1, <1>5 DEF ShotWhole
    <3> QED BY <3>2, <2>3, <2>5, <1>1, <1>5, ShotQuiet
  <2>6. CASE ~r.ok
    BY <2>4, <2>6, <1>1, <1>3, ShotQuiet
  <2> QED BY <2>5, <2>6
<1> QED BY <1>4, <1>5 DEF OneShot

\* gcry_cipher_authenticate
LEMMA ShotAuthGood ==
  ASSUME mode \in OneShot, IsHandle(h), DOMAIN msg = MsgFields, ShotGood(h, msg, last),
         NEW n \in Nat, DoAuthenticate(n)
  PROVE  ShotGood(h', msg', last')
<1> DEFINE inp == AadBytes(msg.no, msg.aad, n)
           r == Authenticate(h, inp)
           x == [msg EXCEPT !.aad = @ + n,
                            !.parts = IF mode = "siv" THEN Append(@, inp) ELSE @,
                            !.clean = @ /\ (mode = "ccm" => msg.data = 0)]
<1>0. Current = msg
  BY DEF Current, AutoIv, OneShot
<1>1. /\ h' = r.h /\ last' = Nothing
      /\ msg' = IF r.ok THEN x ELSE IF r.h.iv # h.iv THEN msg ELSE msg
  <2>1. Authenticate(h, inp) = r
    OBVIOUS
  <2> HIDE DEF r
  <2> QED BY <2>1, <1>0, Zenon DEF DoAuthenticate
<1>2. r = Authenticate(h, inp)
  OBVIOUS
<1>3. msg.aad \in Nat /\ ShotWhole(h, msg)
  BY DEF ShotGood
<1>4. /\ x.no = msg.no /\ x.key = msg.key /\ x.iv = msg.iv /\ x.aad = msg.aad + n
      /\ x.data = msg.data /\ x.refused = msg.refused /\ x.whole = msg.whole
      /\ x.parts = IF mode = "siv" THEN Append(msg.parts, inp) ELSE msg.parts
      /\ x.clean = (msg.clean /\ (mode = "ccm" => msg.data = 0))
  BY DEF MsgFields
<1> HIDE DEF r, x
<1>5. x.aad \in Nat
  BY <1>3, <1>4
<1>6. CASE mode = "siv"
  <2>0. r = SivAuthenticate(h, inp)
    BY <1>2, <1>6 DEF Authenticate
  <2>1. PICK y : y = [msg EXCEPT !.parts = Append(msg.parts, inp)]
    OBVIOUS
  <2>2. /\ y.no = msg.no /\ y.key = msg.key /\ y.parts = Append(msg.parts, inp)
        /\ y.data = msg.data /\ y.clean = msg.clean
    BY <2>1 DEF MsgFields
  <2>3. SivWhole(h, msg)
    BY <1>3, <1>6 DEF ShotWhole
  <2>4. (r.ok => SivWhole(r.h, y)) /\ (~r.ok => r.h = h)
    <3>1. /\ mode = "siv" /\ IsHandle(h) /\ SivWhole(h, msg) /\ r = SivAuthenticate(h, inp)
          /\ y.no = msg.no /\ y.key = msg.key /\ y.parts = Append(msg.parts, inp)
          /\ y.data = msg.data /\ y.clean = msg.clean
      BY <2>0, <2>2, <2>3, <1>6
    <3> HIDE DEF inp
    <3>2. /\ r.ok => SivWhole(r.h, y) /\ IsHandle(r.h) /\ SivWhole([r.h EXCEPT !.iv = TRUE], y)
          /\ ~r.ok => r.h = h
      BY ONLY <3>1, SivParts
    <3> QED BY ONLY <3>2
  <2>5. SivWhole(r.h, y) => SivWhole(r.h, x)
    <3>1. x.clean => y.clean
      BY <2>2, <1>4, Zenon
    <3>2. x.no = y.no /\ x.key = y.key /\ x.parts = y.parts /\ x.data = y.data
      BY <2>2, <1>4, <1>6
    <3>3. SivTag(x, Given(x)) = SivTag(y, Given(y))
      BY <3>2, <1>6 DEF SivTag, Given
    <3> QED BY <3>1, <3>2, <3>3 DEF SivWhole
  <2>6. CASE r.ok
    <3>1. ShotWhole(r.h, x)
      BY <2>4, <2>5, <2>6, <1>6 DEF ShotWhole
    <3> QED BY <3>1, <2>6, <1>1, <1>5, ShotQuiet
  <2>7. CASE ~r.ok
    BY <2>4, <2>7, <1>1, <1>3, ShotQuiet
  <2> QED BY <2>6, <2>7
<1>7. CASE mode = "gcmsiv"
  <2>1. r = GcmSivAuthenticate(h, inp)
    BY <1>2, <1>7 DEF Authenticate
  <2>2. GsRests(h, r.h)
    BY <2>1, <1>7, GsResting
  <2>3. ~r.h.iv => GsIdle(r.h)
    BY <2>2, <1>3, <1>7 DEF GsRests, ShotWhole
  <2>4. msg.whole => (r.ok => GsWhole(r.h, x)) /\ (~r.ok => GsWhole(r.h, msg))
    <3>1. msg.whole => GsWhole(h, msg)
      BY <1>3, <1>7 DEF ShotWhole
    <3> QED BY <3>1, <2>1, <1>4, <1>7, GsAad
  <2>5. CASE r.ok
    <3>1. ShotWhole(r.h, x)
      BY <2>3, <2>4, <2>5, <1>4, <1>7 DEF ShotWhole
    <3> QED BY <3>1, <2>5, <1>1, <1>5, ShotQuiet
  <2>6. CASE ~r.ok
    <3>1. ShotWhole(r.h, msg)
      BY <2>3, <2>4, <2>6, <1>7 DEF ShotWhole
    <3> QED BY <3>1, <2>6, <1>1, <1>3, ShotQuiet
  <2> QED BY <2>5, <2>6
<1> QED BY <1>6, <1>7 DEF OneShot

\* What a call on the message m of the handle g made of them, r its result, x the message
\* with the data, z the same after a mismatch.
Mismatched(g, r) == IF mode = "siv" THEN r.h.tag # g.tag ELSE r.h.datafin # g.datafin
ShotCrypts(g, m, x, z, way, r) ==
  /\ r.h.iv = g.iv
  /\ r.ok => /\ ShotWhole(r.h, x)
             /\ m.whole => Returns(x, r.out)
             /\ m.whole /\ x.clean /\ way = "decrypt" => g.tagiv = Tag(x)
  /\ ~r.ok => /\ way = "decrypt" => r.out = <<>>
              /\ ~Mismatched(g, r) => ShotWhole(r.h, m)
              /\ Mismatched(g, r) => ShotWhole(r.h, z)

\* SIV
LEMMA ShotSivCrypts ==
  ASSUME mode = "siv", NEW g, IsHandle(g), NEW m, SivWhole(g, m), NEW n \in Nat, NEW x,
         ShotMore(m, x, n), NEW z, z.key = m.key, z.parts = m.parts, z.clean = m.clean,
         z.data = m.data + n, NEW way \in {"encrypt", "decrypt"}, m.way = way, NEW r,
         r = IF way = "encrypt" THEN SivEncrypt(g, DataBytes(m.no, m.data, n))
             ELSE SivDecrypt(g, SivCipher(m, DataBytes(m.no, m.data, n)))
  PROVE  ShotCrypts(g, m, x, z, way, r)
<1>0. x.way = way
  BY DEF ShotMore
<1>1. CASE way = "encrypt"
  <2>1. r = SivEncrypt(g, DataBytes(m.no, m.data, n))
    BY <1>1
  <2>2. /\ r.ok => SivWhole(r.h, x) /\ Returns(x, r.out)
        /\ ~r.ok => r.h = g
        /\ r.h.iv = g.iv
    <3>1. /\ mode = "siv" /\ IsHandle(g) /\ SivWhole(g, m) /\ n \in Nat /\ ShotMore(m, x, n)
          /\ x.way = "encrypt" /\ r = SivEncrypt(g, DataBytes(m.no, m.data, n))
      BY <2>1, <1>0, <1>1
    <3> QED BY ONLY <3>1, SivSeals
  <2> QED BY <2>2, <1>1 DEF ShotCrypts, ShotWhole, Mismatched
<1>2. CASE way = "decrypt"
  <2>1. r = SivDecrypt(g, SivCipher(m, DataBytes(m.no, m.data, n)))
    BY <1>2
  <2>2. /\ r.ok => SivWhole(r.h, x) /\ Returns(x, r.out) /\ (x.clean => g.tagiv = Tag(x))
        /\ ~r.ok => SivWhole(r.h, IF r.h.tag # g.tag THEN z ELSE m) /\ r.out = <<>>
        /\ r.h.iv = g.iv
    <3>1. /\ mode = "siv" /\ IsHandle(g) /\ SivWhole(g, m) /\ n \in Nat /\ ShotMore(m, x, n)
          /\ x.way = "decrypt" /\ r = SivDecrypt(g, SivCipher(m, DataBytes(m.no, m.data, n)))
          /\ z.key = m.key /\ z.parts = m.parts /\ z.clean = m.clean /\ z.data = m.data + n
      BY <2>1, <1>0, <1>2
    <3> QED BY ONLY <3>1, SivOpens
  <2> QED BY <2>2, <1>2 DEF ShotCrypts, ShotWhole, Mismatched
<1> QED BY <1>1, <1>2

\* GCM-SIV
LEMMA ShotGsCrypts ==
  ASSUME mode = "gcmsiv", NEW g, IsHandle(g), NEW m, ShotWhole(g, m), NEW n \in Nat, NEW x,
         ShotMore(m, x, n), x.whole = m.whole, NEW z, z.no = m.no, z.key = m.key, z.iv = m.iv,
         z.aad = m.aad, z.data = m.data + n, z.refused, z.whole = m.whole,
         NEW way \in {"encrypt", "decrypt"}, m.way = way, NEW r,
         r = IF way = "encrypt" THEN GcmSivEncrypt(g, DataBytes(m.no, m.data, n))
             ELSE GcmSivDecrypt(g, SivCipher(m, DataBytes(m.no, m.data, n)))
  PROVE  ShotCrypts(g, m, x, z, way, r)
<1>0. x.way = way
  BY DEF ShotMore
<1>1. GsRests(g, r.h)
  BY GsResting
<1>2. r.h.iv = g.iv /\ (~r.h.iv => GsIdle(r.h))
  BY <1>1 DEF GsRests, ShotWhole
<1>3. ASSUME m.whole, way = "encrypt"
      PROVE  /\ r.ok => GsWhole(r.h, x) /\ Returns(x, r.out)
             /\ ~r.ok => GsWhole(r.h, m) /\ r.h.datafin = g.datafin
  <2>1. /\ mode = "gcmsiv" /\ IsHandle(g) /\ GsWhole(g, m) /\ n \in Nat /\ ShotMore(m, x, n)
        /\ r = GcmSivEncrypt(g, DataBytes(m.no, m.data, n)) /\ x.way = "encrypt"
    BY <1>0, <1>3 DEF ShotWhole
  <2> QED BY ONLY <2>1, GsSeals
<1>4. ASSUME m.whole, way = "decrypt"
      PROVE  /\ r.ok => GsWhole(r.h, x) /\ Returns(x, r.out) /\ g.tagiv = Tag(x)
             /\ ~r.ok => r.out = <<>>
             /\ ~r.ok /\ r.h.datafin = g.datafin => GsWhole(r.h, m)
             /\ ~r.ok /\ r.h.datafin # g.datafin => GsWhole(r.h, z)
  <2>1. /\ mode = "gcmsiv" /\ IsHandle(g) /\ GsWhole(g, m) /\ n \in Nat /\ ShotMore(m, x, n)
        /\ r = GcmSivDecrypt(g, SivCipher(m, DataBytes(m.no, m.data, n))) /\ x.way = "decrypt"
        /\ z.no = m.no /\ z.key = m.key /\ z.iv = m.iv /\ z.aad = m.aad /\ z.data = m.data + n
        /\ z.refused
    BY <1>0, <1>4 DEF ShotWhole
  <2> QED BY ONLY <2>1, GsOpens
<1>5. ~r.ok => r.out = <<>>
  <2>1. CASE way = "decrypt"
    <3>1. PICK s : r = GcmSivDecrypt(g, s)
      BY <2>1
    <3> QED BY <3>1 DEF GcmSivDecrypt, GcmSivOpen, GcmSivOpened, GcmSivCompare, Refused, Result
  <2>2. CASE way = "encrypt"
    <3>1. PICK s : r = GcmSivEncrypt(g, s)
      BY <2>2
    <3> QED BY <3>1 DEF GcmSivEncrypt, GcmSivSeal, GcmSivSealed, Refused, Result
  <2> QED BY <2>1, <2>2
<1> QED BY <1>2, <1>3, <1>4, <1>5 DEF ShotCrypts, ShotWhole, Mismatched

\* gcry_cipher_encrypt and gcry_cipher_decrypt
LEMMA ShotCryptGood ==
  ASSUME mode \in OneShot, IsHandle(h), DOMAIN msg = MsgFields, ShotGood(h, msg, last),
         NEW n \in Nat, NEW way \in {"encrypt", "decrypt"}, DoCrypt(n, way)
  PROVE  ShotGood(h', msg', last')
<1> DEFINE m == [msg EXCEPT !.way = way]
           inp == Input(m, n)
           enc == way = "encrypt"
           r == Crypt(h, inp, enc)
           x == [m EXCEPT !.data = @ + n]
           z == [m EXCEPT !.data = @ + n, !.refused = TRUE]
           l == [op |-> way, ok |-> r.ok, value |-> r.out, tag |-> h.tagiv]
<1>0. Current = msg
  BY DEF Current, AutoIv, OneShot
<1>d. DOMAIN m = MsgFields /\ m.way = way
  BY DEF MsgFields
<1>1. /\ h' = r.h
      /\ msg' = IF r.ok THEN x ELSE IF Mismatched(h, r) THEN z
                ELSE IF r.h.iv # h.iv THEN m ELSE msg
      /\ last' = IF r.ok \/ way = "decrypt" THEN l ELSE Nothing
  <2>2. Crypt(h, inp, enc) = r
    OBVIOUS
  <2>3. Crypted(m, n, r) = IF r.ok THEN x ELSE IF Mismatched(h, r) THEN z
                           ELSE IF r.h.iv # h.iv THEN m ELSE msg
    <3>1. mode \in OneShot \cup {"ocb"}
      OBVIOUS
    <3> HIDE DEF r, m
    <3>2. [m EXCEPT !.data = @ + n, !.used = @] = x
      BY <1>d DEF MsgFields
    <3> QED BY <3>1, <3>2 DEF Crypted, Mismatched, OneShot
  <2> HIDE DEF r, inp
  <2>4. /\ h' = r.h /\ msg' = Crypted(m, n, r)
        /\ last' = IF r.ok \/ (mode \in OneShot /\ way = "decrypt")
                   THEN l ELSE Nothing
    BY <1>0, <2>2, Zenon DEF DoCrypt, inp
  <2> QED BY <2>3, <2>4
<1>2. inp = IF way = "encrypt" THEN DataBytes(m.no, m.data, n)
            ELSE SivCipher(m, DataBytes(m.no, m.data, n))
  BY <1>d DEF Input
<1>3. r = Crypt(h, inp, enc)
  OBVIOUS
<1>4. /\ m.no = msg.no /\ m.key = msg.key /\ m.iv = msg.iv /\ m.aad = msg.aad
      /\ m.data = msg.data /\ m.parts = msg.parts /\ m.clean = msg.clean
      /\ m.refused = msg.refused /\ m.whole = msg.whole
  BY DEF MsgFields
<1> HIDE DEF m, inp, r
<1>5. ShotMore(m, x, n) /\ x.whole = m.whole
  BY <1>d DEF ShotMore, MsgFields
<1>6. /\ z.no = m.no /\ z.key = m.key /\ z.iv = m.iv /\ z.aad = m.aad /\ z.data = m.data + n
      /\ z.refused /\ z.whole = m.whole /\ z.parts = m.parts /\ z.clean = m.clean
  BY <1>d DEF MsgFields
<1> HIDE DEF x, z
<1>7. msg.aad \in Nat /\ m.aad \in Nat /\ x.aad \in Nat /\ z.aad \in Nat /\ ShotWhole(h, msg)
  BY <1>4, <1>5, <1>6 DEF ShotGood, ShotMore
<1>8. ASSUME NEW g, mode = "siv" PROVE SivWhole(g, msg) <=> SivWhole(g, m)
  <2>1. SivTag(m, Given(m)) = SivTag(msg, Given(msg))
    BY <1>4, <1>8 DEF SivTag, Given
  <2> QED BY <2>1, <1>4 DEF SivWhole
<1>9. ASSUME NEW g, mode = "gcmsiv" PROVE GsWhole(g, msg) <=> GsWhole(g, m)
  <2>1. SivTag(m, Given(m)) = SivTag(msg, Given(msg)) /\ AadOf(m) = AadOf(msg)
    BY <1>4, <1>9 DEF SivTag, Given, AadOf
  <2> QED BY <2>1, <1>4 DEF GsWhole
<1>10. ASSUME NEW g PROVE ShotWhole(g, msg) <=> ShotWhole(g, m)
  BY <1>4, <1>8, <1>9 DEF ShotWhole
<1>11. ShotCrypts(h, m, x, z, way, r)
  <2>1. CASE mode = "siv"
    <3>1. r = IF way = "encrypt" THEN SivEncrypt(h, DataBytes(m.no, m.data, n))
              ELSE SivDecrypt(h, SivCipher(m, DataBytes(m.no, m.data, n)))
      BY <2>1, <1>2, <1>3 DEF Crypt
    <3>2. /\ mode = "siv" /\ IsHandle(h) /\ SivWhole(h, m) /\ n \in Nat /\ ShotMore(m, x, n)
          /\ way \in {"encrypt", "decrypt"} /\ m.way = way
      BY <2>1, <1>d, <1>5, <1>7, <1>8 DEF ShotWhole
    <3> QED BY ONLY <3>1, <3>2, <1>6, ShotSivCrypts
  <2>2. CASE mode = "gcmsiv"
    <3>1. r = IF way = "encrypt" THEN GcmSivEncrypt(h, DataBytes(m.no, m.data, n))
              ELSE GcmSivDecrypt(h, SivCipher(m, DataBytes(m.no, m.data, n)))
      BY <2>2, <1>2, <1>3 DEF Crypt
    <3>2. /\ mode = "gcmsiv" /\ IsHandle(h) /\ ShotWhole(h, m) /\ n \in Nat
          /\ ShotMore(m, x, n) /\ x.whole = m.whole
          /\ way \in {"encrypt", "decrypt"} /\ m.way = way
      BY <2>2, <1>d, <1>5, <1>7, <1>10
    <3> QED BY ONLY <3>1, <3>2, <1>6, ShotGsCrypts
  <2> QED BY <2>1, <2>2 DEF OneShot
<1>12. l.op = way /\ l.ok = r.ok /\ l.value = r.out /\ l.tag = h.tagiv
  OBVIOUS
<1> HIDE DEF l
<1>13. CASE r.ok
  <2>1. msg' = x /\ h' = r.h /\ last' = l
    BY <1>1, <1>13
  <2>2. x.whole /\ x.clean => Returns(x, r.out) /\ (way = "decrypt" => l.tag = Tag(x))
    BY <1>5, <1>11, <1>12, <1>13 DEF ShotCrypts
  <2>3. x.whole /\ x.clean => ShotSays(x, l)
    BY <2>2, <1>12, <1>13 DEF ShotSays, Says, Returns
  <2>4. ShotWhole(r.h, x)
    BY <1>11, <1>13 DEF ShotCrypts
  <2>5. ShotGood(r.h, x, l)
    BY <2>3, <2>4, <1>7 DEF ShotGood
  <2> QED BY <2>1, <2>5
<1>14. CASE ~r.ok
  <2>1. PICK y : y = IF Mismatched(h, r) THEN z ELSE msg
    OBVIOUS
  <2>2. msg' = y /\ h' = r.h
    BY <2>1, <1>1, <1>11, <1>14 DEF ShotCrypts
  <2>3. y.aad \in Nat /\ ShotWhole(r.h, y)
    <3>1. CASE Mismatched(h, r)
      BY <3>1, <2>1, <1>7, <1>11, <1>14 DEF ShotCrypts
    <3>2. CASE ~Mismatched(h, r)
      BY <3>2, <2>1, <1>7, <1>10, <1>11, <1>14 DEF ShotCrypts
    <3> QED BY <3>1, <3>2
  <2>4. CASE way = "decrypt"
    <3>1. last' = l /\ l.op = "decrypt" /\ ~l.ok /\ l.value = <<>>
      BY <2>4, <1>1, <1>11, <1>12, <1>14 DEF ShotCrypts
    <3>2. ShotSays(y, l)
      BY <3>1 DEF ShotSays, Says
    <3> QED BY <3>1, <3>2, <2>2, <2>3 DEF ShotGood
  <2>5. CASE way = "encrypt"
    <3>1. last' = Nothing
      BY <2>5, <1>1, <1>14
    <3> QED BY <3>1, <2>2, <2>3, ShotQuiet
  <2> QED BY <2>4, <2>5
<1> QED BY <1>13, <1>14

\* gcry_cipher_gettag and gcry_cipher_checktag.  l is what the call returns.
LEMMA ShotTagGood ==
  ASSUME mode \in OneShot, IsHandle(h), ShotGood(h, msg, last),
         NEW check \in BOOLEAN, NEW r, r = MakeTag(h, check), NEW l,
         \/ ~r.ok /\ l = Nothing
         \/ r.ok /\ ~check /\ l.op = "gettag" /\ l.value = r.h.val
         \/ /\ r.ok /\ check /\ l.op = "checktag" /\ l.value \in {Forged, Tag(msg)}
            /\ l.ok => r.h.val = l.value
  PROVE  ShotGood(r.h, msg, l)
<1>0. msg.aad \in Nat /\ ShotWhole(h, msg)
  BY DEF ShotGood
<1>1. CASE mode = "siv"
  <2>1. r = IF check THEN SivCheckTag(h) ELSE SivGetTag(h)
    BY <1>1 DEF MakeTag
  <2>2. SivWhole(h, msg)
    BY <1>0, <1>1 DEF ShotWhole
  <2>3. /\ SivWhole(r.h, msg) /\ r.h.iv = h.iv
        /\ r.ok => r.h.val # Forged
        /\ r.ok /\ ~check => r.h.val = Tag(msg)
    <3>1. mode = "siv" /\ IsHandle(h) /\ SivWhole(h, msg)
      BY <2>2, <1>1
    <3> QED BY ONLY <3>1, <2>1, SivTagged
  <2>4. ShotSays(msg, l)
    BY <2>3 DEF ShotSays, Says, Nothing
  <2>5. ShotWhole(r.h, msg)
    BY <2>3, <1>1 DEF ShotWhole
  <2> QED BY <2>4, <2>5, <1>0 DEF ShotGood
<1>2. CASE mode = "gcmsiv"
  <2>1. r = GcmSivTag(h)
    BY <1>2 DEF MakeTag
  <2>2. GsRests(h, r.h)
    BY <2>1, <1>2, GsResting
  <2>3. ~r.h.iv => GsIdle(r.h)
    BY <2>2, <1>0, <1>2 DEF GsRests, ShotWhole
  <2>4. ASSUME msg.whole
        PROVE  GsWhole(r.h, msg) /\ (r.ok /\ ~msg.refused => r.h.val = Tag(msg))
    <3>1. mode = "gcmsiv" /\ IsHandle(h) /\ GsWhole(h, msg)
      BY <2>4, <1>0, <1>2 DEF ShotWhole
    <3> QED BY ONLY <3>1, <2>1, GsTagged
  <2>5. msg.whole => ShotSays(msg, l)
    BY <2>4, <1>2 DEF ShotSays, Says, Nothing
  <2>6. ShotWhole(r.h, msg)
    BY <2>3, <2>4, <1>2 DEF ShotWhole
  <2> QED BY <2>5, <2>6, <1>0 DEF ShotGood
<1> QED BY <1>1, <1>2 DEF OneShot

\* GCRYCTL_SET_DECRYPTION_TAG
LEMMA ShotGivenGood ==
  ASSUME mode \in OneShot, IsHandle(h), ShotGood(h, msg, last), NEW n \in Nat,
         NEW forged \in BOOLEAN, SetDecryptionTag(n, forged)
  PROVE  ShotGood(h', msg', last')
<1> DEFINE t == IF forged THEN Forged ELSE SivTag(msg, DataBytes(msg.no, 0, n))
           r == IF mode = "siv" THEN SivSetDecryptionTag(h, t)
                ELSE GcmSivSetDecryptionTag(h, t)
<1>1. h' = r.h /\ msg' = msg /\ last' = Nothing
  BY DEF SetDecryptionTag
<1>2. msg.aad \in Nat /\ ShotWhole(h, msg)
  BY DEF ShotGood
<1>3. ShotGiven(t)
  BY <1>2 DEF ShotGiven
<1> HIDE DEF t
<1>4. CASE mode = "siv"
  <2>1. r = SivSetDecryptionTag(h, t) /\ SivWhole(h, msg)
    BY <1>2, <1>4 DEF ShotWhole
  <2> HIDE DEF r
  <2>2. SivWhole(r.h, msg)
    BY <2>1, <1>3, <1>4, SivGivenTag
  <2>3. ShotWhole(r.h, msg)
    BY <2>2, <1>4 DEF ShotWhole
  <2> QED BY <2>3, <1>1, <1>2, ShotQuiet
<1>5. CASE mode = "gcmsiv"
  <2>1. r = GcmSivSetDecryptionTag(h, t)
    BY <1>5
  <2> HIDE DEF r
  <2>2. /\ r.h.iv = h.iv /\ (GsIdle(h) => GsIdle(r.h))
        /\ \A m : GsWhole(h, m) => GsWhole(r.h, m)
    BY <2>1, <1>3, <1>5, GsGivenTag
  <2>3. ShotWhole(r.h, msg)
    BY <2>2, <1>2, <1>5 DEF ShotWhole
  <2> QED BY <2>3, <1>1, <1>2, ShotQuiet
<1> QED BY <1>4, <1>5 DEF OneShot

\* The invariant holds of an opened handle.
LEMMA ShotInit == Init => ShotInv
<1> SUFFICES ASSUME Init, mode \in OneShot PROVE ShotGood(h, msg, last)
  BY DEF ShotInv
<1>1. PICK fips \in BOOLEAN : h = [Opened EXCEPT !.fips = fips]
  BY DEF Init
<1>2. /\ h.key = FALSE /\ h.keyno = 0 /\ h.parts = <<>> /\ h.dectag = FALSE /\ h.tag = FALSE
      /\ h.mac = Empty /\ h.unused = 0
  BY <1>1 DEF Opened
<1>3. msg.whole = FALSE /\ msg.key = 0 /\ msg.parts = <<>> /\ msg.aad = 0 /\ msg.data = 0
  BY <1>2 DEF Init, Message
<1>4. SivWhole(h, msg) /\ GsIdle(h)
  BY <1>2, <1>3 DEF SivWhole, GsIdle
<1>5. ShotWhole(h, msg)
  BY <1>3, <1>4 DEF ShotWhole
<1> QED BY <1>3, <1>5 DEF ShotGood

\* Every call keeps it.
LEMMA ShotNext == GenInv /\ RestInv /\ ShotInv /\ [Next]_vars => ShotInv'
<1> SUFFICES ASSUME GenInv, RestInv, ShotInv, [Next]_vars PROVE ShotInv'
  OBVIOUS
<1>a. IsHandle(h) /\ DOMAIN msg = MsgFields
  BY DEF GenInv
<1>m. mode' = mode
  BY DEF Next, SetKey, SetBadKey, SetEmptyIv, GenIv, GetTag, Finalize, Reset, SetIv, DoAuthenticate,
         DoCrypt, CheckTag, SetLengths, SetTaglen, SetDecryptionTag, vars
<1>b. CASE mode \notin OneShot
  BY <1>m, <1>b DEF ShotInv, OneShot
<1>c. CASE mode \in OneShot
  <2>0. ShotGood(h, msg, last)
    BY <1>c DEF ShotInv
  <2>p. ShotGood(h', msg', last') => ShotInv'
    BY <1>c, <1>m, ShotPrimed
  <2>q. mode # "gcm" /\ mode # "ocb" /\ mode # "ccm" /\ Current = msg
    BY <1>c DEF OneShot, Current, AutoIv
  <2>1. CASE SetKey
    <3>1. h' = Rekeyed(h) /\ msg' = NextMessage(h', Clean) /\ last' = Nothing
      BY <2>1 DEF SetKey
    <3>2. PICK b, m : b = h' /\ m = msg'
      OBVIOUS
    <3>3. b = Rekeyed(h) /\ m = NextMessage(b, Clean)
      BY <3>1, <3>2
    <3>4. ShotGood(b, m, Nothing)
      BY <3>3, <2>0, <1>a, <1>c, ShotKeyGood
    <3> QED BY <3>1, <3>2, <3>4, <2>p
  <2>2. CASE SetBadKey
    BY <2>2, <2>0, <2>p, <1>a, <1>c, ShotBadKeyGood
  <2>3. CASE GenIv \/ SetEmptyIv
    BY <2>3, <2>q DEF GenIv, SetEmptyIv
  <2>4. CASE GetTag
    <3> DEFINE r == MakeTag(h, FALSE)
    <3>1. /\ h' = r.h /\ msg' = IF r.h.iv # h.iv THEN msg ELSE msg
          /\ last' = IF r.ok THEN Returned("gettag", TRUE, r.h.val) ELSE Nothing
      <4>1. MakeTag(h, FALSE) = r
        OBVIOUS
      <4> HIDE DEF r
      <4> QED BY <4>1, <2>4, <2>q, Zenon DEF GetTag
    <3>2. r = MakeTag(h, FALSE) /\ FALSE \in BOOLEAN
      OBVIOUS
    <3> HIDE DEF r
    <3>3. \/ ~r.ok /\ last' = Nothing
          \/ r.ok /\ ~FALSE /\ last'.op = "gettag" /\ last'.value = r.h.val
      BY <3>1 DEF Returned
    <3>4. ShotGood(r.h, msg, last')
      BY <3>2, <3>3, <2>0, <1>a, <1>c, ShotTagGood
    <3> QED BY <3>1, <3>4, <2>p
  <2>5. CASE Finalize
    BY <2>5, <2>q DEF Finalize
  <2>6. CASE Reset
    <3>1. h' = WasReset(h) /\ msg' = Forgotten(NextMessage(h', TRUE)) /\ last' = Nothing
      BY <2>6 DEF Reset
    <3>2. PICK b, m : b = h' /\ m = msg'
      OBVIOUS
    <3>3. b = WasReset(h) /\ m = Forgotten(NextMessage(b, TRUE))
      BY <3>1, <3>2
    <3>4. ShotGood(b, m, Nothing)
      BY <3>3, <2>0, <1>a, <1>c, ShotKeyGood
    <3> QED BY <3>1, <3>2, <3>4, <2>p
  <2>7. ASSUME NEW hashed \in BOOLEAN, SetIv(hashed) PROVE ShotInv'
    BY <2>7, <2>0, <2>p, <1>a, <1>c, ShotSetIvGood
  <2>8. ASSUME NEW n \in AadChunks, DoAuthenticate(n) PROVE ShotInv'
    <3>1. n \in Nat
      BY HandleAssumption
    <3> QED BY <3>1, <2>8, <2>0, <2>p, <1>a, <1>c, ShotAuthGood
  <2>9. ASSUME NEW n \in DataChunks, NEW way \in {"encrypt", "decrypt"}, DoCrypt(n, way)
        PROVE  ShotInv'
    <3>1. n \in Nat
      BY HandleAssumption
    <3> QED BY <3>1, <2>9, <2>0, <2>p, <1>a, <1>c, ShotCryptGood
  <2>10. ASSUME NEW forged \in BOOLEAN, CheckTag(forged) PROVE ShotInv'
    <3> DEFINE r == MakeTag(h, TRUE)
    <3>1. PICK tag \in {IF forged THEN Forged ELSE Tag(msg)} :
              /\ h' = r.h /\ msg' = IF r.h.iv # h.iv THEN msg ELSE msg
              /\ last' = IF r.ok THEN Returned("checktag", r.h.val = tag, tag) ELSE Nothing
      <4>1. MakeTag(h, TRUE) = r
        OBVIOUS
      <4> HIDE DEF r
      <4> QED BY <4>1, <2>10, <2>q, Zenon DEF CheckTag
    <3>2. r = MakeTag(h, TRUE) /\ TRUE \in BOOLEAN
      OBVIOUS
    <3> HIDE DEF r
    <3>3. tag \in {Forged, Tag(msg)}
      OBVIOUS
    <3>4. \/ ~r.ok /\ last' = Nothing
          \/ /\ r.ok /\ TRUE /\ last'.op = "checktag" /\ last'.value \in {Forged, Tag(msg)}
             /\ last'.ok => r.h.val = last'.value
      BY <3>1, <3>3 DEF Returned
    <3>5. ShotGood(r.h, msg, last')
      BY <3>2, <3>4, <2>0, <1>a, <1>c, ShotTagGood
    <3> QED BY <3>1, <3>5, <2>p
  <2>11. ASSUME NEW data \in DataChunks, NEW aad \in AadChunks, SetLengths(data, aad)
         PROVE  ShotInv'
    BY <2>11, <2>q DEF SetLengths
  <2>12. ASSUME NEW n \in {8, 16}, SetTaglen(n) PROVE ShotInv'
    BY <2>12, <2>q DEF SetTaglen
  <2>13. ASSUME NEW n \in DataChunks, NEW forged \in BOOLEAN, SetDecryptionTag(n, forged)
         PROVE  ShotInv'
    <3>1. n \in Nat
      BY HandleAssumption
    <3> QED BY <3>1, <2>13, <2>0, <2>p, <1>a, <1>c, ShotGivenGood
  <2>14. CASE UNCHANGED vars
    <3>1. h' = h /\ msg' = msg /\ last' = last
      BY <2>14 DEF vars
    <3> QED BY <3>1, <2>0, <2>p
  <2> QED BY <2>1, <2>2, <2>3, <2>4, <2>5, <2>6, <2>7, <2>8, <2>9, <2>10, <2>11,
             <2>12, <2>13, <2>14 DEF Next
<1> QED BY <1>b, <1>c

-----------------------------------------------------------------------------
(* OCB: the offsets *)

\* The offset after i blocks, and i + j.
LEMMA OffsetIs ==
  ASSUME NEW q \in Nat
  PROVE  /\ IsSeq(OcbOffset(q)) /\ Len(OcbOffset(q)) = q
         /\ q = 0 => OcbOffset(q) = <<>>
         /\ \A j \in Nat : OcbOffset(q) \o [i \in 1..j |-> Ntz(q + i)] = OcbOffset(q + j)
<1>1. ASSUME NEW n \in Nat
      PROVE  /\ IsSeq(OcbOffset(n)) /\ Len(OcbOffset(n)) = n
             /\ \A i \in 1..n : OcbOffset(n)[i] = Ntz(i)
  BY <1>1, SeqFcn DEF OcbOffset
<1>2. q = 0 => OcbOffset(q) = <<>>
  BY <1>1, EmptyIs
<1>3. ASSUME NEW j \in Nat
      PROVE  OcbOffset(q) \o [i \in 1..j |-> Ntz(q + i)] = OcbOffset(q + j)
  <2> DEFINE b == [i \in 1..j |-> Ntz(q + i)]
             s == OcbOffset(q) \o b
  <2>1. IsSeq(b) /\ Len(b) = j /\ \A i \in 1..j : b[i] = Ntz(q + i)
    BY <1>3, SeqFcn
  <2> HIDE DEF b
  <2>2. /\ IsSeq(s) /\ Len(s) = q + j
        /\ \A i \in 1..(q + j) : s[i] = IF i <= q THEN OcbOffset(q)[i] ELSE b[i - q]
    <3>1. PICK p : p = OcbOffset(q)
      OBVIOUS
    <3>2. IsSeq(p) /\ Len(p) = q
      BY <3>1, <1>1
    <3>3. /\ IsSeq(p \o b) /\ Len(p \o b) = Len(p) + Len(b)
          /\ \A i \in 1..(Len(p) + Len(b)) :
               (p \o b)[i] = IF i <= Len(p) THEN p[i] ELSE b[i - Len(p)]
      BY ONLY <3>2, <2>1, ConcatIs
    <3> QED BY ONLY <3>1, <3>2, <3>3, <2>1
  <2>3. ASSUME NEW i \in 1..(q + j) PROVE s[i] = OcbOffset(q + j)[i]
    <3>1. CASE i <= q
      BY <3>1, <2>2, <1>1, <1>3
    <3>2. CASE ~(i <= q)
      <4>1. i - q \in 1..j /\ q + (i - q) = i /\ q + j \in Nat
        BY <3>2, <1>3
      <4> QED BY <4>1, <3>2, <2>1, <2>2, <1>1
    <3> QED BY <3>1, <3>2
  <2>4. IsSeq(OcbOffset(q + j)) /\ Len(OcbOffset(q + j)) = q + j
    BY <1>1, <1>3
  <2> HIDE DEF s
  <2>5. s = OcbOffset(q + j)
    BY <2>2, <2>3, <2>4, SeqSame
  <2> QED BY <2>5 DEF s, b
<1> QED BY <1>1, <1>2, <1>3

\* o are the offsets of the m blocks that follow block q.
OffsetsOf(o, q, m) ==
  /\ IsSeq(o) /\ Len(o) = m
  /\ \A j \in 1..m : o[j] = OcbOffset(q + j)
  /\ LastOr(o, OcbOffset(q)) = OcbOffset(q + m)

\* ocb_get_l and the additions give these.
LEMMA OffsetsAre ==
  ASSUME NEW q \in Nat, NEW m \in Nat, NEW o, o = Offsets(OcbOffset(q), q, m)
  PROVE  OffsetsOf(o, q, m)
<1> USE DEF OffsetsOf
<1>1. IsSeq(o) /\ Len(o) = m
  BY SeqFcn DEF Offsets
<1>2. ASSUME NEW j \in 1..m PROVE o[j] = OcbOffset(q + j)
  <2>1. o[j] = OcbOffset(q) \o [i \in 1..j |-> Ntz(q + i)] /\ j \in Nat
    BY <1>2 DEF Offsets
  <2> QED BY <2>1, OffsetIs
<1>3. CASE m = 0
  <2>1. o = <<>> /\ q + m = q
    BY <1>1, <1>3, EmptyIs
  <2> QED BY <2>1, <1>1, <1>2 DEF LastOr
<1>4. CASE m # 0
  <2>1. o # <<>> /\ m \in 1..m
    BY <1>1, <1>4, EmptyIs
  <2> QED BY <2>1, <1>1, <1>2 DEF LastOr
<1> QED BY <1>3, <1>4

-----------------------------------------------------------------------------
(* OCB: the AAD *)

\* The sum over the full blocks of s.
AadSum(s) == [i \in 1..Len(FullBlocks(s)) |-> <<OcbOffset(i), FullBlocks(s)[i]>>]

\* The sum g holds is that over the full blocks of s,
SummedUp(g, s, buf) ==
  /\ g.aadlen = Len(FullBlocks(s)) /\ g.aadoffset = OcbOffset(g.aadlen)
  /\ g.aad = [hash |-> AadSum(s), buf |-> buf]

\* and the rest of s waits in aad_leftover.
AadAt(g, s) == SummedUp(g, s, Tail0(s))

\* Full blocks are a sequence.
LEMMA FullIs ==
  ASSUME NEW s, IsSeq(s)
  PROVE  /\ IsSeq(FullBlocks(s)) /\ Len(FullBlocks(s)) \in Nat
         /\ IsSeq(AadSum(s)) /\ Len(AadSum(s)) = Len(FullBlocks(s))
         /\ \A i \in 1..Len(FullBlocks(s)) : AadSum(s)[i] = <<OcbOffset(i), FullBlocks(s)[i]>>
<1>1. IsSeq(FullBlocks(s)) /\ Len(FullBlocks(s)) \in Nat
  BY FewBytes, IsSeqLen
<1>2. IsSeq(AadSum(s)) /\ Len(AadSum(s)) = Len(FullBlocks(s))
  BY <1>1, SeqFcn DEF AadSum
<1> QED BY <1>1, <1>2 DEF AadSum

\* The blocks that the rest of s and t make are added behind those of s.
LEMMA AadBlocksAt ==
  ASSUME NEW g, IsHandle(g), NEW s, IsSeq(s), NEW t, IsSeq(t), NEW buf, SummedUp(g, s, buf),
         NEW y, y = OcbAadBlocks(g, FullBlocks(Tail0(s) \o t))
  PROVE  SummedUp(y, s \o t, buf) /\ Same(g, y, {"aad", "aadlen", "aadoffset"})
<1> DEFINE bs == FullBlocks(Tail0(s) \o t)
           q == Len(FullBlocks(s))
           m == Len(bs)
           offs == Offsets(OcbOffset(q), q, m)
           new == [j \in 1..m |-> <<offs[j], bs[j]>>]
           v == s \o t
<1>1. /\ FullBlocks(v) = FullBlocks(s) \o bs /\ IsSeq(v)
  BY BlocksConcat, ConcatIs
<1>2. IsSeq(Tail0(s) \o t)
  BY FewBytes, ConcatIs
<1>3. IsSeq(bs) /\ m \in Nat /\ IsSeq(FullBlocks(s)) /\ q \in Nat
  BY <1>2, FullIs
<1> HIDE DEF bs
<1>4. /\ Len(FullBlocks(v)) = q + m
      /\ \A i \in 1..(q + m) : FullBlocks(v)[i] = IF i <= q THEN FullBlocks(s)[i] ELSE bs[i - q]
  BY <1>1, <1>3, ConcatIs
<1>5. /\ g.aadlen = q /\ g.aadoffset = OcbOffset(q) /\ g.aad = [hash |-> AadSum(s), buf |-> buf]
  BY DEF SummedUp
<1> HIDE DEF q, m, v
<1>6. /\ \A j \in 1..m : offs[j] = OcbOffset(q + j)
      /\ LastOr(offs, OcbOffset(q)) = OcbOffset(q + m)
  BY <1>3, OffsetsAre DEF OffsetsOf
<1>7. y = [g EXCEPT !.aadlen = @ + m, !.aadoffset = LastOr(offs, @), !.aad.hash = @ \o new]
  BY <1>5 DEF OcbAadBlocks, bs, m
<1>8. IsSeq(new) /\ Len(new) = m /\ \A j \in 1..m : new[j] = <<offs[j], bs[j]>>
  BY <1>3, SeqFcn
<1> HIDE DEF offs, new
<1>9. /\ Same(g, y, {"aad", "aadlen", "aadoffset"})
      /\ y.aadlen = q + m /\ y.aadoffset = OcbOffset(q + m)
      /\ y.aad = [g.aad EXCEPT !.hash = @ \o new]
  BY <1>5, <1>6, <1>7 DEF Same, IsHandle, Fields
<1>10. y.aad = [hash |-> AadSum(s) \o new, buf |-> buf]
  BY <1>5, <1>9
<1>11. AadSum(s) \o new = AadSum(v)
  <2>1. IsSeq(AadSum(s)) /\ Len(AadSum(s)) = q
        /\ \A i \in 1..q : AadSum(s)[i] = <<OcbOffset(i), FullBlocks(s)[i]>>
    BY FullIs DEF q
  <2>2. IsSeq(AadSum(v)) /\ Len(AadSum(v)) = q + m
        /\ \A i \in 1..(q + m) : AadSum(v)[i] = <<OcbOffset(i), FullBlocks(v)[i]>>
    BY <1>1, <1>4, FullIs
  <2> DEFINE u == AadSum(s) \o new
  <2>3. IsSeq(u) /\ Len(u) = q + m
        /\ \A i \in 1..(q + m) : u[i] = IF i <= q THEN AadSum(s)[i] ELSE new[i - q]
    BY <2>1, <1>8, ConcatIs
  <2> HIDE DEF u
  <2>4. ASSUME NEW i \in 1..(q + m) PROVE u[i] = AadSum(v)[i]
    <3>1. CASE i <= q
      <4>1. i \in 1..q
        BY <3>1, <1>3
      <4> QED BY <4>1, <3>1, <2>1, <2>2, <2>3, <1>4
    <3>2. CASE ~(i <= q)
      <4>1. i - q \in 1..m /\ q + (i - q) = i
        BY <3>2, <1>3
      <4>2. u[i] = <<OcbOffset(i), bs[i - q]>>
        BY <4>1, <3>2, <2>3, <1>6, <1>8
      <4> QED BY <4>2, <3>2, <2>2, <1>4
    <3> QED BY <3>1, <3>2
  <2>5. u = AadSum(v)
    BY <2>2, <2>3, <2>4, SeqSame
  <2> QED BY <2>5 DEF u
<1>12. SummedUp(y, v, buf)
  BY <1>4, <1>9, <1>10, <1>11 DEF SummedUp
<1> QED BY <1>9, <1>12 DEF v

\* _gcry_cipher_ocb_authenticate: the AAD is added up block by block, whatever pieces it
\* comes in, unless the assertion of ocb_get_L_big ends the process.
LEMMA OcbAadIs ==
  ASSUME NEW g, IsHandle(g), NEW s, IsSeq(s), AadAt(g, s), g.dead = FALSE,
         NEW inp, IsSeq(inp), NEW r, r = OcbAuthenticate(g, inp)
  PROVE  /\ r.h.dead = FALSE /\ r.ok => AadAt(r.h, s \o inp)
         /\ Same(g, r.h, {"aad", "aadlen", "aadoffset", "dead"})
         /\ ~r.ok => r.h = g
         /\ r.ok => g.iv /\ ~g.tag /\ ~g.aadfin
<1> DEFINE buf == Tail0(s)
           n == IF buf = <<>> THEN 0 ELSE Lesser(BlockLen - Len(buf), Len(inp))
           t == First(inp, n)
           rest == Behind(inp, n)
           x == OcbTopUp(g, buf \o t)
<1>0. /\ BlockLen \in Nat \ {0} /\ Len(inp) \in Nat /\ IsSeq(buf) /\ Len(buf) \in Nat
      /\ Len(buf) < BlockLen /\ (buf = <<>> <=> Len(buf) = 0)
  BY BlockLenAssumption, FewBytes, IsSeqLen, EmptyIs
<1>1. g.aad.buf = buf
  BY DEF AadAt, SummedUp
<1>2. r = IF ~g.iv \/ g.tag \/ g.aadfin THEN Refused(g) ELSE OcbAadRest(x, rest)
  BY <1>1 DEF OcbAuthenticate
<1> HIDE DEF buf
<1>3. /\ n \in 0..Len(inp) /\ (buf = <<>> => n = 0)
      /\ Len(buf) + n <= BlockLen
      /\ buf # <<>> /\ Len(buf) + n < BlockLen => n = Len(inp)
  <2>1. CASE buf = <<>>
    BY <2>1, <1>0
  <2>2. CASE buf # <<>>
    <3>1. BlockLen - Len(buf) \in Nat
      BY <1>0
    <3>2. n = Lesser(BlockLen - Len(buf), Len(inp))
      BY <2>2
    <3> HIDE DEF n
    <3>3. n \in Nat /\ n <= BlockLen - Len(buf) /\ n <= Len(inp)
          /\ (n = BlockLen - Len(buf) \/ n = Len(inp))
      BY <3>1, <3>2, <1>0, LesserIs
    <3> QED BY <3>3, <2>2, <1>0
  <2> QED BY <2>1, <2>2
<1> HIDE DEF n
<1>4. /\ IsSeq(t) /\ Len(t) = n /\ IsSeq(rest) /\ Len(rest) = Len(inp) - n /\ t \o rest = inp
  BY <1>3, FirstIs
<1> HIDE DEF t, rest
<1>5. IsSeq(buf \o t) /\ Len(buf \o t) = Len(buf) + n /\ IsSeq(s \o t)
  BY <1>0, <1>4, ConcatIs
<1>6. Tail0(s \o t) = Tail0(buf \o t) /\ FullBlocks(s \o t) = FullBlocks(s) \o FullBlocks(buf \o t)
  BY <1>4, BlocksConcat DEF buf
<1>7. (s \o t) \o rest = s \o inp
  <2>1. (s \o t) \o rest = s \o (t \o rest)
    <3>1. IsSeq(s) /\ IsSeq(t) /\ IsSeq(rest)
      BY <1>4
    <3> QED BY ONLY <3>1, ConcatAssoc
  <2> QED BY <2>1, <1>4
<1>8. /\ x.dead = FALSE => AadAt(x, s \o t)
      /\ Same(g, x, {"aad", "aadlen", "aadoffset", "dead"})
      /\ x.dead \in BOOLEAN
  <2>1. CASE Len(buf \o t) = BlockLen
    <3> DEFINE y == [g EXCEPT !.aad.buf = <<>>]
               z == OcbAadBlocks(y, <<buf \o t>>)
               d == [g EXCEPT !.dead = TRUE]
    <3>1. x = d \/ x = z
      BY <2>1 DEF OcbTopUp, OcbLeftoverBlock
    <3>2. /\ IsHandle(y) /\ SummedUp(y, s, <<>>) /\ Same(g, y, {"aad"})
      <4>1. /\ Same(g, y, {"aad"}) /\ y.aad = [g.aad EXCEPT !.buf = <<>>]
            /\ y.aadlen = g.aadlen /\ y.aadoffset = g.aadoffset
        BY DEF Same, IsHandle, Fields
      <4> HIDE DEF y
      <4>2. g.aad = [hash |-> AadSum(s), buf |-> buf]
        BY DEF AadAt, SummedUp, buf
      <4>3. y.aad = [hash |-> AadSum(s), buf |-> <<>>]
        BY <4>1, <4>2
      <4> QED BY <4>1, <4>3 DEF SummedUp, AadAt, Same
    <3> HIDE DEF y
    <3>3. FullBlocks(buf \o t) = <<buf \o t>> /\ Tail0(buf \o t) = <<>>
      BY <2>1, <1>5, FewBytes
    <3>4. SummedUp(z, s \o t, <<>>) /\ Same(y, z, {"aad", "aadlen", "aadoffset"})
      <4>1. z = OcbAadBlocks(y, FullBlocks(Tail0(s) \o t))
        BY <3>3 DEF buf
      <4> HIDE DEF z
      <4> QED BY <4>1, <3>2, <1>4, AadBlocksAt
    <3>5. Same(g, d, {"dead"}) /\ d.dead = TRUE
      BY DEF Same, IsHandle, Fields
    <3> HIDE DEF z, d
    <3>6. Same(g, z, {"aad", "aadlen", "aadoffset"})
      BY <3>2, <3>4 DEF Same
    <3>7. AadAt(z, s \o t)
      BY <3>3, <3>4, <1>6 DEF AadAt
    <3>8. z.dead = FALSE
      BY <3>6 DEF Same, Fields
    <3>9. Same(g, z, {"aad", "aadlen", "aadoffset", "dead"})
          /\ Same(g, d, {"aad", "aadlen", "aadoffset", "dead"})
      BY <3>5, <3>6 DEF Same
    <3> QED BY <3>1, <3>5, <3>7, <3>8, <3>9
  <2>2. CASE Len(buf \o t) # BlockLen
    <3>1. x = [g EXCEPT !.aad.buf = buf \o t]
      BY <2>2 DEF OcbTopUp
    <3>2. /\ Same(g, x, {"aad"}) /\ x.aad = [g.aad EXCEPT !.buf = buf \o t]
          /\ x.aadlen = g.aadlen /\ x.aadoffset = g.aadoffset /\ x.dead = g.dead
      BY <3>1 DEF Same, IsHandle, Fields
    <3> HIDE DEF x
    <3>3. Len(buf \o t) < BlockLen
      BY <2>2, <1>0, <1>3, <1>5
    <3>4. FullBlocks(buf \o t) = <<>> /\ Tail0(buf \o t) = buf \o t
      BY <3>3, <1>5, FewBytes
    <3>5. FullBlocks(s \o t) = FullBlocks(s) /\ Tail0(s \o t) = buf \o t
      BY <3>4, <1>6, FullIs, ConcatEmpty
    <3>6. AadSum(s \o t) = AadSum(s)
      BY <3>5 DEF AadSum
    <3>7. x.aad = [hash |-> AadSum(s), buf |-> buf \o t]
      <4>1. g.aad = [hash |-> AadSum(s), buf |-> buf]
        BY DEF AadAt, SummedUp, buf
      <4>2. PICK c : c = buf \o t
        OBVIOUS
      <4>3. x.aad = [g.aad EXCEPT !.buf = c]
        BY <4>2, <3>2
      <4>4. x.aad = [hash |-> AadSum(s), buf |-> c]
        BY ONLY <4>1, <4>3
      <4> QED BY <4>2, <4>4
    <3>8. AadAt(x, s \o t)
      BY <3>2, <3>5, <3>6, <3>7 DEF AadAt, SummedUp
    <3>9. Same(g, x, {"aad", "aadlen", "aadoffset", "dead"})
      BY <3>2 DEF Same
    <3> QED BY <3>2, <3>8, <3>9
  <2> QED BY <2>1, <2>2
<1> HIDE DEF x
<1>9. CASE ~g.iv \/ g.tag \/ g.aadfin
  <2>1. r.h = g /\ r.ok = FALSE
    BY <1>2, <1>9 DEF Refused, Result
  <2> QED BY <2>1 DEF Same
<1>10. CASE ~(~g.iv \/ g.tag \/ g.aadfin)
  <2>1. r = OcbAadRest(x, rest)
    BY <1>2, <1>10
  <2>2. CASE rest = <<>> \/ x.dead
    <3>1. r.h = x /\ r.ok = TRUE
      BY <2>1, <2>2 DEF OcbAadRest, Done, Result
    <3>2. x.dead = FALSE => AadAt(x, s \o inp)
      <4>1. x.dead = FALSE => s \o t = s \o inp
        <5>1. x.dead = FALSE => rest = <<>>
          BY <2>2
        <5>2. rest = <<>> => t = inp
          BY <1>4, ConcatEmpty
        <5> QED BY <5>1, <5>2
      <4> QED BY <4>1, <1>8
    <3> QED BY <3>1, <3>2, <1>8, <1>10
  <2>3. CASE ~(rest = <<>> \/ x.dead)
    <3> DEFINE z == OcbAadBlocks(x, FullBlocks(rest))
               y == [z EXCEPT !.aad.buf = Tail0(rest)]
    <3>1. r.h = y /\ r.ok = TRUE
      BY <2>1, <2>3 DEF OcbAadRest, Done, Result
    <3>2. x.dead = FALSE /\ AadAt(x, s \o t)
      BY <2>3, <1>8
    <3>3. Tail0(s \o t) = <<>>
      <4>1. Len(rest) # 0
        BY <2>3, <1>4, EmptyIs
      <4>2. n # Len(inp)
        BY <4>1, <1>4, <1>0, <1>3
      <4>3. Len(buf \o t) = BlockLen \/ Len(buf \o t) = 0
        <5>1. CASE buf = <<>>
          BY <5>1, <1>0, <1>3, <1>5
        <5>2. CASE buf # <<>>
          BY <5>2, <4>2, <1>0, <1>3, <1>5
        <5> QED BY <5>1, <5>2
      <4>4. Tail0(buf \o t) = <<>>
        BY <4>3, <1>5, FewBytes, NoBlocks, EmptyIs
      <4> QED BY <4>4, <1>6
    <3>4. Tail0(s \o t) \o rest = rest
      BY <3>3, <1>4, ConcatEmpty
    <3>5. /\ SummedUp(z, s \o inp, <<>>) /\ Same(x, z, {"aad", "aadlen", "aadoffset"})
      <4>1. SummedUp(x, s \o t, <<>>) /\ IsHandle(x)
        BY <3>2, <3>3, <1>8 DEF AadAt, Same
      <4>2. z = OcbAadBlocks(x, FullBlocks(Tail0(s \o t) \o rest))
        BY <3>4
      <4> HIDE DEF z
      <4>3. SummedUp(z, (s \o t) \o rest, <<>>) /\ Same(x, z, {"aad", "aadlen", "aadoffset"})
        BY <4>1, <4>2, <1>4, <1>5, AadBlocksAt
      <4> QED BY <4>3, <1>7
    <3> HIDE DEF z
    <3>6. Tail0(s \o inp) = Tail0(rest)
      <4>1. Tail0((s \o t) \o rest) = Tail0(Tail0(s \o t) \o rest)
        BY <1>4, <1>5, BlocksConcat
      <4> QED BY <4>1, <3>4, <1>7
    <3>7. /\ Same(z, y, {"aad"}) /\ y.aad = [z.aad EXCEPT !.buf = Tail0(rest)]
          /\ y.aadlen = z.aadlen /\ y.aadoffset = z.aadoffset
      BY <3>5 DEF Same, IsHandle, Fields
    <3> HIDE DEF y
    <3>8. AadAt(y, s \o inp)
      <4>1. z.aad = [hash |-> AadSum(s \o inp), buf |-> <<>>]
        BY <3>5 DEF SummedUp
      <4>2. y.aad = [hash |-> AadSum(s \o inp), buf |-> Tail0(rest)]
        BY <4>1, <3>7
      <4> QED BY <4>2, <3>5, <3>6, <3>7 DEF AadAt, SummedUp
    <3>9. Same(g, y, {"aad", "aadlen", "aadoffset", "dead"})
      BY <3>5, <3>7, <1>8 DEF Same
    <3> QED BY <3>1, <3>8, <3>9, <1>10
  <2> QED BY <2>2, <2>3
<1> QED BY <1>9, <1>10

-----------------------------------------------------------------------------
(* OCB: the data *)

\* A block of the output, and the last part.
OutBlock(m, i, b) ==
  [j \in 1..BlockLen |-> <<"blk", m.way = "encrypt", m.key, OcbBase(m), OcbOffset(i), b, j>>]
OutPart(m, f, s) ==
  [j \in 1..Len(s) |->
     Xor(<<"pad", m.key, OcbBase(m), Append(OcbOffset(f), Star), j>>, s[j])]

\* The bytes of a message by block and place.
BytesOut(m, s, f, w) ==
  /\ \A i \in 1..f, j \in 1..BlockLen :
       OcbByte(m, s, BlockLen * (i - 1) + j) = OutBlock(m, i, FullBlocks(s)[i])[j]
  /\ \A j \in 1..w : OcbByte(m, s, BlockLen * f + j) = OutPart(m, f, Tail0(s))[j]

\* These are they.
LEMMA OcbByteIs ==
  ASSUME NEW s, IsSeq(s), NEW f, NEW w, Divided(s, f, w), NEW m
  PROVE  BytesOut(m, s, f, w)
<1>0. /\ BlockLen \in Nat \ {0} /\ f \in Nat /\ w \in 0..(BlockLen - 1)
      /\ Len(s) = BlockLen * f + w /\ BlockLen * f \in Nat
  BY BlockLenAssumption, MultAdd DEF Divided
<1>1. Len(s) \div BlockLen = f
  BY ONLY <1>0, DivUnique
<1>2. ASSUME NEW b \in Nat, NEW j \in 1..BlockLen
      PROVE  /\ ((BlockLen * b + j) - 1) \div BlockLen = b
             /\ (((BlockLen * b + j) - 1) % BlockLen) + 1 = j
  <2> DEFINE n == (BlockLen * b + j) - 1
             r == j - 1
  <2>1. n \in Nat /\ r \in 0..(BlockLen - 1) /\ n = BlockLen * b + r
    <3>1. BlockLen * b \in Nat
      BY <1>0, MultAdd
    <3> QED BY <3>1, <1>0
  <2> HIDE DEF n
  <2>2. n \div BlockLen = b /\ n % BlockLen = r
    <3> HIDE DEF r
    <3> QED BY ONLY <2>1, <1>0, <1>2, DivUnique
  <2>3. (n % BlockLen) + 1 = j
    BY <2>2
  <2> QED BY <2>2, <2>3 DEF n
<1>3. ASSUME NEW i \in 1..f, NEW j \in 1..BlockLen
      PROVE  OcbByte(m, s, BlockLen * (i - 1) + j) = OutBlock(m, i, FullBlocks(s)[i])[j]
  <2> DEFINE b == i - 1
             n == BlockLen * b + j
  <2>1. b \in Nat /\ b < f /\ b + 1 = i
    BY <1>0
  <2> HIDE DEF b
  <2>2. (n - 1) \div BlockLen = b /\ ((n - 1) % BlockLen) + 1 = j
    BY <2>1, <1>2
  <2> HIDE DEF n
  <2>3. OcbByte(m, s, n)
          = <<"blk", m.way = "encrypt", m.key, OcbBase(m), OcbOffset(b + 1),
              SubSeq(s, b * BlockLen + 1, (b + 1) * BlockLen), j>>
    BY <2>1, <2>2, <1>1 DEF OcbByte
  <2>4. FullBlocks(s)[i] = SubSeq(s, b * BlockLen + 1, (b + 1) * BlockLen)
    <3>1. FullBlocks(s)[i] = SubSeq(s, (i - 1) * BlockLen + 1, i * BlockLen)
      BY <1>1 DEF FullBlocks
    <3> QED BY <3>1, <2>1 DEF b
  <2>5. OcbByte(m, s, n)
          = <<"blk", m.way = "encrypt", m.key, OcbBase(m), OcbOffset(i), FullBlocks(s)[i], j>>
    BY <2>1, <2>3, <2>4
  <2>6. OutBlock(m, i, FullBlocks(s)[i])[j]
          = <<"blk", m.way = "encrypt", m.key, OcbBase(m), OcbOffset(i), FullBlocks(s)[i], j>>
    BY DEF OutBlock
  <2> QED BY <2>5, <2>6 DEF n, b
<1>4. ASSUME NEW j \in 1..w PROVE OcbByte(m, s, BlockLen * f + j) = OutPart(m, f, Tail0(s))[j]
  <2> DEFINE n == BlockLen * f + j
  <2>1. j \in 1..BlockLen
    BY <1>0
  <2>2. (n - 1) \div BlockLen = f /\ ((n - 1) % BlockLen) + 1 = j
    BY <2>1, <1>0, <1>2
  <2>3. Len(Tail0(s)) = w /\ Tail0(s)[j] = s[n]
    BY <1>4, BlocksIs
  <2> HIDE DEF n
  <2>4. OcbByte(m, s, n)
          = Xor(<<"pad", m.key, OcbBase(m), Append(OcbOffset(f), Star), j>>, s[n])
    <3>1. ~(f < f)
      BY <1>0
    <3> QED BY <3>1, <2>2, <1>1 DEF OcbByte
  <2>5. OutPart(m, f, Tail0(s))[j]
          = Xor(<<"pad", m.key, OcbBase(m), Append(OcbOffset(f), Star), j>>, Tail0(s)[j])
    BY <2>3 DEF OutPart
  <2> QED BY <2>3, <2>4, <2>5 DEF n
<1> QED BY <1>3, <1>4 DEF BytesOut

\* What a message makes, by blocks.
LEMMA OcbMadeIs ==
  ASSUME mode = "ocb", NEW m, m.data \in Nat, NEW f, NEW w, Divided(Given(m), f, w)
  PROVE  /\ IsSeq(Made(m)) /\ Len(Made(m)) = m.data /\ Divided(Made(m), f, w)
         /\ \A i \in 1..m.data : Made(m)[i] = OcbByte(m, Given(m), i)
         /\ \A i \in 1..f : FullBlocks(Made(m))[i] = OutBlock(m, i, FullBlocks(Given(m))[i])
         /\ Tail0(Made(m)) = OutPart(m, f, Tail0(Given(m)))
<1> DEFINE s == Given(m)
           t == Made(m)
<1>1. IsSeq(s) /\ Len(s) = m.data
  BY DataIs DEF Given
<1>2. t = [i \in 1..m.data |-> OcbByte(m, s, i)]
  BY DEF Made, OneShot
<1> HIDE DEF s
<1>3. IsSeq(t) /\ Len(t) = m.data /\ \A i \in 1..m.data : t[i] = OcbByte(m, s, i)
  <2> HIDE DEF t
  <2> QED BY <1>2, SeqFcn
<1> HIDE DEF t
<1>4. /\ BlockLen \in Nat \ {0} /\ f \in Nat /\ w \in 0..(BlockLen - 1)
      /\ m.data = BlockLen * f + w /\ BlockLen * f \in Nat
  BY <1>1, BlockLenAssumption, MultAdd DEF Divided, s
<1>5. Divided(t, f, w) /\ Divided(s, f, w)
  BY <1>1, <1>3 DEF Divided, s
<1>b. BytesOut(m, s, f, w)
  BY <1>1, <1>5, OcbByteIs
<1>6. /\ \A i \in 1..f :
           /\ IsSeq(FullBlocks(t)[i]) /\ Len(FullBlocks(t)[i]) = BlockLen
           /\ \A j \in 1..BlockLen : FullBlocks(t)[i][j] = t[BlockLen * (i - 1) + j]
      /\ IsSeq(Tail0(t)) /\ Len(Tail0(t)) = w
      /\ \A j \in 1..w : Tail0(t)[j] = t[BlockLen * f + j]
  BY <1>3, <1>5, BlocksIs
<1>7. ASSUME NEW i \in 1..f PROVE FullBlocks(t)[i] = OutBlock(m, i, FullBlocks(s)[i])
  <2> DEFINE o == OutBlock(m, i, FullBlocks(s)[i])
  <2>1. IsSeq(o) /\ Len(o) = BlockLen
    BY <1>4, SeqFcn DEF OutBlock
  <2>2. ASSUME NEW j \in 1..BlockLen PROVE FullBlocks(t)[i][j] = o[j]
    <3>1. BlockLen * (i - 1) + j \in 1..m.data
      <4>1. BlockLen * (i - 1) + j \in 1..(BlockLen * f)
        BY <1>4, IndexIn
      <4>2. BlockLen * f <= m.data
        BY <1>4
      <4> QED BY <4>1, <4>2, <1>4
    <3>2. FullBlocks(t)[i][j] = OcbByte(m, s, BlockLen * (i - 1) + j)
      BY <3>1, <1>3, <1>6
    <3>3. OcbByte(m, s, BlockLen * (i - 1) + j) = o[j]
      BY <1>b DEF BytesOut
    <3> QED BY <3>2, <3>3
  <2> HIDE DEF o
  <2>3. FullBlocks(t)[i] = o
    BY <2>1, <2>2, <1>6, SeqSame
  <2> QED BY <2>3 DEF o
<1>8. Tail0(t) = OutPart(m, f, Tail0(s))
  <2> DEFINE o == OutPart(m, f, Tail0(s))
  <2>1. Len(Tail0(s)) = w
    BY <1>1, <1>5, BlocksIs
  <2>2. IsSeq(o) /\ Len(o) = w
    BY <2>1, <1>4, SeqFcn DEF OutPart
  <2>3. ASSUME NEW j \in 1..w PROVE Tail0(t)[j] = o[j]
    <3>1. BlockLen * f + j \in 1..m.data
      BY <1>4
    <3>2. OcbByte(m, s, BlockLen * f + j) = o[j]
      BY <1>b DEF BytesOut
    <3> QED BY <3>1, <3>2, <1>3, <1>6
  <2> HIDE DEF o
  <2>4. Tail0(t) = o
    BY <2>2, <2>3, <1>6, SeqSame
  <2> QED BY <2>4 DEF o
<1> QED BY <1>3, <1>5, <1>7, <1>8 DEF s, t

\* x is m with n more bytes of data.
OcbMore(m, x, n) ==
  /\ x.no = m.no /\ x.key = m.key /\ x.iv = m.iv /\ x.taglen = m.taglen /\ x.aad = m.aad
  /\ x.way = m.way /\ x.data = m.data + n

\* What p blocks and a part make behind q blocks.
OcbAdds(m, x, q, p, inp, outs, pout) ==
  /\ FullBlocks(Given(x)) = FullBlocks(Given(m)) \o FullBlocks(inp)
  /\ Tail0(Given(x)) = Tail0(inp)
  /\ FullBlocks(Made(x)) = FullBlocks(Made(m)) \o outs
  /\ Tail0(Made(x)) = pout
  /\ \A i \in 1..p, j \in 1..BlockLen :
       Made(x)[m.data + (BlockLen * (i - 1) + j)] = outs[i][j]
  /\ \A j \in 1..Len(Tail0(inp)) : Made(x)[m.data + (BlockLen * p + j)] = pout[j]

\* The data of x is f blocks and w bytes, and so is what becomes of it.
OcbLong(x, f, w) == Divided(Given(x), f, w) /\ IsSeq(Made(x)) /\ Len(Made(x)) = x.data

\* More data behind whole blocks leaves these as they are.
LEMMA OcbTextMore ==
  ASSUME mode = "ocb", NEW m, NEW x, NEW n \in Nat, OcbMore(m, x, n), NEW q \in Nat,
         m.data = BlockLen * q, NEW inp, inp = DataBytes(m.no, m.data, n),
         NEW p, NEW v, Divided(inp, p, v), NEW outs, IsSeq(outs), Len(outs) = p,
         \A i \in 1..p : outs[i] = OutBlock(m, q + i, FullBlocks(inp)[i])
  PROVE  OcbAdds(m, x, q, p, inp, outs, OutPart(m, q + p, Tail0(inp))) /\ OcbLong(x, q + p, v)
<1> USE DEF OcbLong
<1>0. /\ BlockLen \in Nat \ {0} /\ m.data \in Nat /\ p \in Nat /\ v \in 0..(BlockLen - 1)
      /\ IsSeq(inp) /\ Len(inp) = n /\ n = BlockLen * p + v
      /\ BlockLen * p \in Nat /\ x.data = m.data + n /\ x.data \in Nat
      /\ BlockLen * (q + p) = BlockLen * q + BlockLen * p /\ 0 \in 0..(BlockLen - 1)
  <2>1. m.data \in Nat /\ BlockLen \in Nat \ {0}
    BY BlockLenAssumption, MultAdd
  <2>2. IsSeq(inp) /\ Len(inp) = n
    BY DataIs
  <2>3. p \in Nat /\ v \in 0..(BlockLen - 1) /\ n = BlockLen * p + v
    BY <2>2 DEF Divided
  <2>4. x.data = m.data + n
    BY DEF OcbMore
  <2>5. BlockLen * p \in Nat /\ BlockLen * (q + p) = BlockLen * q + BlockLen * p
    BY <2>1, <2>3, MultAdd
  <2> QED BY <2>1, <2>2, <2>3, <2>4, <2>5
<1>1. /\ IsSeq(Given(m)) /\ Len(Given(m)) = m.data /\ IsSeq(Given(x)) /\ Len(Given(x)) = x.data
      /\ Given(x) = Given(m) \o inp
  <2>1. Given(x) = DataBytes(m.no, 0, m.data + n)
    BY DEF Given, OcbMore
  <2>2. Given(x) = Given(m) \o inp
    BY <2>1, <1>0, DataMore DEF Given
  <2> QED BY <2>2, <1>0, DataIs DEF Given
<1>2. Divided(Given(m), q, 0) /\ Divided(Given(x), q + p, v)
  BY <1>0, <1>1 DEF Divided
<1>3. Tail0(Given(m)) = <<>> /\ IsSeq(FullBlocks(Given(m))) /\ Len(FullBlocks(Given(m))) = q
  BY <1>1, <1>2, BlocksIs, EmptyIs
<1>4. FullBlocks(Given(x)) = FullBlocks(Given(m)) \o FullBlocks(inp)
      /\ Tail0(Given(x)) = Tail0(inp)
  <2>1. /\ FullBlocks(Given(m) \o inp) = FullBlocks(Given(m)) \o FullBlocks(Tail0(Given(m)) \o inp)
        /\ Tail0(Given(m) \o inp) = Tail0(Tail0(Given(m)) \o inp)
    BY <1>0, <1>1, BlocksConcat
  <2>2. Tail0(Given(m)) \o inp = inp
    BY <1>0, <1>3, ConcatEmpty
  <2> QED BY <2>1, <2>2, <1>1
<1>5. IsSeq(FullBlocks(inp)) /\ Len(FullBlocks(inp)) = p /\ Len(Tail0(inp)) = v
  BY <1>0, BlocksIs
<1>6. /\ \A i \in 1..q : FullBlocks(Given(x))[i] = FullBlocks(Given(m))[i]
      /\ \A i \in 1..p : FullBlocks(Given(x))[q + i] = FullBlocks(inp)[i]
  <2>1. \A i \in 1..(q + p) : FullBlocks(Given(x))[i]
          = IF i <= q THEN FullBlocks(Given(m))[i] ELSE FullBlocks(inp)[i - q]
    BY <1>3, <1>4, <1>5, ConcatIs
  <2>2. \A i \in 1..p : q + i \in 1..(q + p) /\ ~(q + i <= q) /\ (q + i) - q = i
    BY <1>0
  <2>3. \A i \in 1..q : i \in 1..(q + p) /\ i <= q
    BY <1>0
  <2> QED BY <2>1, <2>2, <2>3
<1>7. \A i, b : OutBlock(x, i, b) = OutBlock(m, i, b)
  BY DEF OutBlock, OcbBase, OcbMore
<1>8. \A i, b : OutPart(x, i, b) = OutPart(m, i, b)
  BY DEF OutPart, OcbBase, OcbMore
<1>9. /\ IsSeq(Made(m)) /\ Divided(Made(m), q, 0)
      /\ \A i \in 1..q : FullBlocks(Made(m))[i] = OutBlock(m, i, FullBlocks(Given(m))[i])
  BY <1>0, <1>2, OcbMadeIs
<1>10. /\ IsSeq(Made(x)) /\ Len(Made(x)) = x.data /\ Divided(Made(x), q + p, v)
       /\ \A i \in 1..(q + p) : FullBlocks(Made(x))[i] = OutBlock(x, i, FullBlocks(Given(x))[i])
       /\ Tail0(Made(x)) = OutPart(x, q + p, Tail0(Given(x)))
  BY <1>0, <1>2, OcbMadeIs
<1>11. FullBlocks(Made(x)) = FullBlocks(Made(m)) \o outs
  <2> DEFINE s == FullBlocks(Made(x))
             a == FullBlocks(Made(m))
             t == a \o outs
  <2>1. IsSeq(s) /\ Len(s) = q + p
    BY <1>10, BlocksIs
  <2>2. IsSeq(a) /\ Len(a) = q
    BY <1>9, BlocksIs
  <2>e. \A i \in 1..q : a[i] = OutBlock(m, i, FullBlocks(Given(m))[i])
    BY <1>9
  <2>f. \A i \in 1..(q + p) : s[i] = OutBlock(m, i, FullBlocks(Given(x))[i])
    BY <1>7, <1>10
  <2> HIDE DEF s, a
  <2>3. /\ IsSeq(t) /\ Len(t) = q + p
        /\ \A i \in 1..(q + p) : t[i] = IF i <= q THEN a[i] ELSE outs[i - q]
    BY <2>2, ConcatIs
  <2> HIDE DEF t
  <2>4. ASSUME NEW i \in 1..(q + p) PROVE s[i] = t[i]
    <3>1. CASE i <= q
      <4>1. i \in 1..q
        BY <3>1
      <4> QED BY <4>1, <3>1, <2>3, <2>e, <2>f, <1>6
    <3>2. CASE ~(i <= q)
      <4>1. PICK k : k = i - q
        OBVIOUS
      <4>2. k \in 1..p /\ q + k = i
        BY <4>1, <3>2, <1>0
      <4>3. t[i] = OutBlock(m, i, FullBlocks(inp)[k])
        BY <4>1, <4>2, <3>2, <2>3
      <4>4. FullBlocks(Given(x))[i] = FullBlocks(inp)[k]
        BY <4>2, <1>6
      <4> QED BY <4>3, <4>4, <2>f
    <3> QED BY <3>1, <3>2
  <2>5. s = t
    BY <2>1, <2>3, <2>4, SeqSame
  <2> QED BY <2>5 DEF s, a, t
<1>12. Tail0(Made(x)) = OutPart(m, q + p, Tail0(inp))
  BY <1>4, <1>8, <1>10
<1>13. ASSUME NEW i \in 1..p, NEW j \in 1..BlockLen
       PROVE  Made(x)[m.data + (BlockLen * (i - 1) + j)] = outs[i][j]
  <2>1. PICK k : k = q + i
    OBVIOUS
  <2>2. /\ k \in 1..(q + p) /\ BlockLen * (k - 1) = BlockLen * q + BlockLen * (i - 1)
        /\ BlockLen * (i - 1) \in Int
    <3>1. k - 1 = q + (i - 1) /\ i - 1 \in Int /\ q \in Int
      BY <2>1, <1>0
    <3>2. BlockLen * (q + (i - 1)) = BlockLen * q + BlockLen * (i - 1) /\ BlockLen * (i - 1) \in Int
      BY <3>1, <1>0, MultAdd
    <3> QED BY <3>1, <3>2, <2>1, <1>0
  <2>3. FullBlocks(Made(x))[k][j] = Made(x)[BlockLen * (k - 1) + j]
    BY <2>2, <1>10, BlocksIs
  <2>4. m.data + (BlockLen * (i - 1) + j) = BlockLen * (k - 1) + j
    BY <2>2, <1>0
  <2>5. FullBlocks(Made(x))[k] = outs[i]
    BY <2>1, <2>2, <1>6, <1>7, <1>10
  <2> QED BY <2>3, <2>4, <2>5
<1>14. ASSUME NEW j \in 1..v
       PROVE  Made(x)[m.data + (BlockLen * p + j)] = OutPart(m, q + p, Tail0(inp))[j]
  <2>1. Tail0(Made(x))[j] = Made(x)[BlockLen * (q + p) + j]
    BY <1>10, BlocksIs
  <2>2. BlockLen * (q + p) + j = m.data + (BlockLen * p + j)
    BY <1>0
  <2> QED BY <2>1, <2>2, <1>12
<1> QED BY <1>0, <1>2, <1>4, <1>5, <1>10, <1>11, <1>12, <1>13, <1>14 DEF OcbAdds

-----------------------------------------------------------------------------
(* OCB: the message *)

\* The masked checksum of the whole data.
OcbChecksum(m) == <<"chk", m.key, OcbBase(m), OcbEnd(m.data), Summed(PlainText(m))>>

\* As long as more data may come it is whole blocks, all of them in the checksum.
OcbGoesOn(g, m) ==
  /\ g.datalen \in Nat /\ m.data = BlockLen * g.datalen /\ g.offset = OcbOffset(g.datalen)
  /\ g.mac = [hash |-> FullBlocks(PlainText(m)), buf |-> <<>>]

\* The handle g works on the message m, whose nonce came after the key.
OcbWhole(g, m) ==
  /\ g.iv /\ g.keyno = m.key /\ g.ctr.base = OcbBase(m) /\ m.aad \in Nat /\ m.data \in Nat
  /\ m.way \in {"none", "encrypt", "decrypt"} /\ (m.way = "none" => m.data = 0)
  /\ ~g.datafin => OcbGoesOn(g, m)
  /\ g.datafin /\ ~g.tag => g.val = OcbChecksum(m)
  /\ ~g.tag => ~g.aadfin /\ AadAt(g, AadOf(m))
  /\ g.tag => g.datafin /\ g.val = Tag(m)

\* The plaintext of x is that of m, then these blocks and the end of a part.
OcbPlain(m, x, inp, new, end) ==
  /\ FullBlocks(PlainText(x)) = FullBlocks(PlainText(m)) \o new
  /\ Tail0(PlainText(x)) = end /\ (end = <<>> <=> Tail0(inp) = <<>>)

\* The checksum takes in the new blocks and the padded last part.
LEMMA OcbSums ==
  ASSUME mode = "ocb", NEW m, NEW x, NEW n \in Nat, OcbMore(m, x, n), NEW q \in Nat,
         m.data = BlockLen * q, m.way \in {"encrypt", "decrypt"},
         NEW inp, inp = DataBytes(m.no, m.data, n), NEW p, NEW v, Divided(inp, p, v),
         NEW outs, NEW pout, pout = OutPart(m, q + p, Tail0(inp)),
         OcbAdds(m, x, q, p, inp, outs, pout), NEW new, NEW end,
         new = IF m.way = "encrypt" THEN FullBlocks(inp) ELSE outs,
         end = IF m.way = "encrypt" THEN Tail0(inp) ELSE pout
  PROVE  OcbPlain(m, x, inp, new, end)
<1> USE DEF OcbPlain
<1>1. x.way = m.way
  BY DEF OcbMore
<1>2. IsSeq(inp)
  BY DataIs
<1>3. IsSeq(Tail0(inp)) /\ Len(Tail0(inp)) \in Nat
  BY <1>2, FewBytes, IsSeqLen
<1>4. IsSeq(pout) /\ Len(pout) = Len(Tail0(inp))
  BY <1>3, SeqFcn DEF OutPart
<1>5. pout = <<>> <=> Tail0(inp) = <<>>
  BY <1>3, <1>4, EmptyIs
<1>6. CASE m.way = "encrypt"
  BY <1>1, <1>6 DEF PlainText, OcbAdds
<1>7. CASE m.way = "decrypt"
  BY <1>1, <1>5, <1>7 DEF PlainText, OcbAdds
<1> QED BY <1>6, <1>7

\* Where the offset ends.
LEMMA OcbEndIs ==
  ASSUME NEW n \in Nat, NEW f \in Nat, NEW w \in 0..(BlockLen - 1), n = BlockLen * f + w
  PROVE  OcbEnd(n) = IF w = 0 THEN OcbOffset(f) ELSE Append(OcbOffset(f), Star)
<1>1. n \div BlockLen = f /\ n % BlockLen = w
  BY BlockLenAssumption, DivUnique
<1> QED BY <1>1 DEF OcbEnd

\* The output of a call is the next part of what the message makes.
LEMMA OcbReturns ==
  ASSUME mode = "ocb", NEW m, NEW x, NEW n \in Nat, OcbMore(m, x, n), m.data \in Nat,
         IsSeq(Made(x)), Len(Made(x)) = m.data + n,
         NEW o, IsSeq(o), Len(o) = n, \A i \in 1..n : o[i] = Made(x)[m.data + i]
  PROVE  Returns(x, o)
<1>1. x.data = m.data + n /\ x.data - Len(o) + 1 = m.data + 1
  BY DEF OcbMore
<1> DEFINE s == SubSeq(Made(x), m.data + 1, m.data + n)
<1>2. /\ IsSeq(s) /\ Len(s) = n
      /\ \A i \in 1..n : s[i] = Made(x)[m.data + i]
  <2>1. m.data + 1 \in Nat \ {0} /\ m.data + n \in Nat /\ m.data + 1 <= (m.data + n) + 1
        /\ m.data + n <= Len(Made(x)) /\ (m.data + n) - (m.data + 1) + 1 = n
    OBVIOUS
  <2>2. /\ IsSeq(s) /\ Len(s) = (m.data + n) - (m.data + 1) + 1
        /\ \A i \in 1..((m.data + n) - (m.data + 1) + 1) : s[i] = Made(x)[(m.data + 1) + i - 1]
    <3>1. PICK a, b, t : a = m.data + 1 /\ b = m.data + n /\ t = Made(x)
      OBVIOUS
    <3>2. IsSeq(t) /\ a \in Nat \ {0} /\ b \in Nat /\ a <= b + 1 /\ b <= Len(t)
      BY <3>1, <2>1
    <3>3. /\ IsSeq(SubSeq(t, a, b)) /\ Len(SubSeq(t, a, b)) = b - a + 1
          /\ \A i \in 1..(b - a + 1) : SubSeq(t, a, b)[i] = t[a + i - 1]
      BY ONLY <3>2, SubSeqIs
    <3> QED BY ONLY <3>1, <3>3
  <2>3. \A i \in 1..n : (m.data + 1) + i - 1 = m.data + i
    OBVIOUS
  <2> QED BY <2>1, <2>2, <2>3
<1> HIDE DEF s
<1>3. o = s
  BY <1>2, SeqSame
<1> QED BY <1>1, <1>3 DEF Returns, s

\* o is the part of t behind the first d bytes.
PartOf(o, t, d, n) == IsSeq(o) /\ Len(o) = n /\ \A i \in 1..n : o[i] = t[d + i]

\* p blocks one after the other.
Flat(p, outs) == [i \in 1..(p * BlockLen) |->
                    outs[((i - 1) \div BlockLen) + 1][((i - 1) % BlockLen) + 1]]

\* The blocks of the output one after the other, and the part behind them.
LEMMA OcbFlat ==
  ASSUME NEW p \in Nat, NEW outs, NEW pout, IsSeq(pout), NEW t, NEW d \in Nat,
         \A i \in 1..p, j \in 1..BlockLen : t[d + (BlockLen * (i - 1) + j)] = outs[i][j],
         \A j \in 1..Len(pout) : t[d + (BlockLen * p + j)] = pout[j],
         NEW flat, flat = Flat(p, outs)
  PROVE  PartOf(flat \o pout, t, d, BlockLen * p + Len(pout))
<1> USE DEF PartOf, Flat
<1>0. BlockLen \in Nat \ {0} /\ BlockLen * p \in Nat /\ p * BlockLen = BlockLen * p
      /\ Len(pout) \in Nat
  BY BlockLenAssumption, MultAdd, IsSeqLen
<1> DEFINE k == BlockLen * p
           o == flat \o pout
<1>1. IsSeq(flat) /\ Len(flat) = k
  <2>1. k \in Nat /\ DOMAIN flat = 1..k /\ flat = [i \in 1..k |-> flat[i]]
    BY <1>0
  <2> HIDE DEF k
  <2> QED BY ONLY <2>1, SeqFcn
<1>2. ASSUME NEW i \in 1..k PROVE flat[i] = t[d + i]
  <2> DEFINE b == (i - 1) \div BlockLen
             c == (i - 1) % BlockLen
  <2>1. i - 1 \in Nat /\ i \in 1..(p * BlockLen)
    BY <1>0
  <2>2. b \in Nat /\ c \in 0..(BlockLen - 1) /\ i - 1 = BlockLen * b + c
    <3>1. PICK e : e = i - 1
      OBVIOUS
    <3>2. e \in Nat /\ BlockLen \in Nat \ {0}
      BY <3>1, <2>1, <1>0
    <3>3. PICK y \in Nat, z \in 0..(BlockLen - 1) :
             e = BlockLen * y + z /\ e \div BlockLen = y /\ e % BlockLen = z
      BY ONLY <3>2, DivMod
    <3> QED BY <3>1, <3>3
  <2>3. flat[i] = outs[b + 1][c + 1]
    BY <2>1
  <2> HIDE DEF b, c
  <2>4. b < p
    <3>1. SUFFICES ASSUME p <= b PROVE FALSE
      BY <2>2
    <3>2. BlockLen * p <= BlockLen * b /\ BlockLen * b \in Int
      BY <3>1, <2>2, <1>0, MultMono, MultAdd
    <3>3. PICK y, z : y = BlockLen * b /\ z = BlockLen * p
      OBVIOUS
    <3>4. y \in Int /\ z \in Int /\ z <= y /\ i - 1 = y + c /\ i \in 1..z /\ c \in Nat
      BY <3>2, <3>3, <2>2, <1>0, <1>2
    <3> QED BY ONLY <3>4
  <2>5. PICK u, w : u = b + 1 /\ w = c + 1
    OBVIOUS
  <2>6. u \in 1..p /\ w \in 1..BlockLen /\ u - 1 = b
    BY <2>2, <2>4, <2>5, <1>0
  <2>7. t[d + (BlockLen * (u - 1) + w)] = outs[u][w]
    BY <2>6
  <2>8. BlockLen * (u - 1) + w = i
    <3>1. BlockLen * b \in Int
      BY <2>2, <1>0, MultAdd
    <3>2. BlockLen * (u - 1) = BlockLen * b
      BY <2>6
    <3> QED BY <3>1, <3>2, <2>2, <2>5
  <2> QED BY <2>3, <2>5, <2>7, <2>8
<1> HIDE DEF k
<1>3. /\ IsSeq(o) /\ Len(o) = k + Len(pout)
      /\ \A i \in 1..(k + Len(pout)) : o[i] = IF i <= k THEN flat[i] ELSE pout[i - k]
  <2>1. /\ IsSeq(flat \o pout) /\ Len(flat \o pout) = Len(flat) + Len(pout)
        /\ \A i \in 1..(Len(flat) + Len(pout)) :
             (flat \o pout)[i] = IF i <= Len(flat) THEN flat[i] ELSE pout[i - Len(flat)]
    <3>1. IsSeq(flat) /\ IsSeq(pout)
      BY <1>1
    <3> QED BY ONLY <3>1, ConcatIs
  <2> QED BY ONLY <2>1, <1>1
<1>4. ASSUME NEW i \in 1..(k + Len(pout)) PROVE o[i] = t[d + i]
  <2>1. CASE i <= k
    <3>1. i \in 1..k
      BY <2>1, <1>0
    <3> QED BY <3>1, <2>1, <1>2, <1>3
  <2>2. CASE ~(i <= k)
    <3>1. PICK j : j = i - k
      OBVIOUS
    <3>2. j \in 1..Len(pout) /\ k + j = i
      BY <3>1, <2>2, <1>0 DEF k
    <3>3. t[d + (k + j)] = pout[j]
      BY <3>2 DEF k
    <3> QED BY <3>1, <3>2, <3>3, <2>2, <1>3
  <2> QED BY <2>1, <2>2
<1> QED BY <1>3, <1>4 DEF o, k

\* The fields ocb_crypt writes.
OcbWrites == {"datalen", "offset", "mac", "datafin", "val"}

\* What ocb_crypt made of the message m; x is m with the data.
OcbCrypts(g, r, x) ==
  /\ ~r.ok => r.h = g
  /\ r.ok => OcbWhole(r.h, x) /\ Returns(x, r.out)
  /\ Same(g, r.h, OcbWrites)

\* ocb_crypt
LEMMA OcbCryptWhole ==
  ASSUME mode = "ocb", NEW g, IsHandle(g), NEW m, OcbWhole(g, m),
         m.way \in {"encrypt", "decrypt"}, NEW n \in Nat, NEW x, OcbMore(m, x, n),
         NEW inp, inp = DataBytes(m.no, m.data, n), NEW enc, enc = (m.way = "encrypt"),
         NEW r, r = OcbCrypt(g, inp, enc)
  PROVE  OcbCrypts(g, r, x)
<1> DEFINE bs == FullBlocks(inp)
           part == Tail0(inp)
           offs == Offsets(g.offset, g.datalen, Len(bs))
           outs == [j \in 1..Len(bs) |-> OcbBlock(g, offs[j], bs[j], enc)]
           full == LastOr(offs, g.offset)
           end == IF part = <<>> THEN full ELSE Append(full, Star)
           pout == [i \in 1..Len(part) |-> Xor(OcbPad(g, end, i), part[i])]
           sum == g.mac.hash \o (IF enc THEN bs ELSE outs)
                  \o (IF part = <<>> THEN <<>>
                      ELSE <<ZeroPadded(Append(IF enc THEN part ELSE pout, Byte80))>>)
           flat == [i \in 1..(Len(bs) * BlockLen) |->
                      outs[((i - 1) \div BlockLen) + 1][((i - 1) % BlockLen) + 1]]
           val == IF g.fin THEN <<"chk", g.keyno, g.ctr.base, end, sum>> ELSE g.val
           y == [g EXCEPT !.datalen = @ + Len(bs), !.offset = end, !.mac.hash = sum,
                          !.datafin = g.fin, !.val = val]
<1>1. r = IF ~g.iv \/ g.datafin \/ (~g.fin /\ part # <<>>) THEN Refused(g)
          ELSE Result(y, TRUE, flat \o pout)
  BY DEF OcbCrypt
<1>2. CASE ~g.iv \/ g.datafin \/ (~g.fin /\ part # <<>>)
  <2>1. r = Refused(g)
    BY <1>1, <1>2
  <2>2. r.h = g /\ r.ok = FALSE
    BY <2>1 DEF Refused, Result
  <2> QED BY <2>2 DEF Same, OcbCrypts
<1>3. CASE ~(~g.iv \/ g.datafin \/ (~g.fin /\ part # <<>>))
  <2>0. r = Result(y, TRUE, flat \o pout)
    BY <1>1, <1>3
  <2>1. r.h = y /\ r.ok = TRUE /\ r.out = flat \o pout
    <3> HIDE DEF y, flat, pout
    <3> QED BY <2>0 DEF Result
  <2>2. ~g.datafin /\ (~g.fin => part = <<>>) /\ OcbGoesOn(g, m) /\ ~g.tag
    BY <1>3 DEF OcbWhole
  <2> DEFINE q == g.datalen
  <2>3. /\ q \in Nat /\ m.data = BlockLen * q /\ g.offset = OcbOffset(q)
        /\ g.mac = [hash |-> FullBlocks(PlainText(m)), buf |-> <<>>]
    BY <2>2 DEF OcbGoesOn
  <2>4. PICK p, v : Divided(inp, p, v)
    BY DataIs, Dividing
  <2>5. /\ IsSeq(inp) /\ IsSeq(bs) /\ Len(bs) = p /\ IsSeq(part) /\ Len(part) = v
        /\ p \in Nat /\ v \in 0..(BlockLen - 1) /\ Len(inp) = n /\ n = BlockLen * p + v
        /\ \A j \in 1..p : Len(bs[j]) = BlockLen
    <3>1. IsSeq(inp) /\ Len(inp) = n
      BY DataIs
    <3> QED BY <3>1, <2>4, BlocksIs DEF Divided
  <2>s. g.keyno = m.key /\ g.ctr.base = OcbBase(m) /\ g.iv /\ m.aad \in Nat /\ m.data \in Nat
    BY DEF OcbWhole
  <2> HIDE DEF bs, part, q
  <2>6. /\ \A j \in 1..p : offs[j] = OcbOffset(q + j)
        /\ full = OcbOffset(q + p)
    <3>1. offs = Offsets(OcbOffset(q), q, p)
      BY <2>3, <2>5 DEF q
    <3>2. q \in Nat /\ p \in Nat
      BY <2>3, <2>5
    <3> HIDE DEF offs
    <3>3. PICK o, k : o = offs /\ k = q
      OBVIOUS
    <3>4. k \in Nat /\ p \in Nat /\ o = Offsets(OcbOffset(k), k, p)
      BY <3>1, <3>2, <3>3
    <3>5. OffsetsOf(o, k, p)
      BY ONLY <3>4, OffsetsAre
    <3> QED BY <3>3, <3>5, <2>3 DEF full, OffsetsOf
  <2> HIDE DEF offs, full
  <2>7. /\ IsSeq(outs) /\ Len(outs) = p
        /\ \A i \in 1..p : outs[i] = OutBlock(m, q + i, FullBlocks(inp)[i])
    <3>1. \A i \in 1..p : OcbBlock(g, offs[i], bs[i], enc) = OutBlock(m, q + i, bs[i])
      BY <2>5, <2>6, <2>s DEF OcbBlock, OutBlock
    <3>2. IsSeq(outs) /\ Len(outs) = p
      BY <2>5, SeqFcn
    <3> QED BY <3>1, <3>2, <2>5 DEF bs
  <2> HIDE DEF outs
  <2>8. pout = OutPart(m, q + p, Tail0(inp))
    <3>1. CASE part = <<>>
      <4>1. Len(part) = 0
        BY <3>1, EmptyIs
      <4> QED BY <4>1 DEF OutPart, part
    <3>2. CASE part # <<>>
      <4>1. end = Append(OcbOffset(q + p), Star)
        BY <3>2, <2>6
      <4>2. \A i : OcbPad(g, end, i) = <<"pad", m.key, OcbBase(m), Append(OcbOffset(q + p), Star), i>>
        BY <4>1, <2>s DEF OcbPad
      <4> HIDE DEF end
      <4> QED BY <4>2 DEF OutPart, part
    <3> QED BY <3>1, <3>2
  <2>9. IsSeq(pout) /\ Len(pout) = v
    BY <2>5, SeqFcn
  <2>e. end = IF v = 0 THEN OcbOffset(q + p) ELSE Append(OcbOffset(q + p), Star)
    BY <2>5, <2>6, EmptyIs
  <2> HIDE DEF pout, end
  <2>10. /\ OcbAdds(m, x, q, p, inp, outs, pout)
         /\ OcbLong(x, q + p, v)
    <3>1. PICK o, k : o = outs /\ k = q
      OBVIOUS
    <3>2. /\ mode = "ocb" /\ n \in Nat /\ OcbMore(m, x, n) /\ k \in Nat /\ m.data = BlockLen * k
          /\ inp = DataBytes(m.no, m.data, n) /\ Divided(inp, p, v) /\ IsSeq(o) /\ Len(o) = p
          /\ \A i \in 1..p : o[i] = OutBlock(m, k + i, FullBlocks(inp)[i])
      BY <3>1, <2>3, <2>4, <2>7
    <3>3. OcbAdds(m, x, k, p, inp, o, OutPart(m, k + p, Tail0(inp))) /\ OcbLong(x, k + p, v)
      BY ONLY <3>2, OcbTextMore
    <3> QED BY <3>1, <3>3, <2>8
  <2> DEFINE new == IF m.way = "encrypt" THEN FullBlocks(inp) ELSE outs
             last0 == IF m.way = "encrypt" THEN Tail0(inp) ELSE pout
  <2>11. /\ FullBlocks(PlainText(x)) = FullBlocks(PlainText(m)) \o new
         /\ Tail0(PlainText(x)) = last0 /\ (last0 = <<>> <=> Tail0(inp) = <<>>)
    <3>1. /\ new = IF m.way = "encrypt" THEN FullBlocks(inp) ELSE outs
          /\ last0 = IF m.way = "encrypt" THEN Tail0(inp) ELSE pout
      OBVIOUS
    <3> HIDE DEF new, last0
    <3>2. PICK o, k, z, a, b : o = outs /\ k = q /\ z = pout /\ a = new /\ b = last0
      OBVIOUS
    <3>3. /\ mode = "ocb" /\ n \in Nat /\ OcbMore(m, x, n) /\ k \in Nat
          /\ m.data = BlockLen * k /\ m.way \in {"encrypt", "decrypt"}
          /\ inp = DataBytes(m.no, m.data, n) /\ Divided(inp, p, v)
          /\ z = OutPart(m, k + p, Tail0(inp)) /\ OcbAdds(m, x, k, p, inp, o, z)
          /\ a = IF m.way = "encrypt" THEN FullBlocks(inp) ELSE o
          /\ b = IF m.way = "encrypt" THEN Tail0(inp) ELSE z
      BY <3>1, <3>2, <2>3, <2>4, <2>8, <2>10
    <3>4. OcbPlain(m, x, inp, a, b)
      BY ONLY <3>3, OcbSums
    <3> QED BY <3>2, <3>4 DEF OcbPlain
  <2>12. IsSeq(PlainText(x))
    <3>1. IsSeq(Given(x))
      BY <2>s, DataIs DEF Given, OcbMore
    <3> QED BY <3>1, <2>10 DEF PlainText, OcbLong
  <2>13. sum = Summed(PlainText(x))
    <3>1. /\ (IF enc THEN bs ELSE outs) = new /\ (IF enc THEN part ELSE pout) = last0
      BY DEF bs, part
    <3>2. g.mac.hash = FullBlocks(PlainText(m))
      BY <2>3
    <3>3. part = <<>> <=> Tail0(PlainText(x)) = <<>>
      BY <2>11 DEF part
    <3> HIDE DEF new, last0
    <3>4. sum = (FullBlocks(PlainText(m)) \o new)
                  \o (IF part = <<>> THEN <<>> ELSE <<ZeroPadded(Append(last0, Byte80))>>)
      BY <3>1, <3>2
    <3> HIDE DEF sum
    <3>5. sum = FullBlocks(PlainText(x))
                  \o (IF part = <<>> THEN <<>>
                      ELSE <<ZeroPadded(Append(Tail0(PlainText(x)), Byte80))>>)
      BY <3>4, <2>11
    <3> QED BY <3>3, <3>5 DEF Summed
  <2>14. part = <<>> => sum = FullBlocks(PlainText(x)) /\ v = 0
    <3>1. IsSeq(FullBlocks(PlainText(x)))
      BY <2>12, FewBytes
    <3>2. part = <<>> => Tail0(PlainText(x)) = <<>>
      BY <2>11 DEF part
    <3>3. part = <<>> => Summed(PlainText(x)) = FullBlocks(PlainText(x))
      BY <3>1, <3>2, ConcatEmpty DEF Summed
    <3>4. part = <<>> => v = 0
      BY <2>5, EmptyIs
    <3> QED BY <3>3, <3>4, <2>13
  <2> HIDE DEF new, last0, sum, val
  <2>15. /\ Same(g, y, OcbWrites) /\ y.datalen = q + p /\ y.offset = end
         /\ y.mac = [g.mac EXCEPT !.hash = sum] /\ y.datafin = g.fin /\ y.val = val
    <3>1. /\ Same(g, y, OcbWrites) /\ y.datalen = g.datalen + Len(bs) /\ y.offset = end
          /\ y.mac = [g.mac EXCEPT !.hash = sum] /\ y.datafin = g.fin /\ y.val = val
      BY DEF Same, IsHandle, Fields, OcbWrites
    <3> HIDE DEF y
    <3> QED BY <3>1, <2>5 DEF q
  <2> HIDE DEF y, flat
  <2>16. y.mac = [hash |-> sum, buf |-> <<>>]
    BY <2>3, <2>15
  <2>17. /\ y.iv = g.iv /\ y.keyno = g.keyno /\ y.ctr = g.ctr /\ y.tag = g.tag
         /\ y.aadfin = g.aadfin /\ y.aad = g.aad /\ y.aadlen = g.aadlen /\ y.aadoffset = g.aadoffset
    BY <2>15 DEF Same, OcbWrites, Fields
  <2>18. /\ x.no = m.no /\ x.key = m.key /\ x.aad = m.aad /\ x.way = m.way /\ x.data = m.data + n
         /\ OcbBase(x) = OcbBase(m) /\ AadOf(x) = AadOf(m)
    BY DEF OcbMore, OcbBase, AadOf
  <2>19. q + p \in Nat /\ x.data = BlockLen * (q + p) + v /\ x.data \in Nat
    <3>1. BlockLen * (q + p) = BlockLen * q + BlockLen * p /\ BlockLen * q \in Int
          /\ BlockLen * p \in Int
      BY <2>3, <2>5, BlockLenAssumption, MultAdd
    <3> QED BY <3>1, <2>3, <2>5, <2>18, <2>s
  <2>20. end = OcbEnd(x.data)
    BY <2>5, <2>e, <2>19, OcbEndIs
  <2>21. ~y.datafin => OcbGoesOn(y, x)
    <3>1. SUFFICES ASSUME ~g.fin PROVE OcbGoesOn(y, x)
      BY <2>15
    <3>2. part = <<>> /\ v = 0 /\ sum = FullBlocks(PlainText(x))
      BY <3>1, <2>2, <2>14
    <3>3. BlockLen * (q + p) + v = BlockLen * (q + p)
      BY <3>2, <2>19, BlockLenAssumption, MultAdd
    <3> QED BY <3>2, <3>3, <2>e, <2>15, <2>16, <2>19 DEF OcbGoesOn
  <2>22. y.datafin => y.val = OcbChecksum(x)
    BY <2>13, <2>15, <2>18, <2>20, <2>s DEF OcbChecksum, val
  <2>23. ~y.aadfin /\ AadAt(y, AadOf(x))
    <3>1. ~g.aadfin /\ AadAt(g, AadOf(m))
      BY <2>2 DEF OcbWhole
    <3> QED BY <3>1, <2>17, <2>18 DEF AadAt, SummedUp
  <2>24. OcbWhole(y, x)
    <3>1. ~y.tag
      BY <2>2, <2>17
    <3>2. y.iv /\ y.keyno = x.key /\ y.ctr.base = OcbBase(x) /\ x.aad \in Nat /\ x.data \in Nat
      BY <2>17, <2>18, <2>19, <2>s
    <3> QED BY <3>1, <3>2, <2>18, <2>21, <2>22, <2>23 DEF OcbWhole
  <2>25. Returns(x, flat \o pout)
    <3>1. /\ \A i \in 1..p, j \in 1..BlockLen :
               Made(x)[m.data + (BlockLen * (i - 1) + j)] = outs[i][j]
          /\ \A j \in 1..Len(pout) : Made(x)[m.data + (BlockLen * p + j)] = pout[j]
      BY <2>5, <2>9, <2>10 DEF OcbAdds, part
    <3>2. flat = Flat(p, outs)
      BY <2>5 DEF flat, Flat
    <3>3. p \in Nat /\ IsSeq(pout) /\ m.data \in Nat
      BY <2>5, <2>9, <2>s
    <3>4. PICK t : t = Made(x)
      OBVIOUS
    <3>5. PICK d, u, z, f : d = m.data /\ u = outs /\ z = pout /\ f = flat
      OBVIOUS
    <3>6. /\ p \in Nat /\ IsSeq(z) /\ d \in Nat
          /\ \A i \in 1..p, j \in 1..BlockLen : t[d + (BlockLen * (i - 1) + j)] = u[i][j]
          /\ \A j \in 1..Len(z) : t[d + (BlockLen * p + j)] = z[j]
          /\ f = Flat(p, u)
      BY <3>1, <3>2, <3>3, <3>4, <3>5
    <3>7. PartOf(f \o z, t, d, BlockLen * p + Len(z))
      BY ONLY <3>6, OcbFlat
    <3>8. BlockLen * p + Len(z) = n
      BY <3>5, <2>5, <2>9
    <3>9. PICK o : o = f \o z
      OBVIOUS
    <3>10. IsSeq(o) /\ Len(o) = n /\ \A i \in 1..n : o[i] = Made(x)[m.data + i]
      BY <3>4, <3>5, <3>7, <3>8, <3>9 DEF PartOf
    <3>11. Returns(x, o)
      BY <3>3, <3>10, <2>10, OcbReturns DEF OcbLong, OcbMore
    <3> QED BY <3>5, <3>9, <3>11
  <2> QED BY <2>1, <2>15, <2>24, <2>25 DEF OcbCrypts
<1> QED BY <1>2, <1>3

-----------------------------------------------------------------------------
(* OCB: the tag *)

\* The sum over all of the AAD, the padded last block included.
AadTotal(m) ==
  [i \in 1..Len(Summed(AadOf(m))) |->
     <<OcbEnd(Lesser(i * BlockLen, m.aad)), Summed(AadOf(m))[i]>>]

\* The last element of a sequence with one more.
LEMMA AppendIs ==
  ASSUME NEW s, IsSeq(s), NEW a
  PROVE  /\ IsSeq(Append(s, a)) /\ Len(Append(s, a)) = Len(s) + 1
         /\ \A i \in 1..(Len(s) + 1) : Append(s, a)[i] = IF i <= Len(s) THEN s[i] ELSE a
         /\ Append(s, a) = s \o <<a>>
<1>1. s \o <<a>> = Append(s, a)
  BY DEF IsSeq
<1>2. IsSeq(<<a>>) /\ Len(<<a>>) = 1 /\ <<a>>[1] = a
  BY SingleIs
<1>3. PICK t : t = <<a>>
  OBVIOUS
<1>4. /\ IsSeq(s \o t) /\ Len(s \o t) = Len(s) + Len(t)
      /\ \A i \in 1..(Len(s) + Len(t)) : (s \o t)[i] = IF i <= Len(s) THEN s[i] ELSE t[i - Len(s)]
  BY <1>2, <1>3, ConcatIs
<1>5. Len(s) \in Nat
  BY IsSeqLen
<1>6. \A i \in 1..(Len(s) + 1) : ~(i <= Len(s)) => i - Len(s) = 1
  BY <1>5
<1> QED BY <1>1, <1>2, <1>3, <1>4, <1>6

\* What ocb_aad_finalize makes of the sum.
LEMMA AadTotalIs ==
  ASSUME NEW m, m.aad \in Nat, NEW s, s = AadOf(m), NEW f, f = Len(FullBlocks(s)), NEW t,
         t = IF Tail0(s) = <<>> THEN AadSum(s)
             ELSE Append(AadSum(s), <<Append(OcbOffset(f), Star),
                                      ZeroPadded(Append(Tail0(s), Byte80))>>)
  PROVE  t = AadTotal(m)
<1>1. IsSeq(s) /\ Len(s) = m.aad
  BY AadIs DEF AadOf
<1>2. PICK q, w : Divided(s, q, w)
  BY <1>1, Dividing
<1>3. /\ BlockLen \in Nat \ {0} /\ q = f /\ f \in Nat /\ w \in 0..(BlockLen - 1)
      /\ m.aad = BlockLen * f + w /\ IsSeq(Tail0(s)) /\ Len(Tail0(s)) = w
      /\ IsSeq(FullBlocks(s)) /\ BlockLen * f \in Nat
  <2>1. IsSeq(FullBlocks(s)) /\ Len(FullBlocks(s)) = q /\ IsSeq(Tail0(s)) /\ Len(Tail0(s)) = w
    BY <1>1, <1>2, BlocksIs
  <2>2. q \in Nat /\ w \in 0..(BlockLen - 1) /\ Len(s) = BlockLen * q + w
    BY <1>2 DEF Divided
  <2> QED BY <2>1, <2>2, <1>1, BlockLenAssumption, MultAdd
<1>4. Tail0(s) = <<>> <=> w = 0
  BY <1>3, EmptyIs
<1> DEFINE pad == ZeroPadded(Append(Tail0(s), Byte80))
           u == Summed(s)
           e(i) == OcbEnd(Lesser(i * BlockLen, m.aad))
<1>5. /\ IsSeq(AadSum(s)) /\ Len(AadSum(s)) = f
      /\ \A i \in 1..f : AadSum(s)[i] = <<OcbOffset(i), FullBlocks(s)[i]>>
  BY <1>1, FullIs
<1>6. AadTotal(m) = [i \in 1..Len(u) |-> <<e(i), u[i]>>]
  BY DEF AadTotal
<1>7. ASSUME NEW i \in 1..f PROVE e(i) = OcbOffset(i)
  <2> DEFINE n == i * BlockLen
  <2>1. n \in Nat /\ n = BlockLen * i /\ n <= BlockLen * f
    BY <1>3, <1>7, MultMono, MultAdd
  <2>2. n <= m.aad
    <3> HIDE DEF n
    <3>1. PICK z : z = BlockLen * f
      OBVIOUS
    <3>2. z \in Nat /\ m.aad = z + w /\ n <= z /\ w \in Nat /\ n \in Nat
      BY <3>1, <2>1, <1>3
    <3> QED BY ONLY <3>2
  <2>3. Lesser(n, m.aad) = n
    <3> HIDE DEF n
    <3> QED BY <2>1, <2>2 DEF Lesser
  <2>4. OcbEnd(n) = OcbOffset(i)
    <3>1. i \in Nat /\ 0 \in 0..(BlockLen - 1) /\ n = BlockLen * i + 0
      BY <2>1, <1>3
    <3> HIDE DEF n
    <3>2. n \in Nat
      BY <2>1
    <3>3. OcbEnd(n) = IF 0 = 0 THEN OcbOffset(i) ELSE Append(OcbOffset(i), Star)
      BY <3>1, <3>2, OcbEndIs
    <3> QED BY <3>3
  <2> QED BY <2>3, <2>4
<1>8. CASE w = 0
  <2>1. u = FullBlocks(s) /\ t = AadSum(s)
    BY <1>3, <1>4, <1>8, ConcatEmpty DEF Summed
  <2> HIDE DEF u, e
  <2>2. AadTotal(m) = [i \in 1..f |-> <<e(i), FullBlocks(s)[i]>>]
    BY <2>1, <1>6
  <2>3. \A i \in 1..f : <<e(i), FullBlocks(s)[i]>> = <<OcbOffset(i), FullBlocks(s)[i]>>
    BY <1>7
  <2>4. AadTotal(m) = [i \in 1..f |-> <<OcbOffset(i), FullBlocks(s)[i]>>]
    BY <2>2, <2>3
  <2> QED BY <2>1, <2>4 DEF AadSum
<1>9. CASE w # 0
  <2>1. u = FullBlocks(s) \o <<pad>>
        /\ t = Append(AadSum(s), <<Append(OcbOffset(f), Star), pad>>)
    BY <1>4, <1>9 DEF Summed
  <2> HIDE DEF pad
  <2>2. /\ Len(u) = f + 1
        /\ \A i \in 1..(f + 1) : u[i] = IF i <= f THEN FullBlocks(s)[i] ELSE pad
    <3>1. PICK b : b = FullBlocks(s)
      OBVIOUS
    <3>2. IsSeq(b) /\ Len(b) = f
      BY <3>1, <1>3
    <3>3. /\ Len(Append(b, pad)) = Len(b) + 1 /\ Append(b, pad) = b \o <<pad>>
          /\ \A i \in 1..(Len(b) + 1) : Append(b, pad)[i] = IF i <= Len(b) THEN b[i] ELSE pad
      BY <3>2, AppendIs
    <3>4. u = Append(b, pad)
      BY <3>1, <3>3, <2>1
    <3> HIDE DEF u
    <3> QED BY <3>1, <3>2, <3>3, <3>4
  <2> DEFINE z == <<Append(OcbOffset(f), Star), pad>>
  <2>3. /\ IsSeq(t) /\ Len(t) = f + 1
        /\ \A i \in 1..(f + 1) : t[i] = IF i <= f THEN AadSum(s)[i] ELSE z
    <3> HIDE DEF z
    <3>1. t = Append(AadSum(s), z)
      BY <2>1 DEF z
    <3>2. PICK b : b = AadSum(s)
      OBVIOUS
    <3>3. IsSeq(b) /\ Len(b) = f
      BY <3>2, <1>5
    <3>4. /\ IsSeq(Append(b, z)) /\ Len(Append(b, z)) = Len(b) + 1
          /\ \A i \in 1..(Len(b) + 1) : Append(b, z)[i] = IF i <= Len(b) THEN b[i] ELSE z
      BY <3>3, AppendIs
    <3>5. t = Append(b, z)
      BY <3>1, <3>2
    <3> QED BY <3>2, <3>3, <3>4, <3>5
  <2>4. e(f + 1) = Append(OcbOffset(f), Star)
    <3>1. (f + 1) * BlockLen = BlockLen * f + BlockLen
      <4>1. (f + 1) * BlockLen = BlockLen * (f + 1) /\ BlockLen * (f + 1) = BlockLen * f + BlockLen * 1
        BY <1>3, MultAdd
      <4> QED BY <4>1, <1>3
    <3>2. PICK y, a : y = BlockLen * f /\ a = (f + 1) * BlockLen
      OBVIOUS
    <3>3. y \in Nat /\ a = y + BlockLen /\ m.aad = y + w /\ w < BlockLen /\ w \in Nat
          /\ BlockLen \in Nat
      BY <3>1, <3>2, <1>3
    <3>4. Lesser(a, m.aad) = m.aad
      BY ONLY <3>3 DEF Lesser
    <3>5. OcbEnd(m.aad) = IF w = 0 THEN OcbOffset(f) ELSE Append(OcbOffset(f), Star)
      BY <1>3, OcbEndIs
    <3> QED BY <3>2, <3>4, <3>5, <1>9
  <2> HIDE DEF u, e, z
  <2>5. AadTotal(m) = [i \in 1..(f + 1) |-> <<e(i), u[i]>>]
    BY <2>2, <1>6
  <2>6. IsSeq(AadTotal(m)) /\ Len(AadTotal(m)) = f + 1
        /\ \A i \in 1..(f + 1) : AadTotal(m)[i] = <<e(i), u[i]>>
    <3>1. f + 1 \in Nat
      BY <1>3
    <3>2. PICK a, n : a = AadTotal(m) /\ n = f + 1
      OBVIOUS
    <3>3. n \in Nat /\ DOMAIN a = 1..n /\ a = [i \in 1..n |-> a[i]]
      BY <3>1, <3>2, <2>5
    <3>4. IsSeq(a) /\ Len(a) = n
      BY ONLY <3>3, SeqFcn
    <3> QED BY <3>2, <3>4, <2>5
  <2>7. ASSUME NEW i \in 1..(f + 1) PROVE t[i] = AadTotal(m)[i]
    <3>1. CASE i <= f
      <4>1. i \in 1..f
        BY <3>1, <1>3
      <4> QED BY <4>1, <3>1, <2>2, <2>3, <2>6, <1>5, <1>7
    <3>2. CASE ~(i <= f)
      <4>1. i = f + 1
        BY <3>2, <1>3
      <4>2. t[i] = z /\ u[i] = pad /\ e(i) = Append(OcbOffset(f), Star)
        BY <4>1, <3>2, <2>2, <2>3, <2>4
      <4> QED BY <4>2, <2>6 DEF z
    <3> QED BY <3>1, <3>2
  <2> QED BY <2>3, <2>6, <2>7, SeqSame
<1> QED BY <1>8, <1>9

\* The tag of an OCB message.
LEMMA OcbTagIs ==
  ASSUME mode = "ocb", NEW m
  PROVE  Tag(m) = <<"ocb", OcbChecksum(m), AadTotal(m)>>
  BY DEF Tag, OneShot, OcbChecksum, AadTotal, AadOf

\* The fields the tag routines write.
OcbTagWrites == {"tag", "val", "aad", "aadfin", "aadoffset"}

\* What they do to the handle and the message.
OcbTagged(g, r, m) ==
  /\ ~r.ok => r.h = g
  /\ r.ok => OcbWhole(r.h, m) /\ r.h.val = Tag(m)

\* _gcry_cipher_ocb_get_tag and _gcry_cipher_ocb_check_tag
LEMMA OcbTagWhole ==
  ASSUME mode = "ocb", NEW g, IsHandle(g), NEW m, OcbWhole(g, m), NEW r, r = OcbTag(g)
  PROVE  OcbTagged(g, r, m)
<1> USE DEF OcbTagged
<1>1. CASE ~g.datafin
  <2>1. r = Refused(g)
    BY <1>1 DEF OcbTag
  <2> QED BY <2>1 DEF Refused, Result
<1>2. CASE g.datafin /\ g.tag
  <2>1. r = Done(g)
    BY <1>2 DEF OcbTag
  <2>2. r.h = g /\ r.ok = TRUE
    BY <2>1 DEF Done, Result
  <2> QED BY <2>2, <1>2 DEF OcbWhole
<1>3. CASE g.datafin /\ ~g.tag
  <2> DEFINE f == OcbAadFinalize(g)
             y == [f EXCEPT !.tag = TRUE, !.val = <<"ocb", f.val, f.aad.hash>>]
             s == AadOf(m)
  <2>1. r = Done(y)
    BY <1>3 DEF OcbTag, OcbTagFrom
  <2>2. r.h = y /\ r.ok = TRUE
    <3> HIDE DEF y
    <3> QED BY <2>1 DEF Done, Result
  <2>3. /\ g.val = OcbChecksum(m) /\ AadAt(g, s) /\ m.aad \in Nat
    BY <1>3 DEF OcbWhole
  <2>4. /\ g.aadoffset = OcbOffset(Len(FullBlocks(s))) /\ g.aad = [hash |-> AadSum(s), buf |-> Tail0(s)]
    BY <2>3 DEF AadAt, SummedUp
  <2> DEFINE z == <<Append(g.aadoffset, Star), ZeroPadded(Append(g.aad.buf, Byte80))>>
  <2>5. /\ Same(g, f, {"aadfin", "aad", "aadoffset"})
        /\ f.aad.hash = IF g.aad.buf = <<>> THEN g.aad.hash ELSE Append(g.aad.hash, z)
    <3>1. CASE g.aad.buf = <<>>
      <4>1. f = [g EXCEPT !.aadfin = TRUE]
        BY <3>1 DEF OcbAadFinalize
      <4> HIDE DEF f
      <4> QED BY <4>1, <3>1 DEF Same, IsHandle, Fields
    <3>2. CASE g.aad.buf # <<>>
      <4>1. f = [g EXCEPT !.aadfin = TRUE, !.aad.buf = <<>>, !.aadoffset = Append(@, Star),
                          !.aad.hash = Append(@, z)]
        BY <3>2 DEF OcbAadFinalize
      <4> HIDE DEF f, z
      <4>2. f = [g EXCEPT !.aadfin = TRUE,
                          !.aad = [g.aad EXCEPT !.buf = <<>>, !.hash = Append(@, z)],
                          !.aadoffset = Append(@, Star)]
        BY <4>1 DEF IsHandle, Fields
      <4>3. Same(g, f, {"aadfin", "aad", "aadoffset"})
        BY <4>2 DEF Same, IsHandle, Fields
      <4>4. f.aad = [g.aad EXCEPT !.buf = <<>>, !.hash = Append(@, z)]
        BY <4>2 DEF IsHandle, Fields
      <4>5. f.aad.hash = Append(g.aad.hash, z)
        BY <4>4, <2>4
      <4> QED BY <4>3, <4>5, <3>2
    <3> QED BY <3>1, <3>2
  <2> HIDE DEF f
  <2>6. f.aad.hash = AadTotal(m)
    <3>1. PICK t, a, k : t = f.aad.hash /\ a = s /\ k = Len(FullBlocks(s))
      OBVIOUS
    <3>2. /\ m.aad \in Nat /\ a = AadOf(m) /\ k = Len(FullBlocks(a))
          /\ t = IF Tail0(a) = <<>> THEN AadSum(a)
                 ELSE Append(AadSum(a), <<Append(OcbOffset(k), Star),
                                          ZeroPadded(Append(Tail0(a), Byte80))>>)
      BY <3>1, <2>3, <2>4, <2>5
    <3>3. t = AadTotal(m)
      BY ONLY <3>2, AadTotalIs
    <3> QED BY <3>1, <3>3
  <2>7. f.val = g.val
    BY <2>5 DEF Same, Fields
  <2>8. Same(g, y, OcbTagWrites) /\ y.tag = TRUE /\ y.val = <<"ocb", f.val, f.aad.hash>>
    <3>1. PICK v : v = <<"ocb", f.val, f.aad.hash>>
      OBVIOUS
    <3>2. y = [f EXCEPT !.tag = TRUE, !.val = v]
      BY <3>1
    <3> HIDE DEF y
    <3>3. Same(f, y, {"tag", "val"}) /\ y.tag = TRUE /\ y.val = v
      BY <3>2, <2>5 DEF Same, IsHandle, Fields
    <3> QED BY <3>1, <3>3, <2>5 DEF Same, OcbTagWrites
  <2> HIDE DEF y
  <2>9. y.val = Tag(m)
    BY <2>3, <2>6, <2>7, <2>8, OcbTagIs
  <2>10. /\ y.iv = g.iv /\ y.keyno = g.keyno /\ y.ctr = g.ctr /\ y.datafin = g.datafin
    BY <2>8 DEF Same, OcbTagWrites, Fields
  <2>11. OcbWhole(y, m)
    BY <2>8, <2>9, <2>10, <1>3 DEF OcbWhole
  <2> QED BY <2>2, <2>9, <2>11
<1> QED BY <1>1, <1>2, <1>3

\* They keep the nonce, and whether the process lives.
LEMMA OcbTagKeeps ==
  ASSUME NEW g, IsHandle(g), NEW r, r = OcbTag(g)
  PROVE  r.h.iv = g.iv /\ r.h.dead = g.dead
<1> DEFINE f == OcbAadFinalize(g)
<1>1. r.h = g \/ r.h = OcbTagFrom(f).h
  BY DEF OcbTag, Refused, Done, Result
<1>2. IsHandle(f) /\ f.iv = g.iv /\ f.dead = g.dead
  BY DEF OcbAadFinalize, IsHandle, Fields
<1> HIDE DEF f
<1>3. OcbTagFrom(f).h.iv = f.iv /\ OcbTagFrom(f).h.dead = f.dead
  BY <1>2 DEF OcbTagFrom, Done, Result, IsHandle, Fields
<1> QED BY <1>1, <1>2, <1>3

-----------------------------------------------------------------------------
(* OCB: the calls *)

\* Nothing summed up yet.
LEMMA NoSums == FullBlocks(<<>>) = <<>> /\ AadSum(<<>>) = <<>> /\ Tail0(<<>>) = <<>>
<1>1. FullBlocks(<<>>) = <<>> /\ Tail0(<<>>) = <<>>
  BY NoBlocks
<1>2. IsSeq(AadSum(<<>>)) /\ Len(AadSum(<<>>)) = 0
  BY <1>1, EmptyIs, FullIs
<1> QED BY <1>1, <1>2, EmptyIs

\* A message without data.
LEMMA OcbNoText ==
  ASSUME mode = "ocb", NEW m, m.data = 0
  PROVE  PlainText(m) = <<>>
<1>1. Given(m) = <<>>
  BY DataIs DEF Given
<1>2. Made(m) = <<>>
  BY DEF Made, OneShot
<1> QED BY <1>1, <1>2 DEF PlainText

\* _gcry_cipher_ocb_set_nonce
LEMMA OcbStarts ==
  ASSUME mode = "ocb", NEW g, IsHandle(g), NEW m, m.key = g.keyno, Fresh(m),
         m.taglen = g.taglen, NEW r, r = OcbSetNonce(g, m.iv)
  PROVE  /\ r.ok => OcbWhole(r.h, m)
         /\ ~r.ok => r.h = g
         /\ r.h.dead = g.dead
<1> DEFINE ctr == [NoCtr EXCEPT !.base = <<"ocb", g.keyno, m.iv.id, g.taglen>>]
           y == [g EXCEPT
                   !.iv = TRUE, !.tag = FALSE, !.fin = FALSE, !.val = NoValue, !.ctr = ctr,
                   !.offset = <<>>, !.mac = Empty, !.datalen = 0,
                   !.datafin = FALSE, !.aad = Empty, !.aadoffset = <<>>,
                   !.aadlen = 0, !.aadfin = FALSE]
<1>1. r = IF ~g.key THEN Refused(g) ELSE Done(y)
  BY DEF OcbSetNonce
<1>2. ctr.base = OcbBase(m)
  BY DEF NoCtr, OcbBase
<1> HIDE DEF ctr
<1>3. /\ y.iv = TRUE /\ y.tag = FALSE /\ y.ctr = ctr /\ y.offset = <<>> /\ y.mac = Empty
      /\ y.datalen = 0 /\ y.datafin = FALSE /\ y.aad = Empty /\ y.aadoffset = <<>>
      /\ y.aadlen = 0 /\ y.aadfin = FALSE /\ y.keyno = g.keyno /\ y.dead = g.dead
  BY DEF IsHandle, Fields
<1> HIDE DEF y
<1>4. m.aad = 0 /\ m.data = 0 /\ m.way = "none"
  BY DEF Fresh
<1>5. OcbOffset(0) = <<>> /\ BlockLen * 0 = 0
  BY OffsetIs, BlockLenAssumption
<1>6. OcbGoesOn(y, m)
  BY <1>3, <1>4, <1>5, OcbNoText, NoSums DEF OcbGoesOn, Empty
<1>7. AadOf(m) = <<>>
  BY <1>4, AadIs DEF AadOf
<1>8. AadAt(y, AadOf(m))
  BY <1>3, <1>5, <1>7, NoSums, EmptyIs DEF AadAt, SummedUp, Empty
<1>9. OcbWhole(y, m)
  BY <1>2, <1>3, <1>4, <1>6, <1>8 DEF OcbWhole
<1> QED BY <1>1, <1>3, <1>9 DEF Refused, Done, Result

\* What an AAD call made of the message, which is x with the AAD.
OcbAdded(g, r, x) == (r.ok => OcbWhole(r.h, x)) /\ (~r.ok => r.h = g)

\* _gcry_cipher_ocb_authenticate on a whole message.
LEMMA OcbAadWhole ==
  ASSUME mode = "ocb", NEW g, IsHandle(g), NEW m, OcbWhole(g, m), g.dead = FALSE,
         NEW n \in Nat, NEW x, AadGiven(m, x, n), NEW inp, inp = AadBytes(m.no, m.aad, n),
         NEW r, r = OcbAuthenticate(g, inp), r.h.dead = FALSE
  PROVE  OcbAdded(g, r, x)
<1> USE DEF OcbAdded
<1> DEFINE s == AadOf(m)
<1>1. IsSeq(s) /\ IsSeq(inp) /\ m.aad \in Nat
  BY AadIs DEF OcbWhole, AadOf
<1>2. AadOf(x) = s \o inp
  BY <1>1, AadMore DEF AadOf, AadGiven
<1> HIDE DEF s
<1>3. CASE g.tag \/ g.aadfin
  <2>1. r.ok = FALSE /\ r.h = g
    BY <1>3 DEF OcbAuthenticate, Refused, Result
  <2> QED BY <2>1
<1>4. CASE ~(g.tag \/ g.aadfin)
  <2>1. AadAt(g, s)
    BY <1>4 DEF OcbWhole, s
  <2>2. /\ r.ok => AadAt(r.h, s \o inp)
        /\ Same(g, r.h, {"aad", "aadlen", "aadoffset", "dead"})
        /\ ~r.ok => r.h = g
    BY <1>1, <2>1, OcbAadIs
  <2>3. ASSUME r.ok PROVE OcbWhole(r.h, x)
    <3> DEFINE y == r.h
    <3>1. AadAt(y, AadOf(x))
      BY <2>2, <2>3, <1>2
    <3> HIDE DEF y
    <3>2. /\ y.iv = g.iv /\ y.tag = g.tag /\ y.keyno = g.keyno /\ y.ctr = g.ctr
          /\ y.datalen = g.datalen /\ y.offset = g.offset /\ y.mac = g.mac
          /\ y.datafin = g.datafin /\ y.aadfin = g.aadfin /\ y.val = g.val
      BY <2>2 DEF Same, Fields, y
    <3>3. /\ x.key = m.key /\ OcbBase(x) = OcbBase(m) /\ x.aad = m.aad + n
          /\ x.data = m.data /\ x.way = m.way /\ PlainText(x) = PlainText(m)
      <4>1. /\ x.no = m.no /\ x.key = m.key /\ x.iv = m.iv /\ x.aad = m.aad + n
            /\ x.taglen = m.taglen /\ x.data = m.data /\ x.way = m.way
        BY DEF AadGiven
      <4>2. OcbBase(x) = OcbBase(m) /\ Given(x) = Given(m)
        BY <4>1 DEF OcbBase, Given
      <4>3. \A i : OcbByte(x, Given(x), i) = OcbByte(m, Given(m), i)
        BY <4>1, <4>2 DEF OcbByte
      <4>4. Made(x) = Made(m)
        BY <4>1, <4>3 DEF Made, OneShot
      <4> QED BY <4>1, <4>2, <4>4 DEF PlainText
    <3>4. x.aad \in Nat
      BY <3>3, <1>1
    <3>5. OcbGoesOn(g, m) => OcbGoesOn(y, x)
      BY <3>2, <3>3 DEF OcbGoesOn
    <3>6. OcbChecksum(x) = OcbChecksum(m)
      BY <3>3 DEF OcbChecksum
    <3>7. OcbWhole(y, x)
      BY <3>1, <3>2, <3>3, <3>4, <3>5, <3>6, <1>4 DEF OcbWhole
    <3> QED BY <3>7 DEF y
  <2> QED BY <2>2, <2>3
<1> QED BY <1>3, <1>4

\* An assertion that failed once has ended the process.
LEMMA OcbAadDead ==
  ASSUME NEW g, IsHandle(g), NEW inp, NEW r, r = OcbAuthenticate(g, inp)
  PROVE  (r.h.dead = g.dead \/ r.h.dead = TRUE) /\ r.h.iv = g.iv
<1> DEFINE n == IF g.aad.buf = <<>> THEN 0 ELSE Lesser(BlockLen - Len(g.aad.buf), Len(inp))
           b == g.aad.buf \o First(inp, n)
           rest == Behind(inp, n)
           x == OcbTopUp(g, b)
<1>1. r = IF ~g.iv \/ g.tag \/ g.aadfin THEN Refused(g) ELSE OcbAadRest(x, rest)
  BY DEF OcbAuthenticate
<1> HIDE DEF n, b, rest
<1>2. ASSUME NEW y, IsHandle(y), NEW bs
      PROVE  LET z == OcbAadBlocks(y, bs) IN IsHandle(z) /\ z.dead = y.dead /\ z.iv = y.iv
  BY <1>2 DEF OcbAadBlocks, IsHandle, Fields
<1>3. ASSUME NEW y, IsHandle(y), NEW a
      PROVE  LET z == [y EXCEPT !.aad.buf = a] IN IsHandle(z) /\ z.dead = y.dead /\ z.iv = y.iv
  BY <1>3 DEF IsHandle, Fields
<1>4. LET z == [g EXCEPT !.dead = TRUE] IN IsHandle(z) /\ z.dead = TRUE /\ z.iv = g.iv
  BY DEF IsHandle, Fields
<1>5. IsHandle(x) /\ (x.dead = g.dead \/ x.dead = TRUE) /\ x.iv = g.iv
  <2>1. \/ x = [g EXCEPT !.aad.buf = b]
        \/ x = [g EXCEPT !.dead = TRUE]
        \/ x = OcbAadBlocks([g EXCEPT !.aad.buf = <<>>], <<b>>)
    BY DEF OcbTopUp, OcbLeftoverBlock
  <2>2. CASE x = [g EXCEPT !.aad.buf = b]
    BY <2>2, <1>3
  <2>3. CASE x = [g EXCEPT !.dead = TRUE]
    BY <2>3, <1>4
  <2>4. CASE x = OcbAadBlocks([g EXCEPT !.aad.buf = <<>>], <<b>>)
    <3> DEFINE y == [g EXCEPT !.aad.buf = <<>>]
    <3>1. IsHandle(y) /\ y.dead = g.dead /\ y.iv = g.iv
      BY <1>3
    <3>2. x = OcbAadBlocks(y, <<b>>)
      BY <2>4
    <3> HIDE DEF x, y
    <3> QED BY <3>1, <3>2, <1>2
  <2> QED BY <2>1, <2>2, <2>3, <2>4
<1> HIDE DEF x
<1>6. CASE ~g.iv \/ g.tag \/ g.aadfin
  BY <1>1, <1>6 DEF Refused, Result
<1>7. CASE ~(~g.iv \/ g.tag \/ g.aadfin)
  <2> DEFINE z == OcbAadBlocks(x, FullBlocks(rest))
             y == [z EXCEPT !.aad.buf = Tail0(rest)]
  <2>1. r.h = x \/ r.h = y
    BY <1>1, <1>7 DEF OcbAadRest, Done, Result
  <2>2. IsHandle(z) /\ z.dead = x.dead /\ z.iv = x.iv
    BY <1>2, <1>5
  <2> HIDE DEF z
  <2>3. y.dead = z.dead /\ y.iv = z.iv
    BY <1>3, <2>2
  <2> HIDE DEF y
  <2> QED BY <2>1, <2>2, <2>3, <1>5
<1> QED BY <1>6, <1>7

\* The first data settles which way the message goes.
LEMMA OcbWay ==
  ASSUME mode = "ocb", NEW g, NEW c, OcbWhole(g, c), NEW way \in {"encrypt", "decrypt"},
         c.way \in {"none", way}, NEW m, Turns(c, m, way), m.taglen = c.taglen
  PROVE  OcbWhole(g, m)
<1>1. /\ m.no = c.no /\ m.key = c.key /\ m.iv = c.iv /\ m.aad = c.aad /\ m.data = c.data
      /\ m.way = way /\ m.taglen = c.taglen
  BY DEF Turns
<1>2. OcbBase(m) = OcbBase(c) /\ AadOf(m) = AadOf(c)
  BY <1>1 DEF OcbBase, AadOf
<1>3. PlainText(m) = PlainText(c)
  <2>1. CASE c.way = "none"
    <3>1. c.data = 0
      BY <2>1 DEF OcbWhole
    <3> QED BY <3>1, <1>1, OcbNoText
  <2>2. CASE c.way = way
    <3>1. Given(m) = Given(c) /\ m.way = c.way
      BY <2>2, <1>1 DEF Given
    <3>2. \A i : OcbByte(m, Given(m), i) = OcbByte(c, Given(c), i)
      BY <3>1, <1>1, <1>2 DEF OcbByte
    <3>3. Made(m) = Made(c)
      BY <3>2, <1>1 DEF Made, OneShot
    <3> QED BY <3>1, <3>3 DEF PlainText
  <2> QED BY <2>1, <2>2
<1>4. OcbChecksum(m) = OcbChecksum(c) /\ AadTotal(m) = AadTotal(c)
  BY <1>1, <1>2, <1>3 DEF OcbChecksum, AadTotal
<1>5. Tag(m) = Tag(c)
  BY <1>4, OcbTagIs
<1>6. OcbGoesOn(g, c) => OcbGoesOn(g, m)
  BY <1>1, <1>3 DEF OcbGoesOn
<1>7. m.way \in {"none", "encrypt", "decrypt"} /\ m.way # "none"
  BY <1>1
<1> QED BY <1>1, <1>2, <1>4, <1>5, <1>6, <1>7 DEF OcbWhole

-----------------------------------------------------------------------------
(* OCB: the invariant *)

\* What holds of the handle and the message, unless the assertion of ocb_get_L_big has
\* ended the process,
OcbSafe(g, m) == g.dead \in BOOLEAN /\ (g.dead = FALSE /\ m.whole => OcbWhole(g, m))

\* and of the last call too.
OcbGood(g, m, l) ==
  OcbSafe(g, m) /\ (g.dead = FALSE /\ m.whole /\ m.clean => Says(m, l))

\* The invariant.
OcbInv == mode = "ocb" => OcbGood(h, msg, last)

\* The mode never changes, so what depends on it is the same after a step.
LEMMA OcbPrimed ==
  ASSUME mode = "ocb", mode' = mode, OcbGood(h', msg', last')
  PROVE  OcbInv'
<1>1. Made(msg)' = Made(msg')
  BY DEF Made, OneShot
<1>2. PlainText(msg)' = PlainText(msg')
  BY <1>1 DEF PlainText
<1>3. OcbChecksum(msg)' = OcbChecksum(msg')
  BY <1>2 DEF OcbChecksum
<1>4. Tag(msg)' = Tag(msg')
  BY <1>2 DEF Tag, OneShot
<1>5. OcbGoesOn(h', msg') => OcbGoesOn(h, msg)'
  BY <1>2 DEF OcbGoesOn
<1>6. OcbWhole(h', msg') => OcbWhole(h, msg)'
  BY <1>3, <1>4, <1>5 DEF OcbWhole
<1>7. Says(msg', last') => Says(msg, last)'
  BY <1>1, <1>4 DEF Says
<1> QED BY <1>6, <1>7 DEF OcbInv, OcbGood, OcbSafe

\* The invariant says what the properties do.
LEMMA OcbSays ==
  ASSUME mode = "ocb", OcbInv, ~h.dead
  PROVE  Exact /\ Verified
<1>1. msg.whole /\ msg.clean => Says(msg, last)
  BY DEF OcbInv, OcbGood, OcbSafe
<1>2. mode \notin OneShot
  BY DEF OneShot
<1> QED BY <1>1, <1>2 DEF Says, Exact, Verified, Tracked, OutputRight, TagRight

\* A step that returned nothing.
LEMMA OcbQuiet ==
  ASSUME NEW g, NEW m, OcbSafe(g, m)
  PROVE  OcbGood(g, m, Nothing)
  BY DEF OcbGood, Nothing, Says

\* gcry_cipher_setiv
LEMMA OcbSetIvGood ==
  ASSUME mode = "ocb", IsHandle(h), OcbGood(h, msg, last), NEW hashed, SetIv(hashed)
  PROVE  OcbGood(h', msg', last')
<1> DEFINE iv == Nonce(msg.no + 1, hashed)
           m == Message(msg.no + 1, iv, h, Clean)
           r == OcbSetNonce(h, iv)
<1>1. /\ h' = r.h /\ last' = Nothing
      /\ msg' = IF ~r.ok THEN msg ELSE m
  <2>1. Setiv(h, iv) = r
    BY DEF Setiv
  <2> HIDE DEF r, iv
  <2> QED BY <2>1 DEF SetIv, iv
<1> HIDE DEF iv
<1>2. m.key = h.keyno /\ m.iv = iv /\ Fresh(m) /\ m.taglen = h.taglen
  BY DEF Message, Fresh
<1> HIDE DEF m
<1>3. r = OcbSetNonce(h, m.iv)
  BY <1>2
<1> HIDE DEF r
<1>4. (r.ok => OcbWhole(r.h, m)) /\ (~r.ok => r.h = h) /\ r.h.dead = h.dead
  BY <1>2, <1>3, OcbStarts
<1>5. h.dead \in BOOLEAN /\ (h.dead = FALSE /\ msg.whole => OcbWhole(h, msg))
  BY DEF OcbGood, OcbSafe
<1>6. OcbSafe(h', msg')
  <2> USE DEF OcbSafe
  <2>1. CASE r.ok
    BY <2>1, <1>1, <1>4, <1>5
  <2>2. CASE ~r.ok
    <3>1. h' = h /\ msg' = msg
      BY <2>2, <1>1, <1>4
    <3> QED BY <3>1, <1>5
  <2> QED BY <2>1, <2>2
<1> QED BY <1>1, <1>6, OcbQuiet

\* gcry_cipher_authenticate
LEMMA OcbAuthGood ==
  ASSUME mode = "ocb", IsHandle(h), DOMAIN msg = MsgFields, OcbGood(h, msg, last),
         NEW n \in Nat, DoAuthenticate(n)
  PROVE  OcbGood(h', msg', last')
<1> DEFINE inp == AadBytes(msg.no, msg.aad, n)
           r == OcbAuthenticate(h, inp)
           x == [msg EXCEPT !.aad = @ + n,
                            !.parts = IF mode = "siv" THEN Append(@, inp) ELSE @,
                            !.clean = @ /\ (mode = "ccm" => msg.data = 0)]
<1>0. Current = msg
  BY DEF Current, AutoIv
<1>1. /\ h' = r.h /\ last' = Nothing
      /\ msg' = IF r.ok THEN x ELSE msg
  <2>1. Authenticate(h, inp) = r
    BY DEF Authenticate
  <2> HIDE DEF r
  <2>2. /\ h' = r.h /\ last' = Nothing
        /\ msg' = IF r.ok THEN x ELSE IF r.h.iv # h.iv THEN msg ELSE msg
    BY <1>0, <2>1, Zenon DEF DoAuthenticate
  <2> QED BY <2>2
<1>2. AadGiven(msg, x, n) /\ x.whole = msg.whole
  BY DEF AadGiven, MsgFields
<1> HIDE DEF x
<1>3. r = OcbAuthenticate(h, inp) /\ inp = AadBytes(msg.no, msg.aad, n)
  OBVIOUS
<1> HIDE DEF r, inp
<1>4. (r.h.dead = h.dead \/ r.h.dead = TRUE) /\ h.dead \in BOOLEAN
      /\ (h.dead = FALSE /\ msg.whole => OcbWhole(h, msg))
  BY <1>3, OcbAadDead DEF OcbGood, OcbSafe
<1>5. ASSUME r.h.dead = FALSE, msg.whole
      PROVE  (r.ok => OcbWhole(r.h, x)) /\ (~r.ok => r.h = h)
  <2>1. PICK m, g : m = msg /\ g = h
    OBVIOUS
  <2>2. h.dead = FALSE
    BY <1>4, <1>5
  <2>3. /\ mode = "ocb" /\ IsHandle(g) /\ OcbWhole(g, m) /\ g.dead = FALSE /\ n \in Nat
        /\ AadGiven(m, x, n) /\ inp = AadBytes(m.no, m.aad, n) /\ r = OcbAuthenticate(g, inp)
        /\ r.h.dead = FALSE
    BY <2>1, <2>2, <1>2, <1>3, <1>4, <1>5
  <2>4. OcbAdded(g, r, x)
    BY ONLY <2>3, OcbAadWhole
  <2> QED BY <2>1, <2>4 DEF OcbAdded
<1>6. OcbSafe(h', msg')
  <2> USE DEF OcbSafe
  <2>1. CASE r.ok
    BY <2>1, <1>1, <1>2, <1>4, <1>5
  <2>2. CASE ~r.ok
    BY <2>2, <1>1, <1>4, <1>5
  <2> QED BY <2>1, <2>2
<1> QED BY <1>1, <1>6, OcbQuiet

\* gcry_cipher_encrypt and gcry_cipher_decrypt
LEMMA OcbCryptGood ==
  ASSUME mode = "ocb", IsHandle(h), DOMAIN msg = MsgFields, OcbGood(h, msg, last),
         NEW n \in Nat, NEW way \in {"encrypt", "decrypt"}, DoCrypt(n, way)
  PROVE  OcbGood(h', msg', last')
<1> DEFINE m == [Current EXCEPT !.way = way]
           inp == DataBytes(m.no, m.data, n)
           enc == way = "encrypt"
           r == OcbCrypt(h, inp, enc)
           x == [m EXCEPT !.data = @ + n, !.used = @]
<1>0. Current = msg
  BY DEF Current, AutoIv
<1>i. r.h.iv = h.iv /\ r.h.dead = h.dead
  <2>1. r.h = h \/ (IsHandle(r.h) /\ r.h.iv = h.iv /\ r.h.dead = h.dead)
    BY DEF OcbCrypt, Refused, Result, IsHandle, Fields
  <2> QED BY <2>1
<1>1. /\ h' = r.h /\ msg.way \in {"none", way}
      /\ msg' = IF r.ok THEN x ELSE msg
      /\ last' = IF r.ok THEN [op |-> way, ok |-> r.ok, value |-> r.out, tag |-> h.tagiv]
                 ELSE Nothing
  <2>0. mode \notin OneShot /\ mode \in OneShot \cup {"ocb"}
    BY DEF OneShot
  <2>1. Input(m, n) = inp
    BY <2>0 DEF Input
  <2>2. Crypt(h, inp, enc) = r
    BY DEF Crypt
  <2>3. Crypted(m, n, r) = IF r.ok THEN x ELSE msg
    <3> HIDE DEF r, m
    <3> QED BY <2>0, <1>i DEF Crypted
  <2> HIDE DEF r, inp
  <2>4. /\ h' = r.h /\ msg.way \in {"none", way} /\ msg' = Crypted(m, n, r)
        /\ last' = IF r.ok \/ (mode \in OneShot /\ way = "decrypt")
                   THEN [op |-> way, ok |-> r.ok, value |-> r.out, tag |-> h.tagiv]
                   ELSE Nothing
    <3>1. /\ h' = r.h /\ Current.way \in {"none", way} /\ msg' = Crypted(m, n, r)
          /\ last' = IF r.ok \/ (mode \in OneShot /\ way = "decrypt")
                     THEN [op |-> way, ok |-> r.ok, value |-> r.out, tag |-> h.tagiv]
                     ELSE Nothing
      BY <2>1, <2>2, Zenon DEF DoCrypt
    <3> QED BY <3>1, <1>0
  <2> QED BY <2>0, <2>3, <2>4
<1>2. Turns(msg, m, way) /\ m.whole = msg.whole /\ m.taglen = msg.taglen /\ DOMAIN m = MsgFields
      /\ m.way = way
  BY <1>0 DEF Turns, MsgFields
<1> HIDE DEF m
<1>3. r = OcbCrypt(h, inp, enc) /\ inp = DataBytes(m.no, m.data, n) /\ enc = (m.way = "encrypt")
  BY <1>2
<1> HIDE DEF r, inp, enc
<1>4. OcbMore(m, x, n) /\ x.whole = m.whole
  BY <1>2 DEF OcbMore, MsgFields
<1> HIDE DEF x
<1>5. h.dead \in BOOLEAN /\ (h.dead = FALSE /\ msg.whole => OcbWhole(h, msg))
  BY DEF OcbGood, OcbSafe
<1>6. ASSUME h.dead = FALSE, msg.whole
      PROVE  (r.ok => OcbWhole(r.h, x) /\ Returns(x, r.out)) /\ (~r.ok => r.h = h)
  <2>1. PICK g, c, y : g = h /\ c = msg /\ y = m
    OBVIOUS
  <2>2. OcbWhole(g, y)
    <3>1. /\ mode = "ocb" /\ OcbWhole(g, c) /\ way \in {"encrypt", "decrypt"}
          /\ c.way \in {"none", way} /\ Turns(c, y, way) /\ y.taglen = c.taglen
      BY <2>1, <1>1, <1>2, <1>5, <1>6
    <3> QED BY ONLY <3>1, OcbWay
  <2>3. /\ mode = "ocb" /\ IsHandle(g) /\ OcbWhole(g, y) /\ y.way \in {"encrypt", "decrypt"}
        /\ n \in Nat /\ OcbMore(y, x, n) /\ inp = DataBytes(y.no, y.data, n)
        /\ enc = (y.way = "encrypt") /\ r = OcbCrypt(g, inp, enc)
    BY <2>1, <2>2, <1>2, <1>3, <1>4
  <2>4. OcbCrypts(g, r, x)
    BY ONLY <2>3, OcbCryptWhole
  <2> QED BY <2>1, <2>4 DEF OcbCrypts
<1>7. CASE r.ok
  <2>1. /\ msg' = x /\ h' = r.h
        /\ last' = [op |-> way, ok |-> r.ok, value |-> r.out, tag |-> h.tagiv]
    BY <1>1, <1>7
  <2>2. last'.op = way /\ last'.value = r.out
    BY <2>1
  <2>3. h.dead = FALSE /\ x.whole => OcbWhole(r.h, x) /\ Returns(x, r.out)
    BY <1>2, <1>4, <1>6, <1>7
  <2>4. way # "gettag" /\ way # "checktag"
    OBVIOUS
  <2>5. h.dead = FALSE /\ x.whole /\ x.clean => Says(x, last')
    BY <2>2, <2>3, <2>4 DEF Returns, Says
  <2> QED BY <2>1, <2>3, <2>5, <1>i, <1>5 DEF OcbGood, OcbSafe
<1>8. CASE ~r.ok
  <2>1. msg' = msg /\ h' = r.h /\ last' = Nothing
    BY <1>1, <1>8
  <2>2. OcbSafe(r.h, msg)
    BY <1>i, <1>5, <1>6, <1>8 DEF OcbSafe
  <2> QED BY <2>1, <2>2, OcbQuiet
<1> QED BY <1>7, <1>8

\* gcry_cipher_gettag and gcry_cipher_checktag.  l is what the call returns.
LEMMA OcbTagGood ==
  ASSUME mode = "ocb", IsHandle(h), OcbGood(h, msg, last), NEW check,
         NEW r, r = MakeTag(h, check), NEW l,
         \/ ~r.ok /\ l = Nothing
         \/ r.ok /\ l.op = "gettag" /\ l.value = r.h.val
         \/ r.ok /\ l.op = "checktag" /\ (l.ok => r.h.val = l.value)
  PROVE  OcbGood(r.h, msg, l)
<1>1. r = OcbTag(h)
  BY DEF MakeTag
<1>2. r.h.dead = h.dead
  BY <1>1, OcbTagKeeps
<1>3. h.dead \in BOOLEAN /\ (h.dead = FALSE /\ msg.whole => OcbWhole(h, msg))
  BY DEF OcbGood, OcbSafe
<1>4. h.dead = FALSE /\ msg.whole => OcbTagged(h, r, msg)
  BY <1>1, <1>3, OcbTagWhole
<1>5. h.dead = FALSE /\ msg.whole => OcbWhole(r.h, msg) /\ (r.ok => r.h.val = Tag(msg))
  BY <1>3, <1>4 DEF OcbTagged
<1>6. h.dead = FALSE /\ msg.whole => Says(msg, l)
  BY <1>5 DEF Says, Nothing
<1> QED BY <1>2, <1>3, <1>5, <1>6 DEF OcbGood, OcbSafe

\* GCRYCTL_FINALIZE and GCRYCTL_SET_TAGLEN: neither flag says anything of the message
\* that is under way.
LEMMA OcbCtlGood ==
  ASSUME NEW g, NEW m, NEW x, Same(g, x, {"fin"}) \/ Same(g, x, {"taglen"}),
         OcbSafe(g, m)
  PROVE  OcbGood(x, m, Nothing)
<1>1. /\ x.iv = g.iv /\ x.tag = g.tag /\ x.keyno = g.keyno /\ x.ctr = g.ctr
      /\ x.datalen = g.datalen /\ x.offset = g.offset /\ x.mac = g.mac /\ x.datafin = g.datafin
      /\ x.aadfin = g.aadfin /\ x.val = g.val /\ x.aad = g.aad /\ x.aadlen = g.aadlen
      /\ x.aadoffset = g.aadoffset /\ x.dead = g.dead
  BY DEF Same, Fields
<1>2. OcbGoesOn(g, m) => OcbGoesOn(x, m)
  BY <1>1 DEF OcbGoesOn
<1>3. AadAt(g, AadOf(m)) => AadAt(x, AadOf(m))
  BY <1>1 DEF AadAt, SummedUp
<1>4. OcbWhole(g, m) => OcbWhole(x, m)
  BY <1>1, <1>2, <1>3 DEF OcbWhole
<1>5. OcbSafe(x, m)
  BY <1>1, <1>4 DEF OcbSafe
<1> QED BY <1>5, OcbQuiet

\* The invariant holds of an opened handle.
LEMMA OcbInit == Init => OcbInv
<1> SUFFICES ASSUME Init PROVE OcbInv
  OBVIOUS
<1>1. PICK fips \in BOOLEAN : h = [Opened EXCEPT !.fips = fips]
  BY DEF Init
<1>2. h.key = FALSE /\ h.dead = FALSE
  BY <1>1 DEF Opened
<1>3. msg.whole = FALSE
  BY <1>2 DEF Init, Message
<1> QED BY <1>2, <1>3 DEF OcbInv, OcbGood, OcbSafe

\* Every call keeps it.
LEMMA OcbNext == GenInv /\ OcbInv /\ [Next]_vars => OcbInv'
<1> SUFFICES ASSUME GenInv, OcbInv, [Next]_vars PROVE OcbInv'
  OBVIOUS
<1>a. IsHandle(h) /\ DOMAIN msg = MsgFields
  BY DEF GenInv
<1>m. mode' = mode
  BY DEF Next, SetKey, SetBadKey, SetEmptyIv, GenIv, GetTag, Finalize, Reset, SetIv, DoAuthenticate,
         DoCrypt, CheckTag, SetLengths, SetTaglen, SetDecryptionTag, vars
<1>b. CASE mode # "ocb"
  BY <1>m, <1>b DEF OcbInv
<1>c. CASE mode = "ocb"
  <2>0. OcbGood(h, msg, last) /\ OcbSafe(h, msg) /\ h.dead \in BOOLEAN
    BY <1>c DEF OcbInv, OcbGood, OcbSafe
  <2>p. OcbGood(h', msg', last') => OcbInv'
    BY <1>c, <1>m, OcbPrimed
  <2>q. mode \notin OneShot /\ Current = msg
    BY <1>c DEF OneShot, Current, AutoIv
  <2>w. ~msg'.whole /\ h'.dead \in BOOLEAN => OcbGood(h', msg', last')
    BY DEF OcbGood, OcbSafe
  <2>1. CASE SetKey
    <3>1. msg' = [msg EXCEPT !.whole = FALSE] /\ h' = [h EXCEPT !.keyno = @ + 1, !.key = TRUE]
      BY <2>1, <1>c, <2>q DEF SetKey, NextMessage, Rekeyed
    <3>2. h'.dead = h.dead /\ msg'.whole = FALSE
      BY <3>1, <1>a DEF MsgFields, IsHandle, Fields
    <3> QED BY <3>2, <2>0, <2>p, <2>w
  <2>2. CASE SetBadKey
    <3>1. msg' = [msg EXCEPT !.whole = FALSE] /\ h' = [h EXCEPT !.key = FALSE]
      BY <2>2, <1>c DEF SetBadKey
    <3>2. h'.dead = h.dead /\ msg'.whole = FALSE
      BY <3>1, <1>a DEF MsgFields, IsHandle, Fields
    <3> QED BY <3>2, <2>0, <2>p, <2>w
  <2>3. CASE GenIv \/ SetEmptyIv
    BY <2>3, <1>c DEF GenIv, SetEmptyIv
  <2>4. CASE GetTag
    <3> DEFINE r == MakeTag(h, FALSE)
    <3>1. /\ h' = r.h /\ msg' = msg
          /\ last' = IF r.ok THEN Returned("gettag", TRUE, r.h.val) ELSE Nothing
      <4>1. MakeTag(h, FALSE) = r
        OBVIOUS
      <4> HIDE DEF r
      <4>2. /\ h' = r.h /\ msg' = IF r.h.iv # h.iv THEN msg ELSE msg
            /\ last' = IF r.ok THEN Returned("gettag", TRUE, r.h.val) ELSE Nothing
        BY <4>1, <2>4, <2>q, Zenon DEF GetTag
      <4> QED BY <4>2
    <3>2. r = MakeTag(h, FALSE)
      OBVIOUS
    <3> HIDE DEF r
    <3>3. \/ ~r.ok /\ last' = Nothing
          \/ r.ok /\ last'.op = "gettag" /\ last'.value = r.h.val
      BY <3>1 DEF Returned
    <3>4. OcbGood(r.h, msg, last')
      BY <3>2, <3>3, <2>0, <1>a, <1>c, OcbTagGood
    <3> QED BY <3>1, <3>4, <2>p
  <2>5. CASE Finalize
    <3>1. h' = [h EXCEPT !.fin = TRUE] /\ msg' = msg /\ last' = Nothing
      BY <2>5 DEF Finalize
    <3>2. Same(h, h', {"fin"})
      BY <3>1, <1>a DEF Same, IsHandle, Fields
    <3>3. OcbGood(h', msg', last')
      BY <3>1, <3>2, <2>0, OcbCtlGood
    <3> QED BY <3>3, <2>p
  <2>6. CASE Reset
    <3>1. msg' = Forgotten([msg EXCEPT !.whole = FALSE]) /\ h' = WasReset(h)
      BY <2>6, <1>c DEF Reset, NextMessage
    <3>2. h'.dead = FALSE /\ msg'.whole = FALSE
      BY <3>1, <1>a DEF MsgFields, Forgotten, WasReset, Opened
    <3> QED BY <3>2, <2>p, <2>w
  <2>7. ASSUME NEW hashed \in BOOLEAN, SetIv(hashed) PROVE OcbInv'
    BY <2>7, <2>0, <2>p, <1>a, <1>c, OcbSetIvGood
  <2>8. ASSUME NEW n \in AadChunks, DoAuthenticate(n) PROVE OcbInv'
    <3>1. n \in Nat
      BY HandleAssumption
    <3> QED BY <3>1, <2>8, <2>0, <2>p, <1>a, <1>c, OcbAuthGood
  <2>9. ASSUME NEW n \in DataChunks, NEW way \in {"encrypt", "decrypt"}, DoCrypt(n, way)
        PROVE  OcbInv'
    <3>1. n \in Nat
      BY HandleAssumption
    <3> QED BY <3>1, <2>9, <2>0, <2>p, <1>a, <1>c, OcbCryptGood
  <2>10. ASSUME NEW forged \in BOOLEAN, CheckTag(forged) PROVE OcbInv'
    <3> DEFINE r == MakeTag(h, TRUE)
    <3>1. PICK tag : /\ h' = r.h /\ msg' = msg
                     /\ last' = IF r.ok THEN Returned("checktag", r.h.val = tag, tag)
                                ELSE Nothing
      <4>1. MakeTag(h, TRUE) = r
        OBVIOUS
      <4> HIDE DEF r
      <4>2. \E tag : /\ h' = r.h /\ msg' = IF r.h.iv # h.iv THEN msg ELSE msg
                     /\ last' = IF r.ok THEN Returned("checktag", r.h.val = tag, tag)
                                ELSE Nothing
        BY <4>1, <2>10, <2>q, Zenon DEF CheckTag
      <4> QED BY <4>2
    <3>2. r = MakeTag(h, TRUE)
      OBVIOUS
    <3> HIDE DEF r
    <3>3. \/ ~r.ok /\ last' = Nothing
          \/ r.ok /\ last'.op = "checktag" /\ (last'.ok => r.h.val = last'.value)
      BY <3>1 DEF Returned
    <3>4. OcbGood(r.h, msg, last')
      BY <3>2, <3>3, <2>0, <1>a, <1>c, OcbTagGood
    <3> QED BY <3>1, <3>4, <2>p
  <2>11. ASSUME NEW data \in DataChunks, NEW aad \in AadChunks, SetLengths(data, aad)
         PROVE  OcbInv'
    BY <2>11, <1>c DEF SetLengths
  <2>12. ASSUME NEW n \in {8, 16}, SetTaglen(n) PROVE OcbInv'
    <3>1. h' = [h EXCEPT !.taglen = n] /\ msg' = msg /\ last' = Nothing
      BY <2>12 DEF SetTaglen
    <3>2. Same(h, h', {"taglen"})
      BY <3>1, <1>a DEF Same, IsHandle, Fields
    <3>3. OcbGood(h', msg', last')
      BY <3>1, <3>2, <2>0, OcbCtlGood
    <3> QED BY <3>3, <2>p
  <2>13. ASSUME NEW n \in DataChunks, NEW forged \in BOOLEAN, SetDecryptionTag(n, forged)
         PROVE  OcbInv'
    BY <2>13, <2>q DEF SetDecryptionTag
  <2>14. CASE UNCHANGED vars
    <3>1. h' = h /\ msg' = msg /\ last' = last
      BY <2>14 DEF vars
    <3> QED BY <3>1, <2>0, <2>p
  <2> QED BY <2>1, <2>2, <2>3, <2>4, <2>5, <2>6, <2>7, <2>8, <2>9, <2>10, <2>11,
             <2>12, <2>13, <2>14 DEF Next
<1> QED BY <1>b, <1>c

-----------------------------------------------------------------------------
(* The theorems *)

\* A CCM, EAX or ChaCha20-Poly1305 message comes out as the mode defines it, and so does
\* its tag, however it is cut into calls: the encrypt and decrypt routines keep to the key
\* stream, and do_cbc_mac, _gcry_cmac_write and _gcry_poly1305_update take in the AAD and
\* the text, each padded once, whatever pieces they come in.  Exact asks of the caller, in
\* EAX, that the data before came to whole blocks, in CCM, no AAD call after the data, and
\* nothing in ChaCha20-Poly1305.
THEOREM CipherWideExact == Spec => [](mode \in Wide => Exact)
<1>1. GenInv /\ RestInv /\ WideInv => (mode \in Wide => Exact)
  BY WideSays
<1>2. GenInv /\ RestInv /\ WideInv /\ [Next]_vars => (GenInv /\ RestInv /\ WideInv)'
  BY GenNext, RestNext, WideNext
<1> QED BY <1>1, <1>2, GenInit, RestInit, WideInit, PTL DEF Spec

\* Their check_tag routines accept only the tag of the message that was decrypted.
THEOREM CipherWideVerified == Spec => [](mode \in Wide => Verified)
<1>1. GenInv /\ RestInv /\ WideInv => (mode \in Wide => Verified)
  BY WideSays
<1>2. GenInv /\ RestInv /\ WideInv /\ [Next]_vars => (GenInv /\ RestInv /\ WideInv)'
  BY GenNext, RestNext, WideNext
<1> QED BY <1>1, <1>2, GenInit, RestInit, WideInit, PTL DEF Spec

\* In CCM and ChaCha20-Poly1305 no byte of the key stream encrypts two bytes of a message
\* of any length; in EAX neither, of a message that found no part of a counter block left.
THEOREM CipherWideStreamOnce ==
  Spec => [](mode \in Wide /\ (mode = "eax" => msg.clean) => StreamOnce)
<1>1. GenInv /\ RestInv /\ WideInv => (mode \in Wide /\ (mode = "eax" => msg.clean) => StreamOnce)
  BY WideStreamOnce
<1>2. GenInv /\ RestInv /\ WideInv /\ [Next]_vars => (GenInv /\ RestInv /\ WideInv)'
  BY GenNext, RestNext, WideNext
<1> QED BY <1>1, <1>2, GenInit, RestInit, WideInit, PTL DEF Spec

\* A SIV or GCM-SIV message comes out as the mode defines it, and so does its tag,
\* however its AAD is cut into calls: _gcry_cipher_siv_encrypt and
\* _gcry_cipher_gcm_siv_encrypt key the counter by the tag over the AAD and the plaintext,
\* and the decrypt routines by the tag they were given.  For a GCM-SIV handle that is so
\* whatever it was used for before.  For a SIV handle that got a new key without a
\* gcry_cipher_reset it is so only if the data since the reset came to whole blocks (RestInv:
\* what is left of the counter block is what the data lacks), and is not otherwise.
THEOREM CipherShotExact == Spec => [](mode \in OneShot => Exact)
<1>1. GenInv /\ RestInv /\ ShotInv => (mode \in OneShot => Exact)
  BY ShotSaysAll
<1>2. GenInv /\ RestInv /\ ShotInv /\ [Next]_vars => (GenInv /\ RestInv /\ ShotInv)'
  BY GenNext, RestNext, ShotNext
<1> QED BY <1>1, <1>2, GenInit, RestInit, ShotInit, PTL DEF Spec

\* _gcry_cipher_siv_decrypt and _gcry_cipher_gcm_siv_decrypt succeed only for the tag of
\* the message that was decrypted, and wipe the plaintext they made for any other.  So does
\* _gcry_cipher_siv_check_tag, refused decryptions included; of
\* _gcry_cipher_gcm_siv_check_tag it is said only where no decryption was refused before.
THEOREM CipherShotVerified == Spec => [](mode \in OneShot => Verified)
<1>1. GenInv /\ RestInv /\ ShotInv => (mode \in OneShot => Verified)
  BY ShotSaysAll
<1>2. GenInv /\ RestInv /\ ShotInv /\ [Next]_vars => (GenInv /\ RestInv /\ ShotInv)'
  BY GenNext, RestNext, ShotNext
<1> QED BY <1>1, <1>2, GenInit, RestInit, ShotInit, PTL DEF Spec

\* An OCB message comes out as the mode defines it, and so does its tag, however its AAD
\* and its data are cut into calls and whatever the handle was used for before: the AAD
\* left over for the next call of _gcry_cipher_ocb_authenticate, the blocks counted across
\* the calls of ocb_crypt and the last part after GCRYCTL_FINALIZE give the offsets and
\* the sums of the whole message.  It is said of the process as long as it lives: the
\* assertion of ocb_get_L_big may end it.
THEOREM CipherOcbExact == Spec => [](mode = "ocb" /\ NoAssertion => Exact)
<1>1. GenInv /\ OcbInv => (mode = "ocb" /\ NoAssertion => Exact)
  BY OcbSays DEF NoAssertion
<1>2. GenInv /\ OcbInv /\ [Next]_vars => (GenInv /\ OcbInv)'
  BY GenNext, OcbNext
<1> QED BY <1>1, <1>2, GenInit, OcbInit, PTL DEF Spec

\* _gcry_cipher_ocb_check_tag accepts only the tag of the message that was decrypted.
THEOREM CipherOcbVerified == Spec => [](mode = "ocb" /\ NoAssertion => Verified)
<1>1. GenInv /\ OcbInv => (mode = "ocb" /\ NoAssertion => Verified)
  BY OcbSays DEF NoAssertion
<1>2. GenInv /\ OcbInv /\ [Next]_vars => (GenInv /\ OcbInv)'
  BY GenNext, OcbNext
<1> QED BY <1>1, <1>2, GenInit, OcbInit, PTL DEF Spec

\* The authenticated modes together: whatever the mode _gcry_cipher_setup_mode_ops set
\* up, output and tags are those the mode defines for the message, as long as the caller
\* leaves the message before as Clean says and, in CCM, gives no AAD after the data.  OCB,
\* ChaCha20-Poly1305 and GCM-SIV ask nothing of the kind (Clean is true).
THEOREM CipherExact == Spec => [](NoAssertion => Exact)
<1>1. GenInv => mode = "gcm" \/ mode \in Wide \/ mode \in OneShot \/ mode = "ocb"
  BY HandleAssumption DEF GenInv, Wide, OneShot
<1>2. GenInv /\ [Next]_vars => GenInv'
  BY GenNext
<1> QED BY <1>1, <1>2, GenInit, CipherGcmExact, CipherWideExact, CipherShotExact,
           CipherOcbExact, PTL DEF Spec

\* And whatever the mode, under the same conditions, no other tag is accepted, and a
\* one-shot decryption that is refused lets no plaintext out.  The one check that is left
\* out follows a refused GCM-SIV decryption: it compares with the tag the caller gave.
THEOREM CipherVerified == Spec => [](NoAssertion => Verified)
<1>1. GenInv => mode = "gcm" \/ mode \in Wide \/ mode \in OneShot \/ mode = "ocb"
  BY HandleAssumption DEF GenInv, Wide, OneShot
<1>2. GenInv /\ [Next]_vars => GenInv'
  BY GenNext
<1> QED BY <1>1, <1>2, GenInit, CipherGcmVerified, CipherWideVerified, CipherShotVerified,
           CipherOcbVerified, PTL DEF Spec
=============================================================================
