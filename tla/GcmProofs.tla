----------------------------- MODULE GcmProofs -----------------------------
(***************************************************************************)
(* About the collectors of BlockBuffer and the handle of CipherHandle, for *)
(* any length of a block, any sizes of the parts and any number of keys,   *)
(* messages and calls: what all modes have in common (sequences, blocks,   *)
(* collectors, the frame of the routines), the generated IVs of FIPS mode, *)
(* and of GCM what a message's output, its tag and its key stream are, and *)
(* that the assertion of gcm_ctr_encrypt holds.  CipherProofs goes on with *)
(* the other modes.                                                        *)
(***************************************************************************)
EXTENDS CipherHandle, TLAPS, SequenceTheorems, FiniteSetTheorems

(* Sequences, by their elements *)

\* s is a sequence, of whatever.
IsSeq(s) == s \in Seq({s[i] : i \in 1..Len(s)})

\* Every member of a Seq is a sequence over its own elements.
LEMMA SeqIs ==
  ASSUME NEW S, NEW s \in Seq(S)
  PROVE  IsSeq(s) /\ Len(s) \in Nat /\ DOMAIN s = 1..Len(s)
  BY DEF IsSeq

\* The length of a sequence and its domain.
LEMMA IsSeqLen ==
  ASSUME NEW s, IsSeq(s)
  PROVE  Len(s) \in Nat /\ DOMAIN s = 1..Len(s)
  BY DEF IsSeq

\* A sequence whose elements are in S is a sequence over S.
LEMMA InSeq ==
  ASSUME NEW s, IsSeq(s), NEW S, \A i \in 1..Len(s) : s[i] \in S
  PROVE  s \in Seq(S)
  BY DEF IsSeq

\* A function on 1..n is a sequence of length n.
LEMMA SeqFcn ==
  ASSUME NEW n \in Nat, NEW s, DOMAIN s = 1..n, s = [i \in 1..n |-> s[i]]
  PROVE  IsSeq(s) /\ Len(s) = n
<1> DEFINE S == {s[i] : i \in 1..n}
<1>1. s \in [1..n -> S]
  OBVIOUS
<1>2. s \in Seq(S)
  BY <1>1
<1>3. Len(s) = n
  BY <1>1, <1>2
<1> QED BY <1>2, <1>3 DEF IsSeq

\* Two sequences with the same elements are the same.
LEMMA SeqSame ==
  ASSUME NEW s, IsSeq(s), NEW t, IsSeq(t), Len(s) = Len(t),
         \A i \in 1..Len(s) : s[i] = t[i]
  PROVE  s = t
<1> DEFINE S == {s[i] : i \in 1..Len(s)} \cup {t[i] : i \in 1..Len(t)}
<1>1. s \in Seq(S) /\ t \in Seq(S)
  BY InSeq DEF IsSeq
<1> HIDE DEF S
<1> QED BY <1>1, SeqEqual

\* The elements of a concatenation.
LEMMA ConcatIs ==
  ASSUME NEW s, IsSeq(s), NEW t, IsSeq(t)
  PROVE  /\ IsSeq(s \o t) /\ Len(s \o t) = Len(s) + Len(t)
         /\ \A i \in 1..(Len(s) + Len(t)) :
              (s \o t)[i] = IF i <= Len(s) THEN s[i] ELSE t[i - Len(s)]
<1> DEFINE S == {s[i] : i \in 1..Len(s)} \cup {t[i] : i \in 1..Len(t)}
<1>1. s \in Seq(S) /\ t \in Seq(S)
  BY InSeq DEF IsSeq
<1> HIDE DEF S
<1> QED BY <1>1, ConcatProperties, SeqIs

\* The elements of a part of a sequence.
LEMMA SubSeqIs ==
  ASSUME NEW s, IsSeq(s), NEW m \in Nat \ {0}, NEW n \in Nat, m <= n + 1, n <= Len(s)
  PROVE  /\ IsSeq(SubSeq(s, m, n)) /\ Len(SubSeq(s, m, n)) = n - m + 1
         /\ \A i \in 1..(n - m + 1) : SubSeq(s, m, n)[i] = s[m + i - 1]
<1> DEFINE S == {s[i] : i \in 1..Len(s)}
<1>1. s \in Seq(S)
  BY InSeq DEF IsSeq
<1>2. Len(s) \in Nat
  BY IsSeqLen
<1> HIDE DEF S
<1>3. SubSeq(s, m, n) \in Seq(S)
  BY <1>1, <1>2, SubSeqProperties
<1>4. Len(SubSeq(s, m, n)) = IF m <= n THEN n - m + 1 ELSE 0
  BY <1>1, <1>2, SubSeqProperties
<1>5. \A i \in 1..(n - m + 1) : SubSeq(s, m, n)[i] = s[m + i - 1]
  BY <1>1, <1>2, SubSeqProperties
<1>6. Len(SubSeq(s, m, n)) = n - m + 1
  BY <1>4
<1> QED BY <1>3, <1>5, <1>6, SeqIs

\* The empty sequence is the only one of length 0.
LEMMA EmptyIs == IsSeq(<<>>) /\ Len(<<>>) = 0 /\ \A s : IsSeq(s) /\ Len(s) = 0 => s = <<>>
<1>1. IsSeq(<<>>) /\ Len(<<>>) = 0
  <2>1. <<>> \in Seq({1})
    BY EmptySeq
  <2> QED BY <2>1, EmptySeq, SeqIs
<1>2. ASSUME NEW s, IsSeq(s), Len(s) = 0 PROVE s = <<>>
  BY <1>1, <1>2, SeqSame
<1> QED BY <1>1, <1>2

\* Nothing in front or behind changes nothing.
LEMMA ConcatEmpty ==
  ASSUME NEW s, IsSeq(s)
  PROVE  <<>> \o s = s /\ s \o <<>> = s
  BY ConcatEmptySeq DEF IsSeq

\* Concatenation is associative.
LEMMA ConcatAssoc ==
  ASSUME NEW s, IsSeq(s), NEW t, IsSeq(t), NEW u, IsSeq(u)
  PROVE  (s \o t) \o u = s \o (t \o u)
<1>1. \A x, y : IsSeq(x) /\ IsSeq(y) =>
         /\ IsSeq(x \o y) /\ Len(x \o y) = Len(x) + Len(y)
         /\ \A i \in 1..(Len(x) + Len(y)) :
              (x \o y)[i] = IF i <= Len(x) THEN x[i] ELSE y[i - Len(x)]
  BY ConcatIs
<1> DEFINE p == (s \o t) \o u
           q == s \o (t \o u)
<1>2. IsSeq(p) /\ IsSeq(q) /\ Len(p) = Len(q)
  BY <1>1, IsSeqLen
<1>3. ASSUME NEW i \in 1..Len(p) PROVE p[i] = q[i]
  BY <1>1, IsSeqLen
<1> HIDE DEF p, q
<1>4. p = q
  BY <1>2, <1>3, SeqSame
<1> QED BY <1>4 DEF p, q

\* First and Behind cut a sequence in two.
LEMMA FirstIs ==
  ASSUME NEW s, IsSeq(s), NEW n \in 0..Len(s)
  PROVE  /\ IsSeq(First(s, n)) /\ Len(First(s, n)) = n
         /\ \A i \in 1..n : First(s, n)[i] = s[i]
         /\ IsSeq(Behind(s, n)) /\ Len(Behind(s, n)) = Len(s) - n
         /\ \A i \in 1..(Len(s) - n) : Behind(s, n)[i] = s[n + i]
         /\ First(s, n) \o Behind(s, n) = s
<1>1. Len(s) \in Nat
  BY IsSeqLen
<1>2. /\ IsSeq(First(s, n)) /\ Len(First(s, n)) = n
      /\ \A i \in 1..n : First(s, n)[i] = s[i]
  BY <1>1, SubSeqIs DEF First
<1>3. /\ IsSeq(Behind(s, n)) /\ Len(Behind(s, n)) = Len(s) - n
      /\ \A i \in 1..(Len(s) - n) : Behind(s, n)[i] = s[n + i]
  BY <1>1, SubSeqIs DEF Behind
<1>4. First(s, n) \o Behind(s, n) = s
  <2> DEFINE u == First(s, n) \o Behind(s, n)
  <2>1. /\ IsSeq(u) /\ Len(u) = Len(s)
        /\ \A i \in 1..Len(s) :
             u[i] = IF i <= n THEN First(s, n)[i] ELSE Behind(s, n)[i - n]
    BY <1>1, <1>2, <1>3, ConcatIs
  <2>2. \A i \in 1..Len(s) : u[i] = s[i]
    BY <1>1, <1>2, <1>3, <2>1
  <2> HIDE DEF u
  <2>3. u = s
    BY <2>1, <2>2, SeqSame
  <2> QED BY <2>3 DEF u
<1> QED BY <1>2, <1>3, <1>4

-----------------------------------------------------------------------------
(* Bytes in blocks *)

\* Quotient and rest exist.
LEMMA DivMod ==
  ASSUME NEW n \in Nat, NEW d \in Nat \ {0}
  PROVE  \E q \in Nat, r \in 0..(d - 1) :
            n = d * q + r /\ n \div d = q /\ n % d = r
<1>1. n \div d \in Nat /\ n % d \in 0..(d - 1) /\ n = d * (n \div d) + (n % d)
  OBVIOUS
<1> QED BY <1>1

\* Quotient and rest are unique.
LEMMA DivUnique ==
  ASSUME NEW n \in Nat, NEW q \in Nat, NEW d \in Nat \ {0}, NEW r \in 0..(d - 1),
         n = d * q + r
  PROVE  n \div d = q /\ n % d = r
<1>1. (d * q + r) \div d = q /\ (d * q + r) % d = r
  OBVIOUS
<1> QED BY <1>1

\* The little that is needed of multiplication.
LEMMA MultAdd ==
  ASSUME NEW d \in Nat, NEW a \in Int, NEW b \in Int
  PROVE  d * (a + b) = d * a + d * b /\ d * a \in Int /\ (a >= 0 => d * a >= 0)
         /\ d * a = a * d
  OBVIOUS

\* Byte j of block i is among the bytes of q blocks.
LEMMA IndexIn ==
  ASSUME NEW d \in Nat \ {0}, NEW q \in Nat, NEW i \in 1..q, NEW j \in 1..d
  PROVE  d * (i - 1) + j \in 1..(d * q)
<1>1. d * (i - 1) \in Nat /\ d * i = d * (i - 1) + d /\ d * i <= d * q
  OBVIOUS
<1>2. d * q \in Nat
  OBVIOUS
<1> QED BY <1>1, <1>2

\* The quotient and the rest of the length of s.
Divided(s, q, r) == q \in Nat /\ r \in 0..(BlockLen - 1) /\ Len(s) = BlockLen * q + r

\* Every sequence is some blocks and less than one more.
LEMMA Dividing ==
  ASSUME NEW s, IsSeq(s)
  PROVE  \E q, r : /\ Divided(s, q, r)
                   /\ Len(s) \div BlockLen = q /\ Len(s) % BlockLen = r
  BY IsSeqLen, DivMod, BlockLenAssumption DEF Divided

\* The bytes of the blocks of s and of the rest.
LEMMA BlocksIs ==
  ASSUME NEW s, IsSeq(s), NEW q, NEW r, Divided(s, q, r)
  PROVE  /\ IsSeq(FullBlocks(s)) /\ Len(FullBlocks(s)) = q
         /\ \A i \in 1..q :
              /\ IsSeq(FullBlocks(s)[i]) /\ Len(FullBlocks(s)[i]) = BlockLen
              /\ \A j \in 1..BlockLen :
                   FullBlocks(s)[i][j] = s[BlockLen * (i - 1) + j]
         /\ IsSeq(Tail0(s)) /\ Len(Tail0(s)) = r
         /\ \A j \in 1..r : Tail0(s)[j] = s[BlockLen * q + j]
<1>1. Len(s) \in Nat /\ q \in Nat /\ r \in 0..(BlockLen - 1)
      /\ Len(s) = BlockLen * q + r
  BY IsSeqLen DEF Divided
<1>0. Len(s) \div BlockLen = q
  BY <1>1, DivUnique, BlockLenAssumption
<1>2. IsSeq(FullBlocks(s)) /\ Len(FullBlocks(s)) = q
  BY <1>1, <1>0, SeqFcn DEF FullBlocks
<1>3. ASSUME NEW i \in 1..q
      PROVE  /\ IsSeq(FullBlocks(s)[i]) /\ Len(FullBlocks(s)[i]) = BlockLen
             /\ \A j \in 1..BlockLen :
                   FullBlocks(s)[i][j] = s[BlockLen * (i - 1) + j]
  <2>1. FullBlocks(s)[i] = SubSeq(s, (i - 1) * BlockLen + 1, i * BlockLen)
    BY <1>0 DEF FullBlocks
  <2>2. BlockLen * i <= BlockLen * q /\ BlockLen * i = BlockLen * (i - 1) + BlockLen
        /\ BlockLen * (i - 1) \in Nat
    BY <1>1, <1>3, BlockLenAssumption
  <2>3. (i - 1) * BlockLen = BlockLen * (i - 1) /\ i * BlockLen = BlockLen * i
    BY <1>1, BlockLenAssumption
  <2>4. BlockLen * i <= Len(s)
    BY <1>1, <2>2, BlockLenAssumption
  <2> QED BY <1>1, <2>1, <2>2, <2>3, <2>4, SubSeqIs, BlockLenAssumption
<1>4. q * BlockLen = BlockLen * q /\ BlockLen * q \in 0..Len(s)
  BY <1>1, BlockLenAssumption
<1>5. Tail0(s) = Behind(s, BlockLen * q)
  BY <1>0, <1>4 DEF Tail0
<1>6. Len(s) - BlockLen * q = r
  BY <1>1, <1>4
<1>7. /\ IsSeq(Tail0(s)) /\ Len(Tail0(s)) = r
      /\ \A j \in 1..r : Tail0(s)[j] = s[BlockLen * q + j]
  <2>1. /\ IsSeq(Behind(s, BlockLen * q))
        /\ Len(Behind(s, BlockLen * q)) = Len(s) - BlockLen * q
        /\ \A j \in 1..(Len(s) - BlockLen * q) :
             Behind(s, BlockLen * q)[j] = s[BlockLen * q + j]
    BY <1>4, FirstIs
  <2> QED BY <1>5, <1>6, <2>1
<1> QED BY <1>2, <1>3, <1>7

\* A block is known by its bytes.
LEMMA BlockSame ==
  ASSUME NEW s, IsSeq(s), NEW q, NEW r, Divided(s, q, r),
         NEW t, IsSeq(t), NEW p, NEW x, Divided(t, p, x),
         NEW i \in 1..q, NEW k \in 1..p,
         \A j \in 1..BlockLen :
            s[BlockLen * (i - 1) + j] = t[BlockLen * (k - 1) + j]
  PROVE  FullBlocks(s)[i] = FullBlocks(t)[k]
<1>1. /\ IsSeq(FullBlocks(s)[i]) /\ Len(FullBlocks(s)[i]) = BlockLen
      /\ \A j \in 1..BlockLen : FullBlocks(s)[i][j] = s[BlockLen * (i - 1) + j]
  BY BlocksIs
<1>2. /\ IsSeq(FullBlocks(t)[k]) /\ Len(FullBlocks(t)[k]) = BlockLen
      /\ \A j \in 1..BlockLen : FullBlocks(t)[k][j] = t[BlockLen * (k - 1) + j]
  BY BlocksIs
<1>3. \A j \in 1..Len(FullBlocks(s)[i]) : FullBlocks(s)[i][j] = FullBlocks(t)[k][j]
  BY <1>1, <1>2
<1> QED BY ONLY <1>1, <1>2, <1>3, SeqSame

\* v starts with the blocks of s and goes on with u: its blocks are those of s
\* and then those of u, and what is left over is that of u.
LEMMA BlocksSplit ==
  ASSUME NEW v, IsSeq(v), NEW s, IsSeq(s), NEW u, IsSeq(u),
         NEW q, NEW r, Divided(s, q, r), Len(v) = BlockLen * q + Len(u),
         \A j \in 1..(BlockLen * q) : v[j] = s[j],
         \A j \in 1..Len(u) : v[BlockLen * q + j] = u[j]
  PROVE  FullBlocks(v) = FullBlocks(s) \o FullBlocks(u) /\ Tail0(v) = Tail0(u)
<1>1. PICK m, x : Divided(u, m, x)
  BY Dividing
<1> DEFINE w == FullBlocks(s) \o FullBlocks(u)
<1>2. q \in Nat /\ m \in Nat /\ x \in 0..(BlockLen - 1) /\ Len(u) = BlockLen * m + x
      /\ BlockLen \in Nat \ {0}
  BY <1>1, BlockLenAssumption DEF Divided
<1>0. BlockLen * (q + m) = BlockLen * q + BlockLen * m
      /\ BlockLen * m \in Nat /\ BlockLen * q \in Nat
  BY <1>2, MultAdd
<1>d. Divided(v, q + m, x)
  BY <1>0, <1>2 DEF Divided
<1>3. IsSeq(FullBlocks(v)) /\ Len(FullBlocks(v)) = q + m
  BY <1>d, BlocksIs
<1>s. IsSeq(FullBlocks(s)) /\ Len(FullBlocks(s)) = q
  BY BlocksIs
<1>u. IsSeq(FullBlocks(u)) /\ Len(FullBlocks(u)) = m
  BY <1>1, BlocksIs
<1>4. /\ IsSeq(w) /\ Len(w) = q + m
      /\ \A i \in 1..(q + m) : w[i] = IF i <= q THEN FullBlocks(s)[i]
                                      ELSE FullBlocks(u)[i - q]
  BY <1>s, <1>u, ConcatIs, ZenonT(60)
<1>5. ASSUME NEW i \in 1..(q + m) PROVE FullBlocks(v)[i] = w[i]
  <2>1. CASE i <= q
    <3>0. i \in 1..q
      BY <2>1, <1>2
    <3>1. ASSUME NEW j \in 1..BlockLen
          PROVE  BlockLen * (i - 1) + j \in 1..(BlockLen * q)
      BY <3>0, <1>2, IndexIn
    <3>2. \A j \in 1..BlockLen :
            v[BlockLen * (i - 1) + j] = s[BlockLen * (i - 1) + j]
      BY <3>1
    <3>3. FullBlocks(v)[i] = FullBlocks(s)[i]
      BY <3>0, <3>2, <1>d, BlockSame
    <3> QED BY <3>3, <2>1, <1>4
  <2>2. CASE ~(i <= q)
    <3>1. i - q \in 1..m
      BY <2>2, <1>2
    <3>2. ASSUME NEW j \in 1..BlockLen
          PROVE  v[BlockLen * (i - 1) + j] = u[BlockLen * ((i - q) - 1) + j]
      <4>1. BlockLen * (q + ((i - q) - 1)) = BlockLen * q + BlockLen * ((i - q) - 1)
            /\ BlockLen * ((i - q) - 1) \in Int
        BY <3>1, <1>2, MultAdd
      <4>2. BlockLen * ((i - q) - 1) + j \in 1..(BlockLen * m)
        BY <3>1, <1>2, IndexIn
      <4>3. BlockLen * ((i - q) - 1) + j \in 1..Len(u)
        BY <4>2, <1>2, <1>0
      <4>4. q + ((i - q) - 1) = i - 1
        BY <1>2
      <4>5. BlockLen * (i - 1) + j = BlockLen * q + (BlockLen * ((i - q) - 1) + j)
        BY <4>1, <4>4, <1>0
      <4> QED BY <4>3, <4>5
    <3>3. FullBlocks(v)[i] = FullBlocks(u)[i - q]
      BY <3>1, <3>2, <1>d, <1>1, BlockSame
    <3> QED BY <3>3, <2>2, <1>4
  <2> QED BY <2>1, <2>2
<1> HIDE DEF w
<1>6. FullBlocks(v) = w
  BY <1>3, <1>4, <1>5, SeqSame
<1>7. Tail0(v) = Tail0(u)
  <2>1. /\ IsSeq(Tail0(v)) /\ Len(Tail0(v)) = x
        /\ \A j \in 1..x : Tail0(v)[j] = v[BlockLen * (q + m) + j]
    BY <1>d, BlocksIs
  <2>2. /\ IsSeq(Tail0(u)) /\ Len(Tail0(u)) = x
        /\ \A j \in 1..x : Tail0(u)[j] = u[BlockLen * m + j]
    BY <1>1, BlocksIs
  <2>3. ASSUME NEW j \in 1..x
        PROVE  v[BlockLen * (q + m) + j] = u[BlockLen * m + j]
    <3>1. BlockLen * (q + m) + j = BlockLen * q + (BlockLen * m + j)
      BY <1>0, <1>2
    <3>2. BlockLen * m + j \in 1..Len(u)
      BY <1>0, <1>2
    <3> QED BY <3>1, <3>2
  <2> QED BY <2>1, <2>2, <2>3, SeqSame
<1> QED BY <1>6, <1>7 DEF w

\* Bytes that arrive in two parts: the blocks of the whole are those of the
\* first part and those of its rest with the second part behind it.  Everything
\* below about buffers rests on this.
LEMMA BlocksConcat ==
  ASSUME NEW s, IsSeq(s), NEW t, IsSeq(t)
  PROVE  /\ FullBlocks(s \o t) = FullBlocks(s) \o FullBlocks(Tail0(s) \o t)
         /\ Tail0(s \o t) = Tail0(Tail0(s) \o t)
<1>1. PICK q, r : Divided(s, q, r)
  BY Dividing
<1> DEFINE v == s \o t
           u == Tail0(s) \o t
<1>2. Len(s) \in Nat /\ Len(t) \in Nat /\ q \in Nat /\ r \in Nat
      /\ Len(s) = BlockLen * q + r /\ BlockLen * q \in Nat
  BY <1>1, IsSeqLen, MultAdd, BlockLenAssumption DEF Divided
<1>3. /\ IsSeq(v) /\ Len(v) = Len(s) + Len(t)
      /\ \A i \in 1..(Len(s) + Len(t)) : v[i] = IF i <= Len(s) THEN s[i] ELSE t[i - Len(s)]
  BY ConcatIs
<1>4. /\ IsSeq(Tail0(s)) /\ Len(Tail0(s)) = r
      /\ \A j \in 1..r : Tail0(s)[j] = s[BlockLen * q + j]
  BY <1>1, BlocksIs
<1>5. /\ IsSeq(u) /\ Len(u) = r + Len(t)
      /\ \A i \in 1..(r + Len(t)) : u[i] = IF i <= r THEN Tail0(s)[i] ELSE t[i - r]
  BY <1>4, ConcatIs
<1> HIDE DEF v, u
<1>6. \A j \in 1..(BlockLen * q) : v[j] = s[j]
  BY <1>2, <1>3
<1>7. ASSUME NEW j \in 1..Len(u) PROVE v[BlockLen * q + j] = u[j]
  <2>1. CASE j <= r
    <3>1. BlockLen * q + j \in 1..Len(s) /\ j \in 1..r
      BY <2>1, <1>2, <1>5
    <3> QED BY <3>1, <1>2, <1>3, <1>4, <1>5
  <2>2. CASE ~(j <= r)
    <3>1. /\ BlockLen * q + j \in 1..(Len(s) + Len(t))
          /\ ~(BlockLen * q + j <= Len(s))
          /\ (BlockLen * q + j) - Len(s) = j - r
      BY <2>2, <1>2, <1>5
    <3>2. v[BlockLen * q + j] = t[j - r]
      BY <3>1, <1>3
    <3> QED BY <3>2, <2>2, <1>5
  <2> QED BY <2>1, <2>2
<1>8. Len(v) = BlockLen * q + Len(u)
  BY <1>2, <1>3, <1>5
<1>9. FullBlocks(v) = FullBlocks(s) \o FullBlocks(u) /\ Tail0(v) = Tail0(u)
  BY <1>1, <1>3, <1>5, <1>6, <1>7, <1>8, BlocksSplit
<1> QED BY <1>9 DEF v, u

\* Less than a block, and just one.
LEMMA FewBytes ==
  ASSUME NEW s, IsSeq(s)
  PROVE  /\ Len(s) < BlockLen => FullBlocks(s) = <<>> /\ Tail0(s) = s
         /\ Len(s) = BlockLen => FullBlocks(s) = <<s>> /\ Tail0(s) = <<>>
         /\ Len(s) % BlockLen = 0 => Tail0(s) = <<>>
         /\ IsSeq(Tail0(s)) /\ IsSeq(FullBlocks(s)) /\ Len(Tail0(s)) < BlockLen
<1>0. Len(s) \in Nat /\ BlockLen \in Nat \ {0}
  BY IsSeqLen, BlockLenAssumption
<1>1. ASSUME Len(s) < BlockLen PROVE FullBlocks(s) = <<>> /\ Tail0(s) = s
  <2>1. Divided(s, 0, Len(s)) /\ BlockLen * 0 = 0
    BY <1>0, <1>1 DEF Divided
  <2>2. IsSeq(FullBlocks(s)) /\ Len(FullBlocks(s)) = 0
    BY <2>1, BlocksIs
  <2>3. IsSeq(Tail0(s)) /\ Len(Tail0(s)) = Len(s)
        /\ \A j \in 1..Len(s) : Tail0(s)[j] = s[BlockLen * 0 + j]
    BY <2>1, BlocksIs
  <2>4. \A j \in 1..Len(s) : Tail0(s)[j] = s[j]
    BY <2>1, <2>3, <1>0
  <2> QED BY <2>2, <2>3, <2>4, SeqSame, EmptyIs
<1>2. ASSUME Len(s) = BlockLen PROVE FullBlocks(s) = <<s>> /\ Tail0(s) = <<>>
  <2>1. Divided(s, 1, 0) /\ BlockLen * (1 - 1) = 0
    BY <1>0, <1>2 DEF Divided
  <2>2. IsSeq(FullBlocks(s)) /\ Len(FullBlocks(s)) = 1
    BY <2>1, BlocksIs
  <2>4. IsSeq(FullBlocks(s)[1]) /\ Len(FullBlocks(s)[1]) = BlockLen
        /\ \A j \in 1..BlockLen : FullBlocks(s)[1][j] = s[BlockLen * (1 - 1) + j]
    <3>1. \A i \in 1..1 :
            /\ IsSeq(FullBlocks(s)[i]) /\ Len(FullBlocks(s)[i]) = BlockLen
            /\ \A j \in 1..BlockLen :
                 FullBlocks(s)[i][j] = s[BlockLen * (i - 1) + j]
      BY ONLY <2>1, BlocksIs, IsSeq(s)
    <3> QED BY ONLY <3>1
  <2>5. FullBlocks(s)[1] = s
    BY <2>1, <2>4, <1>2, SeqSame
  <2>6. FullBlocks(s) = <<s>>
    <3>1. FullBlocks(s) \in Seq({s})
      BY <2>2, <2>5, InSeq
    <3> QED BY <3>1, <2>2, <2>5
  <2>7. Tail0(s) = <<>>
    BY <2>1, BlocksIs, EmptyIs
  <2> QED BY <2>6, <2>7
<1>3. PICK q, r : Divided(s, q, r) /\ Len(s) % BlockLen = r
  BY Dividing
<1>4. IsSeq(Tail0(s)) /\ IsSeq(FullBlocks(s)) /\ Len(Tail0(s)) = r
  BY <1>3, BlocksIs
<1> QED BY <1>0, <1>1, <1>2, <1>3, <1>4, EmptyIs DEF Divided

\* Rests of small numbers and of multiples.
LEMMA RestIs ==
  ASSUME NEW n \in Nat
  PROVE  /\ n < BlockLen => n % BlockLen = n
         /\ n = BlockLen => n % BlockLen = 0
         /\ \A q \in Nat : n = BlockLen * q => n % BlockLen = 0
<1>1. BlockLen \in Nat \ {0} /\ 0 \in 0..(BlockLen - 1)
  BY BlockLenAssumption
<1>2. ASSUME n < BlockLen PROVE n % BlockLen = n
  <2>1. n = BlockLen * 0 + n /\ n \in 0..(BlockLen - 1)
    BY <1>1, <1>2
  <2> QED BY <2>1, <1>1, DivUnique
<1>3. ASSUME NEW q \in Nat, n = BlockLen * q PROVE n % BlockLen = 0
  <2>1. n = BlockLen * q + 0
    BY <1>1, <1>3
  <2> QED BY <2>1, <1>1, DivUnique
<1>4. BlockLen = BlockLen * 1
  BY <1>1
<1> QED BY <1>2, <1>3, <1>4

\* n zeros, and how many of them fill up n bytes.
Zeros(n) == [i \in 1..n |-> Byte0]
PadLen(n) == (BlockLen - (n % BlockLen)) % BlockLen

\* Zeros are a sequence.
LEMMA ZerosIs ==
  ASSUME NEW n \in Nat
  PROVE  IsSeq(Zeros(n)) /\ Len(Zeros(n)) = n
  BY SeqFcn DEF Zeros

\* The length of the padding.
LEMMA PadLenIs ==
  ASSUME NEW q \in Nat, NEW r \in 0..(BlockLen - 1), NEW n \in Nat, n = BlockLen * q + r
  PROVE  PadLen(n) = IF r = 0 THEN 0 ELSE BlockLen - r
<1>1. n % BlockLen = r
  BY DivUnique, BlockLenAssumption
<1>2. CASE r = 0
  <2>1. BlockLen \in Nat /\ BlockLen = BlockLen * 1 + 0 /\ 0 \in 0..(BlockLen - 1)
    BY BlockLenAssumption
  <2>2. BlockLen % BlockLen = 0
    BY <2>1, DivUnique, BlockLenAssumption
  <2>3. BlockLen - 0 = BlockLen
    BY <2>1
  <2> QED BY <1>1, <1>2, <2>2, <2>3 DEF PadLen
<1>3. CASE r # 0
  <2>1. BlockLen - r \in 0..(BlockLen - 1) /\ BlockLen - r = BlockLen * 0 + (BlockLen - r)
    BY <1>3, BlockLenAssumption
  <2>2. (BlockLen - r) % BlockLen = BlockLen - r
    BY <2>1, DivUnique, BlockLenAssumption
  <2> QED BY <1>1, <1>3, <2>2 DEF PadLen
<1> QED BY <1>2, <1>3

\* What ZeroPadded makes of s.
LEMMA PaddedIs ==
  ASSUME NEW s, IsSeq(s)
  PROVE  /\ PadLen(Len(s)) \in 0..(BlockLen - 1)
         /\ ZeroPadded(s) = s \o Zeros(PadLen(Len(s)))
         /\ IsSeq(ZeroPadded(s)) /\ Len(ZeroPadded(s)) % BlockLen = 0
         /\ Len(s) % BlockLen = 0 => ZeroPadded(s) = s
         /\ Len(s) \in 1..BlockLen => Len(ZeroPadded(s)) = BlockLen
<1>1. PICK q, r : Divided(s, q, r) /\ Len(s) % BlockLen = r
  BY Dividing
<1>2. /\ q \in Nat /\ r \in 0..(BlockLen - 1) /\ Len(s) = BlockLen * q + r
      /\ BlockLen \in Nat \ {0} /\ Len(s) \in Nat
  BY <1>1, IsSeqLen, BlockLenAssumption DEF Divided
<1>3. PadLen(Len(s)) = IF r = 0 THEN 0 ELSE BlockLen - r
  BY <1>2, PadLenIs
<1>4. PadLen(Len(s)) \in 0..(BlockLen - 1)
  BY <1>2, <1>3
<1>5. ZeroPadded(s) = s \o Zeros(PadLen(Len(s)))
  BY DEF ZeroPadded, Zeros, PadLen
<1>6. IsSeq(Zeros(PadLen(Len(s)))) /\ Len(Zeros(PadLen(Len(s)))) = PadLen(Len(s))
  BY <1>4, ZerosIs
<1>7. IsSeq(ZeroPadded(s)) /\ Len(ZeroPadded(s)) = Len(s) + PadLen(Len(s))
  BY <1>5, <1>6, ConcatIs
<1>8. Len(ZeroPadded(s)) % BlockLen = 0
  <2>0. BlockLen * q \in Nat
    BY <1>2
  <2>1. CASE r = 0
    <3>1. Len(ZeroPadded(s)) = BlockLen * q
      BY <1>2, <1>3, <1>7, <2>0, <2>1
    <3> QED BY ONLY <3>1, <2>0, RestIs, <1>2
  <2>2. CASE r # 0
    <3>1. BlockLen * (q + 1) = BlockLen * q + BlockLen
      BY <1>2
    <3>2. Len(ZeroPadded(s)) = BlockLen * (q + 1)
      BY <1>2, <1>3, <1>7, <2>0, <2>2, <3>1
    <3>3. q + 1 \in Nat /\ Len(ZeroPadded(s)) \in Nat
      BY <1>2, <1>4, <1>7
    <3> QED BY ONLY <3>2, <3>3, RestIs
  <2> QED BY <2>1, <2>2
<1>9. Len(s) % BlockLen = 0 => ZeroPadded(s) = s
  <2>1. ASSUME r = 0 PROVE ZeroPadded(s) = s
    <3>1. Zeros(0) = <<>>
      BY ZerosIs, EmptyIs
    <3> QED BY <3>1, <2>1, <1>3, <1>5, ConcatEmpty
  <2> QED BY <2>1, <1>1
<1>10. Len(s) \in 1..BlockLen => Len(ZeroPadded(s)) = BlockLen
  <2> SUFFICES ASSUME Len(s) \in 1..BlockLen PROVE Len(ZeroPadded(s)) = BlockLen
    OBVIOUS
  <2>1. CASE Len(s) < BlockLen
    <3>1. r = Len(s)
      BY <2>1, <1>1, <1>2, RestIs
    <3>2. r # 0 /\ PadLen(Len(s)) = BlockLen - Len(s)
      BY <3>1, <1>3
    <3>3. Len(s) \in Nat /\ BlockLen \in Nat
      BY <1>2
    <3> QED BY ONLY <3>2, <3>3, <1>7
  <2>2. CASE Len(s) = BlockLen
    <3>1. r = 0
      BY <2>2, <1>1, <1>2, RestIs
    <3> QED BY <3>1, <2>2, <1>2, <1>3, <1>7
  <2>3. Len(s) < BlockLen \/ Len(s) = BlockLen
    BY <1>2
  <2> QED BY <2>1, <2>2, <2>3
<1> QED BY <1>4, <1>5, <1>7, <1>8, <1>9, <1>10

\* Padding is by the rest only, so blocks in front change nothing.
LEMMA PaddedConcat ==
  ASSUME NEW s, IsSeq(s), NEW t, IsSeq(t)
  PROVE  /\ Blocks(s \o t) = FullBlocks(s) \o Blocks(Tail0(s) \o t)
         /\ IsSeq(Blocks(s))
<1>1. PICK q, r : Divided(s, q, r)
  BY Dividing
<1>2. /\ q \in Nat /\ r \in 0..(BlockLen - 1) /\ Len(s) = BlockLen * q + r
      /\ BlockLen \in Nat \ {0} /\ Len(s) \in Nat /\ Len(t) \in Nat
  BY <1>1, IsSeqLen, BlockLenAssumption DEF Divided
<1>3. IsSeq(Tail0(s)) /\ Len(Tail0(s)) = r
  BY <1>1, BlocksIs
<1> DEFINE u == Tail0(s) \o t
           v == s \o t
<1>4. /\ IsSeq(u) /\ Len(u) = r + Len(t)
      /\ IsSeq(v) /\ Len(v) = Len(s) + Len(t)
  BY <1>3, ConcatIs
<1>5. PICK m, x : Divided(u, m, x)
  BY <1>4, Dividing
<1>6. m \in Nat /\ x \in 0..(BlockLen - 1) /\ Len(u) = BlockLen * m + x
  BY <1>5 DEF Divided
<1> HIDE DEF u, v
<1>7. PadLen(Len(u)) = PadLen(Len(v))
  <2>1. BlockLen * (q + m) = BlockLen * q + BlockLen * m
        /\ BlockLen * q \in Nat /\ BlockLen * m \in Nat
    BY <1>2, <1>6, MultAdd
  <2>2. Len(v) = BlockLen * (q + m) + x /\ Len(v) \in Nat /\ Len(u) \in Nat /\ q + m \in Nat
    BY <2>1, <1>2, <1>4, <1>6
  <2>3. PadLen(Len(v)) = IF x = 0 THEN 0 ELSE BlockLen - x
    BY <2>2, <1>6, PadLenIs
  <2>4. PadLen(Len(u)) = IF x = 0 THEN 0 ELSE BlockLen - x
    BY <2>2, <1>6, PadLenIs
  <2> QED BY <2>3, <2>4
<1> DEFINE z == Zeros(PadLen(Len(v)))
<1>8. IsSeq(z) /\ ZeroPadded(v) = v \o z /\ ZeroPadded(u) = u \o z
  <2>0. PadLen(Len(v)) \in 0..(BlockLen - 1)
    BY <1>4, PaddedIs
  <2>1. PadLen(Len(v)) \in Nat
    BY <2>0
  <2>2. ZeroPadded(v) = v \o Zeros(PadLen(Len(v))) /\ ZeroPadded(u) = u \o Zeros(PadLen(Len(u)))
    BY <1>4, PaddedIs
  <2> QED BY <2>1, <2>2, <1>7, ZerosIs
<1> HIDE DEF z
<1>9. ZeroPadded(v) = s \o (t \o z) /\ ZeroPadded(u) = Tail0(s) \o (t \o z)
  <2>1. v \o z = s \o (t \o z)
    BY <1>8, ConcatAssoc DEF v
  <2>2. u \o z = Tail0(s) \o (t \o z)
    BY <1>3, <1>8, ConcatAssoc DEF u
  <2> QED BY <2>1, <2>2, <1>8
<1>10. FullBlocks(s \o (t \o z)) = FullBlocks(s) \o FullBlocks(Tail0(s) \o (t \o z))
  BY <1>8, ConcatIs, BlocksConcat
<1>11. IsSeq(Blocks(s))
  BY PaddedIs, FewBytes DEF Blocks
<1> QED BY <1>9, <1>10, <1>11 DEF Blocks, u, v

\* What padding makes of at most a block, and of whole blocks.
LEMMA PaddedFew ==
  ASSUME NEW s, IsSeq(s)
  PROVE  /\ Len(s) \in 1..BlockLen => Blocks(s) = <<ZeroPadded(s)>>
         /\ Len(s) % BlockLen = 0 => Blocks(s) = FullBlocks(s)
         /\ Len(s) = BlockLen => ZeroPadded(s) = s
<1>1. Len(s) \in 1..BlockLen => Blocks(s) = <<ZeroPadded(s)>>
  BY PaddedIs, FewBytes DEF Blocks
<1>2. Len(s) % BlockLen = 0 => Blocks(s) = FullBlocks(s)
  BY PaddedIs DEF Blocks
<1>3. ASSUME Len(s) = BlockLen PROVE ZeroPadded(s) = s
  <2>2. Len(s) % BlockLen = 0
    BY <1>3, IsSeqLen, RestIs
  <2> QED BY <2>2, PaddedIs
<1> QED BY <1>1, <1>2, <1>3

-----------------------------------------------------------------------------
(* Collectors *)

\* The lesser of two numbers.
LEMMA LesserIs ==
  ASSUME NEW m \in Nat, NEW n \in Nat
  PROVE  /\ Lesser(m, n) \in Nat /\ Lesser(m, n) <= m /\ Lesser(m, n) <= n
         /\ Lesser(m, n) = m \/ Lesser(m, n) = n
  BY DEF Lesser

\* The state of the loop.
Loop(hash, buf, inp) == [hash |-> hash, buf |-> buf, in |-> inp]

\* What topping up has made of the buffer and the input.
ToppedUp(hash, buf, inp, b, i) ==
  /\ Topped(Loop(hash, buf, inp)) = Loop(hash, b, i)
  /\ IsSeq(b) /\ IsSeq(i) /\ Len(b) <= BlockLen
  /\ b \o i = buf \o inp
  /\ i # <<>> => Len(b) = BlockLen \/ (b = <<>> /\ Len(i) >= BlockLen)
  /\ Len(buf \o inp) < BlockLen => i = <<>>

\* The first half of a turn, the top-up of the buffer, loses no byte and moves
\* none, and input is left only if the buffer is full or there is a block of it.
LEMMA ToppedIs ==
  ASSUME NEW hash, NEW buf, NEW inp, IsSeq(buf), IsSeq(inp), Len(buf) <= BlockLen
  PROVE  \E b, i : ToppedUp(hash, buf, inp, b, i)
<1> DEFINE n == IF Len(inp) + Len(buf) < BlockLen \/ buf # <<>>
                THEN Lesser(BlockLen - Len(buf), Len(inp)) ELSE 0
<1>1. /\ BlockLen \in Nat \ {0} /\ Len(buf) \in Nat /\ Len(inp) \in Nat
      /\ BlockLen - Len(buf) \in Nat /\ Len(buf) <= BlockLen
  BY IsSeqLen, BlockLenAssumption
<1>2. Topped(Loop(hash, buf, inp)) = Loop(hash, buf \o First(inp, n), Behind(inp, n))
  <2> DEFINE s == Loop(hash, buf, inp)
  <2>1. s.hash = hash /\ s.buf = buf /\ s.in = inp
    BY DEF Loop
  <2>2. Topped(s) = [s EXCEPT !.buf = @ \o First(s.in, n), !.in = Behind(@, n)]
    BY <2>1 DEF Topped
  <2> HIDE DEF n
  <2>3. [s EXCEPT !.buf = @ \o First(s.in, n), !.in = Behind(@, n)]
        = Loop(hash, buf \o First(inp, n), Behind(inp, n))
    <3>1. ASSUME NEW x, NEW y
          PROVE  [Loop(hash, buf, inp) EXCEPT !.buf = x, !.in = y] = Loop(hash, x, y)
      <4>1. [Loop(hash, buf, inp) EXCEPT !.buf = x] = Loop(hash, x, inp)
        BY DEF Loop
      <4>2. [Loop(hash, x, inp) EXCEPT !.in = y] = Loop(hash, x, y)
        BY DEF Loop
      <4> QED BY ONLY <4>1, <4>2
    <3> QED BY <3>1, <2>1, Zenon
  <2> QED BY <2>2, <2>3
<1>3. /\ n \in 0..Len(inp) /\ n <= BlockLen - Len(buf)
      /\ Len(inp) + Len(buf) < BlockLen => n = Len(inp)
      /\ buf # <<>> => n = Len(inp) \/ n = BlockLen - Len(buf)
      /\ buf = <<>> /\ ~(Len(inp) + Len(buf) < BlockLen) => n = 0
  <2>1. CASE Len(inp) + Len(buf) < BlockLen \/ buf # <<>>
    <3>1. n = Lesser(BlockLen - Len(buf), Len(inp))
      BY <2>1
    <3> HIDE DEF n
    <3>2. /\ n \in Nat /\ n <= BlockLen - Len(buf) /\ n <= Len(inp)
          /\ n = BlockLen - Len(buf) \/ n = Len(inp)
      BY <3>1, <1>1, LesserIs
    <3> QED BY <3>2, <2>1, <1>1
  <2>2. CASE ~(Len(inp) + Len(buf) < BlockLen \/ buf # <<>>)
    <3>1. n = 0
      BY <2>2
    <3> HIDE DEF n
    <3> QED BY <3>1, <2>2, <1>1
  <2> QED BY <2>1, <2>2
<1> HIDE DEF n
<1>5. /\ IsSeq(First(inp, n)) /\ Len(First(inp, n)) = n
      /\ IsSeq(Behind(inp, n)) /\ Len(Behind(inp, n)) = Len(inp) - n
      /\ First(inp, n) \o Behind(inp, n) = inp
  BY <1>3, FirstIs
<1> DEFINE b == buf \o First(inp, n)
           i == Behind(inp, n)
<1>6. IsSeq(b) /\ Len(b) = Len(buf) + n /\ Len(b) <= BlockLen
  <2>1. IsSeq(b) /\ Len(b) = Len(buf) + n
    BY <1>5, ConcatIs
  <2> QED BY <2>1, <1>1, <1>3
<1>8. b \o i = buf \o inp
  <2>1. (buf \o First(inp, n)) \o Behind(inp, n) = buf \o (First(inp, n) \o Behind(inp, n))
    <3>1. IsSeq(buf) /\ IsSeq(First(inp, n)) /\ IsSeq(Behind(inp, n))
      BY <1>5
    <3> QED BY ONLY <3>1, ConcatAssoc
  <2> QED BY <2>1, <1>5
<1>9. ASSUME i # <<>>
      PROVE  Len(b) = BlockLen \/ (b = <<>> /\ Len(i) >= BlockLen)
  <2>1. n # Len(inp)
    BY <1>9, <1>5, <1>1, EmptyIs
  <2> HIDE DEF i, b
  <2>2. CASE buf # <<>>
    BY <2>1, <2>2, <1>1, <1>3, <1>6
  <2>3. CASE buf = <<>>
    <3>0. Len(buf) = 0
      BY <2>3, EmptyIs
    <3>1. n = 0 /\ Len(inp) >= BlockLen
      BY <3>0, <2>1, <2>3, <1>1, <1>3
    <3>2. b = <<>>
      BY <3>0, <3>1, <1>6, EmptyIs
    <3>3. Len(i) >= BlockLen
      BY <3>1, <1>5, <1>1 DEF i
    <3> QED BY <3>2, <3>3
  <2> QED BY <2>2, <2>3
<1>10. ASSUME Len(buf \o inp) < BlockLen PROVE i = <<>>
  <2>1. Len(inp) + Len(buf) < BlockLen
    BY <1>10, <1>1, ConcatIs
  <2>2. Len(i) = 0
    BY <2>1, <1>1, <1>3, <1>5
  <2> QED BY <2>2, <1>5, EmptyIs
<1>11. ToppedUp(hash, buf, inp, b, i)
  BY <1>2, <1>5, <1>6, <1>8, <1>9, <1>10 DEF ToppedUp
<1> QED BY <1>11

\* Blocks made of a buffer that is not longer than one.
LEMMA BufferPadded ==
  ASSUME NEW buf, IsSeq(buf), Len(buf) <= BlockLen
  PROVE  (IF buf = <<>> THEN <<>> ELSE <<ZeroPadded(buf)>>) = Blocks(buf)
<1>1. CASE buf = <<>>
  <2>1. Len(buf) = 0 /\ 0 < BlockLen /\ 0 \in Nat
    BY <1>1, EmptyIs, BlockLenAssumption
  <2>2. Len(buf) % BlockLen = 0
    BY <2>1, RestIs
  <2>3. Blocks(buf) = FullBlocks(buf) /\ FullBlocks(buf) = <<>>
    BY <2>1, <2>2, PaddedFew, FewBytes
  <2> QED BY <2>3, <1>1
<1>2. CASE buf # <<>>
  <2>1. Len(buf) \in 1..BlockLen
    BY <1>2, EmptyIs, IsSeqLen, BlockLenAssumption
  <2> QED BY <2>1, <1>2, PaddedFew
<1> QED BY <1>1, <1>2

\* Nothing makes no blocks.
LEMMA NoBlocks == FullBlocks(<<>>) = <<>> /\ Tail0(<<>>) = <<>> /\ Blocks(<<>>) = <<>>
<1>1. Len(<<>>) < BlockLen /\ IsSeq(<<>>) /\ Len(<<>>) <= BlockLen
  BY EmptyIs, BlockLenAssumption
<1> QED BY <1>1, FewBytes, BufferPadded

\* No rest, no padding.
LEMMA WholeBlocks ==
  ASSUME NEW s, IsSeq(s), Tail0(s) = <<>>
  PROVE  Blocks(s) = FullBlocks(s)
<1>1. PICK q, r : Divided(s, q, r) /\ Len(s) % BlockLen = r
  BY Dividing
<1>2. Len(Tail0(s)) = r
  BY <1>1, BlocksIs
<1>3. r = 0
  BY <1>2, EmptyIs
<1> QED BY <1>1, <1>3, PaddedFew

\* What one turn of the loop has made of the buffer and the input.
Turned(hash, all, pad, lazy, x, b, i) ==
  /\ IsSeq(x) /\ IsSeq(b) /\ IsSeq(i) /\ Len(b) <= BlockLen
  /\ i # <<>> => b = <<>> /\ x = hash \o FullBlocks(all) /\ i = Tail0(all)
  /\ i = <<>> /\ ~pad => /\ x \o FullBlocks(b) = hash \o FullBlocks(all)
                         /\ Tail0(b) = Tail0(all)
                         /\ ~lazy => Len(b) < BlockLen
  /\ i = <<>> /\ pad => b = <<>> /\ x = hash \o Blocks(all)
  /\ Len(all) < BlockLen => i = <<>>

\* A turn of the loop of do_ghash_buf or do_cbc_mac.
LEMMA TurnIs ==
  ASSUME NEW hash, NEW buf, NEW inp, IsSeq(hash), IsSeq(buf), IsSeq(inp),
         Len(buf) <= BlockLen, NEW pad \in BOOLEAN, NEW lazy \in BOOLEAN
  PROVE  \E x, b, i : /\ Turn(Loop(hash, buf, inp), pad, lazy) = Loop(x, b, i)
                      /\ Turned(hash, buf \o inp, pad, lazy, x, b, i)
<1> DEFINE all == buf \o inp
<1>1. IsSeq(all)
  BY ConcatIs
<1>2. PICK b, i :
        /\ Topped(Loop(hash, buf, inp)) = Loop(hash, b, i)
        /\ IsSeq(b) /\ IsSeq(i) /\ Len(b) <= BlockLen
        /\ b \o i = all
        /\ i # <<>> => Len(b) = BlockLen \/ (b = <<>> /\ Len(i) >= BlockLen)
        /\ Len(all) < BlockLen => i = <<>>
  <2>1. \E b, i : ToppedUp(hash, buf, inp, b, i)
    BY ToppedIs
  <2> QED BY <2>1 DEF ToppedUp
<1> HIDE DEF all
<1>3. Turn(Loop(hash, buf, inp), pad, lazy) = Processed(Loop(hash, b, i), pad, lazy)
  BY <1>2 DEF Turn
<1>4. CASE i = <<>> /\ ~pad /\ (lazy \/ Len(b) < BlockLen)
  <2>1. Processed(Loop(hash, b, i), pad, lazy) = Loop(hash, b, i)
    BY <1>4 DEF Processed, Loop
  <2>2. b = all
    BY <1>2, <1>4, ConcatEmpty
  <2>3. Turned(hash, all, pad, lazy, hash, b, i)
    BY <2>2, <1>2, <1>4 DEF Turned
  <2> QED BY <2>1, <2>3, <1>3 DEF all
<1>5. CASE ~(i = <<>> /\ ~pad /\ (lazy \/ Len(b) < BlockLen))
  <2> DEFINE x == hash \o Blocks(b) \o FullBlocks(i)
             r == Tail0(i)
  <2>1. Processed(Loop(hash, b, i), pad, lazy) = Loop(x, <<>>, r)
    <3>1. (IF b = <<>> THEN <<>> ELSE <<ZeroPadded(b)>>) = Blocks(b)
      BY <1>2, BufferPadded
    <3> QED BY <3>1, <1>5 DEF Processed, Loop
  <2>2. IsSeq(Blocks(b)) /\ IsSeq(FullBlocks(i)) /\ IsSeq(r) /\ IsSeq(<<>>) /\ Len(<<>>) < BlockLen
    BY <1>2, FewBytes, PaddedConcat, EmptyIs, BlockLenAssumption
  <2>3. IsSeq(x) /\ x = hash \o (Blocks(b) \o FullBlocks(i))
    <3>1. IsSeq(hash \o Blocks(b))
      BY <2>2, ConcatIs
    <3>2. IsSeq(x)
      BY <3>1, <2>2, ConcatIs
    <3>3. x = hash \o (Blocks(b) \o FullBlocks(i))
      BY <2>2, ConcatAssoc, SMTT(60)
    <3> QED BY <3>2, <3>3
  <2> HIDE DEF x, r
  <2>4. x \o FullBlocks(<<>>) = x /\ Tail0(<<>>) = <<>>
    BY <2>3, NoBlocks, ConcatEmpty
  <2>5. Len(<<>>) <= BlockLen
    BY EmptyIs, BlockLenAssumption
  <2>6. CASE i = <<>>
    <3>1. b = all
      BY <2>6, <1>2, ConcatEmpty
    <3>2. r = <<>> /\ x = hash \o Blocks(all)
      BY <3>1, <2>2, <2>3, <2>6, NoBlocks, ConcatEmpty DEF r
    <3>3. ASSUME ~pad
          PROVE  Blocks(all) = FullBlocks(all) /\ Tail0(all) = <<>>
      <4>1. Len(all) = BlockLen
        BY <3>1, <3>3, <2>6, <1>2, <1>5, IsSeqLen, BlockLenAssumption
      <4>2. Tail0(all) = <<>>
        BY <4>1, <1>1, FewBytes
      <4> QED BY <4>2, <1>1, WholeBlocks
    <3>4. Turned(hash, all, pad, lazy, x, <<>>, r)
      BY <3>2, <3>3, <2>2, <2>3, <2>4, <2>5 DEF Turned
    <3> QED BY <3>4, <2>1, <1>3 DEF all
  <2>7. CASE i # <<>>
    <3>1. Blocks(b) \o FullBlocks(i) = FullBlocks(all) /\ Tail0(i) = Tail0(all)
      <4>1. CASE b = <<>>
        <5>1. all = i
          BY <4>1, <1>2, ConcatEmpty
        <5> QED BY <5>1, <4>1, <2>2, NoBlocks, ConcatEmpty
      <4>2. CASE Len(b) = BlockLen
        <5>1. Tail0(b) = <<>> /\ Blocks(b) = FullBlocks(b)
          BY <4>2, <1>2, FewBytes, WholeBlocks
        <5>2. /\ FullBlocks(b \o i) = FullBlocks(b) \o FullBlocks(Tail0(b) \o i)
              /\ Tail0(b \o i) = Tail0(Tail0(b) \o i)
          BY <1>2, BlocksConcat
        <5>3. Tail0(b) \o i = i
          BY <5>1, <1>2, ConcatEmpty
        <5> QED BY <5>1, <5>2, <5>3, <1>2
      <4> QED BY <4>1, <4>2, <2>7, <1>2
    <3>2. x = hash \o FullBlocks(all) /\ r = Tail0(all)
      BY <3>1, <2>3 DEF r
    <3>3. ASSUME r = <<>> PROVE Blocks(all) = FullBlocks(all)
      BY <3>2, <3>3, <1>1, WholeBlocks
    <3>4. ~(Len(all) < BlockLen)
      BY <2>7, <1>2
    <3>5. Turned(hash, all, pad, lazy, x, <<>>, r)
      BY <3>2, <3>3, <3>4, <2>2, <2>3, <2>4, <2>5 DEF Turned
    <3> QED BY <3>5, <2>1, <1>3 DEF all
  <2> QED BY <2>6, <2>7
<1> QED BY <1>4, <1>5

\* A collector whose buffer holds at most a block.
Coll(hash, buf) == [hash |-> hash, buf |-> buf]

\* What the loops have made of a collector and more bytes.
Collected(hash, all, pad, lazy, x, b) ==
  /\ IsSeq(x) /\ IsSeq(b) /\ Len(b) <= BlockLen
  /\ ~pad => /\ x \o FullBlocks(b) = hash \o FullBlocks(all)
             /\ Tail0(b) = Tail0(all)
  /\ pad => b = <<>> /\ x = hash \o Blocks(all)

\* However bytes are cut into calls of do_ghash_buf, do_polyval_buf and do_cbc_mac
\* (pad: the call ends the part; lazy: a full buffer waits), the blocks handed
\* to the compression function and those still to come from the buffer are the
\* blocks of all the bytes, in order.
LEMMA CollectIs ==
  ASSUME NEW hash, NEW buf, NEW inp, IsSeq(hash), IsSeq(buf), IsSeq(inp),
         Len(buf) <= BlockLen, NEW pad \in BOOLEAN, NEW lazy \in BOOLEAN
  PROVE  \E x, b : /\ Collect(Coll(hash, buf), inp, pad, lazy) = Coll(x, b)
                   /\ Collected(hash, buf \o inp, pad, lazy, x, b)
                   /\ ~pad /\ ~lazy /\ Len(buf) < BlockLen => Len(b) < BlockLen
<1> DEFINE all == buf \o inp
<1>0. IsSeq(all)
  BY ConcatIs
<1>1. CASE inp = <<>> /\ (buf = <<>> \/ ~pad)
  <2>1. Collect(Coll(hash, buf), inp, pad, lazy) = Coll(hash, buf)
    BY <1>1 DEF Collect, Coll
  <2>2. all = buf
    BY <1>1, ConcatEmpty
  <2>3. Collected(hash, all, pad, lazy, hash, buf)
    <3>1. CASE pad
      <4>1. Blocks(all) = <<>> /\ buf = <<>>
        BY <3>1, <2>2, <1>1, NoBlocks
      <4> QED BY <4>1, <3>1, ConcatEmpty DEF Collected
    <3>2. CASE ~pad
      BY <3>2, <2>2 DEF Collected
    <3> QED BY <3>1, <3>2
  <2> QED BY <2>1, <2>3
<1>2. CASE ~(inp = <<>> /\ (buf = <<>> \/ ~pad))
  <2>1. PICK x, b, i : /\ Turn(Loop(hash, buf, inp), pad, lazy) = Loop(x, b, i)
                       /\ Turned(hash, all, pad, lazy, x, b, i)
    BY TurnIs
  <2>2. Collect(Coll(hash, buf), inp, pad, lazy)
        = Collector(SecondTurn(Loop(x, b, i), pad, lazy))
    <3>1. Coll(hash, buf).hash = hash /\ Coll(hash, buf).buf = buf
      BY DEF Coll
    <3>2. Collect(Coll(hash, buf), inp, pad, lazy)
          = Collector(SecondTurn(Turn(Loop(hash, buf, inp), pad, lazy), pad, lazy))
      BY <3>1, <1>2 DEF Collect, Loop
    <3> QED BY <3>2, <2>1
  <2> HIDE DEF all
  <2>3. ASSUME NEW y, NEW z, NEW j PROVE Collector(Loop(y, z, j)) = Coll(y, z)
    BY DEF Collector, Loop, Coll
  <2>4. CASE i = <<>>
    <3>1. SecondTurn(Loop(x, b, i), pad, lazy) = Loop(x, b, i)
      BY <2>4 DEF SecondTurn, Loop
    <3>2. Collect(Coll(hash, buf), inp, pad, lazy) = Coll(x, b)
      BY <3>1, <2>2, <2>3
    <3>3. Collected(hash, all, pad, lazy, x, b)
      BY <2>1, <2>4 DEF Collected, Turned
    <3>4. ~pad /\ ~lazy => Len(b) < BlockLen
      BY <2>1, <2>4 DEF Turned
    <3> QED BY <3>2, <3>3, <3>4 DEF all
  <2>5. CASE i # <<>>
    <3>1. SecondTurn(Loop(x, b, i), pad, lazy) = Turn(Loop(x, b, i), pad, lazy)
      BY <2>5 DEF SecondTurn, Loop
    <3>2. /\ IsSeq(x) /\ IsSeq(b) /\ IsSeq(i) /\ Len(b) <= BlockLen
          /\ b = <<>> /\ x = hash \o FullBlocks(all) /\ i = Tail0(all)
      BY <2>1, <2>5 DEF Turned
    <3>3. b \o i = i
      BY <3>2, ConcatEmpty
    <3>4. PICK y, z, j : /\ Turn(Loop(x, b, i), pad, lazy) = Loop(y, z, j)
                         /\ Turned(x, i, pad, lazy, y, z, j)
      <4>1. \E y, z, j : /\ Turn(Loop(x, b, i), pad, lazy) = Loop(y, z, j)
                         /\ Turned(x, b \o i, pad, lazy, y, z, j)
        <5>1. IsSeq(x) /\ IsSeq(b) /\ IsSeq(i) /\ Len(b) <= BlockLen
              /\ pad \in BOOLEAN /\ lazy \in BOOLEAN
          BY <3>2
        <5> QED BY ONLY <5>1, TurnIs
      <4> QED BY <4>1, <3>3
    <3>5. Len(i) < BlockLen
      BY <3>2, <1>0, FewBytes DEF all
    <3>6. j = <<>>
      BY <3>4, <3>5 DEF Turned
    <3>7. Collect(Coll(hash, buf), inp, pad, lazy) = Coll(y, z)
      BY <3>1, <3>4, <2>2, <2>3
    <3>8. FullBlocks(i) = <<>> /\ Tail0(i) = i
      BY <3>2, <3>5, FewBytes
    <3>9. ASSUME ~pad
          PROVE  /\ y \o FullBlocks(z) = hash \o FullBlocks(all)
                 /\ Tail0(z) = Tail0(all)
                 /\ ~lazy => Len(z) < BlockLen
      BY <3>2, <3>4, <3>6, <3>8, <3>9, ConcatEmpty DEF Turned
    <3>10. ASSUME pad PROVE z = <<>> /\ y = hash \o Blocks(all)
      <4>1. z = <<>> /\ y = x \o Blocks(i)
        BY <3>4, <3>6, <3>10 DEF Turned
      <4>2. Blocks(all \o <<>>) = FullBlocks(all) \o Blocks(Tail0(all) \o <<>>)
        BY <1>0, EmptyIs, PaddedConcat DEF all
      <4>3. Blocks(all) = FullBlocks(all) \o Blocks(i)
        BY <4>2, <3>2, <1>0, ConcatEmpty DEF all
      <4>4. IsSeq(Blocks(i)) /\ IsSeq(FullBlocks(all))
        BY <3>2, <1>0, PaddedConcat, FewBytes DEF all
      <4>5. (hash \o FullBlocks(all)) \o Blocks(i) = hash \o (FullBlocks(all) \o Blocks(i))
        BY <4>4, ConcatAssoc
      <4> QED BY <4>1, <4>3, <4>5, <3>2
    <3>11. Collected(hash, all, pad, lazy, y, z)
      BY <3>4, <3>9, <3>10 DEF Collected, Turned
    <3> QED BY <3>7, <3>9, <3>11 DEF all
  <2> QED BY <2>4, <2>5
<1> QED BY <1>1, <1>2

\* do_ghash_buf, and do_cbc_mac with the same of a full buffer.
LEMMA GhashIs ==
  ASSUME NEW hash, NEW buf, NEW inp, IsSeq(hash), IsSeq(buf), IsSeq(inp),
         Len(buf) < BlockLen
  PROVE  /\ GhashBuf(Coll(hash, buf), inp, FALSE)
              = Coll(hash \o FullBlocks(buf \o inp), Tail0(buf \o inp))
         /\ GhashBuf(Coll(hash, buf), inp, TRUE)
              = Coll(hash \o Blocks(buf \o inp), <<>>)
<1>1. Len(buf) <= BlockLen /\ TRUE \in BOOLEAN /\ FALSE \in BOOLEAN
  BY IsSeqLen, BlockLenAssumption
<1>2. PICK x, b : /\ Collect(Coll(hash, buf), inp, FALSE, FALSE) = Coll(x, b)
                  /\ Collected(hash, buf \o inp, FALSE, FALSE, x, b)
                  /\ Len(b) < BlockLen
  BY <1>1, CollectIs
<1>3. FullBlocks(b) = <<>> /\ Tail0(b) = b /\ x \o <<>> = x
  BY <1>2, FewBytes, ConcatEmpty DEF Collected
<1>4. x = hash \o FullBlocks(buf \o inp) /\ b = Tail0(buf \o inp)
  BY <1>2, <1>3 DEF Collected
<1>5. PICK y, z : /\ Collect(Coll(hash, buf), inp, TRUE, FALSE) = Coll(y, z)
                  /\ Collected(hash, buf \o inp, TRUE, FALSE, y, z)
  BY <1>1, CollectIs
<1>6. y = hash \o Blocks(buf \o inp) /\ z = <<>>
  BY <1>5 DEF Collected
<1> QED BY <1>2, <1>4, <1>5, <1>6 DEF GhashBuf

-----------------------------------------------------------------------------
(* What the routines leave alone: every one of them returns a handle, with    *)
(* the FIPS mark it had.                                                      *)

\* The fields of a handle.
Fields ==
  {"fips", "keyno", "key", "iv", "tag", "fin", "unused", "last", "ctr", "mac",
   "aad", "aadlen", "datalen", "over", "aadfin", "datafin", "disallow",
   "tagiv", "val", "lengths", "authlen", "offset", "aadoffset", "taglen",
   "parts", "dectag", "dead"}

IsHandle(g) == DOMAIN g = Fields
Kept(g, x) == IsHandle(x) /\ x.fips = g.fips

\* gcry_cipher_open returns a handle.
LEMMA OpenedIs == IsHandle(Opened) /\ Opened.fips = FALSE /\ Opened.iv = FALSE
  BY DEF Opened, Fields, IsHandle

\* The three ways to return.
LEMMA ResultIs ==
  ASSUME NEW g, NEW ok, NEW out
  PROVE  /\ Result(g, ok, out).h = g /\ Result(g, ok, out).ok = ok
         /\ Result(g, ok, out).out = out
         /\ Refused(g).h = g /\ Refused(g).ok = FALSE /\ Refused(g).out = <<>>
         /\ Done(g).h = g /\ Done(g).ok = TRUE /\ Done(g).out = <<>>
  BY DEF Result, Refused, Done

\* One routine after the other.
LEMMA KeptTwice ==
  ASSUME NEW g, NEW x, NEW y, Kept(g, x), Kept(x, y)
  PROVE  Kept(g, y)
  BY DEF Kept

\* Counter mode
LEMMA CtrKept ==
  ASSUME NEW g, IsHandle(g), NEW inp, NEW k
  PROVE  Kept(g, CtrEncrypt(g, inp, k).h)
  BY DEF Result, CtrEncrypt, Kept, IsHandle, Fields

\* CCM
LEMMA CcmKept ==
  ASSUME NEW g, IsHandle(g), NEW inp, NEW enc, NEW iv, NEW a, NEW b, NEW c
  PROVE  /\ Kept(g, CcmSetNonce(g, iv).h) /\ Kept(g, CcmAuthenticate(g, inp).h)
         /\ Kept(g, CcmCrypt(g, inp, enc).h) /\ Kept(g, CcmTag(g, a).h)
         /\ Kept(g, CcmSetLengths(g, a, b, c).h)
<1> USE DEF Kept, IsHandle, Fields, Result, Refused, Done
<1>1. Kept(g, CcmSetNonce(g, iv).h)
  BY OpenedIs DEF CcmSetNonce
<1>2. Kept(g, CcmAuthenticate(g, inp).h)
  BY DEF CcmAuthenticate
<1>3. Kept(g, CcmCrypt(g, inp, enc).h)
  BY CtrKept DEF CcmCrypt, CcmMacData
<1>4. Kept(g, CcmTag(g, a).h)
  BY DEF CcmTag, CcmTagFrom
<1>5. Kept(g, CcmSetLengths(g, a, b, c).h)
  BY DEF CcmSetLengths
<1> QED BY <1>1, <1>2, <1>3, <1>4, <1>5

\* EAX
LEMMA EaxKept ==
  ASSUME NEW g, IsHandle(g), NEW inp, NEW enc, NEW iv
  PROVE  /\ Kept(g, EaxSetNonce(g, iv).h) /\ Kept(g, EaxAuthenticate(g, inp).h)
         /\ Kept(g, EaxCrypt(g, inp, enc).h) /\ Kept(g, EaxTag(g).h)
<1> USE DEF Result, Refused, Done
<1>1. \A i : Kept(g, EaxSetNonce(g, i).h)
  BY DEF EaxSetNonce, EaxStart, Kept, IsHandle, Fields
<1>2. Kept(g, EaxAutoIv(g))
  BY <1>1 DEF EaxAutoIv, Kept
<1>3. Kept(g, EaxAuthenticate(g, inp).h)
  BY <1>2 DEF EaxAuthenticate, Kept, IsHandle, Fields
<1>4. Kept(g, EaxCrypt(g, inp, enc).h)
  <2>1. Kept(g, CtrEncrypt(EaxAutoIv(g), inp, g.keyno).h)
    BY <1>2, CtrKept, KeptTwice DEF Kept
  <2> QED BY <2>1 DEF EaxCrypt, EaxMacData, Kept, IsHandle, Fields
<1>5. Kept(g, EaxTag(g).h)
  BY DEF EaxTag, Kept, IsHandle, Fields
<1> QED BY <1>1, <1>3, <1>4, <1>5

\* OCB
LEMMA OcbKept ==
  ASSUME NEW g, IsHandle(g), NEW inp, NEW enc, NEW iv
  PROVE  /\ Kept(g, OcbSetNonce(g, iv).h) /\ Kept(g, OcbAuthenticate(g, inp).h)
         /\ Kept(g, OcbCrypt(g, inp, enc).h) /\ Kept(g, OcbTag(g).h)
<1> USE DEF Result, Refused, Done
<1>1. Kept(g, OcbSetNonce(g, iv).h)
  BY DEF OcbSetNonce, Kept, IsHandle, Fields
<1>2. ASSUME NEW x, IsHandle(x), NEW bs PROVE Kept(x, OcbAadBlocks(x, bs))
  BY <1>2 DEF OcbAadBlocks, Kept, IsHandle, Fields
<1>3. ASSUME NEW b PROVE Kept(g, OcbTopUp(g, b))
  <2>1. Kept(g, [g EXCEPT !.aad.buf = <<>>]) /\ Kept(g, [g EXCEPT !.dead = TRUE])
        /\ Kept(g, [g EXCEPT !.aad.buf = b])
    BY DEF Kept, IsHandle, Fields
  <2>2. Kept(g, OcbAadBlocks([g EXCEPT !.aad.buf = <<>>], <<b>>))
    BY <1>2, <2>1, KeptTwice, ZenonT(60) DEF Kept
  <2> QED BY <2>1, <2>2 DEF OcbTopUp, OcbLeftoverBlock
<1>4. ASSUME NEW x, IsHandle(x), NEW r PROVE Kept(x, OcbAadRest(x, r).h)
  <2>1. Kept(x, OcbAadBlocks(x, FullBlocks(r)))
    BY <1>2, <1>4
  <2> QED BY <2>1, <1>4 DEF OcbAadRest, Kept, IsHandle, Fields
<1>5. Kept(g, OcbAuthenticate(g, inp).h)
  BY <1>3, <1>4, KeptTwice DEF OcbAuthenticate, Kept
<1>6. Kept(g, OcbCrypt(g, inp, enc).h)
  BY DEF OcbCrypt, Kept, IsHandle, Fields
<1>7. Kept(g, OcbTag(g).h)
  <2>1. Kept(g, OcbAadFinalize(g))
    BY DEF OcbAadFinalize, Kept, IsHandle, Fields
  <2> QED BY <2>1 DEF OcbTag, OcbTagFrom, Kept, IsHandle, Fields
<1> QED BY <1>1, <1>5, <1>6, <1>7

\* ChaCha20-Poly1305
LEMMA PolyKept ==
  ASSUME NEW g, IsHandle(g), NEW inp, NEW enc, NEW iv
  PROVE  /\ Kept(g, Poly1305Setiv(g, iv).h) /\ Kept(g, Poly1305Authenticate(g, inp).h)
         /\ Kept(g, Poly1305Crypt(g, inp, enc).h) /\ Kept(g, Poly1305Tag(g).h)
<1> USE DEF Result, Refused, Done
<1>1. \A i : Kept(g, Poly1305Setiv(g, i).h)
  BY DEF Poly1305Setiv, Kept, IsHandle, Fields
<1>2. Kept(g, Poly1305AutoIv(g))
  BY <1>1 DEF Poly1305AutoIv, Kept
<1>3. ASSUME NEW x, IsHandle(x) PROVE Kept(x, Poly1305AadFinish(x))
  BY <1>3 DEF Poly1305AadFinish, Kept, IsHandle, Fields
<1>4. Kept(g, Poly1305AadFinish(Poly1305AutoIv(g)))
  BY <1>2, <1>3, KeptTwice DEF Kept
<1>5. Kept(g, Poly1305Authenticate(g, inp).h)
  BY <1>2 DEF Poly1305Authenticate, Poly1305Aad, Kept, IsHandle, Fields
<1>6. Kept(g, Poly1305Crypt(g, inp, enc).h)
  <2> DEFINE x == [Poly1305AadFinish(Poly1305AutoIv(g)) EXCEPT !.datalen = @ + Len(inp)]
  <2>1. Kept(g, x)
    BY <1>4 DEF Kept, IsHandle, Fields
  <2>2. Kept(g, CtrEncrypt(x, inp, x.keyno).h)
    <3> HIDE DEF x
    <3>1. IsHandle(x)
      BY <2>1 DEF Kept
    <3> QED BY <3>1, <2>1, CtrKept, KeptTwice
  <2>3. Poly1305Crypt(g, inp, enc) = IF g.tag \/ g.over THEN Refused(g)
                                     ELSE Poly1305CryptData(x, inp, enc)
    BY DEF Poly1305Crypt
  <2> HIDE DEF x
  <2>4. Kept(g, Poly1305CryptData(x, inp, enc).h)
    BY <2>1, <2>2 DEF Poly1305CryptData, Poly1305MacData, Kept, IsHandle, Fields
  <2> QED BY <2>3, <2>4 DEF Kept
<1>7. Kept(g, Poly1305Tag(g).h)
  BY <1>4 DEF Poly1305Tag, Poly1305Finish, Poly1305TagFrom, Kept, IsHandle, Fields
<1> QED BY <1>1, <1>5, <1>6, <1>7

\* SIV
LEMMA SivKept ==
  ASSUME NEW g, IsHandle(g), NEW inp, NEW iv
  PROVE  /\ Kept(g, SivSetNonce(g, iv).h) /\ Kept(g, SivAuthenticate(g, inp).h)
         /\ Kept(g, SivEncrypt(g, inp).h) /\ Kept(g, SivDecrypt(g, inp).h)
         /\ Kept(g, SivSetDecryptionTag(g, inp).h)
         /\ Kept(g, SivGetTag(g).h) /\ Kept(g, SivCheckTag(g).h)
<1> USE DEF Result, Refused, Done
<1>1. ASSUME NEW b PROVE Kept(g, SivAuthenticate(g, b).h)
  BY DEF SivAuthenticate, Kept, IsHandle, Fields
<1>2. Kept(g, SivSetNonce(g, iv).h)
  BY <1>1 DEF SivSetNonce, Kept, IsHandle, Fields
<1>3. ASSUME NEW v PROVE Kept(g, CtrEncrypt([g EXCEPT !.ctr = v], inp, g.keyno).h)
  <2> DEFINE x == [g EXCEPT !.ctr = v]
  <2>1. Kept(g, x)
    BY DEF Kept, IsHandle, Fields
  <2>2. IsHandle(x)
    BY <2>1 DEF Kept
  <2> HIDE DEF x
  <2>3. Kept(g, CtrEncrypt(x, inp, g.keyno).h)
    BY <2>1, <2>2, CtrKept, KeptTwice
  <2> QED BY <2>3 DEF x
<1>4. Kept(g, SivEncrypt(g, inp).h)
  BY <1>3 DEF SivEncrypt, SivMade, Kept, IsHandle, Fields
<1>5. Kept(g, SivDecrypt(g, inp).h)
  BY <1>3 DEF SivDecrypt, SivCompare, Kept, IsHandle, Fields
<1>6. Kept(g, SivSetDecryptionTag(g, inp).h)
  BY DEF SivSetDecryptionTag, Kept, IsHandle, Fields
<1>7. Kept(g, SivFinish(g))
  BY DEF SivFinish, Kept, IsHandle, Fields
<1> QED BY <1>1, <1>2, <1>4, <1>5, <1>6, <1>7 DEF SivGetTag, SivCheckTag, Kept

\* GCM-SIV
LEMMA GcmSivKept ==
  ASSUME NEW g, IsHandle(g), NEW inp, NEW iv
  PROVE  /\ Kept(g, GcmSivSetNonce(g, iv).h) /\ Kept(g, GcmSivAuthenticate(g, inp).h)
         /\ Kept(g, GcmSivEncrypt(g, inp).h) /\ Kept(g, GcmSivDecrypt(g, inp).h)
         /\ Kept(g, GcmSivSetDecryptionTag(g, inp).h) /\ Kept(g, GcmSivTag(g).h)
<1> USE DEF Result, Refused, Done
<1>1. Kept(g, GcmSivSetNonce(g, iv).h)
  BY DEF GcmSivSetNonce, Kept, IsHandle, Fields
<1>2. Kept(g, GcmSivAuthenticate(g, inp).h)
  BY DEF GcmSivAuthenticate, Kept, IsHandle, Fields
<1>3. ASSUME NEW b PROVE Kept(g, GcmSivBegin(g, b))
  BY DEF GcmSivBegin, GcmAadFinish, Kept, IsHandle, Fields
<1>4. ASSUME NEW x, Kept(g, x), NEW b PROVE Kept(g, GcmSivSeal(x, b).h)
  BY <1>4 DEF GcmSivSeal, GcmSivSealed, Kept, IsHandle, Fields
<1>5. ASSUME NEW b PROVE Kept(g, GcmSivEncrypt(g, b).h)
  BY <1>3, <1>4 DEF GcmSivEncrypt, Kept
<1>6. ASSUME NEW x, Kept(g, x) PROVE Kept(g, GcmSivOpen(x, inp).h)
  BY <1>6 DEF GcmSivOpen, GcmSivOpened, GcmSivCompare, Kept, IsHandle, Fields
<1>7. Kept(g, GcmSivDecrypt(g, inp).h)
  BY <1>3, <1>6 DEF GcmSivDecrypt, Kept
<1>8. Kept(g, GcmSivSetDecryptionTag(g, inp).h)
  BY DEF GcmSivSetDecryptionTag, Kept, IsHandle, Fields
<1>9. ASSUME NEW r, Kept(g, r.h) PROVE Kept(g, GcmSivTagOut(r).h)
  BY <1>9 DEF GcmSivTagOut, Kept, IsHandle, Fields
<1>10. Kept(g, GcmSivTag(g).h)
  <2>1. Kept(g, Done(g).h)
    BY DEF Kept
  <2> QED BY <2>1, <1>5, <1>9 DEF GcmSivTag
<1> QED BY <1>1, <1>2, <1>5, <1>7, <1>8, <1>10

\* Keys and resets: GCM's setkey leaves the nonce and its mark, a reset takes
\* the nonce away.
LEMMA RekeyedKept ==
  ASSUME NEW g, IsHandle(g)
  PROVE  /\ IsHandle(Rekeyed(g))
         /\ mode # "gcmsiv" => Rekeyed(g).fips = g.fips
         /\ mode = "gcmsiv" => ~Rekeyed(g).fips
         /\ mode = "gcm" => Rekeyed(g).iv = g.iv /\ Rekeyed(g).disallow = g.disallow
         /\ Kept(g, WasReset(g)) /\ WasReset(g).iv = FALSE
<1>1. IsHandle(Rekeyed(g)) /\ (mode # "gcmsiv" => Rekeyed(g).fips = g.fips)
  BY OpenedIs DEF Rekeyed, IsHandle, Fields
<1>2. mode = "gcmsiv" => ~Rekeyed(g).fips
  BY OpenedIs DEF Rekeyed, IsHandle, Fields
<1>3. mode = "gcm" => Rekeyed(g).iv = g.iv /\ Rekeyed(g).disallow = g.disallow
  BY DEF Rekeyed, IsHandle, Fields
<1>4. Kept(g, WasReset(g)) /\ WasReset(g).iv = FALSE
  BY OpenedIs DEF WasReset, Kept, IsHandle, Fields
<1> QED BY <1>1, <1>2, <1>3, <1>4

-----------------------------------------------------------------------------
(* Generated IVs *)

\* x is g but for what has nothing to do with the nonce.
SameKey(g, x) == Kept(g, x) /\ x.keyno = g.keyno /\ x.key = g.key
SameIv(g, x) == SameKey(g, x) /\ x.iv = g.iv /\ x.disallow = g.disallow

\* The same, or the default nonce was set meanwhile.
AutoSet(g, x) ==
  SameKey(g, x) /\ (SameIv(g, x) \/ (~g.iv /\ x.disallow = g.fips))

\* One routine after the other.
LEMMA SameIvTwice ==
  ASSUME NEW g, NEW x, NEW y, SameIv(x, y)
  PROVE  (SameIv(g, x) => SameIv(g, y)) /\ (AutoSet(g, x) => AutoSet(g, y))
  BY DEF SameIv, SameKey, AutoSet, Kept

\* Counter mode has nothing to do with the nonce.
LEMMA CtrSameIv ==
  ASSUME NEW g, IsHandle(g), NEW inp, NEW k
  PROVE  SameIv(g, CtrEncrypt(g, inp, k).h)
  BY DEF CtrEncrypt, Result, SameIv, SameKey, Kept, IsHandle, Fields

\* Neither has a turn of gcm_ctr_encrypt,
LEMMA GcmTurnSameIv ==
  ASSUME NEW s, IsHandle(s.h)
  PROVE  SameIv(s.h, GcmCtrTurn(s).h)
<1>1. ASSUME NEW inp, NEW n, NEW w
      PROVE  SameIv(s.h, GcmTurned(s, CtrEncrypt(s.h, inp, s.h.keyno), n, w).h)
  <2> DEFINE x == CtrEncrypt(s.h, inp, s.h.keyno)
  <2>1. SameIv(s.h, x.h)
    BY CtrSameIv
  <2> HIDE DEF x
  <2>2. SameIv(s.h, GcmTurned(s, x, n, w).h)
    BY <2>1 DEF GcmTurned, SameIv, SameKey, Kept, IsHandle, Fields
  <2> QED BY <2>2 DEF x
<1> QED BY <1>1 DEF GcmCtrTurn

\* nor all of it.
LEMMA GcmCtrSameIv ==
  ASSUME NEW g, IsHandle(g), NEW inp
  PROVE  SameIv(g, GcmCtrEncrypt(g, inp).h)
<1> DEFINE s == [h |-> g, in |-> inp, out |-> <<>>]
           t == GcmCtrTurn(s)
<1>1. SameIv(g, t.h)
  <2>1. s.h = g
    OBVIOUS
  <2> HIDE DEF s
  <2> QED BY <2>1, GcmTurnSameIv
<1> HIDE DEF t
<1>2. IsHandle(t.h)
  BY <1>1 DEF SameIv, SameKey, Kept
<1>3. SameIv(t.h, GcmCtrTurn(t).h)
  BY <1>2, GcmTurnSameIv
<1>4. SameIv(g, GcmSecondTurn(t).h)
  BY <1>1, <1>3, SameIvTwice DEF GcmSecondTurn
<1>5. GcmCtrEncrypt(g, inp).h = GcmSecondTurn(t).h
  BY DEF GcmCtrEncrypt, GcmOutput, Result, t
<1> QED BY <1>4, <1>5

\* gcry_cipher_setiv with an IV of length 0 keeps the key, the counter and macbuf.
LEMMA EmptyIvIs ==
  ASSUME NEW g, IsHandle(g)
  PROVE  /\ SameKey(g, GcmSetEmptyIv(g).h) /\ GcmSetEmptyIv(g).h.iv = FALSE
         /\ GcmSetEmptyIv(g).h.tag = FALSE /\ GcmSetEmptyIv(g).h.mac.buf = g.mac.buf
         /\ GcmSetEmptyIv(g).h.dead = g.dead /\ GcmSetEmptyIv(g).h.ctr = g.ctr
         /\ GcmSetEmptyIv(g).h.unused = g.unused
  BY DEF GcmSetEmptyIv, Refused, Result, SameKey, Kept, IsHandle, Fields

\* gcry_cipher_setiv and the default nonce rule encryption out in FIPS mode;
\* gcry_cipher_geniv leaves it as it was.
LEMMA GcmSetsIv ==
  ASSUME NEW g, IsHandle(g), NEW iv
  PROVE  /\ SameKey(g, GcmSetiv(g, iv).h) /\ SameKey(g, GcmGeniv(g, iv).h)
         /\ Kept(g, GcmSetiv(g, iv).h) /\ GcmSetiv(g, iv).h.disallow = g.fips
         /\ Kept(g, GcmGeniv(g, iv).h) /\ GcmGeniv(g, iv).h.disallow = g.disallow
         /\ GcmGeniv(g, iv).h.iv = TRUE
         /\ AutoSet(g, GcmAutoIv(g)) /\ (g.iv => GcmAutoIv(g) = g)
<1>1. ASSUME NEW x, IsHandle(x), NEW i
      PROVE  SameKey(x, GcmInitiv(x, i)) /\ GcmInitiv(x, i).disallow = x.disallow
             /\ GcmInitiv(x, i).iv = TRUE
  BY <1>1 DEF GcmInitiv, GcmHashed, GcmStart, SameKey, Kept, IsHandle, Fields
<1>2. ASSUME NEW i
      PROVE  SameKey(g, GcmSetiv(g, i).h) /\ GcmSetiv(g, i).h.disallow = g.fips
  <2> DEFINE x == [g EXCEPT !.disallow = g.fips]
  <2>1. SameKey(g, x) /\ x.disallow = g.fips
    BY DEF SameKey, Kept, IsHandle, Fields
  <2>2. SameKey(x, GcmInitiv(x, i)) /\ GcmInitiv(x, i).disallow = g.fips
    BY <1>1, <2>1 DEF SameKey, Kept
  <2>3. SameKey(g, GcmInitiv(x, i))
    BY <2>1, <2>2 DEF SameKey, Kept
  <2> HIDE DEF x
  <2> QED BY <2>2, <2>3 DEF GcmSetiv, Done, Refused, Result, SameKey, Kept, IsHandle, Fields, x
<1>3. SameKey(g, GcmGeniv(g, iv).h) /\ GcmGeniv(g, iv).h.disallow = g.disallow
      /\ GcmGeniv(g, iv).h.iv = TRUE
  BY <1>1 DEF GcmGeniv, Done, Result
<1>4. AutoSet(g, GcmAutoIv(g)) /\ (g.iv => GcmAutoIv(g) = g)
  BY <1>2 DEF GcmAutoIv, AutoSet, SameIv, SameKey, Kept
<1> QED BY <1>2, <1>3, <1>4 DEF SameKey

\* The other routines of GCM change nothing about the nonce but that the default
\* one may be set, and none of them encrypts or returns a tag if that is ruled out.
LEMMA GcmKept ==
  ASSUME NEW g, IsHandle(g), NEW inp, NEW enc \in BOOLEAN
  PROVE  /\ AutoSet(g, GcmAuthenticate(g, inp).h)
         /\ AutoSet(g, GcmCrypt(g, inp, enc).h)
         /\ enc /\ GcmCrypt(g, inp, enc).ok => ~GcmCrypt(g, inp, enc).h.disallow
         /\ SameIv(g, GcmTag(g).h) /\ SameIv(g, GcmGetTag(g).h)
         /\ GcmGetTag(g).ok => ~g.disallow
<1> USE DEF Result, Refused, Done
<1> DEFINE a == GcmAutoIv(g)
<1>0. AutoSet(g, a) /\ IsHandle(a) /\ AutoSet(g, g)
  BY GcmSetsIv DEF AutoSet, SameIv, SameKey, Kept
<1> HIDE DEF a
<1>1. AutoSet(g, GcmAuthenticate(g, inp).h)
  <2> DEFINE x == [a EXCEPT !.aadlen = @ + Len(inp)]
  <2>1. SameIv(a, x) /\ SameIv(a, GcmAad(x, inp).h)
    BY <1>0 DEF GcmAad, SameIv, SameKey, Kept, IsHandle, Fields
  <2>2. AutoSet(g, GcmAad(x, inp).h)
    BY <1>0, <2>1, SameIvTwice
  <2> QED BY <2>2, <1>0 DEF GcmAuthenticate, a
<1>2. AutoSet(g, GcmCrypt(g, inp, enc).h)
      /\ (enc /\ GcmCrypt(g, inp, enc).ok => ~GcmCrypt(g, inp, enc).h.disallow)
  <2> DEFINE x == [GcmAadFinish(a) EXCEPT !.datalen = @ + Len(inp)]
             r == GcmCtrEncrypt(x, inp)
  <2>1. SameIv(a, x) /\ IsHandle(x)
    BY <1>0 DEF GcmAadFinish, SameIv, SameKey, Kept, IsHandle, Fields
  <2> HIDE DEF x
  <2>2. SameIv(x, r.h)
    BY <2>1, GcmCtrSameIv
  <2>3. r = Result(r.h, r.ok, r.out)
    BY DEF GcmCtrEncrypt, GcmOutput
  <2> HIDE DEF r
  <2>4. SameIv(x, GcmHashData(r, inp, enc).h)
    BY <2>2 DEF GcmHashData, SameIv, SameKey, Kept, IsHandle, Fields
  <2>5. SameIv(x, GcmCryptData(x, inp, enc).h)
    BY <2>1, <2>4 DEF GcmCryptData, SameIv, SameKey, Kept, IsHandle, Fields, r
  <2>6. SameIv(a, GcmCryptData(x, inp, enc).h)
    BY <2>1, <2>5, SameIvTwice
  <2>7. GcmCryptWithIv(a, inp, enc) = IF enc /\ a.disallow THEN Refused(a)
                                      ELSE GcmCryptData(x, inp, enc)
    BY DEF GcmCryptWithIv, x
  <2>8. SameIv(a, GcmCryptWithIv(a, inp, enc).h)
        /\ (enc /\ GcmCryptWithIv(a, inp, enc).ok => ~a.disallow)
    BY <2>6, <2>7, <1>0 DEF SameIv, SameKey, Kept
  <2>9. AutoSet(g, GcmCryptWithIv(a, inp, enc).h)
        /\ GcmCryptWithIv(a, inp, enc).h.disallow = a.disallow
    BY <2>8, <1>0, SameIvTwice DEF SameIv
  <2> QED BY <2>8, <2>9, <1>0 DEF GcmCrypt, a
<1>3. SameIv(g, GcmTag(g).h)
  BY DEF GcmTag, GcmTagFrom, SameIv, SameKey, Kept, IsHandle, Fields
<1>4. SameIv(g, GcmGetTag(g).h) /\ (GcmGetTag(g).ok => ~g.disallow)
  BY <1>3 DEF GcmGetTag, SameIv, SameKey, Kept
<1> QED BY <1>1, <1>2, <1>3, <1>4

\* Every routine of every mode returns a handle with the FIPS mark it had.
LEMMA RoutinesKept ==
  ASSUME mode \in Modes, NEW g, IsHandle(g), NEW inp, NEW iv,
         NEW enc \in BOOLEAN, NEW check \in BOOLEAN
  PROVE  /\ Kept(g, Setiv(g, iv).h) /\ Kept(g, Authenticate(g, inp).h)
         /\ Kept(g, Crypt(g, inp, enc).h) /\ Kept(g, MakeTag(g, check).h)
<1>1. CASE mode = "gcm"
  BY <1>1, GcmSetsIv, GcmKept DEF Setiv, Authenticate, Crypt, MakeTag, SameIv, SameKey, AutoSet
<1>2. CASE mode = "ccm"
  BY <1>2, CcmKept DEF Setiv, Authenticate, Crypt, MakeTag
<1>3. CASE mode = "eax"
  BY <1>3, EaxKept DEF Setiv, Authenticate, Crypt, MakeTag
<1>4. CASE mode = "ocb"
  BY <1>4, OcbKept DEF Setiv, Authenticate, Crypt, MakeTag
<1>5. CASE mode = "poly1305"
  BY <1>5, PolyKept DEF Setiv, Authenticate, Crypt, MakeTag
<1>6. CASE mode = "siv"
  BY <1>6, SivKept DEF Setiv, Authenticate, Crypt, MakeTag
<1>7. CASE mode = "gcmsiv"
  BY <1>7, GcmSivKept DEF Setiv, Authenticate, Crypt, MakeTag
<1> QED BY <1>1, <1>2, <1>3, <1>4, <1>5, <1>6, <1>7, HandleAssumption

\* The fields of a message.
MsgFields == {"no", "iv", "key", "whole", "clean", "generated", "taglen",
              "parts", "aad", "data", "way", "used", "refused"}

\* A handle in FIPS mode that may encrypt has a nonce it made itself.
GenInv ==
  /\ mode \in Modes
  /\ IsHandle(h)
  /\ DOMAIN msg = MsgFields
  /\ h.fips => mode = "gcm"
  /\ h.fips /\ h.iv /\ ~h.disallow => msg.generated
  /\ GeneratedIvs

\* The fields of a new message.
LEMMA MessageIs ==
  ASSUME NEW no, NEW iv, NEW g, NEW clean
  PROVE  DOMAIN Message(no, iv, g, clean) = MsgFields
  BY DEF Message, MsgFields

\* The invariant holds of an opened handle.
LEMMA GenInit == Init => GenInv
<1> SUFFICES ASSUME Init PROVE GenInv
  OBVIOUS
<1>1. PICK fips \in BOOLEAN : (fips => mode = "gcm") /\ h = [Opened EXCEPT !.fips = fips]
  BY DEF Init
<1>2. IsHandle(h) /\ h.fips = fips /\ h.iv = FALSE
  BY <1>1, OpenedIs DEF IsHandle, Fields
<1>3. DOMAIN msg = MsgFields
  BY MessageIs DEF Init
<1> QED BY <1>1, <1>2, <1>3 DEF Init, GenInv, GeneratedIvs

\* The message after a call: the one before or a new one.
LEMMA CurrentIs ==
  ASSUME DOMAIN msg = MsgFields
  PROVE  DOMAIN Current = MsgFields /\ (h.iv => Current = msg)
  BY MessageIs DEF Current

\* Every call keeps it.
LEMMA GenNext == GenInv /\ [Next]_vars => GenInv'
<1> SUFFICES ASSUME GenInv, [Next]_vars PROVE GenInv'
  OBVIOUS
<1> USE DEF GenInv
<1>1. CASE SetKey
  <2>1. IsHandle(h') /\ (h'.fips => h.fips) /\ mode' = mode /\ last' = Nothing
        /\ (mode = "gcm" => h'.iv = h.iv /\ h'.disallow = h.disallow)
    BY <1>1, RekeyedKept DEF SetKey
  <2>2. DOMAIN msg' = MsgFields /\ (mode = "gcm" => msg'.generated = msg.generated)
    BY <1>1, MessageIs DEF SetKey, NextMessage, MsgFields
  <2> QED BY <2>1, <2>2 DEF GeneratedIvs, Nothing
<1>2. CASE SetBadKey
  <2>1. IsHandle(h') /\ h'.fips = h.fips /\ mode' = mode /\ last' = Nothing
        /\ h'.iv = h.iv /\ h'.disallow = h.disallow
    BY <1>2 DEF SetBadKey, IsHandle, Fields
  <2>2. DOMAIN msg' = MsgFields /\ msg'.generated = msg.generated
    BY <1>2 DEF SetBadKey, MsgFields
  <2> QED BY <2>1, <2>2 DEF GeneratedIvs, Nothing
<1>3. CASE GenIv
  <2>0. Kept(h, GcmGeniv(h, Nonce(100 + dynamic, FALSE)).h)
    BY GcmSetsIv
  <2>1. IsHandle(h') /\ h'.fips = h.fips /\ mode' = mode /\ last' = Nothing
    BY <1>3, <2>0 DEF GenIv, Kept
  <2>2. DOMAIN msg' = MsgFields /\ msg'.generated = TRUE
    BY <1>3, MessageIs DEF GenIv, MsgFields
  <2> QED BY <2>1, <2>2 DEF GeneratedIvs, Nothing
<1>4. CASE GetTag
  <2>1. PICK m \in {Current}, r \in {MakeTag(h, FALSE)} :
          /\ h' = r.h /\ msg' = (IF r.h.iv # h.iv THEN m ELSE msg)
          /\ last' = (IF r.ok THEN Returned("gettag", TRUE, r.h.val) ELSE Nothing)
          /\ mode' = mode
    BY <1>4 DEF GetTag
  <2>2. IsHandle(h') /\ h'.fips = h.fips /\ DOMAIN msg' = MsgFields
    BY <2>1, RoutinesKept, CurrentIs DEF Kept
  <2>3. CASE ~h.fips
    BY <2>1, <2>2, <2>3 DEF GeneratedIvs
  <2>4. CASE h.fips
    <3>1. r = GcmGetTag(h)
      BY <2>1, <2>4 DEF MakeTag
    <3>2. h'.iv = h.iv /\ h'.disallow = h.disallow /\ msg' = msg
      BY <3>1, <2>1, GcmKept DEF SameIv
    <3>3. r.ok => ~h.disallow
      BY <3>1, GcmKept
    <3>4. ~r.ok => last'.op = "none"
      BY <2>1 DEF Nothing
    <3> QED BY <2>1, <2>2, <2>4, <3>2, <3>3, <3>4 DEF GeneratedIvs
  <2> QED BY <2>3, <2>4
<1>5. CASE Finalize
  BY <1>5 DEF Finalize, GeneratedIvs, Nothing, IsHandle, Fields
<1>6. CASE Reset
  <2>1. IsHandle(h') /\ h'.fips = h.fips /\ h'.iv = FALSE /\ mode' = mode /\ last' = Nothing
    BY <1>6, RekeyedKept DEF Reset, Kept
  <2>2. DOMAIN msg' = MsgFields
    <3> DEFINE m == NextMessage(h', TRUE)
    <3>1. DOMAIN m = MsgFields
      BY MessageIs DEF NextMessage, MsgFields
    <3> HIDE DEF m
    <3>2. DOMAIN Forgotten(m) = MsgFields
      BY <3>1 DEF Forgotten, MsgFields
    <3> QED BY <3>2, <1>6 DEF Reset, m
  <2> QED BY <2>1, <2>2 DEF GeneratedIvs, Nothing
<1>7. ASSUME NEW hashed \in BOOLEAN, SetIv(hashed) PROVE GenInv'
  <2> DEFINE iv == Nonce(msg.no + 1, hashed)
  <2>1. PICK r \in {Setiv(h, iv)} :
          /\ h' = r.h
          /\ msg' = IF ~r.ok THEN msg
                    ELSE IF mode = "siv"
                    THEN [msg EXCEPT !.iv = iv, !.parts = Append(@, IvBytes(iv))]
                    ELSE Message(msg.no + 1, iv, h, Clean)
          /\ last' = Nothing /\ mode' = mode
    BY <1>7 DEF SetIv
  <2> HIDE DEF iv
  <2>2. IsHandle(h') /\ h'.fips = h.fips
    BY <2>1, RoutinesKept DEF Kept
  <2>3. DOMAIN msg' = MsgFields
    BY <2>1, MessageIs DEF MsgFields
  <2>4. h.fips => h'.disallow
    <3>1. GcmSetiv(h, iv).h.disallow = h.fips
      BY GcmSetsIv
    <3> QED BY <2>1, <3>1 DEF Setiv
  <2> QED BY <2>1, <2>2, <2>3, <2>4 DEF GeneratedIvs, Nothing
<1>8. ASSUME NEW n \in AadChunks, DoAuthenticate(n) PROVE GenInv'
  <2> DEFINE m == Current
             inp == AadBytes(m.no, m.aad, n)
             r == Authenticate(h, inp)
  <2>1. /\ h' = r.h
        /\ msg' = (IF r.ok
                   THEN [m EXCEPT !.aad = @ + n,
                                  !.parts = IF mode = "siv" THEN Append(@, inp) ELSE @,
                                  !.clean = @ /\ (mode = "ccm" => m.data = 0)]
                   ELSE IF r.h.iv # h.iv THEN m ELSE msg)
        /\ last' = Nothing /\ mode' = mode
    BY <1>8 DEF DoAuthenticate
  <2>a. DOMAIN m = MsgFields /\ (h.iv => m = msg)
    BY CurrentIs
  <2>b. Kept(h, r.h) /\ (h.fips => r = GcmAuthenticate(h, inp))
    BY RoutinesKept DEF Authenticate
  <2> HIDE DEF m, inp, r
  <2>2. IsHandle(h') /\ h'.fips = h.fips
    BY <2>1, <2>b DEF Kept
  <2>3. DOMAIN msg' = MsgFields
    BY <2>1, <2>a DEF MsgFields
  <2>4. ASSUME h.fips, h'.iv, ~h'.disallow PROVE msg'.generated
    <3>1. r = GcmAuthenticate(h, inp)
      BY <2>b, <2>4
    <3>2. h'.iv = h.iv /\ h'.disallow = h.disallow
      BY <3>1, <2>1, <2>4, GcmKept DEF AutoSet, SameIv
    <3>3. m = msg /\ msg.generated
      BY <3>2, <2>a, <2>4
    <3> QED BY <3>3, <2>1 DEF MsgFields
  <2> QED BY <2>1, <2>2, <2>3, <2>4 DEF GeneratedIvs, Nothing
<1>9. ASSUME NEW n \in DataChunks, NEW way \in {"encrypt", "decrypt"}, DoCrypt(n, way)
      PROVE  GenInv'
  <2>1. PICK m \in {[Current EXCEPT !.way = way]} : \E r \in {Crypt(h, Input(m, n), way = "encrypt")} :
          /\ h' = r.h /\ msg' = Crypted(m, n, r)
          /\ last' = (IF r.ok \/ (mode \in OneShot /\ way = "decrypt")
                     THEN [op |-> way, ok |-> r.ok, value |-> r.out, tag |-> h.tagiv]
                     ELSE Nothing)
          /\ mode' = mode
    BY <1>9 DEF DoCrypt
  <2> DEFINE enc == way = "encrypt"
             r == Crypt(h, Input(m, n), enc)
  <2>2. /\ h' = r.h /\ msg' = Crypted(m, n, r) /\ mode' = mode
        /\ last' = (IF r.ok \/ (mode \in OneShot /\ way = "decrypt")
                    THEN [op |-> way, ok |-> r.ok, value |-> r.out, tag |-> h.tagiv]
                    ELSE Nothing)
    BY <2>1
  <2>3. IsHandle(h') /\ h'.fips = h.fips
    BY <2>2, RoutinesKept DEF Kept
  <2>4. /\ DOMAIN m = MsgFields /\ (h.iv => m.generated = msg.generated)
    BY <2>1, CurrentIs DEF MsgFields
  <2>5. ASSUME h.fips
        PROVE  /\ r = GcmCrypt(h, Input(m, n), enc)
               /\ AutoSet(h, r.h) /\ (enc /\ r.ok => ~r.h.disallow)
    <3>1. r = GcmCrypt(h, Input(m, n), enc)
      BY <2>5 DEF Crypt
    <3> HIDE DEF r
    <3> QED BY <3>1, GcmKept
  <2> HIDE DEF r
  <2>6. DOMAIN msg' = MsgFields
    BY <2>2, <2>4 DEF Crypted, MsgFields
  <2>7. ASSUME h.fips, h'.iv, ~h'.disallow PROVE msg'.generated
    <3>1. h'.iv = h.iv /\ h'.disallow = h.disallow
      BY <2>2, <2>5, <2>7 DEF AutoSet, SameIv
    <3>2. m.generated /\ msg.generated
      BY <3>1, <2>4, <2>7
    <3> QED BY <3>2, <2>2, <2>4 DEF Crypted, MsgFields
  <2>8. ASSUME h'.fips, h'.iv, last'.op \in {"encrypt", "gettag"} PROVE msg'.generated
    <3>1. r.ok /\ enc
      BY <2>2, <2>3, <2>8 DEF Nothing, OneShot
    <3> QED BY <3>1, <2>2, <2>3, <2>5, <2>7, <2>8
  <2> QED BY <2>2, <2>3, <2>6, <2>7, <2>8 DEF GeneratedIvs
<1>10. ASSUME NEW forged \in BOOLEAN, CheckTag(forged) PROVE GenInv'
  <2>1. \E tag : \E m \in {Current}, r \in {MakeTag(h, TRUE)} :
          /\ h' = r.h /\ msg' = (IF r.h.iv # h.iv THEN m ELSE msg)
          /\ last' = (IF r.ok THEN Returned("checktag", r.h.val = tag, tag) ELSE Nothing)
          /\ mode' = mode
    BY <1>10 DEF CheckTag
  <2>0. PICK tag : \E m \in {Current}, r \in {MakeTag(h, TRUE)} :
          /\ h' = r.h /\ msg' = (IF r.h.iv # h.iv THEN m ELSE msg)
          /\ last' = (IF r.ok THEN Returned("checktag", r.h.val = tag, tag) ELSE Nothing)
          /\ mode' = mode
    BY <2>1
  <2>a. Kept(h, MakeTag(h, TRUE).h)
    BY RoutinesKept
  <2>2. IsHandle(h') /\ h'.fips = h.fips /\ DOMAIN msg' = MsgFields
    BY <2>0, <2>a, CurrentIs DEF Kept
  <2>3. last'.op \in {"checktag", "none"}
    BY <2>0 DEF Returned, Nothing
  <2>4. ASSUME h.fips PROVE h'.iv = h.iv /\ h'.disallow = h.disallow /\ msg' = msg
    <3>1. MakeTag(h, TRUE) = GcmTag(h)
      BY <2>4 DEF MakeTag
    <3>2. SameIv(h, GcmTag(h).h)
      BY GcmKept
    <3> QED BY <3>1, <3>2, <2>0 DEF SameIv
  <2> QED BY <2>0, <2>2, <2>3, <2>4 DEF GeneratedIvs
<1>11. ASSUME NEW data \in DataChunks, NEW aad \in AadChunks, SetLengths(data, aad)
       PROVE  GenInv'
  <2>1. IsHandle(h') /\ h'.fips = h.fips
    BY <1>11, CcmKept DEF SetLengths, Kept
  <2> QED BY <2>1, <1>11 DEF SetLengths, GeneratedIvs, Nothing
<1>12. ASSUME NEW n \in {8, 16}, SetTaglen(n) PROVE GenInv'
  BY <1>12 DEF SetTaglen, GeneratedIvs, Nothing, IsHandle, Fields
<1>13. ASSUME NEW n \in DataChunks, NEW forged \in BOOLEAN, SetDecryptionTag(n, forged)
       PROVE  GenInv'
  <2>1. IsHandle(h') /\ h'.fips = h.fips
    BY <1>13, SivKept, GcmSivKept DEF SetDecryptionTag, Kept
  <2> QED BY <2>1, <1>13 DEF SetDecryptionTag, GeneratedIvs, Nothing, OneShot
<1>14. CASE UNCHANGED vars
  BY <1>14 DEF vars, GeneratedIvs
<1>15. CASE SetEmptyIv
  <2>1. IsHandle(h') /\ h'.fips = h.fips /\ mode' = mode /\ last' = Nothing /\ h'.iv = FALSE
    BY <1>15, EmptyIvIs DEF SetEmptyIv, SameKey, Kept
  <2>2. DOMAIN msg' = MsgFields
    BY <1>15 DEF SetEmptyIv, MsgFields
  <2> QED BY <2>1, <2>2 DEF GeneratedIvs, Nothing
<1> QED BY <1>1, <1>2, <1>3, <1>4, <1>5, <1>6, <1>7, <1>8, <1>9, <1>10, <1>11,
           <1>12, <1>13, <1>14, <1>15 DEF Next

\* In FIPS mode GCM neither encrypts nor hands out a tag under an IV the caller
\* or the default chose, whatever was called on the handle before: the mark that
\* setiv leaves (disallow_encryption_because_of_setiv_in_fips_mode) outlives keys,
\* AAD, data and tags, and only a reset, which forgets the IV too, takes it back.
THEOREM CipherGeneratedIvs == Spec => []GeneratedIvs
<1>1. GenInv => GeneratedIvs
  BY DEF GenInv
<1> QED BY <1>1, GenInit, GenNext, PTL DEF Spec

-----------------------------------------------------------------------------
(***************************************************************************)
(* GCM, by its definition: however a message is cut into calls, its output *)
(* and its tag are those of the whole, and its key stream is used once.    *)
(* For any length of a block, modulus of the counter, limits and chunks.   *)
(*                                                                         *)
(* The argument goes from counter mode (cipher-ctr.c), which stands at a   *)
(* place of the key stream (Placed) and goes on from there, to             *)
(* gcm_ctr_encrypt, which keeps to it across the overflow of the counter   *)
(* (GcmCtrIs), to what a message has made of a handle (GcmWhole), which    *)
(* every routine of GCM keeps, and to the calls (GcmInv).                  *)
(***************************************************************************)


(* Numbers and places *)

\* Sums of rests.
LEMMA ModAdd ==
  ASSUME NEW M \in Nat \ {0}, NEW x \in Nat, NEW j \in Nat
  PROVE  /\ ((x % M) + j) % M = (x + j) % M
         /\ (x \div M) + (((x % M) + j) \div M) = (x + j) \div M
<1>1. PICK q \in Nat, r \in 0..(M - 1) : x = M * q + r /\ x \div M = q /\ x % M = r
  BY DivMod
<1>2. PICK p \in Nat, s \in 0..(M - 1) :
        r + j = M * p + s /\ (r + j) \div M = p /\ (r + j) % M = s
  <2>1. r + j \in Nat
    OBVIOUS
  <2> QED BY <2>1, DivMod
<1>3. M * (q + p) = M * q + M * p /\ M * q \in Int /\ M * p \in Int
  BY MultAdd
<1>4. x + j = M * (q + p) + s /\ x + j \in Nat /\ q + p \in Nat
  <2> HIDE <1>1, <1>2, <1>3
  <2>1. x = M * q + r /\ r + j = M * p + s
    BY <1>1, <1>2
  <2> QED BY <1>3, <2>1
<1>5. (x + j) \div M = q + p /\ (x + j) % M = s
  BY <1>4, DivUnique
<1> QED BY <1>1, <1>2, <1>5

\* Where byte i behind place d is, if u bytes are left of block q.
LEMMA PlaceOld ==
  ASSUME NEW d \in Nat, NEW q \in Nat, NEW u \in 0..(BlockLen - 1), d + u = BlockLen * q,
         NEW i \in 1..u
  PROVE  /\ q >= 1 /\ (d + i - 1) \div BlockLen = q - 1
         /\ (d + i - 1) % BlockLen = BlockLen - u + i - 1
<1>0. BlockLen \in Nat \ {0}
  BY BlockLenAssumption
<1>1. q # 0
  <2>1. BlockLen * 0 = 0
    BY <1>0
  <2> QED BY <2>1
<1>2. q - 1 \in Nat /\ BlockLen * (q - 1 + 1) = BlockLen * (q - 1) + BlockLen * 1
      /\ q - 1 + 1 = q /\ BlockLen * 1 = BlockLen /\ BlockLen * (q - 1) \in Int
  BY <1>0, <1>1, MultAdd
<1>3. d + i - 1 = BlockLen * (q - 1) + (BlockLen - u + i - 1)
  <2>1. BlockLen * q = BlockLen * (q - 1) + BlockLen
    BY <1>2
  <2> QED BY <2>1, <1>0, <1>2
<1>4. BlockLen - u + i - 1 \in 0..(BlockLen - 1) /\ d + i - 1 \in Nat
  BY <1>0
<1>5. (d + i - 1) \div BlockLen = q - 1 /\ (d + i - 1) % BlockLen = BlockLen - u + i - 1
  <2> DEFINE x == d + i - 1
             y == BlockLen - u + i - 1
             p == q - 1
  <2>1. x \in Nat /\ p \in Nat /\ y \in 0..(BlockLen - 1) /\ x = BlockLen * p + y
    BY <1>2, <1>3, <1>4
  <2> HIDE DEF x, y, p
  <2>2. x \div BlockLen = p /\ x % BlockLen = y
    BY ONLY <1>0, <2>1, DivUnique
  <2> QED BY ONLY <2>2 DEF x, y, p
<1>6. q >= 1
  BY <1>1
<1> QED BY ONLY <1>5, <1>6

\* The same for a byte of block b of those that follow.
LEMMA PlaceNew ==
  ASSUME NEW d \in Nat, NEW q \in Nat, NEW u \in 0..(BlockLen - 1), d + u = BlockLen * q,
         NEW b \in Nat, NEW o \in 0..(BlockLen - 1), NEW i \in Nat, i - u - 1 = BlockLen * b + o
  PROVE  (d + i - 1) \div BlockLen = q + b /\ (d + i - 1) % BlockLen = o
<1>0. BlockLen \in Nat \ {0}
  BY BlockLenAssumption
<1>1. BlockLen * (q + b) = BlockLen * q + BlockLen * b /\ BlockLen * q \in Int
      /\ BlockLen * b \in Int /\ BlockLen * b >= 0 /\ BlockLen * q >= 0
  BY <1>0, MultAdd
<1>2. d + i - 1 = BlockLen * (q + b) + o /\ d + i - 1 \in Nat /\ q + b \in Nat
  BY <1>0, <1>1
<1> DEFINE x == d + i - 1
           p == q + b
<1>3. x \in Nat /\ p \in Nat /\ o \in 0..(BlockLen - 1) /\ x = BlockLen * p + o
  BY <1>2
<1> HIDE DEF x, p
<1>4. x \div BlockLen = p /\ x % BlockLen = o
  BY ONLY <1>0, <1>3, DivUnique
<1> QED BY ONLY <1>4 DEF x, p

\* How many blocks n bytes take if u are left of the last one, and what is left
\* of the last block then.
Run(n, u, blocks, v) ==
  /\ blocks \in Nat /\ v \in 0..(BlockLen - 1)
  /\ n + v = u + BlockLen * blocks

\* There is such a number, and it is what the code computes.
LEMMA RunIs ==
  ASSUME NEW n \in Nat, NEW u \in 0..(BlockLen - 1)
  PROVE  \E blocks, v :
           LET m == Lesser(u, n)
               r == n - m
           IN  /\ Run(n, u, blocks, v)
               /\ m \in Nat /\ r \in Nat
               /\ (r + BlockLen - 1) \div BlockLen = blocks
               /\ (r % BlockLen > 0 => v = BlockLen - (r % BlockLen) /\ blocks > 0
                                       /\ r \div BlockLen = blocks - 1)
               /\ (~(r % BlockLen > 0) => v = u - m /\ (v > 0 => blocks = 0))
               /\ (n > u => m = u) /\ (n <= u => m = n /\ blocks = 0)
               /\ r % BlockLen \in 0..(BlockLen - 1)
<1>0. BlockLen \in Nat \ {0} /\ BlockLen - 1 \in 0..(BlockLen - 1)
  BY BlockLenAssumption
<1> DEFINE m == Lesser(u, n)
           r == n - m
<1>1. m \in Nat /\ m <= u /\ m <= n /\ (n > u => m = u) /\ (n <= u => m = n)
  BY <1>0 DEF Lesser
<1> HIDE DEF m
<1>2. r \in Nat
  BY <1>1
<1>3. PICK q \in Nat, s \in 0..(BlockLen - 1) :
        r = BlockLen * q + s /\ r \div BlockLen = q /\ r % BlockLen = s
  BY <1>0, <1>2, DivMod
<1>4. BlockLen * q \in Nat /\ BlockLen * (q + 1) = BlockLen * q + BlockLen
  <2>1. BlockLen * q \in Int /\ BlockLen * q >= 0
        /\ BlockLen * (q + 1) = BlockLen * q + BlockLen * 1 /\ BlockLen * 1 = BlockLen
    BY <1>0, MultAdd
  <2> QED BY <2>1
<1>n. n = r + m
  BY <1>1, <1>0
<1> HIDE DEF r
<1>5. CASE s = 0
  <2>1. r + BlockLen - 1 = BlockLen * q + (BlockLen - 1) /\ r + BlockLen - 1 \in Nat
    BY <1>0, <1>2, <1>3, <1>4, <1>5
  <2>2. (r + BlockLen - 1) \div BlockLen = q
    BY <2>1, <1>0, DivUnique
  <2>3. n <= u => q = 0
    <3> SUFFICES ASSUME n <= u PROVE q = 0
      OBVIOUS
    <3>1. r = 0
      BY <1>1, <1>n, <1>2
    <3>2. 0 \div BlockLen = 0
      <4>1. 0 = BlockLen * 0 + 0 /\ 0 \in 0..(BlockLen - 1)
        BY <1>0
      <4> QED BY <4>1, <1>0, DivUnique
    <3> QED BY <3>1, <3>2, <1>3
  <2>4. Run(n, u, q, u - m)
    <3>1. u - m \in 0..(BlockLen - 1)
      BY <1>0, <1>1
    <3>2. n + (u - m) = u + BlockLen * q
      BY <1>n, <1>0, <1>1, <1>2, <1>3, <1>4, <1>5
    <3> QED BY <3>1, <3>2 DEF Run
  <2>5. u - m > 0 => q = 0
    BY <2>3, <1>1, <1>0
  <2>6. r % BlockLen = 0
    BY <1>3, <1>5
  <2> QED BY <2>2, <2>3, <2>4, <2>5, <2>6, <1>0, <1>1, <1>2 DEF m, r
<1>6. CASE s # 0
  <2>1. r + BlockLen - 1 = BlockLen * (q + 1) + (s - 1) /\ r + BlockLen - 1 \in Nat
    BY <1>0, <1>2, <1>3, <1>4, <1>6
  <2>2. (r + BlockLen - 1) \div BlockLen = q + 1
    <3>1. q + 1 \in Nat /\ s - 1 \in 0..(BlockLen - 1)
      BY <1>6, <1>0
    <3> QED BY <2>1, <3>1, <1>0, DivUnique
  <2>3. n > u
    <3>1. r > 0
      BY <1>3, <1>4, <1>6
    <3> QED BY <3>1, <1>n, <1>1, <1>2, <1>0
  <2>4. Run(n, u, q + 1, BlockLen - s)
    <3>1. BlockLen - s \in 0..(BlockLen - 1) /\ q + 1 \in Nat
      BY <1>0, <1>6
    <3>2. n + (BlockLen - s) = u + BlockLen * (q + 1)
      BY <2>3, <1>n, <1>0, <1>1, <1>2, <1>3, <1>4
    <3> QED BY <3>1, <3>2 DEF Run
  <2>5. r % BlockLen = s /\ s > 0 /\ r \div BlockLen = (q + 1) - 1 /\ q + 1 > 0
    BY <1>3, <1>6
  <2>6. ~(n <= u)
    BY <2>3, <1>0
  <2> QED BY <2>2, <2>3, <2>4, <2>5, <2>6, <1>0, <1>1, <1>2 DEF m, r
<1> QED BY <1>5, <1>6

\* Multiplication keeps the order.
LEMMA MultMono ==
  ASSUME NEW d \in Nat, NEW a \in Int, NEW b \in Int, a <= b
  PROVE  d * a <= d * b
  OBVIOUS

-----------------------------------------------------------------------------
(* Counter mode and the key stream *)

\* x is g but for the fields in S.
Same(g, x, S) == IsHandle(x) /\ \A f \in Fields \ S : x[f] = g[f]

\* What counter mode has made of the handle, and the bytes it made.
CtrRan(g, inp, k, r, blocks, v) ==
  /\ Run(Len(inp), g.unused, blocks, v)
  /\ r.ok /\ IsSeq(r.out) /\ Len(r.out) = Len(inp)
  /\ Same(g, r.h, {"ctr", "last", "unused"})
  /\ r.h.ctr = Inc(g.ctr, blocks) /\ r.h.unused = v
  /\ v > 0 => r.h.last = IF blocks = 0 THEN g.last
                         ELSE [k |-> k, ctr |-> Inc(g.ctr, blocks - 1)]
  /\ Len(inp) <= g.unused => blocks = 0
  /\ \A i \in 1..Len(inp) : i <= g.unused =>
       r.out[i] = Xor(KeyByte(g.last, BlockLen - g.unused + i), inp[i])
  /\ \A i \in 1..Len(inp) : i > g.unused =>
       \E b \in Nat, o \in 0..(BlockLen - 1) :
         /\ b < blocks /\ i - g.unused - 1 = BlockLen * b + o
         /\ r.out[i] = Xor(KeyByte([k |-> k, ctr |-> Inc(g.ctr, b)], o + 1), inp[i])

\* _gcry_cipher_ctr_encrypt_ctx: the rest of the last block, then new ones.
LEMMA CtrEncryptIs ==
  ASSUME NEW g, IsHandle(g), NEW inp, IsSeq(inp), NEW k, g.unused \in 0..(BlockLen - 1)
  PROVE  \E blocks, v : CtrRan(g, inp, k, CtrEncrypt(g, inp, k), blocks, v)
<1>0. BlockLen \in Nat \ {0} /\ Len(inp) \in Nat
  BY BlockLenAssumption, IsSeqLen
<1> DEFINE u == g.unused
           m == Lesser(u, Len(inp))
           r == Len(inp) - m
           At(j) == [k |-> k, ctr |-> Inc(g.ctr, j)]
           ks(i) == IF i <= m THEN KeyByte(g.last, BlockLen - g.unused + i)
                    ELSE KeyByte(At((i - m - 1) \div BlockLen),
                                 ((i - m - 1) % BlockLen) + 1)
           x == [g EXCEPT
                   !.ctr = Inc(@, (r + BlockLen - 1) \div BlockLen),
                   !.last = IF r % BlockLen > 0 THEN At(r \div BlockLen)
                            ELSE IF g.unused = m THEN NoBlock ELSE @,
                   !.unused = IF r % BlockLen > 0 THEN BlockLen - (r % BlockLen) ELSE @ - m]
           out == [i \in 1..Len(inp) |-> Xor(ks(i), inp[i])]
<1>1. CtrEncrypt(g, inp, k) = Result(x, TRUE, out)
  BY DEF CtrEncrypt
<1>2. PICK blocks, v :
               /\ Run(Len(inp), u, blocks, v)
               /\ m \in Nat /\ r \in Nat
               /\ (r + BlockLen - 1) \div BlockLen = blocks
               /\ (r % BlockLen > 0 => v = BlockLen - (r % BlockLen) /\ blocks > 0
                                       /\ r \div BlockLen = blocks - 1)
               /\ (~(r % BlockLen > 0) => v = u - m /\ (v > 0 => blocks = 0))
               /\ (Len(inp) > u => m = u) /\ (Len(inp) <= u => m = Len(inp) /\ blocks = 0)
               /\ r % BlockLen \in 0..(BlockLen - 1)
  BY <1>0, RunIs
<1> HIDE DEF m, r
<1>3. Same(g, x, {"ctr", "last", "unused"})
  BY DEF Same, IsHandle, Fields
<1>4. x.ctr = Inc(g.ctr, blocks) /\ x.unused = v
  BY <1>2 DEF IsHandle, Fields
<1>5. v > 0 => x.last = IF blocks = 0 THEN g.last ELSE At(blocks - 1)
  <2>0. x.last = IF r % BlockLen > 0 THEN At(r \div BlockLen)
                 ELSE IF g.unused = m THEN NoBlock ELSE g.last
    BY DEF IsHandle, Fields
  <2> HIDE DEF x, At
  <2>1. CASE r % BlockLen > 0
    BY <2>0, <2>1, <1>2
  <2>2. CASE ~(r % BlockLen > 0)
    <3>1. v > 0 => blocks = 0 /\ g.unused # m
      BY <2>2, <1>2, <1>0
    <3> QED BY <3>1, <2>0, <2>2
  <2> QED BY <2>1, <2>2
<1>6. IsSeq(out) /\ Len(out) = Len(inp) /\ \A i \in 1..Len(inp) : out[i] = Xor(ks(i), inp[i])
  <2>1. \A i \in 1..Len(inp) : out[i] = Xor(ks(i), inp[i])
    OBVIOUS
  <2>2. DOMAIN out = 1..Len(inp) /\ out = [i \in 1..Len(inp) |-> out[i]]
    BY Zenon
  <2> HIDE DEF out
  <2> QED BY <2>1, <2>2, <1>0, SeqFcn
<1> HIDE DEF x, out
<1>7. ASSUME NEW i \in 1..Len(inp), i <= u
      PROVE  out[i] = Xor(KeyByte(g.last, BlockLen - g.unused + i), inp[i])
  <2>1. i <= m
    BY <1>0, <1>2, <1>7
  <2> QED BY <2>1, <1>6
<1>8. ASSUME NEW i \in 1..Len(inp), i > u
      PROVE  \E b \in Nat, o \in 0..(BlockLen - 1) :
         /\ b < blocks /\ i - g.unused - 1 = BlockLen * b + o
         /\ out[i] = Xor(KeyByte([k |-> k, ctr |-> Inc(g.ctr, b)], o + 1), inp[i])
  <2>1. m = u /\ ~(i <= m) /\ i - m - 1 \in Nat /\ i - m - 1 = i - u - 1
    BY <1>0, <1>2, <1>8
  <2>2. PICK b \in Nat, o \in 0..(BlockLen - 1) :
          /\ i - m - 1 = BlockLen * b + o
          /\ (i - m - 1) \div BlockLen = b /\ (i - m - 1) % BlockLen = o
    BY <2>1, <1>0, DivMod
  <2>3. out[i] = Xor(KeyByte([k |-> k, ctr |-> Inc(g.ctr, b)], o + 1), inp[i])
    BY <2>1, <2>2, <1>6
  <2>4. b < blocks
    <3>1. SUFFICES ASSUME blocks <= b PROVE FALSE
      BY <1>2 DEF Run
    <3>2. BlockLen * blocks <= BlockLen * b
      BY <3>1, <1>0, <1>2, MultMono DEF Run
    <3>3. BlockLen * blocks \in Int /\ BlockLen * b \in Int /\ blocks \in Nat
      BY <1>0, <1>2, MultAdd DEF Run
    <3>4. i - u - 1 = BlockLen * b + o /\ Len(inp) + v = u + BlockLen * blocks
          /\ v \in 0..(BlockLen - 1)
      BY <2>1, <2>2, <1>2 DEF Run
    <3> HIDE DEF u
    <3>5. u \in 0..(BlockLen - 1)
      BY DEF u
    <3> QED BY <3>2, <3>3, <3>4, <3>5, <1>0
  <2> QED BY <2>1, <2>2, <2>3, <2>4
<1>9. CtrRan(g, inp, k, Result(x, TRUE, out), blocks, v)
  BY <1>2, <1>3, <1>4, <1>5, <1>6, <1>7, <1>8 DEF CtrRan, Result
<1> QED BY <1>1, <1>9

\* Counter block j of a message whose first one ends in lo, and byte i of its key
\* stream.
CtrOf(base, lo, j) ==
  [base |-> base, hi |-> IF mode = "gcm" THEN 0 ELSE (lo + 1 + j) \div CtrMod,
   lo |-> (lo + 1 + j) % CtrMod]
StreamByte(k, base, lo, i) ==
  KeyByte([k |-> k, ctr |-> CtrOf(base, lo, (i - 1) \div BlockLen)],
          ((i - 1) % BlockLen) + 1)

\* The handle stands behind byte d of the stream, q counter blocks are made.
Placed(g, k, base, lo, d, q) ==
  /\ q \in Nat /\ g.unused \in 0..(BlockLen - 1) /\ d + g.unused = BlockLen * q
  /\ g.ctr = CtrOf(base, lo, q)
  /\ g.unused > 0 => g.last = [k |-> k, ctr |-> CtrOf(base, lo, q - 1)]

\* The next so many counter blocks are those of the stream.
Counts(g, base, lo, q, blocks) ==
  \A j \in Nat : j < blocks => Inc(g.ctr, j) = CtrOf(base, lo, q + j)

\* The output is that of the stream, and the rest of the last block.
Streamed(r, k, base, lo, d, q, inp, blocks, v) ==
  /\ \A i \in 1..Len(inp) : r.out[i] = Xor(StreamByte(k, base, lo, d + i), inp[i])
  /\ (d + Len(inp)) + v = BlockLen * (q + blocks)
  /\ v > 0 => r.h.last = [k |-> k, ctr |-> CtrOf(base, lo, q + blocks - 1)]

\* If the counter blocks it makes are those of the stream, so are the bytes.
LEMMA CtrStream ==
  ASSUME NEW g, NEW k, NEW base, NEW lo, NEW d \in Nat, NEW q,
         Placed(g, k, base, lo, d, q),
         NEW inp, IsSeq(inp), NEW r, NEW blocks, NEW v, CtrRan(g, inp, k, r, blocks, v),
         Counts(g, base, lo, q, blocks)
  PROVE  Streamed(r, k, base, lo, d, q, inp, blocks, v)
<1>0. /\ BlockLen \in Nat \ {0} /\ Len(inp) \in Nat /\ q \in Nat /\ blocks \in Nat
      /\ g.unused \in 0..(BlockLen - 1) /\ v \in 0..(BlockLen - 1)
      /\ d + g.unused = BlockLen * q /\ Len(inp) + v = g.unused + BlockLen * blocks
  BY BlockLenAssumption, IsSeqLen DEF Placed, CtrRan, Run
<1>a. d \in Nat
  OBVIOUS
<1>u. PICK u : u = g.unused
  OBVIOUS
<1>b. /\ u \in 0..(BlockLen - 1) /\ d + u = BlockLen * q /\ q \in Nat /\ BlockLen \in Nat
      /\ d \in Nat
  BY <1>0, <1>u
<1>1. ASSUME NEW i \in 1..Len(inp)
      PROVE  r.out[i] = Xor(StreamByte(k, base, lo, d + i), inp[i])
  <2>1. CASE i <= g.unused
    <3>1. r.out[i] = Xor(KeyByte(g.last, BlockLen - g.unused + i), inp[i])
      BY <2>1 DEF CtrRan
    <3>2. g.last = [k |-> k, ctr |-> CtrOf(base, lo, q - 1)]
      BY <2>1, <1>0 DEF Placed
    <3>3. i \in 1..g.unused
      BY <2>1, <1>0
    <3>4. (d + i - 1) \div BlockLen = q - 1 /\ (d + i - 1) % BlockLen = BlockLen - g.unused + i - 1
      <4>1. i \in 1..u
        BY <3>3, <1>u
      <4>2. (d + i - 1) \div BlockLen = q - 1 /\ (d + i - 1) % BlockLen = BlockLen - u + i - 1
        BY ONLY <4>1, <1>b, PlaceOld
      <4> QED BY <4>2, <1>u
    <3>5. (BlockLen - g.unused + i - 1) + 1 = BlockLen - g.unused + i
      BY ONLY <3>3, <1>0
    <3> QED BY <3>1, <3>2, <3>4, <3>5 DEF StreamByte
  <2>2. CASE i > g.unused
    <3>1. PICK b \in Nat, o \in 0..(BlockLen - 1) :
         /\ b < blocks /\ i - g.unused - 1 = BlockLen * b + o
         /\ r.out[i] = Xor(KeyByte([k |-> k, ctr |-> Inc(g.ctr, b)], o + 1), inp[i])
      BY <2>2 DEF CtrRan
    <3>2. i \in Nat
      OBVIOUS
    <3>3. (d + i - 1) \div BlockLen = q + b /\ (d + i - 1) % BlockLen = o
      <4>1. i - u - 1 = BlockLen * b + o
        BY <3>1, <1>u
      <4> QED BY ONLY <4>1, <3>2, <1>b, PlaceNew, b \in Nat, o \in 0..(BlockLen - 1)
    <3>4. Inc(g.ctr, b) = CtrOf(base, lo, q + b)
      BY <3>1 DEF Counts
    <3> QED BY <3>1, <3>3, <3>4 DEF StreamByte
  <2> QED BY <2>1, <2>2, <1>0
<1>2. (d + Len(inp)) + v = BlockLen * (q + blocks)
  <2>1. BlockLen * (q + blocks) = BlockLen * q + BlockLen * blocks
        /\ BlockLen * q \in Int /\ BlockLen * blocks \in Int
    BY <1>0, MultAdd
  <2> QED BY ONLY <2>1, <1>a, <1>0
<1>3. ASSUME v > 0 PROVE r.h.last = [k |-> k, ctr |-> CtrOf(base, lo, q + blocks - 1)]
  <2>1. CASE blocks = 0
    <3>1. g.unused > 0
      <4>1. BlockLen * blocks = 0
        BY <2>1, <1>0
      <4> QED BY <4>1, <1>0, <1>3
    <3>2. r.h.last = g.last
      BY <2>1, <1>3 DEF CtrRan
    <3>3. q + blocks - 1 = q - 1
      BY <2>1, <1>0
    <3> QED BY <3>1, <3>2, <3>3 DEF Placed
  <2>2. CASE blocks # 0
    <3>1. r.h.last = [k |-> k, ctr |-> Inc(g.ctr, blocks - 1)]
      BY <2>2, <1>3 DEF CtrRan
    <3>2. blocks - 1 \in Nat /\ blocks - 1 < blocks /\ q + blocks - 1 = q + (blocks - 1)
      BY <2>2, <1>0
    <3>3. Inc(g.ctr, blocks - 1) = CtrOf(base, lo, q + (blocks - 1))
      BY <3>2 DEF Counts
    <3> QED BY <3>1, <3>2, <3>3
  <2> QED BY <2>1, <2>2
<1> QED BY <1>1, <1>2, <1>3 DEF Streamed

\* Counting on without carry, as long as the lower part does not overflow.
LEMMA IncNarrow ==
  ASSUME NEW base, NEW lo \in Nat, NEW q \in Nat, NEW j \in Nat, mode = "gcm"
  PROVE  /\ CtrOf(base, lo, q).lo \in 0..(CtrMod - 1) /\ CtrOf(base, lo, q).hi = 0
         /\ \E y : Inc(CtrOf(base, lo, q), j)
                    = [base |-> base, hi |-> y, lo |-> CtrOf(base, lo, q + j).lo]
         /\ CtrOf(base, lo, q + j)
              = [base |-> base, hi |-> 0, lo |-> CtrOf(base, lo, q + j).lo]
         /\ CtrOf(base, lo, q + j).lo = (CtrOf(base, lo, q).lo + j) % CtrMod
         /\ CtrOf(base, lo, q).lo + j < CtrMod
              => Inc(CtrOf(base, lo, q), j) = CtrOf(base, lo, q + j)
<1> DEFINE x == lo + 1 + q
           l == x % CtrMod
<1>0. CtrMod \in Nat \ {0} /\ x \in Nat /\ lo + 1 + (q + j) = x + j
  BY ModesAssumption
<1>1. CtrOf(base, lo, q) = [base |-> base, hi |-> 0, lo |-> l]
      /\ CtrOf(base, lo, q + j) = [base |-> base, hi |-> 0, lo |-> (x + j) % CtrMod]
  BY <1>0 DEF CtrOf
<1>2. (l + j) % CtrMod = (x + j) % CtrMod /\ l \in 0..(CtrMod - 1)
  <2> HIDE DEF x
  <2>1. l \in 0..(CtrMod - 1)
    BY <1>0
  <2> QED BY <1>0, <2>1, ModAdd
<1> HIDE DEF x, l
<1>3. Inc([base |-> base, hi |-> 0, lo |-> l], j)
        = [base |-> base, hi |-> 0 + (l + j) \div CtrMod, lo |-> (l + j) % CtrMod]
  <2>1. ASSUME NEW a, NEW b
        PROVE  [[base |-> base, hi |-> 0, lo |-> l] EXCEPT !.lo = a, !.hi = b]
               = [base |-> base, hi |-> b, lo |-> a]
    <3>1. [[base |-> base, hi |-> 0, lo |-> l] EXCEPT !.lo = a] = [base |-> base, hi |-> 0, lo |-> a]
      OBVIOUS
    <3>2. [[base |-> base, hi |-> 0, lo |-> a] EXCEPT !.hi = b] = [base |-> base, hi |-> b, lo |-> a]
      OBVIOUS
    <3> QED BY ONLY <3>1, <3>2
  <2> QED BY <2>1 DEF Inc
<1>4. ASSUME l + j < CtrMod PROVE (l + j) \div CtrMod = 0
  <2>1. l + j \in Nat /\ l + j \in 0..(CtrMod - 1) /\ l + j = CtrMod * 0 + (l + j)
    BY <1>0, <1>2, <1>4
  <2> QED BY <2>1, <1>0, DivUnique
<1> QED BY <1>1, <1>2, <1>3, <1>4
-----------------------------------------------------------------------------
(* gcm_ctr_encrypt *)

\* The state of gcm_ctr_encrypt's loop.
CtrLoop(g, inp, out) == [h |-> g, in |-> inp, out |-> out]

\* How many blocks a run of more than the rest of the last block takes.
LEMMA RunBlocks ==
  ASSUME NEW n \in Nat, NEW u \in 0..(BlockLen - 1), NEW blocks, NEW v, Run(n, u, blocks, v),
         n > u
  PROVE  ((n - u) + BlockLen - 1) \div BlockLen = blocks
<1>1. /\ BlockLen \in Nat \ {0} /\ blocks \in Nat /\ v \in 0..(BlockLen - 1)
      /\ n + v = u + BlockLen * blocks /\ BlockLen * blocks \in Int
  BY BlockLenAssumption, MultAdd DEF Run
<1> DEFINE x == (n - u) + BlockLen - 1
           o == BlockLen - 1 - v
<1>2. x \in Nat /\ o \in 0..(BlockLen - 1) /\ x = BlockLen * blocks + o
  BY <1>1
<1> HIDE DEF x, o
<1>3. x \div BlockLen = blocks
  BY ONLY <1>1, <1>2, DivUnique
<1> QED BY <1>3 DEF x

\* Blocks up to the overflow of the counter, and no more.
LEMMA RunWraps ==
  ASSUME NEW n \in Nat, NEW u \in 0..(BlockLen - 1), NEW blocks, NEW v, Run(n, u, blocks, v),
         NEW k \in Nat, n <= BlockLen * k + u,
         n = BlockLen * k + u \/ blocks >= k
  PROVE  blocks = k /\ (n = BlockLen * k + u => v = 0)
<1>1. /\ BlockLen \in Nat \ {0} /\ blocks \in Nat /\ v \in 0..(BlockLen - 1)
      /\ n + v = u + BlockLen * blocks /\ BlockLen * blocks \in Int /\ BlockLen * k \in Int
      /\ u \in Int /\ 0 \in 0..(BlockLen - 1)
  BY BlockLenAssumption, MultAdd DEF Run
<1>2. ASSUME n = BlockLen * k + u PROVE blocks = k /\ v = 0
  <2> DEFINE x == BlockLen * k + v
  <2>1. x = BlockLen * blocks + 0 /\ x \in Nat
    BY <1>1, <1>2, MultAdd
  <2>a. x = BlockLen * k + v /\ k \in Nat /\ v \in 0..(BlockLen - 1) /\ BlockLen \in Nat \ {0}
        /\ x \in Nat
    BY <2>1, <1>1
  <2> HIDE DEF x
  <2>2. x \div BlockLen = k /\ x % BlockLen = v
    BY ONLY <2>a, DivUnique
  <2>3. x \div BlockLen = blocks /\ x % BlockLen = 0
    BY ONLY <1>1, <2>1, DivUnique, ZenonT(60)
  <2> QED BY <2>2, <2>3
<1>3. ASSUME blocks >= k PROVE blocks = k
  <2>1. SUFFICES ASSUME k + 1 <= blocks PROVE FALSE
    BY <1>1, <1>3
  <2>2. BlockLen * (k + 1) <= BlockLen * blocks
    BY <1>1, <2>1, MultMono
  <2>3. BlockLen * (k + 1) = BlockLen * k + BlockLen * 1 /\ BlockLen * 1 = BlockLen
    BY <1>1, MultAdd
  <2> QED BY <2>2, <2>3, <1>1
<1> QED BY <1>2, <1>3

\* What a turn of gcm_ctr_encrypt makes: n bytes of the stream, and the handle
\* behind them.
GcmRan(g, k, base, lo, d, inp, n, x, o) ==
  /\ n \in 0..Len(inp)
  /\ Same(g, x, {"ctr", "last", "unused", "dead"})
  /\ \E q : Placed(x, k, base, lo, d + n, q)
  /\ IsSeq(o) /\ Len(o) = n
  /\ \A i \in 1..n : o[i] = Xor(StreamByte(k, base, lo, d + i), inp[i])

\* A turn takes n bytes, and less than all only up to the overflow; from there
\* the next turn takes them all.
GcmTurnTo(g, inp, out, base, lo, d, n, x, o) ==
  /\ GcmCtrTurn(CtrLoop(g, inp, out)) = CtrLoop(x, Behind(inp, n), out \o o)
  /\ GcmRan(g, g.keyno, base, lo, d, inp, n, x, o)
  /\ n < Len(inp) => x.unused = 0 /\ x.ctr.lo = 0
  /\ g.unused = 0 /\ g.ctr.lo = 0 /\ Len(inp) <= BlockLen * CtrMod => n = Len(inp)

\* A turn keeps to the stream: the carry it takes back is the one the mode has not.
LEMMA GcmTurnIs ==
  ASSUME mode = "gcm", NEW g, IsHandle(g), NEW inp, IsSeq(inp), NEW out,
         NEW base, NEW lo \in Nat, NEW d \in Nat, NEW q, Placed(g, g.keyno, base, lo, d, q)
  PROVE  \E n, x, o : GcmTurnTo(g, inp, out, base, lo, d, n, x, o)
<1> DEFINE s == CtrLoop(g, inp, out)
           u == g.unused
           l == g.ctr.lo
           k == g.keyno
           more == IF Len(inp) > u THEN Len(inp) - u ELSE 0
           num == (more + BlockLen - 1) \div BlockLen
           wrap == more > 0 /\ num + l >= CtrMod
           n == IF wrap THEN Lesser((CtrMod - l) * BlockLen + u, Len(inp)) ELSE Len(inp)
           r == CtrEncrypt(g, First(inp, n), k)
<1>0. /\ BlockLen \in Nat \ {0} /\ Len(inp) \in Nat /\ CtrMod \in Nat \ {0} /\ q \in Nat
      /\ u \in 0..(BlockLen - 1) /\ g.ctr = CtrOf(base, lo, q)
  BY BlockLenAssumption, IsSeqLen, ModesAssumption DEF Placed
<1>i. ASSUME NEW j \in Nat
      PROVE  /\ CtrOf(base, lo, q).lo \in 0..(CtrMod - 1) /\ CtrOf(base, lo, q).hi = 0
             /\ \E y : Inc(CtrOf(base, lo, q), j)
                        = [base |-> base, hi |-> y, lo |-> CtrOf(base, lo, q + j).lo]
             /\ CtrOf(base, lo, q + j)
                  = [base |-> base, hi |-> 0, lo |-> CtrOf(base, lo, q + j).lo]
             /\ CtrOf(base, lo, q + j).lo = (CtrOf(base, lo, q).lo + j) % CtrMod
             /\ CtrOf(base, lo, q).lo + j < CtrMod
                  => Inc(CtrOf(base, lo, q), j) = CtrOf(base, lo, q + j)
  <2>1. q \in Nat /\ lo \in Nat /\ mode = "gcm" /\ j \in Nat
    BY <1>0
  <2> QED BY ONLY <2>1, IncNarrow
<1>1. l \in 0..(CtrMod - 1) /\ l = CtrOf(base, lo, q).lo
  <2>1. 0 \in Nat
    OBVIOUS
  <2> QED BY <2>1, <1>0, <1>i
<1>2. GcmCtrTurn(s) = GcmTurned(s, r, n, wrap)
  BY DEF GcmCtrTurn, CtrLoop
<1>3. /\ s.h = g /\ s.in = inp /\ s.out = out
  BY DEF CtrLoop
<1> HIDE DEF s
<1>4. (CtrMod - l) * BlockLen = BlockLen * (CtrMod - l) /\ CtrMod - l \in Nat
      /\ BlockLen * (CtrMod - l) \in Nat
  <2>1. CtrMod - l \in Nat
    BY <1>0, <1>1
  <2> HIDE DEF l
  <2> QED BY <2>1, <1>0, MultAdd
<1>5. /\ n \in 0..Len(inp)
      /\ wrap => n <= BlockLen * (CtrMod - l) + u
      /\ wrap => n = BlockLen * (CtrMod - l) + u \/ n = Len(inp)
      /\ ~wrap => n = Len(inp)
  <2>1. CASE wrap
    <3> DEFINE y == BlockLen * (CtrMod - l) + u
    <3>1. n = Lesser(y, Len(inp)) /\ y \in Nat
      BY <2>1, <1>4, <1>0, SMTT(60)
    <3> HIDE DEF n, y, wrap
    <3>2. n \in Nat /\ n <= y /\ n <= Len(inp) /\ (n = y \/ n = Len(inp))
      BY <3>1, <1>0, LesserIs
    <3> QED BY <3>2, <1>0, <2>1 DEF y
  <2>2. CASE ~wrap
    BY <2>2, <1>0
  <2> QED BY <2>1, <2>2
<1> HIDE DEF n
<1>6. /\ IsSeq(First(inp, n)) /\ Len(First(inp, n)) = n
      /\ \A i \in 1..n : First(inp, n)[i] = inp[i]
  BY <1>5, FirstIs
<1>7. PICK blocks, v : CtrRan(g, First(inp, n), k, r, blocks, v)
  BY <1>0, <1>6, CtrEncryptIs
<1> HIDE DEF r
<1>8. Run(n, u, blocks, v) /\ blocks \in Nat /\ v \in 0..(BlockLen - 1) /\ n \in Nat
      /\ (n <= u => blocks = 0)
  BY <1>5, <1>6, <1>7, <1>0 DEF CtrRan, Run
<1>9. n = Len(inp) /\ more > 0 => num = blocks
  <2> SUFFICES ASSUME n = Len(inp), more > 0 PROVE num = blocks
    OBVIOUS
  <2>1. n > u /\ more = n - u
    BY <1>0
  <2>2. ((n - u) + BlockLen - 1) \div BlockLen = blocks
    BY <2>1, <1>8, <1>0, RunBlocks
  <2> QED BY <2>1, <2>2
<1>10. CASE ~wrap
  <2>1. n = Len(inp)
    BY <1>5, <1>10
  <2>2. l + blocks < CtrMod
    <3>1. CASE more > 0
      <4>1. num = blocks /\ ~(num + l >= CtrMod)
        BY <3>1, <2>1, <1>9, <1>10
      <4> HIDE DEF num
      <4> QED BY <4>1, <1>0, <1>1, <1>8
    <3>2. CASE ~(more > 0)
      <4>1. n <= u
        BY <3>2, <2>1, <1>0
      <4> QED BY <4>1, <1>8, <1>1, <1>0
    <3> QED BY <3>1, <3>2
  <2>3. ASSUME NEW j \in Nat, j <= blocks PROVE Inc(g.ctr, j) = CtrOf(base, lo, q + j)
    <3>1. l + j < CtrMod
      BY <2>2, <2>3, <1>0, <1>1, <1>8
    <3> QED BY <3>1, <1>0, <1>1, <1>i
  <2>4. \A j \in Nat : j < blocks => Inc(g.ctr, j) = CtrOf(base, lo, q + j)
    BY <2>3, <1>8
  <2>5. /\ \A i \in 1..n : r.out[i] = Xor(StreamByte(k, base, lo, d + i), First(inp, n)[i])
        /\ (d + n) + v = BlockLen * (q + blocks)
        /\ v > 0 => r.h.last = [k |-> k, ctr |-> CtrOf(base, lo, q + blocks - 1)]
    <3>1. Counts(g, base, lo, q, blocks)
      BY <2>4 DEF Counts
    <3>2. Streamed(r, k, base, lo, d, q, First(inp, n), blocks, v)
      BY <3>1, <1>6, <1>7, CtrStream
    <3> QED BY <3>2, <1>6 DEF Streamed
  <2>6. Placed(r.h, k, base, lo, d + n, q + blocks)
    <3>1. r.h.ctr = Inc(g.ctr, blocks) /\ r.h.unused = v
      BY <1>7 DEF CtrRan
    <3>2. r.h.ctr = CtrOf(base, lo, q + blocks) /\ q + blocks \in Nat
      BY <3>1, <2>3, <1>8, <1>0
    <3> QED BY <3>1, <3>2, <2>5, <1>8 DEF Placed
  <2>7. GcmRan(g, k, base, lo, d, inp, n, r.h, r.out)
    BY <2>5, <2>6, <1>5, <1>6, <1>7 DEF GcmRan, CtrRan, Same
  <2>8. GcmTurned(s, r, n, wrap) = CtrLoop(r.h, Behind(inp, n), out \o r.out)
    <3> HIDE DEF wrap
    <3> QED BY <1>3, <1>10 DEF GcmTurned, CtrLoop
  <2>9. GcmCtrTurn(CtrLoop(g, inp, out)) = CtrLoop(r.h, Behind(inp, n), out \o r.out)
    BY <2>8, <1>2 DEF s
  <2>10. ~(n < Len(inp))
    BY <2>1, <1>0
  <2> QED BY ONLY <2>7, <2>9, <2>10, <2>1 DEF GcmTurnTo
<1>11. CASE wrap
  <2> DEFINE b == CtrMod - l
             x == [r.h EXCEPT !.ctr.hi = g.ctr.hi, !.dead = @ \/ r.h.ctr.lo # 0]
  <2>1. blocks = b /\ (n = BlockLen * b + u => v = 0)
    <3>1. n = BlockLen * b + u \/ blocks >= b
      <4>1. CASE n = Len(inp)
        <5>1. num = blocks /\ num + l >= CtrMod
          BY <4>1, <1>9, <1>11
        <5> HIDE DEF num
        <5> QED BY <5>1, <1>0, <1>1, <1>8
      <4> QED BY <4>1, <1>5, <1>11
    <3>2. n <= BlockLen * b + u /\ b \in Nat
      BY <1>4, <1>5, <1>11
    <3> HIDE DEF b
    <3> QED BY <3>1, <3>2, <1>8, <1>0, RunWraps, SMTT(60)
  <2>2. ASSUME NEW j \in Nat, j < blocks PROVE Inc(g.ctr, j) = CtrOf(base, lo, q + j)
    <3>1. l + j < CtrMod
      BY <2>1, <2>2, <1>0, <1>1
    <3> QED BY <3>1, <1>0, <1>1, <1>i
  <2>5. /\ \A i \in 1..n : r.out[i] = Xor(StreamByte(k, base, lo, d + i), First(inp, n)[i])
        /\ (d + n) + v = BlockLen * (q + blocks)
        /\ v > 0 => r.h.last = [k |-> k, ctr |-> CtrOf(base, lo, q + blocks - 1)]
    <3>1. Counts(g, base, lo, q, blocks)
      BY <2>2 DEF Counts
    <3>2. Streamed(r, k, base, lo, d, q, First(inp, n), blocks, v)
      BY <3>1, <1>6, <1>7, CtrStream
    <3> QED BY <3>2, <1>6 DEF Streamed
  <2>6. x.ctr = CtrOf(base, lo, q + blocks) /\ x.ctr.lo = 0
        /\ x.unused = v /\ x.last = r.h.last
        /\ Same(g, x, {"ctr", "last", "unused", "dead"})
    <3>1. r.h.ctr = Inc(g.ctr, blocks) /\ r.h.unused = v
          /\ Same(g, r.h, {"ctr", "last", "unused"}) /\ IsHandle(r.h)
      BY <1>7 DEF CtrRan, Same
    <3>2. PICK y : r.h.ctr = [base |-> base, hi |-> y, lo |-> CtrOf(base, lo, q + blocks).lo]
      BY <3>1, <1>0, <1>8, <1>i, ZenonT(60)
    <3>3. CtrOf(base, lo, q + blocks)
              = [base |-> base, hi |-> 0, lo |-> CtrOf(base, lo, q + blocks).lo]
          /\ g.ctr.hi = 0
      BY <1>0, <1>8, <1>i
    <3>4. CtrOf(base, lo, q + blocks).lo = 0
      <4>1. CtrOf(base, lo, q + blocks).lo = (l + blocks) % CtrMod
        BY <1>0, <1>1, <1>8, <1>i
      <4>2. l + blocks = CtrMod /\ CtrMod = CtrMod * 1 + 0 /\ 0 \in 0..(CtrMod - 1)
        BY <2>1, <1>0, <1>1
      <4>3. CtrMod % CtrMod = 0
        BY <4>2, <1>0, DivUnique
      <4> QED BY <4>1, <4>2, <4>3
    <3>5. x.ctr = [r.h.ctr EXCEPT !.hi = 0] /\ x.unused = v /\ x.last = r.h.last
          /\ Same(g, x, {"ctr", "last", "unused", "dead"})
      BY <3>1, <3>3 DEF Same, IsHandle, Fields
    <3> HIDE DEF x
    <3>6. x.ctr = [base |-> base, hi |-> 0, lo |-> CtrOf(base, lo, q + blocks).lo]
      BY <3>2, <3>5
    <3> QED BY <3>3, <3>4, <3>5, <3>6
  <2>7. GcmTurned(s, r, n, wrap) = CtrLoop(x, Behind(inp, n), out \o r.out)
    <3> HIDE DEF wrap
    <3> QED BY <1>3, <1>11 DEF GcmTurned, CtrLoop
  <2> HIDE DEF x
  <2>8. Placed(x, k, base, lo, d + n, q + blocks)
    BY <2>5, <2>6, <1>8, <1>0 DEF Placed
  <2>9. GcmRan(g, k, base, lo, d, inp, n, x, r.out)
    BY <2>5, <2>6, <2>8, <1>5, <1>6, <1>7 DEF GcmRan, CtrRan
  <2>10. GcmCtrTurn(CtrLoop(g, inp, out)) = CtrLoop(x, Behind(inp, n), out \o r.out)
    BY <2>7, <1>2 DEF s
  <2>11. n < Len(inp) => x.unused = 0 /\ x.ctr.lo = 0
    <3>1. n < Len(inp) => n = BlockLen * b + u
      BY <1>5, <1>11, <1>0
    <3> QED BY <3>1, <2>1, <2>6
  <2>12. g.unused = 0 /\ g.ctr.lo = 0 /\ Len(inp) <= BlockLen * CtrMod => n = Len(inp)
    <3> SUFFICES ASSUME g.unused = 0, g.ctr.lo = 0, Len(inp) <= BlockLen * CtrMod
                 PROVE  n = Len(inp)
      OBVIOUS
    <3>1. b = CtrMod /\ u = 0
      BY <1>0
    <3>2. n = BlockLen * CtrMod + 0 \/ n = Len(inp)
      BY <3>1, <1>5, <1>11
    <3>3. BlockLen * CtrMod \in Int
      BY <1>0, MultAdd
    <3> QED BY <3>2, <3>3, <1>5, <1>0
  <2> QED BY ONLY <2>9, <2>10, <2>11, <2>12 DEF GcmTurnTo
<1> QED BY <1>10, <1>11

\* gcm_ctr_encrypt makes the bytes of the stream, across the overflow of the
\* counter too.
LEMMA GcmCtrIs ==
  ASSUME mode = "gcm", NEW g, IsHandle(g), NEW inp, IsSeq(inp),
         NEW base, NEW lo \in Nat, NEW d \in Nat, NEW q, Placed(g, g.keyno, base, lo, d, q),
         Len(inp) <= BlockLen * CtrMod
  PROVE  \E x, o : /\ GcmCtrEncrypt(g, inp) = Result(x, TRUE, o)
                   /\ GcmRan(g, g.keyno, base, lo, d, inp, Len(inp), x, o)
<1>0. IsSeq(<<>>) /\ Len(inp) \in Nat
  BY EmptyIs, IsSeqLen
<1>1. PICK n, x, o :
           /\ GcmCtrTurn(CtrLoop(g, inp, <<>>)) = CtrLoop(x, Behind(inp, n), <<>> \o o)
           /\ GcmRan(g, g.keyno, base, lo, d, inp, n, x, o)
           /\ n < Len(inp) => x.unused = 0 /\ x.ctr.lo = 0
  <2>1. \E n, x, o : GcmTurnTo(g, inp, <<>>, base, lo, d, n, x, o)
    BY GcmTurnIs
  <2> QED BY <2>1 DEF GcmTurnTo
<1>2. n \in 0..Len(inp) /\ IsSeq(o) /\ Len(o) = n /\ <<>> \o o = o
  BY <1>1, ConcatEmpty DEF GcmRan
<1> DEFINE rest == Behind(inp, n)
<1>3. /\ IsSeq(rest) /\ Len(rest) = Len(inp) - n
      /\ \A i \in 1..(Len(inp) - n) : rest[i] = inp[n + i]
  BY <1>2, FirstIs
<1>4. GcmCtrEncrypt(g, inp) = GcmOutput(GcmSecondTurn(CtrLoop(x, rest, o)))
  BY <1>1, <1>2 DEF GcmCtrEncrypt, CtrLoop
<1>5. CASE rest = <<>>
  <2>1. n = Len(inp)
    BY <1>0, <1>2, <1>3, <1>5, EmptyIs
  <2>2. GcmCtrEncrypt(g, inp) = Result(x, TRUE, o)
    BY <1>4, <1>5 DEF GcmSecondTurn, GcmOutput, CtrLoop
  <2> QED BY <2>1, <2>2, <1>1
<1>6. CASE rest # <<>>
  <2>1. n < Len(inp)
    <3>1. Len(rest) # 0
      BY <1>6, <1>3, EmptyIs
    <3> QED BY <3>1, <1>0, <1>2, <1>3
  <2>2. PICK p : Placed(x, x.keyno, base, lo, d + n, p)
    <3>1. x.keyno = g.keyno
      BY <1>1 DEF GcmRan, Same, Fields
    <3> QED BY <3>1, <1>1 DEF GcmRan
  <2>k. x.keyno = g.keyno /\ IsHandle(x) /\ d + n \in Nat
    BY <1>1, <1>2 DEF GcmRan, Same, Fields
  <2> HIDE DEF rest
  <2>3. PICK m, y, z :
           /\ GcmCtrTurn(CtrLoop(x, rest, o)) = CtrLoop(y, Behind(rest, m), o \o z)
           /\ GcmRan(x, x.keyno, base, lo, d + n, rest, m, y, z)
           /\ x.unused = 0 /\ x.ctr.lo = 0 /\ Len(rest) <= BlockLen * CtrMod => m = Len(rest)
    <3>1. \E m, y, z : GcmTurnTo(x, rest, o, base, lo, d + n, m, y, z)
      BY <2>2, <2>k, <1>3, GcmTurnIs
    <3> QED BY <3>1 DEF GcmTurnTo
  <2>4. Len(rest) <= BlockLen * CtrMod
    <3>1. BlockLen * CtrMod \in Int
      BY MultAdd, ModesAssumption, BlockLenAssumption
    <3> QED BY <3>1, <1>0, <1>2, <1>3
  <2>5. m = Len(rest)
    BY <2>1, <2>3, <2>4, <1>1
  <2>6. GcmCtrEncrypt(g, inp) = Result(y, TRUE, o \o z)
    <3>1. GcmSecondTurn(CtrLoop(x, rest, o)) = CtrLoop(y, Behind(rest, m), o \o z)
      BY <2>3, <1>6 DEF GcmSecondTurn, CtrLoop
    <3>2. ASSUME NEW b, NEW c PROVE GcmOutput(CtrLoop(y, b, c)) = Result(y, TRUE, c)
      BY DEF GcmOutput, CtrLoop
    <3> QED BY <3>1, <3>2, <1>4
  <2>7. IsSeq(z) /\ Len(z) = Len(inp) - n
    BY <2>3, <2>5, <1>3 DEF GcmRan
  <2>8. /\ IsSeq(o \o z) /\ Len(o \o z) = Len(inp)
        /\ \A i \in 1..Len(inp) : (o \o z)[i] = IF i <= n THEN o[i] ELSE z[i - n]
    <3>1. n + (Len(inp) - n) = Len(inp)
      BY <1>0, <1>2
    <3>2. /\ IsSeq(o \o z) /\ Len(o \o z) = Len(o) + Len(z)
          /\ \A i \in 1..(Len(o) + Len(z)) : (o \o z)[i] = IF i <= Len(o) THEN o[i] ELSE z[i - Len(o)]
      BY <2>7, <1>2, ConcatIs
    <3> QED BY <3>1, <3>2, <2>7, <1>2
  <2>9. ASSUME NEW i \in 1..Len(inp)
        PROVE  (o \o z)[i] = Xor(StreamByte(g.keyno, base, lo, d + i), inp[i])
    <3>1. CASE i <= n
      <4>1. i \in 1..n
        BY <3>1, <1>2
      <4>2. o[i] = Xor(StreamByte(g.keyno, base, lo, d + i), inp[i])
        BY <4>1, <1>1 DEF GcmRan
      <4> QED BY <4>2, <3>1, <2>8
    <3>2. CASE ~(i <= n)
      <4>1. i - n \in 1..(Len(inp) - n) /\ n + (i - n) = i /\ (d + n) + (i - n) = d + i
        BY <3>2, <1>0, <1>2
      <4>2. \A j \in 1..m : z[j] = Xor(StreamByte(x.keyno, base, lo, (d + n) + j), rest[j])
        BY <2>3 DEF GcmRan
      <4>3. z[i - n] = Xor(StreamByte(x.keyno, base, lo, (d + n) + (i - n)), rest[i - n])
        BY <4>1, <4>2, <2>5, <1>3
      <4>4. rest[i - n] = inp[n + (i - n)]
        BY <4>1, <1>3
      <4> QED BY <4>1, <4>3, <4>4, <3>2, <2>8, <2>k
    <3> QED BY <3>1, <3>2
  <2>10. Same(g, y, {"ctr", "last", "unused", "dead"})
    BY <2>3, <1>1 DEF GcmRan, Same
  <2>11. \E e : Placed(y, g.keyno, base, lo, d + Len(inp), e)
    <3>1. (d + n) + m = d + Len(inp)
      BY <2>5, <1>0, <1>2, <1>3
    <3>2. PICK e : Placed(y, x.keyno, base, lo, (d + n) + m, e)
      BY <2>3 DEF GcmRan
    <3> QED BY <3>1, <3>2, <2>k
  <2>12. GcmRan(g, g.keyno, base, lo, d, inp, Len(inp), y, o \o z)
    BY <2>8, <2>9, <2>10, <2>11, <1>0 DEF GcmRan
  <2> QED BY <2>6, <2>12
<1> QED BY <1>5, <1>6
-----------------------------------------------------------------------------
(* The bytes of a message *)

\* A sequence whose elements are first those of s and then those of t.
Joined(w, s, t) ==
  /\ IsSeq(s) /\ IsSeq(t) /\ IsSeq(w) /\ Len(w) = Len(s) + Len(t)
  /\ \A i \in 1..Len(s) : w[i] = s[i]
  /\ \A i \in 1..Len(t) : w[Len(s) + i] = t[i]

\* The sequence of both.
LEMMA JoinIs ==
  ASSUME NEW s, NEW t, NEW w, Joined(w, s, t)
  PROVE  w = s \o t
<1> USE DEF Joined
<1>0. Len(s) \in Nat /\ Len(t) \in Nat
  BY IsSeqLen
<1> DEFINE v == s \o t
<1>1. /\ IsSeq(v) /\ Len(v) = Len(s) + Len(t)
      /\ \A i \in 1..(Len(s) + Len(t)) : v[i] = IF i <= Len(s) THEN s[i] ELSE t[i - Len(s)]
  BY ConcatIs
<1> HIDE DEF v
<1>2. ASSUME NEW i \in 1..(Len(s) + Len(t)) PROVE w[i] = v[i]
  <2>1. CASE i <= Len(s)
    BY <2>1, <1>0, <1>1
  <2>2. CASE ~(i <= Len(s))
    <3>1. i - Len(s) \in 1..Len(t) /\ Len(s) + (i - Len(s)) = i
      BY <2>2, <1>0
    <3>2. w[Len(s) + (i - Len(s))] = t[i - Len(s)]
      BY <3>1
    <3> QED BY <3>1, <3>2, <2>2, <1>1
  <2> QED BY <2>1, <2>2
<1>3. w = v
  BY <1>1, <1>2, SeqSame
<1> QED BY <1>3 DEF v

\* Bytes of AAD
LEMMA AadIs ==
  ASSUME NEW no, NEW a, NEW n \in Nat
  PROVE  /\ IsSeq(AadBytes(no, a, n)) /\ Len(AadBytes(no, a, n)) = n
         /\ \A i \in 1..n : AadBytes(no, a, n)[i] = <<"a", no, a + i>>
         /\ n = 0 => AadBytes(no, a, n) = <<>>
<1>1. IsSeq(AadBytes(no, a, n)) /\ Len(AadBytes(no, a, n)) = n
  BY SeqFcn DEF AadBytes
<1>3. \A i \in 1..n : AadBytes(no, a, n)[i] = <<"a", no, a + i>>
  BY DEF AadBytes
<1> QED BY <1>1, <1>3, EmptyIs

\* and of data.
LEMMA DataIs ==
  ASSUME NEW no, NEW a, NEW n \in Nat
  PROVE  /\ IsSeq(DataBytes(no, a, n)) /\ Len(DataBytes(no, a, n)) = n
         /\ \A i \in 1..n : DataBytes(no, a, n)[i] = <<"d", no, a + i>>
         /\ n = 0 => DataBytes(no, a, n) = <<>>
<1>1. IsSeq(DataBytes(no, a, n)) /\ Len(DataBytes(no, a, n)) = n
  BY SeqFcn DEF DataBytes
<1>3. \A i \in 1..n : DataBytes(no, a, n)[i] = <<"d", no, a + i>>
  BY DEF DataBytes
<1> QED BY <1>1, <1>3, EmptyIs

\* The next ones behind those of before.
LEMMA AadMore ==
  ASSUME NEW no, NEW a \in Nat, NEW n \in Nat
  PROVE  AadBytes(no, 0, a + n) = AadBytes(no, 0, a) \o AadBytes(no, a, n)
<1> DEFINE s == AadBytes(no, 0, a)
           t == AadBytes(no, a, n)
           w == AadBytes(no, 0, a + n)
<1>1. IsSeq(s) /\ Len(s) = a /\ \A i \in 1..a : s[i] = <<"a", no, 0 + i>>
  BY AadIs
<1>2. IsSeq(t) /\ Len(t) = n /\ \A i \in 1..n : t[i] = <<"a", no, a + i>>
  BY AadIs
<1>3. IsSeq(w) /\ Len(w) = a + n /\ \A i \in 1..(a + n) : w[i] = <<"a", no, 0 + i>>
  <2>1. a + n \in Nat
    OBVIOUS
  <2> QED BY <2>1, AadIs
<1> HIDE DEF s, t, w
<1>4. \A i \in 1..Len(s) : w[i] = s[i]
  BY <1>1, <1>3
<1>5. ASSUME NEW i \in 1..Len(t) PROVE w[Len(s) + i] = t[i]
  <2>1. a + i \in 1..(a + n) /\ 0 + (a + i) = a + i
    BY <1>2
  <2>2. w[a + i] = <<"a", no, 0 + (a + i)>>
    BY <2>1, <1>3
  <2> QED BY <2>1, <2>2, <1>1, <1>2
<1>6. Joined(w, s, t)
  BY <1>1, <1>2, <1>3, <1>4, <1>5 DEF Joined
<1> QED BY <1>6, JoinIs DEF s, t, w

\* More data comes behind the data before.
LEMMA DataMore ==
  ASSUME NEW no, NEW a \in Nat, NEW n \in Nat
  PROVE  DataBytes(no, 0, a + n) = DataBytes(no, 0, a) \o DataBytes(no, a, n)
<1> DEFINE s == DataBytes(no, 0, a)
           t == DataBytes(no, a, n)
           w == DataBytes(no, 0, a + n)
<1>1. IsSeq(s) /\ Len(s) = a /\ \A i \in 1..a : s[i] = <<"d", no, 0 + i>>
  BY DataIs
<1>2. IsSeq(t) /\ Len(t) = n /\ \A i \in 1..n : t[i] = <<"d", no, a + i>>
  BY DataIs
<1>3. IsSeq(w) /\ Len(w) = a + n /\ \A i \in 1..(a + n) : w[i] = <<"d", no, 0 + i>>
  <2>1. a + n \in Nat
    OBVIOUS
  <2> QED BY <2>1, DataIs
<1> HIDE DEF s, t, w
<1>4. \A i \in 1..Len(s) : w[i] = s[i]
  BY <1>1, <1>3
<1>5. ASSUME NEW i \in 1..Len(t) PROVE w[Len(s) + i] = t[i]
  <2>1. a + i \in 1..(a + n) /\ 0 + (a + i) = a + i
    BY <1>2
  <2>2. w[a + i] = <<"d", no, 0 + (a + i)>>
    BY <2>1, <1>3
  <2> QED BY <2>1, <2>2, <1>1, <1>2
<1>6. Joined(w, s, t)
  BY <1>1, <1>2, <1>3, <1>4, <1>5 DEF Joined
<1> QED BY <1>6, JoinIs DEF s, t, w

\* The modes that encrypt by a key stream.
Streams == {"gcm", "ccm", "eax", "poly1305"}

\* Byte i of the key stream of a message.
LEMMA StreamIs ==
  ASSUME NEW m, NEW i
  PROVE  Stream(m, i) = StreamByte(m.key, FirstCounter(m).base, FirstCounter(m).lo, i)
  BY DEF Stream, StreamByte, KeyByte, CtrOf

\* The message m with n more bytes of data.
MoreData(m, x, n) ==
  /\ x.no = m.no /\ x.key = m.key /\ x.iv = m.iv
  /\ x.data = m.data + n

\* The output of the message.
LEMMA MadeIs ==
  ASSUME mode \in Streams, NEW m, m.data \in Nat
  PROVE  /\ IsSeq(Made(m)) /\ Len(Made(m)) = m.data
         /\ IsSeq(Given(m)) /\ Len(Given(m)) = m.data
         /\ IsSeq(CipherText(m)) /\ Len(CipherText(m)) = m.data
         /\ IsSeq(PlainText(m)) /\ Len(PlainText(m)) = m.data
         /\ \A i \in 1..m.data : Made(m)[i] = Xor(Stream(m, i), <<"d", m.no, i>>)
<1>0. mode \notin OneShot /\ mode # "ocb" /\ 0 \in Nat
  BY DEF Streams, OneShot
<1>1. /\ IsSeq(Given(m)) /\ Len(Given(m)) = m.data
      /\ \A i \in 1..m.data : Given(m)[i] = <<"d", m.no, 0 + i>>
  BY <1>0, DataIs DEF Given
<1> DEFINE s == [i \in 1..m.data |-> Xor(Stream(m, i), Given(m)[i])]
<1>2. Made(m) = s
  BY <1>0 DEF Made
<1>3. /\ IsSeq(s) /\ Len(s) = m.data
      /\ \A i \in 1..m.data : s[i] = Xor(Stream(m, i), Given(m)[i])
  <2>1. \A i \in 1..m.data : s[i] = Xor(Stream(m, i), Given(m)[i])
    OBVIOUS
  <2>2. DOMAIN s = 1..m.data /\ s = [i \in 1..m.data |-> s[i]]
    BY Zenon
  <2> HIDE DEF s
  <2> QED BY <2>1, <2>2, SeqFcn
<1> HIDE DEF s
<1>4. \A i \in 1..m.data : s[i] = Xor(Stream(m, i), <<"d", m.no, i>>)
  <2>1. \A i \in 1..m.data : 0 + i = i
    OBVIOUS
  <2> QED BY <2>1, <1>1, <1>3
<1> QED BY <1>1, <1>2, <1>3, <1>4 DEF CipherText, PlainText

\* Counters depend on the key and the nonce only.
LEMMA CounterSame ==
  ASSUME NEW m, NEW x, x.key = m.key, x.iv = m.iv, mode \in Streams
  PROVE  FirstCounter(x) = FirstCounter(m) /\ \A i : Stream(x, i) = Stream(m, i)
<1>1. FirstCounter(x) = FirstCounter(m)
  BY DEF FirstCounter, Omac, Streams
<1> QED BY <1>1, StreamIs

\* What a call returns for the next n bytes.
StreamOut(m, n, o) ==
  /\ IsSeq(o) /\ Len(o) = n
  /\ \A i \in 1..n : o[i] = Xor(Stream(m, m.data + i), DataBytes(m.no, m.data, n)[i])

\* The output of more data comes behind that of before, and is what a call
\* returns whose bytes are those of the stream.
LEMMA MadeMore ==
  ASSUME mode \in Streams, NEW m, m.data \in Nat, NEW n \in Nat, NEW x, MoreData(m, x, n),
         NEW o, StreamOut(m, n, o)
  PROVE  /\ Made(x) = Made(m) \o o
         /\ Given(x) = Given(m) \o DataBytes(m.no, m.data, n)
         /\ o = SubSeq(Made(x), x.data - Len(o) + 1, x.data)
<1> DEFINE d == m.data
<1>0. /\ x.no = m.no /\ x.data = d + n /\ d + n \in Nat /\ d \in Nat
      /\ IsSeq(o) /\ Len(o) = n
      /\ \A i \in 1..n : o[i] = Xor(Stream(m, m.data + i), DataBytes(m.no, m.data, n)[i])
  BY DEF MoreData, StreamOut
<1>o. IsSeq(o) /\ Len(o) = n
  BY DEF StreamOut
<1>1. /\ IsSeq(Made(m)) /\ Len(Made(m)) = d /\ IsSeq(Made(x)) /\ Len(Made(x)) = d + n
      /\ \A i \in 1..d : Made(m)[i] = Xor(Stream(m, i), <<"d", m.no, i>>)
      /\ \A i \in 1..(d + n) : Made(x)[i] = Xor(Stream(x, i), <<"d", m.no, i>>)
  BY <1>0, MadeIs
<1>2. \A i : Stream(x, i) = Stream(m, i)
  BY CounterSame DEF MoreData
<1>3. ASSUME NEW i \in 1..n PROVE o[i] = Xor(Stream(m, d + i), <<"d", m.no, d + i>>)
  <2>1. DataBytes(m.no, m.data, n)[i] = <<"d", m.no, m.data + i>>
    BY DataIs
  <2> QED BY <2>1, <1>0
<1>7. Given(x) = Given(m) \o DataBytes(m.no, m.data, n)
  <2>1. DataBytes(m.no, 0, m.data + n) = DataBytes(m.no, 0, m.data) \o DataBytes(m.no, m.data, n)
    BY DataMore
  <2> QED BY <2>1, <1>0 DEF Given
<1> HIDE DEF d
<1>4. ASSUME NEW i \in 1..Len(Made(m)) PROVE Made(x)[i] = Made(m)[i]
  <2>1. i \in 1..d /\ i \in 1..(d + n)
    BY <1>0, <1>1
  <2>2. Made(x)[i] = Xor(Stream(x, i), <<"d", m.no, i>>)
    BY <2>1, <1>1
  <2>3. Made(m)[i] = Xor(Stream(m, i), <<"d", m.no, i>>)
    BY <2>1, <1>1
  <2> QED BY <2>2, <2>3, <1>2
<1>5. ASSUME NEW i \in 1..Len(o) PROVE Made(x)[Len(Made(m)) + i] = o[i]
  <2>1. d + i \in 1..(d + n)
    BY <1>0, <1>o
  <2>2. Made(x)[d + i] = Xor(Stream(x, d + i), <<"d", m.no, d + i>>)
    BY <2>1, <1>1
  <2>3. Len(Made(m)) = d /\ i \in 1..n
    BY <1>1, <1>o
  <2> QED BY <2>2, <2>3, <1>2, <1>3
<1>6. Made(x) = Made(m) \o o
  <2>1. Joined(Made(x), Made(m), o)
    BY <1>1, <1>4, <1>5, <1>o DEF Joined
  <2> QED BY <2>1, JoinIs
<1>8. o = SubSeq(Made(x), x.data - Len(o) + 1, x.data)
  <2> DEFINE t == SubSeq(Made(x), d + 1, d + n)
  <2>1. x.data - Len(o) + 1 = d + 1 /\ d + 1 \in Nat \ {0} /\ d + 1 <= (d + n) + 1
        /\ (d + n) - (d + 1) + 1 = n
    BY <1>0, <1>o
  <2>2. /\ IsSeq(t) /\ Len(t) = (d + n) - (d + 1) + 1
        /\ \A i \in 1..((d + n) - (d + 1) + 1) : t[i] = Made(x)[(d + 1) + i - 1]
    BY <2>1, <1>0, <1>1, SubSeqIs
  <2>3. ASSUME NEW i \in 1..n PROVE t[i] = o[i]
    <3>1. (d + 1) + i - 1 = d + i /\ d + i \in 1..(d + n)
      BY <1>0
    <3>2. t[i] = Made(x)[d + i]
      BY <3>1, <2>1, <2>2
    <3>3. Made(x)[d + i] = Xor(Stream(x, d + i), <<"d", m.no, d + i>>)
      BY <3>1, <1>1
    <3> QED BY <3>2, <3>3, <1>2, <1>3
  <2> HIDE DEF t
  <2>4. t = o
    BY <2>1, <2>2, <2>3, <1>o, SeqSame
  <2> QED BY <2>1, <2>4, <1>0 DEF t
<1> QED BY <1>6, <1>7, <1>8

\* The data the tag is made of.
LEMMA TextMore ==
  ASSUME mode \in Streams, NEW m, m.data \in Nat, NEW n \in Nat, NEW x, MoreData(m, x, n),
         NEW o, StreamOut(m, n, o),
         x.way \in {"encrypt", "decrypt"}, x.way = m.way \/ m.data = 0
  PROVE  /\ CipherText(x) = CipherText(m) \o IF x.way = "encrypt" THEN o
                                             ELSE DataBytes(m.no, m.data, n)
         /\ PlainText(x) = PlainText(m) \o IF x.way = "encrypt" THEN DataBytes(m.no, m.data, n)
                                           ELSE o
<1>1. Made(x) = Made(m) \o o /\ Given(x) = Given(m) \o DataBytes(m.no, m.data, n)
  BY MadeMore
<1>2. CASE x.way = m.way
  BY <1>1, <1>2 DEF CipherText, PlainText
<1>3. CASE m.data = 0
  <2>1. Made(m) = <<>> /\ Given(m) = <<>>
    BY <1>3, MadeIs, EmptyIs
  <2> QED BY <1>1, <2>1 DEF CipherText, PlainText
<1> QED BY <1>2, <1>3

-----------------------------------------------------------------------------
(* What a message has made of a GCM handle *)

\* The 32 bit part of the first counter block, and the AAD so far.
LoOf(m) == FirstCounter(m).lo
AadOf(m) == AadBytes(m.no, 0, m.aad)

\* Where the handle is in the stream of the message, and what of it was used.
\* base: the upper part of the counter, which for a clean message is the right one.
InStream(g, m, base) ==
  /\ m.used = {StreamByte(m.key, base, LoOf(m), i) : i \in 1..m.data}
  /\ m.clean => base = FirstCounter(m).base
  /\ ~g.over /\ ~g.tag => \E q : Placed(g, m.key, base, LoOf(m), m.data, q)

\* What was hashed of the message so far.
GcmMac(g, m) ==
  /\ g.tagiv = <<"E", m.key, FirstCounter(m)>>
  /\ g.mac = IF g.aadfin THEN Coll(Blocks(AadOf(m)) \o FullBlocks(CipherText(m)),
                                   Tail0(CipherText(m)))
             ELSE Coll(FullBlocks(AadOf(m)), Tail0(AadOf(m)))

\* The handle g works on the message m, whose nonce came after the key.
GcmWhole(g, m) ==
  /\ g.iv /\ m.key = g.keyno /\ g.keyno # 0
  /\ m.data \in 0..MaxData /\ m.aad \in Nat
  /\ m.way \in {"none", "encrypt", "decrypt"} /\ (m.way = "none" => m.data = 0)
  /\ m.iv.hashed \in BOOLEAN
  /\ \E base : InStream(g, m, base)
  /\ ~g.over /\ ~g.tag => /\ g.aadlen = m.aad /\ g.datalen = m.data
                          /\ ~g.aadfin => m.data = 0
                          /\ m.clean => GcmMac(g, m)
  /\ ~g.over /\ g.tag /\ m.clean => g.val = Tag(m)

\* The first counter block of GCM.
GcmFirst(m) ==
  /\ FirstCounter(m) = [base |-> FirstCounter(m).base, hi |-> 0, lo |-> LoOf(m)]
  /\ LoOf(m) \in Nat /\ LoOf(m) = (IF m.iv.hashed THEN IvLow ELSE 1)
  /\ FirstCounter(m).base
       = IF m.iv.hashed
         THEN <<"J", m.key, Blocks(IvBytes(m.iv)) \o <<LengthBlock(0, 1)>> >>
         ELSE <<"N", m.iv.id>>

\* It is the one FirstCounter names.
LEMMA GcmCounter ==
  ASSUME mode = "gcm", NEW m, m.iv.hashed \in BOOLEAN
  PROVE  GcmFirst(m)
<1> USE DEF GcmFirst
<1>0. IvLow \in Nat
  BY ModesAssumption
<1>1. CASE m.iv.hashed
  <2>1. FirstCounter(m)
        = [base |-> <<"J", m.key, Blocks(IvBytes(m.iv)) \o <<LengthBlock(0, 1)>> >>,
           hi |-> 0, lo |-> IvLow]
    BY <1>1 DEF FirstCounter
  <2> QED BY <2>1, <1>0, <1>1 DEF LoOf
<1>2. CASE ~m.iv.hashed
  <2>1. FirstCounter(m) = [base |-> <<"N", m.iv.id>>, hi |-> 0, lo |-> 1]
    BY <1>2 DEF FirstCounter
  <2> QED BY <2>1, <1>2 DEF LoOf
<1> QED BY <1>1, <1>2

\* A length block is one block.
LEMMA LengthIs ==
  ASSUME NEW a, NEW b
  PROVE  IsSeq(LengthBlock(a, b)) /\ Blocks(LengthBlock(a, b)) = <<LengthBlock(a, b)>>
<1>1. IsSeq(LengthBlock(a, b)) /\ Len(LengthBlock(a, b)) = BlockLen
  BY SeqFcn, BlockLenAssumption DEF LengthBlock
<1>2. Len(LengthBlock(a, b)) \in 1..BlockLen
  BY <1>1, BlockLenAssumption
<1> QED BY <1>1, <1>2, PaddedFew

\* A hashed IV, on a handle with nothing left in the buffer.
LEMMA IvHashIs ==
  ASSUME NEW g, g.mac.buf = <<>>, NEW iv
  PROVE  GcmIvHash(g, iv) = Coll(Blocks(IvBytes(iv)) \o <<LengthBlock(0, 1)>>, <<>>)
<1> DEFINE b == IvBytes(iv)
           l == LengthBlock(0, 1)
<1>1. IsSeq(b)
  <2>1. b \in Seq({<<"iv", iv.id>>})
    BY DEF IvBytes
  <2> QED BY <2>1, SeqIs
<1>2. IsSeq(l) /\ Blocks(l) = <<l>>
  BY LengthIs
<1> HIDE DEF b, l
<1>3. IsSeq(<<>>) /\ Len(<<>>) < BlockLen /\ <<>> \o b = b /\ <<>> \o l = l
  BY <1>1, <1>2, EmptyIs, ConcatEmpty, BlockLenAssumption
<1>4. IsSeq(Blocks(b)) /\ <<>> \o Blocks(b) = Blocks(b)
  BY <1>1, PaddedConcat, ConcatEmpty
<1>5. GhashBuf(Coll(<<>>, <<>>), b, TRUE) = Coll(Blocks(b), <<>>)
  <2>1. GhashBuf(Coll(<<>>, <<>>), b, TRUE) = Coll(<<>> \o Blocks(<<>> \o b), <<>>)
    BY ONLY <1>1, <1>3, GhashIs, ZenonT(60)
  <2> QED BY <2>1, <1>3, <1>4
<1>6. GhashBuf(Coll(Blocks(b), <<>>), l, TRUE) = Coll(Blocks(b) \o Blocks(l), <<>>)
  <2> DEFINE c == Blocks(b)
  <2>1. IsSeq(c) /\ IsSeq(l) /\ IsSeq(<<>>) /\ Len(<<>>) < BlockLen
    BY <1>2, <1>3, <1>4
  <2> HIDE DEF c
  <2>2. GhashBuf(Coll(c, <<>>), l, TRUE) = Coll(c \o Blocks(<<>> \o l), <<>>)
    BY ONLY <2>1, GhashIs
  <2> QED BY <2>2, <1>3 DEF c
<1> QED BY <1>2, <1>5, <1>6 DEF GcmIvHash, Coll, b, l

-----------------------------------------------------------------------------
(* The routines of GCM keep it *)

\* A new nonce.
LEMMA GcmStarts ==
  ASSUME mode = "gcm", NEW x, IsHandle(x), x.keyno # 0,
         NEW m, m.key = x.keyno, m.iv.hashed \in BOOLEAN, m.clean => x.mac.buf = <<>>,
         m.aad = 0, m.data = 0, m.way = "none", m.used = {}
  PROVE  GcmWhole(GcmInitiv(x, m.iv), m)
<1> DEFINE y == GcmInitiv(x, m.iv)
<1>0. /\ FirstCounter(m) = [base |-> FirstCounter(m).base, hi |-> 0, lo |-> LoOf(m)]
      /\ LoOf(m) \in Nat /\ LoOf(m) = (IF m.iv.hashed THEN IvLow ELSE 1)
      /\ FirstCounter(m).base
           = IF m.iv.hashed
             THEN <<"J", m.key, Blocks(IvBytes(m.iv)) \o <<LengthBlock(0, 1)>> >>
             ELSE <<"N", m.iv.id>>
  <2>1. GcmFirst(m)
    BY GcmCounter
  <2> QED BY ONLY <2>1 DEF GcmFirst
<1>1. PICK base, buf :
        /\ y = GcmStart(x, [base |-> base, hi |-> 0, lo |-> LoOf(m)], buf)
        /\ m.clean => base = FirstCounter(m).base /\ buf = <<>>
  <2>1. CASE m.iv.hashed
    <3> DEFINE g == GcmIvHash(x, m.iv)
    <3>1. y = GcmStart(x, [base |-> <<"J", x.keyno, g.hash>>, hi |-> 0, lo |-> LoOf(m)], g.buf)
      BY <2>1, <1>0 DEF GcmInitiv, GcmHashed
    <3>2. ASSUME m.clean
          PROVE  /\ <<"J", x.keyno, g.hash>> = FirstCounter(m).base /\ g.buf = <<>>
      <4>1. g = Coll(Blocks(IvBytes(m.iv)) \o <<LengthBlock(0, 1)>>, <<>>)
        BY <3>2, IvHashIs
      <4>2. g.hash = Blocks(IvBytes(m.iv)) \o <<LengthBlock(0, 1)>> /\ g.buf = <<>>
        BY <4>1 DEF Coll
      <4>3. FirstCounter(m).base = <<"J", m.key, Blocks(IvBytes(m.iv)) \o <<LengthBlock(0, 1)>> >>
        BY <2>1, <1>0
      <4> QED BY ONLY <4>2, <4>3, m.key = x.keyno
    <3> HIDE DEF g
    <3> QED BY <3>1, <3>2
  <2>2. CASE ~m.iv.hashed
    <3>1. y = GcmStart(x, [base |-> <<"N", m.iv.id>>, hi |-> 0, lo |-> LoOf(m)], x.mac.buf)
      BY <2>2, <1>0 DEF GcmInitiv
    <3>2. FirstCounter(m).base = <<"N", m.iv.id>>
      BY <2>2, <1>0
    <3> QED BY <3>1, <3>2
  <2> QED BY <2>1, <2>2
<1> DEFINE c == [base |-> base, hi |-> 0, lo |-> LoOf(m)]
<1>2. /\ IsHandle(y) /\ y.iv = TRUE /\ y.keyno = x.keyno /\ y.aadlen = 0 /\ y.datalen = 0
      /\ y.over = FALSE /\ y.tag = FALSE /\ y.aadfin = FALSE /\ y.unused = 0
      /\ y.mac = Coll(<<>>, buf) /\ y.tagiv = <<"E", x.keyno, c>>
      /\ y.ctr = [c EXCEPT !.lo = (@ + 1) % CtrMod]
  <2> HIDE DEF y, c
  <2>1. y = GcmStart(x, c, buf)
    BY <1>1 DEF c
  <2> QED BY <2>1 DEF GcmStart, IsHandle, Fields, Coll
<1> HIDE DEF y
<1>3. Placed(y, m.key, base, LoOf(m), 0, 0)
  <2>1. y.ctr = CtrOf(base, LoOf(m), 0)
    <3>1. LoOf(m) + 1 + 0 = LoOf(m) + 1
      BY <1>0
    <3>2. y.ctr = [base |-> base, hi |-> 0, lo |-> (LoOf(m) + 1) % CtrMod]
      BY <1>2
    <3> QED BY <3>1, <3>2 DEF CtrOf
  <2>2. 0 + 0 = BlockLen * 0 /\ 0 \in 0..(BlockLen - 1) /\ 0 \in Nat
    BY BlockLenAssumption
  <2> QED BY <2>1, <2>2, <1>2 DEF Placed
<1>4. InStream(y, m, base)
  <2>1. {StreamByte(m.key, base, LoOf(m), i) : i \in 1..m.data} = {}
    OBVIOUS
  <2> QED BY <2>1, <1>1, <1>2, <1>3 DEF InStream
<1>5. ASSUME m.clean PROVE GcmMac(y, m)
  <2>1. AadOf(m) = <<>>
    BY AadIs DEF AadOf
  <2>2. y.mac = Coll(FullBlocks(AadOf(m)), Tail0(AadOf(m)))
    BY <2>1, <1>1, <1>2, <1>5, NoBlocks
  <2>3. FirstCounter(m) = c
    BY <1>1, <1>5, <1>0
  <2> QED BY <2>2, <2>3, <1>2 DEF GcmMac
<1>6. 0 \in 0..MaxData
  BY ModesAssumption
<1> QED BY <1>2, <1>4, <1>5, <1>6 DEF GcmWhole, y

\* A call that went over the limit ends all claims.
LEMMA GcmOver ==
  ASSUME NEW g, NEW m, GcmWhole(g, m), NEW y, y.iv = g.iv, y.keyno = g.keyno, y.over
  PROVE  GcmWhole(y, m)
<1>1. PICK base : InStream(g, m, base)
  BY DEF GcmWhole
<1>2. InStream(y, m, base)
  BY <1>1 DEF InStream
<1> QED BY <1>2 DEF GcmWhole

\* The default nonce, or the one that is set.
LEMMA GcmAuto ==
  ASSUME mode = "gcm", NEW g, IsHandle(g), g.keyno # 0, NEW m,
         g.iv => GcmWhole(g, m),
         ~g.iv => /\ m.key = g.keyno /\ m.iv = ZeroIv /\ (m.clean => g.mac.buf = <<>>)
                  /\ m.aad = 0 /\ m.data = 0 /\ m.way = "none" /\ m.used = {}
  PROVE  /\ GcmWhole(GcmAutoIv(g), m) /\ IsHandle(GcmAutoIv(g))
         /\ (~g.over => ~GcmAutoIv(g).over) /\ (~g.tag => ~GcmAutoIv(g).tag)
         /\ (~g.aadfin => ~GcmAutoIv(g).aadfin)
<1>1. CASE g.iv
  BY <1>1 DEF GcmAutoIv
<1>2. CASE ~g.iv
  <2> DEFINE x == [g EXCEPT !.disallow = g.fips]
  <2>1. IsHandle(x) /\ x.keyno = g.keyno /\ x.mac = g.mac
    BY DEF IsHandle, Fields
  <2>2. GcmAutoIv(g) = GcmInitiv(x, ZeroIv)
    BY <1>2 DEF GcmAutoIv, GcmSetiv, Done, Result
  <2> HIDE DEF x
  <2>5. /\ mode = "gcm" /\ IsHandle(x) /\ x.keyno # 0 /\ m.key = x.keyno
        /\ m.iv.hashed \in BOOLEAN /\ (m.clean => x.mac.buf = <<>>)
        /\ m.aad = 0 /\ m.data = 0 /\ m.way = "none" /\ m.used = {}
    <3>1. ZeroIv.hashed \in BOOLEAN
      BY DEF ZeroIv, Nonce
    <3> QED BY <2>1, <1>2, <3>1
  <2>3. GcmWhole(GcmInitiv(x, m.iv), m)
    BY ONLY <2>5, GcmStarts
  <2>4. /\ IsHandle(GcmInitiv(x, ZeroIv)) /\ ~GcmInitiv(x, ZeroIv).over
        /\ ~GcmInitiv(x, ZeroIv).tag /\ ~GcmInitiv(x, ZeroIv).aadfin
    BY <2>1 DEF GcmInitiv, GcmHashed, GcmStart, IsHandle, Fields
  <2> QED BY <2>2, <2>3, <2>4, <1>2
<1> QED BY <1>1, <1>2

\* The message m with n more bytes of AAD.
MoreAad(m, x, n) ==
  /\ x.no = m.no /\ x.key = m.key /\ x.iv = m.iv /\ x.aad = m.aad + n
  /\ (x.clean <=> m.clean) /\ x.data = m.data /\ x.way = m.way /\ x.used = m.used

\* _gcry_cipher_gcm_authenticate
LEMMA GcmAadWhole ==
  ASSUME mode = "gcm", NEW a, IsHandle(a), NEW m, GcmWhole(a, m), ~a.over, ~a.tag, ~a.aadfin,
         NEW n \in Nat, NEW x, MoreAad(m, x, n), NEW inp, inp = AadBytes(m.no, m.aad, n),
         NEW r, r = GcmAad([a EXCEPT !.aadlen = @ + Len(inp)], inp)
  PROVE  (r.ok => GcmWhole(r.h, x)) /\ (~r.ok => GcmWhole(r.h, m))
<1> DEFINE b == [a EXCEPT !.aadlen = @ + Len(inp)]
<1>1. /\ IsHandle(b) /\ b.aadlen = a.aadlen + Len(inp) /\ Same(a, b, {"aadlen"})
  BY DEF IsHandle, Fields, Same
<1>2. IsSeq(inp) /\ Len(inp) = n
  BY AadIs
<1>m. /\ m.data = 0 /\ m.aad \in Nat /\ a.aadlen = m.aad /\ m.iv.hashed \in BOOLEAN
      /\ m.clean => GcmMac(a, m)
  BY DEF GcmWhole
<1>3. CASE b.aadlen > MaxAad
  <2>1. r = Refused([b EXCEPT !.over = TRUE])
    BY <1>3 DEF GcmAad
  <2> HIDE DEF b
  <2>2. ~r.ok /\ r.h.iv = a.iv /\ r.h.keyno = a.keyno /\ r.h.over
    BY <2>1, <1>1 DEF Refused, Result, IsHandle, Fields, Same
  <2> QED BY <2>2, GcmOver
<1>4. CASE ~(b.aadlen > MaxAad)
  <2> DEFINE y == [b EXCEPT !.mac = GhashBuf(@, inp, FALSE)]
  <2>1. r = Done(y)
    BY <1>4 DEF GcmAad
  <2> HIDE DEF b
  <2>a. /\ IsHandle(y) /\ y.aadlen = b.aadlen /\ y.mac = GhashBuf(b.mac, inp, FALSE)
        /\ \A f \in Fields \ {"mac"} : y[f] = b[f]
    BY <1>1 DEF IsHandle
  <2> HIDE DEF y
  <2>b. r.ok /\ r.h = y
    BY <2>1 DEF Done, Result
  <2>c. b.mac = a.mac
    BY <1>1 DEF Same, Fields
  <2>2. /\ r.ok /\ r.h = y /\ Same(a, y, {"aadlen", "mac"})
        /\ y.aadlen = b.aadlen /\ y.mac = GhashBuf(a.mac, inp, FALSE)
    BY <2>a, <2>b, <2>c, <1>1 DEF Same
  <2> HIDE DEF y
  <2>3. /\ y.iv = a.iv /\ y.keyno = a.keyno /\ y.over = a.over /\ y.tag = a.tag
        /\ y.aadfin = a.aadfin /\ y.datalen = a.datalen /\ y.tagiv = a.tagiv
        /\ y.unused = a.unused /\ y.ctr = a.ctr /\ y.last = a.last
    BY <2>2 DEF Same, Fields
  <2>4. FirstCounter(x) = FirstCounter(m) /\ LoOf(x) = LoOf(m)
    BY CounterSame DEF MoreAad, Streams, LoOf
  <2>5. PICK base : InStream(a, m, base)
    BY DEF GcmWhole
  <2>6. InStream(y, x, base)
    <3>1. PICK q : Placed(a, m.key, base, LoOf(m), m.data, q)
      BY <2>5 DEF InStream
    <3>2. Placed(y, x.key, base, LoOf(x), x.data, q)
      BY <3>1, <2>3, <2>4 DEF Placed, MoreAad
    <3> QED BY <3>2, <2>3, <2>4, <2>5 DEF InStream, MoreAad
  <2>7. ASSUME x.clean PROVE GcmMac(y, x)
    <3> DEFINE s == AadOf(m)
    <3>1. IsSeq(s) /\ AadOf(x) = s \o inp
      <4>1. IsSeq(AadBytes(m.no, 0, m.aad))
        BY <1>m, AadIs
      <4>2. AadBytes(m.no, 0, m.aad + n) = AadBytes(m.no, 0, m.aad) \o AadBytes(m.no, m.aad, n)
        BY <1>m, AadMore
      <4> QED BY <4>1, <4>2 DEF AadOf, MoreAad
    <3>2. a.mac = Coll(FullBlocks(s), Tail0(s)) /\ a.tagiv = <<"E", m.key, FirstCounter(m)>>
      BY <2>7, <1>m DEF GcmMac, MoreAad
    <3> HIDE DEF s
    <3>3. IsSeq(FullBlocks(s)) /\ IsSeq(Tail0(s)) /\ Len(Tail0(s)) < BlockLen
      BY <3>1, FewBytes
    <3>4. GhashBuf(Coll(FullBlocks(s), Tail0(s)), inp, FALSE)
            = Coll(FullBlocks(s) \o FullBlocks(Tail0(s) \o inp), Tail0(Tail0(s) \o inp))
      <4> DEFINE f == FullBlocks(s)
                 t == Tail0(s)
      <4>1. IsSeq(f) /\ IsSeq(t) /\ IsSeq(inp) /\ Len(t) < BlockLen
        BY <3>3, <1>2
      <4> HIDE DEF f, t
      <4>2. GhashBuf(Coll(f, t), inp, FALSE) = Coll(f \o FullBlocks(t \o inp), Tail0(t \o inp))
        BY ONLY <4>1, GhashIs
      <4> QED BY <4>2 DEF f, t
    <3>5. /\ FullBlocks(s \o inp) = FullBlocks(s) \o FullBlocks(Tail0(s) \o inp)
          /\ Tail0(s \o inp) = Tail0(Tail0(s) \o inp)
      BY <3>1, <1>2, BlocksConcat
    <3>6. y.mac = Coll(FullBlocks(AadOf(x)), Tail0(AadOf(x)))
      BY <2>2, <3>1, <3>2, <3>4, <3>5
    <3> QED BY <3>2, <3>6, <2>3, <2>4 DEF GcmMac, MoreAad
  <2>8. x.aad \in Nat /\ y.aadlen = x.aad
    BY <2>2, <1>1, <1>2, <1>m DEF MoreAad
  <2>9. GcmWhole(y, x)
    BY <2>3, <2>6, <2>7, <2>8, <1>m DEF GcmWhole, MoreAad
  <2> QED BY <2>2, <2>9
<1> QED BY <1>3, <1>4

\* More bytes, or the padding at the end, behind those already hashed.
LEMMA GhashMore ==
  ASSUME NEW p, IsSeq(p), NEW s, IsSeq(s), NEW t, IsSeq(t)
  PROVE  /\ GhashBuf(Coll(p \o FullBlocks(s), Tail0(s)), t, FALSE)
              = Coll(p \o FullBlocks(s \o t), Tail0(s \o t))
         /\ GhashBuf(Coll(p \o FullBlocks(s), Tail0(s)), t, TRUE)
              = Coll(p \o Blocks(s \o t), <<>>)
<1> DEFINE f == FullBlocks(s)
           b == Tail0(s)
           u == p \o f
           v == b \o t
<1>1. IsSeq(f) /\ IsSeq(b) /\ Len(b) < BlockLen
  BY FewBytes
<1>2. IsSeq(u) /\ IsSeq(v)
  BY <1>1, ConcatIs
<1>3. IsSeq(FullBlocks(v)) /\ IsSeq(Blocks(v))
  BY <1>2, FewBytes, PaddedConcat
<1>4. /\ FullBlocks(s \o t) = f \o FullBlocks(v) /\ Tail0(s \o t) = Tail0(v)
      /\ Blocks(s \o t) = f \o Blocks(v)
  BY BlocksConcat, PaddedConcat
<1> HIDE DEF f, b
<1>5. /\ u \o FullBlocks(v) = p \o (f \o FullBlocks(v))
      /\ u \o Blocks(v) = p \o (f \o Blocks(v))
  <2> DEFINE x == FullBlocks(v)
             y == Blocks(v)
  <2>1. IsSeq(x) /\ IsSeq(y) /\ IsSeq(f) /\ IsSeq(p)
    BY <1>1, <1>3
  <2> HIDE DEF x, y, v
  <2>2. (p \o f) \o x = p \o (f \o x)
    BY ONLY <2>1, ConcatAssoc
  <2>3. (p \o f) \o y = p \o (f \o y)
    BY ONLY <2>1, ConcatAssoc
  <2> QED BY ONLY <2>2, <2>3 DEF u, x, y
<1>6. IsSeq(u) /\ IsSeq(b) /\ IsSeq(t) /\ Len(b) < BlockLen
  BY <1>1, <1>2
<1> HIDE DEF u
<1>7. /\ GhashBuf(Coll(u, b), t, FALSE) = Coll(u \o FullBlocks(b \o t), Tail0(b \o t))
      /\ GhashBuf(Coll(u, b), t, TRUE) = Coll(u \o Blocks(b \o t), <<>>)
  BY ONLY <1>6, GhashIs
<1> QED BY <1>4, <1>5, <1>7 DEF u, f, b

\* x is m, and its data goes the way w.
Turns(m, x, w) ==
  /\ x.no = m.no /\ x.key = m.key /\ x.iv = m.iv /\ x.aad = m.aad /\ x.clean = m.clean
  /\ x.data = m.data /\ x.used = m.used /\ x.way = w

\* The first data settles which way the message goes.
LEMMA GcmWay ==
  ASSUME mode = "gcm", NEW g, NEW m, GcmWhole(g, m), NEW w \in {"encrypt", "decrypt"},
         m.way \in {"none", w}, NEW x, Turns(m, x, w)
  PROVE  GcmWhole(g, x)
<1>0. /\ mode \in Streams /\ m.data \in Nat /\ MoreData(m, x, 0) /\ StreamOut(m, 0, <<>>)
      /\ x.way \in {"encrypt", "decrypt"} /\ (x.way = m.way \/ m.data = 0)
  BY EmptyIs, ModesAssumption DEF Streams, GcmWhole, MoreData, Turns, StreamOut
<1>1. CipherText(x) = CipherText(m) \o IF x.way = "encrypt" THEN <<>>
                                       ELSE DataBytes(m.no, m.data, 0)
  BY <1>0, TextMore
<1>2. DataBytes(m.no, m.data, 0) = <<>>
  BY <1>0, DataIs, EmptyIs
<1>3. CipherText(x) = CipherText(m)
  <2>1. IsSeq(CipherText(m))
    BY <1>0, MadeIs
  <2> QED BY <2>1, <1>1, <1>2, ConcatEmpty
<1>4. FirstCounter(x) = FirstCounter(m) /\ LoOf(x) = LoOf(m) /\ AadOf(x) = AadOf(m)
  BY <1>0, CounterSame DEF LoOf, AadOf, Turns
<1>5. Tag(x) = Tag(m)
  BY <1>3, <1>4 DEF Tag, Turns
<1>6. PICK base : InStream(g, m, base)
  BY DEF GcmWhole
<1>7. InStream(g, x, base)
  BY <1>4, <1>6 DEF InStream, Turns
<1>8. GcmMac(g, m) => GcmMac(g, x)
  BY <1>3, <1>4 DEF GcmMac, Turns
<1> QED BY <1>0, <1>5, <1>7, <1>8 DEF GcmWhole, Turns

\* The end of the AAD
LEMMA AadFinishWhole ==
  ASSUME mode = "gcm", NEW a, IsHandle(a), NEW m, GcmWhole(a, m), ~a.over, ~a.tag,
         NEW f, f = GcmAadFinish(a)
  PROVE  GcmWhole(f, m) /\ Same(a, f, {"mac", "aadfin"}) /\ f.aadfin
<1>1. CASE a.aadfin
  BY <1>1 DEF GcmAadFinish, Same
<1>2. CASE ~a.aadfin
  <2>1. f = [a EXCEPT !.mac = GhashBuf(@, <<>>, TRUE), !.aadfin = TRUE]
    BY <1>2 DEF GcmAadFinish
  <2>2. /\ IsHandle(f) /\ f.mac = GhashBuf(a.mac, <<>>, TRUE) /\ f.aadfin = TRUE
        /\ \A k \in Fields \ {"mac", "aadfin"} : f[k] = a[k]
    BY <2>1 DEF IsHandle, Fields
  <2>3. Same(a, f, {"mac", "aadfin"})
    BY <2>2 DEF Same
  <2>4. /\ f.iv = a.iv /\ f.keyno = a.keyno /\ f.over = a.over /\ f.tag = a.tag
        /\ f.datalen = a.datalen /\ f.tagiv = a.tagiv /\ f.aadlen = a.aadlen
        /\ f.unused = a.unused /\ f.ctr = a.ctr /\ f.last = a.last
    BY <2>3 DEF Same, Fields
  <2>5. PICK base : InStream(a, m, base)
    BY DEF GcmWhole
  <2>6. InStream(f, m, base)
    BY <2>4, <2>5 DEF InStream, Placed
  <2>7. ASSUME m.clean PROVE GcmMac(f, m)
    <3> DEFINE s == AadOf(m)
    <3>1. IsSeq(s) /\ m.data = 0
      BY AadIs, <1>2 DEF AadOf, GcmWhole
    <3>2. CipherText(m) = <<>>
      BY <3>1, MadeIs, EmptyIs DEF Streams
    <3>3. a.mac = Coll(FullBlocks(s), Tail0(s)) /\ a.tagiv = <<"E", m.key, FirstCounter(m)>>
      BY <2>7, <1>2 DEF GcmWhole, GcmMac
    <3> HIDE DEF s
    <3>4. /\ IsSeq(<<>>) /\ s \o <<>> = s /\ IsSeq(FullBlocks(s)) /\ IsSeq(Blocks(s))
          /\ <<>> \o FullBlocks(s) = FullBlocks(s) /\ <<>> \o Blocks(s) = Blocks(s)
          /\ Blocks(s) \o <<>> = Blocks(s)
      BY <3>1, EmptyIs, FewBytes, PaddedConcat, ConcatEmpty
    <3>5. GhashBuf(Coll(<<>> \o FullBlocks(s), Tail0(s)), <<>>, TRUE)
            = Coll(<<>> \o Blocks(s \o <<>>), <<>>)
      <4> DEFINE e == <<>>
      <4>1. IsSeq(e) /\ IsSeq(s)
        BY <3>1, <3>4
      <4> HIDE DEF e
      <4>2. GhashBuf(Coll(e \o FullBlocks(s), Tail0(s)), e, TRUE)
              = Coll(e \o Blocks(s \o e), <<>>)
        BY ONLY <4>1, GhashMore
      <4> QED BY ONLY <4>2 DEF e
    <3>6. f.mac = Coll(Blocks(s), <<>>)
      BY <3>3, <3>4, <3>5, <2>2
    <3>7. f.mac = Coll(Blocks(s) \o FullBlocks(CipherText(m)), Tail0(CipherText(m)))
      BY <3>2, <3>4, <3>6, NoBlocks
    <3> QED BY <3>3, <3>7, <2>2, <2>4 DEF GcmMac, s
  <2>8. GcmWhole(f, m)
    BY <2>2, <2>4, <2>6, <2>7 DEF GcmWhole
  <2> QED BY <2>2, <2>3, <2>8
<1> QED BY <1>1, <1>2

\* x is m with n more bytes of data, for which o was returned.
MoreText(m, x, n, o) ==
  /\ MoreData(m, x, n)
  /\ x.aad = m.aad /\ x.clean = m.clean /\ x.way = m.way
  /\ x.used = m.used \cup {o[i][2] : i \in 1..n}

\* The output o uses the bytes of the key stream behind the d-th.
Runs(k, base, lo, d, n, no, o) ==
  \A i \in 1..n : o[i] = Xor(StreamByte(k, base, lo, d + i), DataBytes(no, d, n)[i])

\* With them the first d + n bytes of the key stream are used.
UsedTo(k, base, lo, d, n, o) ==
  {StreamByte(k, base, lo, i) : i \in 1..d} \cup {o[i][2] : i \in 1..n}
    = {StreamByte(k, base, lo, i) : i \in 1..(d + n)}

\* The bytes of the key stream behind d more bytes of a message.
LEMMA UsedMore ==
  ASSUME NEW k, NEW base, NEW lo, NEW d \in Nat, NEW n \in Nat, NEW no, NEW o,
         Runs(k, base, lo, d, n, no, o)
  PROVE  UsedTo(k, base, lo, d, n, o)
<1>1. ASSUME NEW i \in 1..n PROVE o[i][2] = StreamByte(k, base, lo, d + i)
  <2>1. DataBytes(no, d, n)[i] = <<"d", no, d + i>>
    BY DataIs
  <2> DEFINE w == StreamByte(k, base, lo, d + i)
  <2>2. o[i] = Xor(w, <<"d", no, d + i>>)
    BY <2>1 DEF Runs
  <2> HIDE DEF w
  <2>3. Xor(w, <<"d", no, d + i>>) = <<"xor", w, <<"d", no, d + i>> >>
    BY DEF Xor
  <2> QED BY ONLY <2>2, <2>3 DEF w
<1> DEFINE S(i) == StreamByte(k, base, lo, i)
<1>2. \A i \in 1..n : o[i][2] = S(d + i)
  BY <1>1
<1> HIDE DEF S
<1>3. ASSUME NEW b PROVE b \in {S(i) : i \in 1..d} \cup {o[i][2] : i \in 1..n}
                          <=> b \in {S(i) : i \in 1..(d + n)}
  <2>1. ASSUME NEW i \in 1..(d + n), b = S(i)
        PROVE  b \in {S(j) : j \in 1..d} \cup {o[j][2] : j \in 1..n}
    <3>1. CASE i <= d
      BY <2>1, <3>1
    <3>2. CASE i > d
      <4>1. i - d \in 1..n /\ d + (i - d) = i
        BY <3>2
      <4>2. o[i - d][2] = S(i)
        BY <4>1, <1>2
      <4> QED BY <4>1, <4>2, <2>1
    <3> QED BY <3>1, <3>2
  <2>2. ASSUME NEW i \in 1..d, b = S(i) PROVE b \in {S(j) : j \in 1..(d + n)}
    BY <2>2
  <2>3. ASSUME NEW i \in 1..n, b = o[i][2] PROVE b \in {S(j) : j \in 1..(d + n)}
    BY <2>3, <1>2
  <2> QED BY <2>1, <2>2, <2>3
<1>4. {S(i) : i \in 1..d} \cup {o[i][2] : i \in 1..n} = {S(i) : i \in 1..(d + n)}
  BY <1>3
<1> QED BY <1>4 DEF S, UsedTo

\* After a call the handle is right for the message, and so is what it returned.
Crypts(z, x, o) ==
  /\ GcmWhole(z, x)
  /\ x.clean => o = SubSeq(Made(x), x.data - Len(o) + 1, x.data)

\* The rest of a turn of _gcry_cipher_gcm_encrypt or _gcry_cipher_gcm_decrypt,
\* once the counter mode has run.
LEMMA GcmHashWhole ==
  ASSUME mode = "gcm", NEW f, IsHandle(f), NEW m, GcmWhole(f, m), ~f.over, ~f.tag, f.aadfin,
         NEW n \in Nat, NEW inp, inp = DataBytes(m.no, m.data, n),
         m.data + n \in 0..MaxData, m.way \in {"encrypt", "decrypt"},
         NEW base, InStream(f, m, base), NEW b, b = [f EXCEPT !.datalen = @ + n], NEW y, NEW o,
         GcmRan(b, m.key, base, LoOf(m), m.data, inp, n, y, o),
         NEW t, t = (IF m.way = "encrypt" THEN o ELSE inp),
         NEW z, z = [y EXCEPT !.mac = GhashBuf(@, t, FALSE)],
         NEW x, MoreText(m, x, n, o)
  PROVE  Crypts(z, x, o)
<1>1. Same(f, b, {"datalen"}) /\ b.datalen = f.datalen + n /\ IsHandle(b)
  BY DEF IsHandle, Same
<1>2. /\ Same(b, y, {"ctr", "last", "unused", "dead"}) /\ IsSeq(o) /\ Len(o) = n
      /\ \A i \in 1..n : o[i] = Xor(StreamByte(m.key, base, LoOf(m), m.data + i), inp[i])
  BY DEF GcmRan
<1>3. PICK q : Placed(y, m.key, base, LoOf(m), m.data + n, q)
  BY DEF GcmRan
<1>4. /\ IsHandle(z) /\ z.mac = GhashBuf(y.mac, t, FALSE)
      /\ \A k \in Fields \ {"mac"} : z[k] = y[k]
  BY <1>2 DEF IsHandle, Same, Fields
<1>5. /\ z.iv = f.iv /\ z.keyno = f.keyno /\ z.over = f.over /\ z.tag = f.tag
      /\ z.datalen = f.datalen + n /\ z.tagiv = f.tagiv /\ z.aadlen = f.aadlen
      /\ z.aadfin = f.aadfin /\ y.mac = f.mac
      /\ z.unused = y.unused /\ z.ctr = y.ctr /\ z.last = y.last
  BY ONLY <1>1, <1>2, <1>4 DEF Same, Fields
<1>6. /\ x.no = m.no /\ x.key = m.key /\ x.iv = m.iv /\ x.data = m.data + n
      /\ x.aad = m.aad /\ x.clean = m.clean /\ x.way = m.way
      /\ x.used = m.used \cup {o[i][2] : i \in 1..n} /\ MoreData(m, x, n)
  BY DEF MoreText, MoreData
<1>7. m.data \in Nat /\ IsSeq(inp) /\ Len(inp) = n
  BY DataIs, ModesAssumption DEF GcmWhole
<1>8. FirstCounter(x) = FirstCounter(m) /\ LoOf(x) = LoOf(m) /\ AadOf(x) = AadOf(m)
  BY <1>6, CounterSame DEF Streams, LoOf, AadOf
<1>9. InStream(z, x, base)
  <2>1. x.used = {StreamByte(m.key, base, LoOf(m), i) : i \in 1..(m.data + n)}
    <3>1. m.used = {StreamByte(m.key, base, LoOf(m), i) : i \in 1..m.data}
      BY DEF InStream
    <3>2. {StreamByte(m.key, base, LoOf(m), i) : i \in 1..m.data} \cup {o[i][2] : i \in 1..n}
             = {StreamByte(m.key, base, LoOf(m), i) : i \in 1..(m.data + n)}
      <4>1. Runs(m.key, base, LoOf(m), m.data, n, m.no, o)
        BY <1>2 DEF Runs
      <4> DEFINE l == LoOf(m)
                 d == m.data
                 k == m.key
      <4>2. Runs(k, base, l, d, n, m.no, o) /\ d \in Nat /\ n \in Nat
        BY <4>1, <1>7
      <4> HIDE DEF l, d, k
      <4>3. UsedTo(k, base, l, d, n, o)
        BY ONLY <4>2, UsedMore
      <4> QED BY <4>3 DEF UsedTo, l, d, k
    <3> QED BY <3>1, <3>2, <1>6
  <2>2. Placed(z, x.key, base, LoOf(x), x.data, q)
    BY <1>3, <1>5, <1>6, <1>8 DEF Placed
  <2> QED BY <2>1, <2>2, <1>6, <1>8 DEF InStream
<1>10. ASSUME x.clean
       PROVE  /\ GcmMac(z, x)
              /\ o = SubSeq(Made(x), x.data - Len(o) + 1, x.data)
  <2>1. base = FirstCounter(m).base
    BY <1>6, <1>10 DEF InStream
  <2>2. StreamOut(m, n, o)
    BY <2>1, <1>2, StreamIs DEF LoOf, StreamOut
  <2>3. /\ mode \in Streams /\ x.way \in {"encrypt", "decrypt"} /\ x.way = m.way
    BY <1>6 DEF Streams
  <2>4. o = SubSeq(Made(x), x.data - Len(o) + 1, x.data)
    <3>1. mode \in Streams /\ m.data \in Nat /\ n \in Nat /\ MoreData(m, x, n) /\ StreamOut(m, n, o)
      BY <2>2, <2>3, <1>6, <1>7
    <3> QED BY ONLY <3>1, MadeMore
  <2>5. CipherText(x) = CipherText(m) \o t
    BY <2>2, <2>3, <1>2, <1>6, <1>7, TextMore, SMTT(60)
  <2> DEFINE p == Blocks(AadOf(m))
             s == CipherText(m)
  <2>6. IsSeq(p) /\ IsSeq(s) /\ IsSeq(t)
    <3>1. IsSeq(AadOf(m))
      BY AadIs DEF AadOf, GcmWhole
    <3> QED BY <3>1, <2>3, <1>2, <1>7, PaddedConcat, MadeIs
  <2>7. f.mac = Coll(p \o FullBlocks(s), Tail0(s)) /\ f.tagiv = <<"E", m.key, FirstCounter(m)>>
    BY <1>6, <1>10 DEF GcmWhole, GcmMac
  <2> HIDE DEF p, s
  <2>8. GhashBuf(Coll(p \o FullBlocks(s), Tail0(s)), t, FALSE)
          = Coll(p \o FullBlocks(s \o t), Tail0(s \o t))
    BY ONLY <2>6, GhashMore
  <2>9. z.mac = Coll(Blocks(AadOf(x)) \o FullBlocks(CipherText(x)), Tail0(CipherText(x)))
    BY ONLY <2>5, <2>7, <2>8, <1>4, <1>5, <1>8 DEF p, s
  <2> QED BY <2>4, <2>7, <2>9, <1>5, <1>6, <1>8 DEF GcmMac
<1>11. GcmWhole(z, x)
  BY <1>5, <1>6, <1>9, <1>10 DEF GcmWhole
<1> QED BY <1>10, <1>11 DEF Crypts

\* _gcry_cipher_gcm_encrypt and _gcry_cipher_gcm_decrypt, with a nonce set.  x is
\* the message after the call, if that succeeds; if not, the handle is as right as
\* it was, of m and of the message c it was turned from.
LEMMA GcmCryptWhole ==
  ASSUME mode = "gcm", NEW a, IsHandle(a), NEW m, GcmWhole(a, m), ~a.over, ~a.tag,
         NEW n \in Nat, NEW inp, inp = DataBytes(m.no, m.data, n), NEW enc \in BOOLEAN,
         m.way = IF enc THEN "encrypt" ELSE "decrypt",
         NEW r, r = GcmCryptWithIv(a, inp, enc),
         NEW x, r.ok => MoreText(m, x, n, r.out), NEW c, GcmWhole(a, c)
  PROVE  /\ ~r.ok => GcmWhole(r.h, m) /\ GcmWhole(r.h, c)
         /\ r.ok => Crypts(r.h, x, r.out)
<1> DEFINE f == GcmAadFinish(a)
           b == [f EXCEPT !.datalen = @ + Len(inp)]
<1>1. GcmWhole(f, m) /\ Same(a, f, {"mac", "aadfin"}) /\ f.aadfin
  BY AadFinishWhole
<1>2. CASE enc /\ a.disallow
  <2>1. r.ok = FALSE /\ r.h = a
    BY <1>2 DEF GcmCryptWithIv, Refused, Result
  <2> QED BY <2>1
<1>3. CASE ~(enc /\ a.disallow)
  <2>1. r = GcmCryptData(b, inp, enc)
    BY <1>3 DEF GcmCryptWithIv
  <2> HIDE DEF f
  <2>2. /\ IsHandle(f) /\ f.over = a.over /\ f.tag = a.tag /\ f.iv = a.iv /\ f.keyno = a.keyno
    BY <1>1 DEF Same, Fields
  <2>3. /\ Same(f, b, {"datalen"}) /\ b.datalen = f.datalen + Len(inp)
    BY <2>2 DEF IsHandle, Same
  <2>4. /\ m.data \in 0..MaxData /\ f.datalen = m.data /\ m.iv.hashed \in BOOLEAN
        /\ m.key = f.keyno
    BY <1>1, <2>2 DEF GcmWhole
  <2>5. IsSeq(inp) /\ Len(inp) = n /\ m.data \in Nat /\ MaxData \in Nat
    BY <2>4, DataIs, ModesAssumption
  <2>6. b = [f EXCEPT !.datalen = @ + n]
    BY <2>5
  <2> HIDE DEF b
  <2>7. CASE OverLimit(b.datalen)
    <3> DEFINE w == [b EXCEPT !.over = TRUE]
    <3>1. r.ok = FALSE /\ r.h = w
      BY <2>1, <2>7 DEF GcmCryptData, Refused, Result
    <3>2. w.iv = a.iv /\ w.keyno = a.keyno /\ w.over
      BY <2>2, <2>3 DEF Same, IsHandle, Fields
    <3> HIDE DEF w
    <3>3. GcmWhole(w, m) /\ GcmWhole(w, c)
      BY <3>2, GcmOver
    <3> QED BY <3>1, <3>3
  <2>8. CASE ~OverLimit(b.datalen)
    <3>1. r = GcmHashData(GcmCtrEncrypt(b, inp), inp, enc)
      BY <2>1, <2>8 DEF GcmCryptData
    <3>2. m.data + n \in 0..MaxData
      BY <2>3, <2>4, <2>5, <2>8 DEF OverLimit
    <3>3. n <= BlockLen * CtrMod
      <4>1. MaxData <= (CtrMod - 2) * BlockLen /\ CtrMod \in Nat
        BY ModesAssumption
      <4>2. (CtrMod - 2) * BlockLen = BlockLen * (CtrMod - 2)
        BY <4>1, BlockLenAssumption
      <4>3. BlockLen * (CtrMod - 2) <= BlockLen * CtrMod
        BY <4>1, BlockLenAssumption, MultMono
      <4>4. BlockLen * (CtrMod - 2) \in Int /\ BlockLen * CtrMod \in Int
        BY <4>1, BlockLenAssumption
      <4> QED BY <4>1, <4>2, <4>3, <4>4, <3>2, <2>5
    <3>4. PICK base : InStream(f, m, base)
      BY <1>1 DEF GcmWhole
    <3>5. PICK q : Placed(f, m.key, base, LoOf(m), m.data, q)
      BY <3>4, <2>2 DEF InStream
    <3>6. b.keyno = m.key /\ Placed(b, b.keyno, base, LoOf(m), m.data, q)
      BY <3>5, <2>3, <2>4 DEF Placed, Same, Fields
    <3>7. LoOf(m) \in Nat
      <4>1. GcmFirst(m)
        BY <2>4, GcmCounter
      <4> QED BY <4>1 DEF GcmFirst
    <3>8. PICK y, o : /\ GcmCtrEncrypt(b, inp) = Result(y, TRUE, o)
                      /\ GcmRan(b, b.keyno, base, LoOf(m), m.data, inp, Len(inp), y, o)
      <4> DEFINE l == LoOf(m)
                 d == m.data
      <4>1. /\ mode = "gcm" /\ IsHandle(b) /\ IsSeq(inp) /\ l \in Nat /\ d \in Nat
            /\ Placed(b, b.keyno, base, l, d, q) /\ Len(inp) <= BlockLen * CtrMod
        BY <3>3, <3>6, <3>7, <2>3, <2>5 DEF Same
      <4> HIDE DEF l, d
      <4>2. \E y, o : /\ GcmCtrEncrypt(b, inp) = Result(y, TRUE, o)
                      /\ GcmRan(b, b.keyno, base, l, d, inp, Len(inp), y, o)
        BY ONLY <4>1, GcmCtrIs
      <4> QED BY <4>2 DEF l, d
    <3> DEFINE t == IF enc THEN o ELSE inp
               z == [y EXCEPT !.mac = GhashBuf(@, t, FALSE)]
    <3>9. r.ok = TRUE /\ r.h = z /\ r.out = o
      BY <3>1, <3>8 DEF GcmHashData, Result
    <3>11. MoreText(m, x, n, o)
      BY <3>9
    <3>12. /\ mode = "gcm" /\ IsHandle(f) /\ GcmWhole(f, m) /\ ~f.over /\ ~f.tag /\ f.aadfin
           /\ n \in Nat /\ inp = DataBytes(m.no, m.data, n) /\ m.data + n \in 0..MaxData
           /\ m.way \in {"encrypt", "decrypt"} /\ t = (IF m.way = "encrypt" THEN o ELSE inp)
           /\ InStream(f, m, base) /\ b = [f EXCEPT !.datalen = @ + n]
           /\ GcmRan(b, m.key, base, LoOf(m), m.data, inp, n, y, o)
           /\ z = [y EXCEPT !.mac = GhashBuf(@, t, FALSE)]
           /\ MoreText(m, x, n, o)
      BY <1>1, <2>2, <2>5, <2>6, <3>2, <3>4, <3>6, <3>8, <3>11
    <3> HIDE DEF z, t
    <3>13. Crypts(z, x, o)
      BY ONLY <3>12, GcmHashWhole
    <3> QED BY <3>9, <3>13
  <2> QED BY <2>7, <2>8
<1> QED BY <1>2, <1>3

\* _gcry_cipher_gcm_tag
LEMMA GcmTagWhole ==
  ASSUME mode = "gcm", NEW g, IsHandle(g), NEW m, GcmWhole(g, m), NEW r, r = GcmTag(g)
  PROVE  GcmWhole(r.h, m) /\ (r.ok /\ m.clean => r.h.val = Tag(m))
<1>0. g.keyno # 0
  BY DEF GcmWhole
<1>1. CASE g.over
  <2>1. r.h = g /\ r.ok = FALSE
    BY <1>1 DEF GcmTag, Refused, Result
  <2> QED BY <2>1
<1>2. CASE ~g.over /\ g.tag
  <2>1. r.h = g
    BY <1>2 DEF GcmTag, Done, Result
  <2> QED BY <2>1, <1>2 DEF GcmWhole
<1>3. CASE ~g.over /\ ~g.tag
  <2> DEFINE l == LengthBlock(g.aadlen, g.datalen)
             v == GhashBuf(GhashBuf(g.mac, <<>>, TRUE), l, TRUE)
  <2>1. r = GcmTagFrom(g, v)
    BY <1>0, <1>3 DEF GcmTag
  <2> HIDE DEF v
  <2> DEFINE w == <<"gcm", g.keyno, v.hash, g.tagiv>>
             y == [g EXCEPT !.mac = v, !.aadfin = TRUE, !.datafin = TRUE, !.tag = TRUE,
                            !.tagiv = NoValue, !.aadlen = 0, !.datalen = 0, !.val = w]
  <2>a. r.h = y
    BY <2>1 DEF GcmTagFrom, Done, Result
  <2> HIDE DEF w
  <2>b. /\ y.iv = g.iv /\ y.keyno = g.keyno /\ y.over = g.over /\ y.tag = TRUE /\ y.val = w
    BY DEF IsHandle, Fields
  <2> HIDE DEF y
  <2>2. /\ r.h = y /\ y.iv = g.iv /\ y.keyno = g.keyno /\ y.over = g.over
        /\ y.tag = TRUE /\ y.val = <<"gcm", g.keyno, v.hash, g.tagiv>>
    BY <2>a, <2>b DEF w
  <2>3. ASSUME m.clean PROVE y.val = Tag(m)
    <3> DEFINE p == Blocks(AadOf(m))
               s == CipherText(m)
               e == <<>>
    <3>1. /\ m.data \in Nat /\ m.aad \in Nat /\ g.aadlen = m.aad /\ g.datalen = m.data
          /\ GcmMac(g, m) /\ (~g.aadfin => m.data = 0) /\ m.key = g.keyno
      BY <2>3, <1>3, ModesAssumption DEF GcmWhole
    <3>2. IsSeq(AadOf(m)) /\ IsSeq(p) /\ IsSeq(s) /\ IsSeq(e) /\ s \o e = s
      <4>1. IsSeq(AadOf(m))
        BY <3>1, AadIs DEF AadOf
      <4> QED BY <4>1, <3>1, PaddedConcat, MadeIs, EmptyIs, ConcatEmpty DEF Streams
    <3>3. GhashBuf(g.mac, e, TRUE) = Coll(p \o Blocks(s), e)
      <4>1. CASE g.aadfin
        <5>1. g.mac = Coll(p \o FullBlocks(s), Tail0(s))
          BY <4>1, <3>1 DEF GcmMac
        <5>2. IsSeq(p) /\ IsSeq(s) /\ IsSeq(e)
          BY <3>2
        <5> HIDE DEF p, s, e
        <5>3. GhashBuf(Coll(p \o FullBlocks(s), Tail0(s)), e, TRUE) = Coll(p \o Blocks(s \o e), <<>>)
          BY ONLY <5>2, GhashMore
        <5> QED BY <5>1, <5>3, <3>2 DEF e
      <4>2. CASE ~g.aadfin
        <5> DEFINE t == AadOf(m)
        <5>1. g.mac = Coll(FullBlocks(t), Tail0(t))
          BY <4>2, <3>1 DEF GcmMac
        <5>2. IsSeq(e) /\ IsSeq(t) /\ IsSeq(FullBlocks(t)) /\ t \o e = t
              /\ e \o FullBlocks(t) = FullBlocks(t) /\ e \o Blocks(t) = Blocks(t)
          BY <3>2, FewBytes, ConcatEmpty
        <5>3. s = e /\ Blocks(e) = e /\ Blocks(t) \o e = Blocks(t)
          BY <3>1, <3>2, <4>2, MadeIs, EmptyIs, NoBlocks, ConcatEmpty DEF Streams
        <5> HIDE DEF t, e, s
        <5>5. IsSeq(e) /\ IsSeq(t)
          BY <5>2
        <5>4. GhashBuf(Coll(e \o FullBlocks(t), Tail0(t)), e, TRUE) = Coll(e \o Blocks(t \o e), <<>>)
          BY ONLY <5>5, GhashMore
        <5> QED BY <5>1, <5>2, <5>3, <5>4 DEF e, t
      <4> QED BY <4>1, <4>2
    <3>4. v = Coll((p \o Blocks(s)) \o <<l>>, <<>>)
      <4> DEFINE u == p \o Blocks(s)
      <4>1. IsSeq(u) /\ IsSeq(e) /\ Len(e) < BlockLen /\ IsSeq(l) /\ e \o l = l /\ Blocks(l) = <<l>>
        <5>1. IsSeq(Blocks(s))
          BY <3>2, PaddedConcat
        <5>2. IsSeq(l) /\ Blocks(l) = <<l>>
          BY LengthIs
        <5>3. IsSeq(u)
          BY <5>1, <3>2, ConcatIs
        <5> QED BY <5>2, <5>3, <3>2, EmptyIs, ConcatEmpty, BlockLenAssumption
      <4>2. v = GhashBuf(Coll(u, e), l, TRUE)
        BY <3>3 DEF v
      <4> HIDE DEF u, e, l
      <4>3. GhashBuf(Coll(u, e), l, TRUE) = Coll(u \o Blocks(e \o l), <<>>)
        BY ONLY <4>1, GhashIs
      <4> QED BY <4>1, <4>2, <4>3 DEF u
    <3>5. v.hash = (p \o Blocks(s)) \o <<l>>
      <4> HIDE DEF p, s, l
      <4> QED BY ONLY <3>4 DEF Coll
    <3>6. g.tagiv = <<"E", m.key, FirstCounter(m)>>
      BY <3>1 DEF GcmMac
    <3>7. Tag(m) = <<"gcm", m.key, (p \o Blocks(s)) \o <<LengthBlock(m.aad, m.data)>>,
                     <<"E", m.key, FirstCounter(m)>> >>
      <4> HIDE DEF p, s
      <4>1. Tag(m) = <<"gcm", m.key, Blocks(AadBytes(m.no, 0, m.aad)) \o Blocks(CipherText(m))
                                     \o <<LengthBlock(m.aad, m.data)>>,
                     <<"E", m.key, FirstCounter(m)>> >>
        BY ONLY mode = "gcm" DEF Tag, OneShot
      <4> QED BY ONLY <4>1 DEF p, s, AadOf
    <3> QED BY <3>1, <3>5, <3>6, <3>7, <2>2
  <2>4. PICK base : InStream(g, m, base)
    BY DEF GcmWhole
  <2>5. InStream(y, m, base)
    BY <2>2, <2>4 DEF InStream
  <2>6. GcmWhole(y, m)
    BY <2>2, <2>3, <2>5 DEF GcmWhole
  <2> QED BY <2>2, <2>3, <2>6
<1> QED BY <1>1, <1>2, <1>3

-----------------------------------------------------------------------------
(* What a message leaves behind *)

\* What the message before left in macbuf: nothing if its tag was made, or if
\* nothing was given since macbuf was last known to be empty.
LeftGood(g, m) ==
  /\ m.aad \in Nat
  /\ g.tag \/ (m.clean /\ m.aad = 0 /\ m.way = "none") => g.mac.buf = <<>>
LeftInv == mode = "gcm" => LeftGood(h, msg)

\* do_ghash_buf leaves nothing when it pads, and does nothing without input.
LEMMA GhashLeft ==
  ASSUME NEW c, NEW bytes
  PROVE  /\ GhashBuf(c, bytes, TRUE).buf = <<>>
         /\ GhashBuf(c, <<>>, FALSE) = c
<1>1. ASSUME NEW s PROVE Turn(s, TRUE, FALSE).buf = <<>>
  BY DEF Turn, Processed
<1>2. ASSUME NEW s, s.buf = <<>> PROVE SecondTurn(s, TRUE, FALSE).buf = <<>>
  BY <1>1, <1>2 DEF SecondTurn
<1>3. ASSUME NEW s PROVE Collector(SecondTurn(Turn(s, TRUE, FALSE), TRUE, FALSE)).buf = <<>>
  BY <1>1, <1>2 DEF Collector
<1>4. GhashBuf(c, bytes, TRUE).buf = <<>>
  BY <1>3 DEF GhashBuf, Collect
<1> QED BY <1>4 DEF GhashBuf, Collect

\* A new IV leaves macbuf as it is, or hashes it away.
LEMMA InitivLeft ==
  ASSUME NEW g, IsHandle(g), NEW iv, NEW m, m.aad = 0, m.clean => g.mac.buf = <<>>
  PROVE  LeftGood(GcmInitiv(g, iv), m) /\ GcmInitiv(g, iv).tag = FALSE
<1>1. ASSUME NEW ctr, NEW buf
      PROVE  GcmStart(g, ctr, buf).mac.buf = buf /\ GcmStart(g, ctr, buf).tag = FALSE
  BY DEF GcmStart, IsHandle, Fields
<1>2. GcmIvHash(g, iv).buf = <<>>
  BY GhashLeft DEF GcmIvHash
<1>3. \/ GcmInitiv(g, iv).mac.buf = <<>>
      \/ GcmInitiv(g, iv).mac.buf = g.mac.buf
  BY <1>1, <1>2 DEF GcmInitiv, GcmHashed
<1>4. GcmInitiv(g, iv).tag = FALSE
  BY <1>1 DEF GcmInitiv, GcmHashed
<1> DEFINE y == GcmInitiv(g, iv)
<1> HIDE DEF y
<1>5. LeftGood(y, m)
  BY <1>3, <1>4 DEF LeftGood, y
<1> QED BY <1>4, <1>5 DEF y

\* The handle and the message once a nonce is there.
LEMMA CurrentLeft ==
  ASSUME mode = "gcm", IsHandle(h), DOMAIN msg = MsgFields, LeftGood(h, msg),
         h.keyno # 0, ~h.tag, NEW a, a = GcmAutoIv(h)
  PROVE  LeftGood(a, Current) /\ ~a.tag /\ (~h.iv => a.iv = TRUE) /\ IsHandle(a)
<1>0. IsHandle(a)
  BY GcmSetsIv DEF AutoSet, SameKey, Kept
<1>1. CASE h.iv
  BY <1>0, <1>1 DEF GcmAutoIv, Current
<1>2. CASE ~h.iv
  <2> DEFINE x == [h EXCEPT !.disallow = h.fips]
             m == Message(msg.no + 1, ZeroIv, h, Clean)
  <2>1. a = GcmInitiv(x, ZeroIv)
    BY <1>2 DEF GcmAutoIv, GcmSetiv, Done, Result
  <2>2. IsHandle(x) /\ x.mac = h.mac
    BY DEF IsHandle, Fields
  <2> HIDE DEF x
  <2>3. Current = m
    BY <1>2 DEF Current, AutoIv
  <2>4. m.aad = 0 /\ m.clean = Clean
    BY DEF Message
  <2>5. Clean => h.mac.buf = <<>>
    BY DEF Clean, LeftGood
  <2> HIDE DEF m
  <2>6. LeftGood(a, m) /\ a.tag = FALSE
    BY <2>1, <2>2, <2>4, <2>5, InitivLeft
  <2>7. a.iv = TRUE
    BY <2>1, <2>2 DEF GcmInitiv, GcmHashed, GcmStart, IsHandle, Fields
  <2> QED BY <1>0, <2>3, <2>6, <2>7
<1> QED BY <1>1, <1>2

\* The counter does not mark a tag.
LEMMA CtrSameTag ==
  ASSUME NEW g, IsHandle(g), NEW inp
  PROVE  GcmCtrEncrypt(g, inp).h.tag = g.tag
<1>1. ASSUME NEW s, IsHandle(s.h)
      PROVE  GcmCtrTurn(s).h.tag = s.h.tag
  <2>1. ASSUME NEW x, NEW n, NEW w
        PROVE  GcmTurned(s, CtrEncrypt(s.h, x, s.h.keyno), n, w).h.tag = s.h.tag
    <3> DEFINE y == CtrEncrypt(s.h, x, s.h.keyno)
    <3>1. IsHandle(y.h) /\ y.h.tag = s.h.tag
      BY <1>1 DEF CtrEncrypt, Result, IsHandle, Fields
    <3> HIDE DEF y
    <3>2. GcmTurned(s, y, n, w).h.tag = s.h.tag
      BY <3>1 DEF GcmTurned, IsHandle, Fields
    <3> QED BY <3>2 DEF y
  <2> QED BY <2>1 DEF GcmCtrTurn
<1> DEFINE s == [h |-> g, in |-> inp, out |-> <<>>]
           t == GcmCtrTurn(s)
<1>2. s.h = g
  OBVIOUS
<1> HIDE DEF s
<1>3. t.h.tag = g.tag /\ IsHandle(t.h)
  BY <1>1, <1>2, GcmTurnSameIv DEF SameIv, SameKey, Kept
<1> HIDE DEF t
<1>4. GcmSecondTurn(t).h.tag = g.tag
  BY <1>1, <1>3 DEF GcmSecondTurn
<1>5. GcmCtrEncrypt(g, inp).h = GcmSecondTurn(t).h
  BY DEF GcmCtrEncrypt, GcmOutput, Result, t, s
<1> QED BY <1>4, <1>5

\* gcry_cipher_authenticate
LEMMA AuthLeft ==
  ASSUME mode = "gcm", IsHandle(h), DOMAIN msg = MsgFields, LeftGood(h, msg),
         NEW n \in Nat, DoAuthenticate(n)
  PROVE  LeftGood(h', msg')
<1> DEFINE m == Current
           inp == AadBytes(m.no, m.aad, n)
           r == GcmAuthenticate(h, inp)
           x == [m EXCEPT !.aad = @ + n,
                          !.parts = IF mode = "siv" THEN Append(@, inp) ELSE @,
                          !.clean = @ /\ (mode = "ccm" => m.data = 0)]
<1>1. /\ h' = r.h
      /\ msg' = IF r.ok THEN x ELSE IF r.h.iv # h.iv THEN m ELSE msg
  <2>1. Authenticate(h, inp) = r
    BY DEF Authenticate
  <2> HIDE DEF r
  <2> QED BY <2>1, Zenon DEF DoAuthenticate
<1>2. DOMAIN m = MsgFields /\ (h.iv => m = msg)
  BY CurrentIs
<1>3. CASE h.over \/ h.tag \/ h.aadfin \/ h.datafin \/ h.keyno = 0
  <2>1. r.h = h /\ r.ok = FALSE
    BY <1>3 DEF GcmAuthenticate, Refused, Result
  <2> HIDE DEF r, m, x
  <2> QED BY <2>1, <1>1
<1>4. CASE ~(h.over \/ h.tag \/ h.aadfin \/ h.datafin \/ h.keyno = 0)
  <2> DEFINE a == GcmAutoIv(h)
             b == [a EXCEPT !.aadlen = @ + Len(inp)]
  <2>1. r = GcmAad(b, inp)
    BY <1>4 DEF GcmAuthenticate
  <2>2. LeftGood(a, m) /\ ~a.tag /\ (~h.iv => a.iv = TRUE) /\ IsHandle(a)
    BY <1>4, CurrentLeft
  <2> HIDE DEF a, r
  <2>3. IsHandle(b) /\ b.mac = a.mac /\ b.tag = a.tag /\ b.iv = a.iv
    BY <2>2 DEF IsHandle, Fields
  <2> HIDE DEF b
  <2>4. n = 0 => inp = <<>>
    BY DEF AadBytes
  <2> HIDE DEF inp, m
  <2>5. /\ x.aad = m.aad + n /\ (x.clean => m.clean) /\ x.way = m.way
    BY <1>2 DEF MsgFields
  <2> HIDE DEF x
  <2>6. CASE b.aadlen > MaxAad
    <3>1. r.ok = FALSE /\ r.h.mac = a.mac /\ r.h.tag = a.tag /\ r.h.iv = a.iv
      BY <2>1, <2>3, <2>6 DEF GcmAad, Refused, Result, IsHandle, Fields
    <3>2. LeftGood(r.h, m)
      BY <3>1, <2>2 DEF LeftGood
    <3>3. CASE h.iv
      BY <3>1, <3>2, <3>3, <1>1, <1>2
    <3>4. CASE ~h.iv
      BY <3>1, <3>2, <3>4, <2>2, <1>1
    <3> QED BY <3>3, <3>4
  <2>7. CASE ~(b.aadlen > MaxAad)
    <3>1. r.ok = TRUE /\ r.h.mac = GhashBuf(a.mac, inp, FALSE) /\ r.h.tag = a.tag
      BY <2>1, <2>3, <2>7 DEF GcmAad, Done, Result, IsHandle, Fields
    <3>2. x.aad \in Nat /\ (x.aad = 0 => n = 0 /\ m.aad = 0)
      BY <2>2, <2>5 DEF LeftGood
    <3>3. n = 0 => r.h.mac = a.mac
      BY <3>1, <2>4, GhashLeft
    <3>4. LeftGood(r.h, x)
      BY <3>1, <3>2, <3>3, <2>2, <2>5 DEF LeftGood
    <3> QED BY <3>1, <3>4, <1>1
  <2> QED BY <2>6, <2>7
<1> QED BY <1>3, <1>4

\* gcry_cipher_encrypt and gcry_cipher_decrypt
LEMMA CryptLeft ==
  ASSUME mode = "gcm", IsHandle(h), DOMAIN msg = MsgFields, LeftGood(h, msg),
         NEW n \in Nat, NEW way \in {"encrypt", "decrypt"}, DoCrypt(n, way)
  PROVE  LeftGood(h', msg')
<1> DEFINE c == Current
           m == [c EXCEPT !.way = way]
           inp == Input(m, n)
           enc == way = "encrypt"
           r == GcmCrypt(h, inp, enc)
<1>1. h' = r.h /\ msg' = Crypted(m, n, r)
  <2>1. Crypt(h, inp, enc) = r
    BY DEF Crypt
  <2> HIDE DEF r, inp
  <2>2. h' = r.h /\ msg' = Crypted(m, n, r)
    BY <2>1, Zenon DEF DoCrypt, inp
  <2> QED BY <2>2
<1>2. DOMAIN c = MsgFields /\ (h.iv => c = msg)
  BY CurrentIs
<1> HIDE DEF c
<1>3. DOMAIN m = MsgFields /\ m.way = way /\ m.aad = c.aad
  BY <1>2 DEF MsgFields
<1> HIDE DEF m, inp
<1>4. /\ r.ok => msg'.way = way /\ msg'.aad = m.aad
      /\ ~r.ok => msg' = IF r.h.iv # h.iv THEN m ELSE msg
  <2> HIDE DEF r
  <2> QED BY <1>1, <1>3 DEF Crypted, OneShot, MsgFields
<1>5. CASE h.over \/ h.tag \/ h.datafin \/ h.keyno = 0
  <2>1. r.h = h /\ r.ok = FALSE
    BY <1>5 DEF GcmCrypt, Refused, Result
  <2> HIDE DEF r
  <2> QED BY <2>1, <1>1, <1>4
<1>6. CASE ~(h.over \/ h.tag \/ h.datafin \/ h.keyno = 0)
  <2> DEFINE a == GcmAutoIv(h)
             b == [GcmAadFinish(a) EXCEPT !.datalen = @ + Len(inp)]
             e == GcmCtrEncrypt(b, inp)
  <2>1. r = IF enc /\ a.disallow THEN Refused(a)
            ELSE IF OverLimit(b.datalen) THEN Refused([b EXCEPT !.over = TRUE])
            ELSE GcmHashData(e, inp, enc)
    BY <1>6 DEF GcmCrypt, GcmCryptWithIv, GcmCryptData
  <2> HIDE DEF r
  <2>2. LeftGood(a, c) /\ ~a.tag /\ (~h.iv => a.iv = TRUE) /\ IsHandle(a)
    BY <1>6, CurrentLeft DEF c
  <2> HIDE DEF a
  <2>3. /\ IsHandle(b) /\ b.tag = a.tag /\ b.iv = a.iv
        /\ a.mac.buf = <<>> => b.mac.buf = <<>>
    BY <2>2, GhashLeft DEF GcmAadFinish, IsHandle, Fields
  <2> HIDE DEF b
  <2>4. IsHandle(e.h) /\ e.h.tag = b.tag
    BY <2>3, CtrSameTag, GcmCtrSameIv DEF SameIv, SameKey, Kept
  <2> HIDE DEF e
  <2>5. CASE r.ok
    <3>1. ~r.h.tag
      BY <2>1, <2>2, <2>3, <2>4, <2>5 DEF Refused, GcmHashData, Result, IsHandle, Fields
    <3> QED BY <3>1, <2>2, <1>1, <1>3, <1>4, <2>5 DEF LeftGood
  <2>6. CASE ~r.ok
    <3>1. /\ ~r.h.tag /\ r.h.iv = a.iv
          /\ a.mac.buf = <<>> => r.h.mac.buf = <<>>
      BY <2>1, <2>2, <2>3, <2>6 DEF Refused, GcmHashData, Result, IsHandle, Fields
    <3>2. CASE h.iv
      <4>1. LeftGood(r.h, m) /\ LeftGood(r.h, msg)
        BY <3>1, <3>2, <2>2, <1>2, <1>3 DEF LeftGood
      <4> QED BY <4>1, <1>1, <1>4, <2>6
    <3>3. CASE ~h.iv
      <4>1. msg' = m
        BY <3>1, <3>3, <2>2, <2>6, <1>4
      <4> QED BY <4>1, <3>1, <2>2, <1>1, <1>3 DEF LeftGood
    <3> QED BY <3>2, <3>3
  <2> QED BY <2>5, <2>6
<1> QED BY <1>5, <1>6

\* gcry_cipher_gettag and gcry_cipher_checktag
LEMMA TagLeft ==
  ASSUME IsHandle(h), LeftGood(h, msg), NEW r, r = GcmTag(h) \/ r = GcmGetTag(h)
  PROVE  LeftGood(r.h, msg) /\ r.h.iv = h.iv
<1>1. ASSUME NEW m, m.buf = <<>>
      PROVE  /\ GcmTagFrom(h, m).h.mac.buf = <<>> /\ GcmTagFrom(h, m).h.iv = h.iv
  BY <1>1 DEF GcmTagFrom, Done, Result, IsHandle, Fields
<1>2. LeftGood(GcmTag(h).h, msg) /\ GcmTag(h).h.iv = h.iv
  BY <1>1, GhashLeft DEF GcmTag, Refused, Done, Result, LeftGood
<1> QED BY <1>2 DEF GcmGetTag, Refused, Result

\* It holds of an opened handle,
LEMMA LeftInit == Init => LeftInv
<1> SUFFICES ASSUME Init PROVE LeftGood(h, msg)
  BY DEF LeftInv
<1>1. PICK fips \in BOOLEAN : h = [Opened EXCEPT !.fips = fips]
  BY DEF Init
<1>2. h.mac.buf = <<>>
  BY <1>1 DEF Opened, Empty
<1>3. msg.aad = 0
  BY DEF Init, Message
<1> QED BY <1>2, <1>3 DEF LeftGood

\* and every call keeps it.
LEMMA LeftNext == GenInv /\ LeftInv /\ [Next]_vars => LeftInv'
<1> SUFFICES ASSUME GenInv, LeftInv, [Next]_vars PROVE LeftInv'
  OBVIOUS
<1>a. IsHandle(h) /\ DOMAIN msg = MsgFields
  BY DEF GenInv
<1>m. mode' = mode
  BY DEF Next, SetKey, SetBadKey, SetEmptyIv, GenIv, GetTag, Finalize, Reset, SetIv, DoAuthenticate,
         DoCrypt, CheckTag, SetLengths, SetTaglen, SetDecryptionTag, vars
<1> SUFFICES ASSUME mode = "gcm" PROVE LeftGood(h', msg')
  BY <1>m DEF LeftInv, LeftGood
<1>b. LeftGood(h, msg)
  BY DEF LeftInv
<1>c. Clean => h.mac.buf = <<>>
  BY <1>b DEF Clean, LeftGood
<1>0. ASSUME h'.tag => h.tag, h'.mac.buf = h.mac.buf, msg' = [msg EXCEPT !.whole = FALSE]
      PROVE  LeftGood(h', msg')
  BY <1>0, <1>a, <1>b DEF LeftGood, MsgFields
<1>1. CASE SetKey
  BY <1>1, <1>0, <1>a DEF SetKey, Rekeyed, NextMessage, IsHandle, Fields
<1>2. CASE SetBadKey
  BY <1>2, <1>0, <1>a DEF SetBadKey, IsHandle, Fields
<1>3. CASE SetEmptyIv
  BY <1>3, <1>0, <1>a, EmptyIvIs DEF SetEmptyIv
<1>4. CASE GenIv
  <2> DEFINE iv == Nonce(100 + dynamic, FALSE)
             m == [Message(msg.no + 1, iv, h, Clean) EXCEPT !.generated = TRUE]
  <2>1. h' = GcmInitiv(h, iv) /\ msg' = m
    BY <1>4 DEF GenIv, GcmGeniv, Done, Result
  <2> HIDE DEF iv
  <2>2. m.aad = 0 /\ (m.clean => h.mac.buf = <<>>)
    BY <1>c DEF Message
  <2> HIDE DEF m
  <2> QED BY <2>1, <2>2, <1>a, InitivLeft
<1>5. CASE GetTag
  <2> DEFINE r == GcmGetTag(h)
  <2>1. h' = r.h /\ (r.h.iv = h.iv => msg' = msg)
    <3>1. MakeTag(h, FALSE) = r
      BY DEF MakeTag
    <3> HIDE DEF r
    <3> QED BY <3>1, <1>5 DEF GetTag
  <2>2. LeftGood(r.h, msg) /\ r.h.iv = h.iv
    BY <1>a, <1>b, TagLeft
  <2> HIDE DEF r
  <2> QED BY <2>1, <2>2
<1>6. CASE Reset
  <2>1. h' = [Opened EXCEPT !.fips = h.fips, !.keyno = h.keyno, !.key = h.key]
    BY <1>6 DEF Reset, WasReset
  <2>2. h'.mac.buf = <<>>
    BY <2>1 DEF Opened, Empty
  <2>3. msg'.aad = 0
    BY <1>6, <1>a DEF Reset, NextMessage, Forgotten, MsgFields
  <2> QED BY <2>2, <2>3 DEF LeftGood
<1>7. ASSUME NEW hashed \in BOOLEAN, SetIv(hashed) PROVE LeftGood(h', msg')
  <2> DEFINE iv == Nonce(msg.no + 1, hashed)
             m == Message(msg.no + 1, iv, h, Clean)
             x == [h EXCEPT !.disallow = h.fips]
             y == [h EXCEPT !.disallow = h.fips, !.iv = FALSE, !.tag = FALSE]
  <2>1. /\ h' = GcmSetiv(h, iv).h
        /\ msg' = IF ~GcmSetiv(h, iv).ok THEN msg ELSE m
    BY <1>7 DEF SetIv, Setiv
  <2> HIDE DEF iv
  <2>2. IsHandle(x) /\ x.mac = h.mac /\ y.mac = h.mac /\ y.tag = FALSE
    BY <1>a DEF IsHandle, Fields
  <2>3. m.aad = 0 /\ (m.clean => h.mac.buf = <<>>)
    BY <1>c DEF Message
  <2>4. \/ h' = y /\ msg' = msg
        \/ h' = GcmInitiv(x, iv) /\ msg' = m
    BY <2>1 DEF GcmSetiv, Refused, Done, Result
  <2> HIDE DEF m, x, y
  <2>5. CASE h' = y /\ msg' = msg
    BY <2>2, <2>5, <1>b DEF LeftGood
  <2>6. CASE h' = GcmInitiv(x, iv) /\ msg' = m
    <3>1. LeftGood(GcmInitiv(x, iv), m)
      BY <2>2, <2>3, InitivLeft
    <3> QED BY <3>1, <2>6
  <2> QED BY <2>4, <2>5, <2>6
<1>8. ASSUME NEW n \in AadChunks, DoAuthenticate(n) PROVE LeftGood(h', msg')
  BY <1>8, <1>a, <1>b, AuthLeft, HandleAssumption
<1>9. ASSUME NEW n \in DataChunks, NEW way \in {"encrypt", "decrypt"}, DoCrypt(n, way)
      PROVE  LeftGood(h', msg')
  BY <1>9, <1>a, <1>b, CryptLeft, HandleAssumption
<1>10. ASSUME NEW forged \in BOOLEAN, CheckTag(forged) PROVE LeftGood(h', msg')
  <2> DEFINE r == GcmTag(h)
  <2>1. h' = r.h /\ (r.h.iv = h.iv => msg' = msg)
    <3>1. MakeTag(h, TRUE) = r
      BY DEF MakeTag
    <3> HIDE DEF r
    <3> QED BY <3>1, <1>10 DEF CheckTag
  <2>2. LeftGood(r.h, msg) /\ r.h.iv = h.iv
    BY <1>a, <1>b, TagLeft
  <2> HIDE DEF r
  <2> QED BY <2>1, <2>2
<1>11. CASE UNCHANGED vars
  BY <1>11, <1>b DEF vars
<1>12. ~Finalize /\ (\A n \in {8, 16} : ~SetTaglen(n))
       /\ (\A d \in DataChunks, a \in AadChunks : ~SetLengths(d, a))
       /\ (\A n \in DataChunks, f \in BOOLEAN : ~SetDecryptionTag(n, f))
  BY DEF Finalize, SetTaglen, SetLengths, SetDecryptionTag, OneShot
<1> QED BY <1>1, <1>2, <1>3, <1>4, <1>5, <1>6, <1>7, <1>8, <1>9, <1>10, <1>11, <1>12 DEF Next

-----------------------------------------------------------------------------
(* The calls *)

\* What is claimed of a GCM handle, its message and what the last call returned.
GcmGood(g, m, l) ==
  /\ g.keyno \in Nat /\ (g.key => g.keyno # 0)
  /\ m.whole => GcmWhole(g, m)
  /\ m.whole /\ m.clean =>
       /\ l.op \in {"encrypt", "decrypt"} /\ l.ok =>
            l.value = SubSeq(Made(m), m.data - Len(l.value) + 1, m.data)
       /\ l.op = "gettag" => l.value = Tag(m)
       /\ l.op = "checktag" /\ l.ok => l.value = Tag(m)

\* The invariant.
GcmInv == mode = "gcm" => GcmGood(h, msg, last)

\* The mode never changes, so what depends on it is the same after a step.
LEMMA GcmPrimed ==
  ASSUME mode = "gcm", mode' = mode, GcmGood(h', msg', last')
  PROVE  GcmInv'
<1>1. FirstCounter(msg)' = FirstCounter(msg')
  BY DEF FirstCounter, Omac
<1>2. \A i : Stream(msg, i)' = Stream(msg', i)
  BY <1>1 DEF Stream
<1>3. Made(msg)' = Made(msg')
  BY <1>2 DEF Made, OneShot
<1>4. CipherText(msg)' = CipherText(msg')
  BY <1>3 DEF CipherText
<1>5. Tag(msg)' = Tag(msg')
  BY <1>1, <1>4 DEF Tag, OneShot
<1>6. LoOf(msg)' = LoOf(msg')
  BY <1>1 DEF LoOf
<1>7. ASSUME NEW base PROVE InStream(h', msg', base) => InStream(h, msg, base)'
  <2>1. \A i : StreamByte(msg'.key, base, LoOf(msg'), i) = StreamByte(msg.key, base, LoOf(msg), i)'
    BY <1>6 DEF StreamByte, CtrOf
  <2>2. \A q : Placed(h', msg'.key, base, LoOf(msg'), msg'.data, q)
                 => Placed(h, msg.key, base, LoOf(msg), msg.data, q)'
    BY <1>6 DEF Placed, CtrOf
  <2> QED BY <2>1, <2>2, <1>1 DEF InStream
<1>8. GcmMac(h', msg') => GcmMac(h, msg)'
  BY <1>1, <1>4 DEF GcmMac, AadOf
<1>9. GcmWhole(h', msg') => GcmWhole(h, msg)'
  <2>1. (\E base : InStream(h', msg', base)) => \E base : InStream(h, msg, base)'
    BY <1>7
  <2> QED BY <2>1, <1>5, <1>8 DEF GcmWhole
<1> QED BY <1>3, <1>5, <1>9 DEF GcmInv, GcmGood

\* The invariant says what the properties do.
LEMMA GcmSays ==
  ASSUME mode = "gcm", GcmInv
  PROVE  Exact /\ Verified
  BY DEF GcmInv, GcmGood, Exact, Verified, Tracked, OutputRight, TagRight, OneShot

\* A step that returned nothing and kept the key.
LEMMA GcmQuiet ==
  ASSUME NEW g, NEW m, NEW l, GcmGood(g, m, l), NEW y, y.keyno = g.keyno, y.key = g.key,
         NEW x, x.whole => GcmWhole(y, x)
  PROVE  GcmGood(y, x, Nothing)
  BY DEF GcmGood, Nothing

\* What was said of a message, before and after its default nonce.
LEMMA GcmCurrent ==
  ASSUME mode = "gcm", IsHandle(h), GcmGood(h, msg, last), h.keyno # 0,
         Clean => h.mac.buf = <<>>, NEW m, m = Current, m.whole, NEW a, a = GcmAutoIv(h)
  PROVE  /\ GcmWhole(a, m) /\ IsHandle(a)
         /\ (~h.over => ~a.over) /\ (~h.tag => ~a.tag) /\ (~h.aadfin => ~a.aadfin)
<1>1. h.iv => GcmWhole(h, m)
  BY DEF Current, GcmGood
<1>2. ASSUME ~h.iv
      PROVE  /\ m.key = h.keyno /\ m.iv = ZeroIv /\ (m.clean => h.mac.buf = <<>>)
             /\ m.aad = 0 /\ m.data = 0 /\ m.way = "none" /\ m.used = {}
  BY <1>2 DEF Current, AutoIv, Message
<1> QED BY <1>1, <1>2, GcmAuto

\* gcry_cipher_setiv and gcry_cipher_geniv
LEMMA GcmSetIvGood ==
  ASSUME mode = "gcm", IsHandle(h), GcmGood(h, msg, last), NEW iv, iv.hashed \in BOOLEAN,
         NEW x, IsHandle(x), x.keyno = h.keyno, x.key = h.key, x.mac = h.mac,
         NEW m, m.key = h.keyno, m.whole = h.key, m.clean => h.mac.buf = <<>>,
         m.iv = iv, m.aad = 0, m.data = 0, m.way = "none", m.used = {}
  PROVE  GcmGood(GcmInitiv(x, iv), m, Nothing)
<1> DEFINE y == GcmInitiv(x, iv)
<1>1. y.keyno = h.keyno /\ y.key = h.key
  BY DEF GcmInitiv, GcmHashed, GcmStart, IsHandle, Fields
<1>2. ASSUME m.whole PROVE GcmWhole(y, m)
  <2>1. x.keyno # 0 /\ m.key = x.keyno /\ m.iv.hashed \in BOOLEAN /\ (m.clean => x.mac.buf = <<>>)
    BY <1>2 DEF GcmGood
  <2> QED BY <2>1, GcmStarts
<1> HIDE DEF y
<1>3. GcmGood(y, m, Nothing)
  BY <1>1, <1>2, GcmQuiet
<1> QED BY <1>3 DEF y

\* gcry_cipher_authenticate
LEMMA GcmAuthGood ==
  ASSUME mode = "gcm", IsHandle(h), DOMAIN msg = MsgFields, GcmGood(h, msg, last),
         Clean => h.mac.buf = <<>>, NEW n \in Nat, DoAuthenticate(n)
  PROVE  GcmGood(h', msg', last')
<1> DEFINE m == Current
           inp == AadBytes(m.no, m.aad, n)
           r == GcmAuthenticate(h, inp)
           x == [m EXCEPT !.aad = @ + n,
                          !.parts = IF mode = "siv" THEN Append(@, inp) ELSE @,
                          !.clean = @ /\ (mode = "ccm" => m.data = 0)]
<1>1. /\ h' = r.h /\ last' = Nothing
      /\ msg' = IF r.ok THEN x ELSE IF r.h.iv # h.iv THEN m ELSE msg
  <2>1. Authenticate(h, inp) = r
    BY DEF Authenticate
  <2> HIDE DEF r
  <2> QED BY <2>1, Zenon DEF DoAuthenticate
<1>2. DOMAIN m = MsgFields /\ (h.iv => m = msg)
  BY CurrentIs
<1> HIDE DEF m
<1>3. MoreAad(m, x, n) /\ x.whole = m.whole
  BY <1>2 DEF MoreAad, MsgFields
<1> HIDE DEF x
<1>4. r.h.keyno = h.keyno /\ r.h.key = h.key
  BY GcmKept DEF AutoSet, SameKey
<1>5. ~h.iv => ~msg.whole
  BY DEF GcmGood, GcmWhole
<1>6. CASE h.over \/ h.tag \/ h.aadfin \/ h.datafin \/ h.keyno = 0
  <2>1. r.h = h /\ r.ok = FALSE
    BY <1>6 DEF GcmAuthenticate, Refused, Result
  <2> HIDE DEF r
  <2>2. msg' = msg /\ h' = h
    BY <2>1, <1>1
  <2> QED BY <2>2, <1>1, GcmQuiet DEF GcmGood
<1>7. CASE ~(h.over \/ h.tag \/ h.aadfin \/ h.datafin \/ h.keyno = 0)
  <2> DEFINE a == GcmAutoIv(h)
             b == [a EXCEPT !.aadlen = @ + Len(inp)]
  <2>1. r = GcmAad(b, inp)
    BY <1>7 DEF GcmAuthenticate
  <2> HIDE DEF r
  <2>2. ASSUME m.whole PROVE (r.ok => GcmWhole(r.h, x)) /\ (~r.ok => GcmWhole(r.h, m))
    <3>1. GcmWhole(a, m) /\ IsHandle(a) /\ ~a.over /\ ~a.tag /\ ~a.aadfin
      BY <2>2, <1>7, GcmCurrent DEF m
    <3> HIDE DEF a
    <3>2. r = GcmAad([a EXCEPT !.aadlen = @ + Len(inp)], inp)
      BY <2>1
    <3> HIDE DEF inp
    <3>3. inp = AadBytes(m.no, m.aad, n)
      BY DEF inp
    <3>4. mode = "gcm" /\ n \in Nat
      OBVIOUS
    <3> QED BY ONLY <3>1, <3>2, <3>3, <3>4, <1>3, GcmAadWhole
  <2>3. msg'.whole => GcmWhole(h', msg')
    BY <2>2, <1>1, <1>2, <1>3, <1>5
  <2> QED BY <2>3, <1>1, <1>4, GcmQuiet
<1> QED BY <1>6, <1>7

\* gcry_cipher_encrypt and gcry_cipher_decrypt
LEMMA GcmCryptGood ==
  ASSUME mode = "gcm", IsHandle(h), DOMAIN msg = MsgFields, GcmGood(h, msg, last),
         Clean => h.mac.buf = <<>>, NEW n \in Nat, NEW way \in {"encrypt", "decrypt"}, DoCrypt(n, way)
  PROVE  GcmGood(h', msg', last')
<1> DEFINE c == Current
           m == [c EXCEPT !.way = way]
           inp == DataBytes(m.no, m.data, n)
           enc == way = "encrypt"
           r == GcmCrypt(h, inp, enc)
           x == [m EXCEPT !.data = @ + n, !.used = @ \cup {r.out[i][2] : i \in 1..n}]
<1>1. /\ h' = r.h /\ c.way \in {"none", way}
      /\ msg' = IF r.ok THEN x ELSE IF r.h.iv # h.iv THEN m ELSE msg
      /\ last' = IF r.ok THEN [op |-> way, ok |-> r.ok, value |-> r.out, tag |-> h.tagiv]
                 ELSE Nothing
  <2>0. mode \notin OneShot /\ mode \notin OneShot \cup {"ocb"}
    BY DEF OneShot
  <2>1. Input(m, n) = inp
    BY <2>0 DEF Input
  <2>2. Crypt(h, inp, enc) = r
    BY DEF Crypt
  <2>3. Crypted(m, n, r) = IF r.ok THEN x ELSE IF r.h.iv # h.iv THEN m ELSE msg
    <3> HIDE DEF r, m
    <3> QED BY <2>0 DEF Crypted
  <2> HIDE DEF r, inp
  <2>4. /\ h' = r.h /\ c.way \in {"none", way} /\ msg' = Crypted(m, n, r)
        /\ last' = IF r.ok \/ (mode \in OneShot /\ way = "decrypt")
                   THEN [op |-> way, ok |-> r.ok, value |-> r.out, tag |-> h.tagiv]
                   ELSE Nothing
    BY <2>1, <2>2, Zenon DEF DoCrypt
  <2> QED BY <2>0, <2>3, <2>4
<1>2. DOMAIN c = MsgFields /\ (h.iv => c = msg)
  BY CurrentIs
<1> HIDE DEF c
<1>3. Turns(c, m, way) /\ m.whole = c.whole /\ DOMAIN m = MsgFields
  BY <1>2 DEF Turns, MsgFields
<1> HIDE DEF m
<1>4. r.h.keyno = h.keyno /\ r.h.key = h.key
  <2>1. enc \in BOOLEAN
    OBVIOUS
  <2> HIDE DEF enc
  <2> QED BY <2>1, GcmKept DEF AutoSet, SameKey
<1> HIDE DEF r
<1>5. MoreText(m, x, n, r.out) /\ x.whole = m.whole
  BY <1>3 DEF MoreText, MoreData, MsgFields
<1> HIDE DEF x
<1>6. ~h.iv => ~msg.whole
  BY DEF GcmGood, GcmWhole
<1>7. CASE h.over \/ h.tag \/ h.datafin \/ h.keyno = 0
  <2>1. r.h = h /\ r.ok = FALSE
    BY <1>7 DEF GcmCrypt, Refused, Result, r
  <2>2. msg' = msg /\ h' = h /\ last' = Nothing
    BY <2>1, <1>1
  <2> QED BY <2>2, GcmQuiet DEF GcmGood
<1>8. CASE ~(h.over \/ h.tag \/ h.datafin \/ h.keyno = 0)
  <2> DEFINE a == GcmAutoIv(h)
  <2>1. r = GcmCryptWithIv(a, inp, enc)
    BY <1>8 DEF GcmCrypt, r
  <2>2. ASSUME m.whole
        PROVE  /\ r.ok => Crypts(r.h, x, r.out)
               /\ ~r.ok => GcmWhole(r.h, m) /\ GcmWhole(r.h, c)
    <3>1. GcmWhole(a, c) /\ IsHandle(a) /\ ~a.over /\ ~a.tag
      BY <2>2, <1>3, <1>8, GcmCurrent DEF c
    <3> HIDE DEF a
    <3>2. GcmWhole(a, m)
      BY <3>1, <1>1, <1>3, GcmWay
    <3>3. m.way = IF enc THEN "encrypt" ELSE "decrypt"
      BY <1>3 DEF Turns
    <3>4. inp = DataBytes(m.no, m.data, n) /\ enc \in BOOLEAN /\ n \in Nat /\ mode = "gcm"
      OBVIOUS
    <3> HIDE DEF inp, enc
    <3>5. /\ r.ok => Crypts(r.h, x, r.out)
          /\ ~r.ok => GcmWhole(r.h, m) /\ GcmWhole(r.h, c)
      BY ONLY <2>1, <3>1, <3>2, <3>3, <3>4, <1>5, GcmCryptWhole, SMTT(60)
    <3> QED BY <3>1, <3>5
  <2>3. CASE r.ok
    <3>1. /\ msg' = x /\ h' = r.h
          /\ last' = [op |-> way, ok |-> r.ok, value |-> r.out, tag |-> h.tagiv]
      BY <1>1, <2>3
    <3>2. last'.op = way /\ last'.value = r.out
      BY <3>1
    <3>3. x.whole => Crypts(r.h, x, r.out)
      BY <2>2, <2>3, <1>5
    <3> QED BY <3>1, <3>2, <3>3, <1>4 DEF GcmGood, Crypts
  <2>4. CASE ~r.ok
    <3>1. msg'.whole => GcmWhole(h', msg')
      <4>1. CASE h.iv
        BY <4>1, <2>2, <2>4, <1>1, <1>2, <1>3
      <4>2. CASE ~h.iv
        BY <4>2, <2>2, <2>4, <1>1, <1>6
      <4> QED BY <4>1, <4>2
    <3> QED BY <3>1, <2>4, <1>1, <1>4, GcmQuiet
  <2> QED BY <2>3, <2>4
<1> QED BY <1>7, <1>8

\* gcry_cipher_gettag and gcry_cipher_checktag.  l is what the call returns, and
\* the tag compared with is that of the message if it is right.
LEMMA GcmTagGood ==
  ASSUME mode = "gcm", IsHandle(h), GcmGood(h, msg, last), NEW r, NEW l,
         r = GcmTag(h) \/ (r.h = h /\ r.ok = FALSE),
         \/ ~r.ok /\ l = Nothing
         \/ r.ok /\ l.op = "gettag" /\ l.value = r.h.val
         \/ r.ok /\ l.op = "checktag" /\ (l.ok => r.h.val = l.value)
  PROVE  GcmGood(r.h, msg, l) /\ r.h.iv = h.iv
<1>1. r.h.keyno = h.keyno /\ r.h.key = h.key /\ r.h.iv = h.iv
  BY GcmKept DEF SameIv, SameKey
<1>2. ASSUME msg.whole
      PROVE  GcmWhole(r.h, msg) /\ (r.ok /\ msg.clean => r.h.val = Tag(msg))
  <2>1. GcmWhole(h, msg)
    BY <1>2 DEF GcmGood
  <2>2. CASE r = GcmTag(h)
    BY <2>1, <2>2, GcmTagWhole
  <2>3. CASE r.h = h /\ r.ok = FALSE
    BY <2>1, <2>3
  <2> QED BY <2>2, <2>3
<1>3. h.keyno \in Nat /\ (h.key => h.keyno # 0)
  BY DEF GcmGood
<1> QED BY <1>1, <1>2, <1>3 DEF GcmGood, Nothing

\* The invariant holds of an opened handle.
LEMMA GcmInit == Init => GcmInv
<1> SUFFICES ASSUME Init PROVE GcmInv
  OBVIOUS
<1>1. PICK fips \in BOOLEAN : h = [Opened EXCEPT !.fips = fips]
  BY DEF Init
<1>2. h.keyno = 0 /\ h.key = FALSE
  BY <1>1 DEF Opened
<1>3. msg.whole = FALSE
  BY <1>2 DEF Init, Message
<1> QED BY <1>2, <1>3 DEF GcmInv, GcmGood

\* Every call keeps it.
LEMMA GcmNext == GenInv /\ LeftInv /\ GcmInv /\ [Next]_vars => GcmInv'
<1> SUFFICES ASSUME GenInv, LeftInv, GcmInv, [Next]_vars PROVE GcmInv'
  OBVIOUS
<1>a. IsHandle(h) /\ DOMAIN msg = MsgFields
  BY DEF GenInv
<1>b. CASE mode # "gcm"
  <2>1. mode' = mode
    BY DEF Next, SetKey, SetBadKey, SetEmptyIv, GenIv, GetTag, Finalize, Reset, SetIv, DoAuthenticate,
           DoCrypt, CheckTag, SetLengths, SetTaglen, SetDecryptionTag, vars
  <2> QED BY <2>1, <1>b DEF GcmInv
<1>c. CASE mode = "gcm"
  <2>0. GcmGood(h, msg, last)
    BY <1>c DEF GcmInv
  <2>k. h.keyno \in Nat /\ (h.key => h.keyno # 0)
    BY <2>0 DEF GcmGood
  <2>c. Clean => h.mac.buf = <<>>
    BY <1>c DEF Clean, LeftInv, LeftGood
  <2>p. mode' = mode /\ GcmGood(h', msg', last') => GcmInv'
    BY <1>c, GcmPrimed
  <2>1. CASE SetKey
    <3>1. /\ h' = [h EXCEPT !.keyno = @ + 1, !.key = TRUE]
          /\ msg' = [msg EXCEPT !.whole = FALSE] /\ mode' = mode
      BY <2>1, <1>c DEF SetKey, Rekeyed, NextMessage
    <3>2. h'.keyno = h.keyno + 1
      BY <3>1, <1>a DEF IsHandle, Fields
    <3>3. msg'.whole = FALSE
      BY <3>1, <1>a DEF MsgFields
    <3> QED BY <3>1, <3>2, <3>3, <2>k, <2>p DEF GcmGood
  <2>2. CASE SetBadKey
    <3>1. /\ h' = [h EXCEPT !.key = FALSE]
          /\ msg' = [msg EXCEPT !.whole = FALSE] /\ mode' = mode
      BY <2>2, <1>c DEF SetBadKey
    <3>2. h'.keyno = h.keyno /\ h'.key = FALSE
      BY <3>1, <1>a DEF IsHandle, Fields
    <3>3. msg'.whole = FALSE
      BY <3>1, <1>a DEF MsgFields
    <3> QED BY <3>1, <3>2, <3>3, <2>k, <2>p DEF GcmGood
  <2>3. CASE GenIv
    <3> DEFINE iv == Nonce(100 + dynamic, FALSE)
               m == [Message(msg.no + 1, iv, h, Clean) EXCEPT !.generated = TRUE]
    <3>1. h' = GcmInitiv(h, iv) /\ msg' = m /\ last' = Nothing /\ mode' = mode
      BY <2>3 DEF GenIv, GcmGeniv, Done, Result
    <3>2. iv.hashed \in BOOLEAN
      BY DEF Nonce
    <3> HIDE DEF iv
    <3>3. /\ m.key = h.keyno /\ m.whole = h.key /\ (m.clean => h.mac.buf = <<>>)
          /\ m.iv = iv /\ m.aad = 0 /\ m.data = 0 /\ m.way = "none" /\ m.used = {}
      BY <2>c DEF Message
    <3> HIDE DEF m
    <3>4. GcmGood(GcmInitiv(h, iv), m, Nothing)
      BY <3>2, <3>3, <2>0, <1>a, <1>c, GcmSetIvGood
    <3> QED BY <3>1, <3>4, <2>p
  <2>4. CASE GetTag
    <3> DEFINE r == GcmGetTag(h)
    <3>1. /\ h' = r.h /\ mode' = mode
          /\ r.h.iv = h.iv => msg' = msg
          /\ last' = IF r.ok THEN Returned("gettag", TRUE, r.h.val) ELSE Nothing
      <4>1. MakeTag(h, FALSE) = r
        BY <1>c DEF MakeTag
      <4> HIDE DEF r
      <4> QED BY <4>1, <2>4 DEF GetTag
    <3>2. r = GcmTag(h) \/ (r.h = h /\ r.ok = FALSE)
      BY DEF GcmGetTag, Refused, Result
    <3> HIDE DEF r
    <3>3. \/ ~r.ok /\ last' = Nothing
          \/ r.ok /\ last'.op = "gettag" /\ last'.value = r.h.val
      BY <3>1 DEF Returned
    <3>4. GcmGood(r.h, msg, last') /\ r.h.iv = h.iv
      BY <3>2, <3>3, <2>0, <1>a, <1>c, GcmTagGood
    <3> QED BY <3>1, <3>4, <2>p
  <2>5. CASE Finalize
    BY <2>5, <1>c DEF Finalize
  <2>6. CASE Reset
    <3>1. h' = WasReset(h) /\ msg' = Forgotten([msg EXCEPT !.whole = FALSE]) /\ mode' = mode
      BY <2>6, <1>c DEF Reset, NextMessage
    <3>2. h'.keyno = h.keyno /\ h'.key = h.key
      <4> DEFINE u == [Opened EXCEPT !.fips = h.fips]
                 v == [u EXCEPT !.keyno = h.keyno]
                 w == [v EXCEPT !.key = h.key]
      <4>1. IsHandle(u)
        BY OpenedIs DEF IsHandle
      <4>2. h' = w
        BY <3>1 DEF WasReset
      <4> HIDE DEF u
      <4>3. IsHandle(v) /\ v.keyno = h.keyno
        BY <4>1 DEF IsHandle, Fields
      <4> HIDE DEF v
      <4>4. w.keyno = h.keyno /\ w.key = h.key
        BY <4>3 DEF IsHandle, Fields
      <4> HIDE DEF w
      <4> QED BY <4>2, <4>4
    <3>3. msg'.whole = FALSE
      BY <3>1, <1>a DEF Forgotten, MsgFields
    <3> QED BY <3>1, <3>2, <3>3, <2>k, <2>p DEF GcmGood
  <2>7. ASSUME NEW hashed \in BOOLEAN, SetIv(hashed) PROVE GcmInv'
    <3> DEFINE iv == Nonce(msg.no + 1, hashed)
               m == Message(msg.no + 1, iv, h, Clean)
               x == [h EXCEPT !.disallow = h.fips]
    <3>1. /\ h' = GcmSetiv(h, iv).h /\ last' = Nothing /\ mode' = mode
          /\ msg' = IF ~GcmSetiv(h, iv).ok THEN msg ELSE m
      BY <2>7, <1>c DEF SetIv, Setiv
    <3>2. iv.hashed \in BOOLEAN
      BY DEF Nonce
    <3> HIDE DEF iv
    <3>3. CASE iv.hashed /\ h.keyno = 0
      <4>1. GcmSetiv(h, iv).ok = FALSE
        BY <3>3 DEF GcmSetiv, Refused, Result
      <4>2. h'.keyno = h.keyno /\ h'.key = h.key
        <5>1. SameKey(h, GcmSetiv(h, iv).h)
          BY <1>a, GcmSetsIv
        <5> QED BY <5>1, <3>1 DEF SameKey
      <4>3. ~msg.whole /\ msg' = msg
        BY <4>1, <3>1, <3>3, <2>0 DEF GcmGood, GcmWhole
      <4> QED BY <4>2, <4>3, <3>1, <2>k, <2>p DEF GcmGood
    <3>4. CASE ~(iv.hashed /\ h.keyno = 0)
      <4>1. IsHandle(x) /\ x.keyno = h.keyno /\ x.key = h.key /\ x.mac = h.mac
        BY <1>a DEF IsHandle, Fields
      <4> HIDE DEF x
      <4>2. h' = GcmInitiv(x, iv) /\ msg' = m
        BY <3>1, <3>4 DEF GcmSetiv, Done, Result, x
      <4>3. /\ m.key = h.keyno /\ m.whole = h.key /\ (m.clean => h.mac.buf = <<>>)
            /\ m.iv = iv /\ m.aad = 0 /\ m.data = 0 /\ m.way = "none" /\ m.used = {}
        BY <2>c DEF Message
      <4> HIDE DEF m
      <4>4. GcmGood(GcmInitiv(x, iv), m, Nothing)
        BY <4>1, <4>3, <3>2, <2>0, <1>a, <1>c, GcmSetIvGood
      <4> QED BY <4>2, <4>4, <3>1, <2>p
    <3> QED BY <3>3, <3>4
  <2>8. ASSUME NEW n \in AadChunks, DoAuthenticate(n) PROVE GcmInv'
    <3>1. n \in Nat /\ mode' = mode
      BY <2>8, HandleAssumption DEF DoAuthenticate
    <3> QED BY <3>1, <2>8, <2>0, <2>c, <2>p, <1>a, <1>c, GcmAuthGood
  <2>9. ASSUME NEW n \in DataChunks, NEW way \in {"encrypt", "decrypt"}, DoCrypt(n, way)
        PROVE  GcmInv'
    <3>1. n \in Nat /\ mode' = mode
      BY <2>9, HandleAssumption DEF DoCrypt
    <3> QED BY <3>1, <2>9, <2>0, <2>c, <2>p, <1>a, <1>c, GcmCryptGood
  <2>10. ASSUME NEW forged \in BOOLEAN, CheckTag(forged) PROVE GcmInv'
    <3> DEFINE r == GcmTag(h)
    <3>1. PICK tag : /\ h' = r.h /\ mode' = mode
                     /\ r.h.iv = h.iv => msg' = msg
                     /\ last' = IF r.ok THEN Returned("checktag", r.h.val = tag, tag)
                                ELSE Nothing
      <4>1. MakeTag(h, TRUE) = r
        BY <1>c DEF MakeTag
      <4> HIDE DEF r
      <4> QED BY <4>1, <2>10 DEF CheckTag
    <3> HIDE DEF r
    <3>2. r = GcmTag(h)
      BY DEF r
    <3>3. \/ ~r.ok /\ last' = Nothing
          \/ r.ok /\ last'.op = "checktag" /\ (last'.ok => r.h.val = last'.value)
      BY <3>1 DEF Returned
    <3>4. GcmGood(r.h, msg, last') /\ r.h.iv = h.iv
      BY <3>2, <3>3, <2>0, <1>a, <1>c, GcmTagGood
    <3> QED BY <3>1, <3>4, <2>p
  <2>11. ASSUME NEW data \in DataChunks, NEW aad \in AadChunks, SetLengths(data, aad)
         PROVE  GcmInv'
    BY <2>11, <1>c DEF SetLengths
  <2>12. ASSUME NEW n \in {8, 16}, SetTaglen(n) PROVE GcmInv'
    BY <2>12, <1>c DEF SetTaglen
  <2>13. ASSUME NEW n \in DataChunks, NEW forged \in BOOLEAN, SetDecryptionTag(n, forged)
         PROVE  GcmInv'
    BY <2>13, <1>c DEF SetDecryptionTag, OneShot
  <2>14. CASE UNCHANGED vars
    <3>1. h' = h /\ msg' = msg /\ last' = last /\ mode' = mode
      BY <2>14 DEF vars
    <3> QED BY <3>1, <2>0, <2>p
  <2>15. CASE SetEmptyIv
    <3>1. h'.keyno = h.keyno /\ h'.key = h.key /\ mode' = mode
      BY <2>15, <1>a, EmptyIvIs DEF SetEmptyIv, SameKey
    <3>2. msg'.whole = FALSE
      BY <2>15, <1>a DEF SetEmptyIv, MsgFields
    <3> QED BY <3>1, <3>2, <2>k, <2>p DEF GcmGood
  <2> QED BY <2>1, <2>2, <2>3, <2>4, <2>5, <2>6, <2>7, <2>8, <2>9, <2>10, <2>11,
             <2>12, <2>13, <2>14, <2>15 DEF Next
<1> QED BY <1>b, <1>c

-----------------------------------------------------------------------------
(* The key stream is used once *)

\* Numbers less than M apart have different rests.
LEMMA RestsApart ==
  ASSUME NEW M \in Nat \ {0}, NEW x \in Nat, NEW a \in 0..(M - 1), NEW b \in 0..(M - 1),
         (x + a) % M = (x + b) % M
  PROVE  a = b
<1> DEFINE p == (x + a) \div M
           q == (x + b) \div M
           s == (x + a) % M
<1>1. /\ p \in Nat /\ q \in Nat /\ s \in 0..(M - 1)
      /\ x + a = M * p + s /\ x + b = M * q + s
  BY DivMod
<1> HIDE DEF p, q, s
<1>2. M * p \in Int /\ M * q \in Int
  BY <1>1
<1>3. CASE p < q
  <2>1. M * (p + 1) <= M * q
    BY <1>1, <1>3, MultMono
  <2>2. M * (p + 1) = M * p + M
    BY <1>1
  <2>3. M * (p + 1) \in Int
    BY <1>1
  <2> QED BY <1>1, <1>2, <2>1, <2>2, <2>3
<1>4. CASE q < p
  <2>1. M * (q + 1) <= M * p
    BY <1>1, <1>4, MultMono
  <2>2. M * (q + 1) = M * q + M
    BY <1>1
  <2>3. M * (q + 1) \in Int
    BY <1>1
  <2> QED BY <1>1, <1>2, <2>1, <2>2, <2>3
<1>5. CASE p = q
  BY <1>1, <1>2, <1>5
<1> QED BY <1>1, <1>3, <1>4, <1>5

\* The counter blocks of a message are fewer than the counter has values.
LEMMA FewCounters ==
  ASSUME NEW d \in 0..MaxData, NEW i \in 1..d
  PROVE  /\ (i - 1) \div BlockLen \in 0..(CtrMod - 3)
         /\ i - 1 = BlockLen * ((i - 1) \div BlockLen) + ((i - 1) % BlockLen)
         /\ (i - 1) % BlockLen \in 0..(BlockLen - 1)
<1> DEFINE q == (i - 1) \div BlockLen
           r == (i - 1) % BlockLen
<1>1. MaxData \in Nat /\ MaxData <= (CtrMod - 2) * BlockLen /\ CtrMod \in Nat /\ BlockLen \in Nat \ {0}
  BY ModesAssumption, BlockLenAssumption
<1>2. q \in Nat /\ r \in 0..(BlockLen - 1) /\ i - 1 = BlockLen * q + r /\ i - 1 \in Nat
  BY <1>1, DivMod
<1> HIDE DEF q, r
<1>3. (CtrMod - 2) * BlockLen = BlockLen * (CtrMod - 2) /\ BlockLen * (CtrMod - 2) \in Int
      /\ BlockLen * q \in Int
  BY <1>1, <1>2
<1>4. ASSUME q >= CtrMod - 2 PROVE FALSE
  <2>1. BlockLen * (CtrMod - 2) <= BlockLen * q
    BY <1>1, <1>2, <1>4, MultMono
  <2> QED BY <2>1, <1>1, <1>2, <1>3
<1>5. q \in 0..(CtrMod - 3)
  BY <1>1, <1>2, <1>4
<1> QED BY <1>2, <1>5 DEF q, r

\* No two bytes of the stream are the same, and none is of the first counter block.
LEMMA StreamApart ==
  ASSUME NEW k, NEW base, NEW lo \in Nat, lo < CtrMod, NEW d \in 0..MaxData, NEW i \in 1..d
  PROVE  /\ StreamByte(k, base, lo, i)[5] # lo
         /\ \A j \in 1..d : StreamByte(k, base, lo, i) = StreamByte(k, base, lo, j) => i = j
<1>1. CtrMod \in Nat \ {0} /\ BlockLen \in Nat \ {0}
  BY ModesAssumption, BlockLenAssumption
<1>2. ASSUME NEW n \in 1..d
      PROVE  /\ StreamByte(k, base, lo, n)[5] = (lo + 1 + (n - 1) \div BlockLen) % CtrMod
             /\ StreamByte(k, base, lo, n)[6] = ((n - 1) % BlockLen) + 1
  BY DEF StreamByte, KeyByte, CtrOf
<1>3. ASSUME NEW n \in 1..d
      PROVE  /\ (n - 1) \div BlockLen \in 0..(CtrMod - 3)
             /\ n - 1 = BlockLen * ((n - 1) \div BlockLen) + ((n - 1) % BlockLen)
             /\ (n - 1) % BlockLen \in 0..(BlockLen - 1)
  BY FewCounters
<1>4. StreamByte(k, base, lo, i)[5] # lo
  <2> DEFINE q == (i - 1) \div BlockLen
  <2>1. q \in 0..(CtrMod - 3)
    BY <1>3
  <2>2. StreamByte(k, base, lo, i)[5] = (lo + 1 + q) % CtrMod
    BY <1>2
  <2> HIDE DEF q
  <2>3. 0 \in 0..(CtrMod - 1) /\ q + 1 \in 0..(CtrMod - 1) /\ q + 1 # 0
    BY <2>1, <1>1
  <2>4. (lo + 0) % CtrMod # (lo + (q + 1)) % CtrMod
    BY <2>3, <1>1, RestsApart
  <2>5. lo + 0 = lo /\ lo % CtrMod = lo /\ lo + (q + 1) = lo + 1 + q
    <3>1. lo = CtrMod * 0 + lo /\ lo \in 0..(CtrMod - 1)
      BY <1>1
    <3>2. lo % CtrMod = lo
      BY <3>1, <1>1, DivUnique
    <3> QED BY <3>2, <2>1
  <2> QED BY <2>2, <2>4, <2>5
<1>5. ASSUME NEW j \in 1..d, StreamByte(k, base, lo, i) = StreamByte(k, base, lo, j)
      PROVE  i = j
  <2> DEFINE p == (i - 1) \div BlockLen
             q == (j - 1) \div BlockLen
             s == (i - 1) % BlockLen
             t == (j - 1) % BlockLen
  <2>1. /\ p \in 0..(CtrMod - 3) /\ q \in 0..(CtrMod - 3)
        /\ i - 1 = BlockLen * p + s /\ j - 1 = BlockLen * q + t
        /\ s \in 0..(BlockLen - 1) /\ t \in 0..(BlockLen - 1)
    BY <1>3
  <2>2. (lo + 1 + p) % CtrMod = (lo + 1 + q) % CtrMod /\ s + 1 = t + 1
    BY <1>2, <1>5
  <2> HIDE DEF p, q, s, t
  <2>3. p \in 0..(CtrMod - 1) /\ q \in 0..(CtrMod - 1) /\ lo + 1 \in Nat
    BY <2>1, <1>1
  <2>4. p = q
    <3> DEFINE l == lo + 1
    <3>1. l \in Nat /\ (l + p) % CtrMod = (l + q) % CtrMod
      BY <2>2, <2>3
    <3> HIDE DEF l
    <3> QED BY ONLY <3>1, <2>3, <1>1, RestsApart
  <2>5. s = t
    BY <2>1, <2>2, <1>1
  <2>6. BlockLen * p \in Int
    BY <2>1, <1>1
  <2> QED BY <2>1, <2>4, <2>5, <2>6
<1> QED BY <1>4, <1>5

\* As many bytes were used as the message has.
LEMMA GcmOnce ==
  ASSUME mode = "gcm", GcmWhole(h, msg), msg.data > 0
  PROVE  StreamOnce
<1> DEFINE d == msg.data
           lo == LoOf(msg)
<1>1. d \in 0..MaxData /\ d \in Nat /\ d > 0 /\ msg.iv.hashed \in BOOLEAN
  BY ModesAssumption DEF GcmWhole
<1>2. GcmFirst(msg)
  BY <1>1, GcmCounter
<1>3. lo \in Nat /\ lo < CtrMod
  <2>1. 1 \in 1..d
    BY <1>1
  <2>2. 0 \in 0..(CtrMod - 3) \/ \E z : z \in 0..(CtrMod - 3)
    BY <1>1, <2>1, FewCounters
  <2>3. CtrMod > 1
    BY <2>2, ModesAssumption
  <2> QED BY <1>2, <2>3, ModesAssumption DEF GcmFirst
<1>4. PICK base : msg.used = {StreamByte(msg.key, base, lo, i) : i \in 1..d}
  BY DEF GcmWhole, InStream
<1> DEFINE S(i) == StreamByte(msg.key, base, lo, i)
           f == [i \in 1..d |-> S(i)]
<1> HIDE DEF d, lo
<1>5. \A i \in 1..d : S(i)[5] # lo /\ \A j \in 1..d : S(i) = S(j) => i = j
  BY <1>1, <1>3, StreamApart
<1> HIDE DEF S
<1>6. msg.used = {S(i) : i \in 1..d}
  BY <1>4 DEF S
<1>7. f \in Bijection(1..d, msg.used)
  <2>1. f \in [1..d -> msg.used]
    BY <1>6
  <2>2. f \in Injection(1..d, msg.used)
    BY <2>1, <1>5 DEF Injection, IsInjective
  <2>3. f \in Surjection(1..d, msg.used)
    BY <2>1, <1>6 DEF Surjection
  <2> QED BY <2>2, <2>3 DEF Bijection
<1>8. Cardinality(msg.used) = d
  <2>1. ExistsBijection(1..d, msg.used)
    BY <1>7 DEF ExistsBijection
  <2> QED BY <2>1, <1>1, FS_CountingElements
<1>9. \A b \in msg.used : b[5] # lo
  BY <1>5, <1>6
<1> QED BY <1>8, <1>9 DEF StreamOnce, d, lo, LoOf

-----------------------------------------------------------------------------
(* The assertion in gcm_ctr_encrypt *)

\* No assertion has failed, and counter and rest are such that none will, for a message
\* of which nothing else need be known.
GcmLive(g) ==
  /\ g.dead = FALSE /\ g.unused \in 0..(BlockLen - 1)
  /\ DOMAIN g.ctr = {"base", "hi", "lo"} /\ g.ctr.lo \in 0..(CtrMod - 1)

\* Counting on keeps a counter.
LEMMA IncLive ==
  ASSUME NEW c, DOMAIN c = {"base", "hi", "lo"}, c.lo \in 0..(CtrMod - 1), NEW n \in Nat
  PROVE  /\ DOMAIN Inc(c, n) = {"base", "hi", "lo"} /\ Inc(c, n).lo = (c.lo + n) % CtrMod
         /\ Inc(c, n).lo \in 0..(CtrMod - 1)
<1>1. DOMAIN Inc(c, n) = {"base", "hi", "lo"} /\ Inc(c, n).lo = (c.lo + n) % CtrMod
  BY DEF Inc
<1>2. CtrMod \in Nat \ {0} /\ c.lo + n \in Nat
  BY ModesAssumption
<1>3. (c.lo + n) % CtrMod \in 0..(CtrMod - 1)
  BY <1>2
<1> QED BY <1>1, <1>3

\* A turn of gcm_ctr_encrypt that is cut at the overflow of the counter ends with the
\* counter at 0, and takes no more than there is.
LEMMA TurnLive ==
  ASSUME NEW g, IsHandle(g), GcmLive(g), NEW inp, IsSeq(inp), NEW out
  PROVE  \E t, n : /\ GcmCtrTurn(CtrLoop(g, inp, out)) = t /\ IsHandle(t.h) /\ GcmLive(t.h)
                   /\ n \in 0..Len(inp) /\ t.in = Behind(inp, n)
<1> DEFINE s == CtrLoop(g, inp, out)
           u == g.unused
           l == g.ctr.lo
           k == g.keyno
           more == IF Len(inp) > u THEN Len(inp) - u ELSE 0
           num == (more + BlockLen - 1) \div BlockLen
           wrap == more > 0 /\ num + l >= CtrMod
           n == IF wrap THEN Lesser((CtrMod - l) * BlockLen + u, Len(inp)) ELSE Len(inp)
           r == CtrEncrypt(g, First(inp, n), k)
<1>0. /\ BlockLen \in Nat \ {0} /\ Len(inp) \in Nat /\ CtrMod \in Nat \ {0}
      /\ u \in 0..(BlockLen - 1) /\ l \in 0..(CtrMod - 1)
  BY BlockLenAssumption, IsSeqLen, ModesAssumption DEF GcmLive
<1>2. GcmCtrTurn(s) = GcmTurned(s, r, n, wrap)
  BY DEF GcmCtrTurn, CtrLoop
<1>3. /\ s.h = g /\ s.in = inp /\ s.out = out
  BY DEF CtrLoop
<1> HIDE DEF s
<1>4. (CtrMod - l) * BlockLen = BlockLen * (CtrMod - l) /\ CtrMod - l \in Nat
      /\ BlockLen * (CtrMod - l) \in Nat
  <2>1. CtrMod - l \in Nat
    BY <1>0
  <2> HIDE DEF l
  <2> QED BY <2>1, <1>0, MultAdd
<1>5. /\ n \in 0..Len(inp)
      /\ wrap => n <= BlockLen * (CtrMod - l) + u
      /\ wrap => n = BlockLen * (CtrMod - l) + u \/ n = Len(inp)
      /\ ~wrap => n = Len(inp)
  <2>1. CASE wrap
    <3> DEFINE y == BlockLen * (CtrMod - l) + u
    <3>1. n = Lesser(y, Len(inp)) /\ y \in Nat
      BY <2>1, <1>4, <1>0, SMTT(60)
    <3> HIDE DEF n, y, wrap
    <3>2. n \in Nat /\ n <= y /\ n <= Len(inp) /\ (n = y \/ n = Len(inp))
      BY <3>1, <1>0, LesserIs
    <3> QED BY <3>2, <1>0, <2>1 DEF y
  <2>2. CASE ~wrap
    BY <2>2, <1>0
  <2> QED BY <2>1, <2>2
<1> HIDE DEF n
<1>6. IsSeq(First(inp, n)) /\ Len(First(inp, n)) = n
  BY <1>5, FirstIs
<1>7. PICK blocks, v : CtrRan(g, First(inp, n), k, r, blocks, v)
  BY <1>0, <1>6, CtrEncryptIs
<1> HIDE DEF r
<1>8. Run(n, u, blocks, v) /\ blocks \in Nat /\ v \in 0..(BlockLen - 1) /\ n \in Nat
  BY <1>5, <1>6, <1>7, <1>0 DEF CtrRan, Run
<1>9. /\ Same(g, r.h, {"ctr", "last", "unused"}) /\ IsHandle(r.h)
      /\ r.h.ctr = Inc(g.ctr, blocks) /\ r.h.unused = v
  BY <1>7 DEF CtrRan, Same
<1>a. r.h.dead = FALSE
  <2>1. "dead" \in Fields \ {"ctr", "last", "unused"}
    BY DEF Fields
  <2> QED BY <2>1, <1>9 DEF Same, GcmLive
<1>b. /\ DOMAIN r.h.ctr = {"base", "hi", "lo"} /\ r.h.ctr.lo = (l + blocks) % CtrMod
      /\ r.h.ctr.lo \in 0..(CtrMod - 1)
  <2>1. DOMAIN g.ctr = {"base", "hi", "lo"} /\ g.ctr.lo \in 0..(CtrMod - 1) /\ blocks \in Nat
    BY <1>8 DEF GcmLive
  <2> QED BY ONLY <2>1, <1>9, IncLive
<1>10. CASE ~wrap
  <2>1. GcmTurned(s, r, n, wrap) = CtrLoop(r.h, Behind(inp, n), out \o r.out)
    <3> HIDE DEF wrap
    <3> QED BY <1>3, <1>10 DEF GcmTurned, CtrLoop
  <2>2. GcmLive(r.h)
    BY <1>8, <1>9, <1>a, <1>b DEF GcmLive
  <2> DEFINE t == CtrLoop(r.h, Behind(inp, n), out \o r.out)
  <2>3. t.h = r.h /\ t.in = Behind(inp, n)
    BY DEF CtrLoop
  <2> HIDE DEF t
  <2>4. GcmCtrTurn(s) = t
    BY <1>2, <2>1 DEF t
  <2> QED BY <2>2, <2>3, <2>4, <1>5, <1>9 DEF s
<1>11. CASE wrap
  <2> DEFINE b == CtrMod - l
             x == [r.h EXCEPT !.ctr.hi = g.ctr.hi, !.dead = @ \/ r.h.ctr.lo # 0]
             t == CtrLoop(x, Behind(inp, n), out \o r.out)
  <2>1. blocks = b
    <3>1. n = BlockLen * b + u \/ blocks >= b
      <4>1. CASE n = Len(inp)
        <5>1. more > 0 /\ num + l >= CtrMod /\ n > u /\ more = n - u
          BY <4>1, <1>11, <1>0
        <5>2. num = blocks
          <6>1. ((n - u) + BlockLen - 1) \div BlockLen = blocks
            BY <5>1, <1>8, <1>0, RunBlocks
          <6> QED BY <6>1, <5>1
        <5> HIDE DEF num
        <5> QED BY <5>1, <5>2, <1>0, <1>8
      <4> QED BY <4>1, <1>5, <1>11
    <3>2. n <= BlockLen * b + u /\ b \in Nat
      BY <1>4, <1>5, <1>11
    <3>3. n \in Nat /\ u \in 0..(BlockLen - 1) /\ Run(n, u, blocks, v)
      BY <1>0, <1>8
    <3> HIDE DEF b, u
    <3> QED BY ONLY <3>1, <3>2, <3>3, RunWraps
  <2>2. r.h.ctr.lo = 0
    <3>1. l + blocks = CtrMod /\ CtrMod = CtrMod * 1 + 0 /\ 0 \in 0..(CtrMod - 1)
      BY <2>1, <1>0
    <3>2. CtrMod % CtrMod = 0
      BY <3>1, <1>0, DivUnique
    <3> QED BY <3>1, <3>2, <1>b
  <2>3. /\ IsHandle(x) /\ x.unused = v /\ x.ctr = [r.h.ctr EXCEPT !.hi = g.ctr.hi]
        /\ x.dead = (r.h.dead \/ r.h.ctr.lo # 0)
    BY <1>9 DEF IsHandle, Fields
  <2> HIDE DEF x
  <2>4. x.dead = FALSE
    BY <2>2, <2>3, <1>a
  <2>5. DOMAIN x.ctr = {"base", "hi", "lo"} /\ x.ctr.lo = 0
    BY <2>2, <2>3, <1>b
  <2>6. GcmLive(x)
    BY <2>3, <2>4, <2>5, <1>8, <1>0 DEF GcmLive
  <2>7. GcmTurned(s, r, n, wrap) = t
    <3> HIDE DEF wrap
    <3> QED BY <1>3, <1>11 DEF GcmTurned, CtrLoop, x
  <2>8. t.h = x /\ t.in = Behind(inp, n)
    BY DEF CtrLoop
  <2> HIDE DEF t
  <2>9. GcmCtrTurn(s) = t
    BY <1>2, <2>7
  <2> QED BY <2>3, <2>6, <2>8, <2>9, <1>5 DEF s
<1> QED BY <1>10, <1>11

\* All of gcm_ctr_encrypt.
LEMMA CtrLive ==
  ASSUME NEW g, IsHandle(g), GcmLive(g), NEW inp, IsSeq(inp)
  PROVE  IsHandle(GcmCtrEncrypt(g, inp).h) /\ GcmLive(GcmCtrEncrypt(g, inp).h)
<1>1. PICK t, n : /\ GcmCtrTurn(CtrLoop(g, inp, <<>>)) = t /\ IsHandle(t.h) /\ GcmLive(t.h)
                  /\ n \in 0..Len(inp) /\ t.in = Behind(inp, n)
  BY TurnLive
<1>2. IsSeq(t.in)
  BY <1>1, FirstIs
<1>3. t = CtrLoop(t.h, t.in, t.out)
  <2>1. ASSUME NEW s, NEW r, NEW m, NEW w
        PROVE  LET x == GcmTurned(s, r, m, w) IN x = CtrLoop(x.h, x.in, x.out)
    BY DEF GcmTurned, CtrLoop
  <2> QED BY <1>1, <2>1 DEF GcmCtrTurn
<1>4. PICK x, m : GcmCtrTurn(CtrLoop(t.h, t.in, t.out)) = x /\ IsHandle(x.h) /\ GcmLive(x.h)
  BY <1>1, <1>2, TurnLive
<1> DEFINE y == GcmSecondTurn(t)
<1>5. IsHandle(y.h) /\ GcmLive(y.h)
  BY <1>1, <1>3, <1>4 DEF GcmSecondTurn
<1> HIDE DEF y
<1>6. GcmCtrEncrypt(g, inp).h = y.h
  BY <1>1 DEF GcmCtrEncrypt, GcmOutput, Result, CtrLoop, y
<1> QED BY <1>5, <1>6

\* What the routines around it change has no part in this.
LEMMA SameLive ==
  ASSUME NEW g, NEW x, GcmLive(g), x.dead = g.dead, x.unused = g.unused, x.ctr = g.ctr
  PROVE  GcmLive(x)
  BY DEF GcmLive

\* A nonce starts the counter anew.
LEMMA IvLive ==
  ASSUME NEW g, IsHandle(g), GcmLive(g), NEW iv
  PROVE  /\ GcmLive(GcmSetiv(g, iv).h) /\ GcmLive(GcmGeniv(g, iv).h) /\ GcmLive(GcmAutoIv(g))
<1>1. ASSUME NEW x, IsHandle(x), x.dead = FALSE, NEW base, NEW lo \in Nat, NEW buf
      PROVE  GcmLive(GcmStart(x, [base |-> base, hi |-> 0, lo |-> lo], buf))
  <2> DEFINE c == [base |-> base, hi |-> 0, lo |-> lo]
             y == GcmStart(x, c, buf)
  <2>1. y.dead = FALSE /\ y.unused = 0 /\ y.ctr = [c EXCEPT !.lo = (@ + 1) % CtrMod]
    <3> HIDE DEF c
    <3> QED BY <1>1 DEF GcmStart, IsHandle, Fields
  <2> HIDE DEF y
  <2>2. DOMAIN y.ctr = {"base", "hi", "lo"} /\ y.ctr.lo = (lo + 1) % CtrMod
    BY <2>1
  <2>3. CtrMod \in Nat \ {0} /\ lo + 1 \in Nat /\ 0 \in 0..(BlockLen - 1)
    BY ModesAssumption, BlockLenAssumption
  <2>4. (lo + 1) % CtrMod \in 0..(CtrMod - 1)
    BY <2>3
  <2>5. GcmLive(y)
    BY <2>1, <2>2, <2>3, <2>4 DEF GcmLive
  <2> QED BY <2>5 DEF y
<1>2. ASSUME NEW x, IsHandle(x), x.dead = FALSE, NEW i PROVE GcmLive(GcmInitiv(x, i))
  <2>1. IvLow \in Nat /\ 1 \in Nat
    BY ModesAssumption
  <2> QED BY <2>1, <1>1, <1>2 DEF GcmInitiv, GcmHashed
<1>3. ASSUME NEW i PROVE GcmLive(GcmSetiv(g, i).h)
  <2> DEFINE x == [g EXCEPT !.disallow = g.fips]
             z == [g EXCEPT !.disallow = g.fips, !.iv = FALSE, !.tag = FALSE]
  <2>1. IsHandle(x) /\ x.dead = FALSE
    BY DEF GcmLive, IsHandle, Fields
  <2>2. GcmLive(z)
    <3>1. z.dead = g.dead /\ z.unused = g.unused /\ z.ctr = g.ctr
      BY DEF IsHandle, Fields
    <3> HIDE DEF z
    <3> QED BY <3>1, SameLive
  <2>3. GcmSetiv(g, i) = IF i.hashed /\ g.keyno = 0 THEN Refused(z) ELSE Done(GcmInitiv(x, i))
    BY DEF GcmSetiv
  <2> HIDE DEF x, z
  <2>4. GcmLive(GcmInitiv(x, i))
    BY <2>1, <1>2
  <2>5. Refused(z).h = z /\ Done(GcmInitiv(x, i)).h = GcmInitiv(x, i)
    BY ResultIs
  <2> QED BY ONLY <2>2, <2>3, <2>4, <2>5
<1>4. GcmLive(GcmGeniv(g, iv).h)
  BY <1>2 DEF GcmLive, GcmGeniv, Done, Result
<1>5. GcmLive(GcmAutoIv(g))
  BY <1>3 DEF GcmAutoIv
<1> QED BY <1>3, <1>4, <1>5

\* AAD, data and tags.
LEMMA CallsLive ==
  ASSUME NEW g, IsHandle(g), GcmLive(g), NEW inp, IsSeq(inp), NEW enc
  PROVE  /\ GcmLive(GcmAuthenticate(g, inp).h) /\ GcmLive(GcmCrypt(g, inp, enc).h)
         /\ GcmLive(GcmTag(g).h) /\ GcmLive(GcmGetTag(g).h)
<1> USE DEF Result, Refused, Done
<1> DEFINE a == GcmAutoIv(g)
<1>0. GcmLive(a) /\ IsHandle(a)
  BY IvLive, GcmSetsIv DEF AutoSet, SameKey, Kept
<1> HIDE DEF a
<1>1. GcmLive(GcmAuthenticate(g, inp).h)
  <2> DEFINE x == GcmAad([a EXCEPT !.aadlen = @ + Len(inp)], inp).h
  <2>1. x.dead = a.dead /\ x.unused = a.unused /\ x.ctr = a.ctr
    BY <1>0 DEF GcmAad, IsHandle, Fields
  <2> HIDE DEF x
  <2>2. GcmLive(x)
    BY <2>1, <1>0, SameLive
  <2> QED BY <2>2 DEF GcmAuthenticate, a, x
<1>2. GcmLive(GcmCrypt(g, inp, enc).h)
  <2> DEFINE x == [GcmAadFinish(a) EXCEPT !.datalen = @ + Len(inp)]
             r == GcmCtrEncrypt(x, inp)
             y == GcmHashData(r, inp, enc).h
             z == [x EXCEPT !.over = TRUE]
  <2>1. IsHandle(x) /\ x.dead = a.dead /\ x.unused = a.unused /\ x.ctr = a.ctr
    BY <1>0 DEF GcmAadFinish, IsHandle, Fields
  <2> HIDE DEF x
  <2>2. GcmLive(x)
    BY <2>1, <1>0, SameLive
  <2>3. IsHandle(r.h) /\ GcmLive(r.h)
    BY <2>1, <2>2, CtrLive
  <2> HIDE DEF r
  <2>4. y.dead = r.h.dead /\ y.unused = r.h.unused /\ y.ctr = r.h.ctr
    BY <2>3 DEF GcmHashData, IsHandle, Fields
  <2>5. z.dead = x.dead /\ z.unused = x.unused /\ z.ctr = x.ctr
    BY <2>1 DEF IsHandle, Fields
  <2> HIDE DEF y, z
  <2>6. GcmLive(y) /\ GcmLive(z)
    BY <2>2, <2>3, <2>4, <2>5, SameLive
  <2>7. GcmLive(GcmCryptData(x, inp, enc).h)
    BY <2>6 DEF GcmCryptData, r, y, z
  <2>8. GcmCryptWithIv(a, inp, enc) = IF enc /\ a.disallow THEN Refused(a)
                                      ELSE GcmCryptData(x, inp, enc)
    BY DEF GcmCryptWithIv, x
  <2>9. GcmLive(GcmCryptWithIv(a, inp, enc).h)
    BY <2>7, <2>8, <1>0
  <2> QED BY <2>9 DEF GcmCrypt, a
<1>3. GcmLive(GcmTag(g).h)
  <2> DEFINE x == GcmTag(g).h
  <2>1. x.dead = g.dead /\ x.unused = g.unused /\ x.ctr = g.ctr
    BY DEF GcmTag, GcmTagFrom, IsHandle, Fields
  <2> HIDE DEF x
  <2>2. GcmLive(x)
    BY <2>1, SameLive
  <2> QED BY <2>2 DEF x
<1>4. GcmLive(GcmGetTag(g).h)
  BY <1>3 DEF GcmGetTag
<1> QED BY <1>1, <1>2, <1>3, <1>4

\* The invariant.
LiveInv == mode = "gcm" => GcmLive(h)

\* An opened handle has it,
LEMMA LiveInit == Init => LiveInv
<1> SUFFICES ASSUME Init PROVE LiveInv
  OBVIOUS
<1>1. PICK fips \in BOOLEAN : h = [Opened EXCEPT !.fips = fips]
  BY DEF Init
<1>2. h.dead = FALSE /\ h.unused = 0 /\ h.ctr = NoCtr
  BY <1>1 DEF Opened
<1>3. DOMAIN NoCtr = {"base", "hi", "lo"} /\ NoCtr.lo = 0
  BY DEF NoCtr
<1> QED BY <1>2, <1>3, ModesAssumption, BlockLenAssumption DEF LiveInv, GcmLive

\* and every call keeps.
LEMMA LiveNext == GenInv /\ LiveInv /\ [Next]_vars => LiveInv'
<1> SUFFICES ASSUME GenInv, LiveInv, [Next]_vars PROVE LiveInv'
  OBVIOUS
<1>a. IsHandle(h)
  BY DEF GenInv
<1>m. mode' = mode
  BY DEF Next, SetKey, SetBadKey, SetEmptyIv, GenIv, GetTag, Finalize, Reset, SetIv, DoAuthenticate,
         DoCrypt, CheckTag, SetLengths, SetTaglen, SetDecryptionTag, vars
<1> SUFFICES ASSUME mode = "gcm" PROVE GcmLive(h')
  BY <1>m DEF LiveInv, GcmLive
<1>b. GcmLive(h)
  BY DEF LiveInv
<1>0. ASSUME h'.dead = h.dead, h'.unused = h.unused, h'.ctr = h.ctr PROVE GcmLive(h')
  BY ONLY <1>0, <1>b, SameLive
<1>1. CASE SetKey
  <2>1. h' = [h EXCEPT !.keyno = @ + 1, !.key = TRUE]
    BY <1>1 DEF SetKey, Rekeyed
  <2> QED BY <2>1, <1>0, <1>a DEF IsHandle, Fields
<1>2. CASE SetBadKey
  <2>1. h' = [h EXCEPT !.key = FALSE]
    BY <1>2 DEF SetBadKey
  <2> QED BY <2>1, <1>0, <1>a DEF IsHandle, Fields
<1>3. CASE GenIv
  BY <1>3, <1>a, <1>b, IvLive DEF GenIv
<1>4. CASE GetTag
  <2>1. h' = GcmGetTag(h).h
    BY <1>4 DEF GetTag, MakeTag
  <2>2. IsSeq(<<>>)
    BY EmptyIs
  <2> QED BY <2>1, <2>2, <1>a, <1>b, CallsLive
<1>6. CASE Reset
  <2>1. h' = [Opened EXCEPT !.fips = h.fips, !.keyno = h.keyno, !.key = h.key]
    BY <1>6 DEF Reset, WasReset
  <2>2. h'.dead = FALSE /\ h'.unused = 0 /\ h'.ctr = NoCtr
    BY <2>1 DEF Opened
  <2>3. DOMAIN NoCtr = {"base", "hi", "lo"} /\ NoCtr.lo = 0
    BY DEF NoCtr
  <2> QED BY <2>2, <2>3, ModesAssumption, BlockLenAssumption DEF GcmLive
<1>7. ASSUME NEW hashed \in BOOLEAN, SetIv(hashed) PROVE GcmLive(h')
  <2>1. h' = GcmSetiv(h, Nonce(msg.no + 1, hashed)).h
    BY <1>7 DEF SetIv, Setiv
  <2> QED BY <2>1, <1>a, <1>b, IvLive
<1>8. ASSUME NEW n \in AadChunks, DoAuthenticate(n) PROVE GcmLive(h')
  <2>1. PICK m, inp : inp = AadBytes(m.no, m.aad, n) /\ h' = GcmAuthenticate(h, inp).h
    BY <1>8 DEF DoAuthenticate, Authenticate
  <2>2. n \in Nat
    BY HandleAssumption
  <2>3. IsSeq(inp)
    BY <2>1, <2>2, AadIs
  <2> QED BY <2>1, <2>3, <1>a, <1>b, CallsLive
<1>9. ASSUME NEW n \in DataChunks, NEW way \in {"encrypt", "decrypt"}, DoCrypt(n, way)
      PROVE  GcmLive(h')
  <2>1. PICK m : h' = Crypt(h, Input(m, n), way = "encrypt").h
    BY <1>9 DEF DoCrypt
  <2>2. Input(m, n) = DataBytes(m.no, m.data, n)
    BY DEF Input, OneShot
  <2>3. n \in Nat
    BY HandleAssumption
  <2>4. IsSeq(Input(m, n))
    BY <2>2, <2>3, DataIs
  <2>5. h' = GcmCrypt(h, Input(m, n), way = "encrypt").h
    BY <2>1 DEF Crypt
  <2> QED BY <2>4, <2>5, <1>a, <1>b, CallsLive
<1>10. ASSUME NEW forged \in BOOLEAN, CheckTag(forged) PROVE GcmLive(h')
  <2>1. h' = GcmTag(h).h
    BY <1>10 DEF CheckTag, MakeTag
  <2>2. IsSeq(<<>>)
    BY EmptyIs
  <2> QED BY <2>1, <2>2, <1>a, <1>b, CallsLive
<1>5. CASE SetEmptyIv
  BY <1>5, <1>0, <1>a, EmptyIvIs DEF SetEmptyIv
<1>11. CASE UNCHANGED vars
  BY <1>11, <1>b DEF vars
<1>12. ~Finalize /\ (\A n \in {8, 16} : ~SetTaglen(n))
       /\ (\A d \in DataChunks, a \in AadChunks : ~SetLengths(d, a))
       /\ (\A n \in DataChunks, f \in BOOLEAN : ~SetDecryptionTag(n, f))
  BY DEF Finalize, SetTaglen, SetLengths, SetDecryptionTag, OneShot
<1> QED BY <1>1, <1>2, <1>3, <1>4, <1>5, <1>6, <1>7, <1>8, <1>9, <1>10, <1>11, <1>12 DEF Next

-----------------------------------------------------------------------------
(* The theorems *)

\* A GCM message comes out as the mode defines it, and so does its tag, however its
\* AAD and its data are cut into calls, for every length of a block, every modulus of
\* the counter and every limit, on a handle that was used before if the message before
\* was ended by its tag, or nothing of it was given, or the handle was reset (Clean):
\* gcm_ctr_encrypt keeps to the key stream across calls that end inside a block and
\* across the overflow of the 32 bit counter, and do_ghash_buf hashes the AAD and the
\* ciphertext, each padded once, whatever pieces they come in.
THEOREM CipherGcmExact == Spec => [](mode = "gcm" => Exact)
<1>1. GenInv /\ LeftInv /\ GcmInv => (mode = "gcm" => Exact)
  BY GcmSays
<1>2. GenInv /\ LeftInv /\ GcmInv /\ [Next]_vars => (GenInv /\ LeftInv /\ GcmInv)'
  BY GenNext, LeftNext, GcmNext
<1> QED BY <1>1, <1>2, GenInit, LeftInit, GcmInit, PTL DEF Spec

\* _gcry_cipher_gcm_check_tag accepts only the tag of the message that was decrypted.
THEOREM CipherGcmVerified == Spec => [](mode = "gcm" => Verified)
<1>1. GenInv /\ LeftInv /\ GcmInv => (mode = "gcm" => Verified)
  BY GcmSays
<1>2. GenInv /\ LeftInv /\ GcmInv /\ [Next]_vars => (GenInv /\ LeftInv /\ GcmInv)'
  BY GenNext, LeftNext, GcmNext
<1> QED BY <1>1, <1>2, GenInit, LeftInit, GcmInit, PTL DEF Spec

\* In a GCM message whose nonce came after the key no byte of the key stream encrypts
\* two bytes, and none is taken from the counter block that masks the tag:
\* gcm_check_datalen ends the message before the counter comes round.
THEOREM CipherGcmStreamOnce == Spec => [](mode = "gcm" => StreamOnce)
<1>1. GenInv /\ LeftInv /\ GcmInv => (mode = "gcm" => StreamOnce)
  BY GcmOnce DEF GcmInv, GcmGood, StreamOnce
<1>2. GenInv /\ LeftInv /\ GcmInv /\ [Next]_vars => (GenInv /\ LeftInv /\ GcmInv)'
  BY GenNext, LeftNext, GcmNext
<1> QED BY <1>1, <1>2, GenInit, LeftInit, GcmInit, PTL DEF Spec

\* The assertion of gcm_ctr_encrypt holds, of every call of GCM on every handle, messages
\* whose nonce is older than the key included: a turn of its loop that meets the overflow
\* of the 32 bit counter takes just the blocks up to it, whatever is left of the last
\* block and however long the data is.
THEOREM CipherGcmAssertion == Spec => [](mode = "gcm" => NoAssertion)
<1>1. LiveInv => (mode = "gcm" => NoAssertion)
  BY DEF LiveInv, GcmLive, NoAssertion
<1>2. GenInv /\ LiveInv /\ [Next]_vars => (GenInv /\ LiveInv)'
  BY GenNext, LiveNext
<1> QED BY <1>1, <1>2, GenInit, LiveInit, PTL DEF Spec
=============================================================================
